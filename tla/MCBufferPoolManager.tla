------------------------- MODULE MCBufferPoolManager -------------------------
(* Instances of BufferPoolManager for TLC. *)
EXTENDS BufferPoolManager, TLC

ClientSymmetry == Permutations(Clients)
=============================================================================
