---------------------------- MODULE MCLRUReplacer ----------------------------
(* Instances of LRUReplacer for TLC. *)
EXTENDS LRUReplacer

ReplacerSymmetry == Permutations(Threads) \cup Permutations(Values)
=============================================================================
