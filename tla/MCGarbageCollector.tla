------------------------- MODULE MCGarbageCollector -------------------------
(* Instances of GarbageCollector for TLC. *)
EXTENDS GarbageCollector, TLC

\* Thread 0 is shared by transactions that read at their own timestamp,
\* thread 1 runs those that read a snapshot and write.
Separate == {<<0, "SERIALIZABLE">>, <<1, "SNAPSHOT">>}

Symmetry == Permutations(Txns)
=============================================================================
