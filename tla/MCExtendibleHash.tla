--------------------------- MODULE MCExtendibleHash ---------------------------
(* Instances of ExtendibleHash for TLC: integer keys, whose std::hash is the *)
(* key itself.                                                               *)
EXTENDS ExtendibleHash

IntHash == [k \in Keys |-> k]
=============================================================================
