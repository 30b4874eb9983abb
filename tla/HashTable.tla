------------------------------ MODULE HashTable ------------------------------
(***************************************************************************)
(* What the abstract class HashTable (15445/src/include/hash/hash_table.h) *)
(* promises its callers: a map from keys to values.  Calls are serialised  *)
(* by the table's mutex, and Insert, which may have to reorganise the      *)
(* table, is a call and a return with nothing visible in between.          *)
(***************************************************************************)
CONSTANTS Keys, Values,
          None     \* neither a value nor a call

VARIABLES map,     \* what Find returns for each key: its value, or None
          pending  \* the arguments of the Insert under way, or None

vars == <<map, pending>>

Init == /\ map = [k \in Keys |-> None]
        /\ pending = None

InsertCall(k, v) == /\ pending = None
                    /\ map[k] = None
                    /\ pending' = <<k, v>>
                    /\ UNCHANGED map

InsertReturn == /\ pending # None
                /\ map' = [map EXCEPT ![pending[1]] = pending[2]]
                /\ pending' = None

Remove(k) == /\ pending = None
             /\ map[k] # None
             /\ map' = [map EXCEPT ![k] = None]
             /\ UNCHANGED pending

Next == \/ \E k \in Keys, v \in Values : InsertCall(k, v)
        \/ InsertReturn
        \/ \E k \in Keys : Remove(k)

Spec == Init /\ [][Next]_vars
=============================================================================
