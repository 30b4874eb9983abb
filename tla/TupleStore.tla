------------------------------ MODULE TupleStore ------------------------------
(***************************************************************************)
(* What a page of tuples promises the table above it: tuples stay what they *)
(* are under the slot number they were given, whatever happens to others.   *)
(***************************************************************************)
CONSTANTS Slots, Tuples,
          NoTuple  \* an empty slot

VARIABLE store     \* the tuple in each slot, or NoTuple

Init == store = [i \in Slots |-> NoTuple]

Insert(i, t) == /\ store[i] = NoTuple
                /\ store' = [store EXCEPT ![i] = t]

Update(i, t) == /\ store[i] # NoTuple
                /\ store' = [store EXCEPT ![i] = t]

Delete(i) == /\ store[i] # NoTuple
             /\ store' = [store EXCEPT ![i] = NoTuple]

Next == \E i \in Slots : \/ \E t \in Tuples : Insert(i, t) \/ Update(i, t)
                         \/ Delete(i)

Spec == Init /\ [][Next]_store
=============================================================================
