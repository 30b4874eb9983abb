----------------------------- MODULE LRUReplacer -----------------------------
(***************************************************************************)
(* The page replacer: class LRUReplacer of                                 *)
(* 15445/src/buffer/lru_replacer.cpp, called by several threads.           *)
(*                                                                         *)
(* _orderList is a doubly linked list of values, oldest first, and _map    *)
(* takes a value to the list iterator (the node) that holds it.  Erase and *)
(* Victim are one critical section of _lru_mutex; Insert is two, because   *)
(* it calls Erase before it takes the mutex itself.  A list node has an    *)
(* address, which is used again after the node is freed, so that an        *)
(* iterator kept too long would point at somebody else's node.             *)
(*                                                                         *)
(* _map is an ExtendibleHash with buckets of 8.  It is modelled by the     *)
(* pairs it holds, which is what it is until a bucket two levels above its *)
(* directory splits (see ExtendibleHash).                                  *)
(***************************************************************************)
EXTENDS Naturals, Sequences, SequencesExt, FiniteSetsExt

CONSTANTS Values,   \* the values (pages) in the replacer
          Threads   \* the threads that call it

ASSUME ThreadsAssumption == IsFiniteSet(Threads)
ASSUME ValuesAssumption == IsFiniteSet(Values) /\ "none" \notin Values

VARIABLES orderList,  \* _orderList: the addresses of the nodes, oldest first
          node,       \* the value stored at each address
          map,        \* _map: pairs <<value, address>> in order of insertion
          inserting   \* the value each thread is inserting, between its Erase
                      \* and its second critical section, or NoValue

vars == <<orderList, node, map, inserting>>

NoValue == "none"

\* Enough addresses for every list that can arise (see CopiesBounded): the
\* allocator always finds a free one.
Addresses == 1 .. Cardinality(Values) * Cardinality(Threads)

Init == /\ orderList = <<>>
        /\ node = [a \in Addresses |-> NoValue]
        /\ map = <<>>
        /\ inserting = [t \in Threads |-> NoValue]

-----------------------------------------------------------------------------
(* The hash table, as this class uses it: Find and Remove work on the first *)
(* pair with the key, Insert appends.  ExtendibleHash models it in full.     *)

MapHas(v) == \E i \in DOMAIN map : map[i][1] = v
MapIndex(v) == SelectInSeq(map, LAMBDA pair : pair[1] = v)
MapFind(v) == map[MapIndex(v)][2]
\* Mutant: the map is not told.
MapKeeps(v) == map

MapRemove(v) == IF MapHas(v) THEN RemoveAt(map, MapIndex(v)) ELSE map
MapInsert(v, a) == Append(map, <<v, a>>)

\* Mutant: the node is freed and stays linked.
UnlinkLeavesLink(a) == /\ orderList' = orderList
                       /\ node' = [node EXCEPT ![a] = NoValue]

\* Unlinks the node at address a and frees it.
Unlink(a) == /\ orderList' = RemoveAt(orderList, CHOOSE i \in DOMAIN orderList : orderList[i] = a)
             /\ node' = [node EXCEPT ![a] = NoValue]

-----------------------------------------------------------------------------
\* The critical section of Erase(value).
EraseEffect(v) ==
  \/ /\ MapHas(v)
     /\ map' = MapRemove(v)
     /\ Unlink(MapFind(v))
  \/ /\ ~MapHas(v)
     /\ UNCHANGED <<orderList, node, map>>

Erase(t, v) == /\ inserting[t] = NoValue
               /\ EraseEffect(v)
               /\ UNCHANGED inserting

\* Mutant: Insert does not call Erase.
InsertSkipsErase(t, v) == /\ inserting[t] = NoValue
                          /\ inserting' = [inserting EXCEPT ![t] = v]
                          /\ UNCHANGED <<orderList, node, map>>

\* Insert(value) up to the return of its call of Erase.
InsertErases(t, v) == /\ inserting[t] = NoValue
                      /\ EraseEffect(v)
                      /\ inserting' = [inserting EXCEPT ![t] = v]

\* The rest of Insert: a new node, at any free address, at the back of the list.
InsertAppends(t) ==
  /\ inserting[t] # NoValue
  /\ \E a \in Addresses \ ToSet(orderList) :
       /\ orderList' = Append(orderList, a)
       /\ node' = [node EXCEPT ![a] = inserting[t]]
       /\ map' = MapInsert(inserting[t], a)
  /\ inserting' = [inserting EXCEPT ![t] = NoValue]

\* Victim: nothing to do when the list is empty (it returns false).
Victim(t) == /\ inserting[t] = NoValue
             /\ orderList # <<>>
             /\ map' = MapRemove(node[Head(orderList)])
             /\ Unlink(Head(orderList))
             /\ UNCHANGED inserting

Next == \E t \in Threads :
          \/ InsertAppends(t)
          \/ Victim(t)
          \/ \E v \in Values : Erase(t, v) \/ InsertErases(t, v)

Spec == Init /\ [][Next]_vars

-----------------------------------------------------------------------------
(***************************************************************************)
(* Properties.                                                             *)
(***************************************************************************)

Copies(v) == {a \in ToSet(orderList) : node[a] = v}
Inserters(v) == {t \in Threads : inserting[t] = v}

\* Type invariant: the list links distinct, allocated nodes, and free
\* addresses hold nothing.
TypeOK == /\ orderList \in Seq(Addresses) /\ IsInjective(orderList)
          /\ node \in [Addresses -> Values \cup {NoValue}]
          /\ \A a \in Addresses : node[a] # NoValue <=> a \in ToSet(orderList)
          /\ map \in Seq(Values \X Addresses)
          /\ inserting \in [Threads -> Values \cup {NoValue}]

\* Every iterator in the map points at a node of the list that holds the map's
\* key, every node has exactly one iterator, and the iterators of equal keys
\* stand in list order.  Victim needs the last part: it removes the first pair
\* with the key of the oldest node, whichever node that pair points at.
MapMatchesList ==
  /\ \A i \in DOMAIN map : /\ map[i][2] \in ToSet(orderList)
                            /\ node[map[i][2]] = map[i][1]
  /\ \A p \in DOMAIN orderList :
       \E i \in DOMAIN map : \A j \in DOMAIN map : map[j][2] = orderList[p] <=> j = i
  /\ \A i, j \in DOMAIN map, p, q \in DOMAIN orderList :
       /\ map[i][1] = map[j][1] /\ i < j
       /\ orderList[p] = map[i][2] /\ orderList[q] = map[j][2]
       => p < q

\* The window between the two critical sections of Insert lets a value into
\* the list more than once, although "if exist, just move it to back" is what
\* Insert is for; but never more often than there are threads: every copy and
\* every insertion under way uses up a thread.  With one caller, as in the
\* buffer pool, there are no duplicates.
CopiesBounded ==
  \A v \in Values :
    Cardinality(Copies(v)) + Cardinality(Inserters(v)) <= Cardinality(Threads)
=============================================================================
