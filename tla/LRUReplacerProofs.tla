-------------------------- MODULE LRUReplacerProofs --------------------------
(***************************************************************************)
(* Proofs about the page replacer, for any number of values and threads.   *)
(***************************************************************************)
EXTENDS LRUReplacer, FiniteSetTheorems, SequenceTheorems, WellFoundedInduction, TLAPS

\* _orderList and _map run in parallel: both grow at the back in one critical
\* section of Insert, and Erase and Victim take the same place out of both.
Parallel ==
  /\ Len(map) = Len(orderList)
  /\ \A i \in DOMAIN orderList : map[i] = <<node[orderList[i]], orderList[i]>>

ListInv == TypeOK /\ Parallel

Inv == ListInv /\ CopiesBounded

-----------------------------------------------------------------------------
(* Sequences.                                                              *)

\* RemoveAt moves what is behind the place one place forward.
LEMMA RemoveAtFacts ==
  ASSUME NEW S, NEW s \in Seq(S), NEW i \in 1..Len(s)
  PROVE  /\ RemoveAt(s, i) \in Seq(S) /\ Len(RemoveAt(s, i)) = Len(s) - 1
         /\ \A j \in 1..Len(s) - 1 : RemoveAt(s, i)[j] = IF j < i THEN s[j] ELSE s[j + 1]
<1> DEFINE a == SubSeq(s, 1, i - 1)
           b == SubSeq(s, i + 1, Len(s))
<1>0. Len(s) \in Nat /\ i \in Nat
  OBVIOUS
<1>1. a \in Seq(S) /\ Len(a) = i - 1 /\ \A j \in 1..i - 1 : a[j] = s[j]
  <2>1. 1 \in 1..Len(s) + 1 /\ i - 1 \in 1 - 1 .. Len(s)
    BY <1>0
  <2>2. QED
    BY <1>0, <2>1, SubSeqProperties
<1>2. b \in Seq(S) /\ Len(b) = Len(s) - i /\ \A j \in 1..Len(s) - i : b[j] = s[i + j]
  <2>1. i + 1 \in 1..Len(s) + 1 /\ Len(s) \in (i + 1) - 1 .. Len(s)
    BY <1>0
  <2>2. QED
    BY <1>0, <2>1, SubSeqProperties
<1> HIDE DEF a, b
<1>3. /\ a \o b \in Seq(S) /\ Len(a \o b) = Len(a) + Len(b)
      /\ \A j \in 1..Len(a) + Len(b) : (a \o b)[j] = IF j <= Len(a) THEN a[j] ELSE b[j - Len(a)]
  BY <1>1, <1>2, ConcatProperties
<1>4. ASSUME NEW j \in 1..Len(s) - 1 PROVE (a \o b)[j] = IF j < i THEN s[j] ELSE s[j + 1]
  BY <1>0, <1>1, <1>2, <1>3
<1>5. RemoveAt(s, i) = a \o b
  BY DEF RemoveAt, a, b
<1>6. Len(a \o b) = Len(s) - 1
  BY <1>0, <1>1, <1>2, <1>3
<1> HIDE DEF a, b
<1>7. QED
  BY ONLY <1>3, <1>4, <1>5, <1>6

\* A nonempty set of places has a first one.
LEMMA FirstPlace ==
  ASSUME NEW S \in SUBSET Nat, S # {}
  PROVE  Min(S) \in S /\ \A y \in S : Min(S) <= y
<1> DEFINE R == OpToRel(<, Nat)
<1>1. \A a, b \in Nat : a < b => <<a, b>> \in R
  BY DEF OpToRel
<1>2. IsWellFoundedOn(R, Nat)
  BY NatLessThanWellFounded
<1> HIDE DEF R
<1>3. S \subseteq Nat /\ S # {} /\ IsWellFoundedOn(R, Nat)
  BY <1>2
<1>4. PICK x \in S : \A y \in S : ~(<<y, x>> \in R)
  BY ONLY <1>3, WFMin
<1>5. \A y \in S : x \in Nat /\ y \in Nat /\ ~(y < x)
  BY <1>1, <1>4
<1>6. \E z \in S : \A y \in S : z <= y
  BY <1>5
<1>7. QED
  BY <1>6 DEF Min

\* Find takes the first pair with the key.
LEMMA FirstPair ==
  ASSUME NEW v, map \in Seq(Values \X Addresses), MapHas(v)
  PROVE  /\ MapIndex(v) \in 1..Len(map) /\ map[MapIndex(v)][1] = v
         /\ \A j \in 1..Len(map) : map[j][1] = v => MapIndex(v) <= j
<1> DEFINE I == {i \in 1..Len(map) : map[i][1] = v}
<1>1. I # {} /\ I \in SUBSET Nat
  <2>1. DOMAIN map = 1..Len(map) /\ Len(map) \in Nat
    OBVIOUS
  <2>2. PICK i \in DOMAIN map : map[i][1] = v
    BY DEF MapHas
  <2>3. i \in I
    BY <2>1, <2>2
  <2>4. QED
    BY <2>1, <2>3
<1>2. MapIndex(v) = IF I # {} THEN Min(I) ELSE 0
  BY DEF MapIndex, SelectInSeq
<1>3. QED
  BY <1>1, <1>2, FirstPlace

-----------------------------------------------------------------------------
(* The list and the map.                                                   *)

\* Free addresses hold nothing, and the nodes of the list are distinct.
LEMMA ListFacts ==
  ASSUME ListInv
  PROVE  /\ DOMAIN orderList = 1..Len(orderList) /\ Len(orderList) \in Nat
         /\ DOMAIN map = 1..Len(orderList) /\ Len(map) = Len(orderList)
         /\ orderList \in Seq(Addresses) /\ map \in Seq(Values \X Addresses)
         /\ node \in [Addresses -> Values \cup {NoValue}] /\ NoValue \notin Values
         /\ \A i, j \in 1..Len(orderList) : orderList[i] = orderList[j] => i = j
         /\ \A i \in 1..Len(orderList) : /\ orderList[i] \in Addresses /\ map[i][2] = orderList[i]
                                         /\ map[i][1] = node[orderList[i]]
                                         /\ node[orderList[i]] \in Values
         /\ \A a : a \in ToSet(orderList) <=> \E i \in 1..Len(orderList) : orderList[i] = a
<1>1. /\ orderList \in Seq(Addresses) /\ map \in Seq(Values \X Addresses)
      /\ node \in [Addresses -> Values \cup {NoValue}] /\ Len(map) = Len(orderList)
  BY DEF ListInv, TypeOK, Parallel
<1>2. /\ DOMAIN orderList = 1..Len(orderList) /\ Len(orderList) \in Nat
      /\ DOMAIN map = 1..Len(orderList)
  BY <1>1
<1>3. \A i, j \in 1..Len(orderList) : orderList[i] = orderList[j] => i = j
  BY <1>2 DEF ListInv, TypeOK, IsInjective
<1>4. \A a : a \in ToSet(orderList) <=> \E i \in 1..Len(orderList) : orderList[i] = a
  BY <1>2 DEF ToSet
<1>5. NoValue \notin Values
  BY ValuesAssumption DEF NoValue
<1>6. ASSUME NEW i \in 1..Len(orderList)
      PROVE  /\ orderList[i] \in Addresses /\ map[i][2] = orderList[i]
             /\ map[i][1] = node[orderList[i]] /\ node[orderList[i]] \in Values
  <2>1. map[i] = <<node[orderList[i]], orderList[i]>>
    BY <1>2 DEF ListInv, Parallel
  <2>2. orderList[i] \in Addresses
    BY <1>1
  <2>3. node[orderList[i]] # NoValue
    BY <1>4, <2>2 DEF ListInv, TypeOK
  <2>4. node[orderList[i]] \in Values
    BY <1>1, <2>2, <2>3
  <2>5. QED
    BY <2>1, <2>2, <2>4
<1>7. QED
  BY <1>1, <1>2, <1>3, <1>4, <1>5, <1>6

\* The same place is taken out of the list and the map.
LEMMA RemovePlace ==
  ASSUME ListInv, NEW k \in 1..Len(orderList),
         orderList' = RemoveAt(orderList, k), map' = RemoveAt(map, k),
         node' = [node EXCEPT ![orderList[k]] = NoValue],
         inserting' \in [Threads -> Values \cup {NoValue}]
  PROVE  /\ ListInv'
         /\ \A u \in Values : Copies(u)' = Copies(u) \ {orderList[k]}
<1> DEFINE n == Len(orderList)
           a == orderList[k]
           From(i) == IF i < k THEN i ELSE i + 1
<1>1. /\ n \in Nat /\ DOMAIN orderList = 1..n /\ Len(map) = n /\ k \in 1..n
      /\ orderList \in Seq(Addresses) /\ map \in Seq(Values \X Addresses)
      /\ node \in [Addresses -> Values \cup {NoValue}] /\ NoValue \notin Values
      /\ \A i, j \in 1..n : orderList[i] = orderList[j] => i = j
      /\ \A i \in 1..n : orderList[i] \in Addresses /\ node[orderList[i]] \in Values
      /\ \A b : b \in ToSet(orderList) <=> \E i \in 1..n : orderList[i] = b
  BY ListFacts
<1>2. /\ orderList' \in Seq(Addresses) /\ Len(orderList') = n - 1
      /\ \A i \in 1..n - 1 : orderList'[i] = IF i < k THEN orderList[i] ELSE orderList[i + 1]
  BY <1>1, RemoveAtFacts
<1>3. /\ map' \in Seq(Values \X Addresses) /\ Len(map') = n - 1
      /\ \A i \in 1..n - 1 : map'[i] = IF i < k THEN map[i] ELSE map[i + 1]
  <2>1. k \in 1..Len(map) /\ map' = RemoveAt(map, k)
    BY <1>1
  <2>2. /\ map' \in Seq(Values \X Addresses) /\ Len(map') = Len(map) - 1
        /\ \A i \in 1..Len(map) - 1 : map'[i] = IF i < k THEN map[i] ELSE map[i + 1]
    <3> DEFINE T == Values \X Addresses
    <3>1. map \in Seq(T)
      BY <1>1
    <3> HIDE DEF T
    <3>2. /\ RemoveAt(map, k) \in Seq(T) /\ Len(RemoveAt(map, k)) = Len(map) - 1
          /\ \A i \in 1..Len(map) - 1 :
               RemoveAt(map, k)[i] = IF i < k THEN map[i] ELSE map[i + 1]
      BY ONLY <2>1, <3>1, RemoveAtFacts
    <3>3. QED
      BY ONLY <2>1, <3>2 DEF T
  <2>3. QED
    BY ONLY <1>1, <2>2
<1>4. DOMAIN orderList' = 1..n - 1
  BY <1>2
<1>5. \A i \in 1..n - 1 : /\ From(i) \in 1..n /\ From(i) # k
                          /\ orderList'[i] = orderList[From(i)] /\ map'[i] = map[From(i)]
  BY <1>1, <1>2, <1>3
<1>6. \A i, j \in 1..n - 1 : From(i) = From(j) => i = j
  BY <1>1
<1>7. \A j \in 1..n : j # k => \E i \in 1..n - 1 : From(i) = j
  <2>1. ASSUME NEW j \in 1..n, j # k PROVE \E i \in 1..n - 1 : From(i) = j
    <3>1. CASE j < k
      <4>1. j \in 1..n - 1 /\ From(j) = j
        BY <1>1, <3>1
      <4>2. QED
        BY <4>1
    <3>2. CASE j > k
      <4>1. j - 1 \in 1..n - 1 /\ From(j - 1) = j
        BY <1>1, <3>2
      <4>2. QED
        BY <4>1
    <3>3. QED
      BY <1>1, <2>1, <3>1, <3>2
  <2>2. QED
    BY <2>1
<1> HIDE DEF From
<1>8. IsInjective(orderList')
  <2>1. ASSUME NEW i \in 1..n - 1, NEW j \in 1..n - 1, orderList'[i] = orderList'[j] PROVE i = j
    <3>1. orderList[From(i)] = orderList[From(j)] /\ From(i) \in 1..n /\ From(j) \in 1..n
      BY <1>5, <2>1
    <3>2. From(i) = From(j)
      BY <1>1, <3>1
    <3>3. QED
      BY <1>6, <3>2
  <2>2. QED
    BY <1>4, <2>1 DEF IsInjective
<1>9. /\ node' \in [Addresses -> Values \cup {NoValue}] /\ node'[a] = NoValue
      /\ \A b \in Addresses : b # a => node'[b] = node[b]
  BY <1>1
<1>10. \A i \in 1..n - 1 : /\ orderList'[i] # a /\ orderList'[i] \in Addresses
                           /\ node'[orderList'[i]] = node[orderList'[i]]
  BY <1>1, <1>5, <1>9
<1>11. ToSet(orderList') = ToSet(orderList) \ {a}
  <2>1. \A b : b \in ToSet(orderList') <=> \E i \in 1..n - 1 : orderList'[i] = b
    BY <1>4 DEF ToSet
  <2>2. ASSUME NEW b \in ToSet(orderList') PROVE b \in ToSet(orderList) /\ b # a
    <3>1. PICK i \in 1..n - 1 : orderList'[i] = b
      BY <2>1, <2>2
    <3>2. b = orderList[From(i)] /\ From(i) \in 1..n /\ b # a
      BY <1>5, <1>10, <3>1
    <3>3. QED
      BY <1>1, <3>2
  <2>3. ASSUME NEW b \in ToSet(orderList), b # a PROVE b \in ToSet(orderList')
    <3>1. PICK j \in 1..n : orderList[j] = b
      BY <1>1, <2>3
    <3>2. PICK i \in 1..n - 1 : From(i) = j
      BY <1>7, <2>3, <3>1
    <3>3. QED
      BY <1>5, <2>1, <3>1, <3>2
  <2>4. QED
    BY <2>2, <2>3
<1>12. \A b \in Addresses : node'[b] # NoValue <=> b \in ToSet(orderList')
  <2>1. \A b \in Addresses : node[b] # NoValue <=> b \in ToSet(orderList)
    BY DEF ListInv, TypeOK
  <2>2. QED
    BY <1>9, <1>11, <2>1
<1>13. \A i \in 1..n - 1 : map'[i] = <<node'[orderList'[i]], orderList'[i]>>
  <2>1. ASSUME NEW i \in 1..n - 1 PROVE map'[i] = <<node'[orderList'[i]], orderList'[i]>>
    <3>1. map[From(i)] = <<node[orderList[From(i)]], orderList[From(i)]>>
      BY <1>1, <1>5 DEF ListInv, Parallel
    <3>2. QED
      BY <1>5, <1>10, <3>1
  <2>2. QED
    BY <2>1
<1>14. ListInv'
  BY <1>2, <1>3, <1>4, <1>8, <1>9, <1>12, <1>13 DEF ListInv, TypeOK, Parallel
<1>15. ASSUME NEW u \in Values PROVE Copies(u)' = Copies(u) \ {a}
  <2>1. \A b \in ToSet(orderList') : node'[b] = node[b]
    BY <1>1, <1>9, <1>11
  <2>2. QED
    BY <1>11, <2>1 DEF Copies
<1>16. QED
  BY <1>14, <1>15

\* The place that Unlink finds.
LEMMA UnlinkPlace ==
  ASSUME ListInv, NEW k \in 1..Len(orderList), Unlink(orderList[k])
  PROVE  /\ orderList' = RemoveAt(orderList, k)
         /\ node' = [node EXCEPT ![orderList[k]] = NoValue]
<1>1. /\ DOMAIN orderList = 1..Len(orderList)
      /\ \A i, j \in 1..Len(orderList) : orderList[i] = orderList[j] => i = j
  BY ListFacts
<1>2. (CHOOSE i \in DOMAIN orderList : orderList[i] = orderList[k]) = k
  BY <1>1
<1>3. QED
  BY <1>2 DEF Unlink

\* Erase takes out the oldest node of the value, or there is none.
LEMMA EraseFacts ==
  ASSUME ListInv, NEW v \in Values, EraseEffect(v),
         inserting' \in [Threads -> Values \cup {NoValue}]
  PROVE  /\ ListInv'
         /\ \/ \E a \in Copies(v) : \A u \in Values : Copies(u)' = Copies(u) \ {a}
            \/ Copies(v) = {} /\ \A u \in Values : Copies(u)' = Copies(u)
<1>1. CASE MapHas(v) /\ map' = MapRemove(v) /\ Unlink(MapFind(v))
  <2> DEFINE k == MapIndex(v)
  <2>1. k \in 1..Len(orderList) /\ map[k][1] = v
    BY <1>1, FirstPair, ListFacts
  <2>2. MapFind(v) = orderList[k] /\ node[orderList[k]] = v
    BY <2>1, ListFacts DEF MapFind
  <2>3. map' = RemoveAt(map, k)
    BY <1>1 DEF MapRemove
  <2> HIDE DEF k
  <2>4. orderList' = RemoveAt(orderList, k) /\ node' = [node EXCEPT ![orderList[k]] = NoValue]
    BY <1>1, <2>1, <2>2, UnlinkPlace
  <2>5. ListInv' /\ \A u \in Values : Copies(u)' = Copies(u) \ {orderList[k]}
    BY <2>1, <2>3, <2>4, RemovePlace
  <2>6. orderList[k] \in Copies(v)
    BY <2>1, <2>2, ListFacts DEF Copies
  <2>7. QED
    BY <2>5, <2>6
<1>2. CASE ~MapHas(v) /\ UNCHANGED <<orderList, node, map>>
  <2>1. ASSUME NEW a \in Copies(v) PROVE FALSE
    <3>1. a \in ToSet(orderList) /\ node[a] = v
      BY DEF Copies
    <3>2. PICK i \in 1..Len(orderList) : orderList[i] = a
      BY <3>1, ListFacts
    <3>3. map[i][1] = v /\ i \in DOMAIN map
      BY <3>1, <3>2, ListFacts
    <3>4. QED
      BY <1>2, <3>3 DEF MapHas
  <2>2. \A u \in Values : Copies(u)' = Copies(u)
    BY <1>2 DEF Copies
  <2>3. ListInv'
    BY <1>2 DEF ListInv, TypeOK, Parallel
  <2>4. QED
    BY <2>1, <2>2, <2>3
<1>3. QED
  BY <1>1, <1>2 DEF EraseEffect

\* Victim takes out the oldest node: the pair that it removes from the map, the
\* first with that value, is the one of that node.
LEMMA VictimFacts ==
  ASSUME ListInv, NEW t \in Threads, Victim(t)
  PROVE  ListInv' /\ \A u \in Values : Copies(u)' \subseteq Copies(u)
<1>1. 1 \in 1..Len(orderList) /\ Head(orderList) = orderList[1]
  <2>1. orderList # <<>> /\ orderList \in Seq(Addresses)
    BY DEF Victim, ListInv, TypeOK
  <2>2. QED
    BY <2>1
<1> DEFINE v == node[orderList[1]]
<1>2. v \in Values /\ map[1][1] = v /\ 1 \in DOMAIN map /\ map \in Seq(Values \X Addresses)
      /\ Len(map) = Len(orderList)
  BY <1>1, ListFacts
<1>3. MapHas(v)
  BY <1>2 DEF MapHas
<1> HIDE DEF v
<1>4. MapIndex(v) = 1
  <2>1. MapIndex(v) \in 1..Len(map) /\ MapIndex(v) <= 1
    BY <1>1, <1>2, <1>3, FirstPair
  <2>2. QED
    BY <2>1
<1>5. map' = RemoveAt(map, 1) /\ Unlink(orderList[1]) /\ inserting' = inserting
  BY <1>1, <1>3, <1>4 DEF Victim, MapRemove, v
<1>6. orderList' = RemoveAt(orderList, 1) /\ node' = [node EXCEPT ![orderList[1]] = NoValue]
  BY <1>1, <1>5, UnlinkPlace
<1>7. inserting' \in [Threads -> Values \cup {NoValue}]
  BY <1>5 DEF ListInv, TypeOK
<1>8. QED
  BY <1>1, <1>5, <1>6, <1>7, RemovePlace

\* Insert puts the new node and its iterator at the back.
LEMMA AppendFacts ==
  ASSUME ListInv, NEW t \in Threads, InsertAppends(t)
  PROVE  /\ ListInv' /\ inserting[t] \in Values
         /\ inserting' = [inserting EXCEPT ![t] = NoValue]
         /\ \E a : /\ a \notin ToSet(orderList)
                   /\ \A u \in Values :
                        Copies(u)' = IF u = inserting[t] THEN Copies(u) \cup {a} ELSE Copies(u)
<1> DEFINE n == Len(orderList)
           v == inserting[t]
<1>1. /\ n \in Nat /\ DOMAIN orderList = 1..n /\ Len(map) = n /\ DOMAIN map = 1..n
      /\ orderList \in Seq(Addresses) /\ map \in Seq(Values \X Addresses)
      /\ node \in [Addresses -> Values \cup {NoValue}] /\ NoValue \notin Values
      /\ \A i, j \in 1..n : orderList[i] = orderList[j] => i = j
      /\ \A i \in 1..n : orderList[i] \in Addresses
      /\ \A b : b \in ToSet(orderList) <=> \E i \in 1..n : orderList[i] = b
  BY ListFacts
<1>2. v \in Values /\ inserting' = [inserting EXCEPT ![t] = NoValue]
      /\ inserting' \in [Threads -> Values \cup {NoValue}]
  BY DEF InsertAppends, ListInv, TypeOK
<1>3. PICK a \in Addresses : /\ a \notin ToSet(orderList) /\ orderList' = Append(orderList, a)
                             /\ node' = [node EXCEPT ![a] = v] /\ map' = Append(map, <<v, a>>)
  BY DEF InsertAppends, MapInsert
<1> HIDE DEF v
<1>4. /\ orderList' \in Seq(Addresses) /\ Len(orderList') = n + 1 /\ DOMAIN orderList' = 1..n + 1
      /\ orderList'[n + 1] = a /\ \A i \in 1..n : orderList'[i] = orderList[i]
  BY <1>1, <1>3
<1>5. /\ map' \in Seq(Values \X Addresses) /\ Len(map') = n + 1
      /\ map'[n + 1] = <<v, a>> /\ \A i \in 1..n : map'[i] = map[i]
  <2> DEFINE T == Values \X Addresses
             x == <<v, a>>
  <2>1. map \in Seq(T) /\ x \in T /\ map' = Append(map, x)
    BY <1>1, <1>2, <1>3
  <2> HIDE DEF T, x
  <2>2. /\ map' \in Seq(T) /\ Len(map') = Len(map) + 1
        /\ map'[Len(map) + 1] = x /\ \A i \in 1..Len(map) : map'[i] = map[i]
    BY ONLY <2>1
  <2>3. QED
    BY <1>1, <2>2 DEF T, x
<1>6. \A i \in 1..n : orderList[i] # a
  BY <1>1, <1>3
<1>7. IsInjective(orderList')
  BY <1>1, <1>4, <1>6 DEF IsInjective
<1>8. /\ node' \in [Addresses -> Values \cup {NoValue}] /\ node'[a] = v
      /\ \A b \in Addresses : b # a => node'[b] = node[b]
  BY <1>1, <1>2, <1>3
<1>9. ToSet(orderList') = ToSet(orderList) \cup {a}
  <2>1. \A b : b \in ToSet(orderList') <=> \E i \in 1..n + 1 : orderList'[i] = b
    BY <1>4 DEF ToSet
  <2>2. ASSUME NEW b \in ToSet(orderList') PROVE b \in ToSet(orderList) \cup {a}
    <3>1. PICK i \in 1..n + 1 : orderList'[i] = b
      BY <2>1, <2>2
    <3>2. CASE i = n + 1
      BY <1>4, <3>1, <3>2
    <3>3. CASE i \in 1..n
      BY <1>1, <1>4, <3>1, <3>3
    <3>4. QED
      BY <1>1, <3>2, <3>3
  <2>3. ASSUME NEW b \in ToSet(orderList) PROVE b \in ToSet(orderList')
    <3>1. PICK i \in 1..n : orderList[i] = b
      BY <1>1, <2>3
    <3>2. i \in 1..n + 1 /\ orderList'[i] = b
      BY <1>1, <1>4, <3>1
    <3>3. QED
      BY <2>1, <3>2
  <2>4. a \in ToSet(orderList')
    <3>1. n + 1 \in 1..n + 1
      BY <1>1
    <3>2. QED
      BY <1>4, <2>1, <3>1
  <2>5. QED
    BY <2>2, <2>3, <2>4
<1>10. \A b \in Addresses : node'[b] # NoValue <=> b \in ToSet(orderList')
  <2>1. \A b \in Addresses : node[b] # NoValue <=> b \in ToSet(orderList)
    BY DEF ListInv, TypeOK
  <2>2. QED
    BY <1>1, <1>2, <1>8, <1>9, <2>1
<1>11. ASSUME NEW i \in 1..n + 1 PROVE map'[i] = <<node'[orderList'[i]], orderList'[i]>>
  <2>1. CASE i = n + 1
    BY <1>4, <1>5, <1>8, <2>1
  <2>2. CASE i \in 1..n
    <3>1. map[i] = <<node[orderList[i]], orderList[i]>>
      BY <1>1, <2>2 DEF ListInv, Parallel
    <3>2. node'[orderList[i]] = node[orderList[i]]
      BY <1>1, <1>6, <1>8, <2>2
    <3>3. QED
      BY <1>4, <1>5, <2>2, <3>1, <3>2
  <2>3. QED
    BY <1>1, <2>1, <2>2
<1>12. ListInv'
  BY <1>2, <1>4, <1>5, <1>7, <1>8, <1>10, <1>11 DEF ListInv, TypeOK, Parallel
<1>13. ASSUME NEW u \in Values PROVE Copies(u)' = IF u = v THEN Copies(u) \cup {a} ELSE Copies(u)
  <2>1. \A b \in ToSet(orderList) : b # a /\ node'[b] = node[b]
    BY <1>1, <1>3, <1>8
  <2>2. QED
    BY <1>8, <1>9, <2>1 DEF Copies
<1>14. QED
  BY <1>2, <1>3, <1>12, <1>13 DEF v

-----------------------------------------------------------------------------
(* Copies of a value.                                                      *)

\* Finite sets.
LEMMA Finite ==
  ASSUME ListInv, NEW v
  PROVE  /\ IsFiniteSet(Copies(v)) /\ IsFiniteSet(Inserters(v)) /\ Inserters(v) \subseteq Threads
         /\ Cardinality(Copies(v)) \in Nat /\ Cardinality(Inserters(v)) \in Nat
         /\ Cardinality(Threads) \in Nat /\ Cardinality(Inserters(v)) <= Cardinality(Threads)
<1>1. Copies(v) \subseteq Addresses
  BY ListFacts DEF Copies
<1>2. Cardinality(Values) \in Nat /\ Cardinality(Threads) \in Nat
  BY ThreadsAssumption, ValuesAssumption, FS_CardinalityType
<1>3. Cardinality(Values) * Cardinality(Threads) \in Nat
  BY <1>2
<1>4. IsFiniteSet(Addresses)
  BY <1>3, FS_Interval DEF Addresses
<1>5. Inserters(v) \subseteq Threads
  BY DEF Inserters
<1>6. QED
  BY <1>1, <1>2, <1>4, <1>5, ThreadsAssumption, FS_Subset, FS_CardinalityType

\* A step that moves a thread between the two sets keeps their sum.
LEMMA CountStep ==
  ASSUME ListInv, ListInv', NEW v \in Values,
         Cardinality(Copies(v)) + Cardinality(Inserters(v)) <= Cardinality(Threads),
         \/ Copies(v)' \subseteq Copies(v) /\ Inserters(v)' = Inserters(v)
         \/ \E a \in Copies(v), t \in Threads : /\ Copies(v)' = Copies(v) \ {a}
                                                /\ Inserters(v)' = Inserters(v) \cup {t}
         \/ Copies(v)' = {}
         \/ \E a, t : /\ t \in Inserters(v) /\ Copies(v)' = Copies(v) \cup {a}
                      /\ Inserters(v)' = Inserters(v) \ {t}
  PROVE  Cardinality(Copies(v)') + Cardinality(Inserters(v)') <= Cardinality(Threads)
<1> DEFINE C == Copies(v)
           D == Copies(v)'
           I == Inserters(v)
           J == Inserters(v)'
           N == Cardinality(Threads)
<1>1. IsFiniteSet(C) /\ IsFiniteSet(I) /\ Cardinality(C) \in Nat /\ Cardinality(I) \in Nat
      /\ N \in Nat /\ Cardinality(C) + Cardinality(I) <= N
  BY Finite
<1>2. J \subseteq Threads /\ IsFiniteSet(J) /\ Cardinality(J) \in Nat /\ Cardinality(J) <= N
  <2>1. J \subseteq Threads
    BY DEF Inserters
  <2>2. QED
    BY <2>1, ThreadsAssumption, FS_Subset, FS_CardinalityType
<1> HIDE DEF C, D, I, J, N
<1>3. CASE D \subseteq C /\ J = I
  <2>1. IsFiniteSet(D) /\ Cardinality(D) \in Nat /\ Cardinality(D) <= Cardinality(C)
    BY <1>1, <1>3, FS_Subset, FS_CardinalityType
  <2>2. QED
    BY <1>1, <1>3, <2>1 DEF D, J, N
<1>4. ASSUME NEW a \in C, NEW t \in Threads, D = C \ {a}, J = I \cup {t}
      PROVE  Cardinality(D) + Cardinality(J) <= N
  <2>1. Cardinality(D) = Cardinality(C) - 1
    BY <1>1, <1>4, FS_RemoveElement
  <2>2. Cardinality(J) <= Cardinality(I) + 1
    <3>1. Cardinality(J) = IF t \in I THEN Cardinality(I) ELSE Cardinality(I) + 1
      BY <1>1, <1>4, FS_AddElement
    <3>2. QED
      BY <1>1, <3>1
  <2>3. QED
    BY <1>1, <1>2, <2>1, <2>2
<1>5. CASE D = {}
  BY <1>2, <1>5, FS_EmptySet DEF D, J, N
<1>6. ASSUME NEW a, NEW t, t \in I, D = C \cup {a}, J = I \ {t}
      PROVE  Cardinality(D) + Cardinality(J) <= N
  <2>1. Cardinality(J) = Cardinality(I) - 1
    BY <1>1, <1>6, FS_RemoveElement
  <2>2. Cardinality(D) <= Cardinality(C) + 1 /\ Cardinality(D) \in Nat
    <3>1. Cardinality(D) = IF a \in C THEN Cardinality(C) ELSE Cardinality(C) + 1
      BY <1>1, <1>6, FS_AddElement
    <3>2. QED
      BY <1>1, <3>1
  <2>3. QED
    BY <1>1, <1>2, <2>1, <2>2
<1>7. QED
  BY <1>3, <1>4, <1>5, <1>6 DEF C, D, I, J, N
-----------------------------------------------------------------------------
(* The invariant.                                                          *)

\* The empty list.
LEMMA InitInv == Init => Inv
<1> SUFFICES ASSUME Init PROVE Inv
  OBVIOUS
<1>1. /\ orderList = <<>> /\ map = <<>> /\ node = [a \in Addresses |-> NoValue]
      /\ inserting = [t \in Threads |-> NoValue]
  BY DEF Init
<1>2. ToSet(orderList) = {} /\ IsInjective(orderList)
  BY <1>1 DEF ToSet, IsInjective
<1>3. ListInv
  BY <1>1, <1>2 DEF ListInv, TypeOK, Parallel
<1>4. ASSUME NEW v \in Values
      PROVE  Cardinality(Copies(v)) + Cardinality(Inserters(v)) <= Cardinality(Threads)
  <2>1. Copies(v) = {}
    BY <1>2 DEF Copies
  <2>2. Cardinality(Copies(v)) = 0
    BY <2>1, FS_EmptySet
  <2>3. QED
    BY <1>3, <2>2, Finite
<1>5. QED
  BY <1>3, <1>4 DEF Inv, CopiesBounded

\* Every critical section keeps the invariant.
LEMMA NextInv == Inv /\ [Next]_vars => Inv'
<1> SUFFICES ASSUME Inv, [Next]_vars PROVE Inv'
  OBVIOUS
<1>0. ListInv /\ CopiesBounded /\ inserting \in [Threads -> Values \cup {NoValue}]
      /\ NoValue \notin Values
  BY ListFacts DEF Inv, ListInv, TypeOK
<1> DEFINE Bound(v) == Cardinality(Copies(v)) + Cardinality(Inserters(v)) <= Cardinality(Threads)
<1>1. ASSUME ListInv', \A v \in Values : Cardinality(Copies(v)') + Cardinality(Inserters(v)')
                                          <= Cardinality(Threads)
      PROVE  Inv'
  BY <1>1 DEF Inv, CopiesBounded
<1>2. \A v \in Values : Bound(v)
  BY <1>0 DEF CopiesBounded
<1>3. ASSUME NEW t \in Threads, NEW v \in Values, Erase(t, v) PROVE Inv'
  <2>1. inserting' = inserting /\ EraseEffect(v)
    BY <1>3 DEF Erase
  <2>2. ListInv' /\ \A u \in Values : Copies(u)' \subseteq Copies(u)
    BY <1>0, <2>1, EraseFacts
  <2>3. \A u \in Values : Inserters(u)' = Inserters(u)
    BY <2>1 DEF Inserters
  <2>4. QED
    BY <1>0, <1>1, <1>2, <2>2, <2>3, CountStep
<1>4. ASSUME NEW t \in Threads, NEW v \in Values, InsertErases(t, v) PROVE Inv'
  <2>1. /\ inserting[t] = NoValue /\ EraseEffect(v)
        /\ inserting' = [inserting EXCEPT ![t] = v]
        /\ inserting' \in [Threads -> Values \cup {NoValue}]
    BY <1>0, <1>4 DEF InsertErases
  <2>2. /\ ListInv'
        /\ \/ \E a \in Copies(v) : \A u \in Values : Copies(u)' = Copies(u) \ {a}
           \/ Copies(v) = {} /\ \A u \in Values : Copies(u)' = Copies(u)
    BY <1>0, <2>1, EraseFacts
  <2>3. Inserters(v)' = Inserters(v) \cup {t}
    BY <1>0, <2>1 DEF Inserters
  <2>4. ASSUME NEW u \in Values
        PROVE  Cardinality(Copies(u)') + Cardinality(Inserters(u)') <= Cardinality(Threads)
    <3>1. CASE u = v
      <4>1. \/ \E a \in Copies(u) : Copies(u)' = Copies(u) \ {a}
            \/ Copies(u)' = {}
        BY <2>2, <3>1
      <4>2. Inserters(u)' = Inserters(u) \cup {t}
        BY <2>3, <3>1
      <4>3. QED
        BY <1>0, <1>2, <2>2, <4>1, <4>2, CountStep
    <3>2. CASE u # v
      <4>1. Inserters(u)' = Inserters(u)
        BY <1>0, <2>1, <3>2 DEF Inserters
      <4>2. Copies(u)' \subseteq Copies(u)
        BY <2>2
      <4>3. QED
        BY <1>0, <1>2, <2>2, <4>1, <4>2, CountStep
    <3>3. QED
      BY <3>1, <3>2
  <2>5. QED
    BY <1>1, <2>2, <2>4
<1>5. ASSUME NEW t \in Threads, InsertAppends(t) PROVE Inv'
  <2>1. ListInv' /\ inserting[t] \in Values /\ inserting' = [inserting EXCEPT ![t] = NoValue]
    BY <1>0, <1>5, AppendFacts
  <2>2. PICK a : \A u \in Values :
                   Copies(u)' = IF u = inserting[t] THEN Copies(u) \cup {a} ELSE Copies(u)
    BY <1>0, <1>5, AppendFacts
  <2>3. ASSUME NEW u \in Values
        PROVE  Cardinality(Copies(u)') + Cardinality(Inserters(u)') <= Cardinality(Threads)
    <3>1. CASE u = inserting[t]
      <4>1. t \in Inserters(u) /\ Copies(u)' = Copies(u) \cup {a}
        BY <2>2, <3>1 DEF Inserters
      <4>2. Inserters(u)' = Inserters(u) \ {t}
        BY <1>0, <2>1, <3>1 DEF Inserters
      <4>3. QED
        BY <1>0, <1>2, <2>1, <4>1, <4>2, CountStep
    <3>2. CASE u # inserting[t]
      <4>1. Inserters(u)' = Inserters(u)
        BY <1>0, <2>1, <3>2 DEF Inserters
      <4>2. Copies(u)' \subseteq Copies(u)
        BY <2>2, <3>2
      <4>3. QED
        BY <1>0, <1>2, <2>1, <4>1, <4>2, CountStep
    <3>3. QED
      BY <3>1, <3>2
  <2>4. QED
    BY <1>1, <2>1, <2>3
<1>6. ASSUME NEW t \in Threads, Victim(t) PROVE Inv'
  <2>1. ListInv' /\ \A u \in Values : Copies(u)' \subseteq Copies(u)
    BY <1>0, <1>6, VictimFacts
  <2>2. \A u \in Values : Inserters(u)' = Inserters(u)
    BY <1>6 DEF Victim, Inserters
  <2>3. QED
    BY <1>0, <1>1, <1>2, <2>1, <2>2, CountStep
<1>7. CASE UNCHANGED vars
  <2>1. ListInv'
    BY <1>0, <1>7 DEF vars, ListInv, TypeOK, Parallel
  <2>2. \A u \in Values : Copies(u)' = Copies(u) /\ Inserters(u)' = Inserters(u)
    BY <1>7 DEF vars, Copies, Inserters
  <2>3. QED
    BY <1>0, <1>1, <1>2, <2>1, <2>2, CountStep
<1>8. QED
  BY <1>3, <1>4, <1>5, <1>6, <1>7 DEF Next

-----------------------------------------------------------------------------
(* The theorems.                                                           *)

\* However the threads' critical sections interleave, the list and the map run
\* in parallel and each copy of a value has cost an insertion of its own.
THEOREM Invariance == Spec => []Inv
<1>1. QED
  BY InitInv, NextInv, PTL DEF Spec

\* The list links distinct allocated nodes and nothing points at freed ones.
THEOREM TypeCorrectness == Spec => []TypeOK
<1>1. Inv => TypeOK
  BY DEF Inv, ListInv
<1>2. QED
  BY <1>1, Invariance, PTL

\* An iterator kept in _map is never stale: Erase and Victim can follow it.
THEOREM IteratorsAreValid == Spec => []MapMatchesList
<1>1. ASSUME Inv PROVE MapMatchesList
  <2> DEFINE n == Len(orderList)
  <2>1. /\ n \in Nat /\ DOMAIN orderList = 1..n /\ DOMAIN map = 1..n
        /\ \A i, j \in 1..n : orderList[i] = orderList[j] => i = j
        /\ \A i \in 1..n : map[i][2] = orderList[i] /\ map[i][1] = node[orderList[i]]
        /\ \A a : a \in ToSet(orderList) <=> \E i \in 1..n : orderList[i] = a
    BY <1>1, ListFacts DEF Inv
  <2>2. \A i \in 1..n : map[i][2] \in ToSet(orderList) /\ node[map[i][2]] = map[i][1]
    BY <2>1
  <2>3. \A p \in 1..n : \E i \in 1..n : \A j \in 1..n : map[j][2] = orderList[p] <=> j = i
    BY <2>1
  <2>4. ASSUME NEW i \in 1..n, NEW j \in 1..n, NEW p \in 1..n, NEW q \in 1..n,
               i < j, orderList[p] = map[i][2], orderList[q] = map[j][2]
        PROVE  p < q
    <3>1. p = i /\ q = j
      BY <2>1, <2>4
    <3>2. QED
      BY <2>4, <3>1
  <2>5. QED
    BY <2>1, <2>2, <2>3, <2>4 DEF MapMatchesList
<1>2. QED
  BY <1>1, Invariance, PTL

\* A value is in the list at most as often as there are threads.
THEOREM BoundedCopies == Spec => []CopiesBounded
<1>1. Inv => CopiesBounded
  BY DEF Inv
<1>2. QED
  BY <1>1, Invariance, PTL

\* No value stands in the list twice.
NoDuplicates == \A i, j \in DOMAIN orderList : node[orderList[i]] = node[orderList[j]] => i = j

\* With a single caller, as under the mutex of the buffer pool, Insert does what
\* it is for: a value is moved to the back, never listed twice.
THEOREM SingleCaller ==
  ASSUME Cardinality(Threads) = 1
  PROVE  Spec => []NoDuplicates
<1>1. ASSUME Inv PROVE NoDuplicates
  <2> SUFFICES ASSUME NEW i \in DOMAIN orderList, NEW j \in DOMAIN orderList,
                      node[orderList[i]] = node[orderList[j]]
               PROVE  i = j
    BY DEF NoDuplicates
  <2>0. ListInv
    BY <1>1 DEF Inv
  <2>1. /\ i \in 1..Len(orderList) /\ j \in 1..Len(orderList)
        /\ node[orderList[i]] \in Values
    BY <2>0, ListFacts
  <2> DEFINE v == node[orderList[i]]
             C == Copies(v)
  <2>2. Cardinality(C) + Cardinality(Inserters(v)) <= 1
    BY <1>1, <2>1 DEF Inv, CopiesBounded
  <2>3. IsFiniteSet(C) /\ Cardinality(C) \in Nat /\ Cardinality(Inserters(v)) \in Nat
    BY <2>0, Finite
  <2>4. orderList[i] \in C /\ orderList[j] \in C
    BY <2>0, <2>1, ListFacts DEF Copies
  <2> HIDE DEF C
  <2>5. Cardinality(C \ {orderList[i]}) = Cardinality(C) - 1 /\ IsFiniteSet(C \ {orderList[i]})
    BY <2>3, <2>4, FS_RemoveElement
  <2>6. Cardinality(C \ {orderList[i]}) \in Nat
    BY <2>5, FS_CardinalityType
  <2>7. Cardinality(C \ {orderList[i]}) = 0
    BY <2>2, <2>3, <2>5, <2>6
  <2>8. C \ {orderList[i]} = {}
    BY <2>5, <2>7, FS_EmptySet
  <2>9. orderList[i] = orderList[j]
    BY <2>4, <2>8
  <2>10. QED
    BY <2>0, <2>1, <2>9, ListFacts
<1>2. QED
  BY <1>1, Invariance, PTL
=============================================================================
