---------------------------- MODULE ExtendibleHash ----------------------------
(***************************************************************************)
(* The hash table of the storage engine: classes HashPage and              *)
(* ExtendibleHash of 15445/src/hash/extendible_hash.cpp.                   *)
(*                                                                         *)
(* Every method holds _hash_mutex throughout, so calls are serialised; the *)
(* loop of Insert is modelled one iteration per step, so that what the     *)
(* table looks like between two splits is checked, and so is that the loop *)
(* ends.  Buckets are shared between directory entries through shared_ptr: *)
(* they live in page[id] and are reset when no entry refers to them.       *)
(*                                                                         *)
(* Callers insert a key only when Find does not find it, as both users do: *)
(* BufferPoolManager looks the page up first and LRUReplacer erases it.    *)
(***************************************************************************)
EXTENDS Integers, Sequences, SequencesExt, FiniteSetsExt, Functions

CONSTANTS Keys, Values,
          None,        \* neither a value nor a call
          Hash,        \* HashKey: the hash of each key
          BucketSize,  \* _size: the number of elements of a full bucket
          MaxDepth     \* bound on the global depth

ASSUME HashAssumption == Hash \in [Keys -> Nat]
ASSUME BucketSizeAssumption == BucketSize \in Nat \ {0}
ASSUME NoneAssumption == None \notin Values

VARIABLES globalDepth,  \* _globalDepth
          directory,    \* _buckets: directory[i] is the id of the bucket of index i
          page,         \* the buckets: their elements and local depths
          pending       \* the arguments of the Insert under way, or None

vars == <<globalDepth, directory, page, pending>>

\* A split needs two new buckets while the old ones are still referred to.
PageIds == 1 .. 2 ^ MaxDepth + 2

EmptyPage == [depth |-> 0, elements |-> <<>>]

\* HashPage.
\* Mutant: a bucket counts as full one element too late.
IsFullTooLate(pg) == Len(pg.elements) > BucketSize

IsFull(pg) == Len(pg.elements) = BucketSize
IndexOf(pg, k) == SelectInSeq(pg.elements, LAMBDA e : e[1] = k)
PageInsert(pg, e) == [pg EXCEPT !.elements = Append(@, e)]
PageRemove(pg, k) == [pg EXCEPT !.elements = RemoveAt(@, IndexOf(pg, k))]

\* hash & ((1 << depth) - 1)
Slot(k, depth) == Hash[k] % 2 ^ depth

Bucket(k) == page[directory[Slot(k, globalDepth)]]

\* Find: the value of the first element with the key.
Find(k) == LET i == IndexOf(Bucket(k), k)
           IN  IF i = 0 THEN None ELSE Bucket(k).elements[i][2]

Init == /\ globalDepth = 0
        /\ directory = [i \in {0} |-> 1]
        /\ page = [id \in PageIds |-> EmptyPage]
        /\ pending = None

\* Remove, which takes away the first element with the key, if there is one.
RemoveKey(k) ==
  /\ pending = None
  /\ Find(k) # None
  /\ page' = [page EXCEPT ![directory[Slot(k, globalDepth)]] = PageRemove(@, k)]
  /\ UNCHANGED <<globalDepth, directory, pending>>

InsertCall(k, v) == /\ pending = None
                    /\ Find(k) = None
                    /\ pending' = <<k, v>>
                    /\ UNCHANGED <<globalDepth, directory, page>>

-----------------------------------------------------------------------------
(* One iteration of the loop of Insert.                                    *)

\* The directory doubles when the full bucket is as deep as the directory.
MustDouble(pg) == IsFull(pg) /\ pg.depth = globalDepth

\* Mutant: each entry is doubled in place instead of the directory as a whole.
DoubledInPlace(dir) == [i \in 0 .. 2 * Cardinality(DOMAIN dir) - 1 |-> dir[i \div 2]]

Doubled(dir) == [i \in 0 .. 2 * Cardinality(DOMAIN dir) - 1 |->
                   dir[i % Cardinality(DOMAIN dir)]]

\* Mutant: the elements that move to another bucket are dropped.
RedistributeDrops(pages, dir, depth, low, temp, elements) ==
  FoldLeft(LAMBDA pgs, e : IF Slot(e[1], depth) = low
                           THEN [pgs EXCEPT ![temp] = PageInsert(@, e)]
                           ELSE pgs,
           pages, elements)

\* Puts each element of the split bucket into the bucket its index now names,
\* except that the elements of index low go into the bucket temp.
Redistribute(pages, dir, depth, low, temp, elements) ==
  FoldLeft(LAMBDA pgs, e :
             LET newId == Slot(e[1], depth)
             IN  IF newId = low THEN [pgs EXCEPT ![temp] = PageInsert(@, e)]
                                ELSE [pgs EXCEPT ![dir[newId]] = PageInsert(@, e)],
           pages, elements)

\* Mutant: a split forgets to set the local depths.
DepthKept(depth) == depth

\* The local depth of the two halves of a bucket.
Deeper(depth) == depth + 1

\* Buckets that no directory entry refers to are destroyed.
Collect(pages, dir) ==
  [id \in PageIds |-> IF id \in Range(dir) THEN pages[id] ELSE EmptyPage]

\* Splits the full bucket pg that the index b names, in a directory dir of
\* the given depth.  Two entries of the directory change: low, the index cut
\* to the local depth, and another, low with the highest bit set.
Split(pg, b, dir, depth) ==
  LET low     == b % 2 ^ pg.depth
      another == 2 ^ (depth - 1) + low
      fresh   == PageIds \ Range(dir)
      newPage == Min(fresh)
      temp    == Min(fresh \ {newPage})
      dir1    == [dir EXCEPT ![another] = newPage]
      filled  == Redistribute(page, dir1, depth, low, temp, pg.elements)
      deeper  == Deeper(page[dir1[low]].depth)
      split   == [filled EXCEPT ![temp].depth = deeper, ![newPage].depth = deeper]
      dir2    == [dir1 EXCEPT ![low] = temp]
  IN  /\ directory' = dir2
      /\ page' = Collect(split, dir2)

\* An iteration that splits the bucket of the key and continues.
InsertSplit ==
  /\ pending # None
  /\ LET b     == Slot(pending[1], globalDepth)
         pg    == page[directory[b]]
         depth == IF MustDouble(pg) THEN globalDepth + 1 ELSE globalDepth
         dir   == IF MustDouble(pg) THEN Doubled(directory) ELSE directory
     IN  /\ IsFull(pg)
         /\ pg.depth < depth
         /\ depth <= MaxDepth
         /\ globalDepth' = depth
         /\ Split(pg, b, dir, depth)
  /\ UNCHANGED pending

\* The last iteration: there is no bucket to split.
InsertStore ==
  /\ pending # None
  /\ ~IsFull(Bucket(pending[1])) \/ Bucket(pending[1]).depth > globalDepth
  /\ page' = [page EXCEPT ![directory[Slot(pending[1], globalDepth)]]
                            = PageInsert(@, pending)]
  /\ pending' = None
  /\ UNCHANGED <<globalDepth, directory>>

Next == \/ \E k \in Keys, v \in Values : InsertCall(k, v)
        \/ InsertSplit
        \/ InsertStore
        \/ \E k \in Keys : RemoveKey(k)

Spec == Init /\ [][Next]_vars

\* A thread inside Insert keeps running.
FairSpec == Spec /\ WF_vars(InsertSplit \/ InsertStore)

-----------------------------------------------------------------------------
(***************************************************************************)
(* Properties.                                                             *)
(***************************************************************************)

\* Type invariant.  No bucket ever holds more than _size elements, which
\* IsFull, a test for equality, relies on.
TypeOK == /\ globalDepth \in 0 .. MaxDepth
          /\ directory \in [0 .. 2 ^ globalDepth - 1 -> PageIds]
          /\ \A id \in PageIds : /\ page[id].depth \in 0 .. globalDepth
                                 /\ page[id].elements \in Seq(Keys \X Values)
                                 /\ Len(page[id].elements) <= BucketSize
          /\ pending \in (Keys \X Values) \cup {None}

\* Two directory entries share a bucket exactly when their indices agree on
\* the bucket's local depth, and every element sits in a bucket that the
\* directory reaches from its hash, even between two splits of one Insert.
DirectoryInv ==
  /\ \A i, j \in DOMAIN directory :
       LET d == page[directory[i]].depth
       IN  directory[i] = directory[j] <=> i % 2 ^ d = j % 2 ^ d
  /\ \A i \in DOMAIN directory :
       LET pg == page[directory[i]]
       IN  \A n \in DOMAIN pg.elements :
             Slot(pg.elements[n][1], pg.depth) = i % 2 ^ pg.depth

\* The table is a map: a split neither loses, duplicates nor brings back a
\* key, Remove(k) takes away k and nothing else, and Insert adds its key and
\* nothing else.
Table == INSTANCE HashTable WITH map <- [k \in Keys |-> Find(k)]

ImplementsHashTable == Table!Spec

\* Insert returns: the loop of splits ends.
InsertReturns == pending # None ~> pending = None

\* After Remove(k) has returned true, Find(k) returns false (the tests remove
\* keys and expect EXPECT_EQ(0, test->Find(16, val))).
RemovedIsGone == [][\A k \in Keys : RemoveKey(k) => Find(k)' = None]_vars
=============================================================================
