------------------------------ MODULE TablePage ------------------------------
(***************************************************************************)
(* The slotted page of the table heap: class TablePage of                  *)
(* 15445/src/page/table_page.cpp.                                          *)
(*                                                                         *)
(* A page is a header, an array of slots that grows upwards, and tuples    *)
(* packed against the end of the page, growing downwards to the free space *)
(* pointer.  The header and the slots are variables of their own; bytes is *)
(* the page as the tuples see it, and FitsInPage says that the tuples      *)
(* never reach down into the slots.  A tuple is a non-empty sequence of    *)
(* bytes.                                                                  *)
(***************************************************************************)
EXTENDS Integers, Sequences

CONSTANTS PageSize,    \* PAGE_SIZE
          HeaderSize,  \* the bytes before the first slot (20 in the code)
          SlotSize,    \* the bytes of a slot (8 in the code)
          Byte,        \* what a byte can be
          ZeroByte,    \* the byte 0
          Tuples,      \* the tuples that clients store
          NoTuple      \* no tuple

ASSUME SizeAssumption == /\ PageSize \in Nat
                         /\ HeaderSize \in Nat
                         /\ SlotSize \in Nat \ {0}
                         /\ HeaderSize <= PageSize
ASSUME ByteAssumption == ZeroByte \in Byte
ASSUME TupleAssumption == /\ Tuples \subseteq Seq(Byte)
                          /\ \A t \in Tuples : Len(t) > 0
                          /\ NoTuple \notin Seq(Byte)

VARIABLES free_space_pointer,  \* where the free space ends and the tuples begin
          tuple_count,         \* the number of slots, empty ones included
          offset, size,        \* the slots
          bytes                \* the content of the page

vars == <<free_space_pointer, tuple_count, offset, size, bytes>>

Addresses == 0 .. PageSize - 1

\* There can be no more slots than bytes.
Slots == 0 .. PageSize - 1

\* The slots in use, and those of them that hold a tuple.
Used == 0 .. tuple_count - 1
Live == {i \in Used : size[i] > 0}

GetFreeSpaceSize == free_space_pointer - HeaderSize - tuple_count * SlotSize

\* GetTuple: the bytes that slot i names.
GetTuple(i) == IF i \in Live
               THEN [k \in 1 .. size[i] |-> bytes[offset[i] + k - 1]]
               ELSE NoTuple

\* Init, on a page that NewPage has zeroed.
Init == /\ free_space_pointer = PageSize
        /\ tuple_count = 0
        /\ offset = [i \in Slots |-> 0]
        /\ size = [i \in Slots |-> 0]
        /\ bytes = [a \in Addresses |-> ZeroByte]

-----------------------------------------------------------------------------
\* memcpy(dst, t): the bytes with t written at address dst.
Copied(mem, dst, t) ==
  [a \in Addresses |-> IF a \in dst .. dst + Len(t) - 1 THEN t[a - dst + 1] ELSE mem[a]]

\* Mutant: memcpy instead of memmove, copying upwards over bytes that it still
\* has to read.
MovedUpwards(mem, dst, src, n) ==
  LET f[a \in Addresses] ==
        IF a \notin dst .. dst + n - 1 THEN mem[a]
        ELSE IF src < dst /\ a - dst + src >= dst THEN f[a - dst + src]
        ELSE mem[a - dst + src]
  IN  f

\* memmove(dst, src, n), which copes with overlapping ranges.
Moved(mem, dst, src, n) ==
  [a \in Addresses |-> IF a \in dst .. dst + n - 1 THEN mem[a - dst + src] ELSE mem[a]]

\* The slot InsertTuple uses: the first empty one, else a new one.
FreeSlot(i) ==
  /\ i \in 0 .. tuple_count
  /\ \A j \in 0 .. i - 1 : size[j] > 0
  /\ i < tuple_count => size[i] <= 0

\* Mutant: InsertTuple does not look for room.
HasRoomAlways(i, t) == TRUE

\* Mutant: InsertTuple forgets the room for the new slot.
HasRoomForTuple(i, t) == GetFreeSpaceSize >= Len(t)

\* Whether the tuple, and a new slot if it needs one, fit.
HasRoom(i, t) ==
  /\ GetFreeSpaceSize >= Len(t)
  /\ i = tuple_count => GetFreeSpaceSize >= Len(t) + SlotSize

\* InsertTuple; it returns false, and changes nothing, when there is no room.
InsertTuple(i, t) ==
  /\ FreeSlot(i)
  /\ HasRoom(i, t)
  /\ LET dst == free_space_pointer - Len(t)
     IN  /\ free_space_pointer' = dst
         /\ bytes' = Copied(bytes, dst, t)
         /\ offset' = [offset EXCEPT ![i] = dst]
  /\ size' = [size EXCEPT ![i] = Len(t)]
  /\ tuple_count' = IF i = tuple_count THEN tuple_count + 1 ELSE tuple_count

\* Mutant: DeleteTuple only clears the slot.
DeleteTupleLeavesGap(i) ==
  /\ i \in Live
  /\ size' = [size EXCEPT ![i] = 0]
  /\ offset' = [offset EXCEPT ![i] = 0]
  /\ UNCHANGED <<free_space_pointer, tuple_count, bytes>>

\* DeleteTuple closes the gap: the tuples below the deleted one move up.  It
\* returns false for an empty slot.
DeleteTuple(i) ==
  /\ i \in Live
  /\ LET fsp == free_space_pointer
     IN  /\ bytes' = Moved(bytes, fsp + size[i], fsp, offset[i] - fsp)
         /\ free_space_pointer' = fsp + size[i]
         /\ size' = [size EXCEPT ![i] = 0]
         /\ offset' = [j \in Slots |->
                         IF j = i THEN 0
                         ELSE IF j \in Live /\ offset[j] < offset[i] THEN offset[j] + size[i]
                         ELSE offset[j]]
  /\ UNCHANGED tuple_count

\* Mutant: UpdateTuple does not move the tuples below the updated one.
UpdateTupleInPlace(i, t) ==
  /\ i \in Live
  /\ GetFreeSpaceSize >= Len(t) - size[i]
  /\ LET shift == size[i] - Len(t)
     IN  /\ bytes' = Copied(bytes, offset[i] + shift, t)
         /\ free_space_pointer' = free_space_pointer + shift
         /\ size' = [size EXCEPT ![i] = Len(t)]
         /\ offset' = [offset EXCEPT ![i] = @ + shift]
  /\ UNCHANGED tuple_count

\* UpdateTuple keeps the end of the tuple where it is and moves the tuples
\* below it by the difference in size.  It returns false, and changes nothing,
\* when the page has no room for that.
UpdateTuple(i, t) ==
  /\ i \in Live
  /\ GetFreeSpaceSize >= Len(t) - size[i]
  /\ LET fsp   == free_space_pointer
         shift == size[i] - Len(t)
     IN  /\ bytes' = Copied(Moved(bytes, fsp + shift, fsp, offset[i] - fsp),
                            offset[i] + shift, t)
         /\ free_space_pointer' = fsp + shift
         /\ size' = [size EXCEPT ![i] = Len(t)]
         /\ offset' = [j \in Slots |->
                         IF j \in Live /\ offset[j] < offset[i] + size[i]
                         THEN offset[j] + shift ELSE offset[j]]
  /\ UNCHANGED tuple_count

Next == \/ \E i \in Slots, t \in Tuples : InsertTuple(i, t) \/ UpdateTuple(i, t)
        \/ \E i \in Slots : DeleteTuple(i)

Spec == Init /\ [][Next]_vars

-----------------------------------------------------------------------------
(***************************************************************************)
(* Properties.                                                             *)
(***************************************************************************)

\* Type invariant.
TypeOK == /\ free_space_pointer \in 0 .. PageSize
          /\ tuple_count \in 0 .. PageSize
          /\ offset \in [Slots -> 0 .. PageSize]
          /\ size \in [Slots -> 0 .. PageSize]
          /\ bytes \in [Addresses -> Byte]

\* The slots never grow into the tuples, and every tuple lies between the free
\* space pointer and the end of the page.
FitsInPage == /\ HeaderSize + tuple_count * SlotSize <= free_space_pointer
              /\ \A i \in Live : /\ free_space_pointer <= offset[i]
                                 /\ offset[i] + size[i] <= PageSize

\* No two tuples share a byte, however often tuples are deleted, updated to
\* another size and inserted into the slots of others.
TuplesAreDisjoint ==
  \A i, j \in Live :
    i # j => offset[i] + size[i] <= offset[j] \/ offset[j] + size[j] <= offset[i]

\* No byte is lost: between the free space pointer and the end of the page
\* every byte belongs to a tuple.
NoByteIsLost ==
  \A a \in free_space_pointer .. PageSize - 1 :
    \E i \in Live : offset[i] <= a /\ a < offset[i] + size[i]

\* The inductive invariant behind the theorems of TablePageProofs.
PageInv == TypeOK /\ FitsInPage /\ TuplesAreDisjoint /\ NoByteIsLost

\* An operation on one tuple leaves every other tuple, read through its slot,
\* as it was, and the tuple itself is what was written.
Store == INSTANCE TupleStore WITH store <- [i \in Slots |-> GetTuple(i)]

ImplementsTupleStore == Store!Spec
=============================================================================
