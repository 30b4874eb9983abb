\* Room for three slots and their tuples; the limit is met from both sides.
CONSTANTS
  PageSize = 10
  HeaderSize = 1
  SlotSize = 1
  Byte = {"0", "a", "b", "c", "d", "e"}
  ZeroByte = "0"
  Tuples <- SmallTuples
  NoTuple = NoTuple
SPECIFICATION Spec
INVARIANTS
  TypeOK
  FitsInPage
  TuplesAreDisjoint
  NoByteIsLost
PROPERTY
  ImplementsTupleStore
