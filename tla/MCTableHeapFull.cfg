\* The pool is full of pages of the table when it needs another one.
CONSTANTS
  MaxPages = 4
  PoolSize = 2
  Clients = {"cur", "new", "header"}
  Contents <- Images
  Zero <- ZeroImage
  Absent = Absent
  Tuples = {"s", "l", "x"}
  NoTuple = NoTuple
  Size <- TupleSize
  PageSpace = 3
  SlotSize = 1
  MaxSlots = 1
SPECIFICATION HeapSpec
INVARIANT
  ListIsAlwaysLinked
