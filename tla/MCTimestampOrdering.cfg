\* Two updaters write two tuples while a reader looks at one of them.
CONSTANTS
  Keys = {x, y}
  Updaters = {2, 3}
  Readers = {r}
  MaxOps = 2
  MaxReads = 1
SYMMETRY Symmetry
SPECIFICATION Spec
CHECK_DEADLOCK FALSE
INVARIANTS
  ReadsAreCommitted
  VersionsPartitionTime
  NothingIsLeft
  ReadersSeeTheirSnapshot
PROPERTY LateWritesAreRejected
