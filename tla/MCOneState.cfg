\* Two updaters of two tuples, of which one reads what the other writes.
CONSTANTS
  Keys = {x, y}
  Updaters = {2, 3}
  Readers = {}
  MaxOps = 2
  MaxReads = 0
SYMMETRY Symmetry
SPECIFICATION Spec
CHECK_DEADLOCK FALSE
INVARIANT ReadsOneState
