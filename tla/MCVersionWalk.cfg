\* One tuple: the walks down its version chain, against updates and rollbacks.
CONSTANTS
  Keys = {x}
  Updaters = {2, 3}
  Readers = {r}
  MaxOps = 2
  MaxReads = 1
SPECIFICATION FairSpec
CHECK_DEADLOCK FALSE
PROPERTY WorkEnds
