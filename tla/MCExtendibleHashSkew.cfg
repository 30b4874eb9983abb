\* A bucket two levels above the directory can fill up.
CONSTANTS
  Keys = {0, 1, 3, 4, 5, 8}
  Values = {a}
  None = None
  Hash <- IntHash
  BucketSize = 2
  MaxDepth = 4
SPECIFICATION Spec
PROPERTY
  RemovedIsGone
