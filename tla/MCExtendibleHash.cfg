\* Buckets as deep as the directory split after it doubles, buckets one level
\* above it without: 1, 3 and 5 after 0, 2 and 4, or the other way round.
CONSTANTS
  Keys = {0, 1, 2, 3, 4, 5}
  Values = {a, b}
  None = None
  Hash <- IntHash
  BucketSize = 2
  MaxDepth = 2
SPECIFICATION FairSpec
INVARIANTS
  TypeOK
  DirectoryInv
PROPERTIES
  ImplementsHashTable
  InsertReturns
