CONSTANTS
  Loader = Loader
  Threads = {0, 1}
  Txns = {t1, t2}
  Begins <- Separate
  Exclusive = {1}
  MaxEpoch = 4
  CidWidth = 4
  MAX_ATTEMPT_COUNT = 1
SYMMETRY Symmetry
SPECIFICATION Spec
INVARIANT TypeOK
INVARIANT BoundIsBelowEpochs
INVARIANT ExpiredIsOver
INVARIANT RecycledIsInvisible
INVARIANT GracePeriod
INVARIANT NoGarbageIsLost
