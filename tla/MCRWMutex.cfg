\* Four threads and room for three readers: the limit is met.
CONSTANTS
  Threads = {t1, t2, t3, t4}
  MaxReaders = 3
SPECIFICATION FairSpec
INVARIANTS
  LatchInv
  MutualExclusion
  WriterSleepsForReason
  ReaderSleepsForReason
PROPERTIES
  ImplementsReadWriteLock
  WriterGetsIn
  SomebodyGetsIn
