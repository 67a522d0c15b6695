SPECIFICATION Spec
CONSTANTS
  Threads = {t1, t2, t3}
  Locks = {l1, l2}
  bucket = bucket
  Buckets <- OneBucket
  BucketOf <- AllInOneBucket
  None = None
  SpinLimit = 0
  SpuriousFailure = TRUE
SYMMETRY Symmetry
INVARIANTS
  MutualExclusion
  ParkedBitCoversQueue
  NoStrandedThread
  AssertionsHold
PROPERTIES
  ImplementsMutex
