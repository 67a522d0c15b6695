SPECIFICATION TimedSpec
CONSTANTS
  Threads = {t1, t2}
  Locks = {l1}
  bucket = bucket
  Buckets <- OneBucket
  BucketOf <- AllInOneBucket
  None = None
  SpinLimit = 0
  SpuriousFailure = FALSE
  MaxRetries = 1
INVARIANTS
  TrueMeansAcquired
