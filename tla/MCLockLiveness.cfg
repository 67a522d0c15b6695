SPECIFICATION FairSpec
CONSTANTS
  Threads = {t1, t2, t3}
  Locks = {l1}
  bucket = bucket
  Buckets <- OneBucket
  BucketOf <- AllInOneBucket
  None = None
  SpinLimit = 0
  SpuriousFailure = FALSE
PROPERTIES
  SleepersWake
