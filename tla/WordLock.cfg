SPECIFICATION FairSpec
CONSTANTS
    Threads = {t1, t2, t3}
    None = None
    SpinLimit = 1
    SpuriousFailure = TRUE
INVARIANTS
    MutualExclusion
    PlainStoresLoseNothing
    QueueWellFormed
    NoUseAfterScope
PROPERTIES
    ImplementsMutex
    SleepersWake
