\* A table per thread: every first park of a thread but one rehashes.
SPECIFICATION Spec
CONSTANTS
  Threads = {t1, t2, t3}
  c1 = c1
  c2 = c2
  Conditions = {c1, c2}
  Hash <- Hashes
  MaxLoadFactor = 1
  GrowthFactor = 1
  None = None
SYMMETRY Symmetry
INVARIANTS
  NoMissedNotification
  ParkedThreadsAccountedFor
PROPERTIES
  ImplementsMonitor
