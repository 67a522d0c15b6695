\* Both threads and the continuous GC thread, three collections in all.
SPECIFICATION LiveSpec
CONSTANTS
  Scopes = {"Eden"}
  MaxTickets = 3
  Continuous = TRUE
INVARIANTS
  ConnDiscipline
  StoppedWorldHasNoMutator
  FinalizedBeforeNextCycle
  PendingFinalization
  AssertionsHold
  NoCollectionWhilePrevented
PROPERTIES
  SyncMeansCollected
  WaitsReturn
  RequestsServed
