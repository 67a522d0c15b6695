\* Three requests for one name: long enough a queue for its order to matter.
SPECIFICATION Spec
CONSTANTS
    Documents = {d1}
    Workers = {w1}
    Names = {n1}
    Modes = {"exclusive", "shared"}
    Kinds = {"signal", "steal"}
    MaxRequests = 3
INVARIANTS
    NoOrphanedEntry
    HeldCompatible
    RunningHoldsLock
    NoGrantableWaits
PROPERTIES
    FirstComeFirstServed
