SPECIFICATION LiveSpec
CONSTANTS
    Documents = {d1}
    Workers = {w1}
    Names = {n1}
    Modes = {"exclusive"}
    Kinds = {"signal", "steal", "ifAvailable"}
    MaxRequests = 2
PROPERTIES
    PromisesSettle
    DepartedLeaveNothing
