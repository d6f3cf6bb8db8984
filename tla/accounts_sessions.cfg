SPECIFICATION Spec
CONSTANTS
    a1 = a1
    Apps = {a1}
    Stores = {a1}
    Homes <- Own
    MaxCalls = 2
    MaxWorkers = 2
    Nobody = Nobody
    MaxTokens = 3
    MaxFaults = 1
INVARIANTS
    NoFalseAlarm
    OneSuccessor
PROPERTIES
    CallsEnd
CHECK_DEADLOCK FALSE
