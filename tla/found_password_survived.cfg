SPECIFICATION Spec
CONSTANTS
    a1 = a1
    a2 = a2
    Apps = {a1, a2}
    Stores = {a1, a2}
    Homes <- Own
    MaxCalls = 1
    MaxWorkers = 2
    Nobody = Nobody
    MaxTokens = 3
    MaxFaults = 0
INVARIANTS
    PasswordEndsSessions
CHECK_DEADLOCK FALSE
