SPECIFICATION Spec
CONSTANTS
    Devices = {d1}
    Workers = {w1, w2}
    Nobody = Nobody
    d1 = d1
    w1 = w1
    w2 = w2
    Amount = 1
    MaxPayments = 1
    MaxOrders = 2
    MaxAttempts = 2
    MaxKeys = 1
    MaxFaults = 1
    Patience = {TRUE}
INVARIANTS
    SuccessIsGranted
PROPERTIES
    LedgerHolds
    ChargedIsGranted
    ReturnedIsBooked
CHECK_DEADLOCK FALSE
