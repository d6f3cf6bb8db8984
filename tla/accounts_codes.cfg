SPECIFICATION Spec
CONSTANTS
    Apps = {a1, a2}
    Accounts = {asha, ravi}
    Nobody = Nobody
    Old = asha
    a1 = a1
    a2 = a2
    asha = asha
    ravi = ravi
    MaxTries = 1
    PerHour = 1
    MaxCodes = 2
INVARIANTS
    WorksOnce
    LimitsHold
    NumberIsProved
SYMMETRY AppSymmetry
CHECK_DEADLOCK FALSE
