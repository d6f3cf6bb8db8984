SPECIFICATION RacesSpec
CONSTANTS
    Users = {"asha"}
    Posts = {"post1"}
    Collectives = {"room1"}
    Scopes = {"creta", "nexon"}
    Owner <- OnePersonOwner
    Scope <- TwoScopesScope
    EliteDays = 2
    FreeDays = 1
    MaxPasses = 2
    MaxPayments = 2
    MaxMemberships = 1
    MaxNow = 3
    RefundOnLeave = FALSE
    Workers = {w1, w2}
    w1 = w1
    w2 = w2
    Overlapping = {"Activate", "ExpirePasses", "Refund"}
    Background = {"CreatePayment", "Join"}
    Written = {"post1"}
INVARIANTS
    PaidElite
    GrantedOnce
PROPERTIES
    
    DuePassEnds
CHECK_DEADLOCK FALSE
