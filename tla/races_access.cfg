SPECIFICATION RacesSpec
CONSTANTS
    Users = {"asha"}
    Posts = {"post1"}
    Collectives = {"room1"}
    Scopes = {"creta", "nexon"}
    Owner <- OnePersonOwner
    Scope <- TwoScopesScope
    EliteDays = 1
    FreeDays = 1
    MaxPasses = 2
    MaxPayments = 1
    MaxMemberships = 2
    MaxNow = 1
    RefundOnLeave = FALSE
    Workers = {w1, w2}
    w1 = w1
    w2 = w2
    Overlapping = {"Activate", "ExpirePasses", "Join", "Leave", "Refund", "PaymentFailed", "CreatePayment"}
    Background = {"Posts", "PaymentFailed", "Refund"}
    Written = {"post1"}
SYMMETRY WorkerSymmetry
INVARIANTS
    PrivateDiscussion
    
CHECK_DEADLOCK FALSE
