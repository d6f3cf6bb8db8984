SPECIFICATION Spec
CONSTANTS
    Users = {"asha"}
    Posts = {"post1"}
    Collectives = {"room1"}
    Scopes = {"creta", "nexon"}
    Owner <- SameScopeOwner
    Scope <- SameScopeScope
    EliteDays = 2
    FreeDays = 1
    MaxPasses = 2
    MaxPayments = 3
    MaxMemberships = 1
    MaxNow = 4
    RefundOnLeave = TRUE
INVARIANTS
    NoUnpaidDays
PROPERTIES
    EliteEndsOnlyByRefund
