SPECIFICATION Spec
CONSTANTS
    Users = {"asha"}
    Posts = {"post1", "post2"}
    Collectives = {"room1", "room2"}
    Scopes = {"creta", "nexon"}
    Owner <- SameScopeOwner
    Scope <- SameScopeScope
    EliteDays = 2
    FreeDays = 1
    MaxPasses = 2
    MaxPayments = 1
    MaxMemberships = 2
    MaxNow = 2
    RefundOnLeave = FALSE
INVARIANTS
    OnePlaceAtATime
    RidesOnActivePass
    DiscussionMatchesMembership
    EliteCoversEverything
