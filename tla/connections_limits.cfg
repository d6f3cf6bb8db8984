SPECIFICATION Spec
CONSTANTS
    hub = hub
    v1 = v1
    v2 = v2
    v3 = v3
    Others = {v1, v2, v3}
    Users <- Everyone
    Nobody = nobody
    Pairs <- HubPairs
    Workers = {w1, w2}
    w1 = w1
    w2 = w2
    OpenLimit <- TightOpen
    AcceptedLimit <- TightAccepted
    Held <- HubFree
    Changing <- HubChanges
    MaxPasses = 1
SYMMETRY Interchangeable
INVARIANTS
    
    OpenWithinLimit
