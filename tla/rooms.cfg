SPECIFICATION RoomSpec
CONSTANTS
    asha = asha
    mina = mina
    ravi = ravi
    People = {asha, mina, ravi}
    Senders = {asha}
    Readers = {ravi}
    Nobody = Nobody
    Limit = 1
    MaxMessages = 2
    MaxWorkers = 2
    MaxFaults = 1
    Options = {o1, o2}
    o1 = o1
    o2 = o2
    phone = phone
    tablet = tablet
    Screens = {phone, tablet}
    Slow = {phone}
    Voters = {ravi}
    Kinds <- MostKinds
    Person <- OneVoter
INVARIANTS
    
    HistoryEndsWithPass
    YourVoteCounts
PROPERTIES
    CatchesUp
    VotesAreFinal
CHECK_DEADLOCK FALSE
