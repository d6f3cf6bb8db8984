SPECIFICATION CommunitySpec
CONSTANTS
    mina = mina
    arun = arun
    tara = tara
    Users = {mina, arun, tara}
    Pair = {mina, arun}
    Planners = {mina, arun}
    Matches = {mina, arun}
    Joiners = {tara}
    Buyer = tara
    file = file
    Ids = {file}
    x = x
    y = y
    Things = {x, y}
    boss = boss
    Staff = {boss}
    Levels = {"READY", "COMMITTED"}
    creta = creta
    Scopes = {creta}
    tata = tata
    kia = kia
    Brands = {tata, kia}
    IN = IN
    AE = AE
    Countries = {IN, AE}
    room = room
    Rooms = {room}
    rep = rep
    Reported = {rep}
    pay = pay
    Paid = {pay}
    MaxCalls = 3
    AtOnce = 2
    CreditLimit = 1
    MaxPasses = 2
    MaxRooms = 2
    MaxPresses = 2
    MaxTyped = 3
    MaxLoads = 2
    MaxChanges = 1
    Length <- Days
    LastMonth = 1
    MonthsAhead = 1
    MaxChildren = 1
    Ages = {0}
    Marks = {21}
    MaxCreated = 1
    Listed = {1, 2, 3}
    Sought = {"READY"}
    PageSize = 1
    MaxTime = 1
    MaxAsked = 3
    MaxWritten = 2
    Distances = {0, 5, 10, 11, 26}
    TripMonths = {1, 2}
    TripWeeks = {1, 2, 3}
    TripNights = {1, 3, 5, 6}
INVARIANTS
    CommunityOK
    ListIsWhole
    AuditTellsState
    OnlyItsAudience
    ShowsOwnAnswers
    ShowsFound
    DirectsArePaidFor
    ConfirmedMeansIn
    TripCanBeTaken
    MatchIsExplained
    SeesWhatMayBeSeen
SYMMETRY Symm
CHECK_DEADLOCK FALSE
