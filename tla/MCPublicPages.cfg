SPECIFICATION MCSpec
CONSTANTS
    Schools = {s1, s2}
    Sides = {d1, d2}
    NoSide = NoSide
    NoCard = NoCard
    Idle = Idle
    Requests = {r1, r2}
    MaxTime = 3
    MaxWork = 4
    None = None
    Subs = {s1, s2}
    Keys = {d1, d2}
    Visits = {r1, r2, r3}
    MaxObjects = 3
    MaxVisits = 5
    Pupils = {s1}
    Validity = {1, 2}
    Orders = {r1, r2}
    MaxClock = 3
    MaxOrders = 5
    Limit = 2
    Window = 2
    PurgeEvery = 3
    MaxTicks = 6
    MaxCalls = 7
SYMMETRY Symmetry
CHECK_DEADLOCK FALSE
INVARIANTS TypeOK RevokedLinksStayDead PhotosHold RevokedCredentialsRefused WindowHolds
PROPERTIES Versioned NoLostDesign DecidedOnce
