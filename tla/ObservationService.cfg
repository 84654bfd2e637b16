SPECIFICATION FairSpec
CONSTANTS
    e1 = e1
    c1 = c1
    loc = loc
    t1 = t1
    t2 = t2
    Interfaces = {e1}
    Candidates = {c1}
    LocalState = loc
    KeyOrder <- MCKeyOrder
    TransportOrder <- MCTransportOrder
    None = None
    TokenEndsWait = FALSE
    MaxMarks = 2
    MaxStarts = 2
    MaxFaults = 1
INVARIANTS
    UsersOutlived
    DeathsReported
    StopDrains
PROPERTIES
    Notifies
    MarksSignalled
    OwnerReturns
    HealthShown
CHECK_DEADLOCK FALSE
