SPECIFICATION Spec
CONSTANTS
    e1 = e1
    c1 = c1
    loc = loc
    t1 = t1
    t2 = t2
    Interfaces = {e1}
    Candidates = {c1}
    LocalState = loc
    KeyOrder <- MCKeyOrder
    TransportOrder <- MCTransportOrder
    None = None
    TokenEndsWait = TRUE
    MaxMarks = 2
    MaxStarts = 2
    MaxFaults = 1
INVARIANT
    NoMarkStranded
CHECK_DEADLOCK FALSE
