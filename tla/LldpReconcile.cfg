SPECIFICATION Spec
CONSTANTS
    Ifaces = {i1}
    Peers = {p1, p2}
    Idle = Idle
    MaxChanges = 2
    MaxCalls = 1
    MaxStarts = 1
    MaxFaults = 1
SYMMETRY PeerSymmetry
CHECK_DEADLOCK FALSE
PROPERTIES
    RemovedStaysCorrect
