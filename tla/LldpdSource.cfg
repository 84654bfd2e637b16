SPECIFICATION Spec
CONSTANTS
    Ifaces = {i1}
    Peers = {p1, p2}
    Idle = Idle
    MaxChanges = 2
    MaxCalls = 2
    MaxStarts = 2
    MaxFaults = 1
SYMMETRY PeerSymmetry
CHECK_DEADLOCK FALSE
INVARIANTS
    StoppedIsQuiet
    NoNeighbourMissed
    KeepaliveBounded
PROPERTIES
    DeathNoticed
