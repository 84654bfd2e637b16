SPECIFICATION Spec
CONSTANTS
    Indexes = {x1, x2}
    Names = {n1, n2}
    Macs = {a, b}
    Ips = {p}
    Fdbs = {v1, v2}
    Nuds = {"reachable", "reachable+noarp"}
    FdbBits <- MCFdbBits
    Watched = {}
    None = None
    MaxChanges = 4
SYMMETRY MCSymmetry
INVARIANTS
    TypeOK
    CacheSound
    CacheConverges
CHECK_DEADLOCK FALSE
