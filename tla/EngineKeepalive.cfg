SPECIFICATION Spec
CONSTANTS
    Ifaces = {e1}
    Macs = {a}
    LinkMacs = {}
    LldpMacs = {a}
    Ips = {i1}
    LocalIps = {i1}
    Prefixes = {24}
    Ports = {p1, p2}
    NoMac = NoMac
    NoPort = NoPort
    NoLldp = NoLldp
    LldpIds = {x, y}
    NoCandidate = NoCandidate
    Hidden = Hidden
    MaxRestarts = 2
    Cidrs <- MCCidrs
INVARIANT OnlyNoOpsSuppressed
SYMMETRY MCSymmetry
CHECK_DEADLOCK FALSE
