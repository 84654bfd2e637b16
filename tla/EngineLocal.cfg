SPECIFICATION Spec
CONSTANTS
    Ifaces = {e1, e2}
    Macs = {b}
    LinkMacs = {b}
    LldpMacs = {}
    Ips = {i1}
    LocalIps = {i1}
    Prefixes = {16, 24}
    Ports = {}
    NoMac = NoMac
    NoPort = NoPort
    NoLldp = NoLldp
    LldpIds = {x}
    NoCandidate = NoCandidate
    Hidden = Hidden
    MaxRestarts = 2
    Cidrs <- MCCidrs
INVARIANTS
    OwnershipExact
    LocalMacHidden
    ClientInformed
PROPERTY
    RemovedMeansHidden
SYMMETRY MCSymmetry
CHECK_DEADLOCK FALSE
