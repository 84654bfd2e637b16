SPECIFICATION FairSpec
CONSTANTS
    NetKeys = {n1}
    LldpKeys = {l1}
    Vals = {u, v}
    Absent = Absent
    Keepalive = Keepalive
    NoItem = NoItem
    Capacity = 2
    TokenEndsWait = FALSE
    MaxReports = 2
    MaxStarts = 2
    MaxFailures = 1
INVARIANTS
    NetlinkLossAccounted
    PhasesOrdered
    ShutdownDelivers
PROPERTIES
    ModelConverges
    StopCompletes
    LldpLostOnlyByDiscard
CHECK_DEADLOCK FALSE
