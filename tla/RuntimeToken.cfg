SPECIFICATION Spec
CONSTANTS
    NetKeys = {n1}
    LldpKeys = {l1}
    Vals = {u, v}
    Absent = Absent
    Keepalive = Keepalive
    NoItem = NoItem
    Capacity = 2
    TokenEndsWait = TRUE
    MaxReports = 2
    MaxStarts = 2
    MaxFailures = 1
INVARIANT
    QueuedIsDelivered
CHECK_DEADLOCK FALSE
