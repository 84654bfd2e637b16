SPECIFICATION FairSpec
CONSTANTS
    Vals = {u, v}
    Absent = Absent
    Nothing = Nothing
    Requests = 2
    FactRequest = 1
    SocketCap = 1
    MaxChanges = 2
    MaxStarts = 2
    MaxRedumps = 1
    MaxFaults = 1
INVARIANTS
    SignalOutlivesUsers
    StoppedIsClean
    DeadWorkerReported
    ViewSettles
PROPERTIES
    CallsEnd
CHECK_DEADLOCK FALSE
