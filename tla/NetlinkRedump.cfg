SPECIFICATION Spec
CONSTANTS
    Vals = {u, v}
    Absent = Absent
    Nothing = Nothing
    Requests = 2
    FactRequest = 1
    SocketCap = 2
    MaxChanges = 2
    MaxStarts = 1
    MaxRedumps = 1
    MaxFaults = 0
INVARIANT
    RedumpRestores
CHECK_DEADLOCK FALSE
