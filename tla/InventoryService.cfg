SPECIFICATION FairSpec
CONSTANTS
    uuid = uuid
    meta = meta
    uuidField = uuidField
    metaField = metaField
    Sources <- MCSources
    Required <- MCRequired
    Fields <- MCFields
    Owner <- MCOwner
    Omissible <- MCOmissible
    Vals = {u}
    Missing = Missing
    Bad = Bad
    MaxChanges = 1
    MaxRequests = 1
    MaxStarts = 2
    MaxFaults = 1
INVARIANTS
    EventfdOutlivesUsers
    RefreshNotForgotten
    ClientInformed
PROPERTIES
    ServesFiles
    StopEnds
CHECK_DEADLOCK FALSE
