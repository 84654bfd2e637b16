SPECIFICATION Spec
CONSTANTS
    uuid = uuid
    meta = meta
    uuidField = uuidField
    metaField = metaField
    Sources <- MCSources
    Required <- MCRequired
    Fields <- MCFields
    Owner <- MCOwner
    Omissible <- MCOmissible
    Vals = {u}
    Missing = Missing
    Bad = Bad
    MaxChanges = 1
    MaxRequests = 0
    MaxStarts = 2
    MaxFaults = 0
INVARIANT
    ReadyServed
CHECK_DEADLOCK FALSE
