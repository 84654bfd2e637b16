SPECIFICATION Spec
CONSTANTS
    RetryInterval = 3
    ProbeInterval = 6
    FailureLimit = 2
    Ageout = 6
    ReassertMin = 1
    ReassertMax = 30
    MaxGap = 2
    MaxFaults = 0
    MaxDrops = 1
INVARIANT NeverAgedOut
