SPECIFICATION FairSpec
CONSTANTS
    RetryInterval = 3
    ProbeInterval = 6
    FailureLimit = 2
    Ageout = 5
    ReassertMin = 1
    ReassertMax = 30
    MaxGap = 2
    MaxFaults = 3
    MaxDrops = 1
INVARIANTS
    AttemptsSpaced
    KeptAlive
PROPERTIES
    EscalationEarned
    Recovers
