CONSTANTS
    safe = safe
    critical = critical
    t0 = t0
    Nothing = Nothing
    Codes <- MCCodes
    CriticalCodes <- MCCriticalCodes
    TaskContents = {}
    MetadataTracked = FALSE
    MaxAutoFixRounds = 1
    MaxProbes = 1
    MaxEdits = 2
    MaxFaults = 0
SPECIFICATION Spec
INVARIANTS
    StoppedStatusCoherent
    NoHighRiskCompletion
    ReviewFoundations
PROPERTIES
    VerdictIsForWorkersCode
