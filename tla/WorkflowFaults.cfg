CONSTANTS
    safe = safe
    critical = critical
    t0 = t0
    Nothing = Nothing
    Codes <- MCCodes
    CriticalCodes <- MCCriticalCodes
    TaskContents <- MCTaskContents
    MetadataTracked = TRUE
    MaxAutoFixRounds = 1
    MaxProbes = 2
    MaxEdits = 0
    MaxFaults = 1
SPECIFICATION FairSpec
INVARIANTS
    TypeOK
    TerminalNotResumable
    WaitingDecisionHasQuestion
    CallsRecordedOnce
    Inductive
PROPERTIES
    CommandTerminates
