SPECIFICATION FairSpec
CONSTANTS
    Worker = worker
    Reviewer = reviewer
    MaxProbes = 4
    Schedule <- MCSchedule
    Deadline = 36
    Delays <- MCDelays
    MaxCalls = 3
    MaxTasks = 2
    MaxVersions = 2
    MaxFaults = 1
INVARIANTS ProviderType ResumesOwnSession SessionSurvivesStop GivesUpOnlyExhausted
PROPERTIES CallEnds
CHECK_DEADLOCK FALSE
