CONSTANTS
    p1 = p1
    p2 = p2
    s1 = s1
    w1 = w1
    f1 = f1
    f2 = f2
    f3 = f3
    t1 = t1
    t2 = t2
    Nothing = Nothing
    Processes <- MCProcesses
    Probes <- MCProbes
    Watchers <- MCWatchers
    Files <- MCFiles
    Tasks <- MCTasks
    MaxEvents = 2
    MaxCrashes = 1
SPECIFICATION Spec
INVARIANTS
    ObserversType
    OneCommandRuns
PROPERTIES
    FollowedToTheEnd
    WatchEnds
