SPECIFICATION Spec
CONSTANTS
    managed = managed
    local = local
    value = value
    empty = empty
    Keys <- MCKeys
    Values <- MCValues
    Absent = Absent
    Unset = Unset
    Malformed = Malformed
    Fragment <- MCFragment
    Empty = empty
    Essential <- MCEssential
    Inherited <- MCInherited
    MaxEdits = 3
    MaxFailures = 1
    MaxUndoFailures = 1
    MaxCrashes = 1
INVARIANTS MergeType RerunChangesNothing WorkerFollowsSettings
PROPERTIES KeepsLayers FailureChangesNothing
CHECK_DEADLOCK FALSE
