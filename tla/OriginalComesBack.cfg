SPECIFICATION Spec
CONSTANTS
    managed = managed
    local = local
    value = value
    empty = empty
    Keys <- MCKeys
    Values <- MCValues
    Absent = Absent
    Unset = Unset
    Malformed = Malformed
    Fragment <- MCFragment
    Empty = empty
    Essential <- MCEssential
    Inherited <- MCInherited
    MaxEdits = 2
    MaxFailures = 0
    MaxUndoFailures = 0
    MaxCrashes = 1
PROPERTY OriginalComesBack
CHECK_DEADLOCK FALSE
