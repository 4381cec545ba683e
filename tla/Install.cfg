SPECIFICATION FairSpec
CONSTANTS
    v1 = v1
    v2 = v2
    shared = shared
    added = added
    first = first
    second = second
    PathCount = 3
    Version = {v1, v2}
    Package <- TwoVersions
    Content = {shared, added, first, second}
    None = none
    Foreign = foreign
    Torn = torn
    MaxFaults = 2
INVARIANTS AllOrNothing PreviousRecoverable
PROPERTIES DecisionHolds CommittedStays ForeignKept RecoveryCompletes
