SPECIFICATION Spec
CONSTANTS
    FileCount = 2
    CleanedPayloads = 1
    Supplied = {1}
    Contents = {plain, dark, bright}
    Default = plain
    Absent = absent
    MayFail = TRUE
    MayCrash = TRUE
    Outsiders = TRUE
SYMMETRY ContentSymmetry
INVARIANTS AllOrNothing BackupsKept BaselineHolds
PROPERTIES ForeignEditsKept ImplementsStore
