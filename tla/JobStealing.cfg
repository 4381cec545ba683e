SPECIFICATION Spec
CONSTANTS
    WorkerCount = 2
    PriorityCount = 2
    AgingSubmissions = 2
    MaxSequence = 4
    UsedPlaces = {0, 2, 3}
INVARIANTS EachJobOnce AgingBoundsBypass
CHECK_DEADLOCK FALSE
