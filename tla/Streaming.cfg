SPECIFICATION FairSpec
CONSTANTS
    Class = {texture}
    Size <- Sizes
    Budget <- Limits
    EvictionThreshold = 100
    EvictionTarget = 90
    MaximumRequests = 2
    QueueCapacity = 2
    Readers = 1
    MaxIssued = 3
    MaxSequence = 3
    None = None
CHECK_DEADLOCK FALSE
INVARIANTS HandlesStayTheirs StatisticsAgree ReadsAreAwaited
PROPERTIES EvictsLeastRecent RequestsEnd
