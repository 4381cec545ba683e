SPECIFICATION FairSpec
CONSTANTS
    TaskCount = 2
    Shapes <- Pairs
    MaximumDownloads = 1
    MaxLaunches = 2
    MaxRequests = 1
    MaxFaults = 1
    None = None
INVARIANTS StraysAreTold CompletionsRemembered
PROPERTIES OverlapsKeptApart CompletionsWin TasksEnd
