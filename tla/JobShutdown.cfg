SPECIFICATION FairSpec
CONSTANTS
    JobCount = 3
    Workers = {w1}
    BlockingWorkers = {b1}
    Clients = {c1}
    QueueCapacity = 3
    Deterministic = FALSE
    Shapes <- ShutdownShapes
    ClientCalls = {"close", "wait", "cancelScope", "waitScope"}
    Callbacks = {}
    MayThrow = {}
    MayRunOut = {}
INVARIANTS ScopeDrains CloseDrains
PROPERTIES EveryJobCompletes ClientsReturn
CHECK_DEADLOCK FALSE
