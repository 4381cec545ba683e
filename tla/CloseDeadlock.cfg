SPECIFICATION FairSpec
CONSTANTS
    JobCount = 2
    Workers = {w1}
    BlockingWorkers = {b1}
    Clients = {c1}
    QueueCapacity = 2
    Deterministic = FALSE
    Shapes <- CrossWaitShapes
    ClientCalls = {"close"}
    Callbacks = {}
    MayThrow = {}
    MayRunOut = {}
PROPERTIES ClientsReturn
CHECK_DEADLOCK FALSE
