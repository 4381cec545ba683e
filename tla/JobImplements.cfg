SPECIFICATION FairSpec
CONSTANTS
    JobCount = 3
    Workers = {w1, w2}
    BlockingWorkers = {b1}
    Clients = {c1}
    QueueCapacity = 2
    Deterministic = TRUE
    Shapes <- StrictShapes
    ClientCalls = {"setDeterministic", "onComplete"}
    Callbacks = {f1}
    MayThrow = {1}
    MayRunOut = {}
INVARIANTS StrictOrder
PROPERTIES ImplementsContract
CHECK_DEADLOCK FALSE
