SPECIFICATION Spec
CONSTANTS
    JobCount = 3
    Workers = {w1}
    BlockingWorkers = {b1}
    Clients = {c1, c2}
    QueueCapacity = 3
    Deterministic = FALSE
    Shapes <- JoinShapes
    ClientCalls = {"cancel"}
    Callbacks = {}
    MayThrow = {1, 2}
    MayRunOut = {2}
INVARIANTS DependenciesFirst FailureStopsDependents FailureOriginates FunctionOutlivesCall CountersAgree
SYMMETRY ClientSymmetry
CHECK_DEADLOCK FALSE
