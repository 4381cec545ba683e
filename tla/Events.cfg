SPECIFICATION Spec
CONSTANTS
    Type = {a, b}
    Generic = generic
    Kind = {a}
    Priority = {1, 2}
    Producer = {p}
    QueueCapacity = 2
    MaxListeners = 2
    MaxEvents = 3
    MaxDepth = 2
CHECK_DEADLOCK FALSE
INVARIANTS TraversalsStay AcceptedOnce
PROPERTIES DeliveredInOrder
