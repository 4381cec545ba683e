SPECIFICATION Spec
CONSTANTS
    MaxId = 3
    MaxPending = 2
    MaxDepth = 2
CHECK_DEADLOCK FALSE
INVARIANTS CursorsValid LifeOfLayers
PROPERTIES RequestsSettle
