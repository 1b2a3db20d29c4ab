SPECIFICATION ExecutionSpec
CONSTANTS
    Capacity = 2
    ChunkSize = 2
    MaxRows = 5
    MaxUnread = 2
    MaxRefusals = 3
CHECK_DEADLOCK FALSE
INVARIANTS
    SignalsHitTheWorker
    SlotOutlivesProcess
    PlanIsWhole
PROPERTIES
    ImplementsResult
    RequestEnds
