SPECIFICATION Spec
CONSTANTS
    Capacity = 2
    BatchBytes = 3
    MaxDocumentBytes = 3
    EventSizes <- MCEventSizes
    RequestedCaps <- MCRequestedCaps
    ChunkSizes <- MCChunkSizes
INVARIANTS
    DocTimeoutCode
CHECK_DEADLOCK FALSE
