SPECIFICATION FairSpec
CONSTANTS
    Capacity = 1
    BatchBytes = 2
    MaxDocumentBytes = 4
    EventSizes <- MCEventSizes
    RequestedCaps <- MCLowAndHighCaps
    ChunkSizes <- MCChunkSizes
INVARIANTS
    SentInOrder
    Backpressure
    CapIsExact
    OutcomeTold
    CountersAgree
PROPERTIES
    IsEventStream
    SlotComesBack
    StreamEnds
CHECK_DEADLOCK FALSE
