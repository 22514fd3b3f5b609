SPECIFICATION Spec
CONSTANTS
    QueueSlots = 1
    ChunkFrames = 1
    ChunkCount = 2
    MaxFrames = 3
    MaxDrops = 1
    MaxTimeouts = 2
    MaxClears = 1
CONSTRAINT Effort
INVARIANTS
    TypeOK
    Conservation
    FramesByCause
    FrozenOwned
PROPERTIES
    CursorMonotone
    RetrySameTransaction
