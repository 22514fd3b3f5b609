SPECIFICATION PolledSpec
CONSTANTS
    QueueSlots = 1
    ChunkFrames = 1
    ChunkCount = 2
    MaxFrames = 1
    MaxDrops = 0
    MaxTimeouts = 2
    MaxClears = 1
PROPERTIES
    OperationEnds
    ClearSettles
    FrozenReturns
