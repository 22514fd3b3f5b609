SPECIFICATION PartsSpec
CONSTANTS
    Parts = {"lane", "artifacts", "runtime", "export", "ingress"}
    Producers = {accept, scheduler}
    Capacity = 2
    MaxJobs = 4
    Ports <- MCPorts
    Devices <- MCDevices
    Rates = {44100, 48000}
    ClockReadings = {1, 2, 3}
    StaleAge = 0
    Captures <- MCCaptures
    SlotFrames = 80
    Formats = 100
    MaxCalibrations = 2
    MaxChanges = 1
    Word = 1000000
    Index = 10000
    PageSize = 4096
    Params <- MCParamSets
    Readers = {r1}
    MaxSnapshots = 1
    MaxWrite = 2
    MaxHead = 5
    MaxEras = 1
    MaxDropped = 1
    WindowMs = 2
    HopMs = 1
    SustainedMs = 3
    PrerollMs = 1
    Profiles <- MCProfiles
    Recordings <- MCRecordings
    SampleRate = 1000
    StartFrame = 10
    SplitBytes = 50
    MaximumPathBytes = 200
    RetentionFrames = 4
    MaxAttempts = 2
    Slots = 2
    Window = 2
    Hop = 1
    MaxFrames = 3
    MaxCalls = 1
    MaxFailures = 1
CHECK_DEADLOCK FALSE
INVARIANTS
    AnsweredInOrder
    DrainedAtExit
    QueuedAreCancelled
    CalibrationGenuine
    
    RingSound
    ExportFaithful
    PreviewAgrees
    CalibrationSound
    WindowsWhole
    FramesAccounted
PROPERTIES
    QueueImplements
    WaitersServed
