SPECIFICATION ProtocolsSpec
CONSTANTS
    Protocols = {"store", "socket", "pipewire"}
    Channels = {c1, c2}
    MaxGenerations = 2
    MaxTroubles = 1
    Daemons = {"a", "b"}
    Inodes = {1, 2, 3}
    MaxStarts = 2
    MaxKills = 1
    Sources <- MCSources
    Targets <- MCTargets
    Devices <- MCDevices
    Others <- MCOthers
    StreamPorts <- MCStreamPorts
    MaxChanges = 3
    MaxFaults = 1
CHECK_DEADLOCK FALSE
INVARIANTS
    StoreSound
    SocketSound
    EndsForCause
PROPERTIES
    StoreSteps
    LinkedInOrder
    NobodyWaits
