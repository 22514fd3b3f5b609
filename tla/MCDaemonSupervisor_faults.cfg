SPECIFICATION FairSpec
CONSTANTS
    Capacity = 1
    MaxCommands = 1
    MaxFaults = 2
    MaxFailures = 0
PROPERTIES FaultRecovered
