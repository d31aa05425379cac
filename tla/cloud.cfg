SPECIFICATION FairSpec
CONSTANTS
    Handlers = {h1, h2}
    Devices = {d1, d2}
    MaxSeq = 2
    MaxConnections = 2
    MaxFrames = 4
    Capacity = 2
INVARIANTS
    RegistryMatches
    StoresNewReading
    NothingUnaccounted
PROPERTY DepartedEvicted
CHECK_DEADLOCK FALSE
