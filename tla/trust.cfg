SPECIFICATION FairSpec
CONSTANTS
    Keys = {"k1", "k2", "k3", "k4"}
    NoKey = "noKey"
    MaxFaults = 3
INVARIANTS
    AnnouncedIsDurable
PROPERTIES
    DoneMeansPinned
    Provisions
CHECK_DEADLOCK FALSE
