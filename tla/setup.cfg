SPECIFICATION FairSpec
CONSTANTS
    Keys = {"k1", "k2"}
    NoKey = "noKey"
    Pins = {"k1", "noKey"}
    Registered = {"gw1", "gw2"}
    Self = "gw1"
    MaxAttempts = 3
    MaxFaults = 2
INVARIANTS
    KeyAgreement
    FailsClosed
    NameAgreement
    AcceptedIfAgreed
PROPERTY Establishes
CHECK_DEADLOCK FALSE
