SPECIFICATION CSpec
CONSTANTS
    Handlers = {h1, h2}
    Peers = {d1, d2}
    Keys = {k1, demo}
    NoKey = noKey
    DemoKey = demo
    MaxConnections = 2
    MaxEdits = 1
INVARIANTS
    CTypeOK
    ServedUnderCurrentKey
PROPERTY
    RejectedForCause
