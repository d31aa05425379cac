SPECIFICATION Spec
CONSTANTS
    Handlers = {h1, h2}
    Known = {d1, d2}
    Unknown = u
    Nonces = {n1, n2}
    MaxSeq = 2
    MaxConnections = 2
    MaxFrames = 2
SYMMETRY Symmetry
INVARIANTS
    ServedAsClaimed
    AcceptedAsSealed
    NothingUnaccounted
    DetectedCountsDevices
CHECK_DEADLOCK FALSE
