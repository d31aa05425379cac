SPECIFICATION Spec
CONSTANTS
    MaxLives = 2
    MaxSeq = 3
    MaxSessions = 3
    MaxFaults = 2
INVARIANTS
    NoWedge
    RejectionExplained
    CloudRejectionExplained
    OneReadingPerSequence
PROPERTY ImplementsLog
CHECK_DEADLOCK FALSE
