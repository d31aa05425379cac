SPECIFICATION Spec
CONSTANTS
    MAX_MESSAGE_BYTES = 3
    MaxSize = 5
    MaxMessages = 3
INVARIANTS
    TypeOK
    Faithful
    RightOutcome
CHECK_DEADLOCK FALSE
