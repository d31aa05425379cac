SPECIFICATION FairSpec
CONSTANTS
    Senders = {s1, s2}
    Reconnectors = {r1, r2}
    Main = main
    Free = free
    MaxFaults = 2
    PeerCloses = TRUE
INVARIANTS
    LiveSocketCoherent
    SingleEstablisher
    FailureHitsOwnSession
    MismatchOnlyIfReplaced
    SkippedIsLost
PROPERTIES
    CrashOnlyIfInvalidated
    ImplementsLifecycle
    RecoversUnlessSkipped
    DeadLinkDropped
    LockReleased
CHECK_DEADLOCK FALSE
