SPECIFICATION FairSpec
CONSTANTS
    Senders = {s1, s2}
    Reconnectors = {r1, r2}
    Main = main
    Free = free
    MaxFaults = 2
    PeerCloses = FALSE
PROPERTY
    Recovers
CHECK_DEADLOCK FALSE
