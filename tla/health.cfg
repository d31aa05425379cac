SPECIFICATION HSpec
CONSTANTS
    Senders = {s1}
    Reconnectors = {r1}
    Main = main
    Free = free
    MaxFaults = 3
    PeerCloses = FALSE
INVARIANTS
    ShowsInstalledSession
CHECK_DEADLOCK FALSE
