\* Gossip may get lost altogether; a writer may crash, and one that it reached has to pass its operation on.
CONSTANTS
    p1 = p1
    p2 = p2
    p3 = p3
    PeerBytes <- ByBytes
    Peer = {p1, p2, p3}
    Radix = 4
    MaxTime = 0
    Writers = {p1}
    MaxEdits = 1
    MaxPulls = 1
    MaxFaults = 0
    MaxCrashes = 1
    InitialView <- Mesh
SPECIFICATION FairSpec
PROPERTIES
    LogsConverge
