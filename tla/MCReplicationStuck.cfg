\* The file is deleted and written again around an eviction probe.
CONSTANTS
    p1 = p1
    p2 = p2
    p3 = p3
    h1 = h1
    h2 = h2
    Peer <- ThreePeers
    Hash = {h1}
    Size <- UnitSize
    Score <- Scores
    PeerBytes <- ByBytes
    Capacity <- OneEach
    MaxCachedBytes = 1
    MaxFetchesPerRebalance = 1
    InitialView <- Mesh
    Writers = {p3}
    Readers = {}
    MaxVersion = 3
    MaxRounds = 1
    Breakable = {}
    MaxFaults = 0
    MaxCrashes = 0
SPECIFICATION FairSpec
PROPERTIES
    TwoHoldersRecur
