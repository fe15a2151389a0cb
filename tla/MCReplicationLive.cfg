\* Progress, and room for one of two chunks on each peer: a lost request and a
\* crash, but no broken connection and no delete.
CONSTANTS
    p1 = p1
    p2 = p2
    p3 = p3
    h1 = h1
    h2 = h2
    Peer <- ThreePeers
    Hash = {h1, h2}
    Size <- UnitSize
    Score <- Scores
    PeerBytes <- ByBytes
    Capacity <- OneEach
    MaxCachedBytes = 1
    MaxFetchesPerRebalance = 1
    InitialView <- Mesh
    Writers = {p3}
    Readers = {p1}
    MaxVersion = 1
    MaxRounds = 1
    Breakable = {}
    MaxFaults = 1
    MaxCrashes = 1
SPECIFICATION FairSpec
PROPERTIES
    StoresAreChunkStores
    TwoHoldersRecur
