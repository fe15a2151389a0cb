\* Three peers that meet, lose a connection, crash; two write and delete the same
\* chunk, one reads it.
CONSTANTS
    p1 = p1
    p2 = p2
    p3 = p3
    h1 = h1
    h2 = h2
    Peer <- ThreePeers
    Hash = {h1}
    Size <- UnitSize
    Score <- Scores
    PeerBytes <- ByBytes
    Capacity <- OneEach
    MaxCachedBytes = 1
    MaxFetchesPerRebalance = 1
    InitialView <- Strangers
    Writers = {p2, p3}
    Readers = {p1}
    MaxVersion = 2
    MaxRounds = 1
    Breakable <- AnyPair
    MaxFaults = 1
    MaxCrashes = 1
SPECIFICATION Spec
INVARIANTS
    TypeOK
    LiveChunksHeld
    VouchedCovered
PROPERTIES
    EvictionKeepsReplicas
