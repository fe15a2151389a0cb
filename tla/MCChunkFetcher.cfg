\* Two peers that may be asked at once, two readers and a pin.  The pins have
\* room for h1 but not for h2, the cache for either of them but not for both.
CONSTANTS
    p1 = p1
    p2 = p2
    h1 = h1
    h2 = h2
    r1 = r1
    r2 = r2
    Size <- Sizes
    Score <- Scores
    PeerBytes <- ByBytes
    Peer = {p1, p2}
    Hash = {h1, h2}
    Reader = {r1, r2}
    MaxPinnedBytes = 1
    MaxCachedBytes = 2
    MaxFetchTargets = 2
    ChannelCapacity = 1
    ReadHashes = {h1}
    MaxPins = 1
SPECIFICATION FairSpec
INVARIANTS
    TypeOK
    SessionsConsistent
    WaitersKept
PROPERTIES
    PinAnswered
    RefusedLast
    ReadersAnswered
