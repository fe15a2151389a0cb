\* One node's chunk store: five chunks of 0, 1, 1, 2 and 4 bytes.
CONSTANTS
    h0 = h0
    h1 = h1
    h2 = h2
    h3 = h3
    h4 = h4
    Hash <- MCHash
    Size <- MCSize
    MaxPinnedBytes = 5
    MaxCachedBytes = 3
    MaxBatch = 2
SPECIFICATION UseSpec
INVARIANTS
    TypeOK
    Accounting
    LruExact
PROPERTIES
    LeastRecentlyUsedGoes
    ImplementsChunkStore
