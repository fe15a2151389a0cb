\* A file of another node that is larger than the cache.
CONSTANTS
    h1 = h1
    h2 = h2
    Byte = {1, 2}
    Typed = {1}
    Handle = {h1, h2}
    Foreign <- OtherFile
    RemoteContents <- ThreeBytes
    Ranges <- WholeOrEnd
    Sizes = {1, 3}
    MaxChunk = 2
    MaxPinnedBytes = 3
    MaxCachedBytes = 2
    MaxSize = 3
    MaxOpens = 1
    MaxWrites = 1
    MaxLocal = 0
    MaxRemote = 1
    MaxOthers = 0
SPECIFICATION Spec
SYMMETRY Interchangeable
PROPERTIES
    SnapshotIsVersion
CHECK_DEADLOCK FALSE
