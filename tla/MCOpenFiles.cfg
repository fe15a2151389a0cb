\* Two handles on a file of up to three bytes in chunks of two.
CONSTANTS
    h1 = h1
    h2 = h2
    Byte = {1, 2}
    Typed = {1}
    Handle = {h1, h2}
    Foreign <- OtherFile
    RemoteContents <- ThreeBytes
    Ranges <- WholeOrEnd
    Sizes = {1, 3}
    MaxChunk = 2
    MaxPinnedBytes = 3
    MaxCachedBytes = 3
    MaxSize = 3
    MaxOpens = 2
    MaxWrites = 2
    MaxLocal = 1
    MaxRemote = 1
    MaxOthers = 1
SPECIFICATION Spec
SYMMETRY Interchangeable
INVARIANTS
    TypeOK
    ReadExact
    MissingExact
    TruncateExact
    WrittenStaysHere
    FetchedIsThere
PROPERTIES
    OnlyWritersChange
CHECK_DEADLOCK FALSE
