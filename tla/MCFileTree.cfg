\* A directory and a file, and three more operations of two users.
CONSTANTS
    p0 = p0
    p1 = p1
    p2 = p2
    a = a
    b = b
    c1 = c1
    NoName = NoName
    Peer = {p1, p2}
    Name = {a, b}
    Chunk = {c1}
    Prelude <- OneOfEach
    MaxOps = 5
    MaxDepth = 2
SPECIFICATION Spec
INVARIANTS
    TypeOK
    TreesConverge
    DuplicatesConcurrent
    RemovedStaysRemoved
    WritesLast
    ReachableIsListed
SYMMETRY Interchangeable
CHECK_DEADLOCK FALSE
