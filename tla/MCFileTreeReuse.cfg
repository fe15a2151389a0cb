\* Three calls of the only user suffice.
CONSTANTS
    p0 = p0
    p1 = p1
    p2 = p2
    a = a
    b = b
    c1 = c1
    NoName = NoName
    Peer = {p1}
    Name = {a, b}
    Chunk = {c1}
    Prelude <- Nothing
    MaxOps = 3
    MaxDepth = 2
SPECIFICATION Spec
PROPERTIES
    CreatedFilesShowUp
CHECK_DEADLOCK FALSE
