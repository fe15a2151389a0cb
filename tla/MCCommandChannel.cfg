\* Channels for one operation and two commands, batches of two, and rebalance
\* passes that could fill the command channel.
CONSTANTS
    Writer = {w1, w2}
    Reader = {r1}
    MaxBatch = 2
    OperationCapacity = 1
    CommandCapacity = 2
    MaxPins = 2
    MaxOperations = 3
    MaxPasses = 2
SPECIFICATION FairSpec
INVARIANTS
    TypeOK
    NothingLost
PROPERTIES
    EverythingMoves
CHECK_DEADLOCK FALSE
