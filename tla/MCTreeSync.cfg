\* Three edits of two writers whose clocks disagree by a millisecond.
CONSTANTS
    p1 = p1
    p2 = p2
    p3 = p3
    PeerBytes <- ByBytes
    Peer = {p1, p2}
    Radix = 4
    MaxTime = 1
    Writers = {p1, p2}
    MaxEdits = 3
    MaxPulls = 1
    MaxFaults = 0
    MaxCrashes = 0
    InitialView <- Strangers
SPECIFICATION Spec
INVARIANTS
    TypeOK
    IdsUnique
    ClockAhead
    ObserveLoop
PROPERTIES
    EditsTakeEffect
    ImplementsReplicatedLog
