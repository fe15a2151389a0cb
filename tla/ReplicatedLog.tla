--------------------------- MODULE ReplicatedLog ---------------------------
(***************************************************************************)
(* What synchronisation promises to the file tree, whatever the network    *)
(* does: every peer has a set of operations; an operation that a peer      *)
(* makes is ordered after all that the peer has and is like no other; all  *)
(* else that enters a log has come from the log of some peer, in any order *)
(* and with gaps.                                                          *)
(***************************************************************************)
CONSTANTS
    Peer,
    Before(_, _)    \* the order in which the trees apply operations

VARIABLE
    log             \* log[p]: the operations that p has

Known == UNION {log[p] : p \in Peer}

LogInit == log = [p \in Peer |-> {}]

\* The mutant leaves out that an operation is later than those its author has.
MakeAnyTime(p, op) ==
    /\ \A old \in Known : Before(old, op) \/ Before(op, old)
    /\ log' = [log EXCEPT ![p] = @ \cup {op}]

Make(p, op) ==
    /\ \A old \in Known : Before(old, op) \/ Before(op, old)
    /\ \A old \in log[p] : Before(old, op)
    /\ log' = [log EXCEPT ![p] = @ \cup {op}]

Learn(p, ops) ==
    /\ ops \subseteq Known
    /\ log' = [log EXCEPT ![p] = @ \cup ops]

\* One of the two: whatever is new in p's log was made there or was known.
Step(p) ==
    LET fresh == log'[p] \ log[p] IN
    \/ \E op \in fresh : Make(p, op)
    \/ Learn(p, fresh)

LogSpec == LogInit /\ [][\E p \in Peer : Step(p)]_log

===========================================================================
