------------------------------ MODULE TreeSync ------------------------------
(***************************************************************************)
(* How the peers' file trees come to agree: the operation log of NodeTree  *)
(* (src/filesystem/tree/mod.rs) on every peer, the gossip of new           *)
(* operations (handlers/gossip.rs) and the periodic pull of missed ones    *)
(* (handlers/tree_sync.rs).                                                *)
(*                                                                         *)
(* The tree itself is the work of the crdt_tree library: it is determined  *)
(* by the log, which the library keeps ordered by (counter, actor) and in  *)
(* which an operation with a timestamp that is already there changes       *)
(* nothing.  Trees agree exactly when logs do.                             *)
(***************************************************************************)
EXTENDS HybridLogicalClock, FiniteSets, Functions

CONSTANTS
    Peer,
    PeerBytes,      \* PeerBytes[p]: the bytes of peer p, read as a number
    InitialView,    \* InitialView[p]: the peers p starts connected to
    Writers,        \* model bound: the peers whose users change files
    MaxEdits,       \* model bound: operations the users make
    MaxPulls,       \* model bound: unanswered pulls of one peer
    MaxFaults,      \* model bound: connections and pulls lost
    MaxCrashes      \* model bound: peers that crash

ASSUME SyncAssumption ==
    /\ IsFiniteSet(Peer)
    /\ PeerBytes \in [Peer -> Nat]
    /\ \A p, q \in Peer : PeerBytes[p] = PeerBytes[q] => p = q
    /\ InitialView \in [Peer -> SUBSET Peer]
    /\ \A p \in Peer : p \notin InitialView[p]
    /\ Writers \subseteq Peer
    /\ {MaxEdits, MaxPulls, MaxFaults, MaxCrashes} \subseteq Nat

VARIABLES
    alive,      \* the peers whose process runs
    view,       \* view[p]: swarm.connected_peers() at p
    clock,      \* clock[p]: NodeTree.clock
    log,        \* log[p]: the operations in the log of p's tree
    unsent,     \* unsent[p]: operations on their way to the gossip handler
    gossip,     \* gossip[p]: operations of messages on their way to p
    pulls,      \* the PullMissingOperations requests and their responses
    edits,      \* operations made so far
    faults,
    crashes

vars == <<alive, view, clock, log, unsent, gossip, pulls, edits, faults, crashes>>

\* What an operation does to the tree is told apart by the number of the edit.
Operation == [actor : Peer, time : Timestamp, edit : 1..MaxEdits]

Id(op) == <<op.actor, op.time>>
Ids(ops) == {Id(op) : op \in ops}
Times(ops) == {op.time : op \in ops}

Pull == [src : Peer, dst : Peer, known : SUBSET (Peer \X Timestamp),
         state : {"sent", "answered"}, ops : SUBSET Operation]

\* crdt_tree orders operations by counter, then by actor.
Precedes(a, b) ==
    \/ Earlier(a.time, b.time)
    \/ a.time = b.time /\ PeerBytes[a.actor] < PeerBytes[b.actor]

Init ==
    /\ alive = Peer
    /\ view = InitialView
    /\ clock = [p \in Peer |-> NewClock]
    /\ log = [p \in Peer |-> {}]
    /\ unsent = [p \in Peer |-> {}]
    /\ gossip = [p \in Peer |-> {}]
    /\ pulls = {}
    /\ edits = 0
    /\ faults = 0
    /\ crashes = 0

-----------------------------------------------------------------------------
\* apply_op for the operations new, in some order: one enters the log unless
\* its timestamp is there.
Applied(ops, new) ==
    LET fresh == {op \in new : Id(op) \notin Ids(ops)} IN
    {ops \cup kept : kept \in {k \in SUBSET fresh :
                                /\ Ids(k) = Ids(fresh)
                                /\ \A a, b \in k : Id(a) = Id(b) => a = b}}

\* create_node, move_node and delete_node: stamp, apply, hand to the bridge.
Edit(p) ==
    /\ p \in alive \cap Writers
    /\ edits < MaxEdits
    /\ edits' = edits + 1
    /\ \E now \in Time :
        LET advanced == Advance(clock[p], now)
            op == [actor |-> p, time |-> Pack(advanced), edit |-> edits + 1]
        IN  /\ clock' = [clock EXCEPT ![p] = advanced]
            /\ \E ops \in Applied(log[p], {op}) : log' = [log EXCEPT ![p] = ops]
            /\ unsent' = [unsent EXCEPT ![p] = @ \cup {op}]
    /\ UNCHANGED <<alive, view, gossip, pulls, faults, crashes>>

\* NodeTree::apply_operations for operations that have come over the network:
\* observe all timestamps, then apply.
ApplyOperations(p, ops) ==
    /\ \E now \in Time : \E c \in ObserveAll(clock[p], Times(ops), now) :
            clock' = [clock EXCEPT ![p] = c]
    /\ \E all \in Applied(log[p], ops) : log' = [log EXCEPT ![p] = all]

(***************************************************************************)
(* Gossip.  The bridge hands batches to GossipHandler::broadcast.  A       *)
(* publish may fail, and a published message may reach any of the peers:   *)
(* gossipsub promises nothing to those that are not in its mesh right now. *)
(***************************************************************************)
Broadcast(p, batch) ==
    /\ p \in alive
    /\ batch # {}
    /\ \E reached \in SUBSET (alive \ {p}) :
        gossip' = [q \in Peer |-> IF q \in reached THEN gossip[q] \cup batch ELSE gossip[q]]
    /\ unsent' = [unsent EXCEPT ![p] = @ \ batch]
    /\ UNCHANGED <<alive, view, clock, log, pulls, edits, faults, crashes>>

ApplyGossip(p, ops) ==
    /\ p \in alive
    /\ ops # {}
    /\ ApplyOperations(p, ops)
    /\ gossip' = [gossip EXCEPT ![p] = @ \ ops]
    /\ UNCHANGED <<alive, view, unsent, pulls, edits, faults, crashes>>

(***************************************************************************)
(* Pulls.                                                                  *)
(***************************************************************************)
\* synchronize_with: the ids are those of the log at this moment.
SynchronizeWith(p, q) ==
    pulls' = pulls \cup {[src |-> p, dst |-> q, known |-> Ids(log[p]),
                          state |-> "sent", ops |-> {}]}

\* The tick picks any connected peer.
SyncTick(p, q) ==
    /\ p \in alive
    /\ q \in view[p]
    /\ Cardinality({m \in pulls : m.src = p}) < MaxPulls
    /\ SynchronizeWith(p, q)
    /\ UNCHANGED <<alive, view, clock, log, unsent, gossip, edits, faults, crashes>>

\* operations_missing_from; the mutant answers only for what it did itself.
OwnOperationsMissingFrom(q, known) == {op \in log[q] : op.actor = q /\ Id(op) \notin known}
OperationsMissingFrom(q, known) == {op \in log[q] : Id(op) \notin known}

AnswerPull(m) ==
    /\ m.dst \in alive
    /\ m.state = "sent"
    /\ pulls' = (pulls \ {m}) \cup
            {[m EXCEPT !.state = "answered", !.known = {},
                       !.ops = OperationsMissingFrom(m.dst, m.known)]}
    /\ UNCHANGED <<alive, view, clock, log, unsent, gossip, edits, faults, crashes>>

\* An empty response is dropped before it gets to the clock.
MissingOperations(m) ==
    /\ m.state = "answered"
    /\ pulls' = pulls \ {m}
    /\ IF m.ops = {} THEN UNCHANGED <<clock, log>> ELSE ApplyOperations(m.src, m.ops)
    /\ UNCHANGED <<alive, view, unsent, gossip, edits, faults, crashes>>

\* The request timed out or its connection closed; nobody is told.
PullFailed(m) ==
    /\ m.dst \in alive => faults < MaxFaults
    /\ faults' = IF m.dst \in alive THEN faults + 1 ELSE faults
    /\ pulls' = pulls \ {m}
    /\ UNCHANGED <<alive, view, clock, log, unsent, gossip, edits, crashes>>

PullStep(m) == AnswerPull(m) \/ MissingOperations(m) \/ PullFailed(m)

(***************************************************************************)
(* The swarm.                                                              *)
(***************************************************************************)
\* The peers that p may find and dial.  The mutant dials p itself.
DialableOrSelf(p) == alive \ view[p]
Dialable(p) == alive \ (view[p] \cup {p})

\* The first connection to q makes p pull from it.
Connect(p, q) ==
    /\ p \in alive
    /\ q \in Dialable(p)
    /\ view' = [view EXCEPT ![p] = @ \cup {q}]
    /\ SynchronizeWith(p, q)
    /\ UNCHANGED <<alive, clock, log, unsent, gossip, edits, faults, crashes>>

Disconnect(p, q) ==
    /\ p \in alive
    /\ q \in view[p]
    /\ q \in alive => faults < MaxFaults
    /\ faults' = IF q \in alive THEN faults + 1 ELSE faults
    /\ view' = [view EXCEPT ![p] = @ \ {q}]
    /\ pulls' = {m \in pulls : m.src # p \/ m.dst # q}
    /\ UNCHANGED <<alive, clock, log, unsent, gossip, edits, crashes>>

\* Everything is in memory; a peer that starts again has a new identity.
Crash(p) ==
    /\ p \in alive
    /\ crashes < MaxCrashes
    /\ crashes' = crashes + 1
    /\ alive' = alive \ {p}
    /\ view' = [view EXCEPT ![p] = {}]
    /\ unsent' = [unsent EXCEPT ![p] = {}]
    /\ gossip' = [gossip EXCEPT ![p] = {}]
    /\ pulls' = {m \in pulls : m.src # p}
    /\ UNCHANGED <<clock, log, edits, faults>>

Next ==
    \/ \E p \in Peer : Edit(p) \/ Crash(p)
    \/ \E p \in Peer : \E ops \in SUBSET unsent[p] : Broadcast(p, ops)
    \/ \E p \in Peer : \E ops \in SUBSET gossip[p] : ApplyGossip(p, ops)
    \/ \E p, q \in Peer : SyncTick(p, q) \/ Connect(p, q) \/ Disconnect(p, q)
    \/ \E m \in pulls : PullStep(m)

Spec == Init /\ [][Next]_vars

(***************************************************************************)
(* Every peer is picked by the tick again and again, requests are answered *)
(* or fail, peers find each other.  Gossip need not get anywhere.          *)
(***************************************************************************)
Fairness ==
    \A p, q \in Peer :
        /\ SF_vars(SyncTick(p, q))
        /\ WF_vars(Connect(p, q))
        /\ WF_vars(q \notin alive /\ Disconnect(p, q))
        /\ WF_vars(\E m \in pulls : m.src = p /\ m.dst = q /\ PullStep(m))

FairSpec == Spec /\ Fairness

-----------------------------------------------------------------------------
(***************************************************************************)
(* Properties.                                                             *)
(***************************************************************************)

\* Shape of the state; nobody is connected to itself.
TypeOK ==
    /\ alive \subseteq Peer
    /\ view \in [Peer -> SUBSET Peer]
    /\ \A p \in Peer : p \notin view[p]
    /\ clock \in [Peer -> Clock]
    /\ log \in [Peer -> SUBSET Operation]
    /\ unsent \in [Peer -> SUBSET Operation]
    /\ gossip \in [Peer -> SUBSET Operation]
    /\ pulls \subseteq Pull
    /\ edits \in 0..MaxEdits
    /\ faults \in 0..MaxFaults
    /\ crashes \in 0..MaxCrashes

\* Every operation that exists anywhere: in a log, on its way to or in gossip,
\* or in an answer to a pull.
Everywhere ==
    (UNION {log[p] \cup unsent[p] \cup gossip[p] : p \in Peer})
        \cup (UNION {m.ops : m \in pulls})

\* (actor, counter) identifies an operation: operations_missing_from compares
\* nothing else, so a second operation under a known id would never be pulled.
IdsUnique == \A a, b \in Everywhere : Id(a) = Id(b) => a = b

\* Why ids do not repeat as long as there are fewer edits than counter values:
\* an operation is in its author's log before it is anywhere else, and no clock
\* is behind an operation in its peer's log or has counted past the edits.
ClockAhead ==
    /\ \A op \in Everywhere : op \in log[op.actor] /\ op.time.logical <= edits
    /\ \A p \in Peer : \A op \in log[p] : ~Earlier(clock[p], op.time)
    /\ \A p \in Peer : clock[p].logical <= edits

\* The observe() calls for the operations new, one after the other, leave the latest of
\* the clock c, their timestamps and the present.
LoopAgrees(c, new) ==
    LET places == 1..Cardinality(new)
    IN  \A ops \in Bijection(places, new) : \A nows \in [places -> Time] :
            \A now \in {nows[i] : i \in places} :
                (\A i \in places : nows[i] <= now) =>
                    ObserveAll(c, Times(new), now) =
                        {ObserveEach(c, [i \in places |-> ops[i].time], nows)}

\* They do so for what p still has to get from q, in whatever order the operations
\* come and whatever the wall clock shows at each of them.
ObserveLoop == \A p, q \in Peer : LoopAgrees(clock[p], log[q] \ log[p])

\* What a user has just done is ordered after everything that the user's node
\* knew, however far ahead the clocks are that its operations come from:
\* otherwise the tree, where the last operation on a node wins, would drop the
\* change that the call reported as done.
EditsTakeEffect ==
    [][edits' # edits =>
        \E p \in Peer : \E op \in log'[p] \ log[p] :
            op.edit = edits' /\ \A old \in log[p] : Precedes(old, op)]_vars

\* All that the network and the clocks do comes down to ReplicatedLog: logs grow
\* by an operation that is made, and is then the last, or by known ones.  That
\* is what FileTree builds on.
Abstract == INSTANCE ReplicatedLog WITH Before <- Precedes

ImplementsReplicatedLog == Abstract!LogSpec

\* README, lines 66 and 67, "concurrent edits converge without coordination": in the end all live
\* peers have the same log, also if every gossip message is lost.
LogsConverge == <>[](\A p, q \in alive : log[p] = log[q])

=============================================================================
