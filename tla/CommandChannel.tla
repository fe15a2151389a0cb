-------------------------- MODULE CommandChannel --------------------------
(***************************************************************************)
(* How calls of the FUSE threads get to the network dispatcher of a node:  *)
(* NetworkBridge (src/network/network_bridge.rs), its batching task and    *)
(* the bounded command channel that the task, the readers and, from within *)
(* the dispatcher itself, rebalance() all put commands into.               *)
(*                                                                         *)
(* An operation is the number of the tree mutation that made it: every     *)
(* mutation makes one.  A fetch is answered as soon as it is dispatched    *)
(* (ChunkFetcher models what happens to it).                               *)
(***************************************************************************)
EXTENDS Naturals, Sequences, FiniteSets, SequencesExt

CONSTANTS
    Writer,             \* FUSE calls that change the tree, at most one op each in hand
    Reader,             \* FUSE calls that fetch a chunk
    MaxBatch,           \* MAX_BATCH_OPERATIONS
    OperationCapacity,  \* capacity of the operations channel (256)
    CommandCapacity,    \* SWARM_CHANNEL_CAPACITY
    MaxPins,            \* MAX_FETCHES_PER_REBALANCE
    MaxOperations,      \* model bound: tree mutations
    MaxPasses           \* model bound: rebalance passes that want chunks

ASSUME ChannelAssumption ==
    /\ {MaxBatch, OperationCapacity, CommandCapacity} \subseteq Nat \ {0}
    /\ {MaxPins, MaxOperations, MaxPasses} \subseteq Nat

VARIABLES
    made,       \* operations made so far
    inHand,     \* inHand[w]: the operation w has made and not handed over, or 0
    operations, \* the operations channel
    batch,      \* what the batching task has collected
    phase,      \* the task: "idle", "filling" or "sending"
    commands,   \* the command channel
    fetching,   \* fetching[r]: "no", "wanted", "sent" or "done"
    pass,       \* fetches the dispatcher has yet to issue in this rebalance()
    passes,     \* rebalance passes so far
    accepted,   \* history: operations in the order the channel took them
    published   \* history: operations in the order gossip got them

taskVars == <<operations, batch, phase>>
vars == <<made, inHand, operations, batch, phase, commands, fetching, pass, passes,
          accepted, published>>

Broadcast(ops) == [type |-> "broadcast", ops |-> ops]
Fetch(r) == [type |-> "fetch", reader |-> r]
PinFetch == [type |-> "pin"]

Command ==
    [type : {"broadcast"}, ops : Seq(1..MaxOperations)]
        \cup [type : {"fetch"}, reader : Reader] \cup [type : {"pin"}]

HasRoom == Len(commands) < CommandCapacity

(***************************************************************************)
(* tx.send(cmd).await waits for room, tx.try_send(cmd) does not.           *)
(* Definitions called mutants, here and below, are plausible mistakes: no  *)
(* definition uses them, and each would break a property if it took the    *)
(* place of the next one.  Here, a full channel loses what must not be     *)
(* lost, or grows beyond its capacity.                                     *)
(***************************************************************************)
\* Mutant.
DropIfFull(cmd) == commands' = IF HasRoom THEN Append(commands, cmd) ELSE commands

Send(cmd) ==
    /\ HasRoom
    /\ commands' = Append(commands, cmd)

\* Mutant.
Overfill(cmd) == commands' = Append(commands, cmd)

TrySend(cmd) == commands' = IF HasRoom THEN Append(commands, cmd) ELSE commands

Init ==
    /\ made = 0
    /\ inHand = [w \in Writer |-> 0]
    /\ operations = <<>>
    /\ batch = <<>>
    /\ phase = "idle"
    /\ commands = <<>>
    /\ fetching = [r \in Reader |-> "no"]
    /\ pass = 0
    /\ passes = 0
    /\ accepted = <<>>
    /\ published = <<>>

-----------------------------------------------------------------------------
\* FuseFileSystem::broadcast: the mutation runs under the write lock ...
Mutate(w) ==
    /\ inHand[w] = 0
    /\ made < MaxOperations
    /\ made' = made + 1
    /\ inHand' = [inHand EXCEPT ![w] = made + 1]
    /\ UNCHANGED <<taskVars, commands, fetching, pass, passes, accepted, published>>

\* ... and its operation is sent after the lock is gone, once there is room.
HandOver(w) ==
    /\ inHand[w] # 0
    /\ Len(operations) < OperationCapacity
    /\ operations' = Append(operations, inHand[w])
    /\ accepted' = Append(accepted, inHand[w])
    /\ inHand' = [inHand EXCEPT ![w] = 0]
    /\ UNCHANGED <<made, batch, phase, commands, fetching, pass, passes, published>>

\* NetworkBridge::fetch.
AskFetch(r) ==
    /\ fetching[r] = "no"
    /\ fetching' = [fetching EXCEPT ![r] = "wanted"]
    /\ UNCHANGED <<made, inHand, taskVars, commands, pass, passes, accepted, published>>

SendFetch(r) ==
    /\ fetching[r] = "wanted"
    /\ Send(Fetch(r))
    /\ fetching' = [fetching EXCEPT ![r] = "sent"]
    /\ UNCHANGED <<made, inHand, taskVars, pass, passes, accepted, published>>

(***************************************************************************)
(* The batching task: take an operation, collect more until the batch is   *)
(* full or BATCH_IDLE has passed, then send the batch in pieces.           *)
(***************************************************************************)
Receive ==
    /\ \/ phase = "idle"
       \/ phase = "filling" /\ Len(batch) < MaxBatch
    /\ operations # <<>>
    /\ batch' = Append(batch, Head(operations))
    /\ operations' = Tail(operations)
    /\ phase' = "filling"
    /\ UNCHANGED <<made, inHand, commands, fetching, pass, passes, accepted, published>>

\* The deadline may pass at any moment; a full batch does not wait for it.
StopFilling ==
    /\ phase = "filling"
    /\ phase' = "sending"
    /\ UNCHANGED <<made, inHand, operations, batch, commands, fetching, pass, passes,
                   accepted, published>>

SendPiece ==
    LET count == IF Len(batch) < MaxBatch THEN Len(batch) ELSE MaxBatch IN
    /\ phase = "sending"
    /\ Send(Broadcast(SubSeq(batch, 1, count)))
    /\ batch' = SubSeq(batch, count + 1, Len(batch))
    /\ phase' = IF batch' = <<>> THEN "idle" ELSE "sending"
    /\ UNCHANGED <<made, inHand, operations, fetching, pass, passes, accepted, published>>

(***************************************************************************)
(* The dispatcher: one event, then the handlers' ticks, then the next      *)
(* event.  While rebalance() runs, nobody takes commands out.              *)
(***************************************************************************)
Dispatch ==
    LET cmd == Head(commands) IN
    /\ pass = 0
    /\ commands # <<>>
    /\ commands' = Tail(commands)
    /\ published' = IF cmd.type = "broadcast" THEN published \o cmd.ops ELSE published
    /\ fetching' = IF cmd.type = "fetch" THEN [fetching EXCEPT ![cmd.reader] = "done"]
                                         ELSE fetching
    /\ UNCHANGED <<made, inHand, taskVars, pass, passes, accepted>>

\* rebalance() finds chunks to fetch.
StartRebalance ==
    /\ pass = 0
    /\ passes < MaxPasses
    /\ pass' \in 1..MaxPins
    /\ passes' = passes + 1
    /\ UNCHANGED <<made, inHand, taskVars, commands, fetching, accepted, published>>

IssueFetch ==
    /\ pass > 0
    /\ TrySend(PinFetch)
    /\ pass' = pass - 1
    /\ UNCHANGED <<made, inHand, taskVars, fetching, passes, accepted, published>>

Next ==
    \/ \E w \in Writer : Mutate(w) \/ HandOver(w)
    \/ \E r \in Reader : AskFetch(r) \/ SendFetch(r)
    \/ Receive \/ StopFilling \/ SendPiece
    \/ Dispatch \/ StartRebalance \/ IssueFetch

\* tokio runs every task that can go on and its channels serve waiting senders
\* in turn; FUSE calls that wait to send are such tasks.
Fairness ==
    /\ \A w \in Writer : SF_vars(HandOver(w))
    /\ \A r \in Reader : SF_vars(SendFetch(r))
    /\ SF_vars(SendPiece)
    /\ WF_vars(Receive)
    /\ WF_vars(StopFilling)
    /\ WF_vars(Dispatch)
    /\ WF_vars(IssueFetch)

Spec == Init /\ [][Next]_vars
FairSpec == Spec /\ Fairness

-----------------------------------------------------------------------------
(***************************************************************************)
(* Properties.                                                             *)
(***************************************************************************)

\* Shape of the state; both channels stay within their capacity and a batch
\* within one message.
TypeOK ==
    /\ made \in 0..MaxOperations
    /\ inHand \in [Writer -> 0..MaxOperations]
    /\ operations \in Seq(1..MaxOperations) /\ Len(operations) <= OperationCapacity
    /\ batch \in Seq(1..MaxOperations) /\ Len(batch) <= MaxBatch
    /\ phase \in {"idle", "filling", "sending"}
    /\ phase = "idle" <=> batch = <<>>
    /\ commands \in Seq(Command) /\ Len(commands) <= CommandCapacity
    /\ fetching \in [Reader -> {"no", "wanted", "sent", "done"}]
    /\ pass \in 0..MaxPins
    /\ passes \in 0..MaxPasses
    /\ accepted \in Seq(1..MaxOperations)
    /\ published \in Seq(1..MaxOperations)

\* Between a FUSE call and the gossip topic no operation is lost, doubled or
\* overtaken, although the batching task and the dispatcher run on their own
\* and the command channel may be full of other commands: what the channel has
\* accepted falls into consecutive pieces, the first published, one in each
\* queued broadcast, the last with the batching task and before it.
OperationsOf(cmd) == IF cmd.type = "broadcast" THEN cmd.ops ELSE <<>>

Between(seq, a, b) == SubSeq(seq, a + 1, b)

NothingLost ==
    \E cut \in [0..Len(commands) -> 0..Len(accepted)] :
        /\ published = Between(accepted, 0, cut[0])
        /\ \A i \in DOMAIN commands :
            /\ cut[i - 1] <= cut[i]
            /\ OperationsOf(commands[i]) = Between(accepted, cut[i - 1], cut[i])
        /\ batch \o operations = Between(accepted, cut[Len(commands)], Len(accepted))

\* No full channel ever stops the node: whoever waits to send gets through, and
\* every operation reaches gossip.  The dispatcher is the only one that empties
\* the command channel and also puts commands in, so it must never wait there.
EverythingMoves ==
    /\ \A n \in 1..MaxOperations : (made >= n) ~> (n \in ToSet(published))
    /\ \A r \in Reader : (fetching[r] = "wanted") ~> (fetching[r] = "done")

===========================================================================
