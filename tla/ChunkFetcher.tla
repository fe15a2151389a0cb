--------------------------- MODULE ChunkFetcher ---------------------------
(***************************************************************************)
(* How one node gets a chunk it does not have: the ChunkFetcher of         *)
(* src/network/handlers/chunk.rs, the command channel that feeds it        *)
(* (NetworkBridge::fetch and rebalance), and the reader that waits on the  *)
(* other end of a reply (fetch_missing_chunks in src/fuse/gateway.rs).     *)
(*                                                                         *)
(* A fetch of a chunk is a session.  It asks the best ranked peers it has  *)
(* not tried yet, a few at a time; the first valid answer ends it, and it  *)
(* fails when no untried peer is connected.                                *)
(***************************************************************************)
EXTENDS Hrw, Sequences

CONSTANTS
    Reader,             \* user reads that need a chunk; each asks once
    MaxPinnedBytes,     \* ChunkStorage.max_pinned_bytes
    MaxCachedBytes,     \* ChunkStorage.max_cached_bytes
    MaxFetchTargets,    \* MAX_FETCH_TARGETS
    ChannelCapacity,    \* SWARM_CHANNEL_CAPACITY
    ReadHashes,         \* model bound: the chunks that readers ask for
    MaxPins             \* model bound: pin fetches that replication asks for

NoReader == "no reader"

ASSUME FetcherAssumption ==
    /\ IsFiniteSet(Reader)
    /\ NoReader \notin Reader
    /\ ReadHashes \subseteq Hash
    /\ MaxPinnedBytes \in Nat
    /\ MaxCachedBytes \in Nat
    /\ MaxFetchTargets \in Nat \ {0}
    /\ ChannelCapacity \in Nat \ {0}
    /\ MaxPins \in Nat

VARIABLES
    connected,      \* swarm.connected_peers()
    commands,       \* FetchChunk commands in the channel
    sessions,       \* sessions[h]: the session for h, or NoSession
    requests,       \* the requests the fetcher still knows
    outstanding,    \* the requests the swarm has not resolved yet
    blocked,        \* hashes whose blocked_until lies in the future
    pinned,         \* hashes pinned in the store
    cached,         \* hashes cached in the store
    reply,          \* reply[r]: where reader r's fetch stands
    wants,          \* wants[r]: the hash reader r has asked for
    sends,          \* calls of walk_down that sent requests
    pins            \* pin fetches asked for so far

storeVars == <<pinned, cached>>
vars == <<connected, commands, sessions, requests, outstanding, blocked, pinned, cached,
          reply, wants, sends, pins>>

NoHash == "no hash"
NoSession == [open |-> FALSE, waiters |-> {}, attempts |-> {}, tried |-> {}, pin |-> FALSE]

\* OutboundRequestId with the peer and the hash the maps associate with it.
Request == [id : Nat, peer : Peer, hash : Hash]
Session == [open : BOOLEAN, waiters : SUBSET Reader, attempts : SUBSET Request,
            tried : SUBSET Peer, pin : BOOLEAN]
Command == [hash : Hash, pin : BOOLEAN, reader : Reader \cup {NoReader}]

Init ==
    /\ connected = {}
    /\ commands = <<>>
    /\ sessions = [h \in Hash |-> NoSession]
    /\ requests = {}
    /\ outstanding = {}
    /\ blocked = {}
    /\ pinned = {}
    /\ cached = {}
    /\ reply = [r \in Reader |-> "idle"]
    /\ wants = [r \in Reader |-> NoHash]
    /\ sends = 0
    /\ pins = 0

-----------------------------------------------------------------------------
\* NetworkBridge::fetch for a chunk that read_file will need: send waits for
\* room in the channel.
AskForRead(r, h) ==
    /\ reply[r] = "idle"
    /\ h \in ReadHashes \ (pinned \cup cached)
    /\ Len(commands) < ChannelCapacity
    /\ commands' = Append(commands, [hash |-> h, pin |-> FALSE, reader |-> r])
    /\ reply' = [reply EXCEPT ![r] = "waiting"]
    /\ wants' = [wants EXCEPT ![r] = h]
    /\ UNCHANGED <<connected, sessions, requests, outstanding, blocked, storeVars, sends, pins>>

\* rebalance() asks for a pin: try_send, so only if there is room.
AskForPin(h) ==
    /\ pins < MaxPins
    /\ h \notin pinned \cup cached
    /\ Len(commands) < ChannelCapacity
    /\ commands' = Append(commands, [hash |-> h, pin |-> TRUE, reader |-> NoReader])
    /\ pins' = pins + 1
    /\ UNCHANGED <<connected, sessions, requests, outstanding, blocked, storeVars, reply,
                   wants, sends>>

\* next_targets.
NextTargets(h, tried) == TopPeers(h, connected \ tried, MaxFetchTargets)

(***************************************************************************)
(* Definitions called mutants, here and below, are plausible mistakes: no  *)
(* definition uses them, and each would break a property if it took the    *)
(* place of the next one.                                                  *)
(***************************************************************************)

\* oneshot::Sender::send to each waiter; the mutant keeps the first only.
AnswerOne(waiters, outcome) ==
    reply' = [r \in Reader |-> IF waiters # {} /\ r = CHOOSE w \in waiters : TRUE
                               THEN outcome ELSE reply[r]]
Answer(waiters, outcome) ==
    reply' = [r \in Reader |-> IF r \in waiters THEN outcome ELSE reply[r]]

(***************************************************************************)
(* walk_down for the session s of h: ask the next peers, or give up and,   *)
(* if the chunk was to be pinned, block it for a while.                    *)
(***************************************************************************)
WalkDown(h, s, known, unresolved) ==
    LET targets == NextTargets(h, s.tried)
        new == {[id |-> sends, peer |-> q, hash |-> h] : q \in targets}
    IN
    IF targets = {}
    THEN /\ sessions' = [sessions EXCEPT ![h] = NoSession]
         /\ Answer(s.waiters, "none")
         /\ blocked' = IF s.pin THEN blocked \cup {h} ELSE blocked
         /\ requests' = known
         /\ outstanding' = unresolved
         /\ UNCHANGED sends
    ELSE /\ sessions' = [sessions EXCEPT ![h] =
                            [s EXCEPT !.attempts = @ \cup new, !.tried = @ \cup targets]]
         /\ requests' = known \cup new
         /\ outstanding' = unresolved \cup new
         /\ sends' = sends + 1
         /\ UNCHANGED <<reply, blocked>>

\* reply.into_iter(); the mutant takes the absent reply of a pin for a reader.
WaitersOrNone(cmd) == {cmd.reader}
Waiters(cmd) == {cmd.reader} \ {NoReader}

\* A command joins the open session s; the mutant leaves s.pin as it is.
JoinedAsRead(s, cmd) == [s EXCEPT !.waiters = @ \cup Waiters(cmd)]
Joined(s, cmd) == [s EXCEPT !.waiters = @ \cup Waiters(cmd), !.pin = @ \/ cmd.pin]

\* fetch_chunk: join the session of this hash, refuse a blocked read, or open
\* a session.
FetchChunk ==
    LET cmd == Head(commands)
        s == sessions[cmd.hash]
    IN
    /\ commands # <<>>
    /\ commands' = Tail(commands)
    /\ IF s.open
       THEN /\ sessions' = [sessions EXCEPT ![cmd.hash] = Joined(s, cmd)]
            /\ UNCHANGED <<requests, outstanding, blocked, reply, sends>>
       ELSE IF ~cmd.pin /\ cmd.hash \in blocked
       THEN /\ Answer(Waiters(cmd), "none")
            /\ UNCHANGED <<sessions, requests, outstanding, blocked, sends>>
       ELSE WalkDown(cmd.hash,
                     [open |-> TRUE, waiters |-> Waiters(cmd), attempts |-> {}, tried |-> {},
                      pin |-> cmd.pin],
                     requests, outstanding)
    /\ UNCHANGED <<connected, storeVars, wants, pins>>

\* A response or a failure for a request that its session no longer needs.
LateEvent(q) ==
    /\ q \notin requests
    /\ outstanding' = outstanding \ {q}
    /\ UNCHANGED <<connected, commands, sessions, requests, blocked, storeVars, reply, wants,
                   sends, pins>>

\* The requests the fetcher still knows once q has ended session s; the mutant
\* forgets q and remembers the others.
KnownAfterOne(q, s) == requests \ {q}
KnownAfter(q, s) == requests \ ({q} \cup s.attempts)

\* Keep the data of h: pinned if that was wanted and there is room, else cached
\* and, if it was to be pinned, blocked for a while.
Store(h, pin) ==
    IF pin /\ TotalBytes(pinned \cup {h}) <= MaxPinnedBytes
    THEN /\ pinned' = pinned \cup {h}
         /\ cached' = cached \ {h}
         /\ UNCHANGED blocked
    ELSE /\ cached' \in CacheOutcomes(pinned, cached, h, MaxCachedBytes)
         /\ blocked' = IF pin THEN blocked \cup {h} ELSE blocked
         /\ UNCHANGED pinned

\* handle_response with data that has the right hash.
ChunkData(q) ==
    LET h == q.hash
        s == sessions[h]
    IN
    /\ q \in requests
    /\ outstanding' = outstanding \ {q}
    /\ requests' = KnownAfter(q, s)
    /\ sessions' = [sessions EXCEPT ![h] = NoSession]
    /\ Store(h, s.pin)
    /\ Answer(s.waiters, "some")
    /\ UNCHANGED <<connected, commands, wants, sends, pins>>

\* Data with another hash, Response::Error or OutboundFailure: the attempt has
\* failed, and the last one to fail makes the session walk on.  The mutant walks
\* on at the first.
AnyAttemptFailed(q) ==
    /\ q \in requests
    /\ WalkDown(q.hash, [sessions[q.hash] EXCEPT !.attempts = @ \ {q}],
                requests \ {q}, outstanding \ {q})
    /\ UNCHANGED <<connected, commands, storeVars, wants, pins>>

AttemptFailed(q) ==
    LET h == q.hash
        s == [sessions[h] EXCEPT !.attempts = @ \ {q}]
    IN
    /\ q \in requests
    /\ IF s.attempts # {}
       THEN /\ sessions' = [sessions EXCEPT ![h] = s]
            /\ requests' = requests \ {q}
            /\ outstanding' = outstanding \ {q}
            /\ UNCHANGED <<reply, blocked, sends>>
       ELSE WalkDown(h, s, requests \ {q}, outstanding \ {q})
    /\ UNCHANGED <<connected, commands, storeVars, wants, pins>>

\* The swarm resolves every request once: a response, or a failure at the
\* latest after NETWORK_REQUEST_TIMEOUT.
Resolve(q) == LateEvent(q) \/ ChunkData(q) \/ AttemptFailed(q)

\* fetch_missing_chunks puts the data it was sent into the cache, again, and
\* returns.  The lock is free before the reader reads the file, and whether the
\* chunk is still there by then is the subject of OpenFiles.
KeepForRead(r) ==
    /\ reply[r] = "some"
    /\ cached' \in CacheOutcomes(pinned, cached, wants[r], MaxCachedBytes)
    /\ reply' = [reply EXCEPT ![r] = "done"]
    /\ UNCHANGED <<connected, commands, sessions, requests, outstanding, blocked, pinned,
                   wants, sends, pins>>

BackoffOver(h) ==
    /\ h \in blocked
    /\ blocked' = blocked \ {h}
    /\ UNCHANGED <<connected, commands, sessions, requests, outstanding, storeVars, reply,
                   wants, sends, pins>>

\* ConnectionEstablished, ConnectionClosed.
PeerChange ==
    /\ \E p \in Peer : connected' \in {connected \cup {p}, connected \ {p}} \ {connected}
    /\ UNCHANGED <<commands, sessions, requests, outstanding, blocked, storeVars, reply,
                   wants, sends, pins>>

Next ==
    \/ \E h \in Hash : AskForPin(h) \/ BackoffOver(h) \/ \E r \in Reader : AskForRead(r, h)
    \/ FetchChunk
    \/ \E q \in outstanding : Resolve(q)
    \/ \E r \in Reader : KeepForRead(r)
    \/ PeerChange

\* The dispatcher keeps taking commands, every request is resolved, readers go
\* on; no peer has to come, go or have the chunk.
Fairness ==
    /\ WF_vars(FetchChunk)
    /\ \A p \in Peer, h \in Hash :
        WF_vars(\E q \in outstanding : q.peer = p /\ q.hash = h /\ Resolve(q))
    /\ \A r \in Reader : WF_vars(KeepForRead(r))

Spec == Init /\ [][Next]_vars
FairSpec == Spec /\ Fairness

-----------------------------------------------------------------------------
(***************************************************************************)
(* Properties.                                                             *)
(***************************************************************************)

\* Shape of the state.
TypeOK ==
    /\ connected \subseteq Peer
    /\ commands \in Seq(Command)
    /\ sessions \in [Hash -> Session]
    /\ requests \subseteq Request
    /\ outstanding \subseteq Request
    /\ blocked \subseteq Hash
    /\ pinned \subseteq Hash
    /\ cached \subseteq Hash
    /\ reply \in [Reader -> {"idle", "waiting", "some", "none", "done"}]
    /\ wants \in [Reader -> Hash \cup {NoHash}]
    /\ sends \in Nat
    /\ pins \in 0..MaxPins

\* The two maps of the fetcher agree, whatever order responses, failures,
\* late answers and new commands come in: a request it knows belongs to the
\* open session of its hash and is unresolved, every open session has such a
\* request (so it will end), and it never asked one peer twice.
SessionsConsistent ==
    /\ requests = UNION {sessions[h].attempts : h \in Hash}
    /\ requests \subseteq outstanding
    /\ \A h \in Hash :
        /\ sessions[h].open <=> sessions[h].attempts # {}
        /\ \A q \in sessions[h].attempts : q.hash = h /\ q.peer \in sessions[h].tried
        /\ \A q1, q2 \in sessions[h].attempts : q1.peer = q2.peer => q1 = q2

\* A reader that waits is waited for in exactly one place: one command in the
\* channel or one session, for the hash it wants.  Otherwise its oneshot would
\* be dropped or answered for another chunk.
WaitersKept ==
    \A r \in Reader :
        LET queued == {i \in DOMAIN commands : commands[i].reader = r}
            joined == {h \in Hash : r \in sessions[h].waiters}
        IN  /\ reply[r] = "waiting" => Cardinality(queued) + Cardinality(joined) = 1
            /\ reply[r] # "waiting" => queued = {} /\ joined = {}
            /\ \A i \in queued : commands[i].hash = wants[r]
            /\ joined \subseteq {wants[r]}

\* What replication asks to have pinned ends up pinned, or blocked for a while,
\* after which a rebalance may ask for it again; it never ends as a cached copy
\* because the request joined a session that a reader had opened, or because the
\* pins were full.
PinAnswered ==
    \A h \in Hash :
        (\E i \in DOMAIN commands : commands[i].hash = h /\ commands[i].pin)
            ~> (h \in pinned \cup blocked)

\* A reader is refused its chunk only at the end of the walk, when every peer
\* connected by then has been asked, also those that came while the session was
\* open, and nobody asked can still deliver; or at once, when no session is open
\* and an earlier pin of the chunk has failed.
RefusedLast ==
    [][\A r \in Reader : (reply[r] = "waiting" /\ reply'[r] = "none")
            => \/ wants[r] \in blocked /\ ~sessions[wants[r]].open
               \/ /\ connected \subseteq sessions[wants[r]].tried
                  /\ \A q \in requests' : q.hash # wants[r]]_vars

\* Every fetch ends: no order of answers, failures, timeouts and membership
\* changes leaves a reader waiting for ever.
ReadersAnswered ==
    \A r \in Reader : (reply[r] = "waiting") ~> (reply[r] \in {"none", "done"})

===========================================================================
