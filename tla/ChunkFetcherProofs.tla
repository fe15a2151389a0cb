------------------------- MODULE ChunkFetcherProofs -------------------------
(***************************************************************************)
(* Proofs about ChunkFetcher, for any readers, peers, chunks and limits:   *)
(* the fetcher's maps agree, no waiting reader is lost or answered twice,  *)
(* and none is refused while a peer may still deliver its chunk.           *)
(*                                                                         *)
(* The sessions are only consistent because requests carry the hash of     *)
(* their session (SessionsInv), and a session that is closed has no        *)
(* waiters left.  WaitersInv says where each waiting reader stands.        *)
(***************************************************************************)
EXTENDS ChunkFetcher, FiniteSetTheorems, WellFoundedInduction, TLAPS

\* fetch_chunk opens a session that has the shape of one.
LEMMA FreshSession ==
    ASSUME NEW cmd \in Command
    PROVE  [open |-> TRUE, waiters |-> Waiters(cmd), attempts |-> {}, tried |-> {},
            pin |-> cmd.pin] \in Session
BY DEF Session, Waiters, Command

\* A command that joins a session adds its waiter and leaves the requests alone.
LEMMA JoinedSession ==
    ASSUME NEW s \in Session, NEW cmd \in Command
    PROVE  /\ Joined(s, cmd) \in Session
           /\ Joined(s, cmd).open = s.open
           /\ Joined(s, cmd).attempts = s.attempts
           /\ Joined(s, cmd).tried = s.tried
           /\ Joined(s, cmd).waiters = s.waiters \cup Waiters(cmd)
BY DEF Joined, Session, Waiters, Command

\* The session s once new requests to new targets are on record.
Walked(s, new, targets) == [s EXCEPT !.attempts = @ \cup new, !.tried = @ \cup targets]

\* A failed attempt leaves the session, and nothing else of the session changes.
LEMMA FailedSession ==
    ASSUME NEW s \in Session, NEW q
    PROVE  LET t == [s EXCEPT !.attempts = @ \ {q}]
           IN  /\ t \in Session
               /\ t.open = s.open
               /\ t.attempts = s.attempts \ {q}
               /\ t.tried = s.tried
               /\ t.waiters = s.waiters
BY DEF Session

\* A session that is not there is closed, with no requests and no waiters.
LEMMA NoSessionType ==
    /\ NoSession \in Session
    /\ ~NoSession.open /\ NoSession.attempts = {} /\ NoSession.waiters = {}
BY DEF Session, NoSession

\* Answering a set of waiters changes their replies only.
LEMMA AnswerType ==
    ASSUME TypeOK, NEW W, NEW outcome \in {"some", "none"}, Answer(W, outcome)
    PROVE  /\ reply' \in [Reader -> {"idle", "waiting", "some", "none", "done"}]
           /\ \A r \in Reader : reply'[r] = IF r \in W THEN outcome ELSE reply[r]
BY DEF Answer, TypeOK

\* cache() leaves a set of hashes behind.
LEMMA CacheType ==
    ASSUME NEW P \in SUBSET Hash, NEW C \in SUBSET Hash, NEW h \in Hash, NEW b \in Nat,
           NEW k \in CacheOutcomes(P, C, h, b)
    PROVE  k \in SUBSET Hash
BY Zenon DEF CacheOutcomes

\* Keeping the data of a response leaves the store and the backoffs well-formed.
LEMMA StoreType ==
    ASSUME TypeOK, NEW h \in Hash, NEW pin \in BOOLEAN, Store(h, pin)
    PROVE  pinned' \in SUBSET Hash /\ cached' \in SUBSET Hash /\ blocked' \in SUBSET Hash
<1>1. CASE pin /\ TotalBytes(pinned \cup {h}) <= MaxPinnedBytes
  BY <1>1, Zenon DEF Store, TypeOK
<1>2. CASE ~(pin /\ TotalBytes(pinned \cup {h}) <= MaxPinnedBytes)
  <2>1. /\ cached' \in CacheOutcomes(pinned, cached, h, MaxCachedBytes)
        /\ blocked' = IF pin THEN blocked \cup {h} ELSE blocked
        /\ UNCHANGED pinned
    BY <1>2, Zenon DEF Store
  <2>2. cached' \in SUBSET Hash
    BY <2>1, CacheType, FetcherAssumption, Zenon DEF TypeOK
  <2> QED BY <2>1, <2>2, Zenon DEF TypeOK
<1> QED BY <1>1, <1>2, Zenon

\* next_targets finds somebody as long as there is anybody: of the members the
\* one with the fewest before it has nobody before it.
LEMMA SomebodyIsNext ==
    ASSUME NEW h \in Hash, NEW S \in SUBSET Peer, S # {}
    PROVE  TopPeers(h, S, MaxFetchTargets) # {}
<1> DEFINE Before(x) == {q \in S : Outranks(h, q, x)}
           Sets == {Before(x) : x \in S}
<1>1. Sets \subseteq FiniteSubsetsOf(Peer) /\ Sets # {}
  <2>1. \A x \in S : Before(x) \subseteq Peer /\ IsFiniteSet(Before(x))
    BY HrwAssumption, FS_Subset
  <2> QED BY <2>1 DEF FiniteSubsetsOf
<1>2. PICK x \in S : \A y \in S : <<Before(y), Before(x)>> \notin StrictSubsetOrdering(Peer)
  <2>1. \E A \in Sets : \A B \in Sets : ~(<<B, A>> \in StrictSubsetOrdering(Peer))
    <3> HIDE DEF Sets
    <3> QED BY <1>1, WFMin, FS_StrictSubsetOrderingWellFounded, Zenon
  <2> QED BY <2>1
<1>3. ASSUME NEW y \in S, Outranks(h, y, x) PROVE FALSE
  <2>1. y \in Before(x) /\ y \notin Before(y)
    BY <1>3, HrwAssumption DEF Outranks
  <2>2. Before(y) \subseteq Before(x)
    <3> SUFFICES ASSUME NEW q \in S, Outranks(h, q, y) PROVE Outranks(h, q, x)
      OBVIOUS
    <3> QED BY <1>3, HrwAssumption, SMT DEF Outranks
  <2>3. <<Before(y), Before(x)>> \in StrictSubsetOrdering(Peer)
    BY <2>1, <2>2 DEF StrictSubsetOrdering
  <2> QED BY <1>2, <2>3
<1>4. Cardinality(Before(x)) = 0
  <2>1. Before(x) = {}
    BY <1>3
  <2> QED BY <2>1, FS_EmptySet
<1>5. x \in TopPeers(h, S, MaxFetchTargets)
  BY <1>4, FetcherAssumption DEF TopPeers
<1> QED BY <1>5

\* walk_down ends the session, or leaves it open with new attempts.
GivesUp(h, s, known, unresolved) ==
    /\ sessions' = [sessions EXCEPT ![h] = NoSession]
    /\ Answer(s.waiters, "none")
    /\ connected \subseteq s.tried
    /\ blocked' \in SUBSET Hash
    /\ requests' = known
    /\ outstanding' = unresolved
    /\ sends' = sends

AsksOn(h, s, known, unresolved, t, new) ==
    /\ sessions' = [sessions EXCEPT ![h] = t]
    /\ t.open = s.open
    /\ t.attempts = s.attempts \cup new
    /\ t.waiters = s.waiters
    /\ new # {}
    /\ \A q \in new : q.hash = h /\ q.peer \in t.tried
    /\ \A q1, q2 \in new : q1.peer = q2.peer => q1 = q2
    /\ requests' = known \cup new
    /\ outstanding' = unresolved \cup new
    /\ sends' = sends + 1
    /\ reply' = reply
    /\ blocked' = blocked

\* Asking new peers is one of the two outcomes of walk_down.
LEMMA WalkedAsksOn ==
    ASSUME NEW h \in Hash, NEW s \in Session, NEW known, NEW unresolved,
           NEW new \in SUBSET Request, NEW targets \in SUBSET Peer, new # {},
           \A q \in new : q.hash = h /\ q.peer \in targets,
           \A q1, q2 \in new : q1.peer = q2.peer => q1 = q2,
           sessions' = [sessions EXCEPT ![h] = Walked(s, new, targets)],
           requests' = known \cup new, outstanding' = unresolved \cup new,
           sends' = sends + 1, reply' = reply, blocked' = blocked
    PROVE  \E t \in Session : AsksOn(h, s, known, unresolved, t, new)
<1>0. /\ Walked(s, new, targets) \in Session
      /\ Walked(s, new, targets).open = s.open
      /\ Walked(s, new, targets).attempts = s.attempts \cup new
      /\ Walked(s, new, targets).tried = s.tried \cup targets
      /\ Walked(s, new, targets).waiters = s.waiters
  BY DEF Session, Walked
<1> DEFINE t == Walked(s, new, targets)
<1>1. /\ t \in Session
      /\ t.open = s.open
      /\ t.attempts = s.attempts \cup new
      /\ t.tried = s.tried \cup targets
      /\ t.waiters = s.waiters
  BY <1>0
<1>2. sessions' = [sessions EXCEPT ![h] = t]
  OBVIOUS
<1> HIDE DEF t
<1>3. \A q \in new : q.hash = h /\ q.peer \in t.tried
  BY <1>1
<1>4. AsksOn(h, s, known, unresolved, t, new)
  BY <1>1, <1>2, <1>3, Zenon DEF AsksOn
<1> QED BY <1>1, <1>4, Zenon

\* walk_down either gives up or asks peers that the session has not asked.
LEMMA WalkDownEffect ==
    ASSUME TypeOK, NEW h \in Hash, NEW s \in Session, NEW known, NEW unresolved,
           WalkDown(h, s, known, unresolved)
    PROVE  \/ GivesUp(h, s, known, unresolved)
           \/ \E t \in Session, new \in SUBSET Request : AsksOn(h, s, known, unresolved, t, new)
<1> DEFINE targets == NextTargets(h, s.tried)
           new == {[id |-> sends, peer |-> q, hash |-> h] : q \in targets}
<1>1. CASE targets = {}
  <2>1. /\ sessions' = [sessions EXCEPT ![h] = NoSession]
        /\ Answer(s.waiters, "none")
        /\ blocked' = IF s.pin THEN blocked \cup {h} ELSE blocked
        /\ requests' = known
        /\ outstanding' = unresolved
        /\ sends' = sends
    BY <1>1, Zenon DEF WalkDown
  <2>2. blocked' \in SUBSET Hash
    BY <2>1, Zenon DEF TypeOK
  <2>3. connected \subseteq s.tried
    BY <1>1, SomebodyIsNext DEF NextTargets, TypeOK
  <2> HIDE DEF targets
  <2> QED BY <2>1, <2>2, <2>3, Zenon DEF GivesUp
<1>2. CASE targets # {}
  <2>1. /\ sessions' = [sessions EXCEPT ![h] = Walked(s, new, targets)]
        /\ requests' = known \cup new
        /\ outstanding' = unresolved \cup new
        /\ sends' = sends + 1
        /\ reply' = reply
        /\ blocked' = blocked
    BY <1>2, Zenon DEF WalkDown, Walked
  <2>2. targets \in SUBSET Peer
    BY DEF NextTargets, TopPeers, TypeOK
  <2>3. new \in SUBSET Request
    BY <2>2 DEF Request, TypeOK
  <2>4. new # {}
    BY <1>2
  <2>5. \A q \in new : q.hash = h /\ q.peer \in targets
    OBVIOUS
  <2>6. \A q1, q2 \in new : q1.peer = q2.peer => q1 = q2
    OBVIOUS
  <2> HIDE DEF new, targets
  <2>7. \E t \in Session : AsksOn(h, s, known, unresolved, t, new)
    BY <2>1, <2>2, <2>3, <2>4, <2>5, <2>6, WalkedAsksOn, Zenon
  <2> QED BY <2>3, <2>7, Zenon
<1> QED BY <1>1, <1>2, Zenon

\* The variables that WalkDown changes.
WalkTypeOK ==
    /\ sessions \in [Hash -> Session]
    /\ requests \subseteq Request
    /\ outstanding \subseteq Request
    /\ blocked \subseteq Hash
    /\ reply \in [Reader -> {"idle", "waiting", "some", "none", "done"}]
    /\ sends \in Nat

\* walk_down keeps the shape of what it changes.
LEMMA WalkDownType ==
    ASSUME TypeOK, NEW h \in Hash, NEW s \in Session, NEW known, NEW unresolved,
           known \subseteq Request, unresolved \subseteq Request,
           WalkDown(h, s, known, unresolved)
    PROVE  WalkTypeOK'
<1>1. CASE GivesUp(h, s, known, unresolved)
  <2>1. reply' \in [Reader -> {"idle", "waiting", "some", "none", "done"}]
    BY <1>1, AnswerType DEF GivesUp
  <2>2. sessions' \in [Hash -> Session]
    BY <1>1, NoSessionType DEF GivesUp, TypeOK
  <2>3. requests' \subseteq Request /\ outstanding' \subseteq Request /\ blocked' \subseteq Hash
        /\ sends' \in Nat
    BY <1>1 DEF GivesUp, TypeOK
  <2> QED BY <2>1, <2>2, <2>3 DEF WalkTypeOK
<1>2. CASE \E t \in Session, new \in SUBSET Request : AsksOn(h, s, known, unresolved, t, new)
  <2> PICK t \in Session, new \in SUBSET Request : AsksOn(h, s, known, unresolved, t, new)
    BY <1>2
  <2>1. sessions' \in [Hash -> Session]
    BY DEF AsksOn, TypeOK
  <2>2. requests' \subseteq Request /\ outstanding' \subseteq Request /\ sends' \in Nat
    BY DEF AsksOn, TypeOK
  <2>3. reply' \in [Reader -> {"idle", "waiting", "some", "none", "done"}]
        /\ blocked' \subseteq Hash
    BY DEF AsksOn, TypeOK
  <2> QED BY <2>1, <2>2, <2>3 DEF WalkTypeOK
<1> QED BY <1>1, <1>2, WalkDownEffect, Zenon

\* fetch_chunk keeps the shape of the state.
LEMMA FetchChunkType ==
    ASSUME TypeOK, FetchChunk
    PROVE  TypeOK'
<1> DEFINE cmd == Head(commands)
           s == sessions[cmd.hash]
<1>1. cmd \in Command /\ commands' \in Seq(Command)
  BY DEF FetchChunk, TypeOK
<1>2. cmd.hash \in Hash /\ Waiters(cmd) \subseteq Reader
  BY <1>1 DEF Command, Waiters
<1>3. s \in Session
  BY <1>2 DEF TypeOK
<1>4. WalkTypeOK'
  <2>1. CASE s.open
    <3>1. /\ sessions' = [sessions EXCEPT ![cmd.hash] = Joined(s, cmd)]
          /\ UNCHANGED <<requests, outstanding, blocked, reply, sends>>
      BY <2>1, Zenon DEF FetchChunk
    <3>2. Joined(s, cmd) \in Session
      BY <1>1, <1>3, JoinedSession
    <3> HIDE DEF s
    <3> QED BY <1>2, <3>1, <3>2 DEF WalkTypeOK, TypeOK
  <2>2. CASE ~s.open /\ ~cmd.pin /\ cmd.hash \in blocked
    <3>1. /\ Answer(Waiters(cmd), "none")
          /\ UNCHANGED <<sessions, requests, outstanding, blocked, sends>>
      BY <2>2, Zenon DEF FetchChunk
    <3>2. reply' \in [Reader -> {"idle", "waiting", "some", "none", "done"}]
      BY <3>1, AnswerType
    <3> QED BY <3>1, <3>2 DEF WalkTypeOK, TypeOK
  <2>3. CASE ~s.open /\ ~(~cmd.pin /\ cmd.hash \in blocked)
    <3> DEFINE fresh == [open |-> TRUE, waiters |-> Waiters(cmd), attempts |-> {},
                         tried |-> {}, pin |-> cmd.pin]
    <3>1. WalkDown(cmd.hash, fresh, requests, outstanding)
      BY <2>3, Zenon DEF FetchChunk
    <3>2. fresh \in Session
      BY <1>1, FreshSession
    <3>3. requests \subseteq Request /\ outstanding \subseteq Request
      BY DEF TypeOK
    <3> HIDE DEF fresh, cmd
    <3> QED BY <1>2, <3>1, <3>2, <3>3, WalkDownType
  <2> QED BY <2>1, <2>2, <2>3, Zenon
<1>5. UNCHANGED <<connected, pinned, cached, wants, pins>>
  BY DEF FetchChunk, storeVars
<1> HIDE DEF cmd, s
<1> QED BY <1>1, <1>4, <1>5 DEF WalkTypeOK, TypeOK

\* A valid response keeps the shape of the state.
LEMMA ChunkDataType ==
    ASSUME TypeOK, NEW q, ChunkData(q)
    PROVE  TypeOK'
<1>1. q \in Request /\ q.hash \in Hash
  BY DEF ChunkData, TypeOK, Request
<1>2. sessions[q.hash] \in Session
  BY <1>1 DEF TypeOK
<1>3. pinned' \subseteq Hash /\ cached' \subseteq Hash /\ blocked' \subseteq Hash
  <2>1. sessions[q.hash].pin \in BOOLEAN
    BY <1>2 DEF Session
  <2>2. Store(q.hash, sessions[q.hash].pin)
    BY Zenon DEF ChunkData
  <2> QED BY <1>1, <2>1, <2>2, StoreType
<1>4. reply' \in [Reader -> {"idle", "waiting", "some", "none", "done"}]
  BY AnswerType DEF ChunkData
<1>5. sessions' \in [Hash -> Session]
  BY NoSessionType DEF ChunkData, TypeOK
<1>6. requests' \subseteq Request /\ outstanding' \subseteq Request
  BY DEF ChunkData, KnownAfter, TypeOK
<1>7. UNCHANGED <<connected, commands, wants, sends, pins>>
  BY DEF ChunkData
<1> QED BY <1>3, <1>4, <1>5, <1>6, <1>7 DEF TypeOK

\* A failed attempt keeps the shape of the state.
LEMMA AttemptFailedType ==
    ASSUME TypeOK, NEW q, AttemptFailed(q)
    PROVE  TypeOK'
<1> DEFINE s == [sessions[q.hash] EXCEPT !.attempts = @ \ {q}]
<1>1. q \in Request /\ q.hash \in Hash
  BY DEF AttemptFailed, TypeOK, Request
<1>2. s \in Session
  <2>1. sessions[q.hash] \in Session
    BY <1>1 DEF TypeOK
  <2> QED BY <2>1, FailedSession
<1>3. WalkTypeOK'
  <2>1. CASE s.attempts # {}
    <3>1. /\ sessions' = [sessions EXCEPT ![q.hash] = s]
          /\ requests' = requests \ {q}
          /\ outstanding' = outstanding \ {q}
          /\ UNCHANGED <<reply, blocked, sends>>
      BY <2>1, Zenon DEF AttemptFailed
    <3> HIDE DEF s
    <3> QED BY <1>1, <1>2, <3>1 DEF WalkTypeOK, TypeOK
  <2>2. CASE s.attempts = {}
    <3>1. WalkDown(q.hash, s, requests \ {q}, outstanding \ {q})
      BY <2>2, Zenon DEF AttemptFailed
    <3>2. requests \ {q} \subseteq Request /\ outstanding \ {q} \subseteq Request
      BY DEF TypeOK
    <3> HIDE DEF s
    <3> QED BY <1>1, <1>2, <3>1, <3>2, WalkDownType
  <2> QED BY <2>1, <2>2
<1>4. UNCHANGED <<connected, commands, pinned, cached, wants, pins>>
  BY DEF AttemptFailed, storeVars
<1> QED BY <1>3, <1>4 DEF WalkTypeOK, TypeOK

\* A reader that goes on keeps the shape of the state.
LEMMA KeepForReadType ==
    ASSUME TypeOK, NEW r \in Reader, wants[r] \in Hash, KeepForRead(r)
    PROVE  TypeOK'
<1>1. cached' \subseteq Hash
  <2>1. cached' \in CacheOutcomes(pinned, cached, wants[r], MaxCachedBytes)
    BY DEF KeepForRead
  <2>2. cached' \in SUBSET Hash
    BY <2>1, CacheType, FetcherAssumption, Zenon DEF TypeOK
  <2> QED BY <2>2
<1> QED BY <1>1 DEF KeepForRead, TypeOK

-----------------------------------------------------------------------------
(***************************************************************************)
(* The sessions and the requests.                                          *)
(***************************************************************************)

\* A session that is open has attempts, all of them for its hash and to different
\* peers; a closed one has no waiters.
GoodSession(h, s) ==
    /\ s.open <=> s.attempts # {}
    /\ \A q \in s.attempts : q.hash = h /\ q.peer \in s.tried
    /\ \A q1, q2 \in s.attempts : q1.peer = q2.peer => q1 = q2
    /\ ~s.open => s.waiters = {}

\* SessionsConsistent, and closed sessions have no waiters.
SessionsInv ==
    /\ \A q : q \in requests <=> \E h \in Hash : q \in sessions[h].attempts
    /\ requests \subseteq outstanding
    /\ \A h \in Hash : GoodSession(h, sessions[h])

\* What a step that touches the session of h does to the two maps.
SessionBecomes(h, t) ==
    /\ t \in Session
    /\ GoodSession(h, t)
    /\ sessions' = [sessions EXCEPT ![h] = t]
    /\ \A q : q \in requests' <=> q \in t.attempts \/ (q \in requests /\ q.hash # h)
    /\ requests' \subseteq outstanding'

\* A step that replaces one session, and its requests with it, keeps the maps in
\* agreement.
LEMMA SessionBecomesKeeps ==
    ASSUME TypeOK, SessionsInv, NEW h \in Hash, NEW t, SessionBecomes(h, t)
    PROVE  SessionsInv'
<1>1. \A k \in Hash : sessions'[k] = IF k = h THEN t ELSE sessions[k]
  BY DEF SessionBecomes, TypeOK
<1>2. \A k \in Hash : GoodSession(k, sessions'[k])
  BY <1>1, Zenon DEF SessionBecomes, SessionsInv
<1>3. ASSUME NEW q
      PROVE  q \in requests' <=> \E k \in Hash : q \in sessions'[k].attempts
  <2>1. ASSUME q \in requests' PROVE \E k \in Hash : q \in sessions'[k].attempts
    <3>1. CASE q \in t.attempts
      BY <1>1, <3>1
    <3>2. CASE q \in requests /\ q.hash # h
      <4>1. PICK k \in Hash : q \in sessions[k].attempts
        BY <3>2 DEF SessionsInv
      <4>2. q.hash = k
        BY <4>1 DEF SessionsInv, GoodSession
      <4> QED BY <1>1, <3>2, <4>1, <4>2
    <3> QED BY <2>1, <3>1, <3>2 DEF SessionBecomes
  <2>2. ASSUME NEW k \in Hash, q \in sessions'[k].attempts PROVE q \in requests'
    <3>1. CASE k = h
      BY <1>1, <2>2, <3>1 DEF SessionBecomes
    <3>2. CASE k # h
      <4>1. q \in sessions[k].attempts
        BY <1>1, <2>2, <3>2
      <4>2. q \in requests /\ q.hash = k
        BY <4>1 DEF SessionsInv, GoodSession
      <4> QED BY <3>2, <4>2 DEF SessionBecomes
    <3> QED BY <3>1, <3>2
  <2> QED BY <2>1, <2>2
<1> QED BY <1>2, <1>3 DEF SessionsInv, SessionBecomes

\* walk_down for a session without attempts replaces the session and its requests.
LEMMA WalkDownSession ==
    ASSUME TypeOK, SessionsInv, NEW h \in Hash, NEW s \in Session, NEW known, NEW unresolved,
           s.open, s.attempts = {}, known \subseteq unresolved,
           \A q : q \in known <=> q \in requests /\ q.hash # h,
           WalkDown(h, s, known, unresolved)
    PROVE  \E t \in Session : SessionBecomes(h, t)
<1>1. CASE GivesUp(h, s, known, unresolved)
  <2>1. GoodSession(h, NoSession)
    BY NoSessionType DEF GoodSession
  <2>2. SessionBecomes(h, NoSession)
    BY <1>1, <2>1, NoSessionType DEF GivesUp, SessionBecomes
  <2> QED BY <2>2, NoSessionType
<1>2. CASE \E t \in Session, new \in SUBSET Request : AsksOn(h, s, known, unresolved, t, new)
  <2> PICK t \in Session, new \in SUBSET Request : AsksOn(h, s, known, unresolved, t, new)
    BY <1>2
  <2>1. t.attempts = new /\ t.open
    BY DEF AsksOn
  <2>2. GoodSession(h, t)
    BY <2>1 DEF AsksOn, GoodSession
  <2>3. SessionBecomes(h, t)
    BY <2>1, <2>2 DEF AsksOn, SessionBecomes
  <2> QED BY <2>3
<1> QED BY <1>1, <1>2, WalkDownEffect, Zenon

\* fetch_chunk keeps the maps in agreement.
LEMMA FetchChunkSessions ==
    ASSUME TypeOK, SessionsInv, FetchChunk
    PROVE  SessionsInv'
<1> DEFINE cmd == Head(commands)
           h == cmd.hash
           s == sessions[h]
<1>1. cmd \in Command
  BY DEF FetchChunk, TypeOK
<1>2. h \in Hash
  BY <1>1 DEF Command
<1>3. s \in Session /\ GoodSession(h, s)
  BY <1>2 DEF TypeOK, SessionsInv
<1>4. CASE s.open
  <2>1. /\ sessions' = [sessions EXCEPT ![h] = Joined(s, cmd)]
        /\ UNCHANGED <<requests, outstanding>>
    BY <1>4, Zenon DEF FetchChunk
  <2> DEFINE t == Joined(s, cmd)
  <2>2. /\ t \in Session /\ t.open = s.open
        /\ t.attempts = s.attempts /\ t.tried = s.tried
    BY <1>1, <1>3, JoinedSession
  <2>3. GoodSession(h, t)
    <3> HIDE DEF t, s, h
    <3> QED BY <1>3, <1>4, <2>2 DEF GoodSession
  <2>4. \A q : q \in requests => (q.hash = h <=> q \in s.attempts)
    BY <1>2, <1>3 DEF SessionsInv, GoodSession
  <2>5. \A q : q \in s.attempts => q \in requests
    BY <1>2 DEF SessionsInv
  <2> HIDE DEF t, s, h
  <2>6. SessionBecomes(h, t)
    BY <2>1, <2>2, <2>3, <2>4, <2>5 DEF SessionBecomes, SessionsInv, t
  <2> QED BY <1>2, <2>6, SessionBecomesKeeps
<1>5. CASE ~s.open /\ ~cmd.pin /\ h \in blocked
  <2>1. UNCHANGED <<sessions, requests, outstanding>>
    BY <1>5, Zenon DEF FetchChunk
  <2> QED BY <2>1 DEF SessionsInv
<1>6. CASE ~s.open /\ ~(~cmd.pin /\ h \in blocked)
  <2> DEFINE fresh == [open |-> TRUE, waiters |-> Waiters(cmd), attempts |-> {},
                       tried |-> {}, pin |-> cmd.pin]
  <2>1. WalkDown(h, fresh, requests, outstanding)
    BY <1>6, Zenon DEF FetchChunk
  <2>2. fresh \in Session /\ fresh.open /\ fresh.attempts = {}
    BY <1>1, FreshSession
  <2>3. s.attempts = {}
    BY <1>3, <1>6 DEF GoodSession
  <2>4. \A q : q \in requests => q.hash # h
    BY <1>2, <2>3 DEF SessionsInv, GoodSession
  <2>5. requests \subseteq outstanding
    BY DEF SessionsInv
  <2> HIDE DEF fresh, h, s, cmd
  <2>6. \E t \in Session : SessionBecomes(h, t)
    BY <1>2, <2>1, <2>2, <2>4, <2>5, WalkDownSession
  <2> QED BY <1>2, <2>6, SessionBecomesKeeps
<1> QED BY <1>4, <1>5, <1>6, Zenon

\* The first valid response removes the session with all its requests.
LEMMA ChunkDataSessions ==
    ASSUME TypeOK, SessionsInv, NEW q, ChunkData(q)
    PROVE  SessionsInv'
<1> DEFINE h == q.hash
           s == sessions[h]
<1>1. q \in requests /\ h \in Hash /\ q.hash = h
  BY DEF ChunkData, TypeOK, Request
<1>2. GoodSession(h, s)
  BY <1>1 DEF SessionsInv
<1>3. \A x : x \in requests => (x.hash = h <=> x \in s.attempts)
  BY <1>1, <1>2 DEF SessionsInv, GoodSession
<1>4. GoodSession(h, NoSession)
  BY NoSessionType DEF GoodSession
<1>5. /\ requests' = requests \ ({q} \cup s.attempts)
      /\ outstanding' = outstanding \ {q}
      /\ sessions' = [sessions EXCEPT ![h] = NoSession]
  BY DEF ChunkData, KnownAfter
<1> HIDE DEF s, h
<1>6. \A x : x \in requests' <=> x \in NoSession.attempts \/ (x \in requests /\ x.hash # h)
  BY <1>1, <1>3, <1>5, NoSessionType
<1>7. requests' \subseteq outstanding'
  BY <1>5 DEF SessionsInv
<1>8. SessionBecomes(h, NoSession)
  BY <1>4, <1>5, <1>6, <1>7, NoSessionType DEF SessionBecomes
<1> QED BY <1>1, <1>8, SessionBecomesKeeps

\* A failed attempt is removed from both maps, also when the session then walks on.
LEMMA AttemptFailedSessions ==
    ASSUME TypeOK, SessionsInv, NEW q, AttemptFailed(q)
    PROVE  SessionsInv'
<1> DEFINE h == q.hash
           old == sessions[h]
           s == [old EXCEPT !.attempts = @ \ {q}]
<1>1. q \in requests /\ h \in Hash /\ q.hash = h
  BY DEF AttemptFailed, TypeOK, Request
<1>2. GoodSession(h, old) /\ old \in Session
  BY <1>1 DEF SessionsInv, TypeOK
<1>3. \A x : x \in requests => (x.hash = h <=> x \in old.attempts)
  BY <1>1, <1>2 DEF SessionsInv, GoodSession
<1>4. \A x : x \in old.attempts => x \in requests
  BY <1>1 DEF SessionsInv
<1>5. /\ s \in Session /\ s.open = old.open /\ s.attempts = old.attempts \ {q}
      /\ s.tried = old.tried /\ s.waiters = old.waiters
  BY <1>2, FailedSession
<1>6. old.open
  BY <1>1, <1>2, <1>3 DEF GoodSession
<1>7. CASE s.attempts # {}
  <2>1. /\ sessions' = [sessions EXCEPT ![h] = s]
        /\ requests' = requests \ {q}
        /\ outstanding' = outstanding \ {q}
    BY <1>7, Zenon DEF AttemptFailed
  <2> HIDE DEF s, old, h
  <2>2. GoodSession(h, s)
    BY <1>2, <1>5, <1>6, <1>7 DEF GoodSession
  <2>3. \A x : x \in requests' <=> x \in s.attempts \/ (x \in requests /\ x.hash # h)
    BY <1>1, <1>3, <1>4, <1>5, <2>1
  <2>4. requests' \subseteq outstanding'
    BY <2>1 DEF SessionsInv
  <2>5. SessionBecomes(h, s)
    BY <1>5, <2>1, <2>2, <2>3, <2>4 DEF SessionBecomes
  <2> QED BY <1>1, <2>5, SessionBecomesKeeps
<1>8. CASE s.attempts = {}
  <2>1. WalkDown(h, s, requests \ {q}, outstanding \ {q})
    BY <1>8, Zenon DEF AttemptFailed
  <2> HIDE DEF s, old, h
  <2>2. \A x : x \in requests \ {q} <=> x \in requests /\ x.hash # h
    BY <1>1, <1>3, <1>5, <1>8
  <2>3. requests \ {q} \subseteq outstanding \ {q}
    BY DEF SessionsInv
  <2>4. \E t \in Session : SessionBecomes(h, t)
    BY <1>1, <1>5, <1>6, <1>8, <2>1, <2>2, <2>3, WalkDownSession
  <2> QED BY <1>1, <2>4, SessionBecomesKeeps
<1> QED BY <1>7, <1>8

-----------------------------------------------------------------------------
(***************************************************************************)
(* The readers that wait.                                                  *)
(***************************************************************************)

\* The i-th command in the channel, or the session of h, waits to answer r.
Queued(i, r) == i \in 1..Len(commands) /\ commands[i].reader = r
Joins(h, r) == h \in Hash /\ r \in sessions[h].waiters

\* A reader that waits is waited for in one place, for the hash it wants.
WaiterInv(r) ==
    /\ reply[r] # "idle" => wants[r] \in Hash
    /\ reply[r] = "waiting" => (\E i : Queued(i, r)) \/ (\E h : Joins(h, r))
    /\ \A i : Queued(i, r) =>
        /\ reply[r] = "waiting"
        /\ commands[i].hash = wants[r]
        /\ \A h : ~Joins(h, r)
        /\ \A j : Queued(j, r) => i = j
    /\ \A h : Joins(h, r) => reply[r] = "waiting" /\ h = wants[r]

WaitersInv == \A r \in Reader : WaiterInv(r)

\* A session of h ends, and its waiters are answered.
LEMMA AnsweredWaiters ==
    ASSUME TypeOK, WaitersInv, NEW h \in Hash, NEW outcome \in {"some", "none"},
           Answer(sessions[h].waiters, outcome),
           sessions' = [sessions EXCEPT ![h] = NoSession],
           commands' = commands, wants' = wants
    PROVE  WaitersInv'
<1> SUFFICES ASSUME NEW r \in Reader PROVE WaiterInv(r)'
  BY DEF WaitersInv
<1>1. reply'[r] = IF r \in sessions[h].waiters THEN outcome ELSE reply[r]
  BY AnswerType
<1>2. \A k : Joins(k, r)' <=> Joins(k, r) /\ k # h
  BY NoSessionType DEF Joins, TypeOK
<1>0. \A i : Queued(i, r)' <=> Queued(i, r)
  BY DEF Queued
<1>3. CASE r \in sessions[h].waiters
  <2>1. Joins(h, r)
    BY <1>3 DEF Joins
  <2>2. h = wants[r] /\ \A i : ~Queued(i, r)
    BY <2>1 DEF WaitersInv, WaiterInv
  <2> QED BY <1>1, <1>2, <1>3, <1>0, <2>1, <2>2 DEF WaitersInv, WaiterInv
<1>4. CASE r \notin sessions[h].waiters
  <2>1. ~Joins(h, r)
    BY <1>4 DEF Joins
  <2>2. \A k : Joins(k, r)' <=> Joins(k, r)
    BY <1>2, <2>1
  <2> QED BY <1>1, <1>4, <1>0, <2>2 DEF WaitersInv, WaiterInv
<1> QED BY <1>3, <1>4

\* A step that moves no waiter.
LEMMA SameWaiters ==
    ASSUME WaitersInv, wants' = wants,
           \A r \in Reader : /\ reply'[r] = "waiting" <=> reply[r] = "waiting"
                             /\ reply'[r] # "idle" => reply[r] # "idle",
           \A r \in Reader : \A i : /\ Queued(i, r)' <=> Queued(i, r)
                                    /\ Queued(i, r) => commands'[i].hash = commands[i].hash,
           \A r \in Reader : \A h : Joins(h, r)' <=> Joins(h, r)
    PROVE  WaitersInv'
<1> SUFFICES ASSUME NEW r \in Reader PROVE WaiterInv(r)'
  BY DEF WaitersInv
<1> QED BY DEF WaitersInv, WaiterInv

\* A reader that asks is waited for by its own command.
LEMMA AskForReadWaiters ==
    ASSUME TypeOK, WaitersInv, NEW r \in Reader, NEW h \in Hash, AskForRead(r, h)
    PROVE  WaitersInv'
<1>1. /\ reply' = [reply EXCEPT ![r] = "waiting"]
      /\ wants' = [wants EXCEPT ![r] = h]
      /\ reply[r] = "idle"
      /\ sessions' = sessions
      /\ commands' = Append(commands, [hash |-> h, pin |-> FALSE, reader |-> r])
  BY DEF AskForRead
<1>2. \A i, x : Queued(i, x)' <=> Queued(i, x) \/ (i = Len(commands) + 1 /\ x = r)
  BY <1>1 DEF Queued, TypeOK
<1>3. \A i, x : Queued(i, x) => commands'[i] = commands[i]
  BY <1>1 DEF Queued, TypeOK
<1>4. \A k, x : Joins(k, x)' <=> Joins(k, x)
  BY <1>1 DEF Joins
<1>5. \A i : ~Queued(i, r)
  BY <1>1 DEF WaitersInv, WaiterInv
<1>6. \A k : ~Joins(k, r)
  BY <1>1 DEF WaitersInv, WaiterInv
<1>7. commands'[Len(commands) + 1].hash = h
  BY <1>1 DEF TypeOK
<1> SUFFICES ASSUME NEW x \in Reader PROVE WaiterInv(x)'
  BY DEF WaitersInv
<1>8. CASE x = r
  <2>1. reply'[x] = "waiting" /\ wants'[x] = h
    BY <1>1, <1>8 DEF TypeOK
  <2>2. \A i : Queued(i, x)' <=> i = Len(commands) + 1
    BY <1>2, <1>5, <1>8
  <2> QED BY <1>4, <1>6, <1>7, <1>8, <2>1, <2>2 DEF WaiterInv
<1>9. CASE x # r
  <2>1. reply'[x] = reply[x] /\ wants'[x] = wants[x]
    BY <1>1, <1>9 DEF TypeOK
  <2>2. \A i : Queued(i, x)' <=> Queued(i, x)
    BY <1>2, <1>9
  <2> QED BY <1>3, <1>4, <2>1, <2>2 DEF WaitersInv, WaiterInv
<1> QED BY <1>8, <1>9

\* A pin fetch has no reader.
LEMMA AskForPinWaiters ==
    ASSUME TypeOK, WaitersInv, NEW h \in Hash, AskForPin(h)
    PROVE  WaitersInv'
<1>1. commands' = Append(commands, [hash |-> h, pin |-> TRUE, reader |-> NoReader])
  BY DEF AskForPin
<1>2. \A r \in Reader : \A i : /\ Queued(i, r)' <=> Queued(i, r)
                               /\ Queued(i, r) => commands'[i].hash = commands[i].hash
  BY <1>1, FetcherAssumption DEF Queued, TypeOK
<1>3. wants' = wants /\ reply' = reply /\ sessions' = sessions
  BY DEF AskForPin
<1>4. \A r \in Reader : \A k : Joins(k, r)' <=> Joins(k, r)
  BY <1>3 DEF Joins
<1> QED BY <1>2, <1>3, <1>4, SameWaiters

\* The first command leaves the channel: its waiter joins a session or is answered.
LEMMA TakenWaiters ==
    ASSUME TypeOK, WaitersInv, NEW cmd \in Command, NEW joins \in BOOLEAN,
           commands # <<>>, cmd = Head(commands), commands' = Tail(commands), wants' = wants,
           \A k \in Hash : sessions'[k].waiters =
                IF joins /\ k = cmd.hash THEN sessions[k].waiters \cup Waiters(cmd)
                                         ELSE sessions[k].waiters,
           \A r \in Reader : reply'[r] = IF ~joins /\ r \in Waiters(cmd) THEN "none"
                                                                       ELSE reply[r]
    PROVE  WaitersInv'
<1>1. \A i, r : Queued(i, r)' <=> i \in Nat \ {0} /\ Queued(i + 1, r)
  BY DEF Queued, TypeOK
<1>2. \A i, r : Queued(i, r)' => commands'[i] = commands[i + 1]
  BY DEF Queued, TypeOK
<1>3. cmd = commands[1] /\ 1 \in 1..Len(commands)
  BY DEF TypeOK
<1>4. \A r \in Reader : r \in Waiters(cmd) <=> Queued(1, r)
  BY <1>3, FetcherAssumption DEF Waiters, Queued
<1> SUFFICES ASSUME NEW r \in Reader PROVE WaiterInv(r)'
  BY DEF WaitersInv
<1>5. \A i : Queued(i, r) => i \in Nat \ {0}
  BY DEF Queued
<1>6. CASE Queued(1, r)
  <2>1. /\ reply[r] = "waiting" /\ cmd.hash = wants[r]
        /\ \A j : Queued(j, r) => j = 1
    BY <1>3, <1>6 DEF WaitersInv, WaiterInv
  <2>2. \A i : ~Queued(i, r)'
    BY <1>1, <2>1
  <2>3. wants[r] \in Hash
    BY <2>1 DEF WaitersInv, WaiterInv
  <2>4. \A h : ~Joins(h, r)
    BY <1>6 DEF WaitersInv, WaiterInv
  <2>5. \A h : Joins(h, r)' <=> joins /\ h = wants[r]
    BY <1>4, <1>6, <2>1, <2>3, <2>4 DEF Joins
  <2>6. reply'[r] = IF joins THEN "waiting" ELSE "none"
    BY <1>4, <1>6, <2>1
  <2> QED BY <2>2, <2>3, <2>5, <2>6 DEF WaiterInv
<1>7. CASE ~Queued(1, r)
  <2>1. \A h : Joins(h, r)' <=> Joins(h, r)
    BY <1>4, <1>7 DEF Joins
  <2>2. reply'[r] = reply[r]
    BY <1>4, <1>7
  <2>3. (\E i : Queued(i, r)) => \E i : Queued(i, r)'
    <3> SUFFICES ASSUME NEW i, Queued(i, r) PROVE \E j : Queued(j, r)'
      OBVIOUS
    <3>1. i \in Nat \ {0, 1}
      BY <1>5, <1>7
    <3>2. i - 1 \in Nat \ {0} /\ (i - 1) + 1 = i
      BY <3>1
    <3> QED BY <1>1, <3>2
  <2>4. \A i : Queued(i, r)' => Queued(i + 1, r) /\ i \in Nat /\ commands'[i] = commands[i + 1]
    BY <1>1, <1>2
  <2>5. ASSUME NEW i, NEW j, Queued(i, r)', Queued(j, r)' PROVE i = j
    <3>1. i + 1 = j + 1 /\ i \in Nat /\ j \in Nat
      BY <2>4, <2>5 DEF WaitersInv, WaiterInv
    <3> QED BY <3>1
  <2>6. WaiterInv(r)
    BY DEF WaitersInv
  <2>7. \A i : Queued(i, r)' => /\ reply'[r] = "waiting"
                                /\ commands'[i].hash = wants'[r]
                                /\ \A h : ~Joins(h, r)'
    <3>1. \A i : Queued(i + 1, r) => /\ reply[r] = "waiting"
                                      /\ commands[i + 1].hash = wants[r]
                                      /\ \A h : ~Joins(h, r)
      BY <2>6 DEF WaiterInv
    <3> QED BY <2>1, <2>2, <2>4, <3>1
  <2>8. reply'[r] = "waiting" => (\E i : Queued(i, r)') \/ (\E h : Joins(h, r)')
    BY <2>1, <2>2, <2>3, <2>6 DEF WaiterInv
  <2>9. \A h : Joins(h, r)' => reply'[r] = "waiting" /\ h = wants'[r]
    BY <2>1, <2>2, <2>6 DEF WaiterInv
  <2>10. reply'[r] # "idle" => wants'[r] \in Hash
    BY <2>2, <2>6 DEF WaiterInv
  <2> QED BY <2>5, <2>7, <2>8, <2>9, <2>10 DEF WaiterInv
<1> QED BY <1>6, <1>7

\* fetch_chunk moves the waiter of its command into the session, or answers it.
LEMMA FetchChunkWaiters ==
    ASSUME TypeOK, SessionsInv, WaitersInv, FetchChunk
    PROVE  WaitersInv'
<1> DEFINE cmd == Head(commands)
           h == cmd.hash
           s == sessions[h]
<1>1. /\ cmd \in Command /\ commands # <<>> /\ commands' = Tail(commands) /\ wants' = wants
      /\ h \in Hash
  <2>1. commands # <<>> /\ commands' = Tail(commands) /\ wants' = wants
    BY DEF FetchChunk
  <2>2. cmd \in Command
    BY <2>1 DEF TypeOK
  <2> QED BY <2>1, <2>2 DEF Command
<1>2. s \in Session /\ GoodSession(h, s)
  BY <1>1 DEF TypeOK, SessionsInv
<1>3. CASE s.open
  <2>1. sessions' = [sessions EXCEPT ![h] = Joined(s, cmd)] /\ reply' = reply
    BY <1>3, Zenon DEF FetchChunk
  <2>2. Joined(s, cmd).waiters = s.waiters \cup Waiters(cmd)
    BY <1>1, <1>2, JoinedSession
  <2>3. \A k \in Hash : sessions'[k].waiters =
            IF TRUE /\ k = h THEN sessions[k].waiters \cup Waiters(cmd)
                             ELSE sessions[k].waiters
    BY <1>1, <2>1, <2>2 DEF TypeOK
  <2> HIDE DEF s, h
  <2>4. \A r \in Reader : reply'[r] = IF ~TRUE /\ r \in Waiters(cmd) THEN "none" ELSE reply[r]
    BY <2>1
  <2> QED BY <1>1, <2>3, <2>4, TakenWaiters DEF h
<1>4. CASE ~s.open /\ ~cmd.pin /\ h \in blocked
  <2>1. Answer(Waiters(cmd), "none") /\ sessions' = sessions
    BY <1>4, Zenon DEF FetchChunk
  <2>2. \A r \in Reader : reply'[r] = IF ~FALSE /\ r \in Waiters(cmd) THEN "none" ELSE reply[r]
    BY <2>1, AnswerType
  <2>3. \A k \in Hash : sessions'[k].waiters =
            IF FALSE /\ k = cmd.hash THEN sessions[k].waiters \cup Waiters(cmd)
                                     ELSE sessions[k].waiters
    BY <2>1
  <2> QED BY <1>1, <2>2, <2>3, TakenWaiters
<1>5. CASE ~s.open /\ ~(~cmd.pin /\ h \in blocked)
  <2> DEFINE fresh == [open |-> TRUE, waiters |-> Waiters(cmd), attempts |-> {},
                       tried |-> {}, pin |-> cmd.pin]
  <2>1. WalkDown(h, fresh, requests, outstanding)
    BY <1>5, Zenon DEF FetchChunk
  <2>2. fresh \in Session /\ fresh.waiters = Waiters(cmd)
    BY <1>1, FreshSession
  <2>3. s.waiters = {}
    BY <1>2, <1>5 DEF GoodSession
  <2> HIDE DEF fresh
  <2>4. CASE GivesUp(h, fresh, requests, outstanding)
    <3>1. Answer(Waiters(cmd), "none") /\ sessions' = [sessions EXCEPT ![h] = NoSession]
      BY <2>2, <2>4 DEF GivesUp
    <3>2. \A r \in Reader : reply'[r] = IF ~FALSE /\ r \in Waiters(cmd) THEN "none"
                                                                     ELSE reply[r]
      BY <3>1, AnswerType
    <3>3. \A k \in Hash : sessions'[k].waiters =
              IF FALSE /\ k = cmd.hash THEN sessions[k].waiters \cup Waiters(cmd)
                                       ELSE sessions[k].waiters
      BY <1>1, <2>3, <3>1, NoSessionType DEF TypeOK
    <3> QED BY <1>1, <3>2, <3>3, TakenWaiters
  <2>5. CASE \E t \in Session, new \in SUBSET Request :
                AsksOn(h, fresh, requests, outstanding, t, new)
    <3> PICK t \in Session, new \in SUBSET Request :
                AsksOn(h, fresh, requests, outstanding, t, new)
      BY <2>5
    <3>1. t.waiters = Waiters(cmd) /\ sessions' = [sessions EXCEPT ![h] = t] /\ reply' = reply
      BY <2>2 DEF AsksOn
    <3>2. \A k \in Hash : sessions'[k].waiters =
              IF TRUE /\ k = cmd.hash THEN sessions[k].waiters \cup Waiters(cmd)
                                      ELSE sessions[k].waiters
      BY <1>1, <2>3, <3>1 DEF TypeOK
    <3>3. \A r \in Reader : reply'[r] = IF ~TRUE /\ r \in Waiters(cmd) THEN "none"
                                                                    ELSE reply[r]
      BY <3>1
    <3> QED BY <1>1, <3>2, <3>3, TakenWaiters
  <2> HIDE DEF h, s, cmd
  <2> QED BY <1>1, <2>1, <2>2, <2>4, <2>5, WalkDownEffect, Zenon
<1> QED BY <1>3, <1>4, <1>5, Zenon

\* A valid response answers everybody its session waits for.
LEMMA ChunkDataWaiters ==
    ASSUME TypeOK, WaitersInv, NEW q, ChunkData(q)
    PROVE  WaitersInv'
<1>1. q.hash \in Hash
  BY DEF ChunkData, TypeOK, Request
<1>2. /\ Answer(sessions[q.hash].waiters, "some")
      /\ sessions' = [sessions EXCEPT ![q.hash] = NoSession]
      /\ commands' = commands /\ wants' = wants
  BY DEF ChunkData
<1> QED BY <1>1, <1>2, AnsweredWaiters

\* A failed attempt answers everybody its session waits for, or nobody.
LEMMA AttemptFailedWaiters ==
    ASSUME TypeOK, WaitersInv, NEW q, AttemptFailed(q)
    PROVE  WaitersInv'
<1> DEFINE h == q.hash
           s == [sessions[h] EXCEPT !.attempts = @ \ {q}]
<1>1. h \in Hash /\ commands' = commands /\ wants' = wants
  BY DEF AttemptFailed, TypeOK, Request
<1>2. s \in Session /\ s.waiters = sessions[h].waiters
  BY <1>1, FailedSession DEF TypeOK
<1> HIDE DEF h
<1>3. ASSUME NEW t, t.waiters = s.waiters, sessions' = [sessions EXCEPT ![h] = t],
             reply' = reply
      PROVE  WaitersInv'
  <2>1. \A r \in Reader : \A k : Joins(k, r)' <=> Joins(k, r)
    BY <1>1, <1>2, <1>3 DEF Joins, TypeOK
  <2>2. \A r \in Reader : \A i : /\ Queued(i, r)' <=> Queued(i, r)
                                 /\ Queued(i, r) => commands'[i].hash = commands[i].hash
    BY <1>1 DEF Queued
  <2> QED BY <1>1, <1>3, <2>1, <2>2, SameWaiters
<1>4. CASE s.attempts # {}
  <2>1. sessions' = [sessions EXCEPT ![h] = s] /\ reply' = reply
    BY <1>4, Zenon DEF AttemptFailed, h
  <2> HIDE DEF s
  <2> QED BY <1>3, <2>1
<1>5. CASE s.attempts = {}
  <2>1. WalkDown(h, s, requests \ {q}, outstanding \ {q})
    BY <1>5, Zenon DEF AttemptFailed, h
  <2> HIDE DEF s
  <2>2. CASE GivesUp(h, s, requests \ {q}, outstanding \ {q})
    <3>1. /\ Answer(sessions[h].waiters, "none")
          /\ sessions' = [sessions EXCEPT ![h] = NoSession]
      BY <1>2, <2>2, Zenon DEF GivesUp
    <3> QED BY <1>1, <3>1, AnsweredWaiters
  <2>3. CASE \E t \in Session, new \in SUBSET Request :
                AsksOn(h, s, requests \ {q}, outstanding \ {q}, t, new)
    <3> PICK t \in Session, new \in SUBSET Request :
                AsksOn(h, s, requests \ {q}, outstanding \ {q}, t, new)
      BY <2>3
    <3>1. t.waiters = s.waiters /\ sessions' = [sessions EXCEPT ![h] = t] /\ reply' = reply
      BY DEF AsksOn
    <3> QED BY <1>3, <3>1
  <2> QED BY <1>1, <1>2, <2>1, <2>2, <2>3, WalkDownEffect, Zenon
<1> QED BY <1>4, <1>5

-----------------------------------------------------------------------------
(***************************************************************************)
(* The inductive invariant.                                                *)
(***************************************************************************)

FetcherInv == TypeOK /\ SessionsInv /\ WaitersInv

\* The invariant holds before the first command.
LEMMA InitFetcherInv == Init => FetcherInv
<1> SUFFICES ASSUME Init PROVE FetcherInv
  OBVIOUS
<1>1. TypeOK
  BY NoSessionType, FetcherAssumption DEF Init, TypeOK
<1>2. SessionsInv
  BY NoSessionType DEF Init, SessionsInv, GoodSession
<1>3. WaitersInv
  BY NoSessionType DEF Init, WaitersInv, WaiterInv, Queued, Joins
<1> QED BY <1>1, <1>2, <1>3 DEF FetcherInv

\* A reader's fetch keeps the invariant.
LEMMA AskForReadStep ==
    ASSUME FetcherInv, NEW r \in Reader, NEW h \in Hash, AskForRead(r, h)
    PROVE  FetcherInv'
<1>1. TypeOK'
  <2>1. [hash |-> h, pin |-> FALSE, reader |-> r] \in Command
    BY DEF Command
  <2> QED BY <2>1 DEF FetcherInv, TypeOK, AskForRead, storeVars
<1>2. SessionsInv'
  BY DEF FetcherInv, SessionsInv, AskForRead
<1> QED BY <1>1, <1>2, AskForReadWaiters DEF FetcherInv

\* A pin fetch keeps the invariant.
LEMMA AskForPinStep ==
    ASSUME FetcherInv, NEW h \in Hash, AskForPin(h)
    PROVE  FetcherInv'
<1>1. TypeOK'
  <2>1. [hash |-> h, pin |-> TRUE, reader |-> NoReader] \in Command
    BY DEF Command
  <2>2. pins' \in 0..MaxPins
    BY FetcherAssumption DEF FetcherInv, TypeOK, AskForPin
  <2> QED BY <2>1, <2>2 DEF FetcherInv, TypeOK, AskForPin, storeVars
<1>2. SessionsInv'
  BY DEF FetcherInv, SessionsInv, AskForPin
<1> QED BY <1>1, <1>2, AskForPinWaiters DEF FetcherInv

\* A reader that goes on keeps the invariant.
LEMMA KeepForReadStep ==
    ASSUME FetcherInv, NEW r \in Reader, KeepForRead(r)
    PROVE  FetcherInv'
<1>1. wants[r] \in Hash
  BY DEF FetcherInv, WaitersInv, WaiterInv, KeepForRead
<1>2. TypeOK'
  BY <1>1, KeepForReadType DEF FetcherInv
<1>3. SessionsInv'
  BY DEF FetcherInv, SessionsInv, KeepForRead
<1>4. WaitersInv'
  <2>1. /\ wants' = wants /\ sessions' = sessions /\ commands' = commands
        /\ reply' = [reply EXCEPT ![r] = "done"] /\ reply[r] = "some"
    BY DEF KeepForRead
  <2>2. \A x \in Reader : /\ reply'[x] = "waiting" <=> reply[x] = "waiting"
                          /\ reply'[x] # "idle" => reply[x] # "idle"
    BY <2>1 DEF FetcherInv, TypeOK
  <2>3. \A x \in Reader : \A i : /\ Queued(i, x)' <=> Queued(i, x)
                                 /\ Queued(i, x) => commands'[i].hash = commands[i].hash
    BY <2>1 DEF Queued
  <2>4. \A x \in Reader : \A k : Joins(k, x)' <=> Joins(k, x)
    BY <2>1 DEF Joins
  <2> QED BY <2>1, <2>2, <2>3, <2>4, SameWaiters DEF FetcherInv
<1> QED BY <1>2, <1>3, <1>4 DEF FetcherInv

\* Late events, backoffs that end and members that come and go keep the invariant.
LEMMA QuietStep ==
    ASSUME FetcherInv,
           \/ \E q \in outstanding : LateEvent(q)
           \/ \E h \in Hash : BackoffOver(h)
           \/ PeerChange
           \/ UNCHANGED vars
    PROVE  FetcherInv'
<1>1. /\ UNCHANGED <<commands, sessions, requests, pinned, cached, reply, wants, sends, pins>>
      /\ requests \subseteq outstanding' /\ outstanding' \subseteq outstanding
      /\ blocked' \subseteq blocked
      /\ connected' \subseteq Peer
  BY DEF FetcherInv, TypeOK, SessionsInv, LateEvent, BackoffOver, PeerChange, vars, storeVars
<1>2. TypeOK'
  BY <1>1 DEF FetcherInv, TypeOK
<1>3. SessionsInv'
  BY <1>1 DEF FetcherInv, SessionsInv
<1>4. WaitersInv'
  BY <1>1 DEF FetcherInv, WaitersInv, WaiterInv, Queued, Joins
<1> QED BY <1>2, <1>3, <1>4 DEF FetcherInv

\* Every step keeps the invariant.
LEMMA NextFetcherInv == FetcherInv /\ [Next]_vars => FetcherInv'
<1> SUFFICES ASSUME FetcherInv, [Next]_vars PROVE FetcherInv'
  OBVIOUS
<1>1. ASSUME NEW h \in Hash, AskForPin(h) PROVE FetcherInv'
  BY <1>1, AskForPinStep
<1>2. ASSUME NEW h \in Hash, NEW r \in Reader, AskForRead(r, h) PROVE FetcherInv'
  BY <1>2, AskForReadStep
<1>3. CASE FetchChunk
  BY <1>3, FetchChunkType, FetchChunkSessions, FetchChunkWaiters DEF FetcherInv
<1>4. ASSUME NEW q, ChunkData(q) PROVE FetcherInv'
  BY <1>4, ChunkDataType, ChunkDataSessions, ChunkDataWaiters DEF FetcherInv
<1>5. ASSUME NEW q, AttemptFailed(q) PROVE FetcherInv'
  BY <1>5, AttemptFailedType, AttemptFailedSessions, AttemptFailedWaiters DEF FetcherInv
<1>6. ASSUME NEW r \in Reader, KeepForRead(r) PROVE FetcherInv'
  BY <1>6, KeepForReadStep
<1> QED BY <1>1, <1>2, <1>3, <1>4, <1>5, <1>6, QuietStep DEF Next, Resolve

\* The inductive invariant holds in every behaviour of the fetcher.
THEOREM FetcherInvariant == Spec => []FetcherInv
<1> QED BY InitFetcherInv, NextFetcherInv, PTL DEF Spec

\* The state of the fetcher keeps its shape.
THEOREM TypeCorrect == Spec => []TypeOK
<1>1. FetcherInv => TypeOK
  BY DEF FetcherInv
<1> QED BY <1>1, FetcherInvariant, PTL

\* The sessions and the request map of ChunkHandler agree in whatever order responses,
\* failures, late answers and commands come.
THEOREM MapsAgree == Spec => []SessionsConsistent
<1>1. FetcherInv => SessionsConsistent
  <2> SUFFICES ASSUME FetcherInv PROVE SessionsConsistent
    OBVIOUS
  <2>1. requests = UNION {sessions[h].attempts : h \in Hash}
    BY DEF FetcherInv, SessionsInv
  <2> QED BY <2>1 DEF FetcherInv, SessionsInv, GoodSession, SessionsConsistent
<1> QED BY <1>1, FetcherInvariant, PTL

\* Every waiting read_file is waited for in exactly one place, for the chunk it wants:
\* no oneshot sender is dropped, kept twice or moved to another session.
THEOREM NoReaderLost == Spec => []WaitersKept
<1>1. FetcherInv => WaitersKept
  <2> SUFFICES ASSUME FetcherInv, NEW r \in Reader
               PROVE  LET queued == {i \in DOMAIN commands : commands[i].reader = r}
                          joined == {h \in Hash : r \in sessions[h].waiters}
                      IN  /\ reply[r] = "waiting" => Cardinality(queued) + Cardinality(joined) = 1
                          /\ reply[r] # "waiting" => queued = {} /\ joined = {}
                          /\ \A i \in queued : commands[i].hash = wants[r]
                          /\ joined \subseteq {wants[r]}
    BY DEF WaitersKept
  <2> DEFINE queued == {i \in DOMAIN commands : commands[i].reader = r}
             joined == {h \in Hash : r \in sessions[h].waiters}
  <2>1. \A i : i \in queued <=> Queued(i, r)
    BY DEF Queued, FetcherInv, TypeOK
  <2>2. \A h : h \in joined <=> Joins(h, r)
    BY DEF Joins
  <2>3. WaiterInv(r)
    BY DEF FetcherInv, WaitersInv
  <2> HIDE DEF queued, joined
  <2>4. \A i \in queued : commands[i].hash = wants[r]
    BY <2>1, <2>3 DEF WaiterInv
  <2>5. joined \subseteq {wants[r]}
    BY <2>2, <2>3 DEF WaiterInv
  <2>6. reply[r] # "waiting" => queued = {} /\ joined = {}
    BY <2>1, <2>2, <2>3 DEF WaiterInv
  <2>7. ASSUME reply[r] = "waiting"
        PROVE  Cardinality(queued) + Cardinality(joined) = 1
    <3>1. CASE \E i : Queued(i, r)
      <4> PICK i : Queued(i, r)
        BY <3>1
      <4>1. queued = {i} /\ joined = {}
        BY <2>1, <2>2, <2>3 DEF WaiterInv
      <4>2. Cardinality({i}) = 1 /\ Cardinality({}) = 0
        BY FS_Singleton, FS_EmptySet
      <4> QED BY <4>1, <4>2
    <3>2. CASE ~(\E i : Queued(i, r)) /\ \E h : Joins(h, r)
      <4> PICK h : Joins(h, r)
        BY <3>2
      <4>1. queued = {} /\ joined = {h}
        BY <2>1, <2>2, <2>3, <3>2 DEF WaiterInv
      <4>2. Cardinality({h}) = 1 /\ Cardinality({}) = 0
        BY FS_Singleton, FS_EmptySet
      <4> QED BY <4>1, <4>2
    <3> QED BY <2>3, <2>7, <3>1, <3>2 DEF WaiterInv
  <2> QED BY <2>4, <2>5, <2>6, <2>7 DEF queued, joined
<1> QED BY <1>1, FetcherInvariant, PTL

-----------------------------------------------------------------------------
(***************************************************************************)
(* When a reader is refused.                                               *)
(***************************************************************************)

\* The reader was refused at once, or after everybody had been asked.
AtTheEnd(h) ==
    \/ h \in blocked /\ ~sessions[h].open
    \/ connected \subseteq sessions[h].tried /\ \A q \in requests' : q.hash # h

RefusedStep == \A r \in Reader : reply[r] = "waiting" /\ reply'[r] = "none" => AtTheEnd(wants[r])

\* A step after which the same readers have been refused.
RefusesNobody == \A r \in Reader : reply'[r] = "none" => reply[r] = "none"

\* A command that is taken refuses its reader only.
LEMMA FetchChunkRefuses ==
    ASSUME FetcherInv, FetchChunk
    PROVE  RefusedStep
<1> DEFINE cmd == Head(commands)
           h == cmd.hash
<1>1. cmd \in Command /\ h \in Hash /\ commands # <<>> /\ cmd = commands[1]
  <2>1. commands # <<>>
    BY DEF FetchChunk
  <2>2. cmd \in Command
    BY <2>1 DEF FetcherInv, TypeOK
  <2> QED BY <2>1, <2>2 DEF Command, FetcherInv, TypeOK
<1>2. \A r \in Waiters(cmd) \cap Reader : wants[r] = h
  <2> SUFFICES ASSUME NEW r \in Waiters(cmd) \cap Reader PROVE wants[r] = h
    OBVIOUS
  <2>1. Queued(1, r)
    BY <1>1 DEF Queued, Waiters, FetcherInv, TypeOK
  <2> QED BY <1>1, <2>1 DEF FetcherInv, WaitersInv, WaiterInv
<1>3. CASE sessions[h].open
  <2>1. reply' = reply
    BY <1>3, Zenon DEF FetchChunk
  <2> QED BY <2>1 DEF RefusedStep
<1>4. CASE ~sessions[h].open /\ ~cmd.pin /\ h \in blocked
  <2>1. Answer(Waiters(cmd), "none")
    BY <1>4, Zenon DEF FetchChunk
  <2>2. \A r \in Reader : reply'[r] = IF r \in Waiters(cmd) THEN "none" ELSE reply[r]
    BY <2>1, AnswerType DEF FetcherInv
  <2> HIDE DEF h, cmd
  <2> QED BY <1>2, <1>4, <2>2 DEF RefusedStep, AtTheEnd
<1>5. CASE ~sessions[h].open /\ ~(~cmd.pin /\ h \in blocked)
  <2> DEFINE fresh == [open |-> TRUE, waiters |-> Waiters(cmd), attempts |-> {},
                       tried |-> {}, pin |-> cmd.pin]
  <2>1. WalkDown(h, fresh, requests, outstanding)
    BY <1>5, Zenon DEF FetchChunk
  <2>2. fresh \in Session /\ fresh.waiters = Waiters(cmd) /\ fresh.tried = {}
    BY <1>1, FreshSession
  <2>3. \A q \in requests : q.hash # h
    BY <1>1, <1>5 DEF FetcherInv, SessionsInv, GoodSession
  <2> HIDE DEF fresh, h, cmd
  <2>4. CASE GivesUp(h, fresh, requests, outstanding)
    <3>1. \A r \in Reader : reply'[r] = IF r \in Waiters(cmd) THEN "none" ELSE reply[r]
      BY <2>2, <2>4, AnswerType DEF GivesUp, FetcherInv
    <3> QED BY <1>2, <2>2, <2>3, <2>4, <3>1 DEF GivesUp, RefusedStep, AtTheEnd
  <2>5. CASE \E t \in Session, new \in SUBSET Request :
                AsksOn(h, fresh, requests, outstanding, t, new)
    BY <2>5 DEF AsksOn, RefusedStep
  <2> QED BY <1>1, <2>1, <2>2, <2>4, <2>5, WalkDownEffect, Zenon DEF FetcherInv
<1> QED BY <1>3, <1>4, <1>5, Zenon

\* A failed attempt refuses the readers of its session, if it was the last one.
LEMMA AttemptFailedRefuses ==
    ASSUME FetcherInv, NEW q, AttemptFailed(q)
    PROVE  RefusedStep
<1> DEFINE h == q.hash
           old == sessions[h]
           s == [old EXCEPT !.attempts = @ \ {q}]
<1>1. q \in requests /\ h \in Hash
  BY DEF AttemptFailed, FetcherInv, TypeOK, Request
<1>2. GoodSession(h, old) /\ old \in Session
  BY <1>1 DEF FetcherInv, SessionsInv, TypeOK
<1>3. /\ s \in Session /\ s.attempts = old.attempts \ {q}
      /\ s.tried = old.tried /\ s.waiters = old.waiters
  BY <1>2, FailedSession
<1>4. \A r \in Reader \cap old.waiters : wants[r] = h
  BY <1>1 DEF FetcherInv, WaitersInv, WaiterInv, Joins
<1>5. CASE s.attempts # {}
  <2>1. reply' = reply
    BY <1>5, Zenon DEF AttemptFailed
  <2> QED BY <2>1 DEF RefusedStep
<1>6. CASE s.attempts = {}
  <2>1. WalkDown(h, s, requests \ {q}, outstanding \ {q})
    BY <1>6, Zenon DEF AttemptFailed
  <2>2. \A x \in requests \ {q} : x.hash # h
    BY <1>1, <1>2, <1>3, <1>6 DEF FetcherInv, SessionsInv, GoodSession
  <2>3. old = sessions[h]
    OBVIOUS
  <2> HIDE DEF s, old, h
  <2>4. CASE GivesUp(h, s, requests \ {q}, outstanding \ {q})
    <3>1. \A r \in Reader : reply'[r] = IF r \in old.waiters THEN "none" ELSE reply[r]
      BY <1>3, <2>4, AnswerType DEF GivesUp, FetcherInv
    <3> QED BY <1>3, <1>4, <2>2, <2>3, <2>4, <3>1 DEF GivesUp, RefusedStep, AtTheEnd
  <2>5. CASE \E t \in Session, new \in SUBSET Request :
                AsksOn(h, s, requests \ {q}, outstanding \ {q}, t, new)
    BY <2>5 DEF AsksOn, RefusedStep
  <2> QED BY <1>1, <1>3, <2>1, <2>4, <2>5, WalkDownEffect, Zenon DEF FetcherInv
<1> QED BY <1>5, <1>6

\* Every step refuses readers only at the end.
LEMMA NextRefuses == FetcherInv /\ [Next]_vars => RefusedStep
<1> SUFFICES ASSUME FetcherInv, [Next]_vars PROVE RefusedStep
  OBVIOUS
<1>1. RefusesNobody => RefusedStep
  BY DEF RefusesNobody, RefusedStep
<1>2. ASSUME NEW h \in Hash, AskForPin(h) PROVE RefusesNobody
  BY <1>2 DEF AskForPin, RefusesNobody
<1>3. ASSUME NEW h \in Hash, NEW r \in Reader, AskForRead(r, h) PROVE RefusesNobody
  BY <1>3 DEF AskForRead, RefusesNobody, FetcherInv, TypeOK
<1>4. CASE FetchChunk
  BY <1>4, FetchChunkRefuses
<1>5. ASSUME NEW q, ChunkData(q) PROVE RefusesNobody
  <2>1. Answer(sessions[q.hash].waiters, "some")
    BY <1>5 DEF ChunkData
  <2> QED BY <2>1, AnswerType DEF RefusesNobody, FetcherInv
<1>6. ASSUME NEW q, AttemptFailed(q) PROVE RefusedStep
  BY <1>6, AttemptFailedRefuses
<1>7. ASSUME NEW r \in Reader, KeepForRead(r) PROVE RefusesNobody
  BY <1>7 DEF KeepForRead, RefusesNobody, FetcherInv, TypeOK
<1>8. CASE \/ \E q \in outstanding : LateEvent(q)
           \/ \E h \in Hash : BackoffOver(h)
           \/ PeerChange
           \/ UNCHANGED vars
  <2>1. reply' = reply
    BY <1>8 DEF LateEvent, BackoffOver, PeerChange, vars
  <2> QED BY <1>1, <2>1 DEF RefusesNobody
<1>9. CASE Next
  BY <1>1, <1>2, <1>3, <1>4, <1>5, <1>6, <1>7, <1>8, <1>9 DEF Next, Resolve
<1> QED BY <1>8, <1>9

\* A reader is refused only when every peer connected by then has been asked and can no
\* longer deliver, or at once because an earlier pin of its chunk has failed (walk_down
\* and fetch_chunk), in whatever order peers come and go and answers come in.
THEOREM RefusedAtTheEnd == Spec => RefusedLast
<1>1. FetcherInv /\ [Next]_vars => [RefusedStep]_vars
  BY NextRefuses
<1>2. [RefusedStep]_vars =>
        [\A r \in Reader : (reply[r] = "waiting" /\ reply'[r] = "none")
            => \/ wants[r] \in blocked /\ ~sessions[wants[r]].open
               \/ /\ connected \subseteq sessions[wants[r]].tried
                  /\ \A q \in requests' : q.hash # wants[r]]_vars
  BY DEF RefusedStep, AtTheEnd
<1> QED BY <1>1, <1>2, FetcherInvariant, PTL DEF Spec, RefusedLast

-----------------------------------------------------------------------------
(***************************************************************************)
(* What the fetcher and its readers do to the store is what ChunkStore     *)
(* allows (ChunkStorageProofs shows that ChunkStorage provides it).        *)
(***************************************************************************)

\* The store the fetcher works on.
AbstractStore == INSTANCE ChunkStore

StoreMay == [AbstractStore!StoreNext]_storeVars

\* Caching a chunk is a step of ChunkStore.
LEMMA CachesAllowed ==
    ASSUME NEW h \in Hash, UNCHANGED pinned,
           cached' \in CacheOutcomes(pinned, cached, h, MaxCachedBytes)
    PROVE  StoreMay
<1>1. \A S : AbstractStore!TotalBytes(S) = TotalBytes(S)
  BY Zenon DEF AbstractStore!TotalBytes, AbstractStore!BytesOf, AbstractStore!Cardinality,
               TotalBytes, BytesOf, Cardinality
<1>2. AbstractStore!Cache(h)
  BY <1>1, Zenon DEF AbstractStore!Cache, AbstractStore!CacheOutcomes, CacheOutcomes
<1> QED BY <1>2 DEF StoreMay, AbstractStore!StoreNext

\* Keeping the data of a response is one too: a pin that has no room is cached.
LEMMA KeepsAllowed ==
    ASSUME NEW h \in Hash, NEW pin, Store(h, pin)
    PROVE  StoreMay
<1>1. CASE pin /\ TotalBytes(pinned \cup {h}) <= MaxPinnedBytes
  <2>1. AbstractStore!TotalBytes(pinned \cup {h}) = TotalBytes(pinned \cup {h})
    BY Zenon DEF AbstractStore!TotalBytes, AbstractStore!BytesOf, AbstractStore!Cardinality,
                 TotalBytes, BytesOf, Cardinality
  <2>2. AbstractStore!Pin({h})
    BY <1>1, <2>1 DEF AbstractStore!Pin, Store
  <2> QED BY <2>2 DEF StoreMay, AbstractStore!StoreNext
<1>2. CASE ~(pin /\ TotalBytes(pinned \cup {h}) <= MaxPinnedBytes)
  <2>1. cached' \in CacheOutcomes(pinned, cached, h, MaxCachedBytes) /\ UNCHANGED pinned
    BY <1>2, Zenon DEF Store
  <2> QED BY <2>1, CachesAllowed
<1> QED BY <1>1, <1>2

\* Whatever order answers, failures and commands come in, the store only goes
\* through steps of ChunkStore: handle_response and the readers use it, and
\* nothing else in the fetcher touches it.
THEOREM FetcherUsesChunkStore == Spec => AbstractStore!StoreSpec
<1>1. Init => AbstractStore!StoreInit
  BY DEF Init, AbstractStore!StoreInit
<1>2. ASSUME FetcherInv, [Next]_vars PROVE StoreMay
  <2>1. ASSUME NEW q \in outstanding, ChunkData(q) PROVE StoreMay
    <3>1. q.hash \in Hash /\ Store(q.hash, sessions[q.hash].pin)
      BY <1>2, <2>1 DEF ChunkData, FetcherInv, TypeOK, Request
    <3> QED BY <3>1, KeepsAllowed
  <2>2. ASSUME NEW r \in Reader, KeepForRead(r) PROVE StoreMay
    <3>1. wants[r] \in Hash
      BY <1>2, <2>2 DEF FetcherInv, WaitersInv, WaiterInv, KeepForRead
    <3> QED BY <2>2, <3>1, CachesAllowed DEF KeepForRead
  <2>3. ASSUME UNCHANGED storeVars PROVE StoreMay
    BY <2>3 DEF StoreMay
  <2> QED
    BY <1>2, <2>1, <2>2, <2>3, Zenon
       DEF Next, Resolve, vars, storeVars, AskForPin, AskForRead, BackoffOver, FetchChunk,
           LateEvent, AttemptFailed, PeerChange
<1> QED
  BY <1>1, <1>2, FetcherInvariant, PTL
     DEF Spec, StoreMay, AbstractStore!StoreSpec, AbstractStore!storeVars, storeVars

=============================================================================
