---------------------------- MODULE Replication ----------------------------
(***************************************************************************)
(* How the peers of a cluster keep every chunk on the two peers that       *)
(* rendezvous hashing designates: ReplicationHandler of                    *)
(* src/network/handlers/replication.rs on every peer, with as much of the  *)
(* file tree, the chunk store, the chunk fetcher and the swarm as it       *)
(* depends on.                                                             *)
(*                                                                         *)
(* A chunk stands for a file with that content.  tree[p][h] counts the     *)
(* operations on it that p knows: odd if the last one made h reachable,    *)
(* even if it removed h.  The chunk fetcher appears only as what it        *)
(* promises: data from some connected peer that held the chunk when it was *)
(* asked, or a failure (ChunkFetcher models how).                          *)
(***************************************************************************)
EXTENDS Hrw, Integers

CONSTANTS
    Capacity,               \* Capacity[p]: max_pinned_bytes of p
    MaxCachedBytes,         \* MAX_CACHED_BYTES
    MaxFetchesPerRebalance, \* MAX_FETCHES_PER_REBALANCE
    InitialView,            \* InitialView[p]: the peers p starts connected to
    Writers,                \* model bound: the peers whose users change files
    Readers,                \* model bound: the peers whose users read files
    MaxVersion,             \* model bound: operations on one chunk's file
    MaxRounds,              \* model bound: probe rounds of one peer in flight
    Breakable,              \* model bound: pairs whose connection may break
    MaxFaults,              \* model bound: connections, requests and fetches lost
    MaxCrashes              \* model bound: peers that crash

ASSUME ReplicationAssumption ==
    /\ Capacity \in [Peer -> Nat]
    /\ MaxCachedBytes \in Nat
    /\ MaxFetchesPerRebalance \in Nat
    /\ InitialView \in [Peer -> SUBSET Peer]
    /\ \A p \in Peer : p \notin InitialView[p]
    /\ Writers \subseteq Peer
    /\ Readers \subseteq Peer
    /\ Breakable \subseteq Peer \X Peer
    /\ {MaxVersion, MaxRounds, MaxFaults, MaxCrashes} \subseteq Nat

VARIABLES
    alive,      \* the peers whose process runs
    view,       \* view[p]: swarm.connected_peers() at p
    tree,       \* tree[p][h]: see above
    pinned,     \* pinned[p]: hashes pinned in p's store
    cached,     \* cached[p]: hashes cached in p's store
    blocked,    \* blocked[p]: hashes whose blocked_until lies in the future
    fetch,      \* fetch[p][h]: "none", or what the fetch in progress is for
    arrived,    \* arrived[p]: hashes whose data is on its way to p
    confirmed,  \* confirmed[p][h]: confirmed_holders ({} if there is no entry)
    probes,     \* the CheckChunks requests and HeldChunks responses in flight
    faults,     \* faults so far
    crashes     \* crashes so far

swarmVars == <<alive, view, crashes>>
storeVars == <<pinned, cached>>
fetchVars == <<fetch, arrived>>
probeVars == <<confirmed, probes>>
vars == <<alive, view, crashes, tree, pinned, cached, blocked, fetch, arrived,
          confirmed, probes, faults>>

(***************************************************************************)
(* What the handlers compute from the state.  Definitions called mutants,  *)
(* here and below, are plausible mistakes: no definition uses them, and    *)
(* each would break a property if it took the place of the next one.       *)
(***************************************************************************)

\* current_members; the mutant forgets the local peer.
MembersWithoutSelf(p) == view[p]
Members(p) == view[p] \cup {p}

\* designated_holders; the mutant ranks the other peers only.
DesignatedOthers(p, h) == TopPeers(h, view[p], 2)
Designated(p, h) == TopPeers(h, Members(p), 2)

Reachable(p) == {h \in Hash : tree[p][h] % 2 = 1}       \* reachable_chunk_hashes

\* try_pin and promote_to_pinned: do the new pins fit beside the old ones?  The
\* mutant forgets the old ones.
FitsAlone(p, S) == TotalBytes(S) <= Capacity[p]
Fits(p, S) == TotalBytes(pinned[p] \cup S) <= Capacity[p]
Holders(h) == {p \in alive : h \in pinned[p]}

\* One hash of a CheckChunks request: the hashes of one batch are answered and
\* confirmed independently of each other.
Probe == [src : Peer, dst : Peer, hash : Hash, round : 1..MaxRounds,
          state : {"sent", "held", "missing"}]

Fault(yes) ==
    /\ yes => faults < MaxFaults
    /\ faults' = IF yes THEN faults + 1 ELSE faults

Init ==
    /\ alive = Peer
    /\ view = InitialView
    /\ tree = [p \in Peer |-> [h \in Hash |-> 0]]
    /\ pinned = [p \in Peer |-> {}]
    /\ cached = [p \in Peer |-> {}]
    /\ blocked = [p \in Peer |-> {}]
    /\ fetch = [p \in Peer |-> [h \in Hash |-> "none"]]
    /\ arrived = [p \in Peer |-> {}]
    /\ confirmed = [p \in Peer |-> [h \in Hash |-> {}]]
    /\ probes = {}
    /\ faults = 0
    /\ crashes = 0

-----------------------------------------------------------------------------
(***************************************************************************)
(* Users.                                                                  *)
(***************************************************************************)

\* write_file: pin the content, then record it in the tree; StorageFull
\* changes nothing.
WriteFile(p, h) ==
    LET version == IF h \in Reachable(p) THEN tree[p][h] ELSE tree[p][h] + 1 IN
    /\ p \in alive \cap Writers
    /\ version <= MaxVersion
    /\ Fits(p, {h})
    /\ pinned' = [pinned EXCEPT ![p] = @ \cup {h}]
    /\ cached' = [cached EXCEPT ![p] = @ \ {h}]
    /\ tree' = [tree EXCEPT ![p][h] = version]
    /\ UNCHANGED <<swarmVars, blocked, fetchVars, probeVars, faults>>

\* delete_file, or a write that leaves the chunk out: the tree changes, the
\* store does not.
Unlink(p, h) ==
    /\ p \in alive \cap Writers
    /\ h \in Reachable(p)
    /\ tree[p][h] < MaxVersion
    /\ tree' = [tree EXCEPT ![p][h] = @ + 1]
    /\ UNCHANGED <<swarmVars, storeVars, blocked, fetchVars, probeVars, faults>>

\* A read of a file whose chunk is missing has it fetched for the cache.
ReadFile(p, h) ==
    /\ p \in alive \cap Readers
    /\ h \in Reachable(p) \ (pinned[p] \cup cached[p])
    /\ fetch[p][h] = "none"
    /\ fetch' = [fetch EXCEPT ![p][h] = "read"]
    /\ UNCHANGED <<swarmVars, tree, storeVars, blocked, arrived, probeVars, faults>>

-----------------------------------------------------------------------------
(***************************************************************************)
(* rebalance(): promote or fetch the chunks this peer is designated for.   *)
(* Each cached one is promoted, or blocked for a while when the pins leave *)
(* no room.  Fetches are issued through the command channel until the pass *)
(* has had its share, which ends the loop wherever it stands (a HashSet    *)
(* has no order); a request that meets a full channel is dropped, which is *)
(* a fault.                                                                *)
(***************************************************************************)

\* The mutant leaves every chunk to a single peer.
WantedAlone(p, members) ==
    {h \in Reachable(p) \ (pinned[p] \cup blocked[p]) : p \in TopPeers(h, members, 1)}
Wanted(p, members) ==
    {h \in Reachable(p) \ (pinned[p] \cup blocked[p]) : p \in TopPeers(h, members, 2)}

Apply(p, promoted, refused, asked) ==
    /\ pinned' = [pinned EXCEPT ![p] = @ \cup promoted]
    /\ cached' = [cached EXCEPT ![p] = @ \ promoted]
    /\ blocked' = [blocked EXCEPT ![p] = @ \cup refused]
    /\ fetch' = [fetch EXCEPT ![p] = [h \in Hash |-> IF h \in asked THEN "pin" ELSE @[h]]]

Rebalance(p, members) ==
    LET present == Wanted(p, members) \cap cached[p]
        absent == Wanted(p, members) \ cached[p]
    IN
    \E promoted \in SUBSET present : \E refused \in SUBSET present : \E asked \in SUBSET absent :
        /\ Fits(p, promoted)
        /\ \A h \in refused : ~Fits(p, promoted \cup {h})
        /\ Cardinality(asked) <= MaxFetchesPerRebalance
        /\ \/ promoted \cup refused = present
           \/ asked # absent /\ Cardinality(asked) = MaxFetchesPerRebalance
        /\ Fault(asked # absent /\ Cardinality(asked) < MaxFetchesPerRebalance)
        /\ Apply(p, promoted, refused, asked)

\* A peer that knows no other returns at once.
RebalanceTick(p) ==
    /\ p \in alive
    /\ view[p] # {}
    /\ Rebalance(p, Members(p))
    /\ UNCHANGED <<swarmVars, tree, arrived, probeVars>>

\* CHUNK_FETCH_BACKOFF has passed since h was blocked.
BackoffOver(p, h) ==
    /\ h \in blocked[p]
    /\ blocked' = [blocked EXCEPT ![p] = @ \ {h}]
    /\ UNCHANGED <<swarmVars, tree, storeVars, fetchVars, probeVars, faults>>

-----------------------------------------------------------------------------
(***************************************************************************)
(* The swarm.                                                              *)
(***************************************************************************)

\* ConnectionEstablished at p.
Connect(p, q) ==
    /\ p \in alive
    /\ q \in alive \ Members(p)
    /\ view' = [view EXCEPT ![p] = @ \cup {q}]
    /\ Rebalance(p, Members(p) \cup {q})
    /\ UNCHANGED <<alive, crashes, tree, arrived, probeVars>>

\* ConnectionClosed at p: the requests that p still had outstanding at q fail.
Disconnect(p, q) ==
    /\ p \in alive
    /\ q \in view[p]
    /\ q \in alive => <<p, q>> \in Breakable
    /\ Fault(q \in alive)
    /\ view' = [view EXCEPT ![p] = @ \ {q}]
    /\ probes' = {m \in probes : m.src # p \/ m.dst # q}
    /\ UNCHANGED <<alive, crashes, tree, storeVars, blocked, fetchVars, confirmed>>

\* Everything a node holds is in memory, and its peer id dies with it.
Crash(p) ==
    /\ p \in alive
    /\ crashes < MaxCrashes
    /\ alive' = alive \ {p}
    /\ crashes' = crashes + 1
    /\ view' = [view EXCEPT ![p] = {}]
    /\ tree' = [tree EXCEPT ![p] = [h \in Hash |-> 0]]
    /\ pinned' = [pinned EXCEPT ![p] = {}]
    /\ cached' = [cached EXCEPT ![p] = {}]
    /\ blocked' = [blocked EXCEPT ![p] = {}]
    /\ fetch' = [fetch EXCEPT ![p] = [h \in Hash |-> "none"]]
    /\ arrived' = [arrived EXCEPT ![p] = {}]
    /\ confirmed' = [confirmed EXCEPT ![p] = [h \in Hash |-> {}]]
    /\ probes' = {m \in probes : m.src # p}
    /\ UNCHANGED faults

\* Gossip or a pull from q brings p the operations q knows.
SyncTree(p, q) ==
    /\ p \in alive
    /\ q \in alive \cap view[p]
    /\ tree' = [tree EXCEPT ![p] =
                    [h \in Hash |-> IF tree[q][h] > @[h] THEN tree[q][h] ELSE @[h]]]
    /\ UNCHANGED <<swarmVars, storeVars, blocked, fetchVars, probeVars, faults>>

-----------------------------------------------------------------------------
(***************************************************************************)
(* Fetches.                                                                *)
(***************************************************************************)

\* q answers PullChunk with the data, pinned or cached.
ServeChunk(p, q, h) ==
    /\ fetch[p][h] # "none"
    /\ h \notin arrived[p]
    /\ q \in view[p] \cap alive
    /\ h \in pinned[q] \cup cached[q]
    /\ arrived' = [arrived EXCEPT ![p] = @ \cup {h}]
    /\ UNCHANGED <<swarmVars, tree, storeVars, blocked, fetch, probeVars, faults>>

\* handle_response: keep the chunk as the fetch wants it kept.
ReceiveChunk(p, h) ==
    /\ h \in arrived[p]
    /\ arrived' = [arrived EXCEPT ![p] = @ \ {h}]
    /\ fetch' = [fetch EXCEPT ![p][h] = "none"]
    /\ IF fetch[p][h] = "pin" /\ Fits(p, {h})
       THEN /\ pinned' = [pinned EXCEPT ![p] = @ \cup {h}]
            /\ cached' = [cached EXCEPT ![p] = @ \ {h}]
       ELSE /\ \E c \in CacheOutcomes(pinned[p], cached[p], h, MaxCachedBytes) :
                    cached' = [cached EXCEPT ![p] = c]
            /\ UNCHANGED pinned
    /\ UNCHANGED <<swarmVars, tree, blocked, probeVars, faults>>

\* The walk ran out of peers: each said no, timed out or was lost.
FetchFailed(p, h) ==
    /\ fetch[p][h] # "none"
    /\ Fault(\E q \in view[p] \cap alive : h \in pinned[q] \cup cached[q])
    /\ fetch' = [fetch EXCEPT ![p][h] = "none"]
    /\ arrived' = [arrived EXCEPT ![p] = @ \ {h}]
    /\ UNCHANGED <<swarmVars, tree, storeVars, blocked, probeVars>>

-----------------------------------------------------------------------------
(***************************************************************************)
(* Eviction: a peer that is not designated asks those that are, and drops  *)
(* its pin once all of them have confirmed theirs.                         *)
(***************************************************************************)
Candidates(p) == {h \in pinned[p] \cap Reachable(p) : p \notin Designated(p, h)}

\* probe_eviction_candidates.  A round takes the lowest number that none of
\* p's outstanding requests carries.
ProbeEvictionCandidates(p) ==
    LET kept == [h \in Hash |-> IF h \in Candidates(p) THEN confirmed[p][h] ELSE {}]
        used == {m.round : m \in {m \in probes : m.src = p}}
    IN
    /\ p \in alive
    /\ \E round \in (1..MaxRounds) \ used :
        /\ 1..(round - 1) \subseteq used
        /\ probes' = probes \cup
            {m \in Probe : /\ m.src = p
                           /\ m.hash \in Candidates(p)
                           /\ m.dst \in Designated(p, m.hash) \ kept[m.hash]
                           /\ m.round = round
                           /\ m.state = "sent"}
    /\ confirmed' = [confirmed EXCEPT ![p] = kept]
    /\ UNCHANGED <<swarmVars, tree, storeVars, blocked, fetchVars, faults>>

\* CheckChunks at q: does it have the hash pinned at this moment?  The mutant
\* asks contains() instead of is_pinned().
ConfirmsCached(q, h) == h \in pinned[q] \cup cached[q]
Confirms(q, h) == h \in pinned[q]

AnswerProbe(q, m) ==
    LET answer == IF Confirms(q, m.hash) THEN "held" ELSE "missing" IN
    /\ q \in alive
    /\ m.state = "sent"
    /\ probes' = (probes \ {m}) \cup {[m EXCEPT !.state = answer]}
    /\ UNCHANGED <<swarmVars, tree, storeVars, blocked, fetchVars, confirmed, faults>>

\* evict_confirmed: the chunks whose designated peers, as p ranks them now, have
\* all confirmed.  The mutant is content with any of them.
CompletedByAny(p, holders) ==
    {h \in Reachable(p) : Designated(p, h) \cap holders[h] # {}}
Completed(p, holders) ==
    {h \in Reachable(p) : Designated(p, h) \subseteq holders[h]}

\* HeldChunks at p: remember who confirmed, then evict.
HeldChunks(p, m) ==
    LET holders == IF m.state = "held"
                   THEN [confirmed[p] EXCEPT ![m.hash] = @ \cup {m.dst}]
                   ELSE confirmed[p]
        completed == Completed(p, holders)
    IN
    /\ m.state # "sent"
    /\ probes' = probes \ {m}
    /\ confirmed' = [confirmed EXCEPT ![p] =
                        [h \in Hash |-> IF h \in completed THEN {} ELSE holders[h]]]
    /\ pinned' = [pinned EXCEPT ![p] = @ \ completed]
    /\ UNCHANGED <<swarmVars, tree, cached, blocked, fetchVars, faults>>

\* OutboundFailure at p: the request timed out or its connection closed.
ProbeFailed(p, m) ==
    /\ Fault(m.dst \in alive)
    /\ probes' = probes \ {m}
    /\ UNCHANGED <<swarmVars, tree, storeVars, blocked, fetchVars, confirmed>>

ProbeStep(m) == AnswerProbe(m.dst, m) \/ HeldChunks(m.src, m) \/ ProbeFailed(m.src, m)

-----------------------------------------------------------------------------
Next ==
    \/ \E p \in Peer : RebalanceTick(p) \/ ProbeEvictionCandidates(p) \/ Crash(p)
    \/ \E p, q \in Peer : Connect(p, q) \/ Disconnect(p, q) \/ SyncTree(p, q)
    \/ \E p \in Peer, h \in Hash :
        \/ WriteFile(p, h) \/ Unlink(p, h) \/ ReadFile(p, h) \/ BackoffOver(p, h)
        \/ ReceiveChunk(p, h) \/ FetchFailed(p, h)
        \/ \E q \in Peer : ServeChunk(p, q, h)
    \/ \E m \in probes : ProbeStep(m)

Spec == Init /\ [][Next]_vars

(***************************************************************************)
(* Ticks recur, pending requests are answered or fail, connections that    *)
(* were lost are found again, and gossip or pulls spread the tree; only    *)
(* finitely many requests are lost (MaxFaults).  Nothing makes users act,  *)
(* connections of live peers break or peers crash.                         *)
(***************************************************************************)
Fairness ==
    /\ \A p \in Peer : WF_vars(RebalanceTick(p)) /\ WF_vars(ProbeEvictionCandidates(p))
    /\ \A p, q \in Peer :
        /\ WF_vars(Connect(p, q))
        /\ WF_vars(q \notin alive /\ Disconnect(p, q))
        /\ WF_vars(SyncTree(p, q))
        /\ WF_vars(\E m \in probes : m.src = p /\ m.dst = q /\ ProbeStep(m))
    /\ \A p \in Peer, h \in Hash :
        /\ WF_vars(\E q \in Peer : ServeChunk(p, q, h))
        /\ WF_vars(ReceiveChunk(p, h))
        /\ WF_vars(FetchFailed(p, h))
        /\ WF_vars(BackoffOver(p, h))

FairSpec == Spec /\ Fairness

-----------------------------------------------------------------------------
(***************************************************************************)
(* Properties.                                                             *)
(***************************************************************************)

\* Shape of the state; a peer never counts itself among its connections.
TypeOK ==
    /\ alive \subseteq Peer
    /\ view \in [Peer -> SUBSET Peer]
    /\ \A p \in Peer : p \notin view[p]
    /\ tree \in [Peer -> [Hash -> 0..MaxVersion]]
    /\ pinned \in [Peer -> SUBSET Hash]
    /\ cached \in [Peer -> SUBSET Hash]
    /\ blocked \in [Peer -> SUBSET Hash]
    /\ fetch \in [Peer -> [Hash -> {"none", "read", "pin"}]]
    /\ arrived \in [Peer -> SUBSET Hash]
    /\ confirmed \in [Peer -> [Hash -> SUBSET Peer]]
    /\ probes \subseteq Probe
    /\ faults \in 0..MaxFaults
    /\ crashes \in 0..MaxCrashes

\* evict_confirmed drops a pin on the word of peers that may themselves have
\* dropped theirs since they answered, under another view of the membership.
\* Still, an eviction always leaves the chunk pinned on two live peers, or on
\* one once a peer has crashed.
EvictionKeepsReplicas ==
    [][\A p \in Peer, h \in Hash :
        (p \in alive' /\ h \in pinned[p] \ pinned'[p])
            => Cardinality(Holders(h)') + crashes >= 2]_vars

\* Every peer's store, seen alone, is a ChunkStore: whatever handlers interleave,
\* its pins stay within its capacity, its cache within its own budget, and a pin
\* goes away only by name.
StoreOf(p) == INSTANCE ChunkStore
    WITH pinned <- pinned[p], cached <- cached[p], MaxPinnedBytes <- Capacity[p]

StoresAreChunkStores ==
    /\ \A p \in Peer : StoreOf(p)!StoreInit
    /\ [][\A p \in Peer : [StoreOf(p)!StoreNext]_<<pinned[p], cached[p]>>]_storeVars

\* Until a peer crashes, a chunk that any peer's tree can reach is pinned on a
\* live peer, whatever views the peers have had of each other.
LiveChunksHeld ==
    crashes = 0 => \A p \in alive : \A h \in Reachable(p) : Holders(h) # {}

\* The peers that pin h, or that some peer has been told pin it.
Vouched(h) ==
    {d \in Peer : \/ d \in Holders(h)
                  \/ \E p \in Peer : d \in confirmed[p][h]
                  \/ \E m \in probes : m.dst = d /\ m.hash = h /\ m.state = "held"}

TwoOutlive(h) ==
    \A d \in Vouched(h) :
        \/ d \in Holders(h)
        \/ \E q1, q2 \in Holders(h) : q1 # q2 /\ Outranks(h, q1, d) /\ Outranks(h, q2, d)

OneOutlives(h) ==
    \A d1, d2 \in Vouched(h) :
        d1 # d2 => \E q \in Holders(h) :
                        q \in {d1, d2} \/ Outranks(h, q, d1) \/ Outranks(h, q, d2)

\* Why evictions are safe although confirmations go stale: a peer that was
\* vouched for and has dropped the chunk since did so for two better ranked
\* peers, and two better ranked peers still pin it.  After a crash, of any two
\* vouched peers one still pins it or is outranked by one that does.  No peer
\* ever probes itself or counts as its own confirmation.
VouchedCovered ==
    /\ \A p \in Peer, h \in Hash : p \notin confirmed[p][h]
    /\ \A m \in probes : m.dst # m.src
    /\ crashes = 0 => \A h \in Hash : TwoOutlive(h)
    /\ crashes = 1 => \A h \in Hash : OneOutlives(h)

\* README, line 29, "Every chunk is held by exactly two peers": over and over,
\* a chunk that every live peer can reach, and that no crash has destroyed, is
\* pinned on the two peers that rendezvous hashing picks among the live ones,
\* if their pins have room for it, and nowhere else, whatever becomes of chunks
\* that they have no room for.  (A rewrite pins it on the writer until the next
\* eviction.)
TwoHoldersRecur ==
    \A h \in Hash :
        []<>((/\ Holders(h) # {}
              /\ \A p \in alive : h \in Reachable(p)
              /\ \A p \in TopPeers(h, alive, 2) : Fits(p, {h}))
                => Holders(h) = TopPeers(h, alive, 2))

===========================================================================
