------------------------- MODULE ReplicationProofs -------------------------
(***************************************************************************)
(* Proofs about Replication for every cluster, every ranking and every     *)
(* value of the bounds.                                                    *)
(***************************************************************************)
EXTENDS Replication, FiniteSetTheorems, WellFoundedInduction, TLAPS

-----------------------------------------------------------------------------
(***************************************************************************)
(* The ranking of Hrw: it is a strict total order, top_peers() takes its   *)
(* first members, and few of them change when the members do.              *)
(***************************************************************************)

\* No peer precedes itself in sort_by's order.
LEMMA OutranksIrreflexive ==
    ASSUME NEW h \in Hash, NEW p \in Peer
    PROVE  ~Outranks(h, p, p)
BY HrwAssumption, SMT DEF Outranks

\* sort_by's order is transitive.
LEMMA OutranksTransitive ==
    ASSUME NEW h \in Hash, NEW p \in Peer, NEW q \in Peer, NEW r \in Peer,
           Outranks(h, p, q), Outranks(h, q, r)
    PROVE  Outranks(h, p, r)
BY HrwAssumption, SMT DEF Outranks

\* Equal scores are told apart by the peers' bytes, so the order is total.
LEMMA OutranksTotal ==
    ASSUME NEW h \in Hash, NEW p \in Peer, NEW q \in Peer, p # q
    PROVE  Outranks(h, p, q) \/ Outranks(h, q, p)
<1>1. Score[h][p] \in Nat /\ Score[h][q] \in Nat
  BY HrwAssumption
<1>2. PeerBytes[p] \in Nat /\ PeerBytes[q] \in Nat /\ PeerBytes[p] # PeerBytes[q]
  BY HrwAssumption
<1> QED BY <1>1, <1>2 DEF Outranks

\* Every non-empty set of peers has a first one.
LEMMA FirstPeer ==
    ASSUME NEW h \in Hash, NEW S \in SUBSET Peer, S # {}
    PROVE  \E m \in S : \A q \in S : ~Outranks(h, q, m)
<1> DEFINE Above(x) == {q \in S : Outranks(h, q, x)}
           T == {Above(x) : x \in S}
<1>1. IsFiniteSet(S)
  BY HrwAssumption, FS_Subset
<1>2. IsWellFoundedOn(StrictSubsetOrdering(S), SUBSET S)
  BY <1>1, FS_StrictSubsetOrderingWellFounded, FS_FiniteSubsetsOfFinite
<1>3. T \subseteq SUBSET S /\ T # {}
  OBVIOUS
<1>4. PICK A \in T : \A B \in T : <<B, A>> \notin StrictSubsetOrdering(S)
  <2> HIDE DEF T
  <2> QED BY <1>2, <1>3, WFMin
<1>5. PICK m \in S : A = Above(m)
  BY <1>4
<1>6. ASSUME NEW q \in S, Outranks(h, q, m)
      PROVE  FALSE
  <2>1. Above(q) \subseteq Above(m)
    BY <1>6, OutranksTransitive
  <2>2. q \in Above(m) /\ q \notin Above(q)
    BY <1>6, OutranksIrreflexive
  <2>3. <<Above(q), A>> \in StrictSubsetOrdering(S)
    BY <1>5, <2>1, <2>2 DEF StrictSubsetOrdering
  <2> QED BY <1>4, <2>3
<1> QED BY <1>6

\* A set of numbers has a least one.
LEMMA LeastNumber ==
    ASSUME NEW T \in SUBSET Nat, T # {}
    PROVE  \E m \in T : \A k \in T : m <= k
<1> DEFINE I == {1..n : n \in T}
<1>1. \A n \in Nat : 1..n \in FiniteSubsetsOf(Nat)
  BY FS_Interval DEF FiniteSubsetsOf
<1>2. I \subseteq FiniteSubsetsOf(Nat) /\ I # {}
  BY <1>1
<1>3. \E x \in I : \A y \in I : ~(<<y, x>> \in StrictSubsetOrdering(Nat))
  BY <1>2, WFMin, FS_StrictSubsetOrderingWellFounded, Zenon
<1>4. PICK m \in T : \A k \in T : ~(<<1..k, 1..m>> \in StrictSubsetOrdering(Nat))
  BY <1>3
<1>5. ASSUME NEW k \in T, k < m PROVE FALSE
  <2>1. 1..k \subseteq 1..m /\ m \in 1..m /\ m \notin 1..k
    BY <1>5
  <2>2. <<1..k, 1..m>> \in (SUBSET Nat) \X (SUBSET Nat)
    OBVIOUS
  <2>3. <<1..k, 1..m>> \in StrictSubsetOrdering(Nat)
    BY <2>1, <2>2, Zenon DEF StrictSubsetOrdering
  <2> QED BY <1>4, <2>3
<1> QED BY <1>5

\* The members that sort_by puts before x.
Above(h, M, x) == {q \in M : Outranks(h, q, x)}

\* They are finitely many, and those before a member before x are fewer.
LEMMA AboveIs ==
    ASSUME NEW h \in Hash, NEW M \in SUBSET Peer, NEW x \in Peer
    PROVE  /\ IsFiniteSet(Above(h, M, x)) /\ Cardinality(Above(h, M, x)) \in Nat
           /\ IsFiniteSet(M) /\ Cardinality(M) \in Nat
           /\ x \in M => Cardinality(Above(h, M, x)) < Cardinality(M)
           /\ \A y \in Peer : Outranks(h, y, x) =>
                  Cardinality(Above(h, M, y)) <= Cardinality(Above(h, M, x))
<1>1. IsFiniteSet(M) /\ Above(h, M, x) \subseteq M
  BY HrwAssumption, FS_Subset DEF Above
<1>2. IsFiniteSet(Above(h, M, x)) /\ Cardinality(Above(h, M, x)) \in Nat /\ Cardinality(M) \in Nat
  BY <1>1, FS_Subset, FS_CardinalityType
<1>3. ASSUME x \in M PROVE Cardinality(Above(h, M, x)) < Cardinality(M)
  <2>1. x \notin Above(h, M, x)
    BY OutranksIrreflexive DEF Above
  <2>2. Cardinality(Above(h, M, x)) <= Cardinality(M) /\
        (Cardinality(Above(h, M, x)) = Cardinality(M) => Above(h, M, x) = M)
    BY <1>1, FS_Subset
  <2> QED BY <1>2, <1>3, <2>1, <2>2
<1>4. ASSUME NEW y \in Peer, Outranks(h, y, x)
      PROVE  Cardinality(Above(h, M, y)) <= Cardinality(Above(h, M, x))
  <2>1. Above(h, M, y) \subseteq Above(h, M, x)
    BY <1>4, OutranksTransitive DEF Above
  <2> QED BY <1>2, <2>1, FS_Subset
<1> QED BY <1>1, <1>2, <1>3, <1>4

\* With one more place there is one more peer, as long as there are peers.
LEMMA OneMore ==
    ASSUME NEW h \in Hash, NEW M \in SUBSET Peer, NEW k \in Nat,
           Cardinality(TopPeers(h, M, k)) = k, k < Cardinality(M)
    PROVE  Cardinality(TopPeers(h, M, k + 1)) = k + 1
<1> DEFINE top == TopPeers(h, M, k)
           rest == M \ top
<1>1. top \subseteq M /\ IsFiniteSet(M) /\ IsFiniteSet(top) /\ Cardinality(M) \in Nat
  BY HrwAssumption, FS_Subset, FS_CardinalityType DEF TopPeers
<1>2. \A p \in M : p \in top <=> Cardinality(Above(h, M, p)) < k
  BY DEF TopPeers, Above
<1>3. rest # {}
  BY <1>1
<1>4. PICK f \in rest : \A q \in rest : ~Outranks(h, q, f)
  <2> HIDE DEF rest
  <2>1. rest \in SUBSET Peer
    BY DEF rest
  <2> QED BY <1>3, <2>1, FirstPeer
<1>5. \A p \in top, q \in rest : Outranks(h, p, q)
  <2> SUFFICES ASSUME NEW p \in top, NEW q \in rest, ~Outranks(h, p, q) PROVE FALSE
    OBVIOUS
  <2>1. Outranks(h, q, p)
    BY <1>1, OutranksTotal
  <2>2. Cardinality(Above(h, M, q)) <= Cardinality(Above(h, M, p))
    BY <1>1, <2>1, AboveIs
  <2>3. Cardinality(Above(h, M, q)) \in Nat /\ Cardinality(Above(h, M, p)) \in Nat
    BY <1>1, AboveIs
  <2> QED BY <1>1, <1>2, <2>2, <2>3
<1>6. Above(h, M, f) = top
  BY <1>1, <1>4, <1>5 DEF Above
<1>7. ASSUME NEW x \in rest, x # f PROVE ~(Cardinality(Above(h, M, x)) < k + 1)
  <2>1. Outranks(h, f, x)
    BY <1>4, <1>7, OutranksTotal
  <2>2. top \cup {f} \subseteq Above(h, M, x)
    BY <1>1, <1>5, <2>1 DEF Above
  <2>3. Cardinality(top \cup {f}) = k + 1
    BY <1>1, FS_AddElement
  <2>4. Cardinality(top \cup {f}) <= Cardinality(Above(h, M, x))
    BY <2>2, AboveIs, FS_Subset
  <2> QED BY <2>3, <2>4, AboveIs
<1>8. TopPeers(h, M, k + 1) = top \cup {f}
  <2>1. ASSUME NEW p \in M PROVE Cardinality(Above(h, M, p)) < k + 1 <=> p \in top \cup {f}
    <3>1. CASE p \in top
      <4>1. Cardinality(Above(h, M, p)) < k /\ Cardinality(Above(h, M, p)) \in Nat
        BY <1>2, <3>1, AboveIs
      <4> QED BY <3>1, <4>1
    <3>2. CASE p = f
      <4> HIDE DEF top
      <4> QED BY <1>6, <3>2 DEF top
    <3>3. CASE p \in rest /\ p # f
      BY <1>7, <3>3
    <3> QED BY <3>1, <3>2, <3>3
  <2>2. TopPeers(h, M, k + 1) = {p \in M : Cardinality(Above(h, M, p)) < k + 1}
    BY DEF TopPeers, Above
  <2> HIDE DEF top
  <2> QED BY <1>1, <1>4, <2>1, <2>2
<1> QED BY <1>1, <1>8, FS_AddElement

\* top_peers() is what its sort and its take(n) say, also where scores are equal: of
\* n members or more it has n, of fewer it has all, and each of them is ranked
\* before every member that is left out.
THEOREM TopPeersAreFirst ==
    ASSUME NEW h \in Hash, NEW M \in SUBSET Peer, NEW n \in Nat
    PROVE  /\ Cardinality(TopPeers(h, M, n)) = IF n <= Cardinality(M) THEN n ELSE Cardinality(M)
           /\ \A p \in TopPeers(h, M, n), q \in M \ TopPeers(h, M, n) : Outranks(h, p, q)
<1> DEFINE Count(k) == Cardinality(TopPeers(h, M, k))
           T == {k \in Nat : k <= Cardinality(M) /\ Count(k) # k}
<1>1. \A k : \A p \in M : p \in TopPeers(h, M, k) <=> Cardinality(Above(h, M, p)) < k
  BY DEF TopPeers, Above
<1>2. \A k : TopPeers(h, M, k) \subseteq M
  BY DEF TopPeers
<1>3. T = {}
  <2> SUFFICES ASSUME T # {} PROVE FALSE
    OBVIOUS
  <2>1. PICK m \in T : \A k \in T : m <= k
    <3>1. T \in SUBSET Nat
      OBVIOUS
    <3> HIDE DEF T
    <3> QED BY <3>1, LeastNumber
  <2>2. m # 0
    <3>1. \A p \in M : ~(Cardinality(Above(h, M, p)) < 0)
      <4> SUFFICES ASSUME NEW p \in M PROVE ~(Cardinality(Above(h, M, p)) < 0)
        OBVIOUS
      <4>1. Cardinality(Above(h, M, p)) \in Nat
        BY AboveIs
      <4> QED BY <4>1
    <3>2. TopPeers(h, M, 0) = {}
      BY <1>1, <1>2, <3>1
    <3> QED BY <3>2, FS_EmptySet
  <2>3. m - 1 \in Nat /\ m - 1 \notin T /\ m - 1 < Cardinality(M)
    BY <2>1, <2>2, HrwAssumption, FS_Subset, FS_CardinalityType
  <2>4. Count(m - 1) = m - 1
    BY <2>3, HrwAssumption, FS_Subset, FS_CardinalityType
  <2>5. Count(m - 1 + 1) = m - 1 + 1
    BY <2>3, <2>4, OneMore
  <2> QED BY <2>1, <2>5
<1>4. ASSUME n <= Cardinality(M) PROVE Cardinality(TopPeers(h, M, n)) = n
  BY <1>3, <1>4
<1>5. ASSUME ~(n <= Cardinality(M)) PROVE TopPeers(h, M, n) = M
  <2>1. ASSUME NEW p \in M PROVE Cardinality(Above(h, M, p)) < n
    <3>1. /\ Cardinality(Above(h, M, p)) \in Nat /\ Cardinality(M) \in Nat
          /\ Cardinality(Above(h, M, p)) < Cardinality(M)
      BY AboveIs
    <3> QED BY <1>5, <3>1
  <2> QED BY <1>1, <1>2, <2>1
<1>6. ASSUME NEW p \in TopPeers(h, M, n), NEW q \in M \ TopPeers(h, M, n)
      PROVE  Outranks(h, p, q)
  <2> SUFFICES ASSUME ~Outranks(h, p, q) PROVE FALSE
    OBVIOUS
  <2>1. p \in M /\ p # q
    BY <1>2
  <2>2. Outranks(h, q, p)
    BY <2>1, OutranksTotal
  <2>3. Cardinality(Above(h, M, q)) <= Cardinality(Above(h, M, p))
    BY <2>1, <2>2, AboveIs
  <2>4. Cardinality(Above(h, M, q)) \in Nat /\ Cardinality(Above(h, M, p)) \in Nat
    BY <2>1, AboveIs
  <2> QED BY <1>1, <2>1, <2>3, <2>4
<1> QED BY <1>3, <1>4, <1>5, <1>6

\* Why rendezvous hashing moves little data: a peer that joins takes at most one
\* place, no other peer becomes designated for it; so a peer that leaves
\* gives its place to one peer, and all others keep theirs.
THEOREM NewcomerTakesOnePlace ==
    ASSUME NEW h \in Hash, NEW M \in SUBSET Peer, NEW q \in Peer \ M, NEW n \in Nat
    PROVE  LET before == TopPeers(h, M, n)
               after == TopPeers(h, M \cup {q}, n)
           IN  /\ after \subseteq before \cup {q}
               /\ q \notin after => after = before
               /\ Cardinality(before \ after) <= 1
<1> DEFINE before == TopPeers(h, M, n)
           after == TopPeers(h, M \cup {q}, n)
           N == M \cup {q}
<1>1. M \subseteq N /\ N \in SUBSET Peer /\ IsFiniteSet(N) /\ IsFiniteSet(M)
  BY HrwAssumption, FS_Subset
<1>2. before \subseteq M /\ after \subseteq N /\ IsFiniteSet(before) /\ IsFiniteSet(after)
  <2>1. before \subseteq M /\ after \subseteq N
    BY DEF TopPeers
  <2> QED BY <1>1, <2>1, FS_Subset
<1>3. after \subseteq before \cup {q}
  <2> SUFFICES ASSUME NEW p \in after, p # q PROVE p \in before
    OBVIOUS
  <2>1. p \in M /\ Cardinality(Above(h, N, p)) < n
    BY DEF TopPeers, Above
  <2>2. Above(h, M, p) \subseteq Above(h, N, p)
    BY DEF Above
  <2>3. Cardinality(Above(h, M, p)) <= Cardinality(Above(h, N, p))
    BY <1>1, <2>1, <2>2, AboveIs, FS_Subset
  <2>4. Cardinality(Above(h, M, p)) \in Nat /\ Cardinality(Above(h, N, p)) \in Nat
    BY <1>1, <2>1, AboveIs
  <2>5. Cardinality(Above(h, M, p)) < n
    BY <2>1, <2>3, <2>4
  <2> QED BY <2>1, <2>5 DEF TopPeers, Above
<1>4. Cardinality(before) <= Cardinality(after)
  <2>1. Cardinality(M) <= Cardinality(N) /\ Cardinality(M) \in Nat /\ Cardinality(N) \in Nat
    BY <1>1, FS_Subset, FS_CardinalityType
  <2>2. Cardinality(before) = IF n <= Cardinality(M) THEN n ELSE Cardinality(M)
    BY TopPeersAreFirst
  <2>3. Cardinality(after) = IF n <= Cardinality(N) THEN n ELSE Cardinality(N)
    BY <1>1, TopPeersAreFirst
  <2> QED BY <2>1, <2>2, <2>3
<1> HIDE DEF before, after, N
<1>5. ASSUME q \notin after PROVE after = before
  <2>1. after \subseteq before
    BY <1>3, <1>5
  <2> QED BY <1>2, <1>4, <2>1, FS_Subset, FS_CardinalityType
<1>6. Cardinality(before \ after) <= 1
  <2> DEFINE kept == before \cap after
  <2>1. IsFiniteSet(kept) /\ IsFiniteSet(before \ after) /\ IsFiniteSet(kept \cup {q})
    BY <1>2, FS_Subset, FS_AddElement
  <2>2. Cardinality(after) <= Cardinality(kept) + 1
    <3>1. after \subseteq kept \cup {q}
      BY <1>3
    <3>2. Cardinality(kept \cup {q}) <= Cardinality(kept) + 1 /\ Cardinality(kept) \in Nat
      BY <2>1, FS_AddElement, FS_CardinalityType
    <3>3. Cardinality(after) <= Cardinality(kept \cup {q})
      BY <2>1, <3>1, FS_Subset
    <3>4. Cardinality(after) \in Nat /\ Cardinality(kept \cup {q}) \in Nat
      BY <1>2, <2>1, FS_CardinalityType
    <3> HIDE DEF kept
    <3> QED BY <3>2, <3>3, <3>4
  <2>3. Cardinality(before \ after) = Cardinality(before) - Cardinality(kept)
    BY <1>2, FS_Difference
  <2>4. /\ Cardinality(before) \in Nat /\ Cardinality(after) \in Nat
        /\ Cardinality(kept) \in Nat
    BY <1>2, <2>1, FS_CardinalityType
  <2> HIDE DEF kept
  <2> QED BY <1>4, <2>2, <2>3, <2>4
<1> QED BY <1>3, <1>5, <1>6 DEF before, after

\* designated_holders of a peer that is not among them: two distinct members,
\* both ranked above the peer.
THEOREM DesignatedOutrank ==
    ASSUME NEW h \in Hash, NEW M \in SUBSET Peer, NEW p \in M,
           p \notin TopPeers(h, M, 2)
    PROVE  \E d1, d2 \in TopPeers(h, M, 2) :
                d1 # d2 /\ Outranks(h, d1, p) /\ Outranks(h, d2, p)
<1> DEFINE U(x) == {q \in M : Outranks(h, q, x)}
<1>0. \A x \in M : IsFiniteSet(U(x)) /\ Cardinality(U(x)) \in Nat
  BY HrwAssumption, FS_Subset, FS_CardinalityType
<1>1. ~(Cardinality(U(p)) < 2)
  BY DEF TopPeers
<1>2. U(p) # {}
  BY <1>1, FS_EmptySet
<1>3. PICK d1 \in U(p) : \A q \in U(p) : ~Outranks(h, q, d1)
  BY <1>2, FirstPeer
<1>4. U(p) \ {d1} # {}
  <2>1. SUFFICES ASSUME U(p) = {d1} PROVE FALSE
    BY <1>3
  <2>2. Cardinality({d1}) = 1
    BY FS_Singleton
  <2> HIDE DEF U
  <2> QED BY <1>1, <2>1, <2>2
<1>5. PICK d2 \in U(p) \ {d1} : \A q \in U(p) \ {d1} : ~Outranks(h, q, d2)
  BY <1>4, FirstPeer
<1>6. U(d1) = {}
  BY <1>3, OutranksTransitive
<1>7. U(d2) \subseteq {d1}
  BY <1>5, OutranksTransitive
<1>8. Cardinality(U(d1)) < 2
  BY <1>6, FS_EmptySet
<1>9. Cardinality(U(d2)) < 2
  <2>1. IsFiniteSet({d1}) /\ Cardinality({d1}) = 1
    BY FS_Singleton
  <2>2. Cardinality(U(d2)) <= Cardinality({d1})
    BY <1>7, <2>1, FS_Subset
  <2>3. Cardinality(U(d2)) \in Nat
    BY <1>0, <1>5
  <2> HIDE DEF U
  <2> QED BY <2>1, <2>2, <2>3
<1>10. d1 \in TopPeers(h, M, 2) /\ d2 \in TopPeers(h, M, 2)
  BY <1>8, <1>9 DEF TopPeers
<1> QED BY <1>10, <1>3, <1>5

-----------------------------------------------------------------------------
(***************************************************************************)
(* Replication keeps its shape.                                            *)
(***************************************************************************)

\* cache() leaves a set of hashes behind.
LEMMA CacheType ==
    ASSUME NEW P \in SUBSET Hash, NEW C \in SUBSET Hash, NEW h \in Hash, NEW b \in Nat,
           NEW k \in CacheOutcomes(P, C, h, b)
    PROVE  k \in SUBSET Hash
BY Zenon DEF CacheOutcomes

\* What a rebalance() leaves in the store, the backoffs and the fetches.
LEMMA RebalanceType ==
    ASSUME TypeOK, NEW p \in Peer, NEW M, Rebalance(p, M)
    PROVE  /\ pinned' \in [Peer -> SUBSET Hash]
           /\ cached' \in [Peer -> SUBSET Hash]
           /\ blocked' \in [Peer -> SUBSET Hash]
           /\ fetch' \in [Peer -> [Hash -> {"none", "read", "pin"}]]
           /\ faults' \in 0..MaxFaults
           /\ \A q \in Peer : pinned[q] \subseteq pinned'[q]
<1>1. PICK promoted \in SUBSET Wanted(p, M), refused \in SUBSET Wanted(p, M),
           asked \in SUBSET Wanted(p, M), lost \in BOOLEAN :
        Fault(lost) /\ Apply(p, promoted, refused, asked)
  BY DEF Rebalance
<1>2. Wanted(p, M) \subseteq Hash
  BY DEF Wanted, Reachable
<1>3. faults' \in 0..MaxFaults
  BY <1>1, ReplicationAssumption DEF Fault, TypeOK
<1> QED BY <1>1, <1>2, <1>3 DEF Apply, TypeOK

\* Every step of every peer keeps the shape of the state.
LEMMA TypeStep ==
    ASSUME TypeOK, [Next]_vars
    PROVE  TypeOK'
<1> USE ReplicationAssumption
<1>1. ASSUME NEW p \in Peer, NEW h \in Hash, WriteFile(p, h)
      PROVE  TypeOK'
  <2>1. tree[p][h] \in 0..MaxVersion
    BY DEF TypeOK
  <2> QED BY <1>1, <2>1 DEF WriteFile, TypeOK, swarmVars, fetchVars, probeVars
<1>2. ASSUME NEW p \in Peer, NEW h \in Hash, Unlink(p, h)
      PROVE  TypeOK'
  <2>1. tree[p][h] \in 0..MaxVersion
    BY DEF TypeOK
  <2> QED BY <1>2, <2>1 DEF Unlink, TypeOK, swarmVars, storeVars, fetchVars, probeVars
<1>3. ASSUME NEW p \in Peer, NEW h \in Hash, ReadFile(p, h)
      PROVE  TypeOK'
  BY <1>3 DEF ReadFile, TypeOK, swarmVars, storeVars, fetchVars, probeVars
<1>4. ASSUME NEW p \in Peer, RebalanceTick(p)
      PROVE  TypeOK'
  BY <1>4, RebalanceType DEF RebalanceTick, TypeOK, swarmVars, probeVars
<1>5. ASSUME NEW p \in Peer, NEW h \in Hash, BackoffOver(p, h)
      PROVE  TypeOK'
  BY <1>5 DEF BackoffOver, TypeOK, swarmVars, storeVars, fetchVars, probeVars
<1>6. ASSUME NEW p \in Peer, NEW q \in Peer, Connect(p, q)
      PROVE  TypeOK'
  BY <1>6, RebalanceType DEF Connect, Members, TypeOK, probeVars
<1>7. ASSUME NEW p \in Peer, NEW q \in Peer, Disconnect(p, q)
      PROVE  TypeOK'
  <2>1. faults' \in 0..MaxFaults
    BY <1>7 DEF Disconnect, Fault, TypeOK
  <2> QED BY <1>7, <2>1 DEF Disconnect, TypeOK, storeVars, fetchVars
<1>8. ASSUME NEW p \in Peer, Crash(p)
      PROVE  TypeOK'
  <2>1. crashes' \in 0..MaxCrashes
    BY <1>8 DEF Crash, TypeOK
  <2>2. tree' \in [Peer -> [Hash -> 0..MaxVersion]]
    BY <1>8 DEF Crash, TypeOK
  <2> QED BY <1>8, <2>1, <2>2 DEF Crash, TypeOK
<1>9. ASSUME NEW p \in Peer, NEW q \in Peer, SyncTree(p, q)
      PROVE  TypeOK'
  BY <1>9 DEF SyncTree, TypeOK, swarmVars, storeVars, fetchVars, probeVars
<1>10. ASSUME NEW p \in Peer, NEW q \in Peer, NEW h \in Hash, ServeChunk(p, q, h)
       PROVE  TypeOK'
  BY <1>10 DEF ServeChunk, TypeOK, swarmVars, storeVars, probeVars
<1>11. ASSUME NEW p \in Peer, NEW h \in Hash, ReceiveChunk(p, h)
       PROVE  TypeOK'
  <2>1. pinned' \in [Peer -> SUBSET Hash] /\ cached' \in [Peer -> SUBSET Hash]
    <3>1. CASE fetch[p][h] = "pin" /\ Fits(p, {h})
      <4>1. /\ pinned' = [pinned EXCEPT ![p] = @ \cup {h}]
            /\ cached' = [cached EXCEPT ![p] = @ \ {h}]
        BY <1>11, <3>1, Zenon DEF ReceiveChunk
      <4> QED BY <4>1 DEF TypeOK
    <3>2. CASE ~(fetch[p][h] = "pin" /\ Fits(p, {h}))
      <4>1. PICK c \in CacheOutcomes(pinned[p], cached[p], h, MaxCachedBytes) :
                cached' = [cached EXCEPT ![p] = c] /\ pinned' = pinned
        BY <1>11, <3>2 DEF ReceiveChunk
      <4>2. c \in SUBSET Hash
        BY CacheType DEF TypeOK
      <4> QED BY <4>1, <4>2 DEF TypeOK
    <3> QED BY <3>1, <3>2
  <2> QED BY <1>11, <2>1 DEF ReceiveChunk, TypeOK, swarmVars, probeVars
<1>12. ASSUME NEW p \in Peer, NEW h \in Hash, FetchFailed(p, h)
       PROVE  TypeOK'
  <2>1. faults' \in 0..MaxFaults
    BY <1>12 DEF FetchFailed, Fault, TypeOK
  <2> QED BY <1>12, <2>1 DEF FetchFailed, TypeOK, swarmVars, storeVars, probeVars
<1>13. ASSUME NEW p \in Peer, ProbeEvictionCandidates(p)
       PROVE  TypeOK'
  <2>1. probes' \subseteq Probe
    BY <1>13, Zenon DEF ProbeEvictionCandidates, TypeOK
  <2>2. confirmed' \in [Peer -> [Hash -> SUBSET Peer]]
    BY <1>13 DEF ProbeEvictionCandidates, TypeOK
  <2> QED BY <1>13, <2>1, <2>2
        DEF ProbeEvictionCandidates, TypeOK, swarmVars, storeVars, fetchVars
<1>14. ASSUME NEW m \in probes, AnswerProbe(m.dst, m)
       PROVE  TypeOK'
  <2>1. probes' \subseteq Probe
    BY <1>14 DEF AnswerProbe, TypeOK, Probe
  <2> QED BY <1>14, <2>1 DEF AnswerProbe, TypeOK, swarmVars, storeVars, fetchVars
<1>15. ASSUME NEW m \in probes, HeldChunks(m.src, m)
       PROVE  TypeOK'
  <2>1. m.src \in Peer /\ m.dst \in Peer /\ m.hash \in Hash
    BY DEF TypeOK, Probe
  <2>2. confirmed' \in [Peer -> [Hash -> SUBSET Peer]]
    BY <1>15, <2>1 DEF HeldChunks, TypeOK
  <2> QED BY <1>15, <2>1, <2>2 DEF HeldChunks, TypeOK, swarmVars, fetchVars
<1>16. ASSUME NEW m \in probes, ProbeFailed(m.src, m)
       PROVE  TypeOK'
  <2>1. faults' \in 0..MaxFaults
    BY <1>16 DEF ProbeFailed, Fault, TypeOK
  <2> QED BY <1>16, <2>1 DEF ProbeFailed, TypeOK, swarmVars, storeVars, fetchVars
<1>17. CASE UNCHANGED vars
  BY <1>17 DEF TypeOK, vars
<1> QED
  BY <1>1, <1>2, <1>3, <1>4, <1>5, <1>6, <1>7, <1>8, <1>9, <1>10, <1>11, <1>12, <1>13,
     <1>14, <1>15, <1>16, <1>17 DEF Next, ProbeStep

\* The state always has the shape TypeOK gives it, in every cluster.
THEOREM TypeCorrect == Spec => []TypeOK
<1>1. Init => TypeOK
  BY ReplicationAssumption DEF Init, TypeOK
<1> QED BY <1>1, TypeStep, PTL DEF Spec

-----------------------------------------------------------------------------
(***************************************************************************)
(* Eviction is safe.  VouchedCovered is the inductive invariant: without   *)
(* it a stale confirmation says nothing about who pins the chunk now.      *)
(***************************************************************************)

\* A step that drops no pin, and vouches only for peers that pin the chunk,
\* keeps the chunk's vouched peers covered.
LEMMA GrowthStep ==
    ASSUME TypeOK, VouchedCovered,
           alive' = alive, crashes' = crashes,
           \A q \in Peer : pinned[q] \subseteq pinned'[q],
           \A q \in Peer, h \in Hash : confirmed'[q][h] \subseteq confirmed[q][h],
           \A m \in probes' : /\ m.dst # m.src
                              /\ m.state = "held" => m \in probes \/ m.dst \in Holders(m.hash)
    PROVE  VouchedCovered'
<1>1. \A h \in Hash : Holders(h) \subseteq Holders(h)'
  BY DEF Holders, TypeOK
<1>2. \A h \in Hash : Vouched(h)' \subseteq Vouched(h) \cup Holders(h)'
  BY <1>1 DEF Vouched
<1>3. \A h \in Hash : TwoOutlive(h) => TwoOutlive(h)'
  BY <1>1, <1>2 DEF TwoOutlive
<1>4. \A h \in Hash : OneOutlives(h) => OneOutlives(h)'
  BY <1>1, <1>2 DEF OneOutlives
<1> QED BY <1>3, <1>4 DEF VouchedCovered

\* Two vouched peers that outrank p leave it two better ranked holders, or one
\* after a crash.
LEMMA BetterHolders ==
    ASSUME TypeOK, VouchedCovered, NEW h \in Hash, NEW p \in Peer,
           NEW e1 \in Vouched(h), NEW e2 \in Vouched(h), e1 # e2,
           Outranks(h, e1, p), Outranks(h, e2, p)
    PROVE  /\ crashes = 0 => \E r1, r2 \in Holders(h) :
                                r1 # r2 /\ Outranks(h, r1, p) /\ Outranks(h, r2, p)
           /\ crashes = 1 => \E r \in Holders(h) : Outranks(h, r, p)
<1>1. Vouched(h) \subseteq Peer /\ Holders(h) \subseteq Peer
  BY DEF Vouched, Holders, TypeOK, Probe
<1>2. \A q \in Holders(h) : \A e \in {e1, e2} : Outranks(h, q, e) => Outranks(h, q, p)
  BY <1>1, OutranksTransitive
<1>3. CASE crashes = 0
  <2>1. CASE e1 \in Holders(h) /\ e2 \in Holders(h)
    BY <1>3, <2>1
  <2>2. CASE ~(e1 \in Holders(h) /\ e2 \in Holders(h))
    <3>1. PICK e \in {e1, e2} : e \notin Holders(h)
      BY <2>2
    <3>2. PICK r1 \in Holders(h), r2 \in Holders(h) :
                r1 # r2 /\ Outranks(h, r1, e) /\ Outranks(h, r2, e)
      BY <1>3, <3>1 DEF VouchedCovered, TwoOutlive
    <3> QED BY <1>2, <1>3, <3>2
  <2> QED BY <2>1, <2>2
<1>4. CASE crashes = 1
  <2>1. PICK r \in Holders(h) : r \in {e1, e2} \/ Outranks(h, r, e1) \/ Outranks(h, r, e2)
    BY <1>4 DEF VouchedCovered, OneOutlives
  <2> QED BY <1>2, <1>4, <2>1
<1> QED BY <1>3, <1>4

\* evict_confirmed at p: whoever p vouches for was vouched for already, and a
\* chunk it drops is pinned on two better ranked peers (one after a crash).
LEMMA EvictStep ==
    ASSUME TypeOK, VouchedCovered, NEW m \in probes, HeldChunks(m.src, m), NEW h \in Hash
    PROVE  /\ Vouched(h)' \subseteq Vouched(h)
           /\ m.src \notin confirmed'[m.src][h]
           /\ Holders(h)' = Holders(h) \/ Holders(h)' = Holders(h) \ {m.src}
           /\ Holders(h)' # Holders(h) =>
                /\ crashes = 0 => \E r1, r2 \in Holders(h)' :
                        r1 # r2 /\ Outranks(h, r1, m.src) /\ Outranks(h, r2, m.src)
                /\ crashes = 1 => \E r \in Holders(h)' : Outranks(h, r, m.src)
<1> DEFINE p == m.src
           known == IF m.state = "held"
                    THEN [confirmed[p] EXCEPT ![m.hash] = @ \cup {m.dst}]
                    ELSE confirmed[p]
           done == Completed(p, known)
<1>1. m \in Probe /\ p \in Peer /\ m.dst \in Peer /\ m.hash \in Hash /\ m.dst # p
  BY DEF TypeOK, Probe, VouchedCovered
<1>2. /\ probes' = probes \ {m}
      /\ confirmed' = [confirmed EXCEPT ![p] =
                        [x \in Hash |-> IF x \in done THEN {} ELSE known[x]]]
      /\ pinned' = [pinned EXCEPT ![p] = @ \ done]
      /\ alive' = alive
  BY DEF HeldChunks, swarmVars
<1>3. known[h] \subseteq Vouched(h) /\ p \notin known[h]
  <2>1. known[h] \subseteq confirmed[p][h] \cup
            (IF m.state = "held" /\ m.hash = h THEN {m.dst} ELSE {})
    BY <1>1 DEF TypeOK
  <2>2. confirmed[p][h] \subseteq Vouched(h) /\ p \notin confirmed[p][h]
    BY <1>1 DEF Vouched, VouchedCovered, TypeOK
  <2>3. m.state = "held" /\ m.hash = h => m.dst \in Vouched(h)
    BY <1>1 DEF Vouched
  <2> HIDE DEF known
  <2> QED BY <1>1, <2>1, <2>2, <2>3
<1> HIDE DEF known, done
<1>4. Vouched(h)' \subseteq Vouched(h)
  <2>1. Holders(h)' \subseteq Holders(h)
    BY <1>1, <1>2 DEF Holders, TypeOK
  <2>2. \A q \in Peer : confirmed'[q][h] \subseteq Vouched(h)
    <3>1. confirmed'[p][h] \subseteq known[h]
      BY <1>1, <1>2 DEF TypeOK
    <3>2. \A q \in Peer : q # p => confirmed'[q][h] = confirmed[q][h]
      BY <1>1, <1>2 DEF TypeOK
    <3>3. \A q \in Peer : confirmed[q][h] \subseteq Vouched(h)
      BY DEF Vouched, TypeOK
    <3> QED BY <1>3, <3>1, <3>2, <3>3
  <2> QED BY <1>2, <2>1, <2>2 DEF Vouched
<1>5. p \notin confirmed'[p][h]
  BY <1>1, <1>2, <1>3 DEF TypeOK
<1>6. Holders(h)' = Holders(h) \/ (Holders(h)' = Holders(h) \ {p} /\ h \in done)
  BY <1>1, <1>2 DEF Holders, TypeOK
<1>7. ASSUME h \in done, Holders(h)' = Holders(h) \ {p}
      PROVE  /\ crashes = 0 => \E r1, r2 \in Holders(h)' :
                    r1 # r2 /\ Outranks(h, r1, p) /\ Outranks(h, r2, p)
             /\ crashes = 1 => \E r \in Holders(h)' : Outranks(h, r, p)
  <2>1. Designated(p, h) \subseteq known[h]
    BY <1>7 DEF done, Completed
  <2>2. p \notin TopPeers(h, Members(p), 2)
    BY <1>3, <2>1 DEF Designated
  <2>3. Members(p) \subseteq Peer /\ p \in Members(p)
    BY <1>1 DEF Members, TypeOK
  <2>4. PICK e1 \in Designated(p, h), e2 \in Designated(p, h) :
            e1 # e2 /\ Outranks(h, e1, p) /\ Outranks(h, e2, p)
    BY <2>2, <2>3, DesignatedOutrank DEF Designated
  <2>5. e1 \in Vouched(h) /\ e2 \in Vouched(h)
    BY <1>3, <2>1, <2>4
  <2>6. ~Outranks(h, p, p)
    BY <1>1, OutranksIrreflexive
  <2> HIDE DEF p
  <2>7. /\ crashes = 0 => \E r1, r2 \in Holders(h) :
                    r1 # r2 /\ Outranks(h, r1, p) /\ Outranks(h, r2, p)
        /\ crashes = 1 => \E r \in Holders(h) : Outranks(h, r, p)
    BY <1>1, <2>4, <2>5, BetterHolders
  <2> QED BY <1>7, <2>6, <2>7
<1> QED BY <1>4, <1>5, <1>6, <1>7

\* A crash of p takes at most one of the peers that cover the vouched ones.
LEMMA CrashStep ==
    ASSUME TypeOK, VouchedCovered, NEW p \in Peer, Crash(p)
    PROVE  VouchedCovered'
<1>1. crashes' = crashes + 1 /\ crashes \in Nat
  BY DEF Crash, TypeOK
<1>2. \A h \in Hash : Holders(h)' = Holders(h) \ {p} /\ Vouched(h)' \subseteq Vouched(h)
  BY DEF Crash, Holders, Vouched, TypeOK
<1>3. \A h \in Hash : TwoOutlive(h) => OneOutlives(h)'
  BY <1>2 DEF TwoOutlive, OneOutlives
<1>4. \A q \in Peer, h \in Hash : q \notin confirmed'[q][h]
  BY DEF Crash, VouchedCovered, TypeOK
<1>5. \A m \in probes' : m.dst # m.src
  BY DEF Crash, VouchedCovered
<1> QED BY <1>1, <1>3, <1>4, <1>5 DEF VouchedCovered

\* Every step keeps the vouched peers covered.
LEMMA CoveredStep ==
    ASSUME TypeOK, VouchedCovered, [Next]_vars
    PROVE  VouchedCovered'
<1>1. ASSUME UNCHANGED <<alive, crashes, confirmed, probes>>,
             \A q \in Peer : pinned[q] \subseteq pinned'[q]
      PROVE  VouchedCovered'
  <2>1. \A m \in probes' : m.dst # m.src
    BY <1>1 DEF VouchedCovered
  <2> QED BY <1>1, <2>1, GrowthStep
<1>2. ASSUME NEW p \in Peer, NEW h \in Hash,
             \/ WriteFile(p, h) \/ Unlink(p, h) \/ ReadFile(p, h) \/ BackoffOver(p, h)
             \/ FetchFailed(p, h) \/ \E q \in Peer : ServeChunk(p, q, h)
      PROVE  VouchedCovered'
  <2>1. UNCHANGED <<alive, crashes, confirmed, probes>>
    BY <1>2 DEF WriteFile, Unlink, ReadFile, BackoffOver, FetchFailed, ServeChunk,
                swarmVars, probeVars
  <2>2. pinned' = pinned \/ pinned' = [pinned EXCEPT ![p] = @ \cup {h}]
    BY <1>2 DEF WriteFile, Unlink, ReadFile, BackoffOver, FetchFailed, ServeChunk, storeVars
  <2>3. \A q \in Peer : pinned[q] \subseteq pinned'[q]
    BY <2>2, ZenonT(60) DEF TypeOK
  <2> QED BY <1>1, <2>1, <2>3
<1>3. ASSUME NEW p \in Peer, NEW h \in Hash, ReceiveChunk(p, h)
      PROVE  VouchedCovered'
  <2>1. \A q \in Peer : pinned[q] \subseteq pinned'[q]
    <3>1. pinned' = pinned \/ pinned' = [pinned EXCEPT ![p] = @ \cup {h}]
      BY <1>3, Zenon DEF ReceiveChunk
    <3> QED BY <3>1, ZenonT(60) DEF TypeOK
  <2> QED BY <1>1, <1>3, <2>1 DEF ReceiveChunk, swarmVars, probeVars
<1>4. ASSUME NEW p \in Peer, RebalanceTick(p)
      PROVE  VouchedCovered'
  BY <1>1, <1>4, RebalanceType DEF RebalanceTick, swarmVars, probeVars
<1>5. ASSUME NEW p \in Peer, NEW q \in Peer, Connect(p, q)
      PROVE  VouchedCovered'
  BY <1>1, <1>5, RebalanceType DEF Connect, probeVars
<1>6. ASSUME NEW p \in Peer, NEW q \in Peer, SyncTree(p, q)
      PROVE  VouchedCovered'
  BY <1>1, <1>6 DEF SyncTree, swarmVars, storeVars, probeVars
<1>7. ASSUME NEW p \in Peer, NEW q \in Peer, Disconnect(p, q)
      PROVE  VouchedCovered'
  <2>1. probes' \subseteq probes /\ \A m \in probes' : m.dst # m.src
    BY <1>7 DEF Disconnect, VouchedCovered
  <2> QED BY <1>7, <2>1, GrowthStep DEF Disconnect, storeVars
<1>8. ASSUME NEW m \in probes, ProbeFailed(m.src, m)
      PROVE  VouchedCovered'
  BY <1>8, GrowthStep DEF ProbeFailed, VouchedCovered, swarmVars, storeVars
<1>9. ASSUME NEW m \in probes, AnswerProbe(m.dst, m)
      PROVE  VouchedCovered'
  <2>1. m.dst \in alive /\ m.dst # m.src /\ m \in Probe
    BY <1>9 DEF AnswerProbe, VouchedCovered, TypeOK
  <2>2. ASSUME NEW n \in probes'
        PROVE  /\ n.dst # n.src
               /\ n.state = "held" => n \in probes \/ n.dst \in Holders(n.hash)
    <3>1. CASE n \in probes
      BY <3>1 DEF VouchedCovered
    <3>2. CASE n = [m EXCEPT !.state = IF Confirms(m.dst, m.hash) THEN "held" ELSE "missing"]
      BY <2>1, <3>2 DEF Probe, Holders, Confirms
    <3> QED BY <1>9, <2>2, <3>1, <3>2 DEF AnswerProbe
  <2> QED BY <1>9, <2>2, GrowthStep DEF AnswerProbe, swarmVars, storeVars
<1>10. ASSUME NEW p \in Peer, ProbeEvictionCandidates(p)
       PROVE  VouchedCovered'
  <2>1. \A q \in Peer, h \in Hash : confirmed'[q][h] \subseteq confirmed[q][h]
    BY <1>10 DEF ProbeEvictionCandidates, TypeOK
  <2>2. ASSUME NEW n \in probes'
        PROVE  n.dst # n.src /\ (n.state = "held" => n \in probes)
    <3>1. n \in probes \/ (n.src = p /\ n.hash \in Candidates(p)
                           /\ n.dst \in Designated(p, n.hash) /\ n.state = "sent")
      BY <1>10, <2>2, Zenon DEF ProbeEvictionCandidates
    <3> QED BY <3>1 DEF Candidates, VouchedCovered
  <2> QED BY <1>10, <2>1, <2>2, GrowthStep
          DEF ProbeEvictionCandidates, swarmVars, storeVars
<1>11. ASSUME NEW m \in probes, HeldChunks(m.src, m)
       PROVE  VouchedCovered'
  <2> DEFINE p == m.src
  <2>1. p \in Peer /\ crashes' = crashes /\ probes' \subseteq probes
    BY <1>11 DEF HeldChunks, TypeOK, Probe, swarmVars
  <2>2. \A q \in Peer, h \in Hash : q \notin confirmed'[q][h]
    <3>1. \A q \in Peer : q # p => confirmed'[q] = confirmed[q]
      BY <1>11, <2>1 DEF HeldChunks, TypeOK
    <3>2. \A h \in Hash : p \notin confirmed'[p][h]
      BY <1>11, EvictStep
    <3> QED BY <3>1, <3>2 DEF VouchedCovered
  <2>3. ASSUME NEW h \in Hash
        PROVE  /\ crashes = 0 /\ TwoOutlive(h) => TwoOutlive(h)'
               /\ crashes = 1 /\ OneOutlives(h) => OneOutlives(h)'
    <3>1. Vouched(h)' \subseteq Vouched(h) /\ Vouched(h) \subseteq Peer
          /\ Holders(h) \subseteq Peer
      BY <1>11, EvictStep, ZenonT(60) DEF Vouched, Holders, TypeOK
    <3>2. CASE Holders(h)' = Holders(h)
      BY <3>1, <3>2 DEF TwoOutlive, OneOutlives
    <3>3. CASE Holders(h)' # Holders(h)
      <4>1. Holders(h)' = Holders(h) \ {p}
        BY <1>11, <3>3, EvictStep
      <4> HIDE DEF p
      <4>2. ASSUME crashes = 0, TwoOutlive(h), NEW d \in Vouched(h)'
            PROVE  \/ d \in Holders(h)'
                   \/ \E q1, q2 \in Holders(h)' :
                        q1 # q2 /\ Outranks(h, q1, d) /\ Outranks(h, q2, d)
        <5>1. PICK r1 \in Holders(h)', r2 \in Holders(h)' :
                    r1 # r2 /\ Outranks(h, r1, p) /\ Outranks(h, r2, p)
          BY <1>11, <3>3, <4>2, EvictStep DEF p
        <5>2. CASE d = p
          BY <5>1, <5>2
        <5>3. CASE d # p /\ d \notin Holders(h)
          <6>1. PICK q1 \in Holders(h), q2 \in Holders(h) :
                    q1 # q2 /\ Outranks(h, q1, d) /\ Outranks(h, q2, d)
            BY <3>1, <4>2, <5>3 DEF TwoOutlive
          <6>2. CASE p \notin {q1, q2}
            BY <4>1, <6>1, <6>2
          <6>3. CASE p \in {q1, q2}
            <7>1. Outranks(h, r1, d) /\ Outranks(h, r2, d)
              BY <2>1, <3>1, <4>1, <5>1, <6>1, <6>3, OutranksTransitive
            <7> QED BY <5>1, <7>1
          <6> QED BY <6>2, <6>3
        <5> QED BY <4>1, <5>2, <5>3
      <4>3. ASSUME crashes = 1, OneOutlives(h), NEW d1 \in Vouched(h)', NEW d2 \in Vouched(h)',
                   d1 # d2
            PROVE  \E q \in Holders(h)' :
                        q \in {d1, d2} \/ Outranks(h, q, d1) \/ Outranks(h, q, d2)
        <5>1. PICK r \in Holders(h)' : Outranks(h, r, p)
          BY <1>11, <3>3, <4>3, EvictStep DEF p
        <5>2. PICK q \in Holders(h) :
                    q \in {d1, d2} \/ Outranks(h, q, d1) \/ Outranks(h, q, d2)
          BY <3>1, <4>3 DEF OneOutlives
        <5>3. CASE q # p
          BY <4>1, <5>2, <5>3
        <5>4. CASE q = p
          BY <2>1, <3>1, <4>1, <5>1, <5>2, <5>4, OutranksTransitive
        <5> QED BY <5>3, <5>4
      <4> QED BY <4>2, <4>3 DEF TwoOutlive, OneOutlives
    <3> QED BY <3>2, <3>3
  <2> QED BY <2>1, <2>2, <2>3 DEF VouchedCovered
<1>12. ASSUME NEW p \in Peer, Crash(p)
       PROVE  VouchedCovered'
  BY <1>12, CrashStep
<1>13. CASE UNCHANGED vars
  BY <1>1, <1>13 DEF vars
<1> QED
  BY <1>2, <1>3, <1>4, <1>5, <1>6, <1>7, <1>8, <1>9, <1>10, <1>11, <1>12, <1>13
     DEF Next, ProbeStep

\* No confirmation ever outlives the pins it stands for: the invariant behind
\* evict_confirmed, in every cluster and under every view of it.
THEOREM VouchedPeersCovered == Spec => []VouchedCovered
<1>1. Init => VouchedCovered
  BY DEF Init, VouchedCovered, TwoOutlive, OneOutlives, Vouched, Holders
<1>2. TypeOK /\ VouchedCovered /\ [Next]_vars => VouchedCovered'
  BY CoveredStep
<1> QED BY <1>1, <1>2, TypeCorrect, PTL DEF Spec

\* Only evict_confirmed takes a pin from a peer that stays alive.
LEMMA OnlyEvictionUnpins ==
    ASSUME TypeOK, [Next]_vars, NEW p \in Peer, NEW h \in Hash,
           p \in alive', h \in pinned[p] \ pinned'[p]
    PROVE  \E m \in probes : HeldChunks(m.src, m)
<1>1. ASSUME NEW q \in Peer, NEW x \in Hash, ReceiveChunk(q, x)
      PROVE  FALSE
  <2>1. pinned' = pinned \/ pinned' = [pinned EXCEPT ![q] = @ \cup {x}]
    BY <1>1, Zenon DEF ReceiveChunk
  <2> QED BY <2>1, ZenonT(60) DEF TypeOK
<1>2. ASSUME NEW q \in Peer, RebalanceTick(q) \/ \E r \in Peer : Connect(q, r)
      PROVE  FALSE
  <2>1. \E M : Rebalance(q, M)
    BY <1>2 DEF RebalanceTick, Connect
  <2> QED BY <2>1, RebalanceType
<1>3. ASSUME NEW q \in Peer, Crash(q)
      PROVE  FALSE
  BY <1>3 DEF Crash, TypeOK
<1>4. ASSUME NEW q \in Peer, NEW x \in Hash, WriteFile(q, x)
      PROVE  FALSE
  BY <1>4 DEF WriteFile, TypeOK
<1>5. ASSUME UNCHANGED pinned
      PROVE  FALSE
  BY <1>5
<1> QED
  BY <1>1, <1>2, <1>3, <1>4, <1>5, ZenonT(60)
     DEF Next, ProbeStep, vars, storeVars, Unlink, ReadFile, BackoffOver, FetchFailed,
         ServeChunk, SyncTree, Disconnect, ProbeFailed, AnswerProbe, ProbeEvictionCandidates

\* An eviction leaves the chunk pinned on two live peers, or on one once a
\* peer has crashed, whatever views the peers have had of the cluster.
THEOREM EvictionSafe == Spec => EvictionKeepsReplicas
<1>1. ASSUME TypeOK, TypeOK', VouchedCovered, [Next]_vars, NEW p \in Peer, NEW h \in Hash,
             p \in alive', h \in pinned[p] \ pinned'[p]
      PROVE  Cardinality(Holders(h)') + crashes >= 2
  <2>1. PICK m \in probes : HeldChunks(m.src, m)
    BY <1>1, OnlyEvictionUnpins
  <2>2. Holders(h)' # Holders(h)
    BY <1>1, <2>1 DEF Holders, HeldChunks, swarmVars
  <2>3. IsFiniteSet(Holders(h)') /\ Cardinality(Holders(h)') \in Nat
    <3>1. Holders(h)' \subseteq Peer
      BY <1>1 DEF Holders, TypeOK
    <3> QED BY <3>1, HrwAssumption, FS_Subset, FS_CardinalityType
  <2>4. crashes \in Nat
    BY <1>1 DEF TypeOK
  <2>5. CASE crashes = 0
    <3>1. PICK r1 \in Holders(h)', r2 \in Holders(h)' : r1 # r2
      BY <1>1, <2>1, <2>2, <2>5, EvictStep
    <3>2. Cardinality(Holders(h)') # 0 /\ Cardinality(Holders(h)') # 1
      BY <2>3, <3>1, FS_EmptySet, FS_Singleton
    <3> QED BY <2>3, <2>5, <3>2
  <2>6. CASE crashes = 1
    <3>1. PICK r \in Holders(h)' : TRUE
      BY <1>1, <2>1, <2>2, <2>6, EvictStep
    <3>2. Cardinality(Holders(h)') # 0
      BY <2>3, <3>1, FS_EmptySet
    <3> QED BY <2>3, <2>6, <3>2
  <2> QED BY <2>3, <2>4, <2>5, <2>6
<1>2. TypeOK /\ TypeOK' /\ VouchedCovered /\ [Next]_vars =>
        [\A p \in Peer, h \in Hash :
            (p \in alive' /\ h \in pinned[p] \ pinned'[p])
                => Cardinality(Holders(h)') + crashes >= 2]_vars
  BY <1>1
<1> QED BY <1>2, TypeCorrect, VouchedPeersCovered, PTL DEF Spec, EvictionKeepsReplicas

-----------------------------------------------------------------------------
(***************************************************************************)
(* Reachable chunks are held.                                              *)
(***************************************************************************)

\* Peers leave only by crashing.
LEMMA OnlyCrashLeaves ==
    ASSUME [Next]_vars, ~\E q \in Peer : Crash(q)
    PROVE  UNCHANGED <<alive, crashes>>
<1>1. ASSUME NEW p \in Peer, NEW h \in Hash,
             \/ WriteFile(p, h) \/ Unlink(p, h) \/ ReadFile(p, h) \/ BackoffOver(p, h)
             \/ ReceiveChunk(p, h) \/ FetchFailed(p, h) \/ \E q \in Peer : ServeChunk(p, q, h)
      PROVE  UNCHANGED <<alive, crashes>>
  BY <1>1 DEF WriteFile, Unlink, ReadFile, BackoffOver, ReceiveChunk, FetchFailed,
              ServeChunk, swarmVars
<1>2. ASSUME NEW p \in Peer,
             \/ RebalanceTick(p) \/ ProbeEvictionCandidates(p)
             \/ \E q \in Peer : Connect(p, q) \/ Disconnect(p, q) \/ SyncTree(p, q)
      PROVE  UNCHANGED <<alive, crashes>>
  BY <1>2 DEF RebalanceTick, ProbeEvictionCandidates, Connect, Disconnect, SyncTree, swarmVars
<1>3. ASSUME NEW m \in probes, ProbeStep(m)
      PROVE  UNCHANGED <<alive, crashes>>
  BY <1>3 DEF ProbeStep, AnswerProbe, HeldChunks, ProbeFailed, swarmVars
<1>4. CASE UNCHANGED vars
  BY <1>4 DEF vars
<1> QED BY <1>1, <1>2, <1>3, <1>4 DEF Next

\* Without a crash, a chunk that is pinned somewhere stays pinned somewhere.
LEMMA HoldersStay ==
    ASSUME TypeOK, VouchedCovered, [Next]_vars, crashes' = 0,
           NEW h \in Hash, Holders(h) # {}
    PROVE  crashes = 0 /\ Holders(h)' # {}
<1>1. ~\E q \in Peer : Crash(q)
  BY DEF Crash, TypeOK
<1>2. alive' = alive /\ crashes = 0
  BY <1>1, OnlyCrashLeaves
<1>3. PICK q \in Holders(h) : TRUE
  OBVIOUS
<1>4. CASE h \in pinned'[q]
  BY <1>2, <1>3, <1>4 DEF Holders
<1>5. CASE h \notin pinned'[q]
  <2>1. q \in Peer /\ q \in alive' /\ h \in pinned[q] \ pinned'[q]
    BY <1>2, <1>3, <1>5 DEF Holders, TypeOK
  <2>2. PICK m \in probes : HeldChunks(m.src, m)
    BY <2>1, OnlyEvictionUnpins
  <2>3. Holders(h)' # Holders(h)
    BY <2>1, <1>3 DEF Holders
  <2> QED BY <1>2, <2>2, <2>3, EvictStep
<1> QED BY <1>2, <1>4, <1>5

\* A chunk that any tree has ever mentioned is pinned on a live peer.
KnownHeld ==
    crashes = 0 => \A p \in Peer, h \in Hash : tree[p][h] # 0 => Holders(h) # {}

\* Until a peer crashes, every chunk a live peer's tree can reach is pinned
\* on a live peer.
THEOREM ReachableHeld == Spec => []LiveChunksHeld
<1>1. Init => KnownHeld
  BY SMTT(30) DEF Init, KnownHeld
<1>2. ASSUME TypeOK, VouchedCovered, KnownHeld, [Next]_vars
      PROVE  KnownHeld'
  <2> SUFFICES ASSUME crashes' = 0, NEW p \in Peer, NEW h \in Hash, tree'[p][h] # 0
               PROVE  Holders(h)' # {}
    BY DEF KnownHeld
  <2>1. ~\E q \in Peer : Crash(q)
    BY <1>2 DEF Crash, TypeOK
  <2>2. crashes = 0
    BY <1>2, <2>1, OnlyCrashLeaves
  <2>3. ASSUME NEW q \in Peer, tree[q][h] # 0
        PROVE  Holders(h)' # {}
    BY <1>2, <2>2, <2>3, HoldersStay DEF KnownHeld
  <2>4. ASSUME NEW q \in Peer, NEW x \in Hash, WriteFile(q, x)
        PROVE  Holders(h)' # {}
    <3>1. CASE p = q /\ h = x
      BY <2>4, <3>1, <1>2 DEF WriteFile, Holders, TypeOK, swarmVars
    <3>2. CASE ~(p = q /\ h = x)
      <4>1. tree'[p][h] = tree[p][h]
        BY <2>4, <3>2, <1>2 DEF WriteFile, TypeOK
      <4> QED BY <2>3, <4>1
    <3> QED BY <3>1, <3>2
  <2>5. ASSUME NEW q \in Peer, NEW x \in Hash, Unlink(q, x)
        PROVE  Holders(h)' # {}
    <3>1. tree[p][h] # 0
      BY <2>5, <1>2 DEF Unlink, Reachable, TypeOK
    <3> QED BY <2>3, <3>1
  <2>6. ASSUME NEW q \in Peer, NEW r \in Peer, SyncTree(q, r)
        PROVE  Holders(h)' # {}
    <3>1. tree'[p][h] \in {tree[p][h], tree[r][h]}
      BY <2>6, <1>2 DEF SyncTree, TypeOK
    <3> QED BY <2>3, <3>1
  <2>7. CASE tree' = tree
    BY <2>3, <2>7
  <2> QED
    BY <1>2, <2>1, <2>4, <2>5, <2>6, <2>7, ZenonT(60) DEF Next, ProbeStep, vars, ReadFile,
        RebalanceTick, BackoffOver, Connect, Disconnect, ServeChunk, ReceiveChunk,
        FetchFailed, ProbeEvictionCandidates, AnswerProbe, HeldChunks, ProbeFailed
<1>3. TypeOK /\ KnownHeld => LiveChunksHeld
  <2> SUFFICES ASSUME TypeOK, KnownHeld, crashes = 0, NEW p \in alive, NEW h \in Reachable(p)
               PROVE  Holders(h) # {}
    BY DEF LiveChunksHeld
  <2>1. p \in Peer /\ h \in Hash /\ tree[p][h] # 0
    BY DEF TypeOK, Reachable
  <2> QED BY <2>1 DEF KnownHeld
<1>4. TypeOK /\ VouchedCovered /\ KnownHeld /\ [Next]_vars => KnownHeld'
  BY <1>2
<1> QED BY <1>1, <1>3, <1>4, TypeCorrect, VouchedPeersCovered, PTL DEF Spec

-----------------------------------------------------------------------------
(***************************************************************************)
(* Every peer's store implements ChunkStore.  All peers share one Size, so *)
(* only the pins and the cache of the peer that acts have to be looked at. *)
(***************************************************************************)

\* No chunk is pinned and cached on the same peer.
NeverBoth == \A p \in Peer : pinned[p] \cap cached[p] = {}

\* The steps ChunkStore allows the store of p.
StoreMay(p) == [StoreOf(p)!StoreNext]_<<pinned[p], cached[p]>>

\* The byte counts of ChunkStore are those of Replication.
LEMMA SameBytes == \A p, S : StoreOf(p)!TotalBytes(S) = TotalBytes(S)
BY Zenon DEF StoreOf!TotalBytes, StoreOf!BytesOf, StoreOf!Cardinality,
             TotalBytes, BytesOf, Cardinality

\* Nor do the outcomes of caching differ.
LEMMA SameOutcomes ==
    ASSUME NEW p, NEW S, NEW C, NEW h, NEW budget
    PROVE  StoreOf(p)!CacheOutcomes(S, C, h, budget) = CacheOutcomes(S, C, h, budget)
BY SameBytes, Zenon DEF StoreOf!CacheOutcomes, CacheOutcomes

\* They add at most h, and only where it was not pinned.
LEMMA OutcomeIs ==
    ASSUME NEW S, NEW C, NEW h, NEW budget, NEW k \in CacheOutcomes(S, C, h, budget)
    PROVE  k \subseteq C \/ (h \notin S /\ k \subseteq C \cup {h})
<1>1. CASE h \in S \cup C \/ Size[h] > budget
  BY <1>1 DEF CacheOutcomes
<1>2. CASE ~(h \in S \cup C \/ Size[h] > budget)
  <2>1. k = C \cup {h} \/ \E kept \in SUBSET C : k = kept \cup {h}
    BY <1>2 DEF CacheOutcomes
  <2> QED BY <1>2, <2>1
<1> QED BY <1>1, <1>2

\* A step that takes the store of one peer through a step of ChunkStore.
LEMMA OneStore ==
    ASSUME NeverBoth, NEW p \in Peer, StoreMay(p), pinned'[p] \cap cached'[p] = {},
           \A q \in Peer \ {p} : pinned'[q] = pinned[q] /\ cached'[q] = cached[q]
    PROVE  NeverBoth' /\ \A q \in Peer : StoreMay(q)
<1>1. NeverBoth'
  BY DEF NeverBoth
<1>2. ASSUME NEW q \in Peer PROVE StoreMay(q)
  <2>1. CASE q = p
    BY <2>1
  <2>2. CASE q # p
    BY <2>2 DEF StoreMay
  <2> QED BY <2>1, <2>2
<1> QED BY <1>1, <1>2

\* A step that pins S on p, where it fits.
LEMMA PinsOn ==
    ASSUME TypeOK, NeverBoth, NEW p \in Peer, NEW S \in SUBSET Hash, Fits(p, S),
           pinned' = [pinned EXCEPT ![p] = @ \cup S],
           cached' = [cached EXCEPT ![p] = @ \ S]
    PROVE  NeverBoth' /\ \A q \in Peer : StoreMay(q)
<1>1. /\ pinned'[p] = pinned[p] \cup S
      /\ cached'[p] = cached[p] \ S
      /\ \A q \in Peer \ {p} : pinned'[q] = pinned[q] /\ cached'[q] = cached[q]
  BY DEF TypeOK
<1>2. StoreOf(p)!Pin(S)
  BY <1>1, SameBytes DEF StoreOf!Pin, Fits
<1>3. StoreMay(p)
  BY <1>2 DEF StoreMay, StoreOf!StoreNext
<1>4. pinned'[p] \cap cached'[p] = {}
  BY <1>1 DEF NeverBoth
<1> QED BY <1>1, <1>3, <1>4, OneStore

\* A step that takes S out of the store of p.
LEMMA EvictsOn ==
    ASSUME TypeOK, NeverBoth, NEW p \in Peer, NEW S \in SUBSET Hash,
           pinned'[p] = pinned[p] \ S, cached'[p] = cached[p] \ S,
           \A q \in Peer \ {p} : pinned'[q] = pinned[q] /\ cached'[q] = cached[q]
    PROVE  NeverBoth' /\ \A q \in Peer : StoreMay(q)
<1>1. StoreOf(p)!Evict(S)
  BY DEF StoreOf!Evict
<1>2. StoreMay(p)
  BY <1>1 DEF StoreMay, StoreOf!StoreNext
<1>3. pinned'[p] \cap cached'[p] = {}
  BY DEF NeverBoth
<1> QED BY <1>2, <1>3, OneStore

\* Every handler of a peer takes its store through a step of ChunkStore and
\* leaves the others' alone.
LEMMA StoreStep ==
    ASSUME TypeOK, NeverBoth, [Next]_vars
    PROVE  NeverBoth' /\ \A p \in Peer : StoreMay(p)
<1>1. ASSUME UNCHANGED storeVars
      PROVE  NeverBoth' /\ \A p \in Peer : StoreMay(p)
  BY <1>1 DEF NeverBoth, StoreMay, storeVars
<1>2. ASSUME NEW p \in Peer, NEW members, Rebalance(p, members)
      PROVE  NeverBoth' /\ \A q \in Peer : StoreMay(q)
  <2>1. PICK promoted \in SUBSET (Wanted(p, members) \cap cached[p]) :
            /\ Fits(p, promoted)
            /\ pinned' = [pinned EXCEPT ![p] = @ \cup promoted]
            /\ cached' = [cached EXCEPT ![p] = @ \ promoted]
    BY <1>2, Zenon DEF Rebalance, Apply
  <2>2. promoted \in SUBSET Hash
    BY <2>1 DEF Wanted, Reachable
  <2> QED BY <2>1, <2>2, PinsOn
<1>3. ASSUME NEW p \in Peer, NEW h \in Hash, WriteFile(p, h)
      PROVE  NeverBoth' /\ \A q \in Peer : StoreMay(q)
  <2>1. Fits(p, {h}) /\ pinned' = [pinned EXCEPT ![p] = @ \cup {h}]
        /\ cached' = [cached EXCEPT ![p] = @ \ {h}]
    BY <1>3, Zenon DEF WriteFile
  <2> QED BY <2>1, PinsOn
<1>4. ASSUME NEW p \in Peer, NEW h \in Hash, ReceiveChunk(p, h)
      PROVE  NeverBoth' /\ \A q \in Peer : StoreMay(q)
  <2>1. CASE fetch[p][h] = "pin" /\ Fits(p, {h})
    <3>1. pinned' = [pinned EXCEPT ![p] = @ \cup {h}]
          /\ cached' = [cached EXCEPT ![p] = @ \ {h}]
      BY <1>4, <2>1, Zenon DEF ReceiveChunk
    <3> QED BY <2>1, <3>1, PinsOn
  <2>2. CASE ~(fetch[p][h] = "pin" /\ Fits(p, {h}))
    <3>1. PICK c \in CacheOutcomes(pinned[p], cached[p], h, MaxCachedBytes) :
              pinned' = pinned /\ cached' = [cached EXCEPT ![p] = c]
      BY <1>4, <2>2, Zenon DEF ReceiveChunk
    <3>2. /\ cached'[p] = c /\ pinned'[p] = pinned[p]
          /\ \A q \in Peer \ {p} : pinned'[q] = pinned[q] /\ cached'[q] = cached[q]
      BY <3>1 DEF TypeOK
    <3>3. StoreOf(p)!Cache(h)
      BY <3>1, <3>2, SameOutcomes DEF StoreOf!Cache
    <3>4. StoreMay(p)
      BY <3>3 DEF StoreMay, StoreOf!StoreNext
    <3>5. pinned'[p] \cap cached'[p] = {}
      <4>1. c \subseteq cached[p] \/ (h \notin pinned[p] /\ c \subseteq cached[p] \cup {h})
        BY <3>1, OutcomeIs
      <4>2. pinned[p] \cap cached[p] = {}
        BY DEF NeverBoth
      <4> QED BY <3>2, <4>1, <4>2
    <3> QED BY <3>2, <3>4, <3>5, OneStore
  <2> QED BY <2>1, <2>2
<1>5. ASSUME NEW m \in probes, HeldChunks(m.src, m)
      PROVE  NeverBoth' /\ \A q \in Peer : StoreMay(q)
  <2>1. m.src \in Peer
    BY DEF TypeOK, Probe
  <2>2. PICK completed : pinned' = [pinned EXCEPT ![m.src] = @ \ completed] /\ cached' = cached
    BY <1>5, Zenon DEF HeldChunks, Completed
  <2> DEFINE S == completed \cap pinned[m.src]
  <2>3. /\ S \in SUBSET Hash
        /\ pinned'[m.src] = pinned[m.src] \ S
        /\ \A q \in Peer \ {m.src} : pinned'[q] = pinned[q] /\ cached'[q] = cached[q]
    BY <2>1, <2>2 DEF TypeOK
  <2>4. cached'[m.src] = cached[m.src] \ S
    BY <2>1, <2>2 DEF NeverBoth
  <2> QED BY <2>1, <2>3, <2>4, EvictsOn
<1>6. ASSUME NEW p \in Peer, Crash(p)
      PROVE  NeverBoth' /\ \A q \in Peer : StoreMay(q)
  <2>1. pinned' = [pinned EXCEPT ![p] = {}] /\ cached' = [cached EXCEPT ![p] = {}]
    BY <1>6 DEF Crash
  <2>2. /\ pinned'[p] = pinned[p] \ Hash
        /\ cached'[p] = cached[p] \ Hash
        /\ \A q \in Peer \ {p} : pinned'[q] = pinned[q] /\ cached'[q] = cached[q]
    BY <2>1 DEF TypeOK
  <2> QED BY <2>2, EvictsOn
<1> QED
  BY <1>1, <1>2, <1>3, <1>4, <1>5, <1>6, ZenonT(60)
     DEF Next, ProbeStep, vars, storeVars, RebalanceTick, Connect, Unlink, ReadFile,
         BackoffOver, FetchFailed, ServeChunk, SyncTree, Disconnect, ProbeFailed,
         AnswerProbe, ProbeEvictionCandidates

\* Every peer's store, seen alone, is a ChunkStore, whatever handlers interleave
\* on that peer and whatever the others do.
THEOREM StoresImplementChunkStore == Spec => StoresAreChunkStores
<1>1. Init => NeverBoth /\ \A p \in Peer : StoreOf(p)!StoreInit
  BY DEF Init, NeverBoth, StoreOf!StoreInit
<1>2. TypeOK /\ NeverBoth /\ [Next]_vars =>
        NeverBoth' /\ [\A p \in Peer : [StoreOf(p)!StoreNext]_<<pinned[p], cached[p]>>]_storeVars
  BY StoreStep DEF StoreMay
<1> QED BY <1>1, <1>2, TypeCorrect, PTL DEF Spec, StoresAreChunkStores

=============================================================================
