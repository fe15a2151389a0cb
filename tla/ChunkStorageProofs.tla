------------------------ MODULE ChunkStorageProofs ------------------------
(***************************************************************************)
(* Proofs about ChunkStorage: for any chunks and budgets its counters      *)
(* equal the bytes it holds and never underflow, its queue lists exactly   *)
(* the cached hashes, and it implements ChunkStore.                        *)
(***************************************************************************)
EXTENDS ChunkStorage, FiniteSetTheorems, FunctionTheorems, SequenceTheorems,
        WellFoundedInduction, TLAPS

-----------------------------------------------------------------------------
(***************************************************************************)
(* Counting bytes.                                                         *)
(***************************************************************************)

\* The bytes of a set of chunks are finite in number.
LEMMA BytesFinite ==
    ASSUME NEW S \in SUBSET Hash
    PROVE  IsFiniteSet(BytesOf(S)) /\ TotalBytes(S) \in Nat
<1> DEFINE T == {{h} \X (1..Size[h]) : h \in S}
           f == [h \in S |-> {h} \X (1..Size[h])]
<1>1. IsFiniteSet(S)
  BY ChunkAssumption, FS_Subset
<1>2. f \in Surjection(S, T)
  <2>1. f \in [S -> T]
    OBVIOUS
  <2>2. ASSUME NEW t \in T PROVE \E h \in S : f[h] = t
    OBVIOUS
  <2> QED BY <2>1, <2>2, Fun_IsSurj
<1>3. IsFiniteSet(T)
  BY <1>1, <1>2, FS_Surjection
<1>4. ASSUME NEW h \in S PROVE IsFiniteSet({h} \X (1..Size[h]))
  <2>1. IsFiniteSet({h})
    BY FS_Singleton
  <2>2. Size[h] \in Int
    BY ChunkAssumption
  <2>3. IsFiniteSet(1..Size[h])
    BY <2>2, FS_Interval
  <2> QED BY <2>1, <2>3, FS_Product
<1>5. IsFiniteSet(UNION T)
  BY <1>3, <1>4, FS_UNION
<1> QED BY <1>5, FS_CardinalityType DEF BytesOf, TotalBytes

\* One chunk has as many bytes as Size says, no chunk has none.
LEMMA BytesOfOne ==
    /\ TotalBytes({}) = 0
    /\ \A h \in Hash : TotalBytes({h}) = Size[h]
<1>1. TotalBytes({}) = 0
  <2>1. BytesOf({}) = {}
    BY DEF BytesOf
  <2> QED BY <2>1, FS_EmptySet DEF TotalBytes
<1>2. ASSUME NEW h \in Hash PROVE TotalBytes({h}) = Size[h]
  <2>1. BytesOf({h}) = {h} \X (1..Size[h])
    BY DEF BytesOf
  <2>2. Size[h] \in Nat
    BY ChunkAssumption
  <2>3. IsFiniteSet({h}) /\ Cardinality({h}) = 1
    BY FS_Singleton
  <2>4. IsFiniteSet(1..Size[h]) /\ Cardinality(1..Size[h]) = Size[h]
    BY <2>2, FS_Interval, SMTT(30)
  <2>5. Cardinality({h} \X (1..Size[h])) = Cardinality({h}) * Cardinality(1..Size[h])
    BY <2>3, <2>4, FS_Product, Zenon
  <2>6. Cardinality({h} \X (1..Size[h])) = 1 * Size[h]
    BY <2>3, <2>4, <2>5, Zenon
  <2>7. TotalBytes({h}) = Cardinality({h} \X (1..Size[h]))
    BY <2>1, Zenon DEF TotalBytes
  <2> QED BY <2>2, <2>6, <2>7
<1> QED BY <1>1, <1>2

\* Bytes add up over disjoint sets of chunks.
LEMMA BytesAdd ==
    ASSUME NEW S \in SUBSET Hash, NEW T \in SUBSET Hash, S \cap T = {}
    PROVE  TotalBytes(S \cup T) = TotalBytes(S) + TotalBytes(T)
<1>1. BytesOf(S \cup T) = BytesOf(S) \cup BytesOf(T)
  BY DEF BytesOf
<1>2. BytesOf(S) \cap BytesOf(T) = {}
  BY DEF BytesOf
<1>3. IsFiniteSet(BytesOf(S)) /\ IsFiniteSet(BytesOf(T))
  BY BytesFinite
<1>4. Cardinality({}) = 0
  BY FS_EmptySet
<1>5. TotalBytes(S) \in Nat /\ TotalBytes(T) \in Nat
  BY BytesFinite
<1>6. Cardinality(BytesOf(S) \cup BytesOf(T))
        = Cardinality(BytesOf(S)) + Cardinality(BytesOf(T))
            - Cardinality(BytesOf(S) \cap BytesOf(T))
  BY <1>3, FS_Union, Zenon
<1>7. TotalBytes(S \cup T) = TotalBytes(S) + TotalBytes(T) - 0
  BY <1>1, <1>2, <1>4, <1>6, Zenon DEF TotalBytes
<1> QED BY <1>5, <1>7

\* What a set loses with a part of it.
LEMMA BytesTake ==
    ASSUME NEW S \in SUBSET Hash, NEW T \in SUBSET S
    PROVE  /\ TotalBytes(S \ T) = TotalBytes(S) - TotalBytes(T)
           /\ TotalBytes(T) <= TotalBytes(S)
           /\ TotalBytes(S \ T) \in Nat
<1>1. (S \ T) \cup T = S /\ (S \ T) \cap T = {}
  OBVIOUS
<1>2. TotalBytes(S) = TotalBytes(S \ T) + TotalBytes(T)
  BY <1>1, BytesAdd
<1>3. TotalBytes(S) \in Nat /\ TotalBytes(T) \in Nat /\ TotalBytes(S \ T) \in Nat
  BY BytesFinite
<1> QED BY <1>2, <1>3

-----------------------------------------------------------------------------
(***************************************************************************)
(* The queue.                                                              *)
(***************************************************************************)

\* A set of numbers has a least one.
LEMMA LeastElement ==
    ASSUME NEW T \in SUBSET Nat, T # {}
    PROVE  \E m \in T : \A k \in T : m <= k
<1> DEFINE I == {1..n : n \in T}
<1>1. \A n \in Nat : 1..n \in FiniteSubsetsOf(Nat)
  BY FS_Interval DEF FiniteSubsetsOf
<1>2. I \subseteq FiniteSubsetsOf(Nat) /\ I # {}
  BY <1>1
<1>3. \E x \in I : \A y \in I : ~(<<y, x>> \in StrictSubsetOrdering(Nat))
  BY <1>2, WFMin, FS_StrictSubsetOrderingWellFounded, Zenon
<1>4. PICK m \in T : \A k \in T : ~(<<1..k, 1..m>> \in StrictSubsetOrdering(Nat))
  BY <1>3
<1>5. ASSUME NEW k \in T, k < m PROVE FALSE
  <2>1. 1..k \subseteq 1..m /\ m \in 1..m /\ m \notin 1..k
    BY <1>5
  <2>2. <<1..k, 1..m>> \in (SUBSET Nat) \X (SUBSET Nat)
    OBVIOUS
  <2>3. <<1..k, 1..m>> \in StrictSubsetOrdering(Nat)
    BY <2>1, <2>2, Zenon DEF StrictSubsetOrdering
  <2> QED BY <1>4, <2>3
<1> QED BY <1>5

\* Every rank belongs to one position.
LEMMA RankIsBijection ==
    ASSUME NEW n \in Nat, NEW K \in SUBSET (1..n)
    PROVE  /\ IsFiniteSet(K) /\ Cardinality(K) \in Nat
           /\ \A i \in K : Rank(i, K) \in 1..Cardinality(K)
           /\ \A i, j \in K : Rank(i, K) = Rank(j, K) => i = j
           /\ \A j \in 1..Cardinality(K) : \E i \in K : Rank(i, K) = j
<1> DEFINE f == [i \in K |-> Rank(i, K)]
<1>1. IsFiniteSet(K) /\ Cardinality(K) \in Nat
  <2>1. IsFiniteSet(1..n)
    BY FS_Interval
  <2> QED BY <2>1, FS_Subset, FS_CardinalityType
<1>2. ASSUME NEW i \in K PROVE Rank(i, K) \in 1..Cardinality(K)
  <2> DEFINE L == {k \in K : k <= i}
  <2>1. L \in SUBSET K /\ L # {}
    OBVIOUS
  <2>2. IsFiniteSet(L) /\ Cardinality(L) <= Cardinality(K)
    BY <1>1, <2>1, FS_Subset
  <2>3. Cardinality(L) \in Nat /\ Cardinality(L) # 0
    BY <2>1, <2>2, FS_CardinalityType, FS_EmptySet
  <2> QED BY <1>1, <2>2, <2>3 DEF Rank
<1>3. ASSUME NEW i \in K, NEW j \in K, i < j PROVE Rank(i, K) # Rank(j, K)
  <2> DEFINE L == {k \in K : k <= i}
             M == {k \in K : k <= j}
  <2>0. i \in Nat /\ j \in Nat /\ \A k \in K : k \in Nat
    OBVIOUS
  <2>1. M \in SUBSET K /\ L \in SUBSET M
    <3>1. ASSUME NEW k \in K, k <= i PROVE k <= j
      BY <1>3, <2>0, <3>1
    <3> QED BY <3>1
  <2>3. j \in M /\ j \notin L
    BY <1>3, <2>0
  <2>2. IsFiniteSet(M)
    BY <1>1, <2>1, FS_Subset
  <2>4. Cardinality(M) # Cardinality(L)
    BY <2>1, <2>2, <2>3, FS_Subset
  <2> QED BY <2>4 DEF Rank
<1>4. ASSUME NEW i \in K, NEW j \in K, Rank(i, K) = Rank(j, K) PROVE i = j
  <2>1. i \in Nat /\ j \in Nat
    OBVIOUS
  <2>2. ~(i < j) /\ ~(j < i)
    BY <1>3, <1>4
  <2> QED BY <2>1, <2>2
<1>5. f \in Injection(K, 1..Cardinality(K))
  <2>1. f \in [K -> 1..Cardinality(K)]
    BY <1>2
  <2> QED BY <1>4, <2>1, Fun_IsInj
<1>6. f \in Surjection(K, 1..Cardinality(K))
  <2>1. IsFiniteSet(1..Cardinality(K)) /\ Cardinality(1..Cardinality(K)) = Cardinality(K)
    BY <1>1, FS_Interval
  <2> QED BY <1>1, <1>5, <2>1, FS_Injection
<1>7. ASSUME NEW j \in 1..Cardinality(K) PROVE \E i \in K : Rank(i, K) = j
  <2>1. \E i \in K : f[i] = j
    BY <1>6 DEF Surjection
  <2> QED BY <2>1
<1> QED BY <1>1, <1>2, <1>4, <1>7

\* A queue that lists nothing twice.
Distinct(s) == \A i, j \in DOMAIN s : s[i] = s[j] => i = j

\* Retain drops what is gone and nothing else, and lists nothing twice that was not.
LEMMA RetainKeeps ==
    ASSUME NEW s \in Seq(Hash), NEW gone
    PROVE  /\ Retain(s, gone) \in Seq(Hash)
           /\ Distinct(s) => Distinct(Retain(s, gone))
           /\ ToSet(Retain(s, gone)) = ToSet(s) \ gone
<1> DEFINE K == {i \in DOMAIN s : s[i] \notin gone}
           c == Cardinality(K)
           at(n) == CHOOSE i \in K : Rank(i, K) = n
           r == [n \in 1..c |-> s[at(n)]]
<1>1. Len(s) \in Nat /\ DOMAIN s = 1..Len(s) /\ s \in [1..Len(s) -> Hash]
  BY LenProperties
<1>2. K \in SUBSET (1..Len(s))
  BY <1>1
<1>3. /\ c \in Nat
      /\ \A i \in K : Rank(i, K) \in 1..c
      /\ \A i, j \in K : Rank(i, K) = Rank(j, K) => i = j
      /\ \A j \in 1..c : \E i \in K : Rank(i, K) = j
  <2> HIDE DEF K
  <2> QED BY <1>1, <1>2, RankIsBijection
<1> HIDE DEF K
<1>4. \A n \in 1..c : at(n) \in K /\ Rank(at(n), K) = n
  BY <1>3, Zenon
<1> HIDE DEF c, at
<1>5. \A i \in K : i \in DOMAIN s /\ s[i] \notin gone /\ s[i] \in Hash
  BY <1>1 DEF K
<1>6. r \in [1..c -> Hash] /\ r \in Seq(Hash) /\ DOMAIN r = 1..c
  <2>1. r \in [1..c -> Hash]
    BY <1>4, <1>5
  <2> QED BY <1>3, <2>1
<1>7. Distinct(s) => Distinct(r)
  <2> SUFFICES ASSUME Distinct(s), NEW m \in 1..c, NEW n \in 1..c, r[m] = r[n] PROVE m = n
    BY <1>6 DEF Distinct
  <2>1. at(m) = at(n)
    BY <1>4, <1>5 DEF Distinct
  <2> QED BY <1>4, <2>1
<1>8. ToSet(r) = ToSet(s) \ gone
  <2>1. ASSUME NEW x \in ToSet(r) PROVE x \in ToSet(s) \ gone
    BY <1>4, <1>5, <1>6 DEF ToSet
  <2>2. ASSUME NEW x \in ToSet(s), x \notin gone PROVE x \in ToSet(r)
    <3>1. PICK i \in DOMAIN s : x = s[i]
      BY DEF ToSet
    <3>2. i \in K
      BY <2>2, <3>1 DEF K
    <3>3. Rank(i, K) \in 1..c /\ at(Rank(i, K)) = i
      BY <1>3, <1>4, <3>2
    <3> QED BY <1>6, <3>1, <3>3 DEF ToSet
  <2> QED BY <2>1, <2>2
<1> QED BY <1>6, <1>7, <1>8 DEF Retain, K, c, at

\* Ranks are in the order of the positions.
LEMMA RankOrder ==
    ASSUME NEW n \in Nat, NEW K \in SUBSET (1..n)
    PROVE  \A i, j \in K : Rank(i, K) < Rank(j, K) <=> i < j
<1>0. /\ IsFiniteSet(K) /\ Cardinality(K) \in Nat
      /\ \A i \in K : Rank(i, K) \in 1..Cardinality(K)
      /\ \A i, j \in K : Rank(i, K) = Rank(j, K) => i = j
  BY RankIsBijection, Zenon
<1>1. /\ IsFiniteSet(K)
      /\ \A i \in K : i \in Nat /\ Rank(i, K) \in Nat
      /\ \A i, j \in K : Rank(i, K) = Rank(j, K) => i = j
  BY <1>0
<1>2. ASSUME NEW i \in K, NEW j \in K, i <= j PROVE Rank(i, K) <= Rank(j, K)
  <2> DEFINE low == {k \in K : k <= i}
             high == {k \in K : k <= j}
  <2>1. low \in SUBSET high
    <3>1. \A k \in K : k \in Nat
      BY <1>1
    <3>2. \A k \in K : k <= i => k <= j
      BY <1>2, <3>1
    <3> QED BY <3>2
  <2>2. IsFiniteSet(high)
    BY <1>1, FS_Subset
  <2> HIDE DEF low, high
  <2>3. Cardinality(low) <= Cardinality(high)
    BY <2>1, <2>2, FS_Subset
  <2> QED BY <2>3 DEF Rank, low, high
<1> SUFFICES ASSUME NEW i \in K, NEW j \in K PROVE Rank(i, K) < Rank(j, K) <=> i < j
  OBVIOUS
<1>3. CASE i < j
  <2>1. Rank(i, K) <= Rank(j, K) /\ Rank(i, K) # Rank(j, K)
    BY <1>1, <1>2, <1>3
  <2> QED BY <1>1, <1>3, <2>1
<1>4. CASE ~(i < j)
  <2>1. Rank(j, K) <= Rank(i, K)
    BY <1>1, <1>2, <1>4
  <2> QED BY <1>1, <1>4, <2>1
<1> QED BY <1>3, <1>4

\* What stays in a queue keeps its order.
LEMMA RetainOrder ==
    ASSUME NEW s \in Seq(Hash), NEW gone, NEW m \in DOMAIN Retain(s, gone),
           NEW n \in DOMAIN Retain(s, gone)
    PROVE  \E i, j \in DOMAIN s : /\ s[i] = Retain(s, gone)[m]
                                  /\ s[j] = Retain(s, gone)[n]
                                  /\ i < j <=> m < n
<1> DEFINE K == {i \in DOMAIN s : s[i] \notin gone}
           c == Cardinality(K)
           at(k) == CHOOSE i \in K : Rank(i, K) = k
<1>1. Len(s) \in Nat /\ DOMAIN s = 1..Len(s)
  BY LenProperties
<1>2. K \in SUBSET (1..Len(s))
  BY <1>1
<1>3. /\ \A j \in 1..c : \E i \in K : Rank(i, K) = j
      /\ \A i, j \in K : Rank(i, K) < Rank(j, K) <=> i < j
  <2> HIDE DEF K
  <2> QED BY <1>1, <1>2, RankIsBijection, RankOrder
<1> HIDE DEF K
<1>4. \A k \in 1..c : at(k) \in K /\ Rank(at(k), K) = k
  BY <1>3, Zenon
<1>5. /\ m \in 1..c /\ n \in 1..c
      /\ Retain(s, gone)[m] = s[at(m)] /\ Retain(s, gone)[n] = s[at(n)]
  BY Zenon DEF Retain, K
<1> HIDE DEF c, at
<1>6. at(m) \in DOMAIN s /\ at(n) \in DOMAIN s
  BY <1>4, <1>5 DEF K
<1>7. at(m) < at(n) <=> m < n
  BY <1>3, <1>4, <1>5
<1> QED BY <1>5, <1>6, <1>7

-----------------------------------------------------------------------------
(***************************************************************************)
(* The inductive invariant.  LruExact says that the queue is as long as    *)
(* the cache is large; here it lists nothing twice, which is what each     *)
(* step preserves.                                                         *)
(***************************************************************************)
QueueInv ==
    /\ Distinct(cache_lru)
    /\ ToSet(cache_lru) = CachedHashes

StorageInv == TypeOK /\ Accounting /\ QueueInv

\* ChunkStore counts bytes as ChunkStorage does.
LEMMA SameBytes == \A S : Store!TotalBytes(S) = TotalBytes(S)
BY Zenon DEF Store!TotalBytes, Store!BytesOf, Store!Cardinality, TotalBytes, BytesOf, Cardinality

\* What the invariant needs when the flags of some hashes have changed.
LEMMA FlagsToSets ==
    ASSUME TypeOK
    PROVE  /\ PinnedHashes \in SUBSET Hash /\ CachedHashes \in SUBSET Hash
           /\ PinnedHashes \cap CachedHashes = {}
           /\ Present = PinnedHashes \cup CachedHashes
BY DEF TypeOK, PinnedHashes, CachedHashes, Present

\* try_pin keeps the books and is a Pin of the abstract store.
LEMMA TryPinStep ==
    ASSUME StorageInv, NEW batch \in SeqOf(Hash, MaxBatch), TryPin(batch)
    PROVE  StorageInv' /\ Store!Pin(ToSet(batch)) /\ ToSet(batch) \in SUBSET Hash
<1> DEFINE B == ToSet(batch)
           P == PinnedHashes
           C == CachedHashes
<1>1. B \in SUBSET Hash
  BY DEF SeqOf, ToSet
<1>2. /\ P \in SUBSET Hash /\ C \in SUBSET Hash /\ P \cap C = {}
  BY FlagsToSets DEF StorageInv
<1>3. /\ PinnedHashes' = P \cup B
      /\ CachedHashes' = C \ B
      /\ chunks' \in [Hash -> {"absent", "pinned", "cached"}]
  BY <1>1 DEF TryPin, PinnedHashes, CachedHashes, StorageInv, TypeOK
<1>4. /\ pinned_bytes' = TotalBytes(P) + TotalBytes(B \ P)
      /\ pinned_bytes' <= MaxPinnedBytes
      /\ cached_bytes' = TotalBytes(C) - TotalBytes(B \cap C)
      /\ cache_lru' = Retain(cache_lru, B \cap C)
  BY DEF TryPin, RequiredBytes, StorageInv, Accounting
<1> HIDE DEF B, P, C
<1>5. TotalBytes(P \cup B) = TotalBytes(P) + TotalBytes(B \ P)
  <2>1. (P \cup B) = P \cup (B \ P) /\ P \cap (B \ P) = {}
    OBVIOUS
  <2> QED BY <1>1, <1>2, <2>1, BytesAdd
<1>6. TotalBytes(C \ B) = TotalBytes(C) - TotalBytes(B \cap C)
  <2>1. C \ B = C \ (B \cap C) /\ B \cap C \in SUBSET C
    OBVIOUS
  <2> QED BY <1>2, <2>1, BytesTake
<1>7. cached_bytes' <= MaxCachedBytes
  <2>1. TotalBytes(C) \in Nat /\ TotalBytes(B \cap C) \in Nat
    BY <1>2, BytesFinite
  <2>2. TotalBytes(C) <= MaxCachedBytes
    BY DEF C, StorageInv, Accounting
  <2> QED BY <1>4, <2>1, <2>2, StorageAssumption
<1>8. pinned_bytes' \in Nat /\ cached_bytes' \in Nat
  BY <1>1, <1>2, <1>4, <1>5, <1>6, BytesFinite
<1>9. cache_lru' \in Seq(Hash) /\ QueueInv'
  <2>1. cache_lru \in Seq(Hash) /\ Distinct(cache_lru) /\ ToSet(cache_lru) = C
    BY DEF StorageInv, TypeOK, QueueInv, C
  <2>2. /\ cache_lru' \in Seq(Hash) /\ Distinct(cache_lru')
        /\ ToSet(cache_lru') = C \ (B \cap C)
    BY <1>4, <2>1, RetainKeeps
  <2>3. C \ (B \cap C) = C \ B
    OBVIOUS
  <2> QED BY <1>3, <2>2, <2>3 DEF QueueInv, Distinct
<1>10. StorageInv'
  BY <1>3, <1>4, <1>5, <1>6, <1>7, <1>8, <1>9 DEF StorageInv, TypeOK, Accounting
<1>11. Store!Pin(B)
  BY <1>3, <1>4, <1>5, SameBytes DEF Store!Pin, P, C
<1> QED BY <1>1, <1>10, <1>11 DEF B

\* A step that changes the flag of one hash and tells the counters and the queue.
LEMMA OneHashStep ==
    ASSUME StorageInv, NEW h \in Hash, NEW flag \in {"absent", "pinned"},
           chunks[h] # "absent", chunks[h] # flag,
           chunks' = [chunks EXCEPT ![h] = flag],
           pinned_bytes' = pinned_bytes
                + (IF flag = "pinned" THEN Size[h] ELSE 0)
                - (IF chunks[h] = "pinned" THEN Size[h] ELSE 0),
           pinned_bytes' <= MaxPinnedBytes,
           cached_bytes' = cached_bytes - (IF chunks[h] = "cached" THEN Size[h] ELSE 0),
           cache_lru' = IF chunks[h] = "cached" THEN Retain(cache_lru, {h}) ELSE cache_lru
    PROVE  /\ StorageInv'
           /\ PinnedHashes' = IF flag = "pinned" THEN PinnedHashes \cup {h}
                                                 ELSE PinnedHashes \ {h}
           /\ CachedHashes' = CachedHashes \ {h}
<1> DEFINE P == PinnedHashes
           C == CachedHashes
<1>1. P \in SUBSET Hash /\ C \in SUBSET Hash /\ P \cap C = {} /\ {h} \in SUBSET Hash
  BY FlagsToSets DEF StorageInv
<1>2. /\ PinnedHashes' = IF flag = "pinned" THEN P \cup {h} ELSE P \ {h}
      /\ CachedHashes' = C \ {h}
      /\ chunks' \in [Hash -> {"absent", "pinned", "cached"}]
      /\ h \in C <=> chunks[h] = "cached"
      /\ h \in P <=> chunks[h] = "pinned"
  BY DEF PinnedHashes, CachedHashes, StorageInv, TypeOK
<1>3. /\ pinned_bytes = TotalBytes(P) /\ cached_bytes = TotalBytes(C)
      /\ cached_bytes <= MaxCachedBytes
      /\ cache_lru \in Seq(Hash) /\ Distinct(cache_lru) /\ ToSet(cache_lru) = C
  BY DEF StorageInv, Accounting, TypeOK, QueueInv
<1> HIDE DEF P, C
<1>4. /\ TotalBytes({h}) = Size[h] /\ Size[h] \in Nat
      /\ TotalBytes(P) \in Nat /\ TotalBytes(C) \in Nat
  BY <1>1, BytesOfOne, BytesFinite, ChunkAssumption
<1>5. pinned_bytes' = TotalBytes(PinnedHashes') /\ pinned_bytes' \in Nat
  <2>1. CASE flag = "pinned"
    <3>1. h \notin P /\ TotalBytes(P \cup {h}) = TotalBytes(P) + Size[h]
      BY <1>1, <1>2, <1>4, <2>1, BytesAdd, SMTT(30)
    <3> QED BY <1>2, <1>3, <1>4, <2>1, <3>1
  <2>2. CASE flag = "absent" /\ h \in P
    <3>1. {h} \in SUBSET P
      BY <2>2
    <3>2. TotalBytes(P \ {h}) = TotalBytes(P) - Size[h] /\ TotalBytes(P \ {h}) \in Nat
      BY <1>1, <1>4, <3>1, BytesTake
    <3> QED BY <1>2, <1>3, <1>4, <2>2, <3>2
  <2>3. CASE flag = "absent" /\ h \notin P
    <3>1. PinnedHashes' = P
      BY <1>2, <2>3
    <3>2. pinned_bytes' = TotalBytes(P)
      BY <1>2, <1>3, <1>4, <2>3
    <3> QED BY <1>4, <3>1, <3>2
  <2> QED BY <2>1, <2>2, <2>3
<1>6. cached_bytes' = TotalBytes(CachedHashes') /\ cached_bytes' \in Nat
      /\ cached_bytes' <= MaxCachedBytes
  <2>1. CASE h \in C
    <3>1. {h} \in SUBSET C
      BY <2>1
    <3>2. TotalBytes(C \ {h}) = TotalBytes(C) - Size[h] /\ TotalBytes(C \ {h}) \in Nat
      BY <1>1, <1>4, <3>1, BytesTake
    <3> QED BY <1>2, <1>3, <1>4, <2>1, <3>2, StorageAssumption
  <2>2. CASE h \notin C
    <3>1. CachedHashes' = C
      BY <1>2, <2>2
    <3>2. cached_bytes' = TotalBytes(C)
      BY <1>2, <1>3, <1>4, <2>2
    <3> QED BY <1>3, <1>4, <3>1, <3>2
  <2> QED BY <2>1, <2>2
<1>7. cache_lru' \in Seq(Hash) /\ QueueInv'
  <2>1. CASE h \in C
    BY <1>2, <1>3, <2>1, RetainKeeps DEF QueueInv, Distinct
  <2>2. CASE h \notin C
    <3>1. C \ {h} = C /\ cache_lru' = cache_lru
      BY <1>2, <2>2
    <3> QED BY <1>2, <1>3, <3>1 DEF QueueInv, Distinct
  <2> QED BY <2>1, <2>2
<1> QED BY <1>2, <1>5, <1>6, <1>7 DEF StorageInv, TypeOK, Accounting, P, C

\* What is left of a queue when its first n hashes are popped.
LEMMA PoppedQueue ==
    ASSUME NEW s \in Seq(Hash), Distinct(s), NEW n \in 0..Len(s)
    PROVE  LET front == SubSeq(s, 1, n)
               rest == SubSeq(s, n + 1, Len(s))
           IN  /\ rest \in Seq(Hash) /\ Distinct(rest)
               /\ ToSet(front) \in SUBSET ToSet(s)
               /\ ToSet(rest) = ToSet(s) \ ToSet(front)
               /\ Len(rest) = Len(s) - n /\ \A i \in 1..(Len(s) - n) : rest[i] = s[n + i]
<1> DEFINE front == SubSeq(s, 1, n)
           rest == SubSeq(s, n + 1, Len(s))
<1>1. Len(s) \in Nat /\ DOMAIN s = 1..Len(s) /\ \A i \in 1..Len(s) : s[i] \in Hash
  BY LenProperties
<1>2. ASSUME NEW k \in Int, NEW l \in Int, \A i \in k..l : s[i] \in Hash
      PROVE  /\ SubSeq(s, k, l) \in Seq(Hash)
             /\ Len(SubSeq(s, k, l)) = IF k <= l THEN l - k + 1 ELSE 0
             /\ \A i \in 1..(l - k + 1) : SubSeq(s, k, l)[i] = s[k + i - 1]
  BY <1>2, SubSeqProperties
<1>3. /\ front \in Seq(Hash) /\ Len(front) = IF 1 <= n THEN n - 1 + 1 ELSE 0
      /\ \A i \in 1..(n - 1 + 1) : front[i] = s[1 + i - 1]
  <2>1. n \in Int /\ 1 \in Int /\ \A i \in 1..n : s[i] \in Hash
    BY <1>1
  <2> QED BY <1>2, <2>1
<1>4. /\ rest \in Seq(Hash)
      /\ Len(rest) = IF n + 1 <= Len(s) THEN Len(s) - (n + 1) + 1 ELSE 0
      /\ \A i \in 1..(Len(s) - (n + 1) + 1) : rest[i] = s[n + 1 + i - 1]
  <2>1. n + 1 \in Int /\ Len(s) \in Int /\ \A i \in (n + 1)..Len(s) : s[i] \in Hash
    BY <1>1
  <2> QED BY <1>2, <2>1
<1> HIDE DEF front, rest
<1>5. DOMAIN front = 1..n /\ \A i \in 1..n : front[i] = s[i]
  BY <1>1, <1>3, LenProperties
<1>6. /\ DOMAIN rest = 1..(Len(s) - n) /\ Len(rest) = Len(s) - n
      /\ \A i \in 1..(Len(s) - n) : rest[i] = s[n + i]
  <2>1. PICK m \in Nat : m = Len(s)
    BY <1>1, Zenon
  <2>2. Len(rest) = Len(s) - n
    <3>1. m - (n + 1) + 1 = m - n
      BY <2>1
    <3>2. CASE n + 1 <= m
      BY <1>4, <2>1, <3>1, <3>2
    <3>3. CASE ~(n + 1 <= m)
      <4>1. m - n = 0
        BY <2>1, <3>3
      <4> QED BY <1>4, <2>1, <3>3, <4>1
    <3> QED BY <3>2, <3>3
  <2>3. DOMAIN rest = 1..(Len(s) - n)
    BY <1>4, <2>2, LenProperties
  <2>4. ASSUME NEW i \in 1..(Len(s) - n) PROVE rest[i] = s[n + i]
    <3>1. i \in 1..(m - n)
      BY <2>1
    <3>2. n + 1 + i - 1 = n + i /\ i \in 1..(m - (n + 1) + 1)
      BY <3>1
    <3> QED BY <1>4, <2>1, <3>2
  <2> QED BY <2>2, <2>3, <2>4
<1>7. Distinct(rest)
  <2> SUFFICES ASSUME NEW i \in 1..(Len(s) - n), NEW j \in 1..(Len(s) - n), rest[i] = rest[j]
               PROVE  i = j
    BY <1>6 DEF Distinct
  <2>1. n + i \in DOMAIN s /\ n + j \in DOMAIN s /\ s[n + i] = s[n + j]
    BY <1>1, <1>6
  <2>2. n + i = n + j
    BY <2>1 DEF Distinct
  <2> QED BY <2>2
<1>8. ASSUME NEW x \in ToSet(front) PROVE x \in ToSet(s) /\ x \notin ToSet(rest)
  <2>1. PICK i \in 1..n : x = s[i]
    BY <1>5 DEF ToSet
  <2>2. x \in ToSet(s)
    BY <1>1, <2>1 DEF ToSet
  <2>3. ASSUME NEW j \in 1..(Len(s) - n), x = s[n + j] PROVE FALSE
    <3>1. i \in DOMAIN s /\ n + j \in DOMAIN s
      BY <1>1
    <3>2. i = n + j
      BY <2>1, <2>3, <3>1 DEF Distinct
    <3> QED BY <3>2
  <2> QED BY <1>6, <2>2, <2>3 DEF ToSet
<1>9. ASSUME NEW x \in ToSet(s), x \notin ToSet(front) PROVE x \in ToSet(rest)
  <2>1. PICK i \in 1..Len(s) : x = s[i]
    BY <1>1 DEF ToSet
  <2>2. i \notin 1..n
    BY <1>5, <1>9, <2>1 DEF ToSet
  <2>3. i - n \in 1..(Len(s) - n) /\ n + (i - n) = i
    BY <1>1, <2>2
  <2>4. rest[i - n] = x
    BY <1>6, <2>1, <2>3
  <2> QED BY <1>6, <2>3, <2>4 DEF ToSet
<1>10. ASSUME NEW x \in ToSet(rest) PROVE x \in ToSet(s)
  <2>1. PICK i \in 1..(Len(s) - n) : x = s[n + i]
    BY <1>6 DEF ToSet
  <2> QED BY <1>1, <2>1 DEF ToSet
<1> QED BY <1>4, <1>6, <1>7, <1>8, <1>9, <1>10 DEF front, rest

\* cache() stops popping as soon as the chunk fits, or with an empty queue.
LEMMA PopCountExists ==
    ASSUME StorageInv, NEW h \in Hash
    PROVE  /\ PopCount(h) \in 0..Len(cache_lru)
           /\ FitsAfter(PopCount(h), h) \/ PopCount(h) = Len(cache_lru)
           /\ \A m \in 0..(PopCount(h) - 1) : ~FitsAfter(m, h)
<1> DEFINE T == {n \in 0..Len(cache_lru) : FitsAfter(n, h) \/ n = Len(cache_lru)}
<1>1. Len(cache_lru) \in Nat
  BY LenProperties DEF StorageInv, TypeOK
<1>2. T \in SUBSET Nat /\ Len(cache_lru) \in T
  BY <1>1
<1>3. PICK n \in T : \A k \in T : n <= k
  BY <1>2, LeastElement
<1>4. \A m \in 0..(n - 1) : ~FitsAfter(m, h)
  <2> SUFFICES ASSUME NEW m \in 0..(n - 1), FitsAfter(m, h) PROVE FALSE
    OBVIOUS
  <2>1. m \in T
    BY <1>1
  <2> QED BY <1>3, <2>1
<1>5. /\ n \in 0..Len(cache_lru)
      /\ FitsAfter(n, h) \/ n = Len(cache_lru)
      /\ \A m \in 0..(n - 1) : ~FitsAfter(m, h)
  BY <1>4
<1> QED BY <1>5, Zenon DEF PopCount

\* cache() drops chunks from the front of the queue, all of them cached, until the
\* new one fits beside the rest.
LEMMA CacheIs ==
    ASSUME StorageInv, NEW h \in Hash, Cache(h)
    PROVE  LET P == PinnedHashes
               C == CachedHashes
               n == PopCount(h)
               G == ToSet(SubSeq(cache_lru, 1, n))
               rest == SubSeq(cache_lru, n + 1, Len(cache_lru))
           IN  /\ n \in 0..Len(cache_lru) /\ \A m \in 0..(n - 1) : ~FitsAfter(m, h)
               /\ rest \in Seq(Hash) /\ Distinct(rest)
               /\ G \in SUBSET C /\ ToSet(rest) = C \ G
               /\ h \notin P \cup C /\ ~(Size[h] > MaxCachedBytes) /\ Size[h] \in Nat
               /\ TotalBytes(C \ G) = TotalBytes(C) - TotalBytes(G) /\ TotalBytes(C \ G) \in Nat
               /\ TotalBytes((C \ G) \cup {h}) = TotalBytes(C \ G) + Size[h]
               /\ TotalBytes(C \cup {h}) = TotalBytes(C) + Size[h]
               /\ TotalBytes(C) - TotalBytes(G) + Size[h] <= MaxCachedBytes
               /\ chunks' = [x \in Hash |-> IF x \in {h} THEN "cached"
                                          ELSE IF x \in G THEN "absent" ELSE chunks[x]]
               /\ cache_lru' = Append(rest, h)
               /\ cached_bytes' = TotalBytes(C) - TotalBytes(G) + TotalBytes({h})
               /\ pinned_bytes' = pinned_bytes
<1> DEFINE P == PinnedHashes
           C == CachedHashes
           n == PopCount(h)
           G == ToSet(SubSeq(cache_lru, 1, n))
           rest == SubSeq(cache_lru, n + 1, Len(cache_lru))
<1>1. /\ P \in SUBSET Hash /\ C \in SUBSET Hash /\ P \cap C = {}
      /\ Present = P \cup C
  BY FlagsToSets DEF StorageInv
<1>2. /\ pinned_bytes = TotalBytes(P) /\ cached_bytes = TotalBytes(C)
      /\ pinned_bytes \in Nat /\ pinned_bytes <= MaxPinnedBytes
      /\ cached_bytes <= MaxCachedBytes
      /\ cache_lru \in Seq(Hash) /\ Distinct(cache_lru) /\ ToSet(cache_lru) = C
  BY DEF StorageInv, Accounting, TypeOK, QueueInv
<1>3. /\ n \in 0..Len(cache_lru) /\ Len(cache_lru) \in Nat
      /\ FitsAfter(n, h) \/ n = Len(cache_lru)
      /\ \A m \in 0..(n - 1) : ~FitsAfter(m, h)
  BY <1>2, PopCountExists, LenProperties
<1>4. /\ rest \in Seq(Hash) /\ Distinct(rest)
      /\ G \in SUBSET C /\ ToSet(rest) = C \ G
  <2> HIDE DEF P, C, n
  <2>1. LET front == SubSeq(cache_lru, 1, n)
            left == SubSeq(cache_lru, n + 1, Len(cache_lru))
        IN  /\ left \in Seq(Hash) /\ Distinct(left)
            /\ ToSet(front) \in SUBSET ToSet(cache_lru)
            /\ ToSet(left) = ToSet(cache_lru) \ ToSet(front)
    BY <1>2, <1>3, PoppedQueue
  <2> QED BY <1>2, <2>1
<1>5. Popped(n) = G
  BY <1>1, <1>4 DEF Popped
<1>6. h \notin P \cup C /\ ~(Size[h] > MaxCachedBytes) /\ Size[h] \in Nat
  <2>1. chunks[h] = "absent" /\ Size[h] <= MaxCachedBytes
    BY DEF Cache
  <2> QED BY <2>1, ChunkAssumption, StorageAssumption DEF PinnedHashes, CachedHashes
<1>7. /\ TotalBytes(C \ G) = TotalBytes(C) - TotalBytes(G) /\ TotalBytes(C \ G) \in Nat
      /\ TotalBytes((C \ G) \cup {h}) = TotalBytes(C \ G) + Size[h]
      /\ TotalBytes(C \cup {h}) = TotalBytes(C) + Size[h]
  <2> HIDE DEF P, C, G
  <2>1. TotalBytes({h}) = Size[h]
    BY BytesOfOne
  <2>2. {h} \in SUBSET Hash /\ (C \ G) \in SUBSET Hash /\ (C \ G) \cap {h} = {} /\ C \cap {h} = {}
    BY <1>1, <1>6
  <2>3. TotalBytes((C \ G) \cup {h}) = TotalBytes(C \ G) + TotalBytes({h})
    BY <2>2, BytesAdd
  <2>4. TotalBytes(C \cup {h}) = TotalBytes(C) + TotalBytes({h})
    BY <1>1, <2>2, BytesAdd
  <2> QED BY <1>1, <1>4, <2>1, <2>3, <2>4, BytesTake
<1>8. FitsAfter(n, h)
  <2>1. CASE n = Len(cache_lru)
    <3>1. SubSeq(cache_lru, 1, Len(cache_lru)) = cache_lru
      BY <1>2, SubSeqFull
    <3>2. G = C
      BY <1>2, <2>1, <3>1
    <3>3. TotalBytes(C) - TotalBytes(G) = 0
      BY <1>1, <3>2, BytesFinite
    <3> QED BY <1>2, <1>5, <1>6, <3>3, StorageAssumption DEF FitsAfter
  <2> QED BY <1>3, <2>1
<1>9. /\ chunks' = [x \in Hash |-> IF x \in {h} THEN "cached"
                                 ELSE IF x \in G THEN "absent" ELSE chunks[x]]
      /\ cache_lru' = Append(rest, h)
      /\ cached_bytes' = TotalBytes(C) - TotalBytes(G) + TotalBytes({h})
      /\ pinned_bytes' = pinned_bytes
  BY <1>2, <1>5, <1>8 DEF Cache
<1>10. TotalBytes(C) - TotalBytes(G) + Size[h] <= MaxCachedBytes
  BY <1>2, <1>5, <1>8 DEF FitsAfter
<1> HIDE DEF P, C, G, n, rest
<1> QED BY <1>3, <1>4, <1>6, <1>7, <1>9, <1>10 DEF P, C, G, n, rest

\* cache() keeps the books: what is popped is cached, the new chunk fits, and it
\* displaces nothing if it fits beside the rest.
LEMMA CacheStep ==
    ASSUME StorageInv, NEW h \in Hash, Cache(h)
    PROVE  StorageInv' /\ Store!Cache(h)
<1> DEFINE P == PinnedHashes
           C == CachedHashes
           n == PopCount(h)
           G == ToSet(SubSeq(cache_lru, 1, n))
           rest == SubSeq(cache_lru, n + 1, Len(cache_lru))
<1>1. /\ P \in SUBSET Hash /\ C \in SUBSET Hash /\ P \cap C = {}
      /\ Present = P \cup C
  BY FlagsToSets DEF StorageInv
<1>2. /\ pinned_bytes = TotalBytes(P) /\ cached_bytes = TotalBytes(C)
      /\ pinned_bytes \in Nat /\ pinned_bytes <= MaxPinnedBytes
      /\ cached_bytes <= MaxCachedBytes
      /\ cache_lru \in Seq(Hash) /\ Distinct(cache_lru) /\ ToSet(cache_lru) = C
  BY DEF StorageInv, Accounting, TypeOK, QueueInv
<1>3. n \in 0..Len(cache_lru) /\ \A m \in 0..(n - 1) : ~FitsAfter(m, h)
  BY CacheIs
<1>4. rest \in Seq(Hash) /\ Distinct(rest) /\ G \in SUBSET C /\ ToSet(rest) = C \ G
  BY CacheIs
<1>6. h \notin P \cup C /\ ~(Size[h] > MaxCachedBytes) /\ Size[h] \in Nat
  BY CacheIs
<1>7. /\ TotalBytes(C \ G) = TotalBytes(C) - TotalBytes(G) /\ TotalBytes(C \ G) \in Nat
      /\ TotalBytes((C \ G) \cup {h}) = TotalBytes(C \ G) + Size[h]
      /\ TotalBytes(C \cup {h}) = TotalBytes(C) + Size[h]
  BY CacheIs
<1>9. /\ chunks' = [x \in Hash |-> IF x \in {h} THEN "cached"
                                 ELSE IF x \in G THEN "absent" ELSE chunks[x]]
      /\ cache_lru' = Append(rest, h)
      /\ cached_bytes' = TotalBytes(C) - TotalBytes(G) + TotalBytes({h})
      /\ pinned_bytes' = pinned_bytes
  BY CacheIs
<1>11. TotalBytes(C) - TotalBytes(G) + Size[h] <= MaxCachedBytes
  BY CacheIs
<1>10. /\ PinnedHashes' = P /\ CachedHashes' = (C \ G) \cup {h}
       /\ chunks' \in [Hash -> {"absent", "pinned", "cached"}]
  BY <1>1, <1>4, <1>6, <1>9 DEF PinnedHashes, CachedHashes, StorageInv, TypeOK
<1> HIDE DEF P, C, G, n, rest
<1>12. /\ cached_bytes' = TotalBytes(CachedHashes') /\ cached_bytes' \in Nat
       /\ cached_bytes' <= MaxCachedBytes
  BY <1>6, <1>7, <1>9, <1>10, <1>11, BytesOfOne
<1>13. cache_lru' \in Seq(Hash) /\ QueueInv'
  <2>1. /\ Len(rest) \in Nat /\ DOMAIN rest = 1..Len(rest)
        /\ Append(rest, h) \in Seq(Hash)
        /\ DOMAIN Append(rest, h) = 1..(Len(rest) + 1)
        /\ \A i \in 1..Len(rest) : Append(rest, h)[i] = rest[i]
        /\ Append(rest, h)[Len(rest) + 1] = h
    BY <1>4, AppendProperties, LenProperties
  <2>2. \A i \in 1..Len(rest) : rest[i] # h
    BY <1>4, <1>6, <2>1 DEF ToSet
  <2>3. Distinct(Append(rest, h))
    BY <1>4, <2>1, <2>2 DEF Distinct
  <2>4. ToSet(Append(rest, h)) = (C \ G) \cup {h}
    <3>1. ASSUME NEW x \in ToSet(Append(rest, h)) PROVE x \in ToSet(rest) \cup {h}
      BY <2>1 DEF ToSet
    <3>2. ASSUME NEW x \in ToSet(rest) \cup {h} PROVE x \in ToSet(Append(rest, h))
      BY <2>1 DEF ToSet
    <3> QED BY <1>4, <3>1, <3>2
  <2> QED BY <1>9, <1>10, <2>1, <2>3, <2>4 DEF QueueInv, Distinct
<1>14. StorageInv'
  BY <1>2, <1>9, <1>10, <1>12, <1>13 DEF StorageInv, TypeOK, Accounting
<1>15. CASE TotalBytes(C \cup {h}) <= MaxCachedBytes
  <2>1. G = {}
    <3>1. SubSeq(cache_lru, 1, 0) = << >>
      BY SubSeqEmpty
    <3>2. Popped(0) = {}
      BY <3>1 DEF Popped, ToSet
    <3>3. TotalBytes({}) = 0 /\ TotalBytes(C) \in Nat
      BY <1>1, BytesOfOne, BytesFinite
    <3>4. TotalBytes(Popped(0)) = 0
      BY <3>2, <3>3
    <3>5. cached_bytes - TotalBytes(Popped(0)) + Size[h] <= MaxCachedBytes
      BY <1>2, <1>6, <1>7, <1>15, <3>3, <3>4
    <3>6. FitsAfter(0, h)
      BY <3>5, Zenon DEF FitsAfter
    <3>7. n = 0
      BY <1>3, <3>6
    <3> QED BY <3>1, <3>7 DEF G, ToSet
  <2>2. CachedHashes' \in {C \cup {h}}
    BY <1>10, <2>1
  <2>3. Store!TotalBytes(C \cup {h}) <= MaxCachedBytes
    BY <1>15, SameBytes
  <2>4. CachedHashes' \in Store!CacheOutcomes(P, C, h, MaxCachedBytes)
    BY <1>6, <2>2, <2>3, Zenon DEF Store!CacheOutcomes
  <2> QED BY <1>10, <1>14, <2>4 DEF Store!Cache, P, C
<1>16. CASE ~(TotalBytes(C \cup {h}) <= MaxCachedBytes)
  <2>1. (C \ G) \cup {h} \in {kept \cup {h} : kept \in SUBSET C}
    OBVIOUS
  <2>2. Store!TotalBytes((C \ G) \cup {h}) <= MaxCachedBytes
    BY <1>10, <1>12, SameBytes
  <2>3. CachedHashes' \in {k \in {kept \cup {h} : kept \in SUBSET C} :
                                Store!TotalBytes(k) <= MaxCachedBytes}
    BY <1>10, <2>1, <2>2, Zenon
  <2>4. ~(Store!TotalBytes(C \cup {h}) <= MaxCachedBytes)
    BY <1>16, SameBytes
  <2>5. CachedHashes' \in Store!CacheOutcomes(P, C, h, MaxCachedBytes)
    BY <1>6, <2>3, <2>4, Zenon DEF Store!CacheOutcomes
  <2> QED BY <1>10, <1>14, <2>5 DEF Store!Cache, P, C
<1> QED BY <1>15, <1>16

\* Behind the chunks of T there are only chunks of U.
IsBehind(T, U, queue) ==
    \A i, j \in DOMAIN queue : i < j /\ queue[i] \in T => queue[j] \in U

\* cache() drops no chunk of T, if those of U fit into the cache, and keeps the new one.
LEMMA CacheSpares ==
    ASSUME StorageInv, NEW U \in SUBSET Hash, NEW T \in SUBSET U, NEW h \in U, Cache(h),
           TotalBytes(U) <= MaxCachedBytes, IsBehind(T, U, cache_lru)
    PROVE  /\ IsBehind(T, U, cache_lru')
           /\ chunks'[h] = "cached"
           /\ \A x \in T : chunks'[x] = IF x = h THEN "cached" ELSE chunks[x]
<1> DEFINE C == CachedHashes
           n == PopCount(h)
           G == ToSet(SubSeq(cache_lru, 1, n))
           rest == SubSeq(cache_lru, n + 1, Len(cache_lru))
<1>1. /\ cache_lru \in Seq(Hash) /\ Distinct(cache_lru) /\ ToSet(cache_lru) = C
      /\ Len(cache_lru) \in Nat /\ DOMAIN cache_lru = 1..Len(cache_lru)
      /\ cached_bytes = TotalBytes(C) /\ C \in SUBSET Hash /\ C \in SUBSET Present
  BY LenProperties DEF StorageInv, Accounting, TypeOK, QueueInv, CachedHashes, Present
<1>2. n \in 0..Len(cache_lru) /\ \A m \in 0..(n - 1) : ~FitsAfter(m, h)
  BY CacheIs
<1>3. h \notin C /\ Size[h] \in Nat /\ h \in Hash
  BY CacheIs
<1>4. /\ chunks' = [x \in Hash |-> IF x \in {h} THEN "cached"
                                 ELSE IF x \in G THEN "absent" ELSE chunks[x]]
      /\ cache_lru' = Append(rest, h)
  BY CacheIs
<1> HIDE DEF C, n
<1>5. ASSUME NEW x \in T, x \in G PROVE FALSE
  <2>1. PICK i \in 1..n : x = cache_lru[i]
    <3>1. DOMAIN SubSeq(cache_lru, 1, n) = 1..n
          /\ \A i \in 1..n : SubSeq(cache_lru, 1, n)[i] = cache_lru[i]
      BY <1>1, <1>2, SubSeqProperties, LenProperties
    <3> QED BY <1>5, <3>1 DEF ToSet
  <2> DEFINE m == i - 1
             front == SubSeq(cache_lru, 1, m)
             left == SubSeq(cache_lru, m + 1, Len(cache_lru))
  <2>2. m \in 0..(n - 1) /\ m \in 0..Len(cache_lru) /\ i \in DOMAIN cache_lru
    BY <1>1, <1>2
  <2>3. ~FitsAfter(m, h)
    BY <1>2, <2>2
  <2>4. /\ Len(left) = Len(cache_lru) - m /\ DOMAIN left = 1..(Len(cache_lru) - m)
        /\ \A k \in 1..(Len(cache_lru) - m) : left[k] = cache_lru[m + k]
    BY <1>1, <2>2, SubSeqProperties, LenProperties
  <2> HIDE DEF m
  <2>5. ToSet(front) \in SUBSET C /\ ToSet(left) = C \ ToSet(front)
    BY <1>1, <2>2, PoppedQueue
  <2> HIDE DEF front, left
  <2>6. ASSUME NEW y \in ToSet(left) PROVE y \in U
    <3>1. PICK k \in 1..(Len(cache_lru) - m) : y = cache_lru[m + k]
      BY <2>4 DEF ToSet
    <3>2. m + k \in DOMAIN cache_lru /\ (m + k = i \/ i < m + k)
      BY <1>1, <2>2 DEF m
    <3>3. CASE m + k = i
      BY <1>5, <2>1, <3>1, <3>3
    <3>4. CASE i < m + k
      BY <1>5, <2>1, <2>2, <3>1, <3>2, <3>4 DEF IsBehind
    <3> QED BY <3>2, <3>3, <3>4
  <2>7. (C \ ToSet(front)) \cup {h} \in SUBSET U
    BY <2>5, <2>6
  <2>8. TotalBytes((C \ ToSet(front)) \cup {h}) <= TotalBytes(U)
    BY <2>7, BytesTake
  <2>9. /\ TotalBytes(C \ ToSet(front)) = TotalBytes(C) - TotalBytes(ToSet(front))
        /\ TotalBytes({h}) = Size[h]
    BY <1>1, <1>3, <2>5, BytesTake, BytesOfOne
  <2>10. TotalBytes((C \ ToSet(front)) \cup {h}) = TotalBytes(C \ ToSet(front)) + TotalBytes({h})
    BY <1>1, <1>3, <2>5, BytesAdd
  <2>11. Popped(m) = ToSet(front)
    BY <1>1, <2>5 DEF Popped, front
  <2>12. /\ TotalBytes(U) \in Nat /\ TotalBytes(C) \in Nat /\ TotalBytes(ToSet(front)) \in Nat
    BY <1>1, <2>5, BytesFinite
  <2>13. TotalBytes(C) - TotalBytes(ToSet(front)) + Size[h] <= MaxCachedBytes
    BY <1>3, <2>8, <2>9, <2>10, <2>12, StorageAssumption
  <2> QED BY <1>1, <2>3, <2>11, <2>13 DEF FitsAfter
<1>6. /\ chunks'[h] = "cached"
      /\ \A x \in T : chunks'[x] = IF x = h THEN "cached" ELSE chunks[x]
  BY <1>4, <1>5
<1> HIDE DEF G
<1>7. IsBehind(T, U, cache_lru')
  <2>0. n \in Nat /\ n <= Len(cache_lru)
    BY <1>1, <1>2
  <2>1. /\ rest \in Seq(Hash) /\ Len(rest) \in Nat /\ Len(rest) = Len(cache_lru) - n
        /\ \A k \in 1..Len(rest) : rest[k] = cache_lru[n + k]
    <3>1. /\ rest \in Seq(Hash) /\ Len(rest) = Len(cache_lru) - n
          /\ \A k \in 1..(Len(cache_lru) - n) : rest[k] = cache_lru[n + k]
      BY <1>1, <1>2, PoppedQueue
    <3> HIDE DEF rest
    <3> QED BY <1>1, <3>1, LenProperties, SMTT(30)
  <2> HIDE DEF rest
  <2>2. /\ Append(rest, h) \in Seq(Hash) /\ DOMAIN Append(rest, h) = 1..(Len(rest) + 1)
        /\ \A k \in 1..Len(rest) : Append(rest, h)[k] = rest[k]
        /\ Append(rest, h)[Len(rest) + 1] = h
    BY <1>3, <2>1, AppendProperties, LenProperties
  <2>3. ASSUME NEW i \in 1..(Len(rest) + 1), NEW j \in 1..(Len(rest) + 1), i < j,
               Append(rest, h)[i] \in T
        PROVE  Append(rest, h)[j] \in U
    <3>1. CASE j = Len(rest) + 1
      BY <2>2, <3>1
    <3>2. CASE j # Len(rest) + 1
      <4>1. /\ i \in 1..Len(rest) /\ j \in 1..Len(rest)
            /\ n + i \in DOMAIN cache_lru /\ n + j \in DOMAIN cache_lru /\ n + i < n + j
        <5>1. i \in Nat /\ j \in Nat /\ 1 <= i /\ i < j /\ j <= Len(rest)
          BY <2>1, <2>3, <3>2
        <5> QED BY <1>1, <2>0, <2>1, <5>1
      <4>2. /\ Append(rest, h)[i] = cache_lru[n + i] /\ Append(rest, h)[j] = cache_lru[n + j]
        BY <2>1, <2>2, <4>1
      <4> QED BY <2>3, <4>1, <4>2 DEF IsBehind
    <3> QED BY <3>1, <3>2
  <2> QED BY <1>4, <2>2, <2>3 DEF IsBehind
<1> QED BY <1>6, <1>7

\* What stays in the queue is behind what it was behind.
LEMMA RetainBehind ==
    ASSUME NEW s \in Seq(Hash), NEW gone, NEW T, NEW U, IsBehind(T, U, s)
    PROVE  IsBehind(T, U, Retain(s, gone))
<1> DEFINE r == Retain(s, gone)
<1> SUFFICES ASSUME NEW m \in DOMAIN r, NEW n \in DOMAIN r, m < n, r[m] \in T
             PROVE  r[n] \in U
  BY DEF IsBehind
<1>1. PICK i, j \in DOMAIN s : s[i] = r[m] /\ s[j] = r[n] /\ (i < j <=> m < n)
  BY RetainOrder
<1> QED BY <1>1 DEF IsBehind

\* Used last: a hash goes to the end of the queue, which lists what it did.
UsedLast(queue, h) == Append(Retain(queue, {h}), h)

LEMMA UsedLastKeeps ==
    ASSUME NEW s \in Seq(Hash), Distinct(s), NEW h \in ToSet(s)
    PROVE  /\ UsedLast(s, h) \in Seq(Hash) /\ Distinct(UsedLast(s, h))
           /\ ToSet(UsedLast(s, h)) = ToSet(s)
<1> DEFINE q == Retain(s, {h})
<1>1. q \in Seq(Hash) /\ Distinct(q) /\ ToSet(q) = ToSet(s) \ {h}
  BY RetainKeeps
<1>2. h \in Hash
  BY DEF ToSet
<1> HIDE DEF q
<1>3. /\ Len(q) \in Nat /\ DOMAIN q = 1..Len(q)
      /\ Append(q, h) \in Seq(Hash)
      /\ DOMAIN Append(q, h) = 1..(Len(q) + 1)
      /\ \A i \in 1..Len(q) : Append(q, h)[i] = q[i]
      /\ Append(q, h)[Len(q) + 1] = h
  BY <1>1, <1>2, AppendProperties, LenProperties
<1>4. \A i \in 1..Len(q) : q[i] # h
  BY <1>1, <1>3 DEF ToSet
<1>5. Distinct(Append(q, h))
  BY <1>1, <1>3, <1>4 DEF Distinct
<1>6. ToSet(Append(q, h)) = ToSet(s)
  <2>1. ASSUME NEW x \in ToSet(Append(q, h)) PROVE x \in ToSet(q) \cup {h}
    BY <1>3 DEF ToSet
  <2>2. ASSUME NEW x \in ToSet(q) \cup {h} PROVE x \in ToSet(Append(q, h))
    BY <1>3 DEF ToSet
  <2> QED BY <1>1, <2>1, <2>2
<1> QED BY <1>3, <1>5, <1>6 DEF UsedLast, q

\* A chunk of U that is used is behind all others.
LEMMA UsedLastBehind ==
    ASSUME NEW s \in Seq(Hash), NEW T, NEW U, IsBehind(T, U, s), NEW h \in Hash, h \in U
    PROVE  IsBehind(T, U, UsedLast(s, h))
<1> DEFINE q == Retain(s, {h})
<1>1. q \in Seq(Hash) /\ IsBehind(T, U, q)
  BY RetainKeeps, RetainBehind
<1> HIDE DEF q
<1>2. /\ Len(q) \in Nat /\ DOMAIN q = 1..Len(q)
      /\ DOMAIN Append(q, h) = 1..(Len(q) + 1)
      /\ \A i \in 1..Len(q) : Append(q, h)[i] = q[i]
      /\ Append(q, h)[Len(q) + 1] = h
  BY <1>1, AppendProperties, LenProperties
<1>3. ASSUME NEW i \in 1..(Len(q) + 1), NEW j \in 1..(Len(q) + 1), i < j,
             Append(q, h)[i] \in T
      PROVE  Append(q, h)[j] \in U
  <2>1. CASE j = Len(q) + 1
    BY <1>2, <2>1
  <2>2. CASE j # Len(q) + 1
    <3>1. i \in 1..Len(q) /\ j \in 1..Len(q)
      BY <1>2, <1>3, <2>2
    <3> QED BY <1>1, <1>2, <1>3, <3>1 DEF IsBehind
  <2> QED BY <2>1, <2>2
<1> QED BY <1>2, <1>3 DEF IsBehind, UsedLast, q

\* get() moves a hash to the end of the queue.
LEMMA GetStep ==
    ASSUME StorageInv, NEW h \in Hash, Get(h)
    PROVE  StorageInv' /\ UNCHANGED <<PinnedHashes, CachedHashes>>
<1>1. /\ cache_lru \in Seq(Hash) /\ Distinct(cache_lru) /\ ToSet(cache_lru) = CachedHashes
      /\ h \in CachedHashes
  BY DEF StorageInv, TypeOK, QueueInv, Get, CachedHashes
<1>2. /\ PinnedHashes' = PinnedHashes /\ CachedHashes' = CachedHashes
      /\ cache_lru' = UsedLast(cache_lru, h)
      /\ UNCHANGED <<chunks, pinned_bytes, cached_bytes>>
  BY DEF Get, PinnedHashes, CachedHashes, UsedLast
<1>3. cache_lru' \in Seq(Hash) /\ QueueInv'
  BY <1>1, <1>2, UsedLastKeeps DEF QueueInv, Distinct
<1> QED BY <1>2, <1>3 DEF StorageInv, TypeOK, Accounting

\* promote_to_pinned() is a Pin of one chunk.
LEMMA PromoteStep ==
    ASSUME StorageInv, NEW h \in Hash, PromoteToPinned(h)
    PROVE  StorageInv' /\ Store!Pin({h})
<1>1. /\ chunks[h] = "cached" /\ chunks' = [chunks EXCEPT ![h] = "pinned"]
      /\ pinned_bytes \in Nat /\ Size[h] \in Nat
      /\ pinned_bytes' = pinned_bytes + Size[h] /\ pinned_bytes' <= MaxPinnedBytes
      /\ cached_bytes' = cached_bytes - Size[h]
      /\ cache_lru' = Retain(cache_lru, {h})
  BY ChunkAssumption DEF PromoteToPinned, StorageInv, TypeOK
<1>2. /\ pinned_bytes' = pinned_bytes + (IF "pinned" = "pinned" THEN Size[h] ELSE 0)
                                      - (IF chunks[h] = "pinned" THEN Size[h] ELSE 0)
      /\ cached_bytes' = cached_bytes - (IF chunks[h] = "cached" THEN Size[h] ELSE 0)
      /\ cache_lru' = IF chunks[h] = "cached" THEN Retain(cache_lru, {h}) ELSE cache_lru
  BY <1>1
<1>3. /\ StorageInv'
      /\ PinnedHashes' = PinnedHashes \cup {h}
      /\ CachedHashes' = CachedHashes \ {h}
  BY <1>1, <1>2, OneHashStep
<1>4. Store!TotalBytes(PinnedHashes \cup {h}) <= MaxPinnedBytes
  BY <1>1, <1>3, SameBytes DEF StorageInv, Accounting
<1> QED BY <1>3, <1>4 DEF Store!Pin

\* evict() takes one chunk away, pinned or cached.
LEMMA EvictStep ==
    ASSUME StorageInv, NEW h \in Hash, Evict(h)
    PROVE  StorageInv' /\ Store!Evict({h})
<1>1. /\ chunks[h] # "absent" /\ chunks[h] \in {"pinned", "cached"}
      /\ chunks' = [chunks EXCEPT ![h] = "absent"]
      /\ pinned_bytes \in Nat /\ cached_bytes \in Nat /\ Size[h] \in Nat
      /\ pinned_bytes <= MaxPinnedBytes
  BY ChunkAssumption DEF Evict, EvictPinned, EvictCached, StorageInv, TypeOK, Accounting
<1>2. /\ pinned_bytes' = pinned_bytes + (IF "absent" = "pinned" THEN Size[h] ELSE 0)
                                      - (IF chunks[h] = "pinned" THEN Size[h] ELSE 0)
      /\ cached_bytes' = cached_bytes - (IF chunks[h] = "cached" THEN Size[h] ELSE 0)
      /\ cache_lru' = IF chunks[h] = "cached" THEN Retain(cache_lru, {h}) ELSE cache_lru
      /\ pinned_bytes' <= MaxPinnedBytes
  BY <1>1, StorageAssumption DEF Evict, EvictPinned, EvictCached
<1>3. /\ StorageInv'
      /\ PinnedHashes' = PinnedHashes \ {h}
      /\ CachedHashes' = CachedHashes \ {h}
  BY <1>1, <1>2, OneHashStep
<1> QED BY <1>3 DEF Store!Evict

-----------------------------------------------------------------------------
(***************************************************************************)
(* The theorems.                                                           *)
(***************************************************************************)

\* The empty store is in order.
LEMMA InitStorage == Init => StorageInv /\ Store!StoreInit
<1> SUFFICES ASSUME Init PROVE StorageInv /\ Store!StoreInit
  OBVIOUS
<1>1. PinnedHashes = {} /\ CachedHashes = {}
  BY DEF Init, PinnedHashes, CachedHashes
<1>2. TotalBytes({}) = 0
  BY BytesOfOne
<1>3. cache_lru \in Seq(Hash) /\ DOMAIN cache_lru = {}
  BY DEF Init
<1>4. QueueInv
  BY <1>1, <1>3 DEF QueueInv, Distinct, ToSet
<1>5. TypeOK /\ Accounting
  BY <1>1, <1>2, StorageAssumption DEF Init, TypeOK, Accounting
<1> QED BY <1>1, <1>4, <1>5 DEF StorageInv, Store!StoreInit

\* Every operation keeps the store in order and is a step of the abstract store.
LEMMA NextStorage ==
    StorageInv /\ [Next]_vars => StorageInv' /\ [Store!StoreNext]_(Store!storeVars)
<1> SUFFICES ASSUME StorageInv, [Next]_vars
             PROVE  StorageInv' /\ [Store!StoreNext]_(Store!storeVars)
  OBVIOUS
<1>1. ASSUME NEW batch \in SeqOf(Hash, MaxBatch), TryPin(batch)
      PROVE  StorageInv' /\ Store!StoreNext
  BY <1>1, TryPinStep DEF Store!StoreNext
<1>2. ASSUME UNCHANGED vars
      PROVE  StorageInv' /\ UNCHANGED Store!storeVars
  <2>1. PinnedHashes' = PinnedHashes /\ CachedHashes' = CachedHashes
    BY <1>2 DEF vars, PinnedHashes, CachedHashes
  <2> QED BY <1>2, <2>1 DEF vars, StorageInv, TypeOK, Accounting, QueueInv, Distinct,
                            Store!storeVars
<1>3. ASSUME NEW h \in Hash, Cache(h)
      PROVE  StorageInv' /\ Store!StoreNext
  BY <1>3, CacheStep DEF Store!StoreNext
<1>4. ASSUME NEW h \in Hash, Get(h)
      PROVE  StorageInv' /\ UNCHANGED Store!storeVars
  BY <1>4, GetStep DEF Store!storeVars
<1>5. ASSUME NEW h \in Hash, PromoteToPinned(h)
      PROVE  StorageInv' /\ Store!StoreNext
  <2>1. {h} \in SUBSET Hash
    OBVIOUS
  <2> QED BY <1>5, <2>1, PromoteStep DEF Store!StoreNext
<1>6. ASSUME NEW h \in Hash, Evict(h)
      PROVE  StorageInv' /\ Store!StoreNext
  BY <1>6, EvictStep DEF Store!StoreNext
<1>7. CASE UNCHANGED vars
  BY <1>2, <1>7
<1>8. CASE Next
  BY <1>1, <1>2, <1>3, <1>4, <1>5, <1>6, <1>8 DEF Next, TryPinFull
<1> QED BY <1>7, <1>8

\* The invariant holds in every behaviour of the store.
THEOREM StorageInvariant == Spec => []StorageInv
<1> QED BY InitStorage, NextStorage, PTL DEF Spec

\* The counters of ChunkStorage are never negative: no "-=" underflows.
THEOREM TypeCorrect == Spec => []TypeOK
<1>1. StorageInv => TypeOK
  BY DEF StorageInv
<1> QED BY <1>1, StorageInvariant, PTL

\* The counters kept by hand equal the bytes held, and both budgets are respected.
THEOREM CountersExact == Spec => []Accounting
<1>1. StorageInv => Accounting
  BY DEF StorageInv
<1> QED BY <1>1, StorageInvariant, PTL

\* cache_lru lists every cached hash once and nothing else.
THEOREM QueueExact == Spec => []LruExact
<1>1. StorageInv => LruExact
  <2> SUFFICES ASSUME StorageInv PROVE LruExact
    OBVIOUS
  <2>1. /\ cache_lru \in Seq(Hash) /\ Distinct(cache_lru) /\ ToSet(cache_lru) = CachedHashes
    BY DEF StorageInv, TypeOK, QueueInv
  <2>2. /\ Len(cache_lru) \in Nat /\ DOMAIN cache_lru = 1..Len(cache_lru)
        /\ cache_lru \in [1..Len(cache_lru) -> Hash]
    BY <2>1, LenProperties
  <2>3. cache_lru \in [1..Len(cache_lru) -> CachedHashes]
    BY <2>1, <2>2 DEF ToSet
  <2>4. cache_lru \in Injection(1..Len(cache_lru), CachedHashes)
    BY <2>1, <2>2, <2>3, Fun_IsInj DEF Distinct
  <2>5. cache_lru \in Surjection(1..Len(cache_lru), CachedHashes)
    BY <2>1, <2>2, <2>3, Fun_IsSurj DEF ToSet
  <2>6. IsFiniteSet(1..Len(cache_lru)) /\ Cardinality(1..Len(cache_lru)) = Len(cache_lru)
    BY <2>2, FS_Interval, SMTT(30)
  <2>7. Cardinality(CachedHashes) = Cardinality(1..Len(cache_lru))
    BY <2>4, <2>5, <2>6, FS_Surjection
  <2> QED BY <2>1, <2>6, <2>7 DEF LruExact
<1> QED BY <1>1, StorageInvariant, PTL

\* ChunkStorage implements ChunkStore: every method changes the pinned and the cached
\* hashes in a way that the abstract store allows.
THEOREM StorageRefines == Spec => ImplementsChunkStore
<1> QED BY InitStorage, NextStorage, PTL DEF Spec, ImplementsChunkStore, Store!StoreSpec
=============================================================================
