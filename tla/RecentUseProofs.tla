-------------------------- MODULE RecentUseProofs --------------------------
(***************************************************************************)
(* Proofs about RecentUse: for any chunks, sizes and limits, the queue is  *)
(* in the order of the last uses, so what cache() displaces is what has    *)
(* not been used for longest.                                              *)
(***************************************************************************)
EXTENDS RecentUse, ChunkStorageProofs

-----------------------------------------------------------------------------
(***************************************************************************)
(* A queue in the order of the last uses.                                  *)
(***************************************************************************)

\* What is behind a hash in the queue has been used since, what is before it has not.
InOrder(queue, used) ==
    \A i, j \in DOMAIN queue : queue[j] \in used[queue[i]] <=> i < j

\* Dropping hashes leaves the rest in order.
LEMMA RetainInOrder ==
    ASSUME NEW s \in Seq(Hash), NEW gone, NEW used, InOrder(s, used)
    PROVE  InOrder(Retain(s, gone), used)
<1> DEFINE r == Retain(s, gone)
<1> SUFFICES ASSUME NEW m \in DOMAIN r, NEW n \in DOMAIN r
             PROVE  r[n] \in used[r[m]] <=> m < n
  BY DEF InOrder
<1>1. PICK i, j \in DOMAIN s : s[i] = r[m] /\ s[j] = r[n] /\ (i < j <=> m < n)
  BY RetainOrder
<1> QED BY <1>1 DEF InOrder

\* What has been used since each hash once h has been used.
UsedBy(used, h) == [x \in Hash |-> IF x = h THEN {} ELSE used[x] \cup {h}]

\* A hash that is used goes to the end.
LEMMA AppendInOrder ==
    ASSUME NEW s \in Seq(Hash), NEW used \in [Hash -> SUBSET Hash], InOrder(s, used),
           NEW h \in Hash, h \notin ToSet(s)
    PROVE  InOrder(Append(s, h), UsedBy(used, h))
<1> DEFINE q == Append(s, h)
           next == UsedBy(used, h)
<1>1. /\ Len(s) \in Nat /\ DOMAIN s = 1..Len(s) /\ DOMAIN q = 1..(Len(s) + 1)
      /\ \A i \in 1..Len(s) : q[i] = s[i] /\ s[i] \in Hash
      /\ q[Len(s) + 1] = h
  BY AppendProperties, LenProperties
<1>2. \A i \in 1..Len(s) : s[i] # h /\ next[s[i]] = used[s[i]] \cup {h}
  BY <1>1 DEF ToSet, UsedBy
<1>3. next[h] = {}
  BY DEF UsedBy
<1> HIDE DEF q, next
<1>4. ASSUME NEW i \in DOMAIN q, NEW j \in DOMAIN q PROVE q[j] \in next[q[i]] <=> i < j
  <2>1. CASE i = Len(s) + 1
    BY <1>1, <1>3, <2>1
  <2>2. CASE i # Len(s) + 1 /\ j = Len(s) + 1
    BY <1>1, <1>2, <2>2
  <2>3. CASE i # Len(s) + 1 /\ j # Len(s) + 1
    <3>1. i \in 1..Len(s) /\ j \in 1..Len(s)
      BY <1>1, <2>3
    <3> QED BY <1>1, <1>2, <3>1 DEF InOrder
  <2> QED BY <2>1, <2>2, <2>3
<1> QED BY <1>4 DEF InOrder, q, next

-----------------------------------------------------------------------------
(***************************************************************************)
(* The inductive invariant.  Of what has been used since a chunk was, the  *)
(* property needs what is cached; that is what is behind it in the queue.  *)
(***************************************************************************)
UseInv ==
    /\ StorageInv
    /\ since \in [Hash -> SUBSET Hash]
    /\ InOrder(cache_lru, since)

\* cache() and get() put the chunk they are called for where it belongs.
LEMMA UseStep ==
    ASSUME UseInv, NEW h \in Hash, Use(h)
    PROVE  UseInv'
<1>1. /\ since' = UsedBy(since, h) /\ since' \in [Hash -> SUBSET Hash]
      /\ cache_lru \in Seq(Hash)
  BY DEF Use, UseInv, UsedBy, StorageInv, TypeOK
<1>2. CASE Cache(h)
  <2> DEFINE n == PopCount(h)
             rest == SubSeq(cache_lru, n + 1, Len(cache_lru))
  <2>1. /\ n \in 0..Len(cache_lru) /\ rest \in Seq(Hash)
        /\ cache_lru' = Append(rest, h)
    BY <1>2, CacheIs DEF UseInv
  <2>2. ToSet(rest) \in SUBSET CachedHashes /\ h \notin CachedHashes
    BY <1>2, CacheIs DEF UseInv
  <2>3. InOrder(rest, since)
    <3> HIDE DEF n
    <3>1. /\ Len(cache_lru) \in Nat /\ DOMAIN cache_lru = 1..Len(cache_lru)
          /\ Distinct(cache_lru)
      BY <1>1, LenProperties DEF UseInv, StorageInv, QueueInv
    <3>2. /\ Len(rest) = Len(cache_lru) - n
          /\ \A k \in 1..(Len(cache_lru) - n) : rest[k] = cache_lru[n + k]
      BY <1>1, <2>1, <3>1, PoppedQueue
    <3>3. DOMAIN rest = 1..(Len(cache_lru) - n)
      BY <2>1, <3>2, LenProperties
    <3> HIDE DEF rest
    <3>4. ASSUME NEW i \in DOMAIN rest, NEW j \in DOMAIN rest
          PROVE  rest[j] \in since[rest[i]] <=> i < j
      <4>1. n + i \in DOMAIN cache_lru /\ n + j \in DOMAIN cache_lru /\ (n + i < n + j <=> i < j)
        BY <2>1, <3>1, <3>3
      <4>2. rest[i] = cache_lru[n + i] /\ rest[j] = cache_lru[n + j]
        BY <3>2, <3>3
      <4> QED BY <4>1, <4>2 DEF UseInv, InOrder
    <3> QED BY <3>4 DEF InOrder
  <2> HIDE DEF rest
  <2>4. InOrder(cache_lru', since')
    BY <1>1, <2>1, <2>2, <2>3, AppendInOrder DEF UseInv
  <2> QED BY <1>1, <1>2, <2>4, CacheStep DEF UseInv, InOrder
<1>3. CASE Get(h)
  <2> DEFINE rest == Retain(cache_lru, {h})
  <2>1. cache_lru' = Append(rest, h)
    BY <1>3 DEF Get
  <2>2. rest \in Seq(Hash) /\ h \notin ToSet(rest)
    BY <1>1, RetainKeeps
  <2>3. InOrder(rest, since)
    BY <1>1, RetainInOrder DEF UseInv
  <2> HIDE DEF rest
  <2>4. InOrder(cache_lru', since')
    BY <1>1, <2>1, <2>2, <2>3, AppendInOrder DEF UseInv
  <2> QED BY <1>1, <1>3, <2>4, GetStep DEF UseInv, InOrder
<1> QED BY <1>2, <1>3 DEF Use

\* The other operations at most take chunks out of the queue.
LEMMA OtherStep ==
    ASSUME UseInv, [Next]_vars, UNCHANGED since,
           cache_lru' = cache_lru \/ \E gone : cache_lru' = Retain(cache_lru, gone)
    PROVE  UseInv'
<1>1. StorageInv'
  BY NextStorage DEF UseInv
<1>2. InOrder(cache_lru', since)
  BY RetainInOrder DEF UseInv, StorageInv, TypeOK
<1> QED BY <1>1, <1>2 DEF UseInv, InOrder

\* Every step keeps the invariant.
LEMMA UseInvStep == UseInv /\ [UseNext]_<<vars, since>> => UseInv'
<1> SUFFICES ASSUME UseInv, [UseNext]_<<vars, since>> PROVE UseInv'
  OBVIOUS
<1>1. CASE \E h \in Hash : Use(h)
  BY <1>1, UseStep
<1>2. ASSUME NEW batch \in SeqOf(Hash, MaxBatch), TryPin(batch), UNCHANGED since
      PROVE  UseInv'
  <2>1. Next /\ \E gone : cache_lru' = Retain(cache_lru, gone)
    BY <1>2 DEF TryPin, Next
  <2> QED BY <1>2, <2>1, OtherStep
<1>3. ASSUME UNCHANGED vars, UNCHANGED since
      PROVE  UseInv'
  BY <1>3, OtherStep DEF vars
<1>4. ASSUME NEW h \in Hash, PromoteToPinned(h), UNCHANGED since
      PROVE  UseInv'
  <2>1. Next /\ \E gone : cache_lru' = Retain(cache_lru, gone)
    BY <1>4 DEF PromoteToPinned, Next
  <2> QED BY <1>4, <2>1, OtherStep
<1>5. ASSUME NEW h \in Hash, Evict(h), UNCHANGED since
      PROVE  UseInv'
  <2>1. Next /\ (cache_lru' = cache_lru \/ \E gone : cache_lru' = Retain(cache_lru, gone))
    BY <1>5 DEF Evict, EvictPinned, EvictCached, Next
  <2> QED BY <1>5, <2>1, OtherStep
<1> QED BY <1>1, <1>2, <1>3, <1>4, <1>5 DEF UseNext, TryPinFull

-----------------------------------------------------------------------------
(***************************************************************************)
(* The theorem.                                                            *)
(***************************************************************************)

\* What is from a place in the queue on, and the bytes it takes beside a new chunk.
LEMMA FromHere ==
    ASSUME UseInv, NEW h \in Hash, Cache(h), NEW i \in DOMAIN cache_lru
    PROVE  LET front == ToSet(SubSeq(cache_lru, 1, i - 1))
               kept == {cache_lru[i], h} \cup (since[cache_lru[i]] \cap CachedHashes)
           IN  /\ front \in SUBSET CachedHashes
               /\ kept = (CachedHashes \ front) \cup {h}
               /\ TotalBytes(kept) <= MaxCachedBytes <=> FitsAfter(i - 1, h)
<1> DEFINE C == CachedHashes
           front == ToSet(SubSeq(cache_lru, 1, i - 1))
           left == SubSeq(cache_lru, i - 1 + 1, Len(cache_lru))
           kept == {cache_lru[i], h} \cup (since[cache_lru[i]] \cap C)
<1>1. /\ cache_lru \in Seq(Hash) /\ Distinct(cache_lru) /\ ToSet(cache_lru) = C
      /\ Len(cache_lru) \in Nat /\ DOMAIN cache_lru = 1..Len(cache_lru)
      /\ cached_bytes = TotalBytes(C) /\ C \in SUBSET Hash /\ C \in SUBSET Present
  BY LenProperties DEF UseInv, StorageInv, Accounting, TypeOK, QueueInv, CachedHashes, Present
<1>2. h \notin C /\ Size[h] \in Nat
  BY CacheIs DEF UseInv
<1>3. i - 1 \in 0..Len(cache_lru) /\ i \in 1..Len(cache_lru)
  BY <1>1
<1>4. /\ front \in SUBSET C /\ ToSet(left) = C \ front /\ left \in Seq(Hash)
      /\ Len(left) = Len(cache_lru) - (i - 1)
      /\ \A k \in 1..(Len(cache_lru) - (i - 1)) : left[k] = cache_lru[i - 1 + k]
  <2> HIDE DEF C
  <2> QED BY <1>1, <1>3, PoppedQueue
<1> HIDE DEF C, front, left
<1>5. DOMAIN left = 1..(Len(cache_lru) - (i - 1))
  BY <1>4, LenProperties
<1>6. kept = ToSet(left) \cup {h}
  <2>1. ASSUME NEW x \in ToSet(left) PROVE x \in kept
    <3>1. PICK k \in 1..(Len(cache_lru) - (i - 1)) : x = cache_lru[i - 1 + k]
      BY <1>4, <1>5, <2>1 DEF ToSet
    <3>2. i - 1 + k \in DOMAIN cache_lru /\ (i - 1 + k = i \/ i < i - 1 + k)
      BY <1>1, <1>3
    <3>3. x = cache_lru[i] \/ x \in since[cache_lru[i]]
      BY <3>1, <3>2 DEF UseInv, InOrder
    <3> QED BY <1>4, <2>1, <3>3
  <2>2. ASSUME NEW x \in C, x = cache_lru[i] \/ x \in since[cache_lru[i]]
        PROVE  x \in ToSet(left)
    <3>1. PICK j \in DOMAIN cache_lru : x = cache_lru[j]
      BY <1>1, <2>2 DEF ToSet
    <3>2. j = i \/ i < j
      BY <1>1, <2>2, <3>1 DEF UseInv, InOrder, Distinct
    <3>3. /\ j - (i - 1) \in 1..(Len(cache_lru) - (i - 1)) /\ i - 1 + (j - (i - 1)) = j
      <4>1. i \in Nat /\ j \in Nat /\ Len(cache_lru) \in Nat /\ i <= j /\ j <= Len(cache_lru)
        BY <1>1, <1>3, <3>2
      <4> QED BY <4>1
    <3>4. left[j - (i - 1)] = x
      BY <1>4, <3>1, <3>3
    <3> QED BY <1>5, <3>3, <3>4 DEF ToSet
  <2>3. cache_lru[i] \in C
    BY <1>1 DEF ToSet
  <2> HIDE DEF kept
  <2>4. \A x : x \in kept <=> x = h \/ x = cache_lru[i] \/ (x \in since[cache_lru[i]] /\ x \in C)
    BY DEF kept
  <2>5. \A x \in kept : x \in ToSet(left) \cup {h}
    BY <2>2, <2>3, <2>4
  <2>6. \A x \in ToSet(left) \cup {h} : x \in kept
    BY <2>1, <2>4
  <2> QED BY <2>5, <2>6
<1>7. kept = (C \ front) \cup {h}
  BY <1>4, <1>6
<1> HIDE DEF kept
<1>8. TotalBytes(kept) = TotalBytes(C) - TotalBytes(front) + Size[h]
  <2>1. /\ TotalBytes(C \ front) = TotalBytes(C) - TotalBytes(front)
        /\ TotalBytes({h}) = Size[h]
    BY <1>1, <1>4, BytesTake, BytesOfOne
  <2>2. TotalBytes((C \ front) \cup {h}) = TotalBytes(C \ front) + TotalBytes({h})
    <3>1. (C \ front) \in SUBSET Hash /\ {h} \in SUBSET Hash /\ (C \ front) \cap {h} = {}
      BY <1>1, <1>2
    <3> QED BY <3>1, BytesAdd
  <2> QED BY <1>7, <2>1, <2>2
<1>9. Popped(i - 1) = front
  BY <1>1, <1>4 DEF Popped, front
<1>10. TotalBytes(kept) <= MaxCachedBytes <=> FitsAfter(i - 1, h)
  BY <1>1, <1>8, <1>9 DEF FitsAfter
<1> QED BY <1>4, <1>7, <1>10 DEF C, front, kept

\* Which of the cached chunks an insertion leaves.
LEMMA CacheDisplaces ==
    ASSUME UseInv, NEW h \in Hash, Cache(h), NEW x \in CachedHashes
    PROVE  chunks'[x] = "cached" <=>
                TotalBytes({x, h} \cup (since[x] \cap CachedHashes)) <= MaxCachedBytes
<1> DEFINE n == PopCount(h)
           G == ToSet(SubSeq(cache_lru, 1, n))
           kept == {x, h} \cup (since[x] \cap CachedHashes)
<1>1. /\ cache_lru \in Seq(Hash) /\ Distinct(cache_lru) /\ ToSet(cache_lru) = CachedHashes
      /\ Len(cache_lru) \in Nat /\ DOMAIN cache_lru = 1..Len(cache_lru)
      /\ CachedHashes \in SUBSET Hash
  BY LenProperties DEF UseInv, StorageInv, TypeOK, QueueInv, CachedHashes
<1>2. PICK i \in 1..Len(cache_lru) : x = cache_lru[i]
  BY <1>1 DEF ToSet
<1>3. TotalBytes(kept) <= MaxCachedBytes <=> FitsAfter(i - 1, h)
  BY <1>1, <1>2, FromHere
<1>4. n \in 0..Len(cache_lru) /\ (\A m \in 0..(n - 1) : ~FitsAfter(m, h))
  BY CacheIs DEF UseInv
<1>5. chunks'[x] = "cached" <=> x \notin G
  <2>1. x \in Hash /\ chunks[x] = "cached"
    BY DEF CachedHashes
  <2>2. chunks' = [y \in Hash |-> IF y \in {h} THEN "cached"
                                 ELSE IF y \in G THEN "absent" ELSE chunks[y]]
    BY CacheIs DEF UseInv
  <2>3. x # h
    BY CacheIs DEF UseInv
  <2> HIDE DEF G
  <2> QED BY <2>1, <2>2, <2>3
<1>6. x \in G <=> i <= n
  <2> HIDE DEF n
  <2>1. /\ DOMAIN SubSeq(cache_lru, 1, n) = 1..n
        /\ \A k \in 1..n : SubSeq(cache_lru, 1, n)[k] = cache_lru[k]
    BY <1>1, <1>4, SubSeqProperties, LenProperties
  <2>2. x \in G <=> \E k \in 1..n : x = cache_lru[k]
    BY <2>1 DEF ToSet
  <2>3. \A k \in 1..n : k \in DOMAIN cache_lru /\ (x = cache_lru[k] => k = i)
    BY <1>1, <1>2, <1>4 DEF Distinct
  <2> QED BY <1>2, <1>4, <2>2, <2>3
<1> HIDE DEF n, G
<1>7. CASE i <= n
  <2>1. i - 1 \in 0..(n - 1)
    BY <1>1, <1>4, <1>7
  <2> QED BY <1>3, <1>4, <1>5, <1>6, <1>7, <2>1
<1>8. CASE ~(i <= n)
  <2>1. LET front == ToSet(SubSeq(cache_lru, 1, i - 1))
        IN  front \in SUBSET CachedHashes /\ kept = (CachedHashes \ front) \cup {h}
    BY <1>1, <1>2, FromHere
  <2> DEFINE front == ToSet(SubSeq(cache_lru, 1, i - 1))
  <2>2. front \in SUBSET CachedHashes /\ kept = (CachedHashes \ front) \cup {h}
    BY <2>1
  <2>3. G \in SUBSET front
    <3>1. /\ n \in Int /\ i - 1 \in Int /\ i - 1 <= Len(cache_lru) /\ n <= i - 1 /\ n >= 0
      BY <1>1, <1>4, <1>8
    <3>2. /\ DOMAIN SubSeq(cache_lru, 1, n) = 1..n
          /\ \A k \in 1..n : SubSeq(cache_lru, 1, n)[k] = cache_lru[k]
      BY <1>1, <3>1, SubSeqProperties, LenProperties
    <3>3. /\ DOMAIN SubSeq(cache_lru, 1, i - 1) = 1..(i - 1)
          /\ \A k \in 1..(i - 1) : SubSeq(cache_lru, 1, i - 1)[k] = cache_lru[k]
      BY <1>1, <3>1, SubSeqProperties, LenProperties
    <3> QED BY <3>1, <3>2, <3>3 DEF ToSet, G
  <2> HIDE DEF front, kept
  <2>4. kept \in SUBSET ((CachedHashes \ G) \cup {h})
    BY <2>2, <2>3
  <2>5. /\ (CachedHashes \ G) \cup {h} \in SUBSET Hash
        /\ TotalBytes((CachedHashes \ G) \cup {h}) <= MaxCachedBytes
    <3>1. /\ TotalBytes(CachedHashes \ G) = TotalBytes(CachedHashes) - TotalBytes(G)
          /\ TotalBytes((CachedHashes \ G) \cup {h}) = TotalBytes(CachedHashes \ G) + Size[h]
          /\ TotalBytes(CachedHashes) - TotalBytes(G) + Size[h] <= MaxCachedBytes
      BY CacheIs DEF UseInv, G, n
    <3> QED BY <1>1, <3>1
  <2>6. TotalBytes(kept) <= TotalBytes((CachedHashes \ G) \cup {h})
    BY <2>4, <2>5, BytesTake
  <2>7. TotalBytes(kept) \in Nat /\ TotalBytes((CachedHashes \ G) \cup {h}) \in Nat
    BY <2>4, <2>5, BytesFinite
  <2>8. TotalBytes(kept) <= MaxCachedBytes
    BY <2>5, <2>6, <2>7, StorageAssumption
  <2> QED BY <1>5, <1>6, <1>8, <2>8 DEF kept
<1> QED BY <1>7, <1>8

\* Only cache() puts a chunk into the cache, and only the one it is called for.
LEMMA CachedByCache ==
    ASSUME UseInv, [UseNext]_<<vars, since>>, NEW h \in Hash,
           chunks[h] = "absent", chunks'[h] = "cached"
    PROVE  Cache(h)
<1>1. chunks' # chunks
  OBVIOUS
<1>2. ASSUME NEW g \in Hash, Use(g) PROVE Cache(h)
  <2>1. Cache(g)
    BY <1>1, <1>2 DEF Use, Get
  <2>2. chunks' = [x \in Hash |-> IF x \in {g} THEN "cached"
                                 ELSE IF x \in ToSet(SubSeq(cache_lru, 1, PopCount(g)))
                                      THEN "absent" ELSE chunks[x]]
    BY <2>1, CacheIs DEF UseInv
  <2>3. g = h
    BY <2>2
  <2> QED BY <2>1, <2>3
<1>3. ASSUME NEW batch \in SeqOf(Hash, MaxBatch), TryPin(batch) PROVE FALSE
  BY <1>3 DEF TryPin
<1>4. ASSUME NEW g \in Hash, PromoteToPinned(g) \/ Evict(g) PROVE FALSE
  BY <1>4 DEF PromoteToPinned, Evict, EvictPinned, EvictCached, UseInv, StorageInv, TypeOK
<1> QED BY <1>1, <1>2, <1>3, <1>4 DEF UseNext, TryPinFull, vars

\* The chunks that cache() displaces are the least recently used ones, and no more of
\* them than the new chunk needs the room of: pop_front with retain-and-push in get() is
\* an exact LRU cache, through any sequence of pins, promotions and evictions.
THEOREM ExactlyLru == UseSpec => LeastRecentlyUsedGoes
<1> DEFINE Exact == \A h, x \in Hash :
        chunks[h] = "absent" /\ chunks'[h] = "cached" /\ chunks[x] = "cached" =>
            (chunks'[x] = "cached" <=>
                TotalBytes({x, h} \cup (since[x] \cap CachedHashes)) <= MaxCachedBytes)
<1>1. UseInit => UseInv
  <2> SUFFICES ASSUME UseInit PROVE UseInv
    OBVIOUS
  <2>1. StorageInv /\ DOMAIN cache_lru = {}
    BY InitStorage DEF UseInit, Init
  <2> QED BY <2>1 DEF UseInit, UseInv, InOrder
<1>2. UseInv /\ [UseNext]_<<vars, since>> => Exact
  <2> SUFFICES ASSUME UseInv, [UseNext]_<<vars, since>>, NEW h \in Hash, NEW x \in Hash,
                      chunks[h] = "absent", chunks'[h] = "cached", chunks[x] = "cached"
               PROVE  chunks'[x] = "cached" <=>
                        TotalBytes({x, h} \cup (since[x] \cap CachedHashes)) <= MaxCachedBytes
    OBVIOUS
  <2>1. x \in CachedHashes
    BY DEF CachedHashes
  <2> QED BY <2>1, CachedByCache, CacheDisplaces
<1> HIDE DEF Exact
<1>3. UseInv /\ [UseNext]_<<vars, since>> => [Exact]_vars
  BY <1>2
<1>4. UseSpec => [][Exact]_vars
  BY <1>1, <1>3, UseInvStep, PTL DEF UseSpec
<1> QED BY <1>4 DEF Exact, LeastRecentlyUsedGoes

=============================================================================
