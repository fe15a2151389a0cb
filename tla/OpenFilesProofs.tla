-------------------------- MODULE OpenFilesProofs --------------------------
(***************************************************************************)
(* Proofs about OpenFiles, for any number of handles, any contents and any *)
(* limits.                                                                 *)
(*                                                                         *)
(* What a file consists of is proved first: where its chunks end, so that  *)
(* reading, what is missing, and truncating are exact.  OpenInv is the     *)
(* inductive invariant: the file is made of chunks in that way, the store  *)
(* is in order, what was written here is pinned or handed over, and a call *)
(* whose file has not changed waits for all that it lacks, and what it has *)
(* in the cache stays there as long as what is used fits.                  *)
(***************************************************************************)
EXTENDS OpenFiles, FiniteSetTheorems, FunctionTheorems, SequenceTheorems, TLAPS

-----------------------------------------------------------------------------
(***************************************************************************)
(* The chunks of a file and the store they are in.                         *)
(***************************************************************************)

\* A byte or what fills a gap.
Bit == Byte \cup {0}

\* The chunks that contents are cut into.
Own == UNION {[1..n -> Bit] : n \in 1..MaxChunk}

\* A chunk is a sequence of bytes.
LEMMA OwnChunks ==
    ASSUME NEW d \in Own
    PROVE  d \in Seq(Bit) /\ Len(d) \in 1..MaxChunk /\ Len(d) \in Nat /\ d \in Data
<1>1. PICK n \in 1..MaxChunk : d \in [1..n -> Bit]
  BY DEF Own
<1>2. n \in Nat
  BY OpenFilesAssumption DEF OpenFilesAssumption
<1>3. d \in Seq(Bit) /\ Len(d) = n
  BY <1>1, <1>2
<1>4. d \in Data
  BY DEF Own, Data, Bit
<1> QED BY <1>2, <1>3, <1>4

\* The proofs about ChunkStorage, for these chunks.
SP == INSTANCE ChunkStorageProofs WITH
            Hash <- Data, Size <- [d \in Data |-> Len(d)], MaxBatch <- MaxSize

\* There are finitely many functions between finite sets.
LEMMA FiniteFunctions ==
    ASSUME NEW S, IsFiniteSet(S), NEW T, IsFiniteSet(T)
    PROVE  IsFiniteSet([S -> T])
<1> DEFINE U == SUBSET (S \X T)
           graph == [f \in [S -> T] |-> {<<x, f[x]>> : x \in S}]
<1>1. IsFiniteSet(U)
  BY FS_Product, FS_SUBSET
<1>2. graph \in [[S -> T] -> U]
  OBVIOUS
<1>3. ASSUME NEW f \in [S -> T], NEW g \in [S -> T], graph[f] = graph[g] PROVE f = g
  <2>1. ASSUME NEW x \in S PROVE f[x] = g[x]
    <3>1. <<x, f[x]>> \in graph[f]
      OBVIOUS
    <3>2. <<x, f[x]>> \in graph[g]
      BY <1>3, <3>1
    <3>3. PICK y \in S : <<x, f[x]>> = <<y, g[y]>>
      BY <3>2
    <3> QED BY <3>3
  <2> QED BY <2>1
<1> HIDE DEF graph
<1>4. graph \in Injection([S -> T], U)
  BY <1>2, <1>3, Fun_IsInj
<1> QED BY <1>1, <1>4, FS_Injection

\* A chunk is the file's or one of another file.
LEMMA DataParts == \A d \in Data : d \in Own \/ d \in Foreign
<1> SUFFICES ASSUME NEW d \in Data, d \notin Foreign PROVE d \in Own
  OBVIOUS
<1>1. d \in UNION {[1..n -> Bit] : n \in 1..MaxChunk}
  BY Zenon DEF Data, Bit
<1> QED BY <1>1, Zenon DEF Own

\* There are finitely many chunks, and each has its length.
LEMMA DataIs ==
    /\ IsFiniteSet(Data)
    /\ \A d \in Data : Len(d) \in Nat
<1>1. MaxChunk \in Nat /\ IsFiniteSet(Bit)
  BY OpenFilesAssumption, FS_AddElement DEF OpenFilesAssumption, Bit
<1> DEFINE Sets == {[1..n -> Bit] : n \in 1..MaxChunk}
           sets == [n \in 1..MaxChunk |-> [1..n -> Bit]]
<1>2. IsFiniteSet(Sets)
  <2>1. IsFiniteSet(1..MaxChunk)
    BY <1>1, FS_Interval
  <2>2. sets \in Surjection(1..MaxChunk, Sets)
    BY Fun_IsSurj
  <2> QED BY <2>1, <2>2, FS_Surjection
<1>3. ASSUME NEW A \in Sets PROVE IsFiniteSet(A)
  <2>1. PICK n \in 1..MaxChunk : A = [1..n -> Bit]
    OBVIOUS
  <2>2. n \in Int
    BY <1>1
  <2>3. IsFiniteSet(1..n)
    BY <2>2, FS_Interval
  <2> QED BY <1>1, <2>1, <2>3, FiniteFunctions
<1>4. Own = UNION Sets /\ Data \in SUBSET (Own \cup Foreign)
  <2>1. Own = UNION Sets
    BY Zenon DEF Own
  <2> QED BY <2>1, DataParts
<1> HIDE DEF Sets
<1>5. IsFiniteSet(Own) /\ IsFiniteSet(Foreign)
  BY <1>2, <1>3, <1>4, FS_UNION, OpenFilesAssumption DEF OpenFilesAssumption
<1>6. IsFiniteSet(Data)
  BY <1>4, <1>5, FS_Union, FS_Subset
<1>7. ASSUME NEW d \in Data PROVE Len(d) \in Nat
  <2>1. CASE d \in Own
    BY <2>1, OwnChunks
  <2>2. CASE d \in Foreign
    BY <2>2, OpenFilesAssumption, LenProperties DEF OpenFilesAssumption
  <2> QED BY DataParts, <2>1, <2>2
<1> QED BY <1>6, <1>7

\* The assumptions of ChunkStorage hold of the chunks of OpenFiles.
LEMMA StoreAssumptions == SP!ChunkAssumption /\ SP!StorageAssumption
<1>1. \A S : IsFiniteSet(S) <=> SP!IsFiniteSet(S)
  BY DEF SP!IsFiniteSet, IsFiniteSet
<1>2. SP!ChunkAssumption
  BY <1>1, DataIs DEF SP!ChunkAssumption
<1>3. SP!StorageAssumption
  BY OpenFilesAssumption DEF OpenFilesAssumption, SP!StorageAssumption
<1> QED BY <1>2, <1>3

\* The proofs about ChunkStorage speak of the same definitions.
LEMMA SameQueue == \A s, gone : SP!Retain(s, gone) = Store!Retain(s, gone)
BY Zenon DEF SP!Retain, Store!Retain, SP!Rank, Store!Rank, SP!Cardinality, Store!Cardinality

\* Likewise for the bytes of a set of chunks, ...
LEMMA SameTotal ==
    \A S : SP!TotalBytes(S) = Store!TotalBytes(S)
BY Zenon DEF SP!TotalBytes, Store!TotalBytes, SP!BytesOf, Store!BytesOf,
   SP!Cardinality, Store!Cardinality

\* ... the store at first, ...
LEMMA SameInit == Store!Init => SP!Init
BY Zenon DEF Store!Init, SP!Init

\* ... its type, ...
LEMMA SameType == SP!TypeOK => Store!TypeOK
BY Zenon DEF Store!TypeOK, SP!TypeOK

\* ... cache_chunk() ...
LEMMA SameCache == \A h : Store!Cache(h) => SP!Cache(h)
<1>1. SP!Present = Store!Present
  BY Zenon DEF SP!Present, Store!Present
<1>2. \A n : SP!Popped(n) = Store!Popped(n)
  BY <1>1, Zenon DEF SP!Popped, Store!Popped, SP!ToSet, Store!ToSet
<1>3. \A n, h : SP!FitsAfter(n, h) = Store!FitsAfter(n, h)
  BY <1>2, SameTotal, Zenon DEF SP!FitsAfter, Store!FitsAfter
<1>4. \A h : SP!PopCount(h) = Store!PopCount(h)
  BY <1>3, Zenon DEF SP!PopCount, Store!PopCount
<1> QED BY <1>2, <1>3, <1>4, SameTotal, Zenon DEF SP!Cache, Store!Cache

\* ... promote_to_pinned() and evict() of a pinned chunk ...
LEMMA SamePromote == \A h : Store!PromoteToPinned(h) => SP!PromoteToPinned(h)
BY SameQueue, Zenon DEF SP!PromoteToPinned, Store!PromoteToPinned

LEMMA SameEvict == \A h : Store!EvictPinned(h) => SP!EvictPinned(h)
BY Zenon DEF SP!EvictPinned, Store!EvictPinned

\* ... and try_pin().
LEMMA SameTryPin == \A batch : Store!TryPin(batch) => SP!TryPin(batch)
<1>1. SP!PinnedHashes = Store!PinnedHashes /\ SP!CachedHashes = Store!CachedHashes
  BY Zenon DEF SP!PinnedHashes, Store!PinnedHashes, SP!CachedHashes, Store!CachedHashes
<1>2. \A batch : SP!RequiredBytes(batch) = Store!RequiredBytes(batch)
  BY <1>1, SameTotal, Zenon DEF SP!RequiredBytes, Store!RequiredBytes, SP!ToSet, Store!ToSet
<1> QED BY <1>1, <1>2, SameTotal, SameQueue, Zenon
        DEF SP!TryPin, Store!TryPin, SP!ToSet, Store!ToSet

-----------------------------------------------------------------------------
(***************************************************************************)
(* Recursion over numbers.                                                 *)
(***************************************************************************)

\* A set that has a number and the successor of each of its members has all from there.
LEMMA Induct ==
    ASSUME NEW S, NEW b \in Nat, b \in S, \A n \in Nat : n >= b /\ n \in S => n + 1 \in S
    PROVE  \A n \in Nat : n >= b => n \in S
<1> DEFINE T == {n \in Nat : n >= b /\ n \notin S}
<1> SUFFICES ASSUME T # {} PROVE FALSE
  OBVIOUS
<1>1. SP!ChunkAssumption /\ SP!StorageAssumption
  BY StoreAssumptions
<1>2. T \in SUBSET Nat
  OBVIOUS
<1>3. \E m \in T : \A k \in T : m <= k
  <2> HIDE DEF T
  <2> QED BY <1>1, <1>2, SP!LeastElement, Zenon DEF SP!ChunkAssumption, SP!StorageAssumption
<1>4. PICK m \in T : \A k \in T : m <= k
  BY <1>3
<1>5. m # b /\ m - 1 \in Nat /\ m - 1 >= b /\ m - 1 \notin T
  BY <1>4
<1> QED BY <1>4, <1>5

\* f comes from a by taking the steps G[1] to G[n].
Follows(f, A, a, G, n) ==
    f \in [0..n -> A] /\ f[0] = a /\ \A k \in 1..n : f[k] = G[k][f[k - 1]]

\* There is such a function.
LEMMA Recursion ==
    ASSUME NEW A, NEW a \in A, NEW n \in Nat, NEW G \in [1..n -> [A -> A]]
    PROVE  \E f : Follows(f, A, a, G, n)
<1> DEFINE S == {m \in Nat : m > n \/ \E f : Follows(f, A, a, G, m)}
<1>1. 0 \in S
  <2>1. Follows([k \in 0..0 |-> a], A, a, G, 0)
    BY DEF Follows
  <2> QED BY <2>1
<1>2. ASSUME NEW m \in Nat, m >= 0, m \in S PROVE m + 1 \in S
  <2> SUFFICES ASSUME m + 1 <= n PROVE \E f : Follows(f, A, a, G, m + 1)
    OBVIOUS
  <2>1. PICK f : Follows(f, A, a, G, m)
    BY <1>2
  <2>2. f \in [0..m -> A] /\ G[m + 1] \in [A -> A] /\ m \in 0..m
    BY <2>1 DEF Follows
  <2>3. f[m] \in A /\ G[m + 1][f[m]] \in A
    BY <2>2
  <2> DEFINE g == [k \in 0..(m + 1) |-> IF k = m + 1 THEN G[m + 1][f[m]] ELSE f[k]]
  <2>4. g \in [0..(m + 1) -> A]
    BY <2>2, <2>3
  <2>5. g[m + 1] = G[m + 1][f[m]] /\ \A k \in 0..m : g[k] = f[k]
    OBVIOUS
  <2> HIDE DEF g
  <2>6. g[0] = a
    BY <2>1, <2>5 DEF Follows
  <2>7. ASSUME NEW k \in 1..(m + 1) PROVE g[k] = G[k][g[k - 1]]
    <3>1. k - 1 \in 0..m /\ g[k - 1] = f[k - 1]
      BY <2>5
    <3>2. CASE k = m + 1
      BY <2>5, <3>1, <3>2
    <3>3. CASE k # m + 1
      <4>1. k \in 1..m /\ k \in 0..m
        BY <3>3
      <4>2. g[k] = f[k] /\ f[k] = G[k][f[k - 1]]
        BY <2>1, <2>5, <4>1 DEF Follows
      <4> QED BY <3>1, <4>2
    <3> QED BY <3>2, <3>3
  <2>8. Follows(g, A, a, G, m + 1)
    BY <2>4, <2>6, <2>7 DEF Follows
  <2> QED BY <2>8
<1> HIDE DEF S
<1>3. \A m \in Nat : m >= 0 => m \in S
  BY <1>1, <1>2, Induct
<1>4. n \in S
  BY <1>3
<1> QED BY <1>4 DEF S

-----------------------------------------------------------------------------
(***************************************************************************)
(* Sequences of pieces.                                                    *)
(***************************************************************************)

\* end[i] is where the i-th piece ends.
Ends(end, pieces) ==
    /\ end \in [0..Len(pieces) -> Nat]
    /\ end[0] = 0
    /\ \A k \in 1..Len(pieces) : end[k] = end[k - 1] + Len(pieces[k])

\* What that says of each piece.
LEMMA EndsAre ==
    ASSUME NEW X, NEW pieces \in Seq(Seq(X)), NEW end, Ends(end, pieces)
    PROVE  /\ Len(pieces) \in Nat
           /\ end[0] = 0
           /\ \A k \in 0..Len(pieces) : end[k] \in Nat
           /\ \A k \in 1..Len(pieces) : /\ pieces[k] \in Seq(X) /\ Len(pieces[k]) \in Nat
                                        /\ DOMAIN pieces[k] = 1..Len(pieces[k])
                                        /\ end[k - 1] \in Nat
                                        /\ end[k] = end[k - 1] + Len(pieces[k])
<1>1. Len(pieces) \in Nat
  BY LenProperties
<1>2. \A k \in 1..Len(pieces) : /\ pieces[k] \in Seq(X) /\ Len(pieces[k]) \in Nat
                                /\ DOMAIN pieces[k] = 1..Len(pieces[k])
  BY LenProperties, ElementOfSeq
<1>3. \A k \in 0..Len(pieces) : end[k] \in Nat
  BY DEF Ends
<1>4. \A k \in 1..Len(pieces) : k - 1 \in 0..Len(pieces)
  BY <1>1
<1> QED BY <1>1, <1>2, <1>3, <1>4 DEF Ends

\* There are such numbers.
LEMMA EndsExist ==
    ASSUME NEW X, NEW pieces \in Seq(Seq(X))
    PROVE  \E end : Ends(end, pieces)
<1> DEFINE n == Len(pieces)
           G == [k \in 1..n |-> [x \in Nat |-> x + Len(pieces[k])]]
<1>1. n \in Nat /\ \A k \in 1..n : pieces[k] \in Seq(X) /\ Len(pieces[k]) \in Nat
  BY LenProperties, ElementOfSeq
<1>2. G \in [1..n -> [Nat -> Nat]]
  BY <1>1
<1>3. \A k \in 1..n : \A x \in Nat : G[k][x] = x + Len(pieces[k])
  OBVIOUS
<1> HIDE DEF G
<1>4. PICK f : Follows(f, Nat, 0, G, n)
  BY <1>1, <1>2, Recursion
<1>5. ASSUME NEW k \in 1..n PROVE f[k] = f[k - 1] + Len(pieces[k])
  <2>1. k - 1 \in 0..n
    BY <1>1
  <2>2. f[k - 1] \in Nat /\ f[k] = G[k][f[k - 1]]
    BY <1>4, <2>1 DEF Follows
  <2> QED BY <1>3, <2>2
<1>6. Ends(f, pieces)
  BY <1>4, <1>5 DEF Follows, Ends
<1> QED BY <1>6

\* Later pieces end later.
LEMMA EndsGrow ==
    ASSUME NEW X, NEW pieces \in Seq(Seq(X)), NEW end, Ends(end, pieces)
    PROVE  \A i, j \in 0..Len(pieces) : i <= j => end[i] <= end[j]
<1>1. /\ Len(pieces) \in Nat
      /\ \A k \in 0..Len(pieces) : end[k] \in Nat
      /\ \A k \in 1..Len(pieces) : /\ Len(pieces[k]) \in Nat
                                   /\ end[k] = end[k - 1] + Len(pieces[k])
  BY EndsAre
<1>2. SUFFICES ASSUME NEW i \in 0..Len(pieces)
               PROVE  \A j \in 0..Len(pieces) : i <= j => end[i] <= end[j]
  OBVIOUS
<1> DEFINE S == {j \in Nat : j <= Len(pieces) => end[i] <= end[j]}
<1>3. i \in S
  BY <1>1
<1>4. ASSUME NEW j \in Nat, j >= i, j \in S PROVE j + 1 \in S
  <2> SUFFICES ASSUME j + 1 <= Len(pieces) PROVE end[i] <= end[j + 1]
    OBVIOUS
  <2>1. j + 1 \in 1..Len(pieces) /\ j \in 0..Len(pieces) /\ (j + 1) - 1 = j
    BY <1>1
  <2>2. end[j + 1] = end[j] + Len(pieces[j + 1]) /\ Len(pieces[j + 1]) \in Nat
    BY <1>1, <2>1
  <2>3. end[i] \in Nat /\ end[j] \in Nat
    BY <1>1, <2>1
  <2>4. end[i] <= end[j]
    BY <1>1, <1>4, <2>1
  <2> QED BY <2>2, <2>3, <2>4
<1> HIDE DEF S
<1>5. i \in Nat
  BY <1>1
<1>6. \A j \in Nat : j >= i => j \in S
  BY <1>3, <1>4, <1>5, Induct
<1> QED BY <1>1, <1>6 DEF S

\* What is in a piece is before where later pieces end.
LEMMA Inside ==
    ASSUME NEW X, NEW pieces \in Seq(Seq(X)), NEW end, Ends(end, pieces),
           NEW i \in 1..Len(pieces), NEW k \in 1..Len(pieces[i]), NEW j \in i..Len(pieces)
    PROVE  end[i - 1] + k \in 1..end[j]
<1>1. /\ Len(pieces) \in Nat /\ Len(pieces[i]) \in Nat /\ end[i - 1] \in Nat
      /\ end[i] = end[i - 1] + Len(pieces[i])
  BY EndsAre
<1>2. i \in 0..Len(pieces) /\ j \in 0..Len(pieces) /\ i <= j
  BY <1>1
<1>3. end[i] <= end[j] /\ end[j] \in Nat
  BY <1>2, EndsGrow, EndsAre
<1>4. k \in Nat /\ 1 <= k /\ k <= Len(pieces[i])
  BY <1>1
<1> QED BY <1>1, <1>3, <1>4, SMTT(30)

\* Every position is in a piece.
LEMMA Located ==
    ASSUME NEW X, NEW pieces \in Seq(Seq(X)), NEW end, Ends(end, pieces),
           NEW p \in 1..end[Len(pieces)]
    PROVE  \E i \in 1..Len(pieces) : \E k \in 1..Len(pieces[i]) : p = end[i - 1] + k
<1> DEFINE S == {j \in Nat : j <= Len(pieces) /\ p <= end[j] =>
                    \E i \in 1..Len(pieces) : \E k \in 1..Len(pieces[i]) : p = end[i - 1] + k}
<1>1. Len(pieces) \in Nat /\ end[Len(pieces)] \in Nat /\ p \in Nat /\ p > 0
  BY LenProperties DEF Ends
<1>2. 0 \in S
  BY <1>1 DEF Ends
<1>3. ASSUME NEW j \in Nat, j >= 0, j \in S PROVE j + 1 \in S
  <2> SUFFICES ASSUME j + 1 <= Len(pieces), p <= end[j + 1]
               PROVE  \E i \in 1..Len(pieces) : \E k \in 1..Len(pieces[i]) : p = end[i - 1] + k
    OBVIOUS
  <2>1. CASE p <= end[j]
    BY <1>1, <1>3, <2>1
  <2>2. CASE ~(p <= end[j])
    <3>1. j + 1 \in 1..Len(pieces) /\ j \in 0..Len(pieces) /\ (j + 1) - 1 = j
      BY <1>1
    <3>2. end[j + 1] = end[j] + Len(pieces[j + 1]) /\ end[j] \in Nat
      BY <3>1 DEF Ends
    <3>3. Len(pieces[j + 1]) \in Nat
      BY <3>1, ElementOfSeq, LenProperties
    <3>4. p - end[j] \in 1..Len(pieces[j + 1]) /\ p = end[(j + 1) - 1] + (p - end[j])
      BY <1>1, <2>2, <3>1, <3>2, <3>3, SMTT(30)
    <3> QED BY <3>1, <3>4
  <2> QED BY <2>1, <2>2
<1> HIDE DEF S
<1>4. \A j \in Nat : j >= 0 => j \in S
  BY <1>2, <1>3, Induct
<1>5. Len(pieces) \in S
  BY <1>1, <1>4
<1> QED BY <1>1, <1>5 DEF S

\* The pieces one after the other: each is where it should be.
LEMMA Flattened ==
    ASSUME NEW X, NEW pieces \in Seq(Seq(X)), NEW end, Ends(end, pieces)
    PROVE  /\ FlattenSeq(pieces) \in Seq(X)
           /\ Len(FlattenSeq(pieces)) = end[Len(pieces)]
           /\ \A i \in 1..Len(pieces) : \A k \in 1..Len(pieces[i]) :
                  FlattenSeq(pieces)[end[i - 1] + k] = pieces[i][k]
<1> DEFINE n == Len(pieces)
           G == [k \in 1..n |-> [s \in Seq(X) |-> s \o pieces[k]]]
<1>0. /\ n \in Nat
      /\ end[0] = 0
      /\ \A k \in 0..n : end[k] \in Nat
      /\ \A k \in 1..n : /\ pieces[k] \in Seq(X) /\ Len(pieces[k]) \in Nat
                         /\ end[k - 1] \in Nat
                         /\ end[k] = end[k - 1] + Len(pieces[k])
  BY EndsAre
<1>1. n \in Nat /\ \A k \in 1..n : pieces[k] \in Seq(X) /\ Len(pieces[k]) \in Nat
  BY <1>0
<1>2. G \in [1..n -> [Seq(X) -> Seq(X)]]
  BY <1>1, ConcatProperties
<1>3. \A k \in 1..n : \A s \in Seq(X) : G[k][s] = s \o pieces[k]
  OBVIOUS
<1> HIDE DEF G
<1>4. PICK f : Follows(f, Seq(X), <<>>, G, n)
  <2>1. <<>> \in Seq(X)
    BY EmptySeq
  <2> QED BY <1>1, <1>2, <2>1, Recursion
<1>5. /\ \A k \in 0..n : f[k] \in Seq(X)
      /\ f[0] = <<>>
      /\ \A k \in 1..n : f[k] = f[k - 1] \o pieces[k]
  <2>1. /\ \A k \in 0..n : f[k] \in Seq(X)
        /\ f[0] = <<>>
        /\ \A k \in 1..n : f[k] = G[k][f[k - 1]]
    BY <1>4 DEF Follows
  <2>2. \A k \in 1..n : k - 1 \in 0..n
    BY <1>1
  <2> HIDE DEF n
  <2> QED BY <1>3, <2>1, <2>2, Zenon
<1>6. CASE n = 0
  <2>1. FlattenSeq(pieces) = <<>> /\ pieces = <<>>
    BY <1>6, EmptySeq, Zenon DEF FlattenSeq
  <2> QED BY <1>6, <2>1, EmptySeq DEF Ends
<1>7. CASE n # 0
  <2> DEFINE IsFlat(g) == g = [i \in 1..n |-> IF i = 1 THEN pieces[i] ELSE g[i - 1] \o pieces[i]]
             flat == [k \in 1..n |-> f[k]]
  <2>1. FlattenSeq(pieces) = (CHOOSE g : IsFlat(g))[n]
    BY <1>7, Zenon DEF FlattenSeq
  <2>2. IsFlat(flat)
    <3>1. ASSUME NEW i \in 1..n
          PROVE  f[i] = IF i = 1 THEN pieces[i] ELSE flat[i - 1] \o pieces[i]
      <4>1. CASE i = 1
        <5>1. i - 1 = 0
          BY <4>1
        <5>2. f[i] = <<>> \o pieces[i] /\ pieces[i] \in Seq(X)
          BY <1>1, <1>5, <5>1
        <5>3. f[i] = pieces[i]
          BY <5>2, ConcatEmptySeq
        <5> QED BY <4>1, <5>3
      <4>2. CASE i # 1
        <5>1. i - 1 \in 1..n
          BY <1>1, <4>2
        <5> QED BY <1>5, <4>2, <5>1
      <4> QED BY <4>1, <4>2
    <3> QED BY <3>1
  <2> HIDE DEF IsFlat
  <2>3. IsFlat(CHOOSE g : IsFlat(g))
    BY <2>2, Zenon
  <2> DEFINE h == CHOOSE g : IsFlat(g)
  <2> HIDE DEF h
  <2>4. \A i \in 1..n : h[i] = IF i = 1 THEN pieces[i] ELSE h[i - 1] \o pieces[i]
    <3>1. IsFlat(h)
      BY <2>3 DEF h
    <3> QED BY <3>1 DEF IsFlat
  <2> HIDE DEF flat
  <2> DEFINE S == {m \in Nat : m <= n =>
                /\ h[m] \in Seq(X)
                /\ Len(h[m]) = end[m]
                /\ \A i \in 1..m : \A k \in 1..Len(pieces[i]) : h[m][end[i - 1] + k] = pieces[i][k]}
  <2>5. 1 \in S
    <3>1. 1 \in 1..n /\ h[1] = pieces[1]
      BY <1>1, <1>7, <2>4
    <3>2. end[1] = end[1 - 1] + Len(pieces[1]) /\ end[1 - 1] = 0
      BY <3>1 DEF Ends
    <3> QED BY <1>1, <3>1, <3>2
  <2>6. ASSUME NEW m \in Nat, m >= 1, m \in S PROVE m + 1 \in S
    <3> SUFFICES ASSUME m + 1 <= n
                 PROVE  /\ h[m + 1] \in Seq(X)
                        /\ Len(h[m + 1]) = end[m + 1]
                        /\ \A i \in 1..(m + 1) : \A k \in 1..Len(pieces[i]) :
                               h[m + 1][end[i - 1] + k] = pieces[i][k]
      BY SMTT(30)
    <3>1. m + 1 \in 1..n /\ m \in 0..n /\ (m + 1) - 1 = m /\ m + 1 # 1
      BY <1>1, <2>6
    <3>2. h[m + 1] = h[m] \o pieces[m + 1]
      BY <2>4, <3>1
    <3>3. /\ h[m] \in Seq(X) /\ Len(h[m]) = end[m]
          /\ \A i \in 1..m : \A k \in 1..Len(pieces[i]) : h[m][end[i - 1] + k] = pieces[i][k]
      BY <2>6, <3>1
    <3>4. /\ end[m + 1] = end[m] + Len(pieces[m + 1]) /\ end[m] \in Nat
          /\ Len(pieces[m + 1]) \in Nat /\ pieces[m + 1] \in Seq(X)
      BY <1>0, <3>1
    <3>5. /\ h[m + 1] \in Seq(X) /\ Len(h[m + 1]) = end[m + 1]
          /\ \A p \in 1..(end[m] + Len(pieces[m + 1])) :
                h[m + 1][p] = IF p <= end[m] THEN h[m][p] ELSE pieces[m + 1][p - end[m]]
      <4> DEFINE s == h[m]
                 t == pieces[m + 1]
      <4>1. s \in Seq(X) /\ t \in Seq(X) /\ Len(s) = end[m]
        BY <3>3, <3>4
      <4>2. h[m + 1] = s \o t /\ Len(t) = Len(pieces[m + 1])
        BY <3>2
      <4> HIDE DEF s, t
      <4>3. /\ s \o t \in Seq(X) /\ Len(s \o t) = Len(s) + Len(t)
            /\ \A p \in 1..(Len(s) + Len(t)) :
                  (s \o t)[p] = IF p <= Len(s) THEN s[p] ELSE t[p - Len(s)]
        BY <4>1, ConcatProperties
      <4> QED BY <3>4, <4>1, <4>2, <4>3 DEF s, t
    <3>6. ASSUME NEW i \in 1..(m + 1), NEW k \in 1..Len(pieces[i])
          PROVE  h[m + 1][end[i - 1] + k] = pieces[i][k]
      <4>1. i \in 1..n /\ i - 1 \in 0..n /\ Len(pieces[i]) \in Nat /\ end[i - 1] \in Nat
            /\ end[i] = end[i - 1] + Len(pieces[i])
        <5>1. i \in 1..n
          BY <3>1
        <5>2. i - 1 \in 0..n
          BY <1>0, <5>1
        <5> QED BY <1>0, <5>1, <5>2
      <4>2. CASE i = m + 1
        <5>1. /\ end[m] + k \in 1..(end[m] + Len(pieces[m + 1])) /\ ~(end[m] + k <= end[m])
              /\ (end[m] + k) - end[m] = k
          BY <3>4, <4>1, <4>2, SMTT(30)
        <5> QED BY <3>1, <3>5, <4>2, <5>1
      <4>3. CASE i # m + 1
        <5>1. i \in 1..m /\ i \in 0..n /\ i <= m
          BY <3>1, <4>3
        <5>2. m \in i..n
          BY <3>1, <5>1
        <5>3. end[i - 1] + k \in 1..end[m]
          BY <4>1, <5>2, Inside
        <5>4. end[i - 1] + k \in 1..(end[m] + Len(pieces[m + 1])) /\ end[i - 1] + k <= end[m]
          BY <3>4, <5>3
        <5>5. h[m][end[i - 1] + k] = pieces[i][k]
          BY <3>3, <5>1
        <5> QED BY <3>5, <5>4, <5>5
      <4> QED BY <4>2, <4>3
    <3> QED BY <3>5, <3>6
  <2> HIDE DEF S
  <2>7. \A m \in Nat : m >= 1 => m \in S
    BY <2>5, <2>6, Induct
  <2>8. n \in S /\ n \in Nat /\ n <= n
    BY <1>1, <1>7, <2>7
  <2> QED BY <2>1, <2>8 DEF S, h
<1> QED BY <1>6, <1>7

\* What has the pieces where they should be is what they are put together to.
LEMMA FlattenIs ==
    ASSUME NEW X, NEW pieces \in Seq(Seq(X)), NEW end, Ends(end, pieces),
           NEW s \in Seq(X), Len(s) = end[Len(pieces)],
           \A i \in 1..Len(pieces) : \A k \in 1..Len(pieces[i]) : s[end[i - 1] + k] = pieces[i][k]
    PROVE  FlattenSeq(pieces) = s
<1>1. /\ FlattenSeq(pieces) \in Seq(X)
      /\ Len(FlattenSeq(pieces)) = end[Len(pieces)]
      /\ \A i \in 1..Len(pieces) : \A k \in 1..Len(pieces[i]) :
             FlattenSeq(pieces)[end[i - 1] + k] = pieces[i][k]
  BY Flattened
<1>2. ASSUME NEW p \in 1..Len(s) PROVE FlattenSeq(pieces)[p] = s[p]
  <2>1. PICK i \in 1..Len(pieces) : \E k \in 1..Len(pieces[i]) : p = end[i - 1] + k
    BY Located
  <2> QED BY <1>1, <2>1
<1> QED BY <1>1, <1>2, SeqEqual

\* Its elements are those of the pieces.
LEMMA FlattenHas ==
    ASSUME NEW X, NEW pieces \in Seq(Seq(X))
    PROVE  /\ FlattenSeq(pieces) \in Seq(X)
           /\ ToSet(FlattenSeq(pieces)) = UNION {ToSet(pieces[i]) : i \in 1..Len(pieces)}
<1>1. PICK end : Ends(end, pieces)
  BY EndsExist
<1> DEFINE F == FlattenSeq(pieces)
<1>2. /\ F \in Seq(X)
      /\ Len(F) = end[Len(pieces)]
      /\ \A i \in 1..Len(pieces) : \A k \in 1..Len(pieces[i]) : F[end[i - 1] + k] = pieces[i][k]
  BY <1>1, Flattened
<1> HIDE DEF F
<1>3. DOMAIN F = 1..Len(F) /\ Len(F) \in Nat /\ Len(pieces) \in Nat
  BY <1>2, LenProperties
<1>4. \A i \in 1..Len(pieces) : /\ pieces[i] \in Seq(X) /\ Len(pieces[i]) \in Nat
                                /\ DOMAIN pieces[i] = 1..Len(pieces[i])
  BY LenProperties, ElementOfSeq
<1>5. ASSUME NEW x \in ToSet(F) PROVE \E i \in 1..Len(pieces) : x \in ToSet(pieces[i])
  <2>1. PICK p \in 1..Len(F) : x = F[p]
    BY <1>3 DEF ToSet
  <2>2. p \in 1..end[Len(pieces)]
    BY <1>2
  <2>3. \E i \in 1..Len(pieces) : \E k \in 1..Len(pieces[i]) : p = end[i - 1] + k
    BY <1>1, <2>2, Located, SMTT(30)
  <2> QED BY <1>2, <1>4, <2>1, <2>3, SMTT(30) DEF ToSet
<1>6. ASSUME NEW i \in 1..Len(pieces), NEW x \in ToSet(pieces[i]) PROVE x \in ToSet(F)
  <2>1. PICK k \in 1..Len(pieces[i]) : x = pieces[i][k]
    BY <1>4 DEF ToSet
  <2>2. Len(pieces) \in i..Len(pieces)
    BY <1>3
  <2>3. end[i - 1] + k \in 1..end[Len(pieces)]
    BY <1>1, <2>2, Inside
  <2>5. end[i - 1] + k \in 1..Len(F)
    BY <1>2, <2>3
  <2> QED BY <1>2, <1>3, <2>1, <2>5, SMTT(30) DEF ToSet
<1> QED BY <1>2, <1>5, <1>6 DEF F

-----------------------------------------------------------------------------
(***************************************************************************)
(* Files whose chunks are cut from contents.                               *)
(***************************************************************************)

\* chunk_refs as write_file and truncate_file make them: the last may be shorter than its chunk.
IsRefs(refs) ==
    /\ refs \in Seq([hash : Own, size : 1..MaxChunk])
    /\ \A i \in 1..Len(refs) : refs[i].size <= Len(refs[i].hash)

\* Where the chunks end.
EndOf(refs) == [i \in 0..Len(refs) |-> Start(refs, i + 1)]

\* The chunks of a file have no more bytes than it.
IsFile(f) ==
    /\ IsRefs(f.refs)
    /\ f.size \in 0..MaxSize
    /\ EndOf(f.refs)[Len(f.refs)] <= f.size

\* What chunk_refs consist of.
LEMMA RefsAre ==
    ASSUME NEW refs, IsRefs(refs)
    PROVE  /\ Len(refs) \in Nat /\ DOMAIN refs = 1..Len(refs)
           /\ \A i \in 1..Len(refs) :
                  /\ refs[i] = [hash |-> refs[i].hash, size |-> refs[i].size]
                  /\ refs[i].hash \in Own /\ refs[i].hash \in Data
                  /\ refs[i].hash \in Seq(Bit) /\ Len(refs[i].hash) \in 1..MaxChunk
                  /\ Len(refs[i].hash) \in Nat
                  /\ refs[i].size \in Nat \ {0} /\ refs[i].size <= MaxChunk
                  /\ refs[i].size <= Len(refs[i].hash)
           /\ MaxChunk \in Nat
<1>1. Len(refs) \in Nat /\ DOMAIN refs = 1..Len(refs)
  BY LenProperties DEF IsRefs
<1>2. MaxChunk \in Nat
  BY OpenFilesAssumption DEF OpenFilesAssumption
<1>3. ASSUME NEW i \in 1..Len(refs)
      PROVE  /\ refs[i] = [hash |-> refs[i].hash, size |-> refs[i].size]
             /\ refs[i].hash \in Own
             /\ refs[i].size \in Nat \ {0} /\ refs[i].size <= MaxChunk
             /\ refs[i].size <= Len(refs[i].hash)
  <2>1. refs[i] \in [hash : Own, size : 1..MaxChunk]
    BY ElementOfSeq DEF IsRefs
  <2> QED BY <1>2, <2>1 DEF IsRefs
<1>4. \A i \in 1..Len(refs) : /\ refs[i].hash \in Seq(Bit) /\ refs[i].hash \in Data
                              /\ Len(refs[i].hash) \in 1..MaxChunk /\ Len(refs[i].hash) \in Nat
  BY <1>3, OwnChunks
<1> QED BY <1>1, <1>2, <1>3, <1>4

\* A chunk starts where the one before it ends.
LEMMA Starts ==
    ASSUME NEW refs, IsRefs(refs)
    PROVE  /\ EndOf(refs) \in [0..Len(refs) -> Nat]
           /\ EndOf(refs)[0] = 0
           /\ \A i \in 1..Len(refs) : /\ EndOf(refs)[i - 1] \in Nat /\ EndOf(refs)[i] \in Nat
                                      /\ EndOf(refs)[i] = EndOf(refs)[i - 1] + refs[i].size
                                      /\ Start(refs, i) = EndOf(refs)[i - 1]
<1> DEFINE n == Len(refs)
           G == [k \in 1..n |-> [x \in Nat |-> x + refs[k].size]]
           IsSum(g) == g = [k \in 0..n |-> IF k = 0 THEN 0 ELSE g[k - 1] + refs[k].size]
<1>1. n \in Nat /\ \A k \in 1..n : refs[k].size \in Nat
  BY RefsAre
<1>2. G \in [1..n -> [Nat -> Nat]]
  BY <1>1
<1>3. \A k \in 1..n : \A x \in Nat : G[k][x] = x + refs[k].size
  OBVIOUS
<1> HIDE DEF G
<1>4. PICK f : Follows(f, Nat, 0, G, n)
  BY <1>1, <1>2, Recursion
<1>5. /\ \A k \in 0..n : f[k] \in Nat
      /\ f = [k \in 0..n |-> f[k]]
      /\ f[0] = 0
      /\ \A k \in 1..n : f[k] = f[k - 1] + refs[k].size
  <2>1. /\ \A k \in 0..n : f[k] \in Nat
        /\ f = [k \in 0..n |-> f[k]]
        /\ f[0] = 0
        /\ \A k \in 1..n : f[k] = G[k][f[k - 1]]
    BY <1>4 DEF Follows
  <2>2. \A k \in 1..n : k - 1 \in 0..n
    BY <1>1
  <2> HIDE DEF n
  <2> QED BY <1>3, <2>1, <2>2, Zenon
<1>6. IsSum(f)
  <2>0. \A k \in 0..n : k = 0 \/ k \in 1..n
    BY <1>1
  <2>1. \A k \in 0..n : f[k] = IF k = 0 THEN 0 ELSE f[k - 1] + refs[k].size
    BY <1>5, <2>0, Zenon
  <2> HIDE DEF n
  <2> QED BY <1>5, <2>1, Zenon
<1> DEFINE s == CHOOSE g : IsSum(g)
<1>7. IsSum(s)
  BY <1>6, Zenon
<1>8. /\ s[0] = 0
      /\ \A k \in 1..n : s[k] = s[k - 1] + refs[k].size
  <2> HIDE DEF s
  <2>1. s = [k \in 0..n |-> IF k = 0 THEN 0 ELSE s[k - 1] + refs[k].size]
    BY <1>7
  <2>2. \A k \in 0..n : s[k] = IF k = 0 THEN 0 ELSE s[k - 1] + refs[k].size
    BY <2>1
  <2>3. 0 \in 0..n /\ \A k \in 1..n : k \in 0..n /\ k # 0
    BY <1>1
  <2> QED BY <2>2, <2>3, Zenon
<1>9. \A i : Start(refs, i) = s[i - 1]
  BY Zenon DEF Start
<1> HIDE DEF s, IsSum
<1> DEFINE S == {k \in Nat : k <= n => s[k] \in Nat}
<1>10. 0 \in S
  BY <1>8
<1>11. ASSUME NEW k \in Nat, k >= 0, k \in S PROVE k + 1 \in S
  <2> SUFFICES ASSUME k + 1 <= n PROVE s[k + 1] \in Nat
    OBVIOUS
  <2>1. k + 1 \in 1..n /\ (k + 1) - 1 = k /\ k <= n
    BY <1>1
  <2>2. s[k] \in Nat /\ s[k + 1] = s[k] + refs[k + 1].size
    BY <1>8, <1>11, <2>1
  <2> QED BY <1>1, <2>1, <2>2
<1> HIDE DEF S
<1>12. \A k \in Nat : k >= 0 => k \in S
  BY <1>10, <1>11, Induct
<1>13. \A k \in 0..n : s[k] \in Nat
  BY <1>1, <1>12 DEF S
<1>14. \A k \in 0..n : EndOf(refs)[k] = s[k]
  <2>1. \A k \in 0..n : EndOf(refs)[k] = Start(refs, k + 1)
    BY Zenon DEF EndOf
  <2>2. \A k \in 0..n : (k + 1) - 1 = k
    BY <1>1
  <2> QED BY <1>9, <2>1, <2>2, Zenon
<1>15. EndOf(refs) \in [0..n -> Nat]
  BY <1>13, <1>14 DEF EndOf
<1>16. 0 \in 0..n /\ \A i \in 1..n : i - 1 \in 0..n /\ i \in 0..n
  BY <1>1
<1> QED BY <1>8, <1>9, <1>13, <1>14, <1>15, <1>16, Zenon

\* Pieces that are as long as the chunk_refs say end where the chunks end.
LEMMA EndsOfRefs ==
    ASSUME NEW refs, IsRefs(refs), NEW pieces, Len(pieces) = Len(refs),
           \A i \in 1..Len(refs) : Len(pieces[i]) = refs[i].size
    PROVE  Ends(EndOf(refs), pieces)
BY Starts DEF Ends

\* Zeros are bytes.
LEMMA ZerosAre ==
    ASSUME NEW n \in Nat
    PROVE  Zeros(n) \in Seq(Bit) /\ Len(Zeros(n)) = n /\ \A k \in 1..n : Zeros(n)[k] = 0
<1>1. Zeros(n) \in [1..n -> Bit]
  BY DEF Zeros, Bit
<1> QED BY <1>1 DEF Zeros

\* The bytes of a file, chunk by chunk.
LEMMA BytesAre ==
    ASSUME NEW f, IsRefs(f.refs)
    PROVE  /\ Bytes(f) \in Seq(Bit)
           /\ Len(Bytes(f)) = EndOf(f.refs)[Len(f.refs)]
           /\ \A i \in 1..Len(f.refs) : \A k \in 1..f.refs[i].size :
                  Bytes(f)[EndOf(f.refs)[i - 1] + k] = f.refs[i].hash[k]
<1> DEFINE refs == f.refs
           pieces == [i \in DOMAIN refs |-> SubSeq(refs[i].hash, 1, refs[i].size)]
<1>1. /\ Len(refs) \in Nat /\ DOMAIN refs = 1..Len(refs)
      /\ \A i \in 1..Len(refs) : /\ refs[i].hash \in Seq(Bit) /\ Len(refs[i].hash) \in Nat
                                 /\ refs[i].size \in Nat \ {0} /\ refs[i].size <= Len(refs[i].hash)
  BY RefsAre
<1>2. ASSUME NEW i \in 1..Len(refs)
      PROVE  /\ pieces[i] \in Seq(Bit) /\ Len(pieces[i]) = refs[i].size
             /\ \A k \in 1..refs[i].size : pieces[i][k] = refs[i].hash[k]
  <2> DEFINE h == refs[i].hash
             m == refs[i].size
  <2>1. pieces[i] = SubSeq(h, 1, m)
    BY <1>1
  <2>2. h \in Seq(Bit) /\ Len(h) \in Nat /\ m \in Nat \ {0} /\ m <= Len(h)
    BY <1>1
  <2> HIDE DEF h, m, pieces
  <2>3. \A k \in 1..m : h[k] \in Bit
    BY <2>2, ElementOfSeq
  <2>4. /\ SubSeq(h, 1, m) \in Seq(Bit) /\ Len(SubSeq(h, 1, m)) = IF 1 <= m THEN m - 1 + 1 ELSE 0
        /\ \A k \in 1..(m - 1 + 1) : SubSeq(h, 1, m)[k] = h[1 + k - 1]
    BY <2>2, <2>3, SubSeqProperties
  <2>5. m - 1 + 1 = m /\ 1 <= m /\ \A k \in 1..m : 1 + k - 1 = k
    BY <2>2
  <2>6. /\ pieces[i] \in Seq(Bit) /\ Len(pieces[i]) = m
        /\ \A k \in 1..m : pieces[i][k] = h[k]
    BY <2>1, <2>4, <2>5
  <2> QED BY <2>6 DEF h, m
<1>3. pieces \in Seq(Seq(Bit)) /\ Len(pieces) = Len(refs)
  <2>1. pieces \in [1..Len(refs) -> Seq(Bit)]
    BY <1>1, <1>2
  <2> QED BY <1>1, <2>1
<1>4. Bytes(f) = FlattenSeq(pieces)
  BY DEF Bytes
<1> HIDE DEF pieces
<1>5. Ends(EndOf(refs), pieces)
  BY <1>2, <1>3, EndsOfRefs
<1>6. /\ FlattenSeq(pieces) \in Seq(Bit)
      /\ Len(FlattenSeq(pieces)) = EndOf(refs)[Len(pieces)]
      /\ \A i \in 1..Len(pieces) : \A k \in 1..Len(pieces[i]) :
             FlattenSeq(pieces)[EndOf(refs)[i - 1] + k] = pieces[i][k]
  BY <1>3, <1>5, Flattened
<1> QED BY <1>2, <1>3, <1>4, <1>6, SMTT(30)

\* And the chunk that each comes from.
LEMMA OriginsAre ==
    ASSUME NEW f, IsRefs(f.refs)
    PROVE  /\ Origins(f) \in Seq(Own)
           /\ Len(Origins(f)) = EndOf(f.refs)[Len(f.refs)]
           /\ \A i \in 1..Len(f.refs) : \A k \in 1..f.refs[i].size :
                  Origins(f)[EndOf(f.refs)[i - 1] + k] = f.refs[i].hash
<1> DEFINE refs == f.refs
           pieces == [i \in DOMAIN refs |-> [k \in 1..refs[i].size |-> refs[i].hash]]
<1>1. /\ Len(refs) \in Nat /\ DOMAIN refs = 1..Len(refs)
      /\ \A i \in 1..Len(refs) : refs[i].hash \in Own /\ refs[i].size \in Nat
  BY RefsAre
<1>2. ASSUME NEW i \in 1..Len(refs)
      PROVE  /\ pieces[i] \in Seq(Own) /\ Len(pieces[i]) = refs[i].size
             /\ \A k \in 1..refs[i].size : pieces[i][k] = refs[i].hash
  <2>1. pieces[i] = [k \in 1..refs[i].size |-> refs[i].hash]
    BY <1>1
  <2>2. pieces[i] \in [1..refs[i].size -> Own]
    BY <1>1, <2>1
  <2> HIDE DEF pieces
  <2> QED BY <1>1, <2>1, <2>2, SMTT(30)
<1>3. pieces \in Seq(Seq(Own)) /\ Len(pieces) = Len(refs)
  <2>1. pieces \in [1..Len(refs) -> Seq(Own)]
    BY <1>1, <1>2
  <2> QED BY <1>1, <2>1
<1>4. Origins(f) = FlattenSeq(pieces)
  BY DEF Origins
<1> HIDE DEF pieces
<1>5. Ends(EndOf(refs), pieces)
  BY <1>2, <1>3, EndsOfRefs
<1>6. /\ FlattenSeq(pieces) \in Seq(Own)
      /\ Len(FlattenSeq(pieces)) = EndOf(refs)[Len(pieces)]
      /\ \A i \in 1..Len(pieces) : \A k \in 1..Len(pieces[i]) :
             FlattenSeq(pieces)[EndOf(refs)[i - 1] + k] = pieces[i][k]
  BY <1>3, <1>5, Flattened
<1> QED BY <1>2, <1>3, <1>4, <1>6

-----------------------------------------------------------------------------
(***************************************************************************)
(* Reading.                                                                *)
(***************************************************************************)

\* The smaller and the greater of two numbers.
LEMMA LesserIs ==
    ASSUME NEW m \in Int, NEW n \in Int
    PROVE  /\ Lesser(m, n) = (IF m <= n THEN m ELSE n) /\ Lesser(m, n) \in Int
           /\ Greater(m, n) = (IF m <= n THEN n ELSE m) /\ Greater(m, n) \in Int
BY DEF Lesser, Greater

\* What is between two positions.
LEMMA Cut ==
    ASSUME NEW X, NEW s \in Seq(X), NEW lo \in Nat, NEW hi \in Int, hi <= Len(s)
    PROVE  /\ SubSeq(s, lo + 1, hi) \in Seq(X)
           /\ Len(SubSeq(s, lo + 1, hi)) = IF lo < hi THEN hi - lo ELSE 0
           /\ \A k \in 1..(hi - lo) : SubSeq(s, lo + 1, hi)[k] = s[lo + k]
<1>1. Len(s) \in Nat
  BY LenProperties
<1>2. \A i \in (lo + 1)..hi : i \in 1..Len(s)
  BY <1>1
<1>3. \A i \in (lo + 1)..hi : s[i] \in X
  BY <1>2, ElementOfSeq
<1>4. /\ SubSeq(s, lo + 1, hi) \in Seq(X)
      /\ Len(SubSeq(s, lo + 1, hi)) = IF lo + 1 <= hi THEN hi - (lo + 1) + 1 ELSE 0
      /\ \A k \in 1..(hi - (lo + 1) + 1) : SubSeq(s, lo + 1, hi)[k] = s[(lo + 1) + k - 1]
  <2>1. lo + 1 \in Int
    OBVIOUS
  <2> QED BY <1>3, <2>1, SubSeqProperties
<1>5. hi - (lo + 1) + 1 = hi - lo /\ \A k \in 1..(hi - lo) : (lo + 1) + k - 1 = lo + k
  OBVIOUS
<1> QED BY <1>4, <1>5

\* What get() gives for a chunk, with zeros if it is not in the store.
DataOf(ref) == IF IsStored(ref.hash) THEN ref.hash ELSE Zeros(ref.size)

\* There are enough bytes.
LEMMA DataAre ==
    ASSUME NEW refs, IsRefs(refs), NEW i \in 1..Len(refs)
    PROVE  /\ DataOf(refs[i]) \in Seq(Bit) /\ Len(DataOf(refs[i])) \in Nat
           /\ refs[i].size \in Nat /\ refs[i].size <= Len(DataOf(refs[i]))
           /\ \A k \in 1..refs[i].size :
                  DataOf(refs[i])[k] = IF IsStored(refs[i].hash) THEN refs[i].hash[k] ELSE 0
<1>1. /\ refs[i].hash \in Seq(Bit) /\ Len(refs[i].hash) \in Nat
      /\ refs[i].size \in Nat /\ refs[i].size <= Len(refs[i].hash)
  BY RefsAre
<1>2. /\ Zeros(refs[i].size) \in Seq(Bit) /\ Len(Zeros(refs[i].size)) = refs[i].size
      /\ \A k \in 1..refs[i].size : Zeros(refs[i].size)[k] = 0
  BY <1>1, ZerosAre
<1> QED BY <1>1, <1>2 DEF DataOf

\* The bytes of a file that are in the store, and zeros for the others.
Held(f) ==
    [k \in DOMAIN Bytes(f) |-> IF IsStored(Origins(f)[k]) THEN Bytes(f)[k] ELSE 0]

\* It is as long as the chunks are.
LEMMA HeldAre ==
    ASSUME NEW f, IsRefs(f.refs)
    PROVE  /\ Held(f) \in Seq(Bit)
           /\ Len(Held(f)) = EndOf(f.refs)[Len(f.refs)]
           /\ \A i \in 1..Len(f.refs) : \A k \in 1..f.refs[i].size :
                  Held(f)[EndOf(f.refs)[i - 1] + k] = DataOf(f.refs[i])[k]
<1> DEFINE refs == f.refs
           end == EndOf(refs)
           n == Len(refs)
<1>1. /\ Bytes(f) \in Seq(Bit) /\ Len(Bytes(f)) = end[n]
      /\ \A i \in 1..n : \A k \in 1..refs[i].size : Bytes(f)[end[i - 1] + k] = refs[i].hash[k]
  BY BytesAre
<1>2. \A i \in 1..n : \A k \in 1..refs[i].size : Origins(f)[end[i - 1] + k] = refs[i].hash
  BY OriginsAre
<1>3. end[n] \in Nat /\ DOMAIN Bytes(f) = 1..end[n] /\ \A k \in 1..end[n] : Bytes(f)[k] \in Bit
  BY <1>1, LenProperties, ElementOfSeq
<1>4. Held(f) \in [1..end[n] -> Bit]
  <2>1. 0 \in Bit
    BY DEF Bit
  <2> QED BY <1>3, <2>1 DEF Held
<1>5. Held(f) \in Seq(Bit) /\ Len(Held(f)) = end[n]
  <2> HIDE DEF end, n, refs
  <2> QED BY <1>3, <1>4
<1>6. ASSUME NEW i \in 1..n, NEW k \in 1..refs[i].size
      PROVE  Held(f)[end[i - 1] + k] = DataOf(refs[i])[k]
  <2> DEFINE pieces == [j \in 1..n |-> Zeros(refs[j].size)]
  <2>1. n \in Nat /\ \A j \in 1..n : refs[j].size \in Nat
    BY RefsAre
  <2>2. \A j \in 1..n : pieces[j] \in Seq(Bit) /\ Len(pieces[j]) = refs[j].size
    BY <2>1, ZerosAre
  <2>3. pieces \in Seq(Seq(Bit)) /\ Len(pieces) = n
    <3>1. pieces \in [1..n -> Seq(Bit)]
      BY <2>2
    <3> QED BY <2>1, <3>1
  <2> HIDE DEF pieces
  <2>4. Ends(end, pieces)
    BY <2>2, <2>3, EndsOfRefs
  <2>5. n \in i..n /\ i \in 1..Len(pieces) /\ k \in 1..Len(pieces[i]) /\ n \in i..Len(pieces)
    BY <2>1, <2>2, <2>3
  <2>6. end[i - 1] + k \in 1..end[n]
    BY <2>3, <2>4, <2>5, Inside
  <2>7. Held(f)[end[i - 1] + k] = IF IsStored(Origins(f)[end[i - 1] + k])
                                  THEN Bytes(f)[end[i - 1] + k] ELSE 0
    BY <1>3, <2>6 DEF Held
  <2>8. Held(f)[end[i - 1] + k] = IF IsStored(refs[i].hash) THEN refs[i].hash[k] ELSE 0
    BY <1>1, <1>2, <2>7
  <2> QED BY <2>8, DataAre
<1> QED BY <1>5, <1>6

\* How many of the first x bytes are between offset and end.
Between(x, offset, end) == IF Lesser(x, end) > offset THEN Lesser(x, end) - offset ELSE 0

\* read_file() returns what is there of the range.
LEMMA ReadIs ==
    ASSUME NEW f, IsFile(f), NEW offset \in Nat, NEW length \in Nat
    PROVE  ReadFile(f, offset, length) = Slice(Held(f), offset, length)
<1> DEFINE refs == f.refs
           E == EndOf(refs)
           n == Len(refs)
           held == Held(f)
           end == Lesser(offset + length, f.size)
           needed == Needed(f, offset, end)
           pieces == [i \in DOMAIN refs |->
                IF i \in needed THEN Piece(refs[i], Start(refs, i), offset, end) ELSE <<>>]
           top == Lesser(offset + length, Len(held))
           slice == SubSeq(held, offset + 1, top)
<1>1. /\ IsRefs(refs) /\ f.size \in Nat /\ E[n] <= f.size
  BY OpenFilesAssumption DEF IsFile, OpenFilesAssumption
<1>2. /\ n \in Nat /\ DOMAIN refs = 1..n
      /\ \A i \in 1..n : refs[i].size \in Nat \ {0}
  BY <1>1, RefsAre
<1>3. /\ E \in [0..n -> Nat] /\ E[0] = 0
      /\ \A i \in 1..n : /\ E[i - 1] \in Nat /\ E[i] \in Nat /\ E[i] = E[i - 1] + refs[i].size
                         /\ Start(refs, i) = E[i - 1]
  BY <1>1, Starts
<1>4. /\ held \in Seq(Bit) /\ Len(held) = E[n] /\ E[n] \in Nat
      /\ \A i \in 1..n : \A k \in 1..refs[i].size : held[E[i - 1] + k] = DataOf(refs[i])[k]
  BY <1>1, <1>2, <1>3, HeldAre
<1>5. end = (IF offset + length <= f.size THEN offset + length ELSE f.size) /\ end \in Nat
  BY <1>1 DEF Lesser
<1>6. top = (IF offset + length <= E[n] THEN offset + length ELSE E[n]) /\ top \in Nat
      /\ top <= E[n]
  BY <1>4 DEF Lesser
<1>7. /\ slice \in Seq(Bit)
      /\ Len(slice) = IF offset < top THEN top - offset ELSE 0
      /\ \A k \in 1..(top - offset) : slice[k] = held[offset + k]
  BY <1>4, <1>6, Cut, SMTT(30)
<1>8. ReadFile(f, offset, length) = IF offset >= end THEN <<>> ELSE FlattenSeq(pieces)
  BY Zenon DEF ReadFile
<1>9. Slice(Held(f), offset, length) = slice
  BY DEF Slice
<1>10. \A i \in 1..n : i \in needed <=> E[i - 1] + refs[i].size > offset /\ E[i - 1] < end
  BY <1>2, <1>3 DEF Needed
<1>11. CASE offset >= end
  <2>1. Len(slice) = 0
    BY <1>1, <1>4, <1>5, <1>6, <1>7, <1>11
  <2>2. slice = <<>>
    BY <1>7, <2>1, EmptySeq
  <2> QED BY <1>8, <1>9, <1>11, <2>2
<1>12. CASE offset < end
  <2> DEFINE L == [i \in 0..n |-> Between(E[i], offset, end)]
  <2> HIDE DEF refs, E, n, held, end, needed, top, slice
  <2>1. ASSUME NEW i \in 1..n
        PROVE  /\ pieces[i] \in Seq(Bit)
               /\ Between(E[i], offset, end) = Between(E[i - 1], offset, end) + Len(pieces[i])
               /\ Between(E[i - 1], offset, end) \in Nat /\ Len(pieces[i]) \in Nat
               /\ \A k \in 1..Len(pieces[i]) :
                      pieces[i][k] = held[offset + Between(E[i - 1], offset, end) + k]
    <3> DEFINE a == E[i - 1]
               m == refs[i].size
               d == DataOf(refs[i])
               lo == Greater(offset - a, 0)
               hi == Lesser(end - a, m)
    <3>1. a \in Nat /\ m \in Nat \ {0} /\ E[i] = a + m /\ Start(refs, i) = a
      BY <1>2, <1>3
    <3>2. /\ d \in Seq(Bit) /\ Len(d) \in Nat /\ m <= Len(d)
          /\ \A k \in 1..m : held[a + k] = d[k]
      BY <1>1, <1>4, DataAre DEF n
    <3>3. pieces[i] = IF i \in needed THEN Piece(refs[i], a, offset, end) ELSE <<>>
      BY <1>2, <3>1
    <3>4. Piece(refs[i], a, offset, end) = SubSeq(d, lo + 1, Lesser(hi, Len(d)))
      BY Zenon DEF Piece, DataOf
    <3>5. i \in needed <=> a + m > offset /\ a < end
      BY <1>10
    <3> HIDE DEF a, m, d, pieces
    <3>6. /\ Between(a, offset, end) \in Nat
          /\ lo \in Nat /\ hi \in Int /\ hi <= m
          /\ a + m > offset /\ a < end =>
                 /\ lo < hi
                 /\ Between(a + m, offset, end) = Between(a, offset, end) + (hi - lo)
                 /\ offset + Between(a, offset, end) = a + lo
          /\ ~(a + m > offset /\ a < end) =>
                 Between(a + m, offset, end) = Between(a, offset, end)
      <4>1. a \in Nat /\ m \in Nat \ {0} /\ end \in Nat /\ offset < end
        BY <1>5, <1>12, <3>1
      <4> QED BY <4>1 DEF Between, Lesser, Greater
    <3> HIDE DEF lo, hi
    <3>7. CASE i \in needed
      <4>1. Lesser(hi, Len(d)) = hi
        BY <3>1, <3>2, <3>6 DEF Lesser
      <4>2. hi <= Len(d)
        BY <3>1, <3>2, <3>6
      <4>3. /\ pieces[i] \in Seq(Bit) /\ Len(pieces[i]) = (IF lo < hi THEN hi - lo ELSE 0)
            /\ \A k \in 1..(hi - lo) : pieces[i][k] = d[lo + k]
        BY <3>2, <3>3, <3>4, <3>6, <3>7, <4>1, <4>2, Cut
      <4>4. Len(pieces[i]) = hi - lo /\ hi - lo \in Nat
        BY <3>5, <3>6, <3>7, <4>3
      <4>5. ASSUME NEW k \in 1..(hi - lo)
            PROVE  pieces[i][k] = held[offset + Between(a, offset, end) + k]
        <5>1. lo + k \in 1..m
          BY <3>1, <3>6
        <5>2. held[a + (lo + k)] = d[lo + k]
          BY <3>2, <5>1
        <5>3. a + (lo + k) = offset + Between(a, offset, end) + k
          BY <3>1, <3>5, <3>6, <3>7
        <5> QED BY <4>3, <5>2, <5>3
      <4>6. Between(E[i], offset, end) = Between(a, offset, end) + Len(pieces[i])
        BY <3>1, <3>5, <3>6, <3>7, <4>4
      <4> QED BY <3>6, <4>3, <4>4, <4>5, <4>6 DEF a
    <3>8. CASE i \notin needed
      <4>1. pieces[i] = <<>>
        BY <3>3, <3>8
      <4>2. pieces[i] \in Seq(Bit) /\ Len(pieces[i]) = 0
        BY <4>1, EmptySeq
      <4>3. Between(E[i], offset, end) = Between(a, offset, end)
        BY <3>1, <3>5, <3>6, <3>8
      <4> QED BY <3>6, <4>2, <4>3 DEF a
    <3> QED BY <3>7, <3>8
  <2>2. pieces \in Seq(Seq(Bit)) /\ Len(pieces) = n
    <3>1. pieces \in [1..n -> Seq(Bit)]
      BY <1>2, <2>1
    <3> QED BY <1>2, <3>1
  <2> HIDE DEF pieces
  <2>3. \A i \in 1..n : i \in 0..n /\ i - 1 \in 0..n
    BY <1>2
  <2>4. /\ L[0] = 0
        /\ \A i \in 0..n : L[i] \in Nat
        /\ L \in [0..n -> Nat]
        /\ \A i \in 1..n : L[i] = L[i - 1] + Len(pieces[i])
    <3>1. \A i \in 0..n : L[i] = Between(E[i], offset, end)
      OBVIOUS
    <3>2. L[0] = 0
      <4>1. 0 \in 0..n
        BY <1>2
      <4> QED BY <1>3, <1>5, <1>12, <3>1, <4>1 DEF Between, Lesser
    <3>3. ASSUME NEW i \in 0..n PROVE Between(E[i], offset, end) \in Nat
      <4>1. E[i] \in Nat
        BY <1>3
      <4> QED BY <1>5, <4>1 DEF Between, Lesser
    <3>4. \A i \in 1..n : L[i] = L[i - 1] + Len(pieces[i])
      BY <2>1, <2>3, <3>1
    <3>5. L \in [0..n -> Nat] /\ \A i \in 0..n : L[i] \in Nat
      BY <3>3
    <3> QED BY <3>2, <3>4, <3>5
  <2>5. Ends(L, pieces)
    BY <2>2, <2>4 DEF Ends
  <2>6. Len(slice) = L[Len(pieces)]
    <3>1. n \in 0..n
      BY <1>2
    <3>2. L[n] = Between(E[n], offset, end)
      BY <3>1
    <3>3. Len(slice) = Between(E[n], offset, end)
      BY <1>1, <1>4, <1>5, <1>6, <1>7, <1>12 DEF Between, Lesser
    <3> QED BY <2>2, <3>2, <3>3
  <2>7. ASSUME NEW i \in 1..Len(pieces), NEW k \in 1..Len(pieces[i])
        PROVE  slice[L[i - 1] + k] = pieces[i][k]
    <3>1. i \in 1..n /\ i - 1 \in 0..n /\ Len(pieces) \in i..Len(pieces)
      BY <1>2, <2>2
    <3>2. L[i - 1] + k \in 1..L[Len(pieces)]
      BY <2>2, <2>5, <3>1, Inside
    <3>3. L[i - 1] + k \in 1..(top - offset)
      BY <1>6, <1>7, <2>6, <3>2, SMTT(30)
    <3>4. slice[L[i - 1] + k] = held[offset + (L[i - 1] + k)]
      BY <1>7, <3>3
    <3>5. L[i - 1] = Between(E[i - 1], offset, end) /\ L[i - 1] \in Nat /\ Len(pieces[i]) \in Nat
      BY <2>1, <2>4, <3>1
    <3>6. offset + (L[i - 1] + k) = offset + Between(E[i - 1], offset, end) + k
      BY <3>5
    <3> QED BY <2>1, <3>1, <3>4, <3>6
  <2> HIDE DEF L
  <2>8. FlattenSeq(pieces) = slice
    BY <1>7, <2>2, <2>5, <2>6, <2>7, FlattenIs
  <2> QED BY <1>8, <1>9, <1>12, <2>8, <1>5
<1> QED BY <1>5, <1>11, <1>12

-----------------------------------------------------------------------------
(***************************************************************************)
(* What is missing.                                                        *)
(***************************************************************************)

\* A position is in a chunk, and a chunk is before where later ones end.
LEMMA InChunks ==
    ASSUME NEW refs, IsRefs(refs)
    PROVE  /\ \A p \in 1..EndOf(refs)[Len(refs)] :
                  \E i \in 1..Len(refs) : \E k \in 1..refs[i].size : p = EndOf(refs)[i - 1] + k
           /\ \A i \in 1..Len(refs) : \A k \in 1..refs[i].size :
                  EndOf(refs)[i - 1] + k \in 1..EndOf(refs)[Len(refs)]
           /\ \A i, j \in 0..Len(refs) : i <= j => EndOf(refs)[i] <= EndOf(refs)[j]
<1> DEFINE n == Len(refs)
           E == EndOf(refs)
           pieces == [j \in 1..n |-> Zeros(refs[j].size)]
<1>1. n \in Nat /\ \A j \in 1..n : refs[j].size \in Nat
  BY RefsAre
<1>2. \A j \in 1..n : pieces[j] \in Seq(Bit) /\ Len(pieces[j]) = refs[j].size
  BY <1>1, ZerosAre
<1>3. pieces \in Seq(Seq(Bit)) /\ Len(pieces) = n
  <2>1. pieces \in [1..n -> Seq(Bit)]
    BY <1>2
  <2> QED BY <1>1, <2>1
<1> HIDE DEF pieces, E
<1>4. Ends(E, pieces)
  BY <1>2, <1>3, EndsOfRefs DEF E
<1>5. ASSUME NEW p \in 1..E[n]
      PROVE  \E i \in 1..n : \E k \in 1..refs[i].size : p = E[i - 1] + k
  <2>1. \E i \in 1..Len(pieces) : \E k \in 1..Len(pieces[i]) : p = E[i - 1] + k
    BY <1>3, <1>4, <1>5, Located
  <2> QED BY <1>2, <1>3, <2>1
<1>6. ASSUME NEW i \in 1..n, NEW k \in 1..refs[i].size PROVE E[i - 1] + k \in 1..E[n]
  <2>1. i \in 1..Len(pieces) /\ k \in 1..Len(pieces[i]) /\ n \in i..Len(pieces)
    BY <1>1, <1>2, <1>3
  <2> QED BY <1>3, <1>4, <2>1, Inside
<1>7. \A i, j \in 0..n : i <= j => E[i] <= E[j]
  BY <1>3, <1>4, EndsGrow
<1> QED BY <1>5, <1>6, <1>7 DEF E

\* missing_chunk_hashes_for() names the needed chunks that are not in the store.
LEMMA MissingHas ==
    ASSUME NEW f, IsRefs(f.refs), NEW offset, NEW length
    PROVE  LET needed == Needed(f, offset, Lesser(offset + length, f.size))
           IN  /\ Missing(f, offset, length) \in Seq(Own)
               /\ \A hash : hash \in ToSet(Missing(f, offset, length)) <=>
                      \E i \in needed : hash = f.refs[i].hash /\ ~IsStored(hash)
<1> DEFINE refs == f.refs
           needed == Needed(f, offset, Lesser(offset + length, f.size))
           pieces == [i \in DOMAIN refs |->
                IF i \in needed /\ ~IsStored(refs[i].hash) THEN <<refs[i].hash>> ELSE <<>>]
<1>1. /\ Len(refs) \in Nat /\ DOMAIN refs = 1..Len(refs)
      /\ \A i \in 1..Len(refs) : refs[i].hash \in Own
  BY RefsAre
<1>2. needed \subseteq 1..Len(refs)
  BY <1>1 DEF Needed
<1> HIDE DEF needed
<1>3. \A i \in 1..Len(refs) :
          pieces[i] = IF i \in needed /\ ~IsStored(refs[i].hash) THEN <<refs[i].hash>> ELSE <<>>
  BY <1>1
<1>4. Missing(f, offset, length) = FlattenSeq(pieces)
  BY Zenon DEF Missing, needed
<1> HIDE DEF pieces
<1>5. ASSUME NEW i \in 1..Len(refs)
      PROVE  /\ pieces[i] \in Seq(Own)
             /\ ToSet(pieces[i]) = IF i \in needed /\ ~IsStored(refs[i].hash)
                                   THEN {refs[i].hash} ELSE {}
  <2>1. ASSUME NEW x \in Own PROVE <<x>> \in Seq(Own) /\ ToSet(<<x>>) = {x}
    BY DEF ToSet
  <2>2. <<>> \in Seq(Own) /\ ToSet(<<>>) = {}
    BY DEF ToSet
  <2>3. CASE i \in needed /\ ~IsStored(refs[i].hash)
    BY <1>1, <1>3, <2>1, <2>3
  <2>4. CASE ~(i \in needed /\ ~IsStored(refs[i].hash))
    BY <1>3, <2>2, <2>4
  <2> QED BY <2>3, <2>4
<1>6. pieces \in Seq(Seq(Own)) /\ Len(pieces) = Len(refs)
  <2>1. pieces \in [1..Len(refs) -> Seq(Own)]
    BY <1>1, <1>5 DEF pieces
  <2> QED BY <1>1, <2>1
<1>7. /\ FlattenSeq(pieces) \in Seq(Own)
      /\ ToSet(FlattenSeq(pieces)) = UNION {ToSet(pieces[i]) : i \in 1..Len(refs)}
  BY <1>6, FlattenHas
<1>8. ASSUME NEW hash
      PROVE  hash \in ToSet(FlattenSeq(pieces)) <=>
                 \E i \in needed : hash = refs[i].hash /\ ~IsStored(hash)
  <2>1. hash \in ToSet(FlattenSeq(pieces)) <=> \E i \in 1..Len(refs) : hash \in ToSet(pieces[i])
    BY <1>7
  <2>2. \A i \in 1..Len(refs) :
            hash \in ToSet(pieces[i]) <=> i \in needed /\ hash = refs[i].hash /\ ~IsStored(hash)
    BY <1>5
  <2> QED BY <1>2, <2>1, <2>2
<1> QED BY <1>4, <1>7, <1>8 DEF needed

\* These are the chunks that bytes of the range come from.
LEMMA MissingIs ==
    ASSUME NEW f, IsFile(f), NEW offset \in Nat, NEW length \in Nat \ {0}
    PROVE  ToSet(Missing(f, offset, length)) =
               {hash \in ToSet(Slice(Origins(f), offset, length)) : ~IsStored(hash)}
<1> DEFINE refs == f.refs
           E == EndOf(refs)
           n == Len(refs)
           O == Origins(f)
           end == Lesser(offset + length, f.size)
           needed == Needed(f, offset, end)
           top == Lesser(offset + length, Len(O))
           slice == SubSeq(O, offset + 1, top)
<1>1. /\ IsRefs(refs) /\ f.size \in Nat /\ E[n] <= f.size
  BY OpenFilesAssumption DEF IsFile, OpenFilesAssumption
<1>2. n \in Nat /\ DOMAIN refs = 1..n /\ \A i \in 1..n : refs[i].size \in Nat \ {0}
  BY <1>1, RefsAre
<1>3. \A i \in 1..n : /\ E[i - 1] \in Nat /\ E[i] \in Nat /\ E[i] = E[i - 1] + refs[i].size
                      /\ Start(refs, i) = E[i - 1]
  BY <1>1, Starts
<1>4. /\ O \in Seq(Own) /\ Len(O) = E[n]
      /\ \A i \in 1..n : \A k \in 1..refs[i].size : O[E[i - 1] + k] = refs[i].hash
  BY <1>1, OriginsAre
<1>5. E[n] \in Nat
  BY <1>4, LenProperties
<1>6. end = (IF offset + length <= f.size THEN offset + length ELSE f.size) /\ end \in Nat
  BY <1>1 DEF Lesser
<1>7. top = (IF offset + length <= E[n] THEN offset + length ELSE E[n]) /\ top \in Nat
      /\ top <= E[n]
  BY <1>4, <1>5 DEF Lesser
<1>8. /\ slice \in Seq(Own)
      /\ Len(slice) = IF offset < top THEN top - offset ELSE 0
      /\ \A k \in 1..(top - offset) : slice[k] = O[offset + k]
  BY <1>4, <1>7, Cut, SMTT(30)
<1>9. \A i : i \in needed <=> i \in 1..n /\ E[i - 1] + refs[i].size > offset /\ E[i - 1] < end
  BY <1>2, <1>3 DEF Needed
<1>10. \A hash : hash \in ToSet(Missing(f, offset, length)) <=>
                     \E i \in needed : hash = refs[i].hash /\ ~IsStored(hash)
  BY <1>1, MissingHas
<1>11. Slice(Origins(f), offset, length) = slice
  BY DEF Slice
<1>12. /\ \A p \in 1..E[n] : \E i \in 1..n : \E k \in 1..refs[i].size : p = E[i - 1] + k
       /\ \A i \in 1..n : \A k \in 1..refs[i].size : E[i - 1] + k \in 1..E[n]
  BY <1>1, InChunks
<1> HIDE DEF refs, E, n, O, end, needed, top, slice
<1>13. DOMAIN slice = 1..Len(slice) /\ Len(slice) \in Nat
  BY <1>8, LenProperties
<1>14. ASSUME NEW i \in needed PROVE refs[i].hash \in ToSet(slice)
  <2> DEFINE p == IF E[i - 1] <= offset THEN offset + 1 ELSE E[i - 1] + 1
  <2>1. /\ i \in 1..n /\ E[i - 1] + refs[i].size > offset /\ E[i - 1] < end
        /\ E[i - 1] \in Nat /\ refs[i].size \in Nat \ {0}
    BY <1>2, <1>3, <1>9
  <2>2. p - E[i - 1] \in 1..refs[i].size /\ E[i - 1] + (p - E[i - 1]) = p
    BY <2>1
  <2>3. p \in 1..E[n] /\ O[p] = refs[i].hash
    BY <1>4, <1>12, <2>1, <2>2
  <2>4. p - offset \in 1..(top - offset) /\ offset + (p - offset) = p /\ offset < top
    BY <1>1, <1>5, <1>6, <1>7, <2>1, <2>3
  <2> HIDE DEF p
  <2>5. slice[p - offset] = O[p]
    BY <1>8, <2>4
  <2>6. p - offset \in 1..Len(slice)
    BY <1>8, <2>4
  <2>7. slice[p - offset] = refs[i].hash /\ p - offset \in DOMAIN slice
    BY <1>13, <2>3, <2>5, <2>6
  <2> QED BY <2>7 DEF ToSet
<1>15. ASSUME NEW hash \in ToSet(slice) PROVE \E i \in needed : hash = refs[i].hash
  <2>1. PICK q \in 1..Len(slice) : hash = slice[q]
    BY <1>13 DEF ToSet
  <2>2. offset < top /\ q \in 1..(top - offset)
    BY <1>8, <2>1
  <2>3. hash = O[offset + q] /\ offset + q \in 1..E[n]
    BY <1>5, <1>7, <1>8, <2>1, <2>2
  <2>4. PICK i \in 1..n : \E k \in 1..refs[i].size : offset + q = E[i - 1] + k
    BY <1>12, <2>3
  <2>5. PICK k \in 1..refs[i].size : offset + q = E[i - 1] + k
    BY <2>4
  <2>6. hash = refs[i].hash
    BY <1>4, <2>3, <2>5
  <2>7. E[i - 1] \in Nat /\ refs[i].size \in Nat
    BY <1>2, <1>3
  <2>8. /\ k \in Nat /\ 1 <= k /\ k <= refs[i].size
        /\ q \in Nat /\ 1 <= q /\ offset + q <= top /\ top <= end
        /\ top \in Nat /\ end \in Nat
    BY <1>1, <1>5, <1>6, <1>7, <2>2, <2>7, SMTT(30)
  <2>9. E[i - 1] + refs[i].size > offset
    BY <2>5, <2>7, <2>8, SMTT(30)
  <2>10. E[i - 1] < end
    BY <2>5, <2>7, <2>8
  <2> QED BY <1>9, <2>6, <2>9, <2>10
<1> QED BY <1>10, <1>11, <1>14, <1>15

-----------------------------------------------------------------------------
(***************************************************************************)
(* Truncating.                                                             *)
(***************************************************************************)

\* A function on 1..n is a sequence.
LEMMA IsSequence ==
    ASSUME NEW X, NEW n \in Nat, NEW s \in [1..n -> X]
    PROVE  s \in Seq(X) /\ Len(s) = n
OBVIOUS

\* The bytes of a file with zeros up to its size.
LEMMA ContentIs ==
    ASSUME NEW f, IsFile(f)
    PROVE  /\ Content(f) \in Seq(Bit) /\ Len(Content(f)) = f.size
           /\ \A p \in 1..f.size :
                  Content(f)[p] = IF p <= EndOf(f.refs)[Len(f.refs)] THEN Bytes(f)[p] ELSE 0
<1> DEFINE T == EndOf(f.refs)[Len(f.refs)]
           B == Bytes(f)
           Z == Zeros(f.size - T)
<1>1. IsRefs(f.refs) /\ f.size \in Nat /\ T <= f.size
  BY OpenFilesAssumption DEF IsFile, OpenFilesAssumption
<1>2. B \in Seq(Bit) /\ Len(B) = T /\ T \in Nat
  BY <1>1, BytesAre, LenProperties
<1>3. Content(f) = B \o Z
  BY <1>2, Zenon DEF Content
<1> HIDE DEF T, B
<1>4. f.size - T \in Nat
  BY <1>1, <1>2
<1>5. Z \in Seq(Bit) /\ Len(Z) = f.size - T /\ \A k \in 1..(f.size - T) : Z[k] = 0
  BY <1>4, ZerosAre
<1> HIDE DEF Z
<1>6. /\ B \o Z \in Seq(Bit) /\ Len(B \o Z) = Len(B) + Len(Z)
      /\ \A p \in 1..(Len(B) + Len(Z)) : (B \o Z)[p] = IF p <= Len(B) THEN B[p] ELSE Z[p - Len(B)]
  BY <1>2, <1>5, ConcatProperties
<1>7. Len(B) + Len(Z) = f.size
  BY <1>1, <1>2, <1>5
<1>8. ASSUME NEW p \in 1..f.size PROVE (B \o Z)[p] = IF p <= T THEN B[p] ELSE 0
  <2>1. CASE p <= T
    BY <1>2, <1>6, <1>7, <2>1
  <2>2. CASE ~(p <= T)
    <3>1. p - T \in 1..(f.size - T)
      BY <1>1, <1>2, <2>2
    <3> QED BY <1>2, <1>5, <1>6, <1>7, <2>2, <3>1
  <2> QED BY <2>1, <2>2
<1> QED BY <1>3, <1>6, <1>7, <1>8 DEF T, B

\* The chunks that are kept are the first ones.
LEMMA KeptAre ==
    ASSUME NEW refs, IsRefs(refs), NEW size \in Nat
    PROVE  /\ KeptChunks(refs, size) \in 0..Len(refs)
           /\ \A i \in 1..Len(refs) : i <= KeptChunks(refs, size) <=> EndOf(refs)[i - 1] < size
<1> DEFINE n == Len(refs)
           E == EndOf(refs)
           kept == {i \in 1..n : E[i - 1] < size}
<1>1. /\ n \in Nat /\ DOMAIN refs = 1..n
      /\ \A i \in 1..n : E[i - 1] \in Nat /\ Start(refs, i) = E[i - 1]
      /\ \A i, j \in 0..n : i <= j => E[i] <= E[j]
      /\ \A i \in 0..n : E[i] \in Nat
  BY RefsAre, Starts, InChunks
<1>2. KeptChunks(refs, size) = Cardinality(kept)
  <2>1. {i \in DOMAIN refs : Start(refs, i) < size} = kept
    BY <1>1
  <2> QED BY <2>1 DEF KeptChunks
<1> HIDE DEF E
<1> DEFINE S == {j \in Nat : j <= n => \E m \in 0..j : \A i \in 1..j : i <= m <=> E[i - 1] < size}
<1>3. 0 \in S
  OBVIOUS
<1>4. ASSUME NEW j \in Nat, j >= 0, j \in S PROVE j + 1 \in S
  <2> SUFFICES ASSUME j + 1 <= n
               PROVE  \E m \in 0..(j + 1) : \A i \in 1..(j + 1) : i <= m <=> E[i - 1] < size
    OBVIOUS
  <2>1. PICK m \in 0..j : \A i \in 1..j : i <= m <=> E[i - 1] < size
    BY <1>1, <1>4
  <2>2. CASE E[j] < size
    <3>1. ASSUME NEW i \in 1..(j + 1) PROVE E[i - 1] < size
      <4>1. i - 1 \in 0..n /\ j \in 0..n /\ i - 1 <= j
        BY <1>1
      <4>2. E[i - 1] \in Nat /\ E[j] \in Nat /\ E[i - 1] <= E[j]
        BY <1>1, <4>1
      <4> QED BY <2>2, <4>2
    <3>2. j + 1 \in 0..(j + 1) /\ \A i \in 1..(j + 1) : i <= j + 1
      OBVIOUS
    <3> QED BY <3>1, <3>2
  <2>3. CASE ~(E[j] < size)
    <3>1. ASSUME NEW i \in 1..(j + 1) PROVE i <= m <=> E[i - 1] < size
      <4>1. CASE i = j + 1
        <5>1. i - 1 = j /\ ~(i <= m)
          BY <4>1
        <5> QED BY <2>3, <5>1
      <4>2. CASE i # j + 1
        <5>1. i \in 1..j
          BY <4>2
        <5> QED BY <2>1, <5>1
      <4> QED BY <4>1, <4>2
    <3>2. m \in 0..(j + 1)
      OBVIOUS
    <3> QED BY <3>1, <3>2
  <2> QED BY <2>2, <2>3
<1> HIDE DEF S
<1>5. \A j \in Nat : j >= 0 => j \in S
  BY <1>3, <1>4, Induct
<1>6. n \in S
  BY <1>1, <1>5
<1>7. PICK m \in 0..n : \A i \in 1..n : i <= m <=> E[i - 1] < size
  BY <1>1, <1>6 DEF S
<1>8. kept = 1..m
  BY <1>1, <1>7
<1>9. Cardinality(1..m) = m
  <2>1. 1 \in Int /\ m \in Int
    BY <1>1
  <2> QED BY <1>1, <2>1, FS_Interval
<1> QED BY <1>2, <1>7, <1>8, <1>9 DEF E

\* A truncated file is one, and its chunks end where they did or at the new end.
LEMMA ResizedIs ==
    ASSUME NEW f, IsFile(f), NEW size \in 0..MaxSize
    PROVE  LET refs == f.refs
               cut == Truncated(refs, size)
           IN  /\ IsRefs(cut) /\ Len(cut) \in 0..Len(refs)
               /\ Len(cut) = KeptChunks(refs, size)
               /\ \A i \in 1..Len(cut) : /\ cut[i].hash = refs[i].hash
                                         /\ cut[i].size <= refs[i].size
                                         /\ EndOf(cut)[i - 1] = EndOf(refs)[i - 1]
               /\ EndOf(cut)[Len(cut)] = Lesser(EndOf(refs)[Len(refs)], size)
<1> DEFINE refs == f.refs
           E == EndOf(refs)
           n == Len(refs)
           m == KeptChunks(refs, size)
           cut == Truncated(refs, size)
           C == EndOf(cut)
<1>1. IsRefs(refs) /\ f.size \in Nat /\ E[n] <= f.size /\ size \in Nat /\ MaxChunk \in Nat
  BY OpenFilesAssumption DEF IsFile, OpenFilesAssumption
<1>2. /\ n \in Nat
      /\ \A i \in 1..n : /\ refs[i] = [hash |-> refs[i].hash, size |-> refs[i].size]
                         /\ refs[i].hash \in Own /\ Len(refs[i].hash) \in Nat
                         /\ refs[i].size \in Nat \ {0} /\ refs[i].size <= MaxChunk
                         /\ refs[i].size <= Len(refs[i].hash)
  BY <1>1, RefsAre
<1>3. /\ E[0] = 0 /\ \A i \in 0..n : E[i] \in Nat
      /\ \A i \in 1..n : /\ E[i - 1] \in Nat /\ E[i] \in Nat /\ E[i] = E[i - 1] + refs[i].size
                         /\ Start(refs, i) = E[i - 1]
      /\ \A i, j \in 0..n : i <= j => E[i] <= E[j]
  BY <1>1, Starts, InChunks
<1>4. m \in 0..n /\ \A i \in 1..n : i <= m <=> E[i - 1] < size
  BY <1>1, KeptAre
<1>5. \A i \in 1..m : i \in 1..n /\ E[i - 1] < size
  BY <1>2, <1>4
<1>6. /\ DOMAIN cut = 1..m
      /\ \A i \in 1..m : cut[i] = [refs[i] EXCEPT !.size = Lesser(@, size - Start(refs, i))]
  BY Zenon DEF Truncated
<1> HIDE DEF E, refs, n, m
<1>7. ASSUME NEW i \in 1..m
      PROVE  /\ cut[i] = [hash |-> refs[i].hash, size |-> Lesser(refs[i].size, size - E[i - 1])]
             /\ cut[i].hash = refs[i].hash
             /\ cut[i].size = Lesser(refs[i].size, size - E[i - 1])
             /\ cut[i].size \in 1..MaxChunk /\ cut[i].size <= refs[i].size
             /\ cut[i].size = Lesser(E[i], size) - E[i - 1]
  <2>1. /\ i \in 1..n /\ E[i - 1] < size /\ E[i - 1] \in Nat /\ E[i] = E[i - 1] + refs[i].size
        /\ refs[i].size \in Nat \ {0} /\ refs[i].size <= MaxChunk /\ Start(refs, i) = E[i - 1]
        /\ refs[i] = [hash |-> refs[i].hash, size |-> refs[i].size]
    BY <1>2, <1>3, <1>5
  <2>2. cut[i] = [hash |-> refs[i].hash, size |-> Lesser(refs[i].size, size - E[i - 1])]
    BY <1>6, <2>1
  <2>3. cut[i].hash = refs[i].hash /\ cut[i].size = Lesser(refs[i].size, size - E[i - 1])
    BY <2>2
  <2> HIDE DEF cut
  <2>4. /\ Lesser(refs[i].size, size - E[i - 1]) \in 1..MaxChunk
        /\ Lesser(refs[i].size, size - E[i - 1]) <= refs[i].size
        /\ Lesser(refs[i].size, size - E[i - 1]) = Lesser(E[i], size) - E[i - 1]
    BY <1>1, <2>1 DEF Lesser
  <2> QED BY <2>2, <2>3, <2>4
<1>8. cut \in Seq([hash : Own, size : 1..MaxChunk]) /\ Len(cut) = m
  <2>1. m \in Nat
    BY <1>2, <1>4
  <2>2. cut = [i \in 1..m |-> cut[i]]
    BY <1>6, Zenon DEF Truncated, m
  <2> HIDE DEF cut
  <2>3. ASSUME NEW i \in 1..m PROVE cut[i] \in [hash : Own, size : 1..MaxChunk]
    <3>1. i \in 1..n /\ refs[i].hash \in Own
      BY <1>2, <1>5
    <3>2. cut[i] = [hash |-> refs[i].hash, size |-> cut[i].size] /\ cut[i].size \in 1..MaxChunk
      BY <1>7
    <3> QED BY <3>1, <3>2
  <2>4. cut \in [1..m -> [hash : Own, size : 1..MaxChunk]]
    BY <2>2, <2>3
  <2> QED BY <2>1, <2>4, IsSequence
<1> HIDE DEF cut
<1>9. IsRefs(cut)
  <2>1. ASSUME NEW i \in 1..m PROVE cut[i].size <= Len(cut[i].hash)
    <3>1. i \in 1..n
      BY <1>5
    <3>2. refs[i].size \in Nat /\ refs[i].size <= Len(refs[i].hash) /\ Len(refs[i].hash) \in Nat
      BY <1>2, <3>1
    <3>3. cut[i].size \in 1..MaxChunk /\ cut[i].size <= refs[i].size /\ cut[i].hash = refs[i].hash
      BY <1>7
    <3>4. cut[i].size \in Int
      BY <1>1, <3>3
    <3> QED BY <3>2, <3>3, <3>4
  <2> QED BY <1>8, <2>1 DEF IsRefs
<1>10. /\ C[0] = 0
       /\ \A i \in 1..m : C[i] = C[i - 1] + cut[i].size
  BY <1>8, <1>9, Starts
<1> HIDE DEF C
<1> DEFINE S == {j \in Nat : j <= m => C[j] = Lesser(E[j], size)}
<1>11. 0 \in S
  BY <1>1, <1>3, <1>10 DEF Lesser
<1>12. ASSUME NEW j \in Nat, j >= 0, j \in S PROVE j + 1 \in S
  <2> SUFFICES ASSUME j + 1 <= m PROVE C[j + 1] = Lesser(E[j + 1], size)
    OBVIOUS
  <2>1. j + 1 \in 1..m /\ (j + 1) - 1 = j /\ j <= m
    BY <1>2, <1>4
  <2>2. C[j] = Lesser(E[j], size) /\ E[j] < size /\ E[j] \in Nat /\ E[j + 1] \in Nat
    BY <1>3, <1>5, <1>12, <2>1
  <2>3. C[j] = E[j]
    BY <1>1, <2>2 DEF Lesser
  <2>4. C[j + 1] = C[j] + cut[j + 1].size /\ cut[j + 1].size = Lesser(E[j + 1], size) - E[j]
    BY <1>7, <1>10, <2>1
  <2>5. Lesser(E[j + 1], size) \in Int
    BY <1>1, <2>2 DEF Lesser
  <2> QED BY <2>2, <2>3, <2>4, <2>5
<1> HIDE DEF S
<1>13. \A j \in Nat : j >= 0 => j \in S
  BY <1>11, <1>12, Induct
<1>14. \A j \in 0..m : C[j] = Lesser(E[j], size)
  BY <1>2, <1>4, <1>13 DEF S
<1>15. ASSUME NEW i \in 1..m PROVE C[i - 1] = E[i - 1]
  <2>1. i - 1 \in 0..m /\ E[i - 1] \in Nat /\ E[i - 1] < size
    BY <1>2, <1>3, <1>4, <1>5
  <2> QED BY <1>1, <1>14, <2>1 DEF Lesser
<1>16. C[m] = Lesser(E[n], size)
  <2>1. m \in 0..m /\ C[m] = Lesser(E[m], size) /\ E[m] \in Nat /\ E[n] \in Nat /\ E[m] <= E[n]
    BY <1>2, <1>3, <1>4, <1>14
  <2>2. CASE m = n
    BY <2>1, <2>2
  <2>3. CASE m # n
    <3>1. m + 1 \in 1..n /\ ~(m + 1 <= m) /\ (m + 1) - 1 = m
      BY <1>2, <1>4, <2>3
    <3>2. ~(E[m] < size)
      BY <1>4, <3>1
    <3> QED BY <1>1, <2>1, <3>2 DEF Lesser
  <2> QED BY <2>2, <2>3
<1>17. \A i \in 1..m : /\ cut[i].hash = refs[i].hash /\ cut[i].size <= refs[i].size
                       /\ C[i - 1] = E[i - 1]
  BY <1>7, <1>15
<1> QED BY <1>4, <1>8, <1>9, <1>16, <1>17 DEF E, C, n, m, refs, cut

\* Truncating keeps the bytes before the new end, and growing adds zeros.
LEMMA ResizedContent ==
    ASSUME NEW f, IsFile(f), NEW size \in 0..MaxSize, NEW g, g = Resized(f, size),
           f = [f EXCEPT !.size = f.size], {"size", "refs"} \subseteq DOMAIN f
    PROVE  /\ IsFile(g) /\ g.size = size
           /\ \A p \in 1..size : Content(g)[p] = IF p <= f.size THEN Content(f)[p] ELSE 0
<1> DEFINE refs == f.refs
           E == EndOf(refs)
           n == Len(refs)
           cut == Truncated(refs, size)
           C == EndOf(cut)
           m == Len(cut)
<1>1. g.size = size /\ g.refs = cut /\ DOMAIN g = DOMAIN f
  BY DEF Resized
<1>2. IsRefs(refs) /\ f.size \in Nat /\ E[n] <= f.size /\ size \in Nat
  BY OpenFilesAssumption DEF IsFile, OpenFilesAssumption
<1>3. /\ IsRefs(cut) /\ m \in 0..n
      /\ \A i \in 1..m : /\ cut[i].hash = refs[i].hash
                         /\ cut[i].size <= refs[i].size
                         /\ C[i - 1] = E[i - 1]
      /\ C[m] = Lesser(E[n], size)
  BY ResizedIs
<1>4. /\ n \in Nat /\ \A i \in 1..n : refs[i].size \in Nat
      /\ \A i \in 1..m : cut[i].size \in Nat
      /\ E[n] \in Nat
  <2>1. n \in Nat /\ n \in 0..n
    BY <1>2, RefsAre
  <2> QED BY <1>2, <1>3, <2>1, RefsAre, Starts
<1>5. IsFile(g)
  BY <1>1, <1>2, <1>3, <1>4 DEF IsFile, Lesser
<1>6. ASSUME NEW p \in 1..C[m] PROVE Bytes(g)[p] = Bytes(f)[p]
  <2>1. PICK i \in 1..m : \E k \in 1..cut[i].size : p = C[i - 1] + k
    BY <1>3, InChunks
  <2>2. PICK k \in 1..cut[i].size : p = C[i - 1] + k
    BY <2>1
  <2>3. i \in 1..n /\ k \in 1..refs[i].size
    BY <1>3, <1>4, SMTT(30)
  <2>4. Bytes(g)[C[i - 1] + k] = cut[i].hash[k]
    BY <1>1, <1>3, BytesAre, SMTT(30)
  <2>5. Bytes(f)[E[i - 1] + k] = refs[i].hash[k]
    BY <1>2, <2>3, BytesAre, SMTT(30)
  <2> QED BY <1>3, <2>2, <2>4, <2>5
<1>7. ASSUME NEW p \in 1..size PROVE Content(g)[p] = IF p <= f.size THEN Content(f)[p] ELSE 0
  <2>1. Content(g)[p] = IF p <= C[m] THEN Bytes(g)[p] ELSE 0
    BY <1>1, <1>5, ContentIs
  <2>2. p <= f.size => Content(f)[p] = IF p <= E[n] THEN Bytes(f)[p] ELSE 0
    BY <1>2, ContentIs
  <2>3. p <= C[m] <=> p <= E[n]
    BY <1>2, <1>3, <1>4 DEF Lesser
  <2>4. p <= C[m] => Bytes(g)[p] = Bytes(f)[p]
    BY <1>3, <1>4, <1>6
  <2>5. p <= E[n] => p <= f.size
    BY <1>2, <1>4
  <2> HIDE DEF C, m, E, n
  <2> QED BY <2>1, <2>2, <2>3, <2>4, <2>5
<1> QED BY <1>1, <1>5, <1>7

\* What file is.
FileRecord == [there : BOOLEAN, by : {"here", "elsewhere"}, handed : SUBSET Data,
               size : 0..MaxSize, refs : Seq([hash : Own, size : 1..MaxChunk])]

\* A truncated file is a file record again.
LEMMA ResizedRecord ==
    ASSUME NEW f \in FileRecord, IsFile(f), NEW size \in 0..MaxSize
    PROVE  /\ Resized(f, size) \in FileRecord /\ IsFile(Resized(f, size))
           /\ Resized(f, size).size = size
           /\ \A p \in 1..size :
                  Content(Resized(f, size))[p] = IF p <= f.size THEN Content(f)[p] ELSE 0
<1> DEFINE g == Resized(f, size)
<1>1. f = [f EXCEPT !.size = f.size] /\ {"size", "refs"} \subseteq DOMAIN f
  BY DEF FileRecord
<1>2. /\ IsFile(g) /\ g.size = size
      /\ \A p \in 1..size : Content(g)[p] = IF p <= f.size THEN Content(f)[p] ELSE 0
  BY <1>1, ResizedContent
<1>3. g.refs \in Seq([hash : Own, size : 1..MaxChunk])
  BY <1>2 DEF IsFile, IsRefs
<1>4. g = [f EXCEPT !.size = size, !.refs = g.refs]
  BY DEF Resized, FileRecord
<1> HIDE DEF g
<1>5. g \in FileRecord
  BY <1>3, <1>4 DEF FileRecord
<1> QED BY <1>2, <1>5 DEF g

\* What is kept of contents, with zeros up to a size.
IsPadded(s, content, size, wanted) ==
    /\ s \in Seq(Bit) /\ Len(s) = wanted
    /\ \A p \in 1..wanted : s[p] = IF p <= size /\ p <= Len(content) THEN content[p] ELSE 0

\* Cutting and filling up is what read back after a truncation.
LEMMA Padded ==
    ASSUME NEW content \in Seq(Bit), NEW size \in Nat, NEW wanted \in Nat, size <= wanted
    PROVE  IsPadded(Slice(content, 0, size) \o Zeros(wanted - Len(Slice(content, 0, size))),
                    content, size, wanted)
<1> DEFINE kept == Slice(content, 0, size)
           top == Lesser(0 + size, Len(content))
           zeros == Zeros(wanted - Len(kept))
           both == kept \o zeros
<1>1. Len(content) \in Nat
  BY LenProperties
<1>2. /\ top = (IF size <= Len(content) THEN size ELSE Len(content))
      /\ top \in Nat /\ top <= Len(content) /\ top <= size
  BY <1>1 DEF Lesser
<1>3. kept = SubSeq(content, 0 + 1, top)
  BY DEF Slice
<1> HIDE DEF top, kept
<1>4. /\ kept \in Seq(Bit) /\ Len(kept) = IF 0 < top THEN top - 0 ELSE 0
      /\ \A k \in 1..(top - 0) : kept[k] = content[0 + k]
  BY <1>1, <1>2, <1>3, Cut
<1>5. Len(kept) = top /\ \A k \in 1..top : kept[k] = content[k]
  BY <1>2, <1>4
<1>6. wanted - Len(kept) \in Nat
  BY <1>2, <1>5
<1>7. /\ zeros \in Seq(Bit) /\ Len(zeros) = wanted - Len(kept)
      /\ \A k \in 1..(wanted - Len(kept)) : zeros[k] = 0
  BY <1>6, ZerosAre
<1> HIDE DEF zeros
<1>8. /\ both \in Seq(Bit) /\ Len(both) = Len(kept) + Len(zeros)
      /\ \A p \in 1..(Len(kept) + Len(zeros)) :
             both[p] = IF p <= Len(kept) THEN kept[p] ELSE zeros[p - Len(kept)]
  BY <1>4, <1>7, ConcatProperties
<1>9. Len(kept) + Len(zeros) = wanted
  BY <1>2, <1>5, <1>7
<1>10. ASSUME NEW p \in 1..wanted
       PROVE  both[p] = IF p <= size /\ p <= Len(content) THEN content[p] ELSE 0
  <2>1. CASE p <= top
    BY <1>1, <1>2, <1>5, <1>8, <1>9, <2>1
  <2>2. CASE ~(p <= top)
    <3>1. p - top \in 1..(wanted - Len(kept))
      BY <1>2, <1>5, <2>2
    <3>2. ~(p <= size /\ p <= Len(content))
      BY <1>1, <1>2, <2>2
    <3>3. both[p] = zeros[p - Len(kept)]
      BY <1>2, <1>5, <1>8, <1>9, <2>2
    <3> QED BY <1>5, <1>7, <3>1, <3>2, <3>3
  <2> QED BY <2>1, <2>2
<1> HIDE DEF both
<1>11. both \in Seq(Bit) /\ Len(both) = wanted
  BY <1>8, <1>9
<1> QED BY <1>10, <1>11, Zenon DEF both, zeros, kept, IsPadded

\* Two sequences with the same elements are one.
LEMMA SameSeq ==
    ASSUME NEW X, NEW s \in Seq(X), NEW t \in Seq(X), NEW n, Len(s) = n, Len(t) = n,
           \A i \in 1..n : s[i] = t[i]
    PROVE  s = t
<1>1. \A i \in 1..Len(s) : s[i] = t[i]
  OBVIOUS
<1> QED BY <1>1, SeqEqual

\* TruncateExact, of any file.
LEMMA TruncateIs ==
    ASSUME NEW f \in FileRecord, IsFile(f), NEW size \in 0..MaxSize,
           NEW kept, kept = Slice(Content(f), 0, size)
    PROVE  /\ Content(Resized(f, size)) = kept \o Zeros(size - Len(kept))
           /\ Content(Resized(Resized(f, size), MaxSize)) = kept \o Zeros(MaxSize - Len(kept))
<1> DEFINE g == Resized(f, size)
           h == Resized(g, MaxSize)
           cf == Content(f)
           cg == Content(g)
           ch == Content(h)
           short == kept \o Zeros(size - Len(kept))
           long == kept \o Zeros(MaxSize - Len(kept))
<1>1. MaxSize \in Nat /\ MaxSize \in 0..MaxSize /\ size \in Nat /\ size <= MaxSize /\ f.size \in Nat
  BY OpenFilesAssumption DEF OpenFilesAssumption, FileRecord
<1>2. /\ g \in FileRecord /\ IsFile(g) /\ g.size = size
      /\ \A p \in 1..size : cg[p] = IF p <= f.size THEN cf[p] ELSE 0
  BY ResizedRecord
<1> HIDE DEF g
<1>3. /\ IsFile(h) /\ h.size = MaxSize
      /\ \A p \in 1..MaxSize : ch[p] = IF p <= g.size THEN cg[p] ELSE 0
  BY <1>1, <1>2, ResizedRecord
<1> HIDE DEF h
<1>4. cf \in Seq(Bit) /\ Len(cf) = f.size /\ cg \in Seq(Bit) /\ Len(cg) = size
      /\ ch \in Seq(Bit) /\ Len(ch) = MaxSize
  BY <1>2, <1>3, ContentIs
<1> HIDE DEF cf, cg, ch
<1>5. /\ short \in Seq(Bit) /\ Len(short) = size
      /\ \A p \in 1..size : short[p] = IF p <= size /\ p <= Len(cf) THEN cf[p] ELSE 0
  <2>1. size <= size /\ kept = Slice(cf, 0, size)
    BY <1>1 DEF cf
  <2>2. short = Slice(cf, 0, size) \o Zeros(size - Len(Slice(cf, 0, size)))
    BY <2>1, Zenon DEF short
  <2>3. IsPadded(Slice(cf, 0, size) \o Zeros(size - Len(Slice(cf, 0, size))), cf, size, size)
    BY <1>1, <1>4, <2>1, Padded, Zenon
  <2> QED BY <2>2, <2>3, Zenon DEF IsPadded
<1>6. /\ long \in Seq(Bit) /\ Len(long) = MaxSize
      /\ \A p \in 1..MaxSize : long[p] = IF p <= size /\ p <= Len(cf) THEN cf[p] ELSE 0
  <2>1. kept = Slice(cf, 0, size)
    BY DEF cf
  <2>2. long = Slice(cf, 0, size) \o Zeros(MaxSize - Len(Slice(cf, 0, size)))
    BY <2>1, Zenon DEF long
  <2>3. IsPadded(Slice(cf, 0, size) \o Zeros(MaxSize - Len(Slice(cf, 0, size))), cf, size, MaxSize)
    BY <1>1, <1>4, <2>1, Padded, Zenon
  <2> QED BY <2>2, <2>3, Zenon DEF IsPadded
<1> HIDE DEF short, long
<1>7. cg = short
  <2>1. \A p \in 1..size : cg[p] = short[p]
    BY <1>1, <1>2, <1>4, <1>5
  <2> QED BY <1>4, <1>5, <2>1, SameSeq
<1>8. ch = long
  <2>1. ASSUME NEW p \in 1..MaxSize PROVE ch[p] = long[p]
    <3>1. p \in Nat /\ p >= 1
      BY <1>1
    <3>2. CASE p <= size
      <4>1. p \in 1..size
        BY <1>1, <3>1, <3>2
      <4> QED BY <1>2, <1>3, <1>4, <1>6, <3>2, <4>1
    <3>3. CASE ~(p <= size)
      BY <1>2, <1>3, <1>6, <3>3
    <3> QED BY <3>2, <3>3
  <2> QED BY <1>4, <1>6, <2>1, SameSeq
<1> QED BY <1>7, <1>8 DEF cg, ch, g, h, short, long

\* ReadExact, MissingExact and TruncateExact follow from what the file is.
FileInv == file \in FileRecord /\ IsFile(file)

\* The beginning of a sequence.
LEMMA Prefix ==
    ASSUME NEW X, NEW s \in Seq(X), NEW t \in Seq(X), Len(s) <= Len(t),
           \A k \in 1..Len(s) : s[k] = t[k]
    PROVE  IsPrefix(s, t)
<1> DEFINE n == Len(s)
           a == SubSeq(s, 0 + 1, n)
           b == SubSeq(t, 0 + 1, n)
<1>1. n \in Nat /\ n <= Len(s) /\ n <= Len(t) /\ 0 \in Nat /\ n - 0 = n /\ Len(t) \in Nat
  BY LenProperties
<1>2. a \in Seq(X) /\ Len(a) = n /\ \A k \in 1..n : a[k] = s[k]
  BY <1>1, Cut
<1>3. b \in Seq(X) /\ Len(b) = n /\ \A k \in 1..n : b[k] = t[k]
  BY <1>1, Cut
<1>4. \A k \in 1..n : a[k] = b[k]
  BY <1>2, <1>3
<1> HIDE DEF a, b
<1>5. a = b
  BY <1>2, <1>3, <1>4, SameSeq
<1> QED BY <1>1, <1>5 DEF IsPrefix, a, b

\* What a read may not fall short of: the content of the file, as far as it is in the store.
HeldContent(f) ==
    [k \in 1..f.size |-> IF k <= Len(Bytes(f)) /\ IsStored(Origins(f)[k]) THEN Bytes(f)[k] ELSE 0]

\* ReadExact, of any file.
LEMMA ReadsOf ==
    ASSUME NEW f, IsFile(f), NEW offset \in Nat, NEW length \in Nat \ {0},
           NEW read, read = ReadFile(f, offset, length),
           NEW asked, asked = Slice(HeldContent(f), offset, length)
    PROVE  /\ IsPrefix(read, asked)
           /\ Len(read) < Len(asked) =>
                /\ offset + Len(asked) > Len(Bytes(f))
                /\ Len(read) = Greater(Len(Bytes(f)) - offset, 0)
<1> DEFINE held == Held(f)
           whole == HeldContent(f)
           B == Len(Bytes(f))
           end == Lesser(offset + length, B)
           top == Lesser(offset + length, f.size)
<1>1. IsRefs(f.refs) /\ f.size \in Nat /\ B \in Nat /\ B <= f.size
  BY BytesAre, LenProperties, OpenFilesAssumption DEF IsFile, OpenFilesAssumption
<1>2. held \in Seq(Bit) /\ Len(held) = B /\ DOMAIN Bytes(f) = 1..B
  BY <1>1, HeldAre, BytesAre, LenProperties
<1>3. whole \in Seq(Bit) /\ Len(whole) = f.size
  <2>1. ASSUME NEW k \in 1..f.size
        PROVE  (IF k <= B /\ IsStored(Origins(f)[k]) THEN Bytes(f)[k] ELSE 0) \in Bit
    <3>1. k <= B => Bytes(f)[k] \in Bit
      BY <1>1, BytesAre, ElementOfSeq
    <3> QED BY <3>1 DEF Bit
  <2>2. whole \in [1..f.size -> Bit]
    BY <2>1 DEF HeldContent
  <2> HIDE DEF whole
  <2> QED BY <1>1, <2>2, IsSequence
<1>4. \A k \in 1..B : held[k] = whole[k]
  BY <1>1, <1>2 DEF Held, HeldContent
<1>5. read = SubSeq(held, offset + 1, end) /\ asked = SubSeq(whole, offset + 1, top)
  <2>1. read = Slice(held, offset, length)
    BY ReadIs
  <2> QED BY <1>2, <1>3, <2>1 DEF Slice
<1> HIDE DEF held, whole, B
<1>6. /\ end = (IF offset + length <= B THEN offset + length ELSE B) /\ end \in Nat
      /\ top = (IF offset + length <= f.size THEN offset + length ELSE f.size) /\ top \in Nat
  BY <1>1 DEF Lesser
<1> HIDE DEF end, top
<1>7. /\ read \in Seq(Bit) /\ Len(read) = IF offset < end THEN end - offset ELSE 0
      /\ \A k \in 1..(end - offset) : read[k] = held[offset + k]
  <2>1. held \in Seq(Bit) /\ end \in Int /\ end <= Len(held)
    BY <1>1, <1>2, <1>6
  <2>2. /\ SubSeq(held, offset + 1, end) \in Seq(Bit)
        /\ Len(SubSeq(held, offset + 1, end)) = IF offset < end THEN end - offset ELSE 0
        /\ \A k \in 1..(end - offset) : SubSeq(held, offset + 1, end)[k] = held[offset + k]
    BY <2>1, Cut
  <2> QED BY <1>5, <2>2
<1>8. /\ asked \in Seq(Bit) /\ Len(asked) = IF offset < top THEN top - offset ELSE 0
      /\ \A k \in 1..(top - offset) : asked[k] = whole[offset + k]
  BY <1>1, <1>3, <1>5, <1>6, Cut
<1>9. Len(read) <= Len(asked)
  BY <1>1, <1>6, <1>7, <1>8
<1>10. ASSUME NEW k \in 1..Len(read) PROVE read[k] = asked[k]
  <2>1. k \in 1..(end - offset) /\ k \in 1..(top - offset) /\ offset + k \in 1..B
    BY <1>1, <1>6, <1>7
  <2> QED BY <1>4, <1>7, <1>8, <2>1
<1>11. IsPrefix(read, asked)
  BY <1>7, <1>8, <1>9, <1>10, Prefix
<1>12. ASSUME Len(read) < Len(asked)
       PROVE  offset + Len(asked) > B /\ Len(read) = Greater(B - offset, 0)
  <2>1. Len(read) \in Nat /\ Len(asked) \in Nat /\ Len(read) < Len(asked)
    BY <1>7, <1>8, <1>12
  <2>2. /\ Len(read) = IF offset < end THEN end - offset ELSE 0
        /\ Len(asked) = IF offset < top THEN top - offset ELSE 0
    BY <1>7, <1>8
  <2> HIDE DEF B
  <2> QED BY <1>1, <1>6, <2>1, <2>2 DEF Greater
<1> QED BY <1>11, <1>12 DEF B

\* ReadExact, of a file as the invariant has it.
LEMMA FileReads == FileInv => ReadExact
<1> SUFFICES ASSUME FileInv, NEW offset \in 0..MaxSize, NEW length \in 1..MaxSize
             PROVE  LET read == ReadFile(file, offset, length)
                        asked == Slice(HeldContent(file), offset, length)
                    IN  /\ IsPrefix(read, asked)
                        /\ Len(read) < Len(asked) =>
                            /\ offset + Len(asked) > Len(Bytes(file))
                            /\ Len(read) = Greater(Len(Bytes(file)) - offset, 0)
  BY Zenon DEF ReadExact, HeldContent
<1>1. offset \in Nat /\ length \in Nat \ {0}
  BY OpenFilesAssumption DEF OpenFilesAssumption
<1> QED BY <1>1, ReadsOf DEF FileInv

\* MissingExact, likewise.
LEMMA FileMisses == FileInv => MissingExact
<1> SUFFICES ASSUME FileInv, NEW offset \in 0..MaxSize, NEW length \in 1..MaxSize
             PROVE  ToSet(Missing(file, offset, length)) =
                        {hash \in ToSet(Slice(Origins(file), offset, length)) : ~IsStored(hash)}
  BY DEF MissingExact
<1>1. offset \in Nat /\ length \in Nat \ {0}
  BY OpenFilesAssumption DEF OpenFilesAssumption
<1> QED BY <1>1, MissingIs DEF FileInv

\* TruncateExact, likewise.
LEMMA FileTruncates == FileInv => TruncateExact
<1> SUFFICES ASSUME FileInv, NEW size \in 0..MaxSize
             PROVE  LET kept == Slice(Content(file), 0, size)
                    IN  /\ Content(Resized(file, size)) = kept \o Zeros(size - Len(kept))
                        /\ Content(Resized(Resized(file, size), MaxSize)) =
                               kept \o Zeros(MaxSize - Len(kept))
  BY DEF TruncateExact
<1> QED BY TruncateIs DEF FileInv

-----------------------------------------------------------------------------
(***************************************************************************)
(* The store under the calls.                                              *)
(***************************************************************************)

\* The store is in order after a step, and what was pinned still is.
StoreKept ==
    /\ SP!StorageInv'
    /\ \A x \in Data : chunks[x] = "pinned" => chunks'[x] = "pinned"

\* chunks by itself.
LEMMA StoreIs ==
    ASSUME SP!StorageInv
    PROVE  /\ chunks \in [Data -> {"absent", "pinned", "cached"}]
           /\ cache_lru \in Seq(Data) /\ DOMAIN cache_lru = 1..Len(cache_lru)
           /\ \A i \in 1..Len(cache_lru) : cache_lru[i] \in Data /\ chunks[cache_lru[i]] = "cached"
<1>1. /\ chunks \in [Data -> {"absent", "pinned", "cached"}]
      /\ cache_lru \in Seq(Data) /\ SP!ToSet(cache_lru) = SP!CachedHashes
  BY DEF SP!StorageInv, SP!TypeOK, SP!QueueInv
<1>2. DOMAIN cache_lru = 1..Len(cache_lru)
  BY <1>1, LenProperties
<1>3. ASSUME NEW i \in 1..Len(cache_lru)
      PROVE  cache_lru[i] \in Data /\ chunks[cache_lru[i]] = "cached"
  <2>1. cache_lru[i] \in SP!ToSet(cache_lru)
    BY <1>2 DEF SP!ToSet
  <2> QED BY <1>1, <2>1 DEF SP!CachedHashes
<1> QED BY <1>1, <1>2, <1>3

\* A store that does not change is kept.
LEMMA SameStore ==
    ASSUME SP!StorageInv, UNCHANGED storeVars
    PROVE  StoreKept
<1>1. /\ chunks' = chunks /\ cache_lru' = cache_lru
      /\ pinned_bytes' = pinned_bytes /\ cached_bytes' = cached_bytes
  BY DEF storeVars
<1>2. SP!StorageInv'
  BY <1>1 DEF SP!StorageInv, SP!TypeOK, SP!Accounting, SP!QueueInv, SP!Distinct, SP!ToSet,
              SP!PinnedHashes, SP!CachedHashes, SP!TotalBytes, SP!BytesOf, SP!Cardinality
<1> QED BY <1>1, <1>2 DEF StoreKept

\* cache_chunk() keeps what is pinned, and pins nothing.
LEMMA CacheKept ==
    ASSUME SP!StorageInv, NEW hash \in Data, Store!Cache(hash)
    PROVE  StoreKept /\ \A x \in Data : chunks'[x] = "pinned" <=> chunks[x] = "pinned"
<1>1. SP!ChunkAssumption /\ SP!StorageAssumption /\ SP!Cache(hash)
  BY StoreAssumptions, SameCache
<1>2. SP!StorageInv' /\ SP!Store!Cache(hash)
  BY <1>1, SP!CacheStep, Zenon DEF SP!ChunkAssumption, SP!StorageAssumption
<1>3. SP!PinnedHashes' = SP!PinnedHashes
  BY <1>2 DEF SP!Store!Cache
<1> QED BY <1>2, <1>3 DEF StoreKept, SP!PinnedHashes

\* The same if the chunk is there or too large.
LEMMA KeepKept ==
    ASSUME SP!StorageInv, NEW hash \in Data, Keep(hash)
    PROVE  StoreKept
BY CacheKept, SameStore DEF Keep

\* try_pin() keeps what is pinned and pins all it is given.
LEMMA TryPinKept ==
    ASSUME SP!StorageInv, NEW batch \in SP!SeqOf(Data, MaxSize), Store!TryPin(batch)
    PROVE  StoreKept /\ \A x \in ToSet(batch) : x \in Data /\ chunks'[x] = "pinned"
<1>1. SP!ChunkAssumption /\ SP!StorageAssumption /\ SP!TryPin(batch)
  BY StoreAssumptions, SameTryPin
<1>2. SP!StorageInv' /\ SP!ToSet(batch) \in SUBSET Data
  BY <1>1, SP!TryPinStep, Zenon DEF SP!ChunkAssumption, SP!StorageAssumption
<1>3. chunks' = [h \in Data |-> IF h \in SP!ToSet(batch) THEN "pinned" ELSE chunks[h]]
  BY <1>1 DEF SP!TryPin
<1>4. SP!ToSet(batch) = ToSet(batch)
  BY Zenon DEF SP!ToSet, ToSet
<1> QED BY <1>2, <1>3, <1>4 DEF StoreKept

\* promote_to_pinned() keeps what is pinned.
LEMMA PromoteKept ==
    ASSUME SP!StorageInv, NEW hash \in Data, Store!PromoteToPinned(hash)
    PROVE  StoreKept
<1>1. SP!ChunkAssumption /\ SP!StorageAssumption /\ SP!PromoteToPinned(hash)
  BY StoreAssumptions, SamePromote
<1>2. SP!StorageInv'
  BY <1>1, SP!PromoteStep, Zenon DEF SP!ChunkAssumption, SP!StorageAssumption
<1>3. chunks' = [chunks EXCEPT ![hash] = "pinned"] /\ DOMAIN chunks = Data
  BY <1>1, StoreIs DEF SP!PromoteToPinned
<1> QED BY <1>2, <1>3 DEF StoreKept

\* evict() of a pinned chunk takes away that one only.
LEMMA EvictKept ==
    ASSUME SP!StorageInv, NEW hash \in Data, Store!EvictPinned(hash)
    PROVE  /\ SP!StorageInv'
           /\ \A x \in Data : x # hash => chunks'[x] = chunks[x]
<1>1. SP!ChunkAssumption /\ SP!StorageAssumption /\ SP!EvictPinned(hash)
  BY StoreAssumptions, SameEvict
<1>2. SP!Evict(hash)
  BY <1>1, Zenon DEF SP!Evict
<1>3. SP!StorageInv'
  BY <1>1, <1>2, SP!EvictStep, Zenon DEF SP!ChunkAssumption, SP!StorageAssumption
<1>4. chunks' = [chunks EXCEPT ![hash] = "absent"] /\ DOMAIN chunks = Data
  BY <1>1, StoreIs DEF SP!EvictPinned
<1> QED BY <1>3, <1>4

\* What a queue of the cached chunks can be.
Queues == {s \in Seq(Data) : SP!Distinct(s) /\ SP!ToSet(s) = SP!CachedHashes}

\* The chunks that reading moves to the end of the queue, one by one.
TouchedHashes(f, offset, length) ==
    {f.refs[i].hash : i \in Needed(f, offset, Lesser(offset + length, f.size))}
        \cap Store!CachedHashes

\* Reading keeps whatever each move keeps.
LEMMA TouchedIn ==
    ASSUME SP!StorageInv, NEW f, IsRefs(f.refs), NEW offset, NEW length,
           NEW Q, cache_lru \in Q,
           \A x \in TouchedHashes(f, offset, length) : \A s \in Q : SP!UsedLast(s, x) \in Q
    PROVE  Touched(f, offset, length) \in Q
<1> DEFINE refs == f.refs
           n == Len(refs)
           needed == Needed(f, offset, Lesser(offset + length, f.size))
           IsTouched(i) == i \in needed /\ chunks[refs[i].hash] = "cached"
           After(i, s) == IF IsTouched(i) THEN SP!UsedLast(s, refs[i].hash) ELSE s
           G == [i \in 1..n |-> [s \in Q |-> After(i, s)]]
           IsQueue(q) == q = [i \in 0..n |-> IF i = 0 THEN cache_lru
                                ELSE IF IsTouched(i)
                                THEN Append(Store!Retain(q[i - 1], {refs[i].hash}), refs[i].hash)
                                ELSE q[i - 1]]
<1>1. n \in Nat /\ \A i \in 1..n : refs[i].hash \in Data
  BY RefsAre
<1>2. cache_lru \in Q
  OBVIOUS
<1>3. ASSUME NEW i \in 1..n, NEW s \in Q PROVE After(i, s) \in Q
  <2>1. CASE IsTouched(i)
    <3>1. refs[i].hash \in TouchedHashes(f, offset, length)
      BY <1>1, <2>1 DEF TouchedHashes, Store!CachedHashes
    <3> QED BY <2>1, <3>1
  <2>2. CASE ~IsTouched(i)
    BY <2>2
  <2> QED BY <2>1, <2>2
<1> HIDE DEF needed, IsTouched
<1>4. \A i, s : After(i, s) = IF IsTouched(i)
                              THEN Append(Store!Retain(s, {refs[i].hash}), refs[i].hash) ELSE s
  BY SameQueue, Zenon DEF SP!UsedLast
<1> HIDE DEF After
<1>5. G \in [1..n -> [Q -> Q]] /\ \A i \in 1..n : \A s \in Q : G[i][s] = After(i, s)
  BY <1>3
<1> HIDE DEF G
<1>6. PICK q : Follows(q, Q, cache_lru, G, n)
  BY <1>1, <1>2, <1>5, Recursion
<1>7. /\ \A i \in 0..n : q[i] \in Q
      /\ q = [i \in 0..n |-> q[i]]
      /\ q[0] = cache_lru
      /\ \A i \in 1..n : q[i] = After(i, q[i - 1])
  <2>1. /\ \A i \in 0..n : q[i] \in Q
        /\ q = [i \in 0..n |-> q[i]]
        /\ q[0] = cache_lru
        /\ \A i \in 1..n : q[i] = G[i][q[i - 1]]
    BY <1>6 DEF Follows
  <2>2. \A i \in 1..n : i - 1 \in 0..n
    BY <1>1
  <2> HIDE DEF n
  <2> QED BY <1>5, <2>1, <2>2, Zenon
<1>8. \A i \in 0..n : i = 0 \/ i \in 1..n
  BY <1>1
<1>9. 0 \in 0..n /\ \A i \in 1..n : i \in 0..n /\ i # 0
  BY <1>1
<1>10. IsQueue(q)
  <2>1. \A i \in 0..n : q[i] = IF i = 0 THEN cache_lru
                               ELSE IF IsTouched(i)
                               THEN Append(Store!Retain(q[i - 1], {refs[i].hash}), refs[i].hash)
                               ELSE q[i - 1]
    BY <1>4, <1>7, <1>8, Zenon
  <2> HIDE DEF n
  <2> QED BY <1>7, <2>1, Zenon
<1> DEFINE r == CHOOSE x : IsQueue(x)
<1>11. IsQueue(r)
  BY <1>10, Zenon
<1>12. r[0] = cache_lru /\ \A i \in 1..n : r[i] = After(i, r[i - 1])
  <2> HIDE DEF r
  <2>1. \A i \in 0..n : r[i] = IF i = 0 THEN cache_lru
                               ELSE IF IsTouched(i)
                               THEN Append(Store!Retain(r[i - 1], {refs[i].hash}), refs[i].hash)
                               ELSE r[i - 1]
    <3>1. r = [i \in 0..n |-> IF i = 0 THEN cache_lru
                              ELSE IF IsTouched(i)
                              THEN Append(Store!Retain(r[i - 1], {refs[i].hash}), refs[i].hash)
                              ELSE r[i - 1]]
      BY <1>11
    <3> HIDE DEF IsQueue
    <3> QED BY <3>1
  <2> HIDE DEF n, IsQueue
  <2> QED BY <1>4, <1>9, <2>1, Zenon
<1>13. Touched(f, offset, length) = r[n]
  BY Zenon DEF Touched, needed, IsTouched
<1> HIDE DEF r, IsQueue
<1> DEFINE S == {i \in Nat : i <= n => r[i] \in Q}
<1>14. 0 \in S
  BY <1>2, <1>12
<1>15. ASSUME NEW i \in Nat, i >= 0, i \in S PROVE i + 1 \in S
  <2> SUFFICES ASSUME i + 1 <= n PROVE r[i + 1] \in Q
    OBVIOUS
  <2>1. i + 1 \in 1..n /\ (i + 1) - 1 = i /\ i <= n
    BY <1>1
  <2>2. r[i] \in Q /\ r[i + 1] = After(i + 1, r[i])
    BY <1>12, <1>15, <2>1
  <2> QED BY <1>3, <2>1, <2>2
<1> HIDE DEF S
<1>16. \A i \in Nat : i >= 0 => i \in S
  BY <1>14, <1>15, Induct
<1>17. r[n] \in Q
  BY <1>1, <1>16 DEF S
<1> QED BY <1>13, <1>17

\* What reading leaves is a queue of the cached chunks, ...
LEMMA TouchedIs ==
    ASSUME SP!StorageInv, NEW f, IsRefs(f.refs), NEW offset, NEW length
    PROVE  Touched(f, offset, length) \in Queues
<1>1. cache_lru \in Queues
  BY DEF Queues, SP!StorageInv, SP!TypeOK, SP!QueueInv
<1>2. ASSUME NEW x \in TouchedHashes(f, offset, length), NEW s \in Queues
      PROVE  SP!UsedLast(s, x) \in Queues
  <2>1. x \in SP!CachedHashes
    BY Zenon DEF TouchedHashes, Store!CachedHashes, SP!CachedHashes
  <2>2. s \in Seq(Data) /\ SP!Distinct(s) /\ x \in SP!ToSet(s) /\ SP!ToSet(s) = SP!CachedHashes
    BY <2>1 DEF Queues
  <2>3. SP!ChunkAssumption /\ SP!StorageAssumption
    BY StoreAssumptions
  <2> DEFINE t == SP!UsedLast(s, x)
  <2>4. t \in Seq(Data) /\ SP!Distinct(t) /\ SP!ToSet(t) = SP!ToSet(s)
    BY <2>2, <2>3, SP!UsedLastKeeps, Zenon DEF SP!ChunkAssumption, SP!StorageAssumption
  <2> HIDE DEF t
  <2>5. t \in Queues
    BY <2>2, <2>4 DEF Queues
  <2> QED BY <2>5 DEF t
<1> QED BY <1>1, <1>2, TouchedIn

\* ... in which what was behind the chunks of T still is, or has been moved.
LEMMA TouchedBehind ==
    ASSUME SP!StorageInv, NEW f, IsRefs(f.refs), NEW offset, NEW length,
           NEW T, NEW U, TouchedHashes(f, offset, length) \subseteq U,
           SP!IsBehind(T, U, cache_lru)
    PROVE  SP!IsBehind(T, U, Touched(f, offset, length))
<1> DEFINE Q == {s \in Seq(Data) : SP!IsBehind(T, U, s)}
<1>1. cache_lru \in Q
  BY StoreIs
<1>2. ASSUME NEW x \in TouchedHashes(f, offset, length), NEW s \in Q
      PROVE  SP!UsedLast(s, x) \in Q
  <2>1. x \in Data /\ x \in U
    BY DEF TouchedHashes, Store!CachedHashes
  <2>2. SP!ChunkAssumption /\ SP!StorageAssumption
    BY StoreAssumptions
  <2>3. s \in Seq(Data) /\ SP!IsBehind(T, U, s)
    OBVIOUS
  <2>4. SP!IsBehind(T, U, SP!UsedLast(s, x))
    BY <2>1, <2>2, <2>3, SP!UsedLastBehind, Zenon DEF SP!ChunkAssumption, SP!StorageAssumption
  <2>5. SP!UsedLast(s, x) \in Seq(Data)
    <3>1. SP!Retain(s, {x}) \in Seq(Data)
      BY <2>2, <2>3, SP!RetainKeeps, Zenon DEF SP!ChunkAssumption, SP!StorageAssumption
    <3> QED BY <2>1, <3>1, AppendProperties DEF SP!UsedLast
  <2> QED BY <2>4, <2>5
<1>3. Touched(f, offset, length) \in Q
  <2> HIDE DEF Q
  <2> QED BY <1>1, <1>2, TouchedIn
<1> QED BY <1>3

\* So the store stays in order.
LEMMA TouchedKept ==
    ASSUME SP!StorageInv, NEW f, IsRefs(f.refs), NEW offset, NEW length,
           cache_lru' = Touched(f, offset, length), UNCHANGED <<chunks, pinned_bytes, cached_bytes>>
    PROVE  StoreKept
<1>1. cache_lru' \in Queues
  BY TouchedIs
<1>2. SP!PinnedHashes' = SP!PinnedHashes /\ SP!CachedHashes' = SP!CachedHashes
  BY DEF SP!PinnedHashes, SP!CachedHashes
<1>3. SP!TypeOK'
  BY <1>1 DEF SP!StorageInv, SP!TypeOK, Queues
<1>4. SP!QueueInv'
  BY <1>1, <1>2 DEF SP!QueueInv, SP!Distinct, SP!ToSet, Queues
<1>5. SP!Accounting'
  BY <1>2 DEF SP!StorageInv, SP!Accounting, SP!TotalBytes, SP!BytesOf, SP!Cardinality
<1> QED BY <1>3, <1>4, <1>5 DEF StoreKept, SP!StorageInv

\* A step that uses no other chunks of the cache than hashes: as long as all that is behind those
\* of T fits, with what is used, none of T is dropped.
UsesOnly(hashes) ==
    \A U \in SUBSET Data : \A T \in SUBSET U :
        (hashes \subseteq U /\ SP!TotalBytes(U) <= MaxCachedBytes /\ SP!IsBehind(T, U, cache_lru))
        => /\ SP!IsBehind(T, U, cache_lru')
           /\ \A x \in T : chunks'[x] = "absent" => chunks[x] = "absent"

\* cache_chunk() is one, and what fits is there afterwards; ...
LEMMA KeepUses ==
    ASSUME SP!StorageInv, NEW hash \in Data, Keep(hash)
    PROVE  UsesOnly({hash}) /\ (Len(hash) <= MaxCachedBytes => chunks'[hash] # "absent")
<1>1. SP!ChunkAssumption /\ SP!StorageAssumption
  BY StoreAssumptions
<1>2. CASE Store!Cache(hash)
  <2>1. SP!Cache(hash)
    BY <1>2, SameCache
  <2>2. ASSUME NEW U \in SUBSET Data, NEW T \in SUBSET U, {hash} \subseteq U,
               SP!TotalBytes(U) <= MaxCachedBytes, SP!IsBehind(T, U, cache_lru)
        PROVE  /\ SP!IsBehind(T, U, cache_lru')
               /\ \A x \in T : chunks'[x] = "absent" => chunks[x] = "absent"
    <3>1. hash \in U
      BY <2>2
    <3>2. /\ SP!IsBehind(T, U, cache_lru')
          /\ \A x \in T : chunks'[x] = IF x = hash THEN "cached" ELSE chunks[x]
      BY <1>1, <2>1, <2>2, <3>1, SP!CacheSpares, Zenon
         DEF SP!ChunkAssumption, SP!StorageAssumption
    <3> QED BY <3>2
  <2>3. Len(hash) <= MaxCachedBytes => chunks'[hash] # "absent"
    <3>1. SUFFICES ASSUME Len(hash) <= MaxCachedBytes PROVE chunks'[hash] # "absent"
      OBVIOUS
    <3>2. {hash} \in SUBSET Data /\ hash \in {hash} /\ {} \in SUBSET {hash}
      OBVIOUS
    <3>3. SP!TotalBytes({hash}) = [d \in Data |-> Len(d)][hash]
      BY <1>1, SP!BytesOfOne, Zenon DEF SP!ChunkAssumption, SP!StorageAssumption
    <3>4. SP!TotalBytes({hash}) <= MaxCachedBytes
      BY <3>1, <3>3
    <3>5. SP!IsBehind({}, {hash}, cache_lru)
      BY DEF SP!IsBehind
    <3>6. chunks'[hash] = "cached"
      BY <1>1, <2>1, <3>2, <3>4, <3>5, SP!CacheSpares, Zenon
         DEF SP!ChunkAssumption, SP!StorageAssumption
    <3> QED BY <3>6
  <2> QED BY <2>2, <2>3 DEF UsesOnly
<1>3. CASE (IsStored(hash) \/ Len(hash) > MaxCachedBytes) /\ UNCHANGED storeVars
  <2>1. chunks' = chunks /\ cache_lru' = cache_lru
    BY <1>3 DEF storeVars
  <2>2. UsesOnly({hash})
    BY <2>1 DEF UsesOnly
  <2>3. Len(hash) <= MaxCachedBytes => IsStored(hash)
    <3>1. Len(hash) \in Nat /\ MaxCachedBytes \in Nat
      BY DataIs, OpenFilesAssumption DEF OpenFilesAssumption
    <3> QED BY <1>3, <3>1
  <2> QED BY <2>1, <2>2, <2>3 DEF IsStored
<1> QED BY <1>2, <1>3 DEF Keep

\* ... get() is one; ...
LEMMA TouchedUses ==
    ASSUME SP!StorageInv, NEW f, IsRefs(f.refs), NEW offset, NEW length,
           cache_lru' = Touched(f, offset, length), chunks' = chunks
    PROVE  UsesOnly(TouchedHashes(f, offset, length))
BY TouchedBehind DEF UsesOnly

\* ... and what is pinned uses none.
LEMMA PinUses ==
    ASSUME SP!StorageInv, NEW hash \in Data, Store!PromoteToPinned(hash) \/ Store!TryPin(<<hash>>)
    PROVE  UsesOnly({})
<1>1. PICK gone : cache_lru' = SP!Retain(cache_lru, gone)
  <2>1. \E gone : cache_lru' = Store!Retain(cache_lru, gone)
    BY Zenon DEF Store!PromoteToPinned, Store!TryPin
  <2> QED BY <2>1, SameQueue, Zenon
<1>2. \A x \in Data : chunks'[x] = "absent" => chunks[x] = "absent"
  <2>1. DOMAIN chunks = Data
    BY StoreIs
  <2>2. CASE Store!PromoteToPinned(hash)
    BY <2>1, <2>2 DEF Store!PromoteToPinned
  <2>3. CASE Store!TryPin(<<hash>>)
    <3>1. PICK batch : chunks' = [h \in Data |-> IF h \in batch THEN "pinned" ELSE chunks[h]]
      BY <2>3, Zenon DEF Store!TryPin
    <3> QED BY <3>1
  <2> QED BY <2>2, <2>3
<1>3. ASSUME NEW U \in SUBSET Data, NEW T \in SUBSET U, SP!IsBehind(T, U, cache_lru)
      PROVE  SP!IsBehind(T, U, cache_lru')
  <2>1. SP!ChunkAssumption /\ SP!StorageAssumption /\ cache_lru \in Seq(Data)
    BY StoreAssumptions, StoreIs
  <2>2. SP!IsBehind(T, U, SP!Retain(cache_lru, gone))
    BY <1>3, <2>1, SP!RetainBehind, Zenon DEF SP!ChunkAssumption, SP!StorageAssumption
  <2> QED BY <1>1, <2>2
<1> QED BY <1>2, <1>3 DEF UsesOnly

-----------------------------------------------------------------------------
(***************************************************************************)
(* Files that are written.                                                 *)
(***************************************************************************)

\* Contents can be cut into pieces of at most m bytes, of which none is empty.
LEMMA PiecesAre ==
    ASSUME NEW len \in Nat, NEW m \in Nat \ {0}
    PROVE  LET q == (len + m - 1) \div m
           IN  /\ q \in Nat /\ q <= len
               /\ len <= q * m
               /\ \A i \in 1..q : /\ (i - 1) * m < len /\ (i - 1) * m \in Nat
                                  /\ i * m = (i - 1) * m + m /\ i * m \in Nat
<1> DEFINE q == (len + m - 1) \div m
<1>1. q \in Nat /\ q * m <= len + m - 1 /\ len <= q * m
  OBVIOUS
<1> HIDE DEF q
<1>2. q <= len
  <2> SUFFICES ASSUME q > len PROVE FALSE
    BY <1>1
  <2>1. q * m >= (len + 1) * m
    BY <1>1
  <2>2. (len + 1) * m = len * m + m
    OBVIOUS
  <2>3. len * m >= len
    OBVIOUS
  <2> QED BY <1>1, <2>1, <2>2, <2>3
<1>3. ASSUME NEW i \in 1..q
      PROVE  /\ (i - 1) * m < len /\ (i - 1) * m \in Nat
             /\ i * m = (i - 1) * m + m /\ i * m \in Nat
  <2>1. i * m <= q * m
    BY <1>1
  <2>2. i * m = (i - 1) * m + m
    BY <1>1
  <2>3. (i - 1) * m \in Nat /\ i * m \in Nat
    BY <1>1
  <2> QED BY <1>1, <2>1, <2>2, <2>3
<1> QED BY <1>1, <1>2, <1>3 DEF q

\* Splitting: every piece is a chunk, and they are as long as what is split.
LEMMA SplitIs ==
    ASSUME NEW data \in Seq(Bit)
    PROVE  LET n == (Len(data) + MaxChunk - 1) \div MaxChunk
           IN  /\ n \in Nat /\ n <= Len(data) /\ Len(Split(data)) = n
               /\ DOMAIN Split(data) = 1..n
               /\ \A i \in 1..n : /\ Split(data)[i] \in Own
                                  /\ Len(Split(data)[i]) \in 1..MaxChunk
                                  /\ (i - 1) * MaxChunk \in Nat
                                  /\ Len(Split(data)[i]) =
                                         Lesser(i * MaxChunk, Len(data)) - (i - 1) * MaxChunk
               /\ Split(data) \in Seq(Own)
<1> DEFINE n == (Len(data) + MaxChunk - 1) \div MaxChunk
<1>1. MaxChunk \in Nat \ {0} /\ Len(data) \in Nat
  BY OpenFilesAssumption, LenProperties DEF OpenFilesAssumption
<1>2. /\ n \in Nat /\ n <= Len(data)
      /\ \A i \in 1..n : /\ (i - 1) * MaxChunk < Len(data) /\ (i - 1) * MaxChunk \in Nat
                         /\ i * MaxChunk = (i - 1) * MaxChunk + MaxChunk /\ i * MaxChunk \in Nat
  BY <1>1, PiecesAre
<1>3. /\ Split(data) = [i \in 1..n |-> Split(data)[i]]
      /\ \A i \in 1..n : Split(data)[i] =
             SubSeq(data, (i - 1) * MaxChunk + 1, Lesser(i * MaxChunk, Len(data)))
  BY DEF Split
<1> HIDE DEF n
<1>4. ASSUME NEW i \in 1..n
      PROVE  /\ Split(data)[i] \in Own /\ Len(Split(data)[i]) \in 1..MaxChunk
             /\ Len(Split(data)[i]) = Lesser(i * MaxChunk, Len(data)) - (i - 1) * MaxChunk
  <2> DEFINE lo == (i - 1) * MaxChunk
             hi == Lesser(i * MaxChunk, Len(data))
             piece == SubSeq(data, lo + 1, hi)
  <2>1. lo \in Nat /\ lo < Len(data) /\ i * MaxChunk = lo + MaxChunk
    BY <1>2
  <2> HIDE DEF lo
  <2>2. /\ hi \in Int /\ hi <= Len(data) /\ lo < hi /\ hi - lo \in 1..MaxChunk
    BY <1>1, <2>1 DEF Lesser
  <2> HIDE DEF hi
  <2>3. piece \in Seq(Bit) /\ Len(piece) = IF lo < hi THEN hi - lo ELSE 0
    BY <2>1, <2>2, Cut
  <2> HIDE DEF piece
  <2>4. Len(piece) = hi - lo /\ Len(piece) \in 1..MaxChunk /\ piece \in [1..Len(piece) -> Bit]
    BY <2>2, <2>3, LenProperties
  <2>5. piece \in Own
    BY <2>4 DEF Own
  <2>6. Split(data)[i] = piece
    BY <1>3 DEF piece, lo, hi
  <2> QED BY <2>4, <2>5, <2>6 DEF lo, hi
<1>5. Split(data) \in Seq(Own) /\ Len(Split(data)) = n /\ DOMAIN Split(data) = 1..n
  <2>1. Split(data) \in [1..n -> Own] /\ DOMAIN Split(data) = 1..n
    BY <1>3, <1>4
  <2> QED BY <1>2, <2>1, IsSequence
<1> QED BY <1>2, <1>4, <1>5 DEF n

\* A file that is written is one, its chunks are the pieces, and its size what was written.
LEMMA FileOfIs ==
    ASSUME NEW data \in Seq(Bit), Len(data) <= MaxSize, NEW by \in {"here", "elsewhere"}
    PROVE  /\ FileOf(data, by) \in FileRecord /\ IsFile(FileOf(data, by))
           /\ \A i \in DOMAIN FileOf(data, by).refs :
                  i \in DOMAIN Split(data) /\ FileOf(data, by).refs[i].hash = Split(data)[i]
<1> DEFINE n == (Len(data) + MaxChunk - 1) \div MaxChunk
           pieces == Split(data)
           refs == [i \in DOMAIN pieces |-> [hash |-> pieces[i], size |-> Len(pieces[i])]]
           E == EndOf(refs)
<1>1. MaxChunk \in Nat \ {0} /\ Len(data) \in Nat /\ MaxSize \in Nat
  BY OpenFilesAssumption, LenProperties DEF OpenFilesAssumption
<1>2. /\ n \in Nat /\ DOMAIN pieces = 1..n
      /\ \A i \in 1..n : /\ pieces[i] \in Own /\ Len(pieces[i]) \in 1..MaxChunk
                         /\ (i - 1) * MaxChunk \in Nat
                         /\ Len(pieces[i]) = Lesser(i * MaxChunk, Len(data)) - (i - 1) * MaxChunk
  BY SplitIs
<1>3. \A i \in 1..n : /\ (i - 1) * MaxChunk < Len(data)
                      /\ i * MaxChunk = (i - 1) * MaxChunk + MaxChunk /\ i * MaxChunk \in Nat
  BY <1>1, PiecesAre
<1> HIDE DEF n, pieces
<1>4. /\ DOMAIN refs = 1..n
      /\ \A i \in 1..n : /\ refs[i] = [hash |-> pieces[i], size |-> Len(pieces[i])]
                         /\ refs[i].hash = pieces[i] /\ refs[i].size = Len(pieces[i])
  BY <1>2
<1>5. refs \in Seq([hash : Own, size : 1..MaxChunk]) /\ Len(refs) = n
  <2>1. \A i \in 1..n : refs[i] \in [hash : Own, size : 1..MaxChunk]
    BY <1>2, <1>4
  <2>2. refs \in [1..n -> [hash : Own, size : 1..MaxChunk]]
    BY <1>4, <2>1
  <2> QED BY <1>2, <2>2, IsSequence
<1>6. IsRefs(refs)
  <2>1. \A i \in 1..n : refs[i].size <= Len(refs[i].hash)
    <3>1. ASSUME NEW i \in 1..n PROVE refs[i].size <= Len(refs[i].hash)
      <4>1. Len(pieces[i]) \in Nat
        BY <1>1, <1>2
      <4> QED BY <1>4, <4>1
    <3> QED BY <3>1
  <2> QED BY <1>5, <2>1 DEF IsRefs
<1>7. FileOf(data, by) = [there |-> TRUE, by |-> by, handed |-> {}, size |-> Len(data), refs |-> refs]
  BY DEF FileOf, pieces
<1> HIDE DEF refs
<1>8. E[0] = 0 /\ \A i \in 1..n : E[i] = E[i - 1] + refs[i].size
  BY <1>5, <1>6, Starts
<1> HIDE DEF E
<1> DEFINE S == {i \in Nat : i <= n => E[i] = Lesser(i * MaxChunk, Len(data))}
<1>9. 0 \in S
  <2>1. 0 * MaxChunk = 0
    BY <1>1
  <2> QED BY <1>1, <1>8, <2>1 DEF Lesser
<1>10. ASSUME NEW i \in Nat, i >= 0, i \in S PROVE i + 1 \in S
  <2> SUFFICES ASSUME i + 1 <= n PROVE E[i + 1] = Lesser((i + 1) * MaxChunk, Len(data))
    OBVIOUS
  <2>1. i + 1 \in 1..n /\ (i + 1) - 1 = i /\ i <= n
    BY <1>2
  <2> DEFINE x == i * MaxChunk
             y == (i + 1) * MaxChunk
  <2>2. E[i] = Lesser(x, Len(data)) /\ x < Len(data) /\ x \in Nat /\ y \in Nat
    BY <1>2, <1>3, <1>10, <2>1
  <2>3. E[i + 1] = E[i] + (Lesser(y, Len(data)) - x)
    BY <1>2, <1>4, <1>8, <2>1
  <2> HIDE DEF x, y
  <2>4. Lesser(y, Len(data)) \in Int
    BY <1>1, <2>2 DEF Lesser
  <2>5. E[i] = x
    BY <1>1, <2>2 DEF Lesser
  <2> QED BY <2>2, <2>3, <2>4, <2>5 DEF y
<1> HIDE DEF S
<1>11. \A i \in Nat : i >= 0 => i \in S
  BY <1>9, <1>10, Induct
<1>12. E[n] <= Len(data)
  <2>1. E[n] = Lesser(n * MaxChunk, Len(data))
    BY <1>2, <1>11 DEF S
  <2>2. n * MaxChunk \in Nat
    BY <1>1, <1>2
  <2> QED BY <1>1, <2>1, <2>2 DEF Lesser
<1>13. Len(data) \in 0..MaxSize
  BY <1>1
<1>14. FileOf(data, by) \in FileRecord
  BY <1>5, <1>7, <1>13 DEF FileRecord
<1>15. IsFile(FileOf(data, by))
  BY <1>5, <1>6, <1>7, <1>12, <1>13 DEF IsFile, E
<1>16. \A i \in DOMAIN FileOf(data, by).refs :
           i \in DOMAIN pieces /\ FileOf(data, by).refs[i].hash = pieces[i]
  BY <1>2, <1>4, <1>7
<1> QED BY <1>14, <1>15, <1>16 DEF pieces

\* A file that is gone is empty.
LEMMA GoneIs ==
    /\ Gone \in FileRecord /\ IsFile(Gone) /\ Gone.by = "elsewhere" /\ ~Gone.there
<1>1. MaxSize \in Nat /\ 0 \in 0..MaxSize
  BY OpenFilesAssumption DEF OpenFilesAssumption
<1>2. Gone.refs = <<>> /\ Gone.size = 0
  BY DEF Gone
<1>3. IsRefs(<<>>) /\ Len(<<>>) = 0
  BY DEF IsRefs
<1>4. EndOf(<<>>)[0] = 0
  BY <1>3, Starts
<1>5. IsFile(Gone)
  BY <1>1, <1>2, <1>3, <1>4 DEF IsFile
<1> QED BY <1>1, <1>5 DEF Gone, FileRecord

-----------------------------------------------------------------------------
(***************************************************************************)
(* The inductive invariant.                                                *)
(***************************************************************************)

\* What a handle is.
IsHandleOf(r) ==
    /\ r \in [open : BOOLEAN, loaded : BOOLEAN, buffer : Seq(Bit), dirty : BOOLEAN,
              size : 0..MaxSize, wrote : BOOLEAN]
    /\ Len(r.buffer) <= MaxSize
    /\ r.loaded \/ ~r.dirty

\* Every handle is one.
HandlesInv == DOMAIN handle = Handle /\ \A h \in Handle : IsHandleOf(handle[h])

\* What a call is.
FetchRecord == [kind : {"read", "write"}, offset : Nat, length : Nat, byte : Bit,
                asked : SUBSET Data, list : Seq(Data), failed : BOOLEAN, calm : BOOLEAN,
                seen : SUBSET Data]

\* A release that has a buffer to write back.
CloseRecord == [kind : {"close"}, buffer : Seq(Bit), wrote : BOOLEAN]

\* It waits only for what it has listed, and a write is within the bounds of the model.
IsFetchCall(c) ==
    /\ c \in FetchRecord
    /\ c.asked \subseteq ToSet(c.list)
    /\ c.kind = "write" => c.offset < MaxSize

\* A buffer is no longer than files can be.
IsCloseCall(c) == c \in CloseRecord /\ Len(c.buffer) <= MaxSize

\* A handle is in at most one call.
IsCallOf(c) == c = NoCall \/ IsFetchCall(c) \/ IsCloseCall(c)

\* The chunks that a call needs and that are not pinned.
From(c) == IF c.kind = "read" THEN c.offset ELSE 0

Wanted(c, f, held) ==
    {x \in Data : /\ held[x] # "pinned"
                  /\ \E i \in Needed(f, From(c), Lesser(From(c) + c.length, f.size)) :
                         x = f.refs[i].hash}

\* Nobody has changed the file under the call and all answers were good.
IsCalm(c) == c.kind \in {"read", "write"} /\ ~c.failed /\ c.calm

\* They are among what it has seen; and as long as that fits into the cache, the call waits for
\* those that are not there, and behind the others there is nothing that it has not seen.
IsCovered(c, f, held, queue) ==
    LET wanted == Wanted(c, f, held)
    IN  /\ wanted \subseteq c.seen
        /\ SP!TotalBytes(c.seen) <= MaxCachedBytes =>
            /\ \A x \in wanted : held[x] = "absent" => x \in c.asked
            /\ SP!IsBehind(wanted, c.seen, queue)

\* The same of the file and the store as they are.
Covered(c) == IsCovered(c, file, chunks, cache_lru)

\* Every call is one, and is covered if it is calm.
CallsInv ==
    /\ DOMAIN call = Handle
    /\ \A h \in Handle : IsCallOf(call[h]) /\ (IsCalm(call[h]) => Covered(call[h]))

\* The inductive invariant.
OpenInv == FileInv /\ SP!StorageInv /\ WrittenStaysHere /\ HandlesInv /\ CallsInv

-----------------------------------------------------------------------------
(***************************************************************************)
(* Calls that begin, go on and are disturbed.                              *)
(***************************************************************************)

\* What is true of calls of each kind.
LEMMA KindOfCall ==
    /\ NoCall.kind = "none" /\ ~IsCalm(NoCall) /\ IsCallOf(NoCall)
    /\ \A c : IsFetchCall(c) => c.kind \in {"read", "write"}
    /\ \A c : IsCloseCall(c) => c.kind = "close" /\ ~IsCalm(c)
    /\ \A h \in Handle : CallsInv => /\ IsCallOf(call[h])
                                     /\ IsFetching(h) => IsFetchCall(call[h])
                                     /\ call[h].kind = "close" => IsCloseCall(call[h])
<1>1. NoCall.kind = "none" /\ ~IsCalm(NoCall) /\ IsCallOf(NoCall)
  BY DEF NoCall, IsCalm, IsCallOf
<1>2. \A c : IsFetchCall(c) => c.kind \in {"read", "write"}
  BY DEF IsFetchCall, FetchRecord
<1>3. \A c : IsCloseCall(c) => c.kind = "close" /\ ~IsCalm(c)
  BY DEF IsCloseCall, CloseRecord, IsCalm
<1>4. ASSUME NEW h \in Handle, CallsInv
      PROVE  /\ IsCallOf(call[h])
             /\ IsFetching(h) => IsFetchCall(call[h])
             /\ call[h].kind = "close" => IsCloseCall(call[h])
  <2>1. IsCallOf(call[h])
    BY <1>4 DEF CallsInv
  <2> QED BY <1>1, <1>2, <1>3, <2>1 DEF IsCallOf, IsFetching
<1> QED BY <1>1, <1>2, <1>3, <1>4

\* Calls that have been disturbed are the same and not calm.
LEMMA DisturbedAre ==
    ASSUME CallsInv
    PROVE  /\ DOMAIN Disturbed = Handle
           /\ \A h \in Handle : IsCallOf(Disturbed[h]) /\ ~IsCalm(Disturbed[h])
<1>1. DOMAIN Disturbed = Handle
  BY DEF Disturbed
<1>2. ASSUME NEW h \in Handle PROVE IsCallOf(Disturbed[h]) /\ ~IsCalm(Disturbed[h])
  <2>1. CASE IsFetching(h)
    <3>1. Disturbed[h] = [call[h] EXCEPT !.calm = FALSE, !.seen = {}] /\ IsFetchCall(call[h])
      BY <2>1, KindOfCall DEF Disturbed
    <3>2. IsFetchCall(Disturbed[h]) /\ ~Disturbed[h].calm
      BY <3>1 DEF IsFetchCall, FetchRecord
    <3> QED BY <3>2 DEF IsCallOf, IsCalm
  <2>2. CASE ~IsFetching(h)
    <3>1. Disturbed[h] = call[h] /\ IsCallOf(call[h])
      BY <2>2, KindOfCall DEF Disturbed
    <3> QED BY <2>2, <3>1 DEF IsCalm, IsFetching
  <2> QED BY <2>1, <2>2
<1> QED BY <1>1, <1>2

\* The calls after a step that leaves file and store alone and puts h into c ...
LEMMA CallsSame ==
    ASSUME CallsInv, NEW h \in Handle, NEW c, IsCallOf(c), IsCalm(c) => Covered(c),
           UNCHANGED <<file, chunks, cache_lru>>, call' = [call EXCEPT ![h] = c]
    PROVE  CallsInv'
<1>1. DOMAIN call' = Handle /\ \A g \in Handle : call'[g] = IF g = h THEN c ELSE call[g]
  BY DEF CallsInv
<1>2. ASSUME NEW g \in Handle
      PROVE  IsCallOf(call'[g]) /\ (IsCalm(call'[g]) => Covered(call[g])')
  <2>1. IsCallOf(call'[g]) /\ (IsCalm(call'[g]) => IsCovered(call'[g], file, chunks, cache_lru))
    BY <1>1 DEF CallsInv, Covered
  <2> QED BY <2>1 DEF Covered
<1> QED BY <1>1, <1>2 DEF CallsInv

\* ... and after one that disturbs the others.
LEMMA CallsDisturbed ==
    ASSUME CallsInv, NEW h \in Handle, NEW c, IsCallOf(c), IsCalm(c) => Covered(c)',
           call' = [Disturbed EXCEPT ![h] = c]
    PROVE  CallsInv'
<1>1. /\ DOMAIN call' = Handle
      /\ \A g \in Handle : call'[g] = IF g = h THEN c ELSE Disturbed[g]
  BY DisturbedAre
<1>2. ASSUME NEW g \in Handle
      PROVE  IsCallOf(call'[g]) /\ (IsCalm(call'[g]) => Covered(call[g])')
  <2>1. CASE g = h
    BY <1>1, <2>1 DEF Covered
  <2>2. CASE g # h
    BY <1>1, <2>2, DisturbedAre
  <2> QED BY <2>1, <2>2
<1> QED BY <1>1, <1>2 DEF CallsInv

\* ... and after one that disturbs all of them.
LEMMA AllDisturbed ==
    ASSUME CallsInv, call' = Disturbed
    PROVE  CallsInv'
<1>1. DOMAIN call' = Handle /\ \A g \in Handle : IsCallOf(call'[g]) /\ ~IsCalm(call'[g])
  BY DisturbedAre
<1> QED BY <1>1 DEF CallsInv

\* What a call wants is where it reads.
LEMMA SameWanted ==
    ASSUME NEW c, NEW d, c.kind = d.kind, c.offset = d.offset, c.length = d.length
    PROVE  \A f, held : Wanted(c, f, held) = Wanted(d, f, held)
BY Zenon DEF Wanted, From

\* A call is still covered after a step that uses some chunks, once it has seen them.
LEMMA CoveredKept ==
    ASSUME SP!StorageInv, StoreKept, file' = file, NEW hashes \in SUBSET Data, UsesOnly(hashes),
           NEW d, d.seen \in SUBSET Data, Covered(d),
           NEW e, e.kind = d.kind, e.offset = d.offset, e.length = d.length, e.asked = d.asked,
           e.seen = d.seen \cup hashes
    PROVE  IsCovered(e, file', chunks', cache_lru')
<1> DEFINE before == Wanted(d, file, chunks)
           after == Wanted(e, file', chunks')
<1>1. after \in SUBSET before
  <2>1. Wanted(e, file, chunks') = Wanted(d, file, chunks')
    BY SameWanted
  <2>2. ASSUME NEW x \in Wanted(d, file, chunks') PROVE x \in before
    BY <2>2 DEF Wanted, StoreKept
  <2> QED BY <2>1, <2>2
<1>2. /\ before \subseteq d.seen
      /\ SP!TotalBytes(d.seen) <= MaxCachedBytes =>
          /\ \A x \in before : chunks[x] = "absent" => x \in d.asked
          /\ SP!IsBehind(before, d.seen, cache_lru)
  BY Zenon DEF Covered, IsCovered
<1> HIDE DEF before, after
<1>3. ASSUME SP!TotalBytes(e.seen) <= MaxCachedBytes
      PROVE  /\ \A x \in after : chunks'[x] = "absent" => x \in e.asked
             /\ SP!IsBehind(after, e.seen, cache_lru')
  <2>1. e.seen \in SUBSET Data /\ d.seen \in SUBSET e.seen
    OBVIOUS
  <2>2. SP!ChunkAssumption /\ SP!StorageAssumption
    BY StoreAssumptions
  <2>3. SP!TotalBytes(d.seen) <= SP!TotalBytes(e.seen)
    BY <2>1, <2>2, SP!BytesTake, Zenon DEF SP!ChunkAssumption, SP!StorageAssumption
  <2>4. SP!TotalBytes(d.seen) \in Nat /\ SP!TotalBytes(e.seen) \in Nat
    BY <2>1, <2>2, SP!BytesFinite, Zenon DEF SP!ChunkAssumption, SP!StorageAssumption
  <2>5. SP!TotalBytes(d.seen) <= MaxCachedBytes
    BY <1>3, <2>3, <2>4, OpenFilesAssumption DEF OpenFilesAssumption
  <2>6. SP!IsBehind(before, e.seen, cache_lru)
    BY <1>2, <2>1, <2>5 DEF SP!IsBehind
  <2>7. hashes \subseteq e.seen /\ before \in SUBSET e.seen
    BY <1>2
  <2>8. /\ SP!IsBehind(before, e.seen, cache_lru')
        /\ \A x \in before : chunks'[x] = "absent" => chunks[x] = "absent"
    BY <1>3, <2>1, <2>6, <2>7, Zenon DEF UsesOnly
  <2>9. SP!IsBehind(after, e.seen, cache_lru')
    BY <1>1, <2>8 DEF SP!IsBehind
  <2> QED BY <1>1, <1>2, <2>5, <2>8, <2>9
<1>4. after \subseteq e.seen
  BY <1>1, <1>2
<1> QED BY <1>3, <1>4, Zenon DEF IsCovered, after

\* Calls that have taken note of a use are the same and still covered.
LEMMA NotedAre ==
    ASSUME CallsInv, SP!StorageInv, StoreKept, file' = file,
           NEW hashes \in SUBSET Data, UsesOnly(hashes)
    PROVE  /\ DOMAIN Noted(hashes) = Handle
           /\ \A h \in Handle :
                  /\ IsCallOf(Noted(hashes)[h])
                  /\ IsFetching(h) => IsFetchCall(Noted(hashes)[h])
                  /\ IsCalm(Noted(hashes)[h]) =>
                         /\ IsCovered(Noted(hashes)[h], file', chunks', cache_lru')
                         /\ hashes \subseteq Noted(hashes)[h].seen
<1>1. DOMAIN Noted(hashes) = Handle
  BY DEF Noted
<1>2. ASSUME NEW h \in Handle, NEW d, d = call[h], NEW e, e = Noted(hashes)[h]
      PROVE  /\ IsCallOf(e)
             /\ IsFetching(h) => IsFetchCall(e)
             /\ IsCalm(e) => IsCovered(e, file', chunks', cache_lru') /\ hashes \subseteq e.seen
  <2>1. IsCallOf(d) /\ (IsCalm(d) => Covered(d)) /\ (IsFetching(h) => IsFetchCall(d))
    BY <1>2, KindOfCall DEF CallsInv
  <2>2. CASE IsFetching(h) /\ d.calm
    <3>1. e = [d EXCEPT !.seen = d.seen \cup hashes]
      BY <1>2, <2>2 DEF Noted
    <3>2. IsFetchCall(d)
      BY <2>1, <2>2
    <3>3. /\ e \in FetchRecord /\ d \in FetchRecord
          /\ e.kind = d.kind /\ e.offset = d.offset /\ e.length = d.length
          /\ e.asked = d.asked /\ e.list = d.list /\ e.failed = d.failed /\ e.calm = d.calm
          /\ e.seen = d.seen \cup hashes
      BY <3>1, <3>2 DEF IsFetchCall, FetchRecord
    <3>4. IsFetchCall(e)
      BY <3>2, <3>3 DEF IsFetchCall
    <3>5. ASSUME IsCalm(e) PROVE IsCovered(e, file', chunks', cache_lru')
      <4>1. Covered(d)
        BY <2>1, <3>3, <3>5 DEF IsCalm
      <4>2. d.seen \in SUBSET Data
        BY <3>3 DEF FetchRecord
      <4> QED BY <3>3, <4>1, <4>2, CoveredKept
    <3> QED BY <3>3, <3>4, <3>5 DEF IsCallOf
  <2>3. CASE ~(IsFetching(h) /\ d.calm)
    <3>1. e = d
      BY <1>2, <2>3 DEF Noted
    <3>2. ~IsCalm(e)
      BY <1>2, <2>3, <3>1 DEF IsCalm, IsFetching
    <3> QED BY <2>1, <3>1, <3>2
  <2> QED BY <2>2, <2>3
<1> QED BY <1>1, <1>2

\* The calls after a step that uses some chunks and puts h into c ...
LEMMA CallsNoted ==
    ASSUME CallsInv, SP!StorageInv, StoreKept, file' = file,
           NEW hashes \in SUBSET Data, UsesOnly(hashes),
           NEW h \in Handle, NEW c, IsCallOf(c),
           IsCalm(c) => IsCovered(c, file', chunks', cache_lru'),
           call' = [Noted(hashes) EXCEPT ![h] = c]
    PROVE  CallsInv'
<1>1. /\ DOMAIN call' = Handle
      /\ \A g \in Handle : call'[g] = IF g = h THEN c ELSE Noted(hashes)[g]
  BY NotedAre
<1>2. ASSUME NEW g \in Handle
      PROVE  IsCallOf(call'[g]) /\ (IsCalm(call'[g]) => IsCovered(call'[g], file', chunks', cache_lru'))
  <2>1. CASE g = h
    BY <1>1, <2>1
  <2>2. CASE g # h
    BY <1>1, <2>2, NotedAre
  <2> QED BY <2>1, <2>2
<1> QED BY <1>1, <1>2 DEF CallsInv, Covered

\* ... and after one that only uses some.
LEMMA AllNoted ==
    ASSUME CallsInv, SP!StorageInv, StoreKept, file' = file,
           NEW hashes \in SUBSET Data, UsesOnly(hashes), call' = Noted(hashes)
    PROVE  CallsInv'
<1>1. ASSUME NEW g \in Handle
      PROVE  IsCallOf(call'[g]) /\ (IsCalm(call'[g]) => IsCovered(call'[g], file', chunks', cache_lru'))
  BY NotedAre
<1> QED BY <1>1, NotedAre DEF CallsInv, Covered

\* A step that uses none need not be noted.
LEMMA NoneNoted ==
    ASSUME CallsInv, SP!StorageInv, StoreKept, file' = file, UsesOnly({}), call' = call
    PROVE  CallsInv'
<1>1. ASSUME NEW g \in Handle, NEW d, d = call[g]
      PROVE  IsCallOf(d) /\ (IsCalm(d) => IsCovered(d, file', chunks', cache_lru'))
  <2>1. IsCallOf(d) /\ (IsCalm(d) => Covered(d))
    BY <1>1 DEF CallsInv
  <2>2. ASSUME IsCalm(d) PROVE IsCovered(d, file', chunks', cache_lru')
    <3>1. d.seen \in SUBSET Data
      <4>1. IsFetchCall(d)
        BY <2>1, <2>2, KindOfCall DEF IsCallOf
      <4> QED BY <4>1 DEF IsFetchCall, FetchRecord
    <3> QED BY <2>1, <2>2, <3>1, CoveredKept
  <2> QED BY <2>1, <2>2
<1> QED BY <1>1 DEF CallsInv, Covered

\* A call that begins has seen what is missing, and what is behind the rest.
LEMMA FetchingIs ==
    ASSUME FileInv, SP!StorageInv, NEW kind \in {"read", "write"}, NEW offset \in Nat,
           NEW length \in Nat, NEW byte \in Bit, kind = "write" => offset < MaxSize,
           NEW c, c = Fetching(kind, offset, length, byte)
    PROVE  IsCallOf(c) /\ Covered(c)
<1> DEFINE from == IF kind = "write" THEN 0 ELSE offset
           missing == Missing(file, from, length)
           needed == Needed(file, from, Lesser(from + length, file.size))
           hashes == {file.refs[i].hash : i \in needed}
           seen == ToSet(missing) \cup Behind(hashes)
<1>1. IsRefs(file.refs)
  BY DEF FileInv, IsFile
<1>2. /\ missing \in Seq(Own)
      /\ \A hash : hash \in ToSet(missing) <=>
             \E i \in needed : hash = file.refs[i].hash /\ ~IsStored(hash)
  BY <1>1, MissingHas
<1>3. \A i \in needed : file.refs[i].hash \in Data
  BY <1>1, RefsAre DEF Needed
<1>4. /\ c.kind = kind /\ c.offset = offset /\ c.length = length
      /\ c.asked = ToSet(missing) /\ c.seen = seen
      /\ c = [kind |-> kind, offset |-> offset, length |-> length, byte |-> byte,
              asked |-> ToSet(missing), list |-> missing, failed |-> FALSE, calm |-> TRUE,
              seen |-> seen]
  BY DEF Fetching
<1>5. From(c) = from
  BY <1>4 DEF From
<1> HIDE DEF from, missing, needed
<1>6. missing \in Seq(Data) /\ ToSet(missing) \in SUBSET Data
  <2>1. \A d \in Own : d \in Data
    BY OwnChunks
  <2>2. ToSet(missing) \in SUBSET Data
    BY <1>2, <1>3
  <2>3. Len(missing) \in Nat /\ missing \in [1..Len(missing) -> Own]
    BY <1>2, LenProperties
  <2>4. missing \in [1..Len(missing) -> Data]
    BY <2>1, <2>3
  <2> QED BY <2>2, <2>3, <2>4, IsSequence
<1>7. /\ Behind(hashes) \in SUBSET Data
      /\ \A i, j \in DOMAIN cache_lru :
             i <= j /\ cache_lru[i] \in hashes => cache_lru[j] \in Behind(hashes)
  <2>1. DOMAIN cache_lru = 1..Len(cache_lru) /\ \A i \in DOMAIN cache_lru : cache_lru[i] \in Data
    BY StoreIs
  <2> HIDE DEF hashes
  <2>2. ASSUME NEW i \in DOMAIN cache_lru, NEW j \in DOMAIN cache_lru, i <= j,
               cache_lru[i] \in hashes
        PROVE  cache_lru[j] \in Behind(hashes)
    <3>1. i \in 1..j
      BY <2>1, <2>2
    <3> QED BY <2>2, <3>1 DEF Behind
  <2> QED BY <2>1, <2>2 DEF Behind
<1> HIDE DEF hashes
<1>8. IsCallOf(c)
  <2>1. seen \in SUBSET Data
    BY <1>6, <1>7
  <2> HIDE DEF seen
  <2>2. [kind |-> kind, offset |-> offset, length |-> length, byte |-> byte,
         asked |-> ToSet(missing), list |-> missing, failed |-> FALSE, calm |-> TRUE,
         seen |-> seen] \in FetchRecord
    BY <1>6, <2>1 DEF FetchRecord
  <2>3. c \in FetchRecord
    BY <1>4, <2>2, Zenon
  <2> QED BY <1>4, <2>3 DEF IsCallOf, IsFetchCall
<1>9. Covered(c)
  <2> DEFINE wanted == Wanted(c, file, chunks)
  <2>1. \A x : x \in wanted <=> x \in Data /\ chunks[x] # "pinned" /\ x \in hashes
    BY <1>4, <1>5 DEF Wanted, needed, hashes
  <2> HIDE DEF wanted
  <2>2. /\ \A x \in Data : chunks[x] \in {"absent", "pinned", "cached"}
        /\ DOMAIN cache_lru = 1..Len(cache_lru)
    BY StoreIs
  <2>3. ASSUME NEW x \in wanted, chunks[x] = "absent" PROVE x \in ToSet(missing)
    BY <1>2, <2>1, <2>3 DEF IsStored, hashes
  <2>4. ASSUME NEW x \in wanted, chunks[x] = "cached" PROVE x \in Behind(hashes)
    <3>1. x \in SP!CachedHashes
      BY <2>1, <2>4 DEF SP!CachedHashes
    <3>2. PICK i \in DOMAIN cache_lru : x = cache_lru[i]
      BY <3>1 DEF SP!StorageInv, SP!QueueInv, SP!ToSet
    <3>3. i <= i
      BY <2>2
    <3> QED BY <1>7, <2>1, <3>2, <3>3
  <2>5. wanted \subseteq seen
    <3>1. ASSUME NEW x \in wanted PROVE x \in seen
      <4>1. chunks[x] = "absent" \/ chunks[x] = "cached"
        BY <2>1, <2>2
      <4> QED BY <2>3, <2>4, <4>1
    <3> QED BY <3>1
  <2>6. SP!IsBehind(wanted, seen, cache_lru)
    <3>1. ASSUME NEW i \in DOMAIN cache_lru, NEW j \in DOMAIN cache_lru, i < j,
                 cache_lru[i] \in wanted
          PROVE  cache_lru[j] \in seen
      <4>1. i <= j
        BY <2>2, <3>1
      <4> QED BY <1>7, <2>1, <3>1, <4>1
    <3> QED BY <3>1 DEF SP!IsBehind
  <2> HIDE DEF seen
  <2> QED BY <1>4, <2>3, <2>5, <2>6 DEF Covered, IsCovered, wanted
<1> QED BY <1>8, <1>9

\* The chunks of a file are chunks.
LEMMA ChunksAre ==
    ASSUME NEW f, IsFile(f)
    PROVE  ChunksOf(f) \in SUBSET Data
<1>1. \A i \in DOMAIN f.refs : f.refs[i].hash \in Data
  BY RefsAre DEF IsFile
<1> QED BY <1>1 DEF ChunksOf

\* Pins and a file that stay are as they should be.
LEMMA PinsStay ==
    ASSUME FileInv, WrittenStaysHere, StoreKept, file' = file
    PROVE  FileInv' /\ WrittenStaysHere'
<1>1. ChunksOf(file) \in SUBSET Data
  BY ChunksAre DEF FileInv
<1>2. FileInv'
  BY DEF FileInv
<1> QED BY <1>1, <1>2 DEF WrittenStaysHere, StoreKept

\* Handles that stay are what they were.
LEMMA HandlesStay == HandlesInv /\ UNCHANGED handle => HandlesInv'
BY DEF HandlesInv

\* Calls that stay are what they were, if file and store stay too.
LEMMA CallsStay ==
    CallsInv /\ UNCHANGED <<file, chunks, cache_lru, call>> => CallsInv'
BY DEF CallsInv, Covered

\* What a write puts into a buffer.
LEMMA OverwrittenIs ==
    ASSUME NEW buffer \in Seq(Bit), Len(buffer) <= MaxSize,
           NEW offset \in 0..(MaxSize - 1), NEW byte \in Bit
    PROVE  /\ Overwritten(buffer, offset, byte) \in Seq(Bit)
           /\ Len(Overwritten(buffer, offset, byte)) <= MaxSize
<1> DEFINE n == Greater(Len(buffer), offset + 1)
<1>1. Len(buffer) \in Nat /\ MaxSize \in Nat /\ buffer \in [1..Len(buffer) -> Bit] /\ 0 \in Bit
  BY LenProperties, OpenFilesAssumption DEF OpenFilesAssumption, Bit
<1>2. n \in Nat /\ n <= MaxSize
  BY <1>1 DEF Greater
<1> HIDE DEF n
<1>3. Overwritten(buffer, offset, byte) \in [1..n -> Bit]
  <2>1. ASSUME NEW i \in 1..n
        PROVE  (IF i = offset + 1 THEN byte ELSE IF i <= Len(buffer) THEN buffer[i] ELSE 0) \in Bit
    <3>1. i <= Len(buffer) => i \in 1..Len(buffer)
      BY <1>1, <1>2
    <3> QED BY <1>1, <3>1
  <2> QED BY <2>1 DEF Overwritten, n
<1> QED BY <1>2, <1>3, IsSequence

\* So the handles are in order after a write.
LEMMA BufferIs ==
    ASSUME HandlesInv, NEW h \in Handle, NEW buffer \in Seq(Bit), Len(buffer) <= MaxSize,
           NEW offset \in 0..(MaxSize - 1), NEW byte \in Bit, WriteBuffer(h, buffer, offset, byte)
    PROVE  HandlesInv'
<1> DEFINE new == Overwritten(buffer, offset, byte)
<1>1. new \in Seq(Bit) /\ Len(new) <= MaxSize
  BY OverwrittenIs
<1>2. IsHandleOf(handle[h]) /\ DOMAIN handle = Handle
  BY DEF HandlesInv
<1>3. Greater(handle[h].size, offset + 1) \in 0..MaxSize
  <2>1. handle[h].size \in 0..MaxSize /\ MaxSize \in Nat
    BY <1>2, OpenFilesAssumption DEF IsHandleOf, OpenFilesAssumption
  <2> QED BY <2>1 DEF Greater
<1>4. handle' = [handle EXCEPT ![h].loaded = TRUE, ![h].buffer = new,
                               ![h].size = Greater(@, offset + 1),
                               ![h].dirty = TRUE, ![h].wrote = TRUE]
  BY DEF WriteBuffer
<1> HIDE DEF new
<1>5. /\ DOMAIN handle' = Handle /\ \A g \in Handle : g # h => handle'[g] = handle[g]
      /\ handle'[h] = [handle[h] EXCEPT !.loaded = TRUE, !.buffer = new,
                                        !.size = Greater(handle[h].size, offset + 1),
                                        !.dirty = TRUE, !.wrote = TRUE]
  BY <1>2, <1>4
<1>6. IsHandleOf(handle'[h])
  <2>1. handle'[h] \in [open : BOOLEAN, loaded : BOOLEAN, buffer : Seq(Bit), dirty : BOOLEAN,
                        size : 0..MaxSize, wrote : BOOLEAN]
    BY <1>1, <1>2, <1>3, <1>5 DEF IsHandleOf
  <2>2. handle'[h].buffer = new /\ handle'[h].loaded = TRUE
    BY <1>2, <1>5 DEF IsHandleOf
  <2> QED BY <1>1, <2>1, <2>2 DEF IsHandleOf
<1> QED BY <1>5, <1>6 DEF HandlesInv

\* What is read of the whole file.
LEMMA ReadWhole ==
    ASSUME FileInv
    PROVE  ReadFile(file, 0, file.size) \in Seq(Bit) /\ Len(ReadFile(file, 0, file.size)) <= MaxSize
<1> DEFINE held == Held(file)
           top == Lesser(0 + file.size, Len(held))
<1>1. file.size \in Nat /\ file.size <= MaxSize /\ MaxSize \in Nat /\ IsRefs(file.refs)
  BY OpenFilesAssumption DEF FileInv, IsFile, OpenFilesAssumption
<1>2. held \in Seq(Bit) /\ Len(held) \in Nat
  BY <1>1, HeldAre, LenProperties
<1>3. ReadFile(file, 0, file.size) = SubSeq(held, 0 + 1, top)
  <2>1. ReadFile(file, 0, file.size) = Slice(held, 0, file.size)
    BY <1>1, ReadIs DEF FileInv
  <2> QED BY <2>1 DEF Slice
<1> HIDE DEF held
<1>4. top \in Nat /\ top <= Len(held) /\ top <= file.size
  BY <1>1, <1>2 DEF Lesser
<1> HIDE DEF top
<1>5. /\ SubSeq(held, 0 + 1, top) \in Seq(Bit)
      /\ Len(SubSeq(held, 0 + 1, top)) = IF 0 < top THEN top - 0 ELSE 0
  BY <1>2, <1>4, Cut
<1> QED BY <1>1, <1>3, <1>4, <1>5

-----------------------------------------------------------------------------
(***************************************************************************)
(* Every step keeps the invariant.                                         *)
(***************************************************************************)

\* A step that leaves the store alone keeps it.
LEMMA StoreStays ==
    ASSUME SP!StorageInv, UNCHANGED storeVars
    PROVE  SP!StorageInv' /\ StoreKept /\ UNCHANGED <<chunks, cache_lru>>
<1>1. StoreKept
  BY SameStore
<1> QED BY <1>1 DEF StoreKept, storeVars

\* Handles change one by one.
LEMMA HandleSet ==
    ASSUME HandlesInv, NEW h \in Handle, NEW r, IsHandleOf(r), handle' = [handle EXCEPT ![h] = r]
    PROVE  HandlesInv'
BY DEF HandlesInv

\* Handles that are closed, created or opened are handles.
LEMMA HandleKinds ==
    /\ IsHandleOf(Closed)
    /\ IsHandleOf([Closed EXCEPT !.open = TRUE, !.loaded = TRUE])
    /\ \A size \in 0..MaxSize : IsHandleOf([Closed EXCEPT !.open = TRUE, !.size = size])
<1>1. MaxSize \in Nat /\ 0 \in 0..MaxSize
  BY OpenFilesAssumption DEF OpenFilesAssumption
<1>2. PICK empty : empty = <<>>
  OBVIOUS
<1>3. empty \in Seq(Bit) /\ Len(empty) = 0
  BY <1>2
<1>4. /\ Closed \in [open : BOOLEAN, loaded : BOOLEAN, buffer : Seq(Bit), dirty : BOOLEAN,
                     size : 0..MaxSize, wrote : BOOLEAN]
      /\ Closed.buffer = empty /\ ~Closed.dirty
  BY <1>1, <1>2, <1>3 DEF Closed
<1>5. IsHandleOf(Closed)
  BY <1>1, <1>3, <1>4 DEF IsHandleOf
<1>6. ASSUME NEW r, r = [Closed EXCEPT !.open = TRUE, !.loaded = TRUE]
      PROVE  IsHandleOf(r)
  <2>1. r \in [open : BOOLEAN, loaded : BOOLEAN, buffer : Seq(Bit), dirty : BOOLEAN,
               size : 0..MaxSize, wrote : BOOLEAN]
    BY <1>4, <1>6
  <2>2. r.buffer = empty /\ ~r.dirty
    BY <1>4, <1>6
  <2> QED BY <1>1, <1>3, <2>1, <2>2 DEF IsHandleOf
<1>7. ASSUME NEW size \in 0..MaxSize, NEW r, r = [Closed EXCEPT !.open = TRUE, !.size = size]
      PROVE  IsHandleOf(r)
  <2>1. r \in [open : BOOLEAN, loaded : BOOLEAN, buffer : Seq(Bit), dirty : BOOLEAN,
               size : 0..MaxSize, wrote : BOOLEAN]
    BY <1>4, <1>7
  <2>2. r.buffer = empty /\ ~r.dirty
    BY <1>4, <1>7
  <2> QED BY <1>1, <1>3, <2>1, <2>2 DEF IsHandleOf
<1> QED BY <1>5, <1>6, <1>7, Zenon

\* The file after a change of it.
LEMMA FileChanged ==
    ASSUME SP!StorageInv, UNCHANGED storeVars, file' \in FileRecord, IsFile(file'),
           file'.by = "here" =>
               \A hash \in ChunksOf(file') \ file'.handed : chunks[hash] = "pinned"
    PROVE  FileInv' /\ WrittenStaysHere' /\ SP!StorageInv'
<1>1. FileInv'
  BY DEF FileInv
<1>2. SP!StorageInv' /\ chunks' = chunks
  BY StoreStays
<1> QED BY <1>1, <1>2 DEF WrittenStaysHere

\* The calls of the model, one lemma for each.
LEMMA CreateOpen ==
    ASSUME OpenInv, NEW h \in Handle, Create(h)
    PROVE  OpenInv'
<1>1. /\ file' = FileOf(<<>>, "here") /\ call' = Disturbed /\ UNCHANGED storeVars
      /\ handle' = [handle EXCEPT ![h] = [Closed EXCEPT !.open = TRUE, !.loaded = TRUE]]
  BY DEF Create
<1>2. FileInv /\ SP!StorageInv /\ WrittenStaysHere /\ HandlesInv /\ CallsInv
  BY DEF OpenInv
<1>3. <<>> \in Seq(Bit) /\ Len(<<>>) = 0 /\ 0 <= MaxSize
  BY OpenFilesAssumption DEF OpenFilesAssumption
<1>4. /\ file' \in FileRecord /\ IsFile(file')
      /\ \A i \in DOMAIN file'.refs : i \in DOMAIN Split(<<>>)
  BY <1>1, <1>3, FileOfIs
<1>5. DOMAIN Split(<<>>) = {}
  <2>1. PICK empty : empty = <<>>
    OBVIOUS
  <2>2. empty \in Seq(Bit) /\ Len(empty) = 0
    BY <2>1
  <2>3. PICK n \in Nat : n <= Len(empty) /\ DOMAIN Split(empty) = 1..n
    BY <2>2, SplitIs
  <2>4. n = 0
    BY <2>2, <2>3
  <2> QED BY <2>1, <2>3, <2>4
<1>6. FileInv' /\ WrittenStaysHere' /\ SP!StorageInv'
  <2>1. ChunksOf(file') = {}
    BY <1>4, <1>5 DEF ChunksOf
  <2> QED BY <1>1, <1>2, <1>4, <2>1, FileChanged
<1>7. HandlesInv'
  BY <1>1, <1>2, HandleKinds, HandleSet
<1>8. CallsInv'
  BY <1>1, <1>2, AllDisturbed
<1> QED BY <1>6, <1>7, <1>8 DEF OpenInv

\* open().
LEMMA OpenOpen ==
    ASSUME OpenInv, NEW h \in Handle, Open(h)
    PROVE  OpenInv'
<1>1. /\ UNCHANGED <<file, storeVars, call>>
      /\ handle' = [handle EXCEPT ![h] = [Closed EXCEPT !.open = TRUE, !.size = file.size]]
  BY DEF Open
<1>2. FileInv /\ SP!StorageInv /\ WrittenStaysHere /\ HandlesInv /\ CallsInv
  BY DEF OpenInv
<1>3. SP!StorageInv' /\ StoreKept /\ UNCHANGED <<chunks, cache_lru>>
  BY <1>1, <1>2, StoreStays
<1>4. FileInv' /\ WrittenStaysHere'
  BY <1>1, <1>2, <1>3, PinsStay
<1>5. file.size \in 0..MaxSize
  BY <1>2 DEF FileInv, FileRecord
<1>6. HandlesInv'
  BY <1>1, <1>2, <1>5, HandleKinds, HandleSet
<1>7. CallsInv'
  BY <1>1, <1>2, <1>3, CallsStay
<1> QED BY <1>3, <1>4, <1>6, <1>7 DEF OpenInv

\* A read that begins to fetch.
LEMMA ReadOpen ==
    ASSUME OpenInv, NEW h \in Handle, NEW r \in Ranges, Read(h, r[1], r[2])
    PROVE  OpenInv'
<1>1. /\ UNCHANGED <<file, storeVars, handle>>
      /\ call' = [call EXCEPT ![h] = Fetching("read", r[1], r[2], 0)]
  BY DEF Read
<1>2. FileInv /\ SP!StorageInv /\ WrittenStaysHere /\ HandlesInv /\ CallsInv
  BY DEF OpenInv
<1>3. SP!StorageInv' /\ StoreKept /\ UNCHANGED <<chunks, cache_lru>>
  BY <1>1, <1>2, StoreStays
<1>4. FileInv' /\ WrittenStaysHere'
  BY <1>1, <1>2, <1>3, PinsStay
<1>5. HandlesInv'
  BY <1>1, <1>2, HandlesStay
<1>6. r[1] \in Nat /\ r[2] \in Nat /\ 0 \in Bit
  BY OpenFilesAssumption DEF OpenFilesAssumption, Bit
<1>7. PICK c : c = Fetching("read", r[1], r[2], 0)
  OBVIOUS
<1>8. IsCallOf(c) /\ Covered(c)
  BY <1>2, <1>6, <1>7, FetchingIs
<1>9. call' = [call EXCEPT ![h] = c]
  BY <1>1, <1>7, Zenon
<1>10. CallsInv'
  BY <1>1, <1>2, <1>3, <1>8, <1>9, CallsSame
<1> QED BY <1>3, <1>4, <1>5, <1>10 DEF OpenInv

\* A write into the buffer, or one that begins to fetch.
LEMMA WriteOpen ==
    ASSUME OpenInv, NEW h \in Handle, NEW offset \in 0..(MaxSize - 1), NEW byte \in Typed,
           Write(h, offset, byte)
    PROVE  OpenInv'
<1>1. UNCHANGED <<file, storeVars>>
  BY DEF Write
<1>2. FileInv /\ SP!StorageInv /\ WrittenStaysHere /\ HandlesInv /\ CallsInv
  BY DEF OpenInv
<1>3. SP!StorageInv' /\ StoreKept /\ UNCHANGED <<chunks, cache_lru>>
  BY <1>1, <1>2, StoreStays
<1>4. FileInv' /\ WrittenStaysHere'
  BY <1>1, <1>2, <1>3, PinsStay
<1>5. MaxSize \in Nat /\ offset \in Nat /\ offset < MaxSize /\ byte \in Bit
  BY OpenFilesAssumption DEF OpenFilesAssumption, Bit
<1>6. HandlesInv' /\ CallsInv'
  <2>1. CASE WriteBuffer(h, handle[h].buffer, offset, byte) /\ UNCHANGED call
    <3>1. handle[h].buffer \in Seq(Bit) /\ Len(handle[h].buffer) <= MaxSize
      BY <1>2 DEF HandlesInv, IsHandleOf
    <3>2. HandlesInv'
      BY <1>2, <1>5, <2>1, <3>1, BufferIs
    <3>3. CallsInv'
      BY <1>1, <1>2, <1>3, <2>1, CallsStay
    <3> QED BY <3>2, <3>3
  <2>2. CASE /\ call' = [call EXCEPT ![h] = Fetching("write", offset, MaxSize, byte)]
             /\ UNCHANGED handle
    <3>1. PICK c : c = Fetching("write", offset, MaxSize, byte)
      OBVIOUS
    <3>2. IsCallOf(c) /\ Covered(c)
      BY <1>2, <1>5, <3>1, FetchingIs
    <3>3. call' = [call EXCEPT ![h] = c]
      BY <2>2, <3>1, Zenon
    <3>4. CallsInv'
      BY <1>1, <1>2, <1>3, <3>2, <3>3, CallsSame
    <3> QED BY <1>2, <2>2, <3>4, HandlesStay
  <2> QED BY <2>1, <2>2 DEF Write
<1> QED BY <1>3, <1>4, <1>6 DEF OpenInv

\* The hashes that are left of a list.
LEMMA RetainIs ==
    ASSUME NEW s \in Seq(Data), NEW hash
    PROVE  /\ Store!Retain(s, {hash}) \in Seq(Data)
           /\ ToSet(Store!Retain(s, {hash})) = ToSet(s) \ {hash}
<1>1. SP!ChunkAssumption /\ SP!StorageAssumption
  BY StoreAssumptions
<1>2. /\ SP!Retain(s, {hash}) \in Seq(Data)
      /\ SP!ToSet(SP!Retain(s, {hash})) = SP!ToSet(s) \ {hash}
  BY <1>1, SP!RetainKeeps, Zenon DEF SP!ChunkAssumption, SP!StorageAssumption
<1>3. \A t : SP!ToSet(t) = ToSet(t)
  BY Zenon DEF SP!ToSet, ToSet
<1> QED BY <1>2, <1>3, SameQueue, Zenon

\* What fits together fits alone.
LEMMA FitsAlone ==
    ASSUME NEW S \in SUBSET Data, NEW hash \in S, SP!TotalBytes(S) <= MaxCachedBytes
    PROVE  Len(hash) <= MaxCachedBytes
<1>1. SP!ChunkAssumption /\ SP!StorageAssumption /\ {hash} \in SUBSET S /\ hash \in Data
  BY StoreAssumptions
<1>2. SP!TotalBytes({hash}) <= SP!TotalBytes(S)
  BY <1>1, SP!BytesTake, Zenon DEF SP!ChunkAssumption, SP!StorageAssumption
<1>3. SP!TotalBytes({hash}) = [d \in Data |-> Len(d)][hash]
  BY <1>1, SP!BytesOfOne, Zenon DEF SP!ChunkAssumption, SP!StorageAssumption
<1>4. SP!TotalBytes({hash}) = Len(hash) /\ Len(hash) \in Nat
  BY <1>1, <1>3, DataIs
<1>5. SP!TotalBytes(S) \in Nat
  BY <1>1, SP!BytesFinite, Zenon DEF SP!ChunkAssumption, SP!StorageAssumption
<1> QED BY <1>2, <1>4, <1>5, OpenFilesAssumption DEF OpenFilesAssumption

\* An answer: a chunk that came is there if it fits, and one that did not come is noted.
LEMMA AnswerOpen ==
    ASSUME OpenInv, NEW h \in Handle, NEW hash \in Data, Answer(h, hash)
    PROVE  OpenInv'
<1>1. /\ UNCHANGED <<file, handle>> /\ IsFetching(h) /\ hash \in call[h].asked
  BY DEF Answer
<1>2. FileInv /\ SP!StorageInv /\ WrittenStaysHere /\ HandlesInv /\ CallsInv
  BY DEF OpenInv
<1>3. HandlesInv'
  BY <1>1, <1>2, HandlesStay
<1>4. IsFetchCall(call[h]) /\ (IsCalm(call[h]) => Covered(call[h]))
  BY <1>1, <1>2, KindOfCall DEF CallsInv
<1>5. PICK d : d = call[h]
  OBVIOUS
<1>6. CASE Keep(hash) /\ call' = [Noted({hash}) EXCEPT ![h].asked = @ \ {hash}]
  <2>1. StoreKept /\ {hash} \in SUBSET Data
    BY <1>2, <1>6, KeepKept
  <2>2. FileInv' /\ WrittenStaysHere' /\ SP!StorageInv'
    BY <1>1, <1>2, <2>1, PinsStay DEF StoreKept
  <2>3. UsesOnly({hash}) /\ (Len(hash) <= MaxCachedBytes => chunks'[hash] # "absent")
    BY <1>2, <1>6, KeepUses
  <2>4. PICK e : e = Noted({hash})[h]
    OBVIOUS
  <2>5. /\ IsFetchCall(e) /\ DOMAIN Noted({hash}) = Handle
        /\ IsCalm(e) => IsCovered(e, file', chunks', cache_lru') /\ hash \in e.seen
    BY <1>1, <1>2, <2>1, <2>3, <2>4, NotedAre
  <2>6. PICK c : c = [e EXCEPT !.asked = e.asked \ {hash}]
    OBVIOUS
  <2>7. call' = [Noted({hash}) EXCEPT ![h] = c]
    BY <1>6, <2>4, <2>5, <2>6
  <2>8. /\ c \in FetchRecord /\ c.kind = e.kind /\ c.offset = e.offset /\ c.length = e.length
        /\ c.failed = e.failed /\ c.calm = e.calm /\ c.list = e.list /\ c.seen = e.seen
        /\ c.asked = e.asked \ {hash}
    BY <2>5, <2>6 DEF IsFetchCall, FetchRecord
  <2>9. IsCallOf(c)
    BY <2>5, <2>8 DEF IsFetchCall, IsCallOf
  <2>10. ASSUME IsCalm(c) PROVE IsCovered(c, file', chunks', cache_lru')
    <3>1. IsCovered(e, file', chunks', cache_lru') /\ hash \in e.seen /\ e.seen \in SUBSET Data
      BY <2>5, <2>8, <2>10 DEF IsCalm, IsFetchCall, FetchRecord
    <3>2. SP!TotalBytes(e.seen) <= MaxCachedBytes => Len(hash) <= MaxCachedBytes
      BY <3>1, FitsAlone
    <3>3. Wanted(c, file', chunks') = Wanted(e, file', chunks')
      BY <2>8, SameWanted
    <3> QED BY <2>3, <2>8, <3>1, <3>2, <3>3 DEF IsCovered
  <2>11. CallsInv'
    BY <1>1, <1>2, <2>1, <2>3, <2>7, <2>9, <2>10, CallsNoted
  <2> QED BY <1>3, <2>2, <2>11 DEF OpenInv
<1>7. CASE /\ UNCHANGED storeVars
           /\ call' = [call EXCEPT ![h].asked = @ \ {hash}, ![h].failed = TRUE,
                                   ![h].list = Store!Retain(@, {hash})]
  <2>1. StoreKept /\ SP!StorageInv' /\ UNCHANGED <<chunks, cache_lru>>
    BY <1>2, <1>7, StoreStays
  <2>2. FileInv' /\ WrittenStaysHere'
    BY <1>1, <1>2, <2>1, PinsStay
  <2>3. IsFetchCall(d)
    BY <1>4, <1>5, Zenon
  <2>4. PICK rest : rest = Store!Retain(d.list, {hash})
    OBVIOUS
  <2>5. rest \in Seq(Data) /\ ToSet(rest) = ToSet(d.list) \ {hash}
    BY <2>3, <2>4, RetainIs DEF IsFetchCall, FetchRecord
  <2>6. PICK c : c = [d EXCEPT !.asked = d.asked \ {hash}, !.failed = TRUE, !.list = rest]
    OBVIOUS
  <2>7. call' = [call EXCEPT ![h] = c]
    <3>1. h \in DOMAIN call
      BY <1>2 DEF CallsInv
    <3>2. \A l : l = d.list => Store!Retain(l, {hash}) = rest
      BY <2>4
    <3>3. DOMAIN d = {"kind", "offset", "length", "byte", "asked", "list", "failed", "calm",
                   "seen"}
      BY <2>3 DEF IsFetchCall, FetchRecord
    <3> QED BY <1>5, <1>7, <2>6, <3>1, <3>2, <3>3
  <2>8. /\ c \in FetchRecord /\ c.kind = d.kind /\ c.offset = d.offset
        /\ c.failed /\ c.list = rest /\ c.asked = d.asked \ {hash}
    BY <2>3, <2>5, <2>6 DEF IsFetchCall, FetchRecord
  <2>9. IsFetchCall(c)
    BY <2>3, <2>5, <2>8 DEF IsFetchCall
  <2>10. IsCallOf(c) /\ (IsCalm(c) => Covered(c))
    BY <2>8, <2>9 DEF IsCallOf, IsCalm
  <2>11. CallsInv'
    BY <1>1, <1>2, <2>1, <2>7, <2>10, CallsSame
  <2> QED BY <1>3, <2>1, <2>2, <2>11 DEF OpenInv
<1> QED BY <1>6, <1>7 DEF Answer

\* A chunk that came is put into the cache once more.
LEMMA KeepChunkOpen ==
    ASSUME OpenInv, NEW h \in Handle, KeepChunk(h)
    PROVE  OpenInv'
<1>1. /\ UNCHANGED <<file, handle>> /\ IsFetching(h)
      /\ call[h].asked = {} /\ call[h].list # <<>> /\ Keep(Head(call[h].list))
      /\ call' = [Noted({Head(call[h].list)}) EXCEPT ![h].list = Tail(@)]
  BY DEF KeepChunk
<1>2. FileInv /\ SP!StorageInv /\ WrittenStaysHere /\ HandlesInv /\ CallsInv
  BY DEF OpenInv
<1>3. HandlesInv'
  BY <1>1, <1>2, HandlesStay
<1>4. IsFetchCall(call[h]) /\ (IsCalm(call[h]) => Covered(call[h]))
  BY <1>1, <1>2, KindOfCall DEF CallsInv
<1>5. PICK d : d = call[h]
  OBVIOUS
<1>6. IsFetchCall(d) /\ d.list # <<>>
  BY <1>1, <1>4, <1>5
<1>7. PICK rest : rest = Tail(d.list)
  OBVIOUS
<1>8. PICK hash : hash = Head(d.list)
  OBVIOUS
<1>9. /\ hash \in ToSet(d.list) /\ hash \in Data
      /\ rest \in Seq(Data) /\ ToSet(rest) \subseteq ToSet(d.list)
  <2>1. d.list \in Seq(Data) /\ d.list # <<>> /\ Len(d.list) \in Nat
    BY <1>6, LenProperties DEF IsFetchCall, FetchRecord
  <2>2. /\ DOMAIN d.list = 1..Len(d.list) /\ Len(d.list) # 0 /\ hash = d.list[1]
        /\ rest \in Seq(Data) /\ Len(rest) = Len(d.list) - 1
        /\ \A i \in 1..Len(rest) : rest[i] = d.list[i + 1]
        /\ DOMAIN rest = 1..Len(rest)
    BY <1>7, <1>8, <2>1, HeadTailProperties, EmptySeq, LenProperties
  <2>3. \A i \in 1..Len(d.list) : d.list[i] \in Data
    BY <2>1
  <2>4. 1 \in 1..Len(d.list) /\ \A i \in 1..Len(rest) : i + 1 \in 1..Len(d.list)
    BY <2>1, <2>2
  <2> QED BY <2>2, <2>3, <2>4 DEF ToSet
<1>10. Keep(hash) /\ {hash} \in SUBSET Data
  BY <1>1, <1>5, <1>8, <1>9
<1>11. StoreKept /\ UsesOnly({hash})
  BY <1>2, <1>9, <1>10, KeepKept, KeepUses
<1>12. FileInv' /\ WrittenStaysHere' /\ SP!StorageInv'
  BY <1>1, <1>2, <1>11, PinsStay DEF StoreKept
<1>13. PICK e : e = Noted({hash})[h]
  OBVIOUS
<1>14. /\ IsFetchCall(e) /\ DOMAIN Noted({hash}) = Handle
       /\ IsCalm(e) => IsCovered(e, file', chunks', cache_lru')
  BY <1>1, <1>2, <1>10, <1>11, <1>13, NotedAre
<1>15. e.list = d.list /\ e.asked = {}
  BY <1>1, <1>5, <1>6, <1>13 DEF Noted, IsFetchCall, FetchRecord
<1>16. PICK c : c = [e EXCEPT !.list = rest]
  OBVIOUS
<1>17. call' = [Noted({hash}) EXCEPT ![h] = c]
  <2>1. call' = [Noted({hash}) EXCEPT ![h] = [e EXCEPT !.list = Tail(e.list)]]
    BY <1>1, <1>5, <1>8, <1>13, <1>14
  <2> QED BY <1>7, <1>15, <1>16, <2>1
<1>18. /\ c \in FetchRecord /\ c.kind = e.kind /\ c.offset = e.offset /\ c.length = e.length
       /\ c.failed = e.failed /\ c.calm = e.calm /\ c.list = rest /\ c.seen = e.seen
       /\ c.asked = e.asked
  BY <1>9, <1>14, <1>16 DEF IsFetchCall, FetchRecord
<1>19. IsCallOf(c)
  BY <1>14, <1>15, <1>18 DEF IsFetchCall, IsCallOf
<1>20. ASSUME IsCalm(c) PROVE IsCovered(c, file', chunks', cache_lru')
  <2>1. IsCovered(e, file', chunks', cache_lru')
    BY <1>14, <1>18, <1>20 DEF IsCalm
  <2>2. Wanted(c, file', chunks') = Wanted(e, file', chunks')
    BY <1>18, SameWanted
  <2> QED BY <1>18, <2>1, <2>2, Zenon DEF IsCovered
<1>21. CallsInv'
  BY <1>1, <1>2, <1>10, <1>11, <1>17, <1>19, <1>20, CallsNoted
<1> QED BY <1>3, <1>12, <1>21 DEF OpenInv

\* A call that ends with an error.
LEMMA GiveUpOpen ==
    ASSUME OpenInv, NEW h \in Handle, GiveUp(h)
    PROVE  OpenInv'
<1>1. UNCHANGED <<file, storeVars, handle>> /\ call' = [call EXCEPT ![h] = NoCall]
  BY DEF GiveUp
<1>2. FileInv /\ SP!StorageInv /\ WrittenStaysHere /\ HandlesInv /\ CallsInv
  BY DEF OpenInv
<1>3. SP!StorageInv' /\ StoreKept /\ UNCHANGED <<chunks, cache_lru>>
  BY <1>1, <1>2, StoreStays
<1>4. FileInv' /\ WrittenStaysHere'
  BY <1>1, <1>2, <1>3, PinsStay
<1>5. HandlesInv'
  BY <1>1, <1>2, HandlesStay
<1>6. CallsInv'
  BY <1>1, <1>2, <1>3, KindOfCall, CallsSame
<1> QED BY <1>3, <1>4, <1>5, <1>6 DEF OpenInv

\* A read of what is in the store.
LEMMA StoredOpen ==
    ASSUME OpenInv, NEW h \in Handle, NEW offset, NEW length, ReadStored(h, offset, length)
    PROVE  FileInv' /\ SP!StorageInv' /\ WrittenStaysHere' /\ CallsInv'
<1>1. /\ cache_lru' = Touched(file, offset, length)
      /\ call' = [Noted(TouchedHashes(file, offset, length)) EXCEPT ![h] = NoCall]
      /\ UNCHANGED <<file, chunks, pinned_bytes, cached_bytes>>
  BY Zenon DEF ReadStored, TouchedHashes
<1>2. FileInv /\ SP!StorageInv /\ WrittenStaysHere /\ CallsInv
  BY DEF OpenInv
<1>3. IsRefs(file.refs)
  BY <1>2 DEF FileInv, IsFile
<1>4. StoreKept
  BY <1>1, <1>2, <1>3, TouchedKept
<1>5. FileInv' /\ WrittenStaysHere' /\ SP!StorageInv'
  BY <1>1, <1>2, <1>4, PinsStay DEF StoreKept
<1>6. TouchedHashes(file, offset, length) \in SUBSET Data
  BY DEF TouchedHashes, Store!CachedHashes
<1>7. UsesOnly(TouchedHashes(file, offset, length))
  BY <1>1, <1>2, <1>3, TouchedUses
<1>8. CallsInv'
  BY <1>1, <1>2, <1>4, <1>6, <1>7, KindOfCall, CallsNoted
<1> QED BY <1>5, <1>8

\* A read that ends.
LEMMA FinishReadOpen ==
    ASSUME OpenInv, NEW h \in Handle, FinishRead(h)
    PROVE  OpenInv'
<1>1. PICK offset, length : ReadStored(h, offset, length)
  BY DEF FinishRead
<1>2. FileInv' /\ SP!StorageInv' /\ WrittenStaysHere' /\ CallsInv'
  BY <1>1, StoredOpen
<1>3. HandlesInv'
  BY HandlesStay DEF FinishRead, OpenInv
<1> QED BY <1>2, <1>3 DEF OpenInv

\* A write that ends: its buffer is the whole file with the byte.
LEMMA FinishWriteOpen ==
    ASSUME OpenInv, NEW h \in Handle, FinishWrite(h)
    PROVE  OpenInv'
<1>1. /\ ReadStored(h, 0, file.size) /\ IsFetching(h) /\ call[h].kind = "write"
      /\ WriteBuffer(h, ReadFile(file, 0, file.size), call[h].offset, call[h].byte)
  BY DEF FinishWrite, IsFetching
<1>2. FileInv /\ HandlesInv /\ CallsInv
  BY DEF OpenInv
<1>3. PICK length : length = file.size
  OBVIOUS
<1>4. ReadStored(h, 0, length)
  BY <1>1, <1>3
<1>5. FileInv' /\ SP!StorageInv' /\ WrittenStaysHere' /\ CallsInv'
  BY <1>4, StoredOpen
<1>6. PICK buffer : buffer = ReadFile(file, 0, file.size)
  OBVIOUS
<1>7. PICK offset : offset = call[h].offset
  OBVIOUS
<1>8. PICK byte : byte = call[h].byte
  OBVIOUS
<1>9. WriteBuffer(h, buffer, offset, byte)
  BY <1>1, <1>6, <1>7, <1>8
<1>10. buffer \in Seq(Bit) /\ Len(buffer) <= MaxSize
  BY <1>2, <1>6, ReadWhole
<1>11. offset \in 0..(MaxSize - 1) /\ byte \in Bit
  <2>1. IsFetchCall(call[h])
    BY <1>1, <1>2, KindOfCall
  <2>2. MaxSize \in Nat
    BY OpenFilesAssumption DEF OpenFilesAssumption
  <2> QED BY <1>1, <1>7, <1>8, <2>1, <2>2 DEF IsFetchCall, FetchRecord
<1>12. HandlesInv'
  BY <1>2, <1>9, <1>10, <1>11, BufferIs
<1> QED BY <1>5, <1>12 DEF OpenInv

\* release(), its first half ...
LEMMA ReleaseOpen ==
    ASSUME OpenInv, NEW h \in Handle, Release(h)
    PROVE  OpenInv'
<1>1. /\ UNCHANGED <<file, storeVars>> /\ handle' = [handle EXCEPT ![h] = Closed]
      /\ call' = [call EXCEPT ![h] =
             IF handle[h].dirty THEN Closing(handle[h].buffer, handle[h].wrote) ELSE NoCall]
  BY DEF Release
<1>2. FileInv /\ SP!StorageInv /\ WrittenStaysHere /\ HandlesInv /\ CallsInv
  BY DEF OpenInv
<1>3. SP!StorageInv' /\ StoreKept /\ UNCHANGED <<chunks, cache_lru>>
  BY <1>1, <1>2, StoreStays
<1>4. FileInv' /\ WrittenStaysHere'
  BY <1>1, <1>2, <1>3, PinsStay
<1>5. HandlesInv'
  BY <1>1, <1>2, HandleKinds, HandleSet
<1>6. PICK c : c = IF handle[h].dirty THEN Closing(handle[h].buffer, handle[h].wrote) ELSE NoCall
  OBVIOUS
<1>7. call' = [call EXCEPT ![h] = c]
  BY <1>1, <1>6
<1>8. IsCallOf(c) /\ ~IsCalm(c)
  <2>1. CASE c = NoCall
    BY <2>1, KindOfCall
  <2>2. CASE c = Closing(handle[h].buffer, handle[h].wrote)
    <3>1. /\ handle[h].buffer \in Seq(Bit) /\ Len(handle[h].buffer) <= MaxSize
          /\ handle[h].wrote \in BOOLEAN
      BY <1>2 DEF HandlesInv, IsHandleOf
    <3>2. IsCloseCall(c)
      BY <2>2, <3>1 DEF Closing, IsCloseCall, CloseRecord
    <3> QED BY <3>2, KindOfCall DEF IsCallOf
  <2> QED BY <1>6, <2>1, <2>2
<1>9. CallsInv'
  BY <1>1, <1>2, <1>3, <1>7, <1>8, CallsSame
<1> QED BY <1>3, <1>4, <1>5, <1>9 DEF OpenInv

\* What is written is a batch that try_pin() can be given.
LEMMA SplitBatch ==
    ASSUME NEW data \in Seq(Bit), Len(data) <= MaxSize
    PROVE  Split(data) \in SP!SeqOf(Data, MaxSize)
<1> DEFINE n == Len(Split(data))
<1>1. /\ n \in Nat /\ n <= Len(data) /\ DOMAIN Split(data) = 1..n /\ Split(data) \in Seq(Own)
  BY SplitIs
<1>2. \A d \in Own : d \in Data
  BY OwnChunks
<1>3. Split(data) \in [1..n -> Data]
  <2>1. Split(data) \in [1..n -> Own]
    BY <1>1, LenProperties
  <2> QED BY <1>2, <2>1
<1>4. n \in 0..MaxSize
  BY <1>1, LenProperties, OpenFilesAssumption DEF OpenFilesAssumption
<1> HIDE DEF n
<1>5. Split(data) \in UNION {[1..m -> Data] : m \in 0..MaxSize}
  BY <1>3, <1>4
<1> QED BY <1>5, Zenon DEF SP!SeqOf

\* ... and its second: what it writes is pinned before the file refers to it.
LEMMA WriteBackOpen ==
    ASSUME OpenInv, NEW h \in Handle, WriteBack(h)
    PROVE  OpenInv'
<1>1. /\ UNCHANGED handle /\ call' = [Disturbed EXCEPT ![h] = NoCall] /\ call[h].kind = "close"
      /\ WriteFile(call[h].buffer) \/ UNCHANGED <<file, storeVars>>
  BY DEF WriteBack
<1>2. FileInv /\ SP!StorageInv /\ WrittenStaysHere /\ HandlesInv /\ CallsInv
  BY DEF OpenInv
<1>3. HandlesInv' /\ CallsInv'
  BY <1>1, <1>2, KindOfCall, HandlesStay, CallsDisturbed
<1>4. PICK data : data = call[h].buffer
  OBVIOUS
<1>5. data \in Seq(Bit) /\ Len(data) <= MaxSize
  BY <1>1, <1>2, <1>4, KindOfCall DEF IsCloseCall, CloseRecord
<1>6. CASE Store!TryPin(Split(data)) /\ file' = FileOf(data, "here")
  <2>1. StoreKept /\ \A x \in ToSet(Split(data)) : x \in Data /\ chunks'[x] = "pinned"
    BY <1>2, <1>5, <1>6, SplitBatch, TryPinKept
  <2>2. /\ file' \in FileRecord /\ IsFile(file')
        /\ \A i \in DOMAIN file'.refs :
               i \in DOMAIN Split(data) /\ file'.refs[i].hash = Split(data)[i]
    BY <1>5, <1>6, FileOfIs
  <2>3. \A hash \in ChunksOf(file') : chunks'[hash] = "pinned"
    BY <2>1, <2>2 DEF ToSet, ChunksOf
  <2>4. FileInv' /\ WrittenStaysHere' /\ SP!StorageInv'
    BY <2>1, <2>2, <2>3 DEF FileInv, WrittenStaysHere, StoreKept
  <2> QED BY <1>3, <2>4 DEF OpenInv
<1>7. CASE UNCHANGED <<file, storeVars>>
  <2>1. StoreKept /\ SP!StorageInv'
    BY <1>2, <1>7, StoreStays
  <2>2. FileInv' /\ WrittenStaysHere'
    BY <1>2, <1>7, <2>1, PinsStay
  <2> QED BY <1>3, <2>1, <2>2 DEF OpenInv
<1>8. WriteFile(data) => \/ Store!TryPin(Split(data)) /\ file' = FileOf(data, "here")
                         \/ UNCHANGED <<file, storeVars>>
  BY DEF WriteFile, Store!TryPinFull, Store!vars, storeVars
<1> QED BY <1>1, <1>4, <1>6, <1>7, <1>8

\* A truncation, here or elsewhere: the chunks that stay are some of those that were there.
LEMMA ResizedOpen ==
    ASSUME OpenInv, NEW size \in Sizes, file' = Resized(file, size), call' = Disturbed,
           UNCHANGED <<storeVars, handle>>
    PROVE  OpenInv'
<1>1. FileInv /\ SP!StorageInv /\ WrittenStaysHere /\ HandlesInv /\ CallsInv
  BY DEF OpenInv
<1>2. HandlesInv' /\ CallsInv'
  BY <1>1, HandlesStay, AllDisturbed
<1>3. size \in 0..MaxSize
  BY OpenFilesAssumption DEF OpenFilesAssumption
<1>4. file' \in FileRecord /\ IsFile(file')
  BY <1>1, <1>3, ResizedRecord DEF FileInv
<1>5. file'.by = file.by /\ file'.handed = file.handed /\ ChunksOf(file') \subseteq ChunksOf(file)
  <2>1. file \in FileRecord /\ IsFile(file)
    BY <1>1 DEF FileInv
  <2>2. file'.by = file.by /\ file'.handed = file.handed /\ file'.refs = Truncated(file.refs, size)
    BY <2>1 DEF Resized, FileRecord
  <2>3. PICK cut : cut = Truncated(file.refs, size)
    OBVIOUS
  <2>4. /\ IsRefs(cut) /\ Len(cut) \in 0..Len(file.refs)
        /\ \A i \in 1..Len(cut) : cut[i].hash = file.refs[i].hash
    BY <1>3, <2>1, <2>3, ResizedIs
  <2>5. DOMAIN cut = 1..Len(cut) /\ DOMAIN file.refs = 1..Len(file.refs) /\ Len(file.refs) \in Nat
    BY <2>1, <2>4, RefsAre DEF IsFile
  <2>6. \A i \in DOMAIN cut : i \in DOMAIN file.refs /\ cut[i].hash = file.refs[i].hash
    BY <2>4, <2>5
  <2> QED BY <2>2, <2>3, <2>6 DEF ChunksOf
<1>6. FileInv' /\ WrittenStaysHere' /\ SP!StorageInv'
  BY <1>1, <1>4, <1>5, FileChanged DEF WrittenStaysHere
<1> QED BY <1>2, <1>6 DEF OpenInv

\* A file that comes from elsewhere or is gone.
LEMMA ElsewhereOpen ==
    ASSUME OpenInv, UNCHANGED <<storeVars, handle>>, call' = Disturbed,
           file' \in FileRecord, IsFile(file'), file'.by = "elsewhere"
    PROVE  OpenInv'
<1>1. SP!StorageInv /\ HandlesInv /\ CallsInv
  BY DEF OpenInv
<1>2. HandlesInv' /\ CallsInv'
  BY <1>1, HandlesStay, AllDisturbed
<1>3. FileInv' /\ WrittenStaysHere' /\ SP!StorageInv'
  BY <1>1, FileChanged
<1> QED BY <1>2, <1>3 DEF OpenInv

\* A change on another node.
LEMMA RemoteOpen ==
    ASSUME OpenInv, RemoteChange
    PROVE  OpenInv'
<1>1. /\ call' = Disturbed /\ UNCHANGED <<storeVars, handle>>
      /\ \/ file' = Gone
         \/ \E data \in RemoteContents : file' = FileOf(data, "elsewhere")
         \/ \E size \in Sizes : file' = Resized(file, size)
  BY DEF RemoteChange
<1>2. CASE file' = Gone
  BY <1>1, <1>2, GoneIs, ElsewhereOpen
<1>3. ASSUME NEW data \in RemoteContents, file' = FileOf(data, "elsewhere")
      PROVE  OpenInv'
  <2>1. data \in Seq(Bit) /\ Len(data) <= MaxSize
    BY OpenFilesAssumption DEF OpenFilesAssumption, Bit
  <2>2. file' \in FileRecord /\ IsFile(file')
    BY <1>3, <2>1, FileOfIs
  <2>3. file'.by = "elsewhere"
    BY <1>3 DEF FileOf
  <2> QED BY <1>1, <2>2, <2>3, ElsewhereOpen
<1>4. ASSUME NEW size \in Sizes, file' = Resized(file, size)
      PROVE  OpenInv'
  BY <1>1, <1>4, ResizedOpen
<1> QED BY <1>1, <1>2, <1>3, <1>4

\* A chunk of another file: it drops no pin.
LEMMA ReadOtherOpen ==
    ASSUME OpenInv, NEW data \in Foreign, ReadOther(data)
    PROVE  OpenInv'
<1>1. Keep(data) /\ call' = Noted({data}) /\ UNCHANGED <<file, handle>>
  BY DEF ReadOther
<1>2. FileInv /\ SP!StorageInv /\ WrittenStaysHere /\ HandlesInv /\ CallsInv
  BY DEF OpenInv
<1>3. data \in Data
  BY DEF Data
<1>4. StoreKept /\ UsesOnly({data})
  BY <1>1, <1>2, <1>3, KeepKept, KeepUses
<1>5. FileInv' /\ WrittenStaysHere' /\ SP!StorageInv'
  BY <1>1, <1>2, <1>4, PinsStay DEF StoreKept
<1>6. CallsInv'
  BY <1>1, <1>2, <1>3, <1>4, AllNoted
<1> QED BY <1>1, <1>2, <1>5, <1>6, HandlesStay DEF OpenInv

\* A chunk that is handed over is the only one that is not pinned any more.
LEMMA HandOverOpen ==
    ASSUME OpenInv, NEW hash \in Reachable, HandOver(hash)
    PROVE  OpenInv'
<1>1. /\ Store!EvictPinned(hash) /\ call' = Disturbed /\ UNCHANGED handle
      /\ file' = [file EXCEPT !.handed = @ \cup ({hash} \cap ChunksOf(file))]
  BY DEF HandOver
<1>2. FileInv /\ SP!StorageInv /\ WrittenStaysHere /\ HandlesInv /\ CallsInv
  BY DEF OpenInv
<1>3. ChunksOf(file) \in SUBSET Data /\ file \in FileRecord /\ IsFile(file)
  BY <1>2, ChunksAre DEF FileInv
<1>4. hash \in Data
  BY <1>3 DEF Reachable, Data
<1>5. SP!StorageInv' /\ \A x \in Data : x # hash => chunks'[x] = chunks[x]
  BY <1>1, <1>2, <1>4, EvictKept
<1>6. /\ file'.refs = file.refs /\ file'.size = file.size /\ file'.by = file.by
      /\ file'.handed = file.handed \cup ({hash} \cap ChunksOf(file))
      /\ file' \in FileRecord
  BY <1>1, <1>3 DEF FileRecord
<1>7. FileInv' /\ ChunksOf(file') = ChunksOf(file)
  BY <1>3, <1>6 DEF FileInv, IsFile, ChunksOf
<1>8. WrittenStaysHere'
  BY <1>2, <1>3, <1>5, <1>6, <1>7 DEF WrittenStaysHere
<1> QED BY <1>1, <1>2, <1>5, <1>7, <1>8, HandlesStay, AllDisturbed DEF OpenInv

\* All that replication may pin is chunks.
LEMMA FetchableAre == FileInv => Reachable \subseteq Fetchable /\ Fetchable \subseteq Data
<1> SUFFICES ASSUME FileInv PROVE Reachable \subseteq Fetchable /\ Fetchable \subseteq Data
  OBVIOUS
<1>1. ChunksOf(file) \in SUBSET Data
  BY ChunksAre DEF FileInv
<1>2. ASSUME NEW data \in RemoteContents PROVE ChunksOf(FileOf(data, "elsewhere")) \in SUBSET Data
  <2>1. data \in Seq(Bit) /\ Len(data) <= MaxSize
    BY OpenFilesAssumption DEF OpenFilesAssumption, Bit
  <2> QED BY <2>1, FileOfIs, ChunksAre
<1> QED BY <1>1, <1>2 DEF Reachable, Fetchable, Data

\* What replication pins stays, as does what was pinned.
LEMMA PinnedOpen ==
    ASSUME OpenInv, NEW hash \in Fetchable, Promote(hash) \/ PinArrives(hash)
    PROVE  OpenInv'
<1>1. UNCHANGED <<file, handle>>
  BY DEF Promote, PinArrives
<1>2. FileInv /\ SP!StorageInv /\ WrittenStaysHere /\ HandlesInv /\ CallsInv
  BY DEF OpenInv
<1>3. hash \in Data
  BY <1>2, FetchableAre
<1>4. <<hash>> \in SP!SeqOf(Data, MaxSize)
  <2>1. <<hash>> \in [1..1 -> Data] /\ 1 \in 0..MaxSize
    BY <1>3, OpenFilesAssumption DEF OpenFilesAssumption
  <2>2. <<hash>> \in UNION {[1..m -> Data] : m \in 0..MaxSize}
    BY <2>1
  <2> QED BY <2>2, Zenon DEF SP!SeqOf
<1>5. StoreKept
  BY <1>2, <1>3, <1>4, PromoteKept, TryPinKept, KeepKept DEF Promote, PinArrives
<1>6. FileInv' /\ WrittenStaysHere' /\ SP!StorageInv'
  BY <1>1, <1>2, <1>5, PinsStay DEF StoreKept
<1>7. CallsInv'
  <2>1. CASE Keep(hash) /\ call' = Noted({hash})
    BY <1>1, <1>2, <1>3, <1>5, <2>1, KeepUses, AllNoted
  <2>2. CASE (Store!PromoteToPinned(hash) \/ Store!TryPin(<<hash>>)) /\ UNCHANGED call
    BY <1>1, <1>2, <1>3, <1>5, <2>2, PinUses, NoneNoted
  <2> QED BY <2>1, <2>2 DEF Promote, PinArrives
<1> QED BY <1>1, <1>2, <1>6, <1>7, HandlesStay DEF OpenInv

\* The invariant holds of the node that has just started, and every step keeps it.
LEMMA InitOpen == Init => OpenInv
<1> SUFFICES ASSUME Init PROVE OpenInv
  OBVIOUS
<1>1. /\ file = Gone /\ Store!Init /\ handle = [h \in Handle |-> Closed]
      /\ call = [h \in Handle |-> NoCall]
  BY DEF Init
<1>2. FileInv /\ WrittenStaysHere
  BY <1>1, GoneIs DEF FileInv, WrittenStaysHere
<1>3. SP!ChunkAssumption /\ SP!StorageAssumption /\ SP!Init
  BY <1>1, StoreAssumptions, SameInit
<1>4. SP!StorageInv
  BY <1>3, SP!InitStorage, Zenon DEF SP!ChunkAssumption, SP!StorageAssumption
<1>5. HandlesInv
  BY <1>1, HandleKinds DEF HandlesInv
<1>6. CallsInv
  BY <1>1, KindOfCall DEF CallsInv
<1> QED BY <1>2, <1>4, <1>5, <1>6 DEF OpenInv

\* All steps together.
LEMMA NextOpen == OpenInv /\ [Next]_vars => OpenInv'
<1> SUFFICES ASSUME OpenInv, [Next]_vars PROVE OpenInv'
  OBVIOUS
<1>1. ASSUME NEW h \in Handle,
             \/ Create(h) \/ Open(h) \/ Release(h) \/ WriteBack(h)
             \/ KeepChunk(h) \/ GiveUp(h) \/ FinishRead(h) \/ FinishWrite(h)
      PROVE  OpenInv'
  BY <1>1, CreateOpen, OpenOpen, ReleaseOpen, WriteBackOpen, KeepChunkOpen, GiveUpOpen,
     FinishReadOpen, FinishWriteOpen
<1>2. ASSUME NEW h \in Handle, NEW r \in Ranges, Read(h, r[1], r[2])
      PROVE  OpenInv'
  BY <1>2, ReadOpen
<1>3. ASSUME NEW h \in Handle, NEW offset \in 0..(MaxSize - 1), NEW byte \in Typed,
             Write(h, offset, byte)
      PROVE  OpenInv'
  BY <1>3, WriteOpen
<1>4. ASSUME NEW h \in Handle, NEW hash \in Data, Answer(h, hash)
      PROVE  OpenInv'
  BY <1>4, AnswerOpen
<1>5. ASSUME NEW size \in Sizes, SetSize(size)
      PROVE  OpenInv'
  BY <1>5, ResizedOpen DEF SetSize
<1>6. CASE Unlink
  BY <1>6, GoneIs, ElsewhereOpen DEF Unlink
<1>7. CASE RemoteChange
  BY <1>7, RemoteOpen
<1>8. ASSUME NEW data \in Foreign, ReadOther(data)
      PROVE  OpenInv'
  BY <1>8, ReadOtherOpen
<1>9. ASSUME \/ \E hash \in Reachable : HandOver(hash) \/ Promote(hash)
             \/ \E hash \in Fetchable : PinArrives(hash)
      PROVE  OpenInv'
  <2>1. Reachable \subseteq Fetchable
    BY FetchableAre DEF OpenInv
  <2> QED BY <1>9, <2>1, HandOverOpen, PinnedOpen
<1>10. CASE UNCHANGED vars
  <2>1. UNCHANGED <<file, storeVars, handle, call>>
    BY <1>10 DEF vars
  <2>2. FileInv /\ SP!StorageInv /\ WrittenStaysHere /\ HandlesInv /\ CallsInv
    BY DEF OpenInv
  <2>3. StoreKept /\ SP!StorageInv' /\ UNCHANGED <<chunks, cache_lru>>
    BY <2>1, <2>2, StoreStays
  <2> QED BY <2>1, <2>2, <2>3, PinsStay, HandlesStay, CallsStay DEF OpenInv
<1> QED BY <1>1, <1>2, <1>3, <1>4, <1>5, <1>6, <1>7, <1>8, <1>9, <1>10 DEF Next

\* So the invariant holds always.
LEMMA OpenInvariant == Spec => []OpenInv
BY InitOpen, NextOpen, PTL DEF Spec

-----------------------------------------------------------------------------
(***************************************************************************)
(* What the invariant says.                                                *)
(***************************************************************************)

\* The shape of the state.
LEMMA OpenTyped == OpenInv => TypeOK
<1> SUFFICES ASSUME OpenInv PROVE TypeOK
  OBVIOUS
<1>1. FileInv /\ SP!StorageInv /\ HandlesInv /\ CallsInv
  BY DEF OpenInv
<1>2. file.size \in 0..MaxSize
  BY <1>1 DEF FileInv, FileRecord
<1>3. file.refs \in Seq([hash : Data, size : 1..MaxChunk])
  <2> DEFINE S == [hash : Own, size : 1..MaxChunk]
             T == [hash : Data, size : 1..MaxChunk]
  <2>1. file.refs \in Seq(S)
    BY <1>1 DEF FileInv, FileRecord
  <2>2. \A r \in S : r \in T
    BY OwnChunks
  <2> HIDE DEF S, T
  <2>3. Len(file.refs) \in Nat /\ file.refs \in [1..Len(file.refs) -> S]
    BY <2>1, LenProperties
  <2>4. file.refs \in [1..Len(file.refs) -> T]
    BY <2>2, <2>3
  <2>5. file.refs \in Seq(T)
    BY <2>3, <2>4, IsSequence
  <2> QED BY <2>5 DEF T
<1>4. Store!TypeOK
  BY <1>1, SameType DEF SP!StorageInv
<1>5. ASSUME NEW h \in Handle
      PROVE  /\ handle[h].buffer \in Seq(Byte \cup {0}) /\ Len(handle[h].buffer) <= MaxSize
             /\ handle[h].size \in 0..MaxSize
             /\ handle[h].loaded \/ ~handle[h].dirty
             /\ call[h].kind \in {"none", "read", "write", "close"}
             /\ IsFetching(h) => call[h].asked \subseteq ToSet(call[h].list)
  <2>1. IsHandleOf(handle[h])
    BY <1>1 DEF HandlesInv
  <2>2. /\ handle[h].buffer \in Seq(Byte \cup {0}) /\ Len(handle[h].buffer) <= MaxSize
        /\ handle[h].size \in 0..MaxSize
        /\ handle[h].loaded \/ ~handle[h].dirty
    BY <2>1 DEF IsHandleOf, Bit
  <2>3. call[h].kind \in {"none", "read", "write", "close"}
    <3>1. call[h] = NoCall \/ IsFetchCall(call[h]) \/ IsCloseCall(call[h])
      BY <1>1 DEF CallsInv, IsCallOf
    <3> QED BY <3>1, KindOfCall
  <2>4. IsFetching(h) => call[h].asked \subseteq ToSet(call[h].list)
    BY <1>1, KindOfCall DEF IsFetchCall
  <2> QED BY <2>2, <2>3, <2>4
<1> QED BY <1>2, <1>3, <1>4, <1>5, Zenon DEF TypeOK

\* A calm call whose chunks have all come and that has not seen too much misses none.
LEMMA OpenFetched == OpenInv => FetchedIsThere
<1> SUFFICES ASSUME OpenInv, NEW h \in Handle, IsReady(h), ~call[h].failed, call[h].calm,
                    Store!TotalBytes(call[h].seen) <= MaxCachedBytes
             PROVE  Missing(file, IF call[h].kind = "read" THEN call[h].offset ELSE 0,
                            call[h].length) = <<>>
  BY DEF FetchedIsThere
<1> DEFINE from == From(call[h])
           missing == Missing(file, from, call[h].length)
<1>1. FileInv /\ SP!StorageInv /\ CallsInv
  BY DEF OpenInv
<1>2. IsFetchCall(call[h]) /\ IsCalm(call[h]) /\ call[h].asked = {}
  BY <1>1, KindOfCall DEF IsReady, IsCalm, IsFetching
<1>3. /\ IsCovered(call[h], file, chunks, cache_lru)
      /\ SP!TotalBytes(call[h].seen) <= MaxCachedBytes
  BY <1>1, <1>2, SameTotal DEF CallsInv, Covered
<1>4. IsRefs(file.refs)
  BY <1>1 DEF FileInv, IsFile
<1>5. from \in Nat /\ call[h].length \in Nat
  BY <1>2 DEF From, IsFetchCall, FetchRecord
<1>6. /\ missing \in Seq(Own)
      /\ \A hash : hash \in ToSet(missing) <=>
             \E i \in Needed(file, from, Lesser(from + call[h].length, file.size)) :
                 hash = file.refs[i].hash /\ ~IsStored(hash)
  BY <1>4, <1>5, MissingHas
<1> HIDE DEF from, missing
<1>7. ASSUME NEW hash \in ToSet(missing) PROVE FALSE
  <2>1. PICK i \in Needed(file, from, Lesser(from + call[h].length, file.size)) :
            hash = file.refs[i].hash /\ ~IsStored(hash)
    BY <1>6
  <2>2. hash \in Data /\ chunks[hash] = "absent"
    BY <1>4, <2>1, RefsAre DEF Needed, IsStored
  <2>3. hash \in Wanted(call[h], file, chunks)
    BY <2>1, <2>2 DEF Wanted, from
  <2> QED BY <1>2, <1>3, <2>2, <2>3 DEF IsCovered
<1>8. missing = <<>>
  <2>1. Len(missing) \in Nat /\ DOMAIN missing = 1..Len(missing)
    BY <1>6, LenProperties
  <2>2. Len(missing) = 0
    <3>1. ASSUME 1 \in 1..Len(missing) PROVE FALSE
      BY <1>7, <2>1, <3>1 DEF ToSet
    <3> QED BY <2>1, <3>1
  <2> QED BY <1>6, <2>2, EmptySeq
<1> QED BY <1>8 DEF missing, from, From

\* Files, handles and calls keep their shape: no buffer or file outgrows the bound, and a call waits
\* only for hashes that it has listed (fuse/mod.rs, fuse/open_file.rs).
THEOREM OpenFilesAreTyped == Spec => []TypeOK
BY OpenInvariant, OpenTyped, PTL

\* read_file() returns the beginning of what the range holds, with zeros exactly for the bytes whose
\* chunk is not in the store, after any sequence of writes, truncations and changes elsewhere; only
\* of a file that truncation has made larger it may return less than the range, and then it ends
\* where the chunks end (filesystem/mod.rs).
THEOREM ReadsAreExact == Spec => []ReadExact
<1>1. OpenInv => ReadExact
  BY FileReads DEF OpenInv
<1> QED BY <1>1, OpenInvariant, PTL

\* missing_chunk_hashes_for() names exactly the chunks that a read of the range would replace by
\* zeros (filesystem/mod.rs).
THEOREM MissingAreExact == Spec => []MissingExact
<1>1. OpenInv => MissingExact
  BY FileMisses DEF OpenInv
<1> QED BY <1>1, OpenInvariant, PTL

\* truncate_file() keeps what is before the new end, and what was cut off does not come back when
\* the file grows again (chunk.rs, filesystem/mod.rs).
THEOREM TruncationsAreExact == Spec => []TruncateExact
<1>1. OpenInv => TruncateExact
  BY FileTruncates DEF OpenInv
<1> QED BY <1>1, OpenInvariant, PTL

\* What was written on this node and closed is pinned here until somebody else changes the file,
\* but for the chunks that replication has handed over: neither the cache nor another pin drops any
\* part of it (write_file, try_pin, promote_to_pinned, evict_confirmed).
THEOREM WrittenStays == Spec => []WrittenStaysHere
<1>1. OpenInv => WrittenStaysHere
  BY DEF OpenInv
<1> QED BY <1>1, OpenInvariant, PTL

\* A read or write finds in the store all that it needs, in whatever order the answers came and
\* whatever other calls did with the cache meanwhile, if the file and its pins stay as they are and
\* what has been used since fits into the cache together with it (fetch_missing in fuse/mod.rs,
\* cache_chunk and get in filesystem/storage.rs).
THEOREM FetchedStays == Spec => []FetchedIsThere
BY OpenInvariant, OpenFetched, PTL

-----------------------------------------------------------------------------
(***************************************************************************)
(* Only a handle that was written through changes the file when it is      *)
(* closed.                                                                 *)
(***************************************************************************)

\* A handle is dirty only if something was written through it.
IsMarked(r) == {"dirty", "wrote"} \subseteq DOMAIN r /\ (r.dirty => r.wrote)

\* A read or a write that waits for chunks.
IsWaiting(c) == "kind" \in DOMAIN c /\ c.kind \in {"read", "write"}

\* A release is only under way for a handle that was written through.
IsRightful(c) == c.kind = "none" \/ IsWaiting(c) \/ (c.kind = "close" /\ c.wrote)

\* The inductive invariant.
WrittenInv ==
    /\ DOMAIN handle = Handle /\ \A h \in Handle : IsMarked(handle[h])
    /\ DOMAIN call = Handle /\ \A h \in Handle : IsRightful(call[h])

\* A call that begins waits for chunks.
LEMMA FetchingWaits ==
    ASSUME NEW kind \in {"read", "write"}, NEW offset, NEW length, NEW byte
    PROVE  IsWaiting(Fetching(kind, offset, length, byte))
BY DEF IsWaiting, Fetching

\* A handle that nobody has is closed and clean.
LEMMA ClosedIsMarked ==
    /\ IsMarked(Closed)
    /\ ~Closed.dirty
    /\ \A x : IsMarked([Closed EXCEPT !.open = TRUE, !.loaded = TRUE])
              /\ IsMarked([Closed EXCEPT !.open = TRUE, !.size = x])
BY DEF IsMarked, Closed

\* Calls that are in the same releases as the calls there are, and wait as they do.
SameReleases(calls) ==
    /\ DOMAIN calls = Handle
    /\ \A h \in Handle : /\ IsRightful(calls[h])
                         /\ IsWaiting(call[h]) => IsWaiting(calls[h])
                         /\ call[h].kind = "close" => calls[h] = call[h]

\* What has changed under the calls that wait does not end or start a call, nor does what has
\* been used.
LEMMA ReleasesLast ==
    ASSUME WrittenInv
    PROVE  /\ SameReleases(call) /\ SameReleases(Disturbed)
           /\ \A hashes : SameReleases(Noted(hashes))
<1>1. DOMAIN call = Handle /\ \A h \in Handle : IsRightful(call[h])
  BY DEF WrittenInv
<1>2. SameReleases(call)
  BY <1>1 DEF SameReleases
<1>3. ASSUME NEW h \in Handle, IsFetching(h)
      PROVE  IsWaiting(call[h]) /\ call[h].kind # "close"
  BY <1>1, <1>3 DEF IsFetching, IsRightful
<1>4. SameReleases(Disturbed)
  <2>1. DOMAIN Disturbed = Handle
    BY DEF Disturbed
  <2>2. ASSUME NEW h \in Handle
        PROVE  /\ IsRightful(Disturbed[h])
               /\ IsWaiting(call[h]) => IsWaiting(Disturbed[h])
               /\ call[h].kind = "close" => Disturbed[h] = call[h]
    <3>1. CASE IsFetching(h)
      <4>1. Disturbed[h] = [call[h] EXCEPT !.calm = FALSE, !.seen = {}]
        BY <3>1 DEF Disturbed
      <4>2. IsWaiting(Disturbed[h])
        BY <1>3, <3>1, <4>1 DEF IsWaiting
      <4> QED BY <1>3, <3>1, <4>2 DEF IsRightful
    <3>2. CASE ~IsFetching(h)
      BY <1>1, <3>2 DEF Disturbed
    <3> QED BY <3>1, <3>2
  <2> QED BY <2>1, <2>2 DEF SameReleases
<1>5. ASSUME NEW hashes PROVE SameReleases(Noted(hashes))
  <2>1. DOMAIN Noted(hashes) = Handle
    BY DEF Noted
  <2>2. ASSUME NEW h \in Handle
        PROVE  /\ IsRightful(Noted(hashes)[h])
               /\ IsWaiting(call[h]) => IsWaiting(Noted(hashes)[h])
               /\ call[h].kind = "close" => Noted(hashes)[h] = call[h]
    <3>1. CASE IsFetching(h) /\ call[h].calm
      <4>1. Noted(hashes)[h] = [call[h] EXCEPT !.seen = @ \cup hashes]
        BY <3>1 DEF Noted
      <4>2. IsWaiting(Noted(hashes)[h])
        BY <1>3, <3>1, <4>1 DEF IsWaiting
      <4> QED BY <1>3, <3>1, <4>2 DEF IsRightful
    <3>2. CASE ~(IsFetching(h) /\ call[h].calm)
      BY <1>1, <3>2 DEF Noted
    <3> QED BY <3>1, <3>2
  <2> QED BY <2>1, <2>2 DEF SameReleases
<1> QED BY <1>2, <1>4, <1>5

\* OnlyWritersChange for one step.
ChangedByWriter ==
    \A h \in Handle :
        (call[h].kind = "close" /\ call'[h].kind = "none" /\ file' # file)
        => call[h].wrote /\ file.there

\* A step that puts h into call c and leaves the others as calls has them.
CallsAfter(calls, h, c) == SameReleases(calls) /\ call' = [calls EXCEPT ![h] = c]

\* The other calls keep their shape, and a release that is under way stays so.
LEMMA CallsKept ==
    ASSUME NEW calls, NEW h \in Handle, NEW c, IsRightful(c), CallsAfter(calls, h, c)
    PROVE  /\ DOMAIN call' = Handle
           /\ \A g \in Handle : /\ IsRightful(call'[g])
                                /\ g # h /\ call[g].kind = "close" => call'[g].kind = "close"
           /\ call'[h] = c
BY DEF CallsAfter, SameReleases

\* OpenFileManager::write() leaves the handles well-formed: it marks what it writes to.
LEMMA BufferWritten ==
    ASSUME WrittenInv, NEW h \in Handle, NEW buffer, NEW offset, NEW byte,
           WriteBuffer(h, buffer, offset, byte)
    PROVE  DOMAIN handle' = Handle /\ \A g \in Handle : IsMarked(handle'[g])
BY DEF WrittenInv, IsMarked, WriteBuffer

\* A step in which no call begins or ends.
LEMMA OtherStep ==
    ASSUME WrittenInv, SameReleases(call'),
           DOMAIN handle' = Handle /\ \A g \in Handle : IsMarked(handle'[g])
    PROVE  WrittenInv' /\ ChangedByWriter
BY DEF WrittenInv, ChangedByWriter, SameReleases

\* A step that leaves the file alone and puts h into call c.
LEMMA CallStep ==
    ASSUME WrittenInv, NEW calls, NEW h \in Handle, NEW c, IsRightful(c), CallsAfter(calls, h, c),
           file' = file, DOMAIN handle' = Handle /\ \A g \in Handle : IsMarked(handle'[g])
    PROVE  WrittenInv' /\ ChangedByWriter
BY CallsKept DEF WrittenInv, ChangedByWriter

\* A handle that is opened is clean.
LEMMA OpeningStep ==
    ASSUME WrittenInv, NEW h \in Handle, Create(h) \/ Open(h)
    PROVE  WrittenInv' /\ ChangedByWriter
<1>1. CASE Create(h)
  <2>1. DOMAIN handle' = Handle /\ \A g \in Handle : IsMarked(handle'[g])
    BY <1>1, ClosedIsMarked DEF Create, WrittenInv
  <2>2. SameReleases(call')
    BY <1>1, ReleasesLast DEF Create
  <2> QED BY <2>1, <2>2, OtherStep
<1>2. CASE Open(h)
  <2>1. DOMAIN handle' = Handle /\ \A g \in Handle : IsMarked(handle'[g])
    BY <1>2, ClosedIsMarked DEF Open, WrittenInv
  <2>2. call' = call /\ file' = file
    BY <1>2 DEF Open
  <2> QED BY <2>1, <2>2 DEF WrittenInv, ChangedByWriter
<1> QED BY <1>1, <1>2

\* A read that starts leaves the file alone.
LEMMA ReadStep ==
    ASSUME WrittenInv, NEW h \in Handle, NEW offset, NEW length, Read(h, offset, length)
    PROVE  WrittenInv' /\ ChangedByWriter
<1>1. /\ CallsAfter(call, h, Fetching("read", offset, length, 0))
      /\ UNCHANGED <<file, handle>>
  BY ReleasesLast DEF Read, CallsAfter
<1>2. IsRightful(Fetching("read", offset, length, 0))
  BY FetchingWaits DEF IsRightful
<1>3. DOMAIN handle' = Handle /\ \A g \in Handle : IsMarked(handle'[g])
  BY <1>1 DEF WrittenInv
<1> QED BY <1>1, <1>2, <1>3, CallStep

\* A write leaves the file alone and marks the handle, or starts to fetch.
LEMMA WriteStep ==
    ASSUME WrittenInv, NEW h \in Handle, NEW offset, NEW byte, Write(h, offset, byte)
    PROVE  WrittenInv' /\ ChangedByWriter
<1>1. CASE WriteBuffer(h, handle[h].buffer, offset, byte) /\ call' = call
  <2>1. DOMAIN handle' = Handle /\ \A g \in Handle : IsMarked(handle'[g])
    BY <1>1, BufferWritten
  <2> QED BY <1>1, <2>1 DEF Write, WrittenInv, ChangedByWriter
<1>2. CASE call' = [call EXCEPT ![h] = Fetching("write", offset, MaxSize, byte)]
           /\ handle' = handle
  <2>1. CallsAfter(call, h, Fetching("write", offset, MaxSize, byte))
    BY <1>2, ReleasesLast DEF CallsAfter
  <2>2. IsRightful(Fetching("write", offset, MaxSize, byte))
    BY FetchingWaits DEF IsRightful
  <2>3. DOMAIN handle' = Handle /\ \A g \in Handle : IsMarked(handle'[g])
    BY <1>2 DEF WrittenInv
  <2>4. file' = file
    BY DEF Write
  <2> QED BY <2>1, <2>2, <2>3, <2>4, CallStep
<1> QED BY <1>1, <1>2 DEF Write

\* An answer of the fetcher leaves the file alone.
LEMMA AnswerStep ==
    ASSUME WrittenInv, NEW h \in Handle, NEW hash, Answer(h, hash)
    PROVE  WrittenInv' /\ ChangedByWriter
<1>1. IsWaiting(call[h]) /\ DOMAIN call = Handle
  BY DEF WrittenInv, IsRightful, Answer, IsFetching
<1>2. DOMAIN handle' = Handle /\ \A g \in Handle : IsMarked(handle'[g])
  BY DEF Answer, WrittenInv
<1>3. file' = file
  BY DEF Answer
<1>4. CASE call' = [Noted({hash}) EXCEPT ![h].asked = @ \ {hash}]
  <2> DEFINE c == [Noted({hash})[h] EXCEPT !.asked = @ \ {hash}]
  <2>1. SameReleases(Noted({hash})) /\ IsWaiting(Noted({hash})[h])
    BY <1>1, ReleasesLast DEF SameReleases
  <2>2. IsWaiting(c)
    BY <2>1 DEF IsWaiting
  <2>3. CallsAfter(Noted({hash}), h, c)
    BY <1>4, <2>1 DEF CallsAfter
  <2> HIDE DEF c
  <2> QED BY <1>2, <1>3, <2>2, <2>3, CallStep DEF IsRightful
<1>5. CASE call' = [call EXCEPT ![h].asked = @ \ {hash}, ![h].failed = TRUE,
                                ![h].list = Store!Retain(@, {hash})]
  <2>1. /\ DOMAIN call' = Handle
        /\ \A g \in Handle : g # h => call'[g] = call[g]
        /\ IsWaiting(call'[h])
    BY <1>1, <1>5 DEF IsWaiting
  <2> QED BY <1>2, <1>3, <2>1 DEF WrittenInv, ChangedByWriter, IsRightful
<1> QED BY <1>4, <1>5 DEF Answer

\* Caching a chunk leaves the file alone.
LEMMA KeepChunkStep ==
    ASSUME WrittenInv, NEW h \in Handle, KeepChunk(h)
    PROVE  WrittenInv' /\ ChangedByWriter
<1> DEFINE calls == Noted({Head(call[h].list)})
           c == [calls[h] EXCEPT !.list = Tail(@)]
<1>1. IsWaiting(call[h])
  BY DEF WrittenInv, IsRightful, KeepChunk, IsFetching
<1>2. SameReleases(calls) /\ IsWaiting(calls[h])
  BY <1>1, ReleasesLast DEF SameReleases
<1>3. /\ IsWaiting(c)
      /\ CallsAfter(calls, h, c) /\ UNCHANGED <<file, handle>>
  <2>1. call' = [calls EXCEPT ![h] = c] /\ UNCHANGED <<file, handle>>
    BY DEF KeepChunk
  <2> HIDE DEF calls
  <2> QED BY <1>2, <2>1 DEF IsWaiting, CallsAfter
<1>4. DOMAIN handle' = Handle /\ \A g \in Handle : IsMarked(handle'[g])
  BY <1>3 DEF WrittenInv
<1> HIDE DEF calls, c
<1> QED BY <1>3, <1>4, CallStep DEF IsRightful

\* A read or a write that ends leaves the file alone.
LEMMA EndStep ==
    ASSUME WrittenInv, NEW h \in Handle, GiveUp(h) \/ FinishRead(h) \/ FinishWrite(h)
    PROVE  WrittenInv' /\ ChangedByWriter
<1>1. IsRightful(NoCall)
  BY DEF IsRightful, NoCall
<1>2. PICK calls : CallsAfter(calls, h, NoCall)
  <2>1. CASE GiveUp(h)
    BY <2>1, ReleasesLast DEF GiveUp, CallsAfter
  <2>2. ASSUME NEW offset, NEW length, ReadStored(h, offset, length)
        PROVE  \E calls : CallsAfter(calls, h, NoCall)
    <3>1. PICK touched : call' = [Noted(touched) EXCEPT ![h] = NoCall]
      BY <2>2 DEF ReadStored
    <3> QED BY <3>1, ReleasesLast DEF CallsAfter
  <2> QED BY <2>1, <2>2 DEF FinishRead, FinishWrite
<1>3. DOMAIN handle' = Handle /\ \A g \in Handle : IsMarked(handle'[g])
  <2>1. CASE GiveUp(h) \/ FinishRead(h)
    BY <2>1 DEF GiveUp, FinishRead, WrittenInv
  <2>2. CASE FinishWrite(h)
    BY <2>2, BufferWritten DEF FinishWrite
  <2> QED BY <2>1, <2>2
<1>4. file' = file
  BY DEF GiveUp, FinishRead, FinishWrite, ReadStored
<1> QED BY <1>1, <1>2, <1>3, <1>4, CallStep

\* Only a dirty handle, one that was written through, has a buffer to write back.
LEMMA ReleaseStep ==
    ASSUME WrittenInv, NEW h \in Handle, Release(h)
    PROVE  WrittenInv' /\ ChangedByWriter
<1> DEFINE c == IF handle[h].dirty THEN Closing(handle[h].buffer, handle[h].wrote) ELSE NoCall
<1>1. IsRightful(c)
  BY DEF WrittenInv, IsMarked, IsRightful, Closing, NoCall
<1>2. CallsAfter(call, h, c) /\ file' = file
  BY ReleasesLast DEF Release, CallsAfter
<1>3. DOMAIN handle' = Handle /\ \A g \in Handle : IsMarked(handle'[g])
  BY ClosedIsMarked DEF Release, WrittenInv
<1> HIDE DEF c
<1> QED BY <1>1, <1>2, <1>3, CallStep

\* The end of a release changes the file only for a handle that was written through.
LEMMA WriteBackStep ==
    ASSUME WrittenInv, NEW h \in Handle, WriteBack(h)
    PROVE  WrittenInv' /\ ChangedByWriter
<1>1. IsRightful(NoCall) /\ NoCall.kind = "none"
  BY DEF IsRightful, NoCall
<1>2. CallsAfter(Disturbed, h, NoCall) /\ handle' = handle
  BY ReleasesLast DEF WriteBack, CallsAfter
<1>3. /\ DOMAIN call' = Handle
      /\ \A g \in Handle : /\ IsRightful(call'[g])
                           /\ g # h /\ call[g].kind = "close" => call'[g].kind = "close"
  BY <1>1, <1>2, CallsKept
<1>4. call[h].wrote
  BY DEF WrittenInv, IsRightful, IsWaiting, WriteBack
<1>5. file' # file => file.there
  BY DEF WriteBack
<1> QED BY <1>2, <1>3, <1>4, <1>5 DEF WrittenInv, ChangedByWriter

\* Truncations, removals, other nodes, other files and replication end no release.
LEMMA ElsewhereStep ==
    ASSUME WrittenInv,
           \/ \E size \in Sizes : SetSize(size)
           \/ Unlink \/ RemoteChange
           \/ \E data \in Foreign : ReadOther(data)
           \/ \E hash \in Reachable : HandOver(hash) \/ Promote(hash)
           \/ \E hash \in Fetchable : PinArrives(hash)
    PROVE  WrittenInv' /\ ChangedByWriter
<1>1. /\ \/ call' \in {call, Disturbed}
         \/ \E hashes : call' = Noted(hashes)
      /\ handle' = handle
  <2>1. CASE \E data \in Foreign : ReadOther(data)
    BY <2>1 DEF ReadOther
  <2>2. CASE \E hash : HandOver(hash) \/ Promote(hash) \/ PinArrives(hash)
    <3>1. PICK hash : HandOver(hash) \/ Promote(hash) \/ PinArrives(hash)
      BY <2>2
    <3> QED BY <3>1 DEF HandOver, Promote, PinArrives
  <2> QED BY <2>1, <2>2 DEF SetSize, Unlink, RemoteChange
<1>2. SameReleases(call')
  BY <1>1, ReleasesLast
<1> QED BY <1>1, <1>2, OtherStep DEF WrittenInv

\* Every step keeps the invariant, and closes as it should.
LEMMA NextWritten == WrittenInv /\ [Next]_vars => WrittenInv' /\ ChangedByWriter
<1> SUFFICES ASSUME WrittenInv, [Next]_vars PROVE WrittenInv' /\ ChangedByWriter
  OBVIOUS
<1>1. CASE Next
  BY <1>1, OpeningStep, ReadStep, WriteStep, AnswerStep, KeepChunkStep, EndStep, ReleaseStep,
     WriteBackStep, ElsewhereStep DEF Next
<1>2. CASE UNCHANGED vars
  BY <1>2 DEF vars, WrittenInv, ChangedByWriter
<1> QED BY <1>1, <1>2

\* There are no handles at first.
LEMMA InitWritten == Init => WrittenInv
<1> SUFFICES ASSUME Init PROVE WrittenInv
  OBVIOUS
<1>1. handle = [h \in Handle |-> Closed] /\ call = [h \in Handle |-> NoCall]
  BY DEF Init
<1>2. NoCall.kind = "none"
  BY DEF NoCall
<1> QED BY <1>1, <1>2, ClosedIsMarked DEF WrittenInv, IsRightful

\* Closing a handle through which nothing was written leaves the file alone, and closing
\* any handle leaves a removed file removed (release in fuse/mod.rs).
THEOREM OnlyWritersChangeFiles == Spec => OnlyWritersChange
<1>1. WrittenInv /\ [Next]_vars => [ChangedByWriter]_vars
  BY NextWritten
<1> QED BY <1>1, InitWritten, NextWritten, PTL DEF Spec, OnlyWritersChange, ChangedByWriter
=============================================================================
