--------------------------- MODULE ChunkStorage ---------------------------
(***************************************************************************)
(* ChunkStorage of src/filesystem/storage.rs: one map from hash to entry,  *)
(* a queue of cached hashes in order of last use, and two byte counters    *)
(* kept by hand next to them.                                              *)
(*                                                                         *)
(* Every &mut operation runs under the FileSystem write lock and is one    *)
(* action.  get() takes &self and may run on several reader threads, but   *)
(* each holds the cache_lru mutex for the whole retain-then-push and no    *)
(* writer runs meanwhile, so it is one action too.                         *)
(***************************************************************************)
EXTENDS ChunkBytes, Integers, Sequences, SequencesExt

CONSTANTS
    MaxPinnedBytes,
    MaxCachedBytes,
    MaxBatch        \* model bound: chunks handed to one try_pin call

ASSUME StorageAssumption ==
    /\ MaxPinnedBytes \in Nat
    /\ MaxCachedBytes \in Nat
    /\ MaxBatch \in Nat

VARIABLES
    chunks,         \* chunks[h]: "absent", "pinned" or "cached"
    cache_lru,      \* cached hashes, least recently used first
    pinned_bytes,
    cached_bytes

vars == <<chunks, cache_lru, pinned_bytes, cached_bytes>>

Present == {h \in Hash : chunks[h] # "absent"}
PinnedHashes == {h \in Hash : chunks[h] = "pinned"}
CachedHashes == {h \in Hash : chunks[h] = "cached"}

Init ==
    /\ chunks = [h \in Hash |-> "absent"]
    /\ cache_lru = <<>>
    /\ pinned_bytes = 0
    /\ cached_bytes = 0

(***************************************************************************)
(* Definitions called mutants, here and below, are plausible mistakes: no  *)
(* definition uses them, and each would break a property if it took the    *)
(* place of the next one.                                                  *)
(***************************************************************************)

\* VecDeque::retain with a test that drops the hashes in gone: the positions that
\* stay move up, in order.  The mutant leaves the queue alone.
RetainAll(queue, gone) == queue

Rank(i, positions) == Cardinality({k \in positions : k <= i})

Retain(queue, gone) ==
    LET kept == {i \in DOMAIN queue : queue[i] \notin gone}
    IN  [n \in 1..Cardinality(kept) |-> queue[CHOOSE i \in kept : Rank(i, kept) = n]]

\* The bytes try_pin counts for a batch: what is not pinned yet, once per hash.
\* The mutant counts what is pinned already.
RequiredAgain(batch) == TotalBytes(ToSet(batch))
RequiredBytes(batch) == TotalBytes(ToSet(batch) \ PinnedHashes)

TryPin(batch) ==
    LET promoted == ToSet(batch) \cap CachedHashes IN
    /\ pinned_bytes + RequiredBytes(batch) <= MaxPinnedBytes
    /\ chunks' = [h \in Hash |-> IF h \in ToSet(batch) THEN "pinned" ELSE chunks[h]]
    /\ pinned_bytes' = pinned_bytes + RequiredBytes(batch)
    /\ cached_bytes' = cached_bytes - TotalBytes(promoted)
    /\ cache_lru' = Retain(cache_lru, promoted)

\* StorageFull: nothing of the batch is kept.
TryPinFull(batch) ==
    /\ pinned_bytes + RequiredBytes(batch) > MaxPinnedBytes
    /\ UNCHANGED vars

(***************************************************************************)
(* cache() pops the front of the queue until the new chunk fits or the     *)
(* queue is empty.  A popped hash that is no longer in the map is skipped; *)
(* one that is there is removed, whatever it is.                           *)
(***************************************************************************)
Popped(n) == ToSet(SubSeq(cache_lru, 1, n)) \cap Present

\* The mutant makes room although the chunk fits exactly.
FitsLoosely(n, h) == cached_bytes - TotalBytes(Popped(n)) + Size[h] < MaxCachedBytes
FitsAfter(n, h) == cached_bytes - TotalBytes(Popped(n)) + Size[h] <= MaxCachedBytes

PopCount(h) ==
    CHOOSE n \in 0..Len(cache_lru) :
        /\ FitsAfter(n, h) \/ n = Len(cache_lru)
        /\ \A m \in 0..(n-1) : ~FitsAfter(m, h)

Cache(h) ==
    LET n == PopCount(h)
        inserted == IF FitsAfter(n, h) THEN {h} ELSE {}
        rest == SubSeq(cache_lru, n + 1, Len(cache_lru))
    IN
    /\ chunks[h] = "absent"
    /\ Size[h] <= MaxCachedBytes
    /\ chunks' = [x \in Hash |-> IF x \in inserted THEN "cached"
                                 ELSE IF x \in Popped(n) THEN "absent"
                                 ELSE chunks[x]]
    /\ cache_lru' = IF inserted = {} THEN rest ELSE Append(rest, h)
    /\ cached_bytes' = cached_bytes - TotalBytes(Popped(n)) + TotalBytes(inserted)
    /\ UNCHANGED pinned_bytes

\* get(): reading a cached chunk makes it the most recently used one.  The
\* mutant leaves it where it is.
GetInPlace(h) ==
    /\ chunks[h] = "cached"
    /\ UNCHANGED vars

Get(h) ==
    /\ chunks[h] = "cached"
    /\ cache_lru' = Append(Retain(cache_lru, {h}), h)
    /\ UNCHANGED <<chunks, pinned_bytes, cached_bytes>>

PromoteToPinned(h) ==
    /\ chunks[h] = "cached"
    /\ pinned_bytes + Size[h] <= MaxPinnedBytes
    /\ chunks' = [chunks EXCEPT ![h] = "pinned"]
    /\ pinned_bytes' = pinned_bytes + Size[h]
    /\ cached_bytes' = cached_bytes - Size[h]
    /\ cache_lru' = Retain(cache_lru, {h})

\* evict(), first branch; the mutant takes the bytes from the other counter.
EvictFromCached(h) ==
    /\ chunks[h] = "pinned"
    /\ chunks' = [chunks EXCEPT ![h] = "absent"]
    /\ cached_bytes' = cached_bytes - Size[h]
    /\ UNCHANGED <<pinned_bytes, cache_lru>>

EvictPinned(h) ==
    /\ chunks[h] = "pinned"
    /\ chunks' = [chunks EXCEPT ![h] = "absent"]
    /\ pinned_bytes' = pinned_bytes - Size[h]
    /\ UNCHANGED <<cached_bytes, cache_lru>>

EvictCached(h) ==
    /\ chunks[h] = "cached"
    /\ chunks' = [chunks EXCEPT ![h] = "absent"]
    /\ cached_bytes' = cached_bytes - Size[h]
    /\ cache_lru' = Retain(cache_lru, {h})
    /\ UNCHANGED pinned_bytes

Evict(h) == EvictPinned(h) \/ EvictCached(h)

Next ==
    \/ \E batch \in SeqOf(Hash, MaxBatch) : TryPin(batch) \/ TryPinFull(batch)
    \/ \E h \in Hash : Cache(h) \/ Get(h) \/ PromoteToPinned(h) \/ Evict(h)

Spec == Init /\ [][Next]_vars

-----------------------------------------------------------------------------
(***************************************************************************)
(* Properties.                                                             *)
(***************************************************************************)

\* Shape of the state.  The counters are unsigned in the code (usize): a value
\* outside Nat would be an underflow of one of the "-=" lines.
TypeOK ==
    /\ chunks \in [Hash -> {"absent", "pinned", "cached"}]
    /\ cache_lru \in Seq(Hash)
    /\ pinned_bytes \in Nat
    /\ cached_bytes \in Nat

\* The hand-kept counters equal the bytes actually held, after any sequence of
\* pin, cache, promote and evict; free_bytes() can therefore never underflow.
Accounting ==
    /\ pinned_bytes = TotalBytes(PinnedHashes)
    /\ cached_bytes = TotalBytes(CachedHashes)
    /\ pinned_bytes <= MaxPinnedBytes
    /\ cached_bytes <= MaxCachedBytes

\* The queue and the map agree: the queue lists every cached hash exactly once
\* and no pinned one.  If it missed one, cache() could not make room; if it
\* kept a pinned one, cache() would drop a pinned chunk.
LruExact ==
    /\ ToSet(cache_lru) = CachedHashes
    /\ Len(cache_lru) = Cardinality(CachedHashes)

\* ChunkStorage keeps the promise of ChunkStore: its pinned and cached hashes
\* change only in the ways ChunkStore allows.
Store == INSTANCE ChunkStore WITH pinned <- PinnedHashes, cached <- CachedHashes

ImplementsChunkStore == Store!StoreSpec

===========================================================================
