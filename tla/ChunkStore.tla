---------------------------- MODULE ChunkStore ----------------------------
(***************************************************************************)
(* What a node's chunk store promises, independent of how ChunkStorage     *)
(* keeps its books: a chunk is pinned, cached or absent; pins stay within  *)
(* their budget and go away only when they are evicted by name; the cache  *)
(* stays within its own budget and makes room only at the expense of other *)
(* cached chunks, and only when it has to.                                 *)
(***************************************************************************)
EXTENDS ChunkBytes

CONSTANTS
    MaxPinnedBytes,     \* ChunkStorage.max_pinned_bytes
    MaxCachedBytes      \* ChunkStorage.max_cached_bytes

VARIABLES
    pinned,     \* the hashes whose data is held for the cluster
    cached      \* the hashes whose data is held as a read cache

storeVars == <<pinned, cached>>

StoreTypeOK ==
    /\ pinned \subseteq Hash
    /\ cached \subseteq Hash

StoreInit ==
    /\ pinned = {}
    /\ cached = {}

(***************************************************************************)
(* Actions.                                                                *)
(***************************************************************************)
Pin(S) ==
    /\ TotalBytes(pinned \cup S) <= MaxPinnedBytes
    /\ pinned' = pinned \cup S
    /\ cached' = cached \ S

Cache(h) ==
    /\ cached' \in CacheOutcomes(pinned, cached, h, MaxCachedBytes)
    /\ UNCHANGED pinned

Evict(S) ==
    /\ pinned' = pinned \ S
    /\ cached' = cached \ S

StoreNext ==
    \/ \E S \in SUBSET Hash : Pin(S) \/ Evict(S)
    \/ \E h \in Hash : Cache(h)

StoreSpec == StoreInit /\ [][StoreNext]_storeVars

===========================================================================
