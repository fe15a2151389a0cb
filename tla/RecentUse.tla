----------------------------- MODULE RecentUse -----------------------------
(***************************************************************************)
(* Which chunk cache() displaces: ChunkStorage with a record of the uses   *)
(* of its chunks, kept apart from the queue that it is to judge.           *)
(***************************************************************************)
EXTENDS ChunkStorage

VARIABLE since      \* since[x]: the chunks used after x was used last

Use(h) ==
    /\ Cache(h) \/ Get(h)
    /\ since' = [x \in Hash |-> IF x = h THEN {} ELSE since[x] \cup {h}]

UseInit == Init /\ since = [x \in Hash |-> {}]

UseNext ==
    \/ \E h \in Hash : Use(h)
    \/ /\ UNCHANGED since
       /\ \/ \E batch \in SeqOf(Hash, MaxBatch) : TryPin(batch) \/ TryPinFull(batch)
          \/ \E h \in Hash : PromoteToPinned(h) \/ Evict(h)

UseSpec == UseInit /\ [][UseNext]_<<vars, since>>

-----------------------------------------------------------------------------
\* cache() makes room from the least recently used end and no further than it must: a
\* cached chunk outlives the insertion of another exactly if the two fit into the cache
\* together with what has been used since.  So a reader that has just got two small
\* chunks finds both.
LeastRecentlyUsedGoes ==
    [][\A h, x \in Hash :
        chunks[h] = "absent" /\ chunks'[h] = "cached" /\ chunks[x] = "cached" =>
            (chunks'[x] = "cached" <=>
                TotalBytes({x, h} \cup (since[x] \cap CachedHashes)) <= MaxCachedBytes)]_vars

=============================================================================
