-------------------------- MODULE MCChunkStorage --------------------------
(***************************************************************************)
(* RecentUse, and with it ChunkStorage, on a small instance.  Sizes and    *)
(* budgets are chosen so that every limit is met: an empty chunk, a chunk  *)
(* larger than the cache, pins that fill the budget exactly and pins that  *)
(* overflow it, insertions that displace one, two or no cached chunks.     *)
(***************************************************************************)
EXTENDS RecentUse

CONSTANTS h0, h1, h2, h3, h4

MCHash == {h0, h1, h2, h3, h4}

MCSize == [h \in MCHash |-> CASE h = h0 -> 0
                              [] h = h1 -> 1
                              [] h = h2 -> 1
                              [] h = h3 -> 2
                              [] h = h4 -> 4]
===========================================================================
