-------------------------- MODULE MCChunkFetcher --------------------------
(***************************************************************************)
(* ChunkFetcher with two peers of the same score: their bytes decide who   *)
(* is asked first when only one is asked.  A chunk of one byte is read and *)
(* pinned, one of two bytes is only pinned.                                *)
(***************************************************************************)
EXTENDS ChunkFetcher

CONSTANTS p1, p2, h1, h2, r1, r2

Sizes == [h \in Hash |-> IF h = h1 THEN 1 ELSE 2]

ByBytes == [p \in Peer |-> IF p = p1 THEN 1 ELSE 2]

Scores == [h \in Hash |-> [p \in Peer |-> 2]]
===========================================================================
