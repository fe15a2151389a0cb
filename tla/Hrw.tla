-------------------------------- MODULE Hrw --------------------------------
(***************************************************************************)
(* Rendezvous hashing (src/network/hrw.rs): every peer ranks the members   *)
(* it knows by a score of (hash, peer) and the first n of them hold the    *)
(* chunk.  The score is a digest, so it is an arbitrary constant here; two *)
(* peers may have the same score, and then the bytes of their ids decide.  *)
(***************************************************************************)
EXTENDS ChunkBytes

CONSTANTS
    Peer,
    Score,      \* Score[h][p]: hrw_score(h, p)
    PeerBytes   \* PeerBytes[p]: the bytes of peer p, read as a number

ASSUME HrwAssumption ==
    /\ IsFiniteSet(Peer)
    /\ Score \in [Hash -> [Peer -> Nat]]
    /\ PeerBytes \in [Peer -> Nat]
    /\ \A p, q \in Peer : PeerBytes[p] = PeerBytes[q] => p = q

\* The order sort_by puts p before q in.
Outranks(h, p, q) ==
    \/ Score[h][p] > Score[h][q]
    \/ Score[h][p] = Score[h][q] /\ PeerBytes[p] > PeerBytes[q]

\* The first n of the sorted members: those that fewer than n others precede.
TopPeers(h, members, n) ==
    {p \in members : Cardinality({q \in members : Outranks(h, q, p)}) < n}

=============================================================================
