--------------------------- MODULE MCReplication ---------------------------
(***************************************************************************)
(* Replication on small clusters.  The peers' scores make p1 the first     *)
(* choice; p2 and p3 tie, and their bytes decide for p2.                   *)
(***************************************************************************)
EXTENDS Replication

CONSTANTS p1, p2, p3, h1, h2

ThreePeers == {p1, p2, p3}

ByBytes == [p \in Peer |-> CASE p = p1 -> 1 [] p = p2 -> 3 [] OTHER -> 2]

Scores == [h \in Hash |-> [p \in Peer |-> IF p = p1 THEN 9 ELSE 5]]

UnitSize == [h \in Hash |-> 1]
OneEach == [p \in Peer |-> 1]

AnyPair == Peer \X Peer

Mesh == [p \in Peer |-> Peer \ {p}]
Strangers == [p \in Peer |-> {}]
===========================================================================
