---------------------------- MODULE MCTreeSync ----------------------------
(***************************************************************************)
(* TreeSync for two or three peers.                                        *)
(***************************************************************************)
EXTENDS TreeSync

CONSTANTS p1, p2, p3

ByBytes == [p \in Peer |-> CASE p = p1 -> 1 [] p = p2 -> 2 [] OTHER -> 3]

Mesh == [p \in Peer |-> Peer \ {p}]
Strangers == [p \in Peer |-> {}]
===========================================================================
