----------------------------- MODULE MCFileTree -----------------------------
(***************************************************************************)
(* FileTree for two peers.                                                 *)
(***************************************************************************)
EXTENDS FileTree, TLC

CONSTANTS p0, p1, p2, a, b, c1

Mkdir1 == [time |-> 1, actor |-> p0, node |-> <<a>>, parent |-> Root,
           meta |-> [kind |-> "dir", name |-> a, chunks |-> {}], call |-> "create", seen |-> {}]

Create2 == [time |-> 2, actor |-> p0, node |-> <<b>>, parent |-> Root,
            meta |-> [kind |-> "file", name |-> b, chunks |-> {}], call |-> "create", seen |-> {1}]

\* Somebody else, p0, has made a directory a and a file b, and everybody knows.
OneOfEach == {Mkdir1, Create2}

\* A new file system.
Nothing == {}

Interchangeable == Permutations(Peer)

=============================================================================
