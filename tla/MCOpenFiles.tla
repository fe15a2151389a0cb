---------------------------- MODULE MCOpenFiles ----------------------------
(***************************************************************************)
(* OpenFiles for one or two handles.                                       *)
(***************************************************************************)
EXTENDS OpenFiles, TLC

CONSTANTS h1, h2

\* A chunk of another file, and what others write into this one: a whole chunk
\* and the beginning of a second.
OtherFile == {<<3>>}
ThreeBytes == {<<2, 1, 2>>}

Interchangeable == Permutations(Handle)

WholeOrEnd == {<<0, 3>>, <<2, 1>>}
=============================================================================
