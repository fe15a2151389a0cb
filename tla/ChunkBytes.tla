---------------------------- MODULE ChunkBytes ----------------------------
(***************************************************************************)
(* Chunks and the memory they take.  A chunk is identified by the SHA-256  *)
(* hash of its data (Chunk::new), so a model chunk is just its hash and    *)
(* Size gives the number of bytes of its data.                             *)
(*                                                                         *)
(* The bytes of a set of chunks are the pairs <<hash, offset>>, and their  *)
(* number is a cardinality: it is additive over disjoint sets, which is    *)
(* all that the accounting of the store relies on.                         *)
(***************************************************************************)
EXTENDS Naturals, FiniteSets

CONSTANTS
    Hash,   \* the chunk hashes of the model
    Size    \* Size[h]: length in bytes of the data whose hash is h

ASSUME ChunkAssumption ==
    /\ IsFiniteSet(Hash)
    /\ Size \in [Hash -> Nat]

BytesOf(S) == UNION {{h} \X (1..Size[h]) : h \in S}

TotalBytes(S) == Cardinality(BytesOf(S))

\* The cached sets that caching h may leave behind next to the pinned set p:
\* all of c if h fits beside it, otherwise c without some chunks that had to go.
CacheOutcomes(p, c, h, budget) ==
    IF h \in p \cup c \/ Size[h] > budget
    THEN {c}
    ELSE IF TotalBytes(c \cup {h}) <= budget
    THEN {c \cup {h}}
    ELSE {k \in {kept \cup {h} : kept \in SUBSET c} : TotalBytes(k) <= budget}

===========================================================================
