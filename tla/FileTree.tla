------------------------------ MODULE FileTree ------------------------------
(***************************************************************************)
(* The file tree that every peer builds from its log of operations, and    *)
(* the calls that users make on it: the FUSE handlers (src/fuse/mod.rs),   *)
(* FileSystem (src/filesystem/mod.rs) and NodeTree (filesystem/tree).      *)
(*                                                                         *)
(* Every operation moves a node: creating gives it its first parent,       *)
(* deleting moves it to the trash, writing moves it to the parent it has,  *)
(* with new metadata.  The id of a node is derived from the parent and the *)
(* name it is created with; here it is the path of those names.            *)
(***************************************************************************)
EXTENDS Naturals, Sequences, FiniteSets

CONSTANTS
    Peer,
    Name,       \* what users call their files
    NoName,     \* no user's name: stands for the id that is reserved for the trash
    Chunk,      \* the hashes of which files consist
    Prelude,    \* operations that all peers have when the model starts
    MaxOps,     \* model bound: operations, those of Prelude included
    MaxDepth    \* model bound: length of an id

ASSUME TreeAssumption ==
    /\ MaxOps \in Nat
    /\ MaxDepth \in Nat
    /\ NoName \notin Name

VARIABLES
    log,    \* log[p]: the operations in the log of p's tree
    tree    \* tree[p]: parent and metadata of every node p knows

vars == <<log, tree>>

Root == <<>>
Trash == <<NoName>>
Node == UNION {[1..n -> Name] : n \in 1..MaxDepth}
Parent == Node \cup {Root, Trash}

\* The chunks of a file are a set here; their order and sizes are the subject
\* of OpenFiles.  Directories and links have none.
Meta == [kind : {"dir", "file", "link"}, name : Name, chunks : SUBSET Chunk]

\* time is the place of an operation in the order of all timestamps.  The last
\* two fields are history, for the properties: the call that made it, and the
\* times of the operations its author had.
Operation == [time : 1..MaxOps, actor : Peer \cup {op.actor : op \in Prelude},
              node : Node, parent : Parent, meta : Meta,
              call : {"create", "delete", "rename", "write"}, seen : SUBSET (1..MaxOps)]

\* Prelude is what some creations leave, one after the other.
ASSUME PreludeAssumption ==
    /\ Prelude \subseteq Operation
    /\ \A op \in Prelude :
        /\ op.call = "create" /\ op.meta.chunks = {}
        /\ op.seen = {old.time : old \in {o \in Prelude : o.time < op.time}}
    /\ \A op1, op2 \in Prelude :
        (op1.time = op2.time \/ (op1.parent = op2.parent /\ op1.meta.name = op2.meta.name))
        => op1 = op2

Earlier(a, b) == a.time < b.time

Log == INSTANCE ReplicatedLog WITH Before <- Earlier

-----------------------------------------------------------------------------
(***************************************************************************)
(* The library: operations are applied in the order of their timestamps,   *)
(* and one that would put a node below itself is passed over.              *)
(***************************************************************************)
Ancestors(t, n) ==
    LET up[k \in Nat] == IF k = 0 THEN {n} ELSE {t[m].parent : m \in up[k - 1] \cap DOMAIN t}
    IN  UNION {up[k] : k \in 1..(Cardinality(DOMAIN t) + 1)}

Placed(t, op) ==
    [n \in DOMAIN t \cup {op.node} |->
        IF n = op.node THEN [parent |-> op.parent, meta |-> op.meta] ELSE t[n]]

\* The mutant moves a node wherever it is told to.
ApplyAlways(t, op) == Placed(t, op)

Apply(t, op) ==
    IF op.node \in {op.parent} \cup Ancestors(t, op.parent) THEN t ELSE Placed(t, op)

\* The tree after each time.
AfterEach(ops) ==
    LET after[k \in 0..MaxOps] ==
            IF k = 0 THEN <<>>
            ELSE IF \E op \in ops : op.time = k
                 THEN Apply(after[k - 1], CHOOSE op \in ops : op.time = k)
                 ELSE after[k - 1]
    IN  after

TreeOf(ops) == AfterEach(ops)[MaxOps]

Init ==
    /\ log = [p \in Peer |-> Prelude]
    /\ tree = [p \in Peer |-> TreeOf(Prelude)]

-----------------------------------------------------------------------------
(***************************************************************************)
(* Looking at a tree.                                                      *)
(***************************************************************************)
\* metadata(): Ok for the root and for nodes that are not themselves in the
\* trash.
HasMetadata(t, n) == n = Root \/ (n \in DOMAIN t /\ t[n].parent # Trash)

Kind(t, n) == IF n = Root THEN "dir" ELSE t[n].meta.kind

Children(t, d) == {n \in DOMAIN t : t[n].parent = d}

\* child_id() returns one of these, whichever comes first.
ChildIds(t, d, name) == {n \in Children(t, d) : t[n].meta.name = name}

\* list_directory().
Listed(t, d) ==
    IF HasMetadata(t, d) /\ Kind(t, d) = "dir"
    THEN {n \in Children(t, d) : HasMetadata(t, n)}
    ELSE {}

\* reachable_chunk_hashes(): the directories its queue goes through, and the
\* files it meets.  The mutant does not queue what it finds.
TopDirectories(t) == {Root}

ReachedDirectories(t) ==
    LET found[k \in Nat] ==
            IF k = 0 THEN {Root}
            ELSE found[k - 1] \cup
                    {n \in DOMAIN t : t[n].parent \in found[k - 1] /\ t[n].meta.kind = "dir"}
    IN  found[Cardinality(DOMAIN t)]

ReachableChunks(t) ==
    UNION {t[n].meta.chunks :
            n \in {m \in DOMAIN t : t[m].parent \in ReachedDirectories(t) /\ t[m].meta.kind = "file"}}

-----------------------------------------------------------------------------
(***************************************************************************)
(* Making operations.                                                      *)
(***************************************************************************)
\* NodeTree stamps the operation and applies it.  Make lets the clock give any
\* time that is later than those p has.
Mutate(p, n, parent, meta, call) ==
    \E k \in 1..MaxOps :
        LET op == [time |-> k, actor |-> p, node |-> n, parent |-> parent, meta |-> meta,
                   call |-> call, seen |-> {old.time : old \in log[p]}]
        IN  /\ Log!Make(p, op)
            /\ tree' = [tree EXCEPT ![p] = Apply(@, op)]

DeleteNode(p, n) == Mutate(p, n, Trash, tree[p][n].meta, "delete")

\* create_node(): the id is derived from the parent and the name.
CreateNode(p, d, name, kind) ==
    /\ ChildIds(tree[p], d, name) = {}
    /\ Len(d) < MaxDepth
    /\ Mutate(p, Append(d, name), d, [kind |-> kind, name |-> name, chunks |-> {}], "create")

\* The kernel holds the directories that it has been told of.  It knows that
\* one is dead only if it removed it itself.
LastOn(ops, n) ==
    CHOOSE op \in ops : op.node = n /\ \A other \in ops : other.node = n => other.time <= op.time

Held(p) ==
    {Root} \cup {d \in DOMAIN tree[p] :
        /\ Kind(tree[p], d) = "dir"
        /\ tree[p][d].parent = Trash => LastOn(log[p], d).actor # p}

(***************************************************************************)
(* The calls.                                                              *)
(***************************************************************************)
Mkdir(p, d, name) == CreateNode(p, d, name, "dir")
Create(p, d, name) == CreateNode(p, d, name, "file")
Symlink(p, d, name) == CreateNode(p, d, name, "link")

Unlink(p, d, name) ==
    \E n \in ChildIds(tree[p], d, name) :
        /\ HasMetadata(tree[p], n)
        /\ Kind(tree[p], n) # "dir"
        /\ DeleteNode(p, n)

Rmdir(p, d, name) ==
    \E n \in ChildIds(tree[p], d, name) :
        /\ HasMetadata(tree[p], n)
        /\ Kind(tree[p], n) = "dir"
        /\ Children(tree[p], n) = {}
        /\ DeleteNode(p, n)

\* The mutant lets anything be renamed to anything.
NameIsAny(t, d, name, n) == TRUE
NameIsFree(t, d, name, n) == ChildIds(t, d, name) = {} \/ n \in ChildIds(t, d, name)

\* The mutant forgets what the file consists of.
RenamedEmpty(meta, name) == [meta EXCEPT !.name = name, !.chunks = {}]
Renamed(meta, name) == [meta EXCEPT !.name = name]

\* The code has no check against moving a directory below itself: it relies on
\* the kernel, which makes none as long as its view of the directories is that of
\* the tree.  (If others have moved them meanwhile it may; the library then passes
\* the operation over, as Apply does.)
Rename(p, d, name, d2, name2) ==
    \E n \in ChildIds(tree[p], d, name) :
        /\ NameIsFree(tree[p], d2, name2, n)
        /\ <<d2, name2>> # <<d, name>>
        /\ HasMetadata(tree[p], n)
        /\ n \notin {d2} \cup Ancestors(tree[p], d2)
        /\ Mutate(p, n, d2, Renamed(tree[p][n].meta, name2), "rename")

\* setattr with a size, and release: they name a node, not a path, and the node
\* may have been removed.
IsFile(p, n) == HasMetadata(tree[p], n) /\ Kind(tree[p], n) = "file"

TruncateFile(p, n) ==
    /\ IsFile(p, n)
    /\ \E kept \in SUBSET tree[p][n].meta.chunks :
        Mutate(p, n, tree[p][n].parent, [tree[p][n].meta EXCEPT !.chunks = kept], "write")

\* The mutant puts the file back where it was created.
WriteFileWhereCreated(p, n) ==
    /\ Kind(tree[p], n) = "file"
    /\ \E chunks \in SUBSET Chunk :
        Mutate(p, n, SubSeq(n, 1, Len(n) - 1), [tree[p][n].meta EXCEPT !.chunks = chunks], "write")

WriteFile(p, n) ==
    /\ IsFile(p, n)
    /\ \E chunks \in SUBSET Chunk :
        Mutate(p, n, tree[p][n].parent, [tree[p][n].meta EXCEPT !.chunks = chunks], "write")

\* apply_operations for operations of other peers, all or one of them.
ApplyOperations(p, ops) ==
    /\ ops # {}
    /\ Log!Learn(p, ops)
    /\ tree' = [tree EXCEPT ![p] = TreeOf(log'[p])]

Next ==
    \/ \E p \in Peer : \E d \in Held(p) : \E name \in Name :
        \/ Mkdir(p, d, name) \/ Create(p, d, name) \/ Symlink(p, d, name)
        \/ Unlink(p, d, name) \/ Rmdir(p, d, name)
        \/ \E d2 \in Held(p) : \E name2 \in Name : Rename(p, d, name, d2, name2)
    \/ \E p \in Peer : \E n \in DOMAIN tree[p] : TruncateFile(p, n) \/ WriteFile(p, n)
    \/ \E p, q \in Peer : \E ops \in {log[q] \ log[p]} \cup {{op} : op \in log[q] \ log[p]} :
        ApplyOperations(p, ops)

Spec == Init /\ [][Next]_vars

-----------------------------------------------------------------------------
(***************************************************************************)
(* Properties.                                                             *)
(***************************************************************************)

\* Shape of the state; no node is below itself.
TypeOK ==
    /\ log \in [Peer -> SUBSET Operation]
    /\ \A p \in Peer : \A n \in DOMAIN tree[p] :
        /\ n \in Node
        /\ tree[p][n].parent \in Parent
        /\ tree[p][n].meta \in Meta
        /\ n \notin Ancestors(tree[p], n)

\* README, lines 66 and 67, "concurrent edits converge": what a user did was applied at once, what
\* others did when it came, and peers with the same operations still have the
\* same tree.
TreesConverge == \A p, q \in Peer : log[p] = log[q] => tree[p] = tree[q]

\* p has all that the authors of its operations had.
IsClosed(p) ==
    \A op \in log[p] : op.seen \subseteq {old.time : old \in log[p]}

On(p, n) == {op \in log[p] : op.node = n}
After(p, op) == {later \in On(p, op.node) : op.time < later.time}
Concurrent(a, b) == a.time \notin b.seen /\ b.time \notin a.seen

HaveConcurrent(ops) == \E o1, o2 \in ops : o1 # o2 /\ Concurrent(o1, o2)

\* Nobody has ever put anything below n.  An operation on such a node is not
\* passed over, as it cannot make a cycle.
IsLeaf(p, n) == \A op \in log[p] : op.parent # n

\* Within a directory two nodes share a name only if that is nobody's fault: two
\* users did something about them without knowing of each other.  (For
\* directories this may have been something else: whether an operation is passed
\* over depends on moves of other nodes.)  What a single user or one after the other
\* does never ends in two files of one name, of which child_id() would hide one.
DuplicatesConcurrent ==
    \A p \in Peer : IsClosed(p) =>
        \A n, m \in DOMAIN tree[p] :
            (/\ n # m
             /\ tree[p][n].parent = tree[p][m].parent
             /\ tree[p][n].parent # Trash
             /\ tree[p][n].meta.name = tree[p][m].meta.name)
            => HaveConcurrent(IF IsLeaf(p, n) /\ IsLeaf(p, m) THEN On(p, n) \cup On(p, m)
                                                           ELSE log[p])

\* A removed file stays removed, also if a handle on it is still open and its
\* buffer is written back later; only somebody who did not know of the removal,
\* or who creates it anew, can bring it back.
RemovedStaysRemoved ==
    \A p \in Peer : IsClosed(p) =>
        \A gone \in log[p] :
            (gone.call = "delete" /\ tree[p][gone.node].parent # Trash)
            => \E op \in After(p, gone) : op.call = "create" \/ gone.time \notin op.seen

\* What was written is there until somebody writes or creates the file again,
\* or changes it without having seen the write: a rename carries the contents
\* along, a removal does not lose them.  (If the file's id is also that of a
\* directory which others have moved things to, the write may be passed over.)
WritesLast ==
    \A p \in Peer : IsClosed(p) =>
        \A write \in log[p] :
            (write.call = "write" /\ tree[p][write.node].meta.chunks # write.meta.chunks)
            => \/ \E op \in After(p, write) :
                    op.call \in {"create", "write"} \/ write.time \notin op.seen
               \/ ~IsLeaf(p, write.node) /\ HaveConcurrent(log[p])

\* Replication keeps the chunks that reachable_chunk_hashes() finds, users read
\* those of the files that they find by listing directories, one in the other.
\* These are the same.
CanBeListed(t, n) ==
    \A m \in {n} \cup Ancestors(t, n) :
        \/ m = Root
        \/ (m \in DOMAIN t /\ m \in Listed(t, t[m].parent))

ReachableIsListed ==
    \A p \in Peer :
        ReachableChunks(tree[p]) =
            UNION {tree[p][n].meta.chunks : n \in {m \in DOMAIN tree[p] : CanBeListed(tree[p], m)}}

\* README, line 29, "Files created in one mount show up in the others": when a
\* call has created a file, there is one more file than before in that mount.
Files(p) == {n \in DOMAIN tree[p] : CanBeListed(tree[p], n) /\ Kind(tree[p], n) = "file"}

CreatedFilesShowUp ==
    [][\A p \in Peer : \A op \in log'[p] \ log[p] :
        (op.actor = p /\ op.call = "create" /\ op.meta.kind = "file")
        => Cardinality(Files(p)') = Cardinality(Files(p)) + 1]_vars

=============================================================================
