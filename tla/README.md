# A TLA+ model of edfs

edfs is an in-memory distributed file system: every node mounts a FUSE file
system, keeps a replica of the file tree and a store of content-addressed chunks,
and talks to the other nodes of the local network over libp2p. This directory
models the parts of it that run concurrently or keep state over several steps.
TLC checks the models on small instances; TLAPS proves the most important results
for any number of peers, handles and chunks.

Paths such as `replication.rs` are relative to the repository's `src/` tree;
`PROJECT.json` maps every definition to the lines it models.

## 1. The system

| Part | State | Operations | Hard because |
|---|---|---|---|
| Chunk store (`filesystem/storage.rs`) | chunk map, pinned/cached flag, LRU queue, two byte counters kept by hand | `try_pin`, `cache`, `get`, `promote_to_pinned`, `evict` | counters and queue are updated in five places; limits |
| Rendezvous hashing (`network/hrw.rs`) | none | `top_peers` | every node ranks its own view of the members |
| Replication (`handlers/replication.rs`) | `confirmed_holders`, `pending_probes`, `blocked_until` | `rebalance`, `probe_eviction_candidates`, `evict_confirmed`, answers to probes | evictions rest on answers that may be stale, under views that differ; crashes |
| Chunk fetcher (`handlers/chunk.rs`) | sessions, requests, backoffs | `fetch_chunk`, `walk_down`, `handle_response`, `handle_failure` | parallel requests, late answers, pins that join reads |
| Network bridge, dispatcher (`network_bridge.rs`, `dispatcher.rs`) | two bounded channels, a batch | `broadcast`, `fetch`, the batching task, `tick` | the dispatcher sends into the channel that only it empties |
| Hybrid logical clock (`tree/hlc.rs`) | physical and logical time | `next`, `observe`, `pack` | skewed wall clocks; the counter is masked to 16 bits |
| Tree synchronisation (`gossip.rs`, `tree_sync.rs`, `mdns.rs`) | none but the log they exchange | gossip, pull, discovery | lost messages, stale id sets, crashes of authors |
| Node tree (`filesystem/tree/mod.rs`) | operation log, tree (library `crdt_tree`) | `create_node`, `move_node`, `delete_node`, `apply_operations` | concurrent moves |
| File system (`filesystem/mod.rs`, `chunk.rs`) | none of its own | files, directories, links, rename, truncate, reads | node ids derived from names; missing chunks read as zeros |
| FUSE layer (`fuse/`) | inode map, open-file buffers | the FUSE calls | locks released over `await`; buffers that outlive what they were read from |
| Application, CLI, mount, attributes, errors, configuration, protocol types | none | start-up, glue | not modelled |

How they interact: FUSE calls run as tokio tasks. They change `FileSystem` under a
write lock, then hand the tree operation to `NetworkBridge`, whose task batches
operations into the command channel. The dispatcher takes one event (command, swarm
event or tick) at a time and runs every handler on it, then every handler's `tick`.
`GossipHandler` publishes and applies operations, `SyncHandler` pulls missed ones,
`ChunkHandler` fetches and serves chunks, `ReplicationHandler` decides where chunks
are pinned and sends fetches through the command channel. A node that stops loses
everything, its identity too.

What makes the parts correct:

* store: counters and queue agree with the map, pins never go by accident, limits hold;
* replication: a chunk ends on the two designated peers and no eviction loses it;
* fetcher: every read is answered, every pin is done or backed off, maps stay consistent;
* bridge: no operation is lost or overtaken, no full channel stops the node;
* clock and sync: ids are unique, an edit takes effect, logs converge;
* node tree and file system: peers with equal logs show equal trees, a name denotes one
  node, what was removed or overwritten does not come back;
* open files: a read returns the bytes of its range, a close stores what was written or
  leaves the file alone.

The hazards behind these, line by line, are listed in `PROJECT.json`.

## 2. Modules

| Module | Models | Uses |
|---|---|---|
| `ChunkBytes` | sizes and byte totals of sets of chunks | |
| `ChunkStore` | abstract store: what a store promises (two sets and their budgets) | `ChunkBytes` |
| `ChunkStorage` | the store as written: map, LRU queue, counters; implements `ChunkStore` | `ChunkBytes`, `ChunkStore` |
| `RecentUse` | `ChunkStorage` with a record of what has been used since what, to judge the order of the queue by | `ChunkStorage` |
| `Hrw` | ranking and `top_peers` | `ChunkBytes` |
| `Replication` | `ReplicationHandler` of every peer with tree, store, fetcher and swarm as far as it depends on them; every peer's store is a `ChunkStore` | `Hrw`, `ChunkStore` |
| `ChunkFetcher` | `ChunkHandler` of one node and the readers and rebalance passes that use it | `Hrw` |
| `CommandChannel` | bridge, batching task, command channel, dispatcher loop | |
| `HybridLogicalClock` | the clock as operators | |
| `ReplicatedLog` | abstract network: logs that grow by an operation made last, or by operations known elsewhere | |
| `TreeSync` | logs, gossip, pulls, discovery on every peer; implements `ReplicatedLog` | `HybridLogicalClock`, `ReplicatedLog` |
| `FileTree` | the tree each peer builds from its log, and the calls on names and nodes | `ReplicatedLog` |
| `OpenFiles` | one file on one node: contents, handles, buffers, calls that wait for chunks, and what replication and other files do with the store meanwhile | `ChunkStorage` |
| `*Proofs` | theorems about the module of that name (`ReplicationProofs` also about `Hrw`, `TreeSyncProofs` about `HybridLogicalClock`) | |
| `MC*` | constants for TLC | |

Modules are composed through abstractions. `TreeSync` is shown to implement
`ReplicatedLog`, and `FileTree` takes its operations from `ReplicatedLog`, so what it shows
does not depend on gossip, pulls or clocks. `ChunkStorage` is shown to implement
`ChunkStore`, and `Replication` and `ChunkFetcher`, which keep only the two sets of a store,
are shown to change them only as `ChunkStore` allows. `OpenFiles` contains a whole
`ChunkStorage`.

The operators whose comment says "mutant" stand for plausible bugs
(a dropped guard, a wrong peer set, a lost waiter). No definition uses them. Put in
the place of the definition they follow, each makes TLC report a violation of a
property, which shows that the property depends on that code; `PROJECT.json` lists the pairs.

### State and actions

**ChunkStorage.** `chunks[h]` is absent, cached or pinned; `cache_lru`, `pinned_bytes` and
`cached_bytes` are the fields of the struct. Each method is one action (all run under
the file system's lock; `get` takes the queue's own mutex, but nothing else can touch
the queue while a reader holds the outer lock, other readers excepted, and these
serialize on the mutex). `TryPin` takes a batch, duplicates included, and refuses as a
whole.

**Replication.** `tree[p][h]` counts the operations on the file whose content is `h`
that `p` knows; odd means reachable. A larger count wins when trees meet, as a later
operation wins in the tree. So two peers that change the same file at the same time
are one operation here; which of them wins is the business of `FileTree`. Several
files with one chunk are one file. `RebalanceTick` and `Connect` contain the whole of
`rebalance()`. Its loop over a `HashSet` is a choice of what was promoted, refused and
asked before it ended. The read lock for `is_cached` and the write lock for
`promote_to_pinned` are taken one after the other in the code; a reader may displace the
chunk in between, and then the chunk is blocked for one backoff. The model takes both as
one step. The hashes of one `CheckChunks` batch are separate probes: they are answered
and confirmed independently, and a batch that arrives at once is a run of steps. The
fetcher is reduced to its result (`ServeChunk`, `ReceiveChunk`, `FetchFailed`).

**ChunkFetcher.** One node, its sessions, requests and backoffs; `Resolve` consumes an
event for a request in flight: data that matches, an answer that does not, or a failure.
Answers that come after the session ended find no entry and change nothing. A reader
goes through `fetch_missing_chunks`: ask, get the reply, put the data into the cache
again (`KeepForRead`). The lock is released after that; what the read finds later is
shown in `OpenFiles`, not here.

**CommandChannel.** Every tree mutation makes one operation. The write lock is gone
before the operation is sent, so two FUSE calls may hand theirs over in either order;
from there on the order is kept. `StartRebalance` and `IssueFetch` are the dispatcher
inside `rebalance()`; while they run, `Dispatch` is disabled.

**TreeSync.** An operation is its author, timestamp and the number of the edit.
`Applied` is the library as the code relies on it: an operation enters the log unless
its timestamp is already there. The wall clock of a node is any value up to `MaxTime`
at every step, backward jumps included. Gossip may reach any subset of the peers, in any
split and order. A pull carries the ids of the log at the time it is sent.

**FileTree.** `log[p]` holds the operations that `p` knows, `tree[p]` the parent and the
metadata of every node. An operation moves a node: creation gives it its first parent,
deletion moves it to the trash, writing moves it to where it is with new metadata.
`time` is its place in the order of all timestamps; an author picks any time later than
those it knows, and operations of others may come to lie before, between and after it.
The id of a node is the path of names with which it was created (the code hashes parent
id and name), so creating the same name again gives the same node. `AfterEach` is
`crdt_tree` as far as the code relies on it: operations are applied in the order of
their times, and one that would put a node below itself is passed over. A local call
applies its operation to the tree at hand; `ApplyOperations` builds the tree of the
larger log, which is what undoing and redoing comes to. `Mkdir`, `Create`, `Symlink`,
`Unlink`, `Rmdir` and `Rename` go by parent and name, `TruncateFile` and `WriteFile` by node,
because a handle names a node, which may meanwhile have been moved or removed. `Held` says
in which directories the kernel still makes calls: it knows of a removed directory
only if it has removed it itself. That a directory is not renamed into itself is the
kernel's check in `Rename` too, and it goes by the tree the peer has; the file system
has no check of its own. The library's undoing and redoing of operations is taken to be
exact, so `TreesConverge` is about the local calls: applied on top, they leave the tree that
the log would give.

**OpenFiles.** `file` is the node: whether it is there, its size and `chunk_refs`. The store's
fields are those of `ChunkStorage`. `handle[h]` is the `OpenFile` of a handle, with its
buffer; `call[h]` the call it is in. `Read` and `Write` of a handle without a buffer note the
missing chunks and let go of all locks; `Answer` is the fetcher's reply, `KeepChunk` the
second `cache_chunk` of `fetch_missing_chunks`, `FinishRead`, `FinishWrite` and `GiveUp` go on
when all answers are there. `Release` and `WriteBack` are the two halves of `release`: first
the buffer leaves the handle, then it becomes the file. Truncation, removal, operations of
other nodes and other files' chunks may come between any two of these steps, and so may
the replication of this node, which works on the same store: `HandOver` is
`evict_confirmed` of a chunk whose designated peers have confirmed it, `Promote` the
promotion of a cached chunk, `PinArrives` a chunk that was fetched to be pinned (or cached,
if the pins are full). Who is designated and who has confirmed is in `Replication`; here
the three happen at any time, which is more than the code does. A chunk that has been
handed over is noted in `file.handed`, and the properties say what stays true without
it. The kernel's inode lock keeps two writes, or a write and a truncation, of one file
apart; reads, releases and whatever other nodes do are not kept apart from anything. A
hash is the chunk it identifies, so the properties can speak of bytes. `Split` cuts at
fixed places;
nothing depends on where FastCDC cuts. `FetchedIsThere` needs a history of each waiting
call: `calm` says that file and pins are still as they were when it began, `seen` which
chunks the cache has had to take since, or had used later than what the call needs. As
long as these fit into the cache together, nothing the call needs is displaced, whoever
else uses the store.

## 3. What the runs check

| Run | Instance | Shows |
|---|---|---|
| `storage` | chunks of 0, 1, 1, 2, 4 bytes; 5 bytes of pins, 3 of cache; batches of up to 2 | `Accounting` (counters equal the sums), `LruExact` (the queue holds each cached hash once), `LeastRecentlyUsedGoes` (a cached chunk outlives an insertion exactly if both fit together with what was used since), `ImplementsChunkStore` (refinement) |
| `replication` | 3 peers that start as strangers, 2 writers, 1 reader, a write and a delete, a fault, a crash | `EvictionKeepsReplicas`, `LiveChunksHeld`, `VouchedCovered` |
| `replication_live` | 3 peers, 2 chunks with room for one on each peer, a fault and a crash, no delete | `TwoHoldersRecur`: again and again exactly the two designated peers pin a chunk (for which their pins have room); refused promotions and pins and cached copies do not count. `StoresAreChunkStores`: each peer's pins and cache change only as `ChunkStore` allows |
| `fetcher` | 2 peers asked at once, 2 readers of one chunk, a pin of it or of one that does not fit, a cache for one chunk | `SessionsConsistent`, `WaitersKept`, `ReadersAnswered`, `PinAnswered`, `RefusedLast` (a read is refused only when all connected peers have been asked and none can still deliver, or while the chunk is backed off) |
| `channel` | room for one operation and two commands, batches of 2, 3 operations, passes of 2 fetches | `NothingLost`, `EverythingMoves` |
| `tree_sync` | 2 writers, 3 edits, clocks that differ by a millisecond and jump | `IdsUnique`, `ClockAhead`, `EditsTakeEffect`, `ImplementsReplicatedLog` (refinement), `ObserveLoop` (the closed form of the observe loop equals the loop, for any order of the batch and any readings of the wall clock) |
| `tree_sync_live` | 3 peers, gossip may be lost, the author may crash | `LogsConverge` |
| `file_tree` | 2 users, a directory and a file at the start, 3 more operations, 2 names, ids of 2 names | `TreesConverge`; `DuplicatesConcurrent`, `RemovedStaysRemoved`, `WritesLast` (two files of one name, a file that comes back, contents that are undone: only where two users did not know of each other, as far as a write may not be passed over); `ReachableIsListed` (replication keeps the chunks of the files that can be listed) |
| `open_files` | 2 handles, files of up to 3 bytes in chunks of 2, room for 3 bytes of pins and of cache, 2 opens, 2 writes, a truncation or removal, a change by another node, a step of replication or a chunk of another file (`MaxOthers`) | `ReadExact`, `MissingExact`, `TruncateExact` (byte ranges against plain byte sequences), `WrittenStaysHere` (what this node wrote is pinned here but for what replication has handed over; full pins leave the file as it was), `OnlyWritersChange`, `FetchedIsThere` (what a call has fetched is there if what was used meanwhile leaves it room in the cache) |

Three runs show where the repository's README says more than the code does:

* `replication_stuck` violates `TwoHoldersRecur`. README line 29: "Every chunk is held by
  exactly two peers". Evictions run only when a `HeldChunks` response arrives. If the
  file is deleted when the last one does, and written again before the next eviction
  tick, both confirmations are on record, nobody is asked about this chunk any more, no
  response about it can come, and the third replica stays. A response about some other
  chunk would run the eviction; nothing makes one come.
* `file_tree_reuse` violates `CreatedFilesShowUp`. README line 29: "Files created in one
  mount show up in the others." The id of a node comes from the parent and the name it is
  created with, and a rename keeps the id. Create `a`, rename it to `b`, create `a`: the
  second creation is an operation on the node that is called `b`. It is moved back and
  emptied; one file is left of two. The run has one user, so that nothing else can be
  the cause.
* `open_files_snapshot` violates `SnapshotIsVersion`. README lines 43 and 44: the FUSE layer
  "buffers open files so reads and writes work on a consistent snapshot". The
  first write through a handle fetches what is missing into the cache. If that exceeds
  the cache, later chunks displace earlier ones, `read_file` takes zeros for them without an
  error, and the buffer, which is stored on release, has zeros where others wrote.

Also visible in the models, without a run of their own:

* `write_file` returns when the writer has pinned the chunks. If the writer dies before
  another peer has rebalanced, live trees list a file nobody holds
  (`EvictionKeepsReplicas` and `LiveChunksHeld` are therefore about evictions, and about the
  time before a crash).
* `pack` masks the counter to 16 bits and the clock counts on. After 2^16 edits in one
  physical timestamp ids repeat; the runs and the theorems about `TreeSync` assume fewer, so
  they say nothing about the wrap.
* An operation that would make a cycle, with others that its author did not know of,
  is passed over on every peer, a creation also: the call that made it succeeded.
* Two users who rename two files to one name at the same time keep both, and `child_id`
  finds one of them.
* A rename carries the whole metadata: made without knowing of a write, and ordered after
  it, it puts the old contents back.
* A handle without a buffer reads the tree as it is at each call, so one open
  file may show parts of two versions. `FetchedIsThere` has its premise for the same
  reason: a chunk may be displaced, by what else the call fetches or by others, before
  the call reads it, and then it reads as zeros.
* A file that truncation has made larger has no chunks for what was added. A read there
  returns fewer bytes than the size promises, or none (`ReadExact` says exactly when). The first
  write through a handle gets such a short buffer too, and the release then
  makes the file as short as the buffer.
* While a chunk is backed off because a pin of it failed, a read of it that is not yet
  stored is refused at once, without asking anybody (`RefusedLast`).
* `setattr` does not look at handles: a truncation while a buffer is dirty is undone by
  the release.
* A removed and recreated file has its old id, so a stale dirty handle overwrites it.
* Only reachable chunks are eviction candidates; pins of deleted or overwritten files
  are never freed.

### Bounds

Every bound is a constant whose comment says "model bound". Three peers are the least at
which somebody is not designated; four and more, where a peer that was relied on evicts
in turn, are covered by the theorems. One chunk is enough for the eviction protocol,
as chunks share nothing but the byte budget, for which `replication_live` has two.
`MaxVersion` of 2 gives write and delete, 3 a rewrite. One probe round in flight per
peer is enough to have answers that go stale, because confirmations outlive the round. A
counter radix of 4 with 3 edits stays below the wrap. Three operations in `file_tree`
on top of a directory and a file are enough for two concurrent changes and a third that
is ordered between or after them, and for moves that would make a cycle on a peer
that has not got all of them. In `open_files` three bytes in chunks of two give a whole chunk and
a partial one, a truncation inside either, a cache that holds the file and one that
does not hold it together with another chunk, and pins that a second version fills. The
two handles, the two users of `file_tree` are interchangeable and declared symmetric; these
runs check no liveness.

Deadlock is checked in all runs but `channel`, `file_tree` and `open_files` and the two
counterexamples of the latter: there the bounded users stop asking and the node rests.

### Fairness

Ticks recur (the dispatcher wakes every `DISPATCH_TICK_INTERVAL`, and runs every handler's
`tick` after each event), so the actions that ticks drive are weakly fair. Requests are
answered or time out (libp2p), so each request's next step is weakly fair.
`SyncTick(p, q)` is strongly fair, because the tick picks a random connected peer and so
every peer infinitely often with probability one. Lost connections are noticed and peers
found by mDNS, so `Connect` and the removal of dead peers are weakly fair. Users, faults
and crashes are never fair; faults and crashes are finite. Gossip is not fair at all.
In `CommandChannel` senders waiting for room are strongly fair, because tokio's channel
serves them in order. `FileTree` and `OpenFiles` are about safety and assume no fairness.

## 4. What is proved

All theorems hold for every cluster, ranking, size and bound that the named assumptions
(`ReplicationAssumption`, `SyncAssumption` and so on) allow.

* `ReplicationProofs`, on ranking: `TopPeersAreFirst` - of `n` members or more `top_peers`
  returns `n`, of fewer all, and each is ranked before every member left out.
  `NewcomerTakesOnePlace` - who joins takes at most one place, and nobody else gets one by
  it. `DesignatedOutrank` - a member that is not designated is outranked by two that are.
  The order is strict and total (the peers' bytes tell equal scores apart), so every set of
  peers has a first; that places are filled one by one is a least counterexample argument.
* `ReplicationProofs`, on replicas: `TypeCorrect`, `VouchedPeersCovered`,
  `EvictionSafe`, `ReachableHeld`, `StoresImplementChunkStore`. `EvictionKeepsReplicas`
  alone is not inductive: what an eviction relies on are confirmations, which say
  nothing of the present. The invariant `VouchedCovered` says what is still true of a
  peer that once confirmed: it pins the chunk, or two better ranked peers do. An
  eviction is only done by a peer that is outranked by both peers it relies on. If one
  of these has dropped its pin, two still better ranked peers have it, so replacing a
  peer by those it relied on always moves up in the ranking and never leads back to the
  evicting one. A crash may take one of the two, hence the weaker half for
  `crashes = 1`. `LiveChunksHeld` follows, as nothing but an eviction or a crash removes a pin.
  `StoresAreChunkStores` needs that no chunk is pinned and cached on one peer
  (`NeverBoth`): only then does an eviction of pins leave the cache as `ChunkStore`
  wants it.
* `TreeSyncProofs`: `TypeCorrect`, `UniqueIds`, `ClocksAhead`, `EditsStick`,
  `SyncRefines`, `ObservedInAnyOrder`. All but the first and the last assume
  `MaxEdits < Radix`, fewer edits than the counter has values. Uniqueness needs that an operation is
  in its author's log before it is anywhere else and that no clock is behind its own log
  (`ClockAhead`): then a new timestamp is later than every timestamp its author has
  used. The same two facts make an edit a step of `ReplicatedLog`: it is later than all
  its author knows, and its time is new. The lemma `ObserveIsLatest` says that observing
  a set of timestamps leaves the latest of them, the clock and the present. That the
  loop in `apply_operations` does so, one timestamp after the other, is
  `ObservedInAnyOrder`: the recursive function of the loop is shown to exist and to hold
  after `n` rounds the latest of what it has seen, by the well-foundedness of finite
  sets instead of an induction rule.
* `ChunkFetcherProofs`: `TypeCorrect`, `MapsAgree`, `NoReaderLost` from one inductive
  invariant, `FetcherInv`, the conjunction of the three: a late answer finds nothing only
  if requests and sessions agree, and a reader is answered only if its session still
  lists it. `RefusedAtTheEnd` says that the walk does not give up while a peer is unasked or
  a request for the chunk is left; it is an action property and follows from the invariant.
  `FetcherUsesChunkStore`: the store changes only as `ChunkStore` allows.
* `ChunkStorageProofs`: `TypeCorrect`, `CountersExact`, `QueueExact`, `StorageRefines`. Byte
  totals are cardinalities of sets of bytes, so moving a chunk is a lemma about disjoint
  unions. The counters are exact only if the queue is: `cache` takes from the counter what
  it pops, so the invariant needs that the queue lists every cached hash once and no
  other. With it, a pop is an eviction of a cached chunk and the refinement holds.
* `RecentUseProofs`: `ExactlyLru`. The inductive invariant says that the queue lists the
  cached chunks in the order of their last uses: what lies behind a chunk in the queue is
  what is cached and has been used since. What `cache` leaves is then an end of the queue,
  and it is the longest end that fits, so a chunk stays exactly if it, all behind it and the
  new one fit.
* `CommandChannelProofs`: `TypeCorrect`, `OperationsArriveInOrder`. `NothingLost` is inductive
  next to the type invariant: each step either moves one cut of the sequence of accepted
  operations, or splits the last piece.
* `FileTreeProofs`: `TreesFollowLogs`, `EqualLogsEqualTrees`, `TreesFollowHistory`,
  `TreesAreTyped`, `RemovalsLast`, `WritesAreLasting`, `DuplicatesNeedConcurrency`,
  `ReachedAreListed`, under `TreeAssumption` and `PreludeAssumption`. Two invariants carry
  everything. `UpToDate` says that every tree is the tree of its log and that no two known
  operations have one time; a local call applies its operation to the tree at hand, which
  is right because its time is the latest (`LastIsApplied`). That no other operation has
  this time rests on `ReplicatedLog`, and so on `SyncRefines`. `History` says that every
  operation was allowed in the tree of what its author knew: a creation names a directory
  without a child of that name, a write carries the parent and name its author saw. A
  property of a tree is then proved backwards: what is so in the tree was made so by the
  last operation on the node that was not passed over, and what this operation says was
  true in its author's tree. `RemovalsLast` needs one such step, `WritesAreLasting` and
  `DuplicatesNeedConcurrency` follow the chain of authors to its `Earliest` element. In
  `WritesLast` and `DuplicatesConcurrent` a node on which something was ever put (not
  `IsLeaf`) is a case of its own, because an operation on it can be passed over.
  `Ancestors` iterates a step as often as there are nodes. That it is the least set
  which contains the parent and is closed upward (`AncestorsLeast`, `AncestorsUpward`) is a
  counting argument: a chain of different nodes is not longer than there are nodes. From
  it: a step that does not put a node below itself keeps the tree free of cycles
  (`ApplyAcyclic`), and `ReachedDirectories` has a directory exactly if all above it are
  listed. Induction over numbers is a lemma about sets of numbers (`Induct`, from
  well-foundedness of finite sets), and recursive functions are shown to exist before
  their equations are used (`Iterates`).
* `OpenFilesProofs`: `OpenFilesAreTyped`, `ReadsAreExact`, `MissingAreExact`,
  `TruncationsAreExact`, `WrittenStays`, `FetchedStays`, `OnlyWritersChangeFiles`, under
  `OpenFilesAssumption` (bytes and foreign chunks are finitely many, as the counters of the
  store are cardinalities, and no contents are longer than `MaxSize`). First comes what a
  file is, by itself: its chunks lie one behind the other, none claims more bytes than it
  has, and together they have no more than the file (`IsFile`). A concatenation is then
  known by where its pieces end (`Ends`, `Flattened`, `FlattenIs`), and `read_file`, what is
  missing and `truncate` are exact for every such file and range, whatever the store holds
  (`ReadIs`, `MissingIs`, `TruncateIs`). So the three properties need only that every action
  leaves a file of that kind (`FileInv`). For reads this comes in two steps: `read_file`
  returns exactly the slice of the bytes of the chunks (`ReadIs`), and that is a beginning of
  the slice of the file, all of it unless the slice goes beyond the last chunk
  (`FileReads`). `WrittenStaysHere` and `FetchedIsThere` are about
  the store, which is a `ChunkStorage`: its invariant and its lemmas are used through the
  instance `SP`. An eviction by replication takes the pin of one chunk and of no other
  (`EvictKept`), and that one is noted as handed over. `FetchedIsThere` is not inductive, because
  it says nothing of a call that still
  waits. `CallsInv` says it of every call that is calm and whose `seen` fits into the cache:
  the chunks it wants that are absent are still asked for, and whatever is behind one that
  is cached in the queue is in `seen` (`IsCovered`). Whatever any step puts into the cache or
  moves in the queue is noted in `seen` first, so what it drops is none of the chunks wanted
  (`CacheSpares` and `RetainBehind` in `ChunkStorageProofs`). `OpenInv` is the conjunction.
  `OnlyWritersChangeFiles` has an invariant of its own, `WrittenInv`: a dirty handle was
  written through, and a release under way came from a dirty handle.

Only model-checked: what is temporal under fairness (`TwoHoldersRecur`, `PinAnswered`,
`ReadersAnswered`, `EverythingMoves`, `LogsConverge`), which is out of the prover's reach.
For these the runs are the evidence, within their bounds. Every other property of a
passing run is a theorem.

## 5. Not modelled

* libp2p: transport, encryption, multiplexing, gossipsub's mesh, mDNS and the set-up of
  the swarm (`network/behaviour.rs`). They appear as loss, delay, repetition and reordering,
  and as peers that come and go. `protocol.rs` and `event.rs` are message types and
  routing; the messages are in the modules that exchange them.
* The inside of `crdt_tree`, SHA-256 (hashes identify chunks) and where FastCDC cuts.
* The inode map: inodes are given once and never taken back, under one lock, so a node
  stands for its inode. Attributes, `statfs`, `access` and link targets keep no state.
* Paging of `readdir`: each call lists the directory anew and goes on at an index, so
  a change between two calls can skip an entry or show it twice. The order of entries
  is the library's.
* Start-up, shutdown, command line, mounting, logging: glue and I/O without state of their
  own. Leaving the main loop is the crash of `Replication` and `TreeSync`: nothing is persisted.
* Several chunks of one file lost and found by many peers at once: `Replication` treats
  chunks one by one, `OpenFiles` has one node and takes the fetcher's answers as given.
