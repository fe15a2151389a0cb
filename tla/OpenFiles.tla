----------------------------- MODULE OpenFiles -----------------------------
(***************************************************************************)
(* One file on one node: what it consists of (filesystem/mod.rs, chunk.rs),*)
(* the handles on it with their buffers (fuse/open_file.rs), and the FUSE  *)
(* calls on it (fuse/mod.rs), which let go of all locks while they wait    *)
(* for chunks of other nodes.  Its chunks are in a ChunkStorage, on which  *)
(* the replication of this node works at the same time.                    *)
(*                                                                         *)
(* Data is what it is about, so here a chunk is its bytes, and a hash is   *)
(* the chunk it identifies.                                                *)
(***************************************************************************)
EXTENDS Integers, Sequences, FiniteSets, SequencesExt

CONSTANTS
    Byte,           \* byte values; 0 is what fills gaps
    Typed,          \* model bound: the bytes that users of this node write
    Handle,         \* file handles
    Foreign,        \* chunks of other files that the node reads
    RemoteContents, \* what users on other nodes write into the file
    Ranges,         \* the <<offset, length>> that are read
    Sizes,          \* the sizes to which the file is set
    MaxChunk,       \* FASTCDC_MAX_CHUNK_SIZE
    MaxPinnedBytes,
    MaxCachedBytes,
    MaxSize,        \* model bound: size of the file
    MaxOpens,       \* model bound: handles opened
    MaxWrites,      \* model bound: write calls
    MaxLocal,       \* model bound: truncations and removals by local users
    MaxRemote,      \* model bound: changes by users on other nodes
    MaxOthers       \* model bound: others' steps on the store: chunks of other
                    \* files cached, and what replication does

ASSUME OpenFilesAssumption ==
    /\ Byte \subseteq Nat \ {0} /\ IsFiniteSet(Byte)
    /\ Typed \subseteq Byte
    /\ Foreign \subseteq Seq(Nat) /\ IsFiniteSet(Foreign)
    /\ RemoteContents \subseteq Seq(Byte \cup {0})
    /\ \A data \in RemoteContents : Len(data) <= MaxSize
    /\ Ranges \subseteq Nat \X (Nat \ {0})
    /\ Sizes \subseteq 0..MaxSize
    /\ MaxChunk \in Nat \ {0}
    /\ MaxSize \in Nat \ {0}
    /\ {MaxPinnedBytes, MaxCachedBytes} \subseteq Nat
    /\ {MaxOpens, MaxWrites, MaxLocal, MaxRemote, MaxOthers} \subseteq Nat

VARIABLES
    file,           \* the node of the file: is it there, its size and chunk_refs
    chunks,         \* the fields of ChunkStorage
    cache_lru,
    pinned_bytes,
    cached_bytes,
    handle,         \* handle[h]: the OpenFile of h
    call,           \* call[h]: the call that h is in and how far it has come
    used            \* what has been used of the bounds

storeVars == <<chunks, cache_lru, pinned_bytes, cached_bytes>>
vars == <<file, storeVars, handle, call, used>>

Data == (UNION {[1..n -> Byte \cup {0}] : n \in 1..MaxChunk}) \cup Foreign

Store == INSTANCE ChunkStorage WITH
            Hash <- Data, Size <- [d \in Data |-> Len(d)], MaxBatch <- MaxSize

Lesser(m, n) == IF m < n THEN m ELSE n
Greater(m, n) == IF m > n THEN m ELSE n
Zeros(n) == [i \in 1..n |-> 0]

-----------------------------------------------------------------------------
(***************************************************************************)
(* A file and its chunks.                                                  *)
(***************************************************************************)
\* A cut every MaxChunk bytes.  FastCDC cuts where the contents tell it to, but
\* nothing here depends on where that is.
Split(data) ==
    [i \in 1..((Len(data) + MaxChunk - 1) \div MaxChunk) |->
        SubSeq(data, (i - 1) * MaxChunk + 1, Lesser(i * MaxChunk, Len(data)))]

\* by and handed are history: the node where the contents were written, and the
\* chunks that replication has handed over to other nodes since.
FileOf(data, by) ==
    [there |-> TRUE, by |-> by, handed |-> {}, size |-> Len(data),
     refs |-> [i \in DOMAIN Split(data) |->
                  [hash |-> Split(data)[i], size |-> Len(Split(data)[i])]]]

Gone == [there |-> FALSE, by |-> "elsewhere", handed |-> {}, size |-> 0, refs |-> <<>>]

ChunksOf(f) == {f.refs[i].hash : i \in DOMAIN f.refs}

\* Where the i-th chunk starts.
Start(refs, i) ==
    LET sum[k \in 0..Len(refs)] == IF k = 0 THEN 0 ELSE sum[k - 1] + refs[k].size
    IN  sum[i - 1]

\* chunk::truncate(): all but the last of what is kept are whole.  The mutant
\* keeps that one whole as well.
KeptChunks(refs, size) == Cardinality({i \in DOMAIN refs : Start(refs, i) < size})

TruncatedWhole(refs, size) == SubSeq(refs, 1, KeptChunks(refs, size))

Truncated(refs, size) ==
    [i \in 1..KeptChunks(refs, size) |-> [refs[i] EXCEPT !.size = Lesser(@, size - Start(refs, i))]]

\* truncate_file().
Resized(f, size) == [f EXCEPT !.size = size, !.refs = Truncated(f.refs, size)]

IsStored(hash) == chunks[hash] # "absent"

\* The places of the chunks that have bytes between offset and end, for reading
\* and for what is missing.  The mutant is off by one at the end.
NeededBut(f, offset, end) ==
    {i \in DOMAIN f.refs : /\ Start(f.refs, i) + f.refs[i].size > offset
                           /\ Start(f.refs, i) + 1 < end}

Needed(f, offset, end) ==
    {i \in DOMAIN f.refs : /\ Start(f.refs, i) + f.refs[i].size > offset
                           /\ Start(f.refs, i) < end}

\* read_file(); a chunk that is not in the store reads as zeros.  The mutant
\* takes a chunk for as long as its data.
PieceOfData(ref, start, offset, end) ==
    LET data == IF IsStored(ref.hash) THEN ref.hash ELSE Zeros(ref.size)
    IN  SubSeq(data, Greater(offset - start, 0) + 1, Lesser(end - start, Len(data)))

Piece(ref, start, offset, end) ==
    LET data == IF IsStored(ref.hash) THEN ref.hash ELSE Zeros(ref.size)
    IN  SubSeq(data, Greater(offset - start, 0) + 1,
               Lesser(Lesser(end - start, ref.size), Len(data)))

ReadFile(f, offset, length) ==
    LET end == Lesser(offset + length, f.size)
        needed == Needed(f, offset, end)
    IN  IF offset >= end THEN <<>>
        ELSE FlattenSeq([i \in DOMAIN f.refs |->
                IF i \in needed THEN Piece(f.refs[i], Start(f.refs, i), offset, end) ELSE <<>>])

\* missing_chunk_hashes_for().
Missing(f, offset, length) ==
    LET needed == Needed(f, offset, Lesser(offset + length, f.size))
    IN  FlattenSeq([i \in DOMAIN f.refs |->
            IF i \in needed /\ ~IsStored(f.refs[i].hash) THEN <<f.refs[i].hash>> ELSE <<>>])

\* get() for every chunk that a read comes by.
Touched(f, offset, length) ==
    LET needed == Needed(f, offset, Lesser(offset + length, f.size))
        IsTouched(i) == i \in needed /\ chunks[f.refs[i].hash] = "cached"
        queue[i \in 0..Len(f.refs)] ==
            IF i = 0 THEN cache_lru
            ELSE IF IsTouched(i)
            THEN Append(Store!Retain(queue[i - 1], {f.refs[i].hash}), f.refs[i].hash)
            ELSE queue[i - 1]
    IN  queue[Len(f.refs)]

\* cache_chunk(): a chunk that is there or too large is passed over.
Keep(hash) ==
    \/ Store!Cache(hash)
    \/ (IsStored(hash) \/ Len(hash) > MaxCachedBytes) /\ UNCHANGED storeVars

-----------------------------------------------------------------------------
(***************************************************************************)
(* Handles and calls.  A call that fetches has asked for some hashes, and  *)
(* goes on when all are answered; then it puts list, the chunks that came, *)
(* into the cache, one by one.                                             *)
(***************************************************************************)
\* wrote is history: a write call on the handle has succeeded.
Closed == [open |-> FALSE, loaded |-> FALSE, buffer |-> <<>>, dirty |-> FALSE, size |-> 0,
           wrote |-> FALSE]

NoCall == [kind |-> "none"]

\* What is behind one of hashes in the queue, and these.
Behind(hashes) ==
    {cache_lru[j] : j \in {k \in DOMAIN cache_lru : \E i \in 1..k : cache_lru[i] \in hashes}}

\* calm and seen are history, for one property.  calm: the file has stayed as it
\* is since the call began, and no pin has been taken away.  seen: the chunks
\* that it needs and that are not pinned, with what was used after one of them
\* already, and those that have been put into the cache or read there since.
Fetching(kind, offset, length, byte) ==
    LET from == IF kind = "write" THEN 0 ELSE offset
        missing == Missing(file, from, length)
        needed == Needed(file, from, Lesser(from + length, file.size))
    IN  [kind |-> kind, offset |-> offset, length |-> length, byte |-> byte,
         asked |-> ToSet(missing), list |-> missing, failed |-> FALSE, calm |-> TRUE,
         seen |-> ToSet(missing) \cup Behind({file.refs[i].hash : i \in needed})]

Closing(buffer, wrote) == [kind |-> "close", buffer |-> buffer, wrote |-> wrote]

IsFetching(h) == call[h].kind \in {"read", "write"}
IsReady(h) == IsFetching(h) /\ call[h].asked = {} /\ call[h].list = <<>>

\* The calls once the file has changed under them or a pin is gone, and once
\* chunks of the cache have been used.
Disturbed ==
    [h \in Handle |-> IF IsFetching(h) THEN [call[h] EXCEPT !.calm = FALSE, !.seen = {}]
                      ELSE call[h]]

Noted(hashes) ==
    [h \in Handle |-> IF IsFetching(h) /\ call[h].calm
                      THEN [call[h] EXCEPT !.seen = @ \cup hashes] ELSE call[h]]

\* The kernel lets one write, truncation or removal at a time into an inode;
\* reads and releases do not wait for it.
InodeLocked == \E h \in Handle : call[h].kind = "write"

Use(what, limit) == used[what] < limit /\ used' = [used EXCEPT ![what] = @ + 1]

Init ==
    /\ file = Gone
    /\ Store!Init
    /\ handle = [h \in Handle |-> Closed]
    /\ call = [h \in Handle |-> NoCall]
    /\ used = [opens |-> 0, writes |-> 0, local |-> 0, remote |-> 0, others |-> 0]

Create(h) ==
    /\ handle[h] = Closed /\ call[h] = NoCall
    /\ ~file.there
    /\ file' = FileOf(<<>>, "here")
    /\ handle' = [handle EXCEPT ![h] = [Closed EXCEPT !.open = TRUE, !.loaded = TRUE]]
    /\ call' = Disturbed
    /\ Use("opens", MaxOpens)
    /\ UNCHANGED storeVars

Open(h) ==
    /\ handle[h] = Closed /\ call[h] = NoCall
    /\ file.there
    /\ handle' = [handle EXCEPT ![h] = [Closed EXCEPT !.open = TRUE, !.size = file.size]]
    /\ Use("opens", MaxOpens)
    /\ UNCHANGED <<file, storeVars, call>>

\* A read of a handle with a buffer changes nothing.
Read(h, offset, length) ==
    /\ handle[h].open /\ ~handle[h].loaded /\ call[h] = NoCall
    /\ file.there
    /\ call' = [call EXCEPT ![h] = Fetching("read", offset, length, 0)]
    /\ UNCHANGED <<file, storeVars, handle, used>>

\* OpenFileManager::write().  The mutant is off by one when it makes room.
OverwrittenWide(buffer, offset, byte) ==
    [i \in 1..Greater(Len(buffer), offset + 2) |->
        IF i = offset + 1 THEN byte ELSE IF i <= Len(buffer) THEN buffer[i] ELSE 0]

Overwritten(buffer, offset, byte) ==
    [i \in 1..Greater(Len(buffer), offset + 1) |->
        IF i = offset + 1 THEN byte ELSE IF i <= Len(buffer) THEN buffer[i] ELSE 0]

WriteBuffer(h, buffer, offset, byte) ==
    handle' = [handle EXCEPT ![h].loaded = TRUE,
                             ![h].buffer = Overwritten(buffer, offset, byte),
                             ![h].size = Greater(@, offset + 1),
                             ![h].dirty = TRUE, ![h].wrote = TRUE]

Write(h, offset, byte) ==
    /\ handle[h].open /\ call[h] = NoCall
    /\ ~InodeLocked
    /\ Use("writes", MaxWrites)
    /\ \/ /\ handle[h].loaded
          /\ WriteBuffer(h, handle[h].buffer, offset, byte)
          /\ UNCHANGED call
       \/ /\ ~handle[h].loaded
          /\ file.there
          /\ call' = [call EXCEPT ![h] = Fetching("write", offset, MaxSize, byte)]
          /\ UNCHANGED handle
    /\ UNCHANGED <<file, storeVars>>

\* The fetcher's answer; the fetcher has put the chunk into the store already.
Answer(h, hash) ==
    /\ IsFetching(h)
    /\ hash \in call[h].asked
    /\ \/ /\ Keep(hash)
          /\ call' = [Noted({hash}) EXCEPT ![h].asked = @ \ {hash}]
       \/ /\ UNCHANGED storeVars
          /\ call' = [call EXCEPT ![h].asked = @ \ {hash}, ![h].failed = TRUE,
                                  ![h].list = Store!Retain(@, {hash})]
    /\ UNCHANGED <<file, handle, used>>

KeepChunk(h) ==
    /\ IsFetching(h)
    /\ call[h].asked = {} /\ call[h].list # <<>>
    /\ Keep(Head(call[h].list))
    /\ call' = [Noted({Head(call[h].list)}) EXCEPT ![h].list = Tail(@)]
    /\ UNCHANGED <<file, handle, used>>

\* EIO, or the file has been removed meanwhile.
GiveUp(h) ==
    /\ IsReady(h)
    /\ call[h].failed \/ ~file.there
    /\ call' = [call EXCEPT ![h] = NoCall]
    /\ UNCHANGED <<file, storeVars, handle, used>>

ReadStored(h, offset, length) ==
    LET needed == Needed(file, offset, Lesser(offset + length, file.size))
        touched == {file.refs[i].hash : i \in needed} \cap Store!CachedHashes
    IN  /\ IsReady(h) /\ ~call[h].failed /\ file.there
        /\ cache_lru' = Touched(file, offset, length)
        /\ call' = [Noted(touched) EXCEPT ![h] = NoCall]
        /\ UNCHANGED <<file, chunks, pinned_bytes, cached_bytes, used>>

FinishRead(h) ==
    /\ call[h].kind = "read"
    /\ ReadStored(h, call[h].offset, call[h].length)
    /\ UNCHANGED handle

\* read_file_all(), set_buffer() and the write.
FinishWrite(h) ==
    /\ call[h].kind = "write"
    /\ ReadStored(h, 0, file.size)
    /\ WriteBuffer(h, ReadFile(file, 0, file.size), call[h].offset, call[h].byte)

\* release(): first the handle goes ...  The mutant forgets what dirty is for.
ReleaseLoaded(h) ==
    /\ handle[h].open /\ call[h] = NoCall
    /\ handle' = [handle EXCEPT ![h] = Closed]
    /\ call' = [call EXCEPT ![h] =
                    IF handle[h].loaded THEN Closing(handle[h].buffer, handle[h].wrote) ELSE NoCall]
    /\ UNCHANGED <<file, storeVars, used>>

Release(h) ==
    /\ handle[h].open /\ call[h] = NoCall
    /\ handle' = [handle EXCEPT ![h] = Closed]
    /\ call' = [call EXCEPT ![h] =
                    IF handle[h].dirty THEN Closing(handle[h].buffer, handle[h].wrote) ELSE NoCall]
    /\ UNCHANGED <<file, storeVars, used>>

\* ... then its buffer becomes the file, unless that has been removed or the
\* pins are full.  The mutant writes the file all the same if they are full.
WriteFileAnyway(data) ==
    /\ Store!TryPin(Split(data)) \/ Store!TryPinFull(Split(data))
    /\ file' = FileOf(data, "here")

WriteFile(data) ==
    \/ Store!TryPin(Split(data)) /\ file' = FileOf(data, "here")
    \/ Store!TryPinFull(Split(data)) /\ UNCHANGED file

WriteBack(h) ==
    /\ call[h].kind = "close"
    /\ \/ file.there /\ WriteFile(call[h].buffer)
       \/ ~file.there /\ UNCHANGED <<file, storeVars>>
    /\ call' = [Disturbed EXCEPT ![h] = NoCall]
    /\ UNCHANGED <<handle, used>>

\* setattr() with a size; it does not look at handles.
SetSize(size) ==
    /\ file.there /\ ~InodeLocked
    /\ file' = Resized(file, size)
    /\ call' = Disturbed
    /\ Use("local", MaxLocal)
    /\ UNCHANGED <<storeVars, handle>>

Unlink ==
    /\ file.there /\ ~InodeLocked
    /\ file' = Gone
    /\ call' = Disturbed
    /\ Use("local", MaxLocal)
    /\ UNCHANGED <<storeVars, handle>>

\* Operations of other nodes come in at any time: they remove the file, write it,
\* or truncate it.
RemoteChange ==
    /\ \/ file' \in {Gone} \cup {FileOf(data, "elsewhere") : data \in RemoteContents}
       \/ file.there /\ \E size \in Sizes : file' = Resized(file, size)
    /\ call' = Disturbed
    /\ Use("remote", MaxRemote)
    /\ UNCHANGED <<storeVars, handle>>

ReadOther(data) ==
    /\ Keep(data)
    /\ call' = Noted({data})
    /\ Use("others", MaxOthers)
    /\ UNCHANGED <<file, handle>>

(***************************************************************************)
(* The replication of this node, which has a module of its own, on the     *)
(* chunks that are reachable, from this file or from others.  Who is       *)
(* designated and who has confirmed is nothing that users of the file know *)
(* of: here it happens whenever the store allows it.  A promotion that the *)
(* store refuses changes nothing.                                          *)
(***************************************************************************)
Reachable == ChunksOf(file) \cup Foreign

\* What may arrive: when a chunk comes that was wanted, the file may be another.
Fetchable == Reachable \cup UNION {ChunksOf(FileOf(data, "elsewhere")) : data \in RemoteContents}

\* evict_confirmed() of a chunk that the designated peers hold now.
HandOver(hash) ==
    /\ Store!EvictPinned(hash)
    /\ file' = [file EXCEPT !.handed = @ \cup ({hash} \cap ChunksOf(file))]
    /\ call' = Disturbed
    /\ Use("others", MaxOthers)
    /\ UNCHANGED handle

\* rebalance() of a chunk that is in the cache.
Promote(hash) ==
    /\ Store!PromoteToPinned(hash)
    /\ Use("others", MaxOthers)
    /\ UNCHANGED <<file, handle, call>>

\* The fetcher has a chunk that rebalance() wants: it is pinned, or cached if
\* the pins are full.  (If a call waits for it too, its Answer is next; if it has
\* been pinned meanwhile, nothing changes.)
PinArrives(hash) ==
    /\ chunks[hash] # "pinned"
    /\ \/ Store!TryPin(<<hash>>) /\ UNCHANGED call
       \/ /\ pinned_bytes + Store!RequiredBytes(<<hash>>) > MaxPinnedBytes
          /\ Keep(hash)
          /\ call' = Noted({hash})
    /\ Use("others", MaxOthers)
    /\ UNCHANGED <<file, handle>>

Next ==
    \/ \E h \in Handle :
        \/ Create(h) \/ Open(h) \/ Release(h) \/ WriteBack(h)
        \/ KeepChunk(h) \/ GiveUp(h) \/ FinishRead(h) \/ FinishWrite(h)
        \/ \E r \in Ranges : Read(h, r[1], r[2])
        \/ \E offset \in 0..(MaxSize - 1) : \E byte \in Typed : Write(h, offset, byte)
        \/ \E hash \in Data : Answer(h, hash)
    \/ \E size \in Sizes : SetSize(size)
    \/ Unlink \/ RemoteChange
    \/ \E data \in Foreign : ReadOther(data)
    \/ \E hash \in Reachable : HandOver(hash) \/ Promote(hash)
    \/ \E hash \in Fetchable : PinArrives(hash)

Spec == Init /\ [][Next]_vars

-----------------------------------------------------------------------------
(***************************************************************************)
(* Properties.                                                             *)
(***************************************************************************)

\* Shape of the state; no handle is in two calls.
TypeOK ==
    /\ file.size \in 0..MaxSize
    /\ file.refs \in Seq([hash : Data, size : 1..MaxChunk])
    /\ Store!TypeOK
    /\ \A h \in Handle :
        /\ handle[h].buffer \in Seq(Byte \cup {0}) /\ Len(handle[h].buffer) <= MaxSize
        /\ handle[h].size \in 0..MaxSize
        /\ handle[h].loaded \/ ~handle[h].dirty
        /\ call[h].kind \in {"none", "read", "write", "close"}
        /\ IsFetching(h) => call[h].asked \subseteq ToSet(call[h].list)

\* The bytes of a file, and the chunk that each comes from.
Bytes(f) == FlattenSeq([i \in DOMAIN f.refs |-> SubSeq(f.refs[i].hash, 1, f.refs[i].size)])
Origins(f) == FlattenSeq([i \in DOMAIN f.refs |-> [k \in 1..f.refs[i].size |-> f.refs[i].hash]])
Content(f) == Bytes(f) \o Zeros(f.size - Len(Bytes(f)))
Slice(s, offset, length) == SubSeq(s, offset + 1, Lesser(offset + length, Len(s)))

\* Whatever the range, what read_file() returns is the beginning of what is
\* asked for, with zeros exactly for the bytes whose chunk is not in the store:
\* no byte is displaced, doubled or from beyond the end of a truncated chunk.
\* And it is all of what is asked for, but for one case: a file that truncation
\* has made larger has no chunks for what was added, and there a read gives no
\* zeros but ends where the chunks end, or gives nothing if it begins after them.
ReadExact ==
    LET bytes == Bytes(file)
        origins == Origins(file)
        held == [k \in 1..file.size |->
                    IF k <= Len(bytes) /\ IsStored(origins[k]) THEN bytes[k] ELSE 0]
    IN  \A offset \in 0..MaxSize : \A length \in 1..MaxSize :
            LET read == ReadFile(file, offset, length)
                asked == Slice(held, offset, length)
            IN  /\ IsPrefix(read, asked)
                /\ Len(read) < Len(asked) =>
                    /\ offset + Len(asked) > Len(bytes)
                    /\ Len(read) = Greater(Len(bytes) - offset, 0)

\* missing_chunk_hashes_for() names the chunks that a read of the range would
\* replace by zeros, all of them and no others (of a range that is not empty:
\* the kernel asks for no other).
MissingExact ==
    LET origins == Origins(file)
    IN  \A offset \in 0..MaxSize : \A length \in 1..MaxSize :
            ToSet(Missing(file, offset, length)) =
                {hash \in ToSet(Slice(origins, offset, length)) : ~IsStored(hash)}

\* Truncating keeps what is before the new end, and what was cut off does not
\* come back if the file grows again (Content has zeros for what it grows by,
\* for which there are no chunks).
TruncateExact ==
    LET content == Content(file)
    IN  \A size \in 0..MaxSize :
            LET resized == Resized(file, size)
                kept == Slice(content, 0, size)
            IN  /\ Content(resized) = kept \o Zeros(size - Len(kept))
                /\ Content(Resized(resized, MaxSize)) = kept \o Zeros(MaxSize - Len(kept))

\* What was written on this node, and closed without an error, stays pinned here
\* until somebody else changes the file, but for the chunks that replication
\* itself has handed over to their designated holders: no other write, read,
\* fetch, promotion or truncation displaces it, and a full store refuses the
\* write and leaves the file as it is.
WrittenStaysHere ==
    file.by = "here" => \A hash \in ChunksOf(file) \ file.handed : chunks[hash] = "pinned"

\* Closing a handle through which nothing was written leaves the file alone,
\* also if the handle has created the file and others have written it since;
\* and it does not bring a removed file back.
OnlyWritersChange ==
    [][\A h \in Handle :
        (call[h].kind = "close" /\ call'[h].kind = "none" /\ file' # file)
        => call[h].wrote /\ file.there]_vars

\* The read or the write that has fetched what was missing finds all of it, in
\* whatever order answers came and whatever other reads, fetches and replication
\* did with the store meanwhile, if the file and the pins stayed as they were
\* and what was used meanwhile fits into the cache together with what is needed.
FetchedIsThere ==
    \A h \in Handle :
        (IsReady(h) /\ ~call[h].failed /\ call[h].calm
         /\ Store!TotalBytes(call[h].seen) <= MaxCachedBytes)
        => Missing(file, IF call[h].kind = "read" THEN call[h].offset ELSE 0, call[h].length) = <<>>

\* README, lines 43 and 44, "buffers open files so reads and writes work on a
\* consistent snapshot": the first write through a handle changes what it
\* writes and nothing else of the file.
SnapshotIsVersion ==
    [][\A h \in Handle :
        (handle[h].open /\ ~handle[h].loaded /\ handle'[h].loaded)
        => handle'[h].buffer = Overwritten(Content(file), call[h].offset, call[h].byte)]_vars

=============================================================================
