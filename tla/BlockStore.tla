----------------------------- MODULE BlockStore -----------------------------
(***************************************************************************)
(* The unified block store, the index every guest read goes through.  A    *)
(* block that is only in memory has an entry in its shard (Hot: written,   *)
(* Pending: in the WAL); a block that is on the backend is covered by an   *)
(* extent.  MarkPersistedRange moves a run from the one to the other in    *)
(* three passes with the locks released in between, while readers look     *)
(* first at the shard and then at the extents, and writers put newer       *)
(* entries in.                                                             *)
(*                                                                         *)
(* Every write is a partial one: it reads the block, splices its bytes in, *)
(* reserves a SeqNum, appends the record to Writes.Blocks and publishes    *)
(* the entry, all under the block's RMW lock.  A whole-block write is the  *)
(* same without the read.  A record stands for its data.                   *)
(***************************************************************************)
EXTENDS Extents

CONSTANTS
    NumBlocks,      \* blocks of the volume
    ChunkBlocks,    \* ObjBlockSize / BlockSize
    Writers,        \* guest writes in flight
    MaxSeqNum       \* bound: the SeqNum, so MaxSeqNum - NumBlocks writes

ASSUME StoreAssumption ==
    /\ NumBlocks \in Nat \ {0} /\ ChunkBlocks \in Nat \ {0}
    /\ Writers \in Nat \ {0} /\ MaxSeqNum \in Nat

Blocks == 0..(NumBlocks - 1)

VARIABLES
    \* the shards' entries, block -> [state, seq]; persistedExtents
    shard, extents,
    \* BlocksToObject, ObjectNum and the chunk objects (ObjectID -> records)
    lookup, objNum, chunks,
    \* vb.SeqNum, Writes.Blocks, whether a flush holds Writes.mu, the records
    \* of the open WAL segment, the chunks of the drain in progress
    seqNum, writes, flushing, wal, jobs,
    \* the MarkPersistedRange in progress (under BlocksToObject.mu): its step,
    \* its run, the blocks it has still to visit, those found eligible
    mark,
    \* the write of each block and the one read in progress
    writer, reader,
    \* history: the newest published write of each block
    done

storeVars == <<shard, extents>>
mapVars   == <<lookup, objNum, chunks>>
drainVars == <<seqNum, writes, flushing, wal, jobs>>
vars == <<storeVars, mapVars, drainVars, mark, writer, reader, done>>

Nothing == [b \in {} |-> 0]
NoMark == [at |-> "idle", n |-> 0, left |-> {}, ok |-> {}]
NoRead == [at |-> "idle", pos |-> 0, last |-> 0, floor |-> Nothing,
           found |-> Nothing, got |-> Nothing]
NoWrite == [at |-> "idle", base |-> 0, seq |-> 0]

\* SetPersistedRange for the entries of a loaded map.
SetPersistedRange(m) == m

\* A volume opened empty or with every block in chunk 0; its SeqNum is the
\* high-water mark, the same in both.
Init ==
    /\ shard = Nothing
    /\ \E n \in {0, NumBlocks} :
           /\ lookup = IF n = 0 THEN {}
                       ELSE {[start |-> 0, obj |-> 0, off |-> 0, seqs |-> [i \in 1..n |-> i]]}
           /\ extents = SetPersistedRange(lookup)
           /\ objNum = IF n = 0 THEN 0 ELSE 1
           /\ chunks = IF n = 0 THEN Nothing ELSE With(Nothing, 0, [b \in Blocks |-> b + 1])
           /\ done = [b \in Blocks |-> IF n = 0 THEN 0 ELSE b + 1]
    /\ seqNum = NumBlocks
    /\ writes = <<>> /\ flushing = FALSE /\ wal = Nothing /\ jobs = {}
    /\ mark = NoMark
    /\ writer = [b \in Blocks |-> NoWrite]
    /\ reader = NoRead

-----------------------------------------------------------------------------
(* ReadEntry, in its two critical sections.                                *)

Location(m, b) ==
    LET e == Resolve(m, b)
    IN  [mem |-> FALSE, obj |-> e.obj, off |-> OffsetAt(e, b), seq |-> SeqNumAt(e, b)]
InMemory(s) == [mem |-> TRUE, obj |-> 0, off |-> 0, seq |-> s]

\* persistedMu is free: pass 2 of a mark (below) has not begun or is over.
PersistedMuFree == mark.at = "extents" => mark.left = mark.ok

\* readPersisted, or no entry at all: a block of zeroes (SeqNum 0).
ReadPersisted(b) == IF Mapped(extents, b) THEN Location(extents, b) ELSE InMemory(0)

\* The record at a position of a chunk object, as <<block, SeqNum>>.
RecordAt(o, off) ==
    LET c == chunks[o]
        at == {b \in DOMAIN c : Cardinality({x \in DOMAIN c : x < b}) = off}
    IN  IF at = {} THEN <<NumBlocks, 0>> ELSE <<Min(at), c[Min(at)]>>

\* fetchConsecutiveBlocksFromBackend: neighbouring blocks in one chunk are
\* fetched together, from the position of the first of them.
Joined(found, a, b) ==
    \A c \in a..b : ~found[c].mem /\ found[c].obj = found[b].obj

Fetch(found) ==
    [b \in DOMAIN found |->
        IF found[b].mem THEN <<b, found[b].seq>>
        ELSE LET a == Min({x \in DOMAIN found : x <= b /\ Joined(found, x, b)})
             IN  RecordAt(found[b].obj, found[a].off + (b - a))]

-----------------------------------------------------------------------------
(* Guest reads: readBlockStore, block by block.                            *)

StartRead ==
    /\ reader.at = "idle"
    /\ \E a, c \in Blocks :
           a <= c /\ reader' = [NoRead EXCEPT !.at = "shard", !.pos = a, !.last = c,
                                              !.floor = [b \in a..c |-> done[b]]]
    /\ UNCHANGED <<storeVars, mapVars, drainVars, mark, writer, done>>

Found(b, x) ==
    [reader EXCEPT !.found = With(@, b, x),
                   !.pos = b + 1,
                   !.at = IF b = reader.last THEN "fetch" ELSE "shard"]

ReadShard ==
    /\ reader.at = "shard"
    /\ reader' = IF reader.pos \in DOMAIN shard
                 THEN Found(reader.pos, InMemory(shard[reader.pos].seq))
                 ELSE [reader EXCEPT !.at = "extent"]
    /\ UNCHANGED <<storeVars, mapVars, drainVars, mark, writer, done>>

ReadExtent ==
    /\ reader.at = "extent" /\ PersistedMuFree
    /\ reader' = Found(reader.pos, ReadPersisted(reader.pos))
    /\ UNCHANGED <<storeVars, mapVars, drainVars, mark, writer, done>>

\* The fetch, and Cache for every block of it, which finds no entry in state
\* Persisted and does nothing.
ReadFetch ==
    /\ reader.at = "fetch"
    /\ reader' = [reader EXCEPT !.at = "done", !.got = Fetch(reader.found)]
    /\ UNCHANGED <<storeVars, mapVars, drainVars, mark, writer, done>>

ReadReturns ==
    /\ reader.at = "done"
    /\ reader' = NoRead
    /\ UNCHANGED <<storeVars, mapVars, drainVars, mark, writer, done>>

-----------------------------------------------------------------------------
(* Guest writes: writeOneBlockLocked.                                      *)

At(b, pc) == writer[b].at = pc
WriterStep(b, w) == writer' = [writer EXCEPT ![b] = w]

\* Lock the block and look for it in its shard.
WriteReadShard(b) ==
    /\ At(b, "idle") /\ seqNum < MaxSeqNum
    /\ Cardinality({c \in Blocks : ~At(c, "idle")}) < Writers
    /\ WriterStep(b, IF b \in DOMAIN shard
                     THEN [NoWrite EXCEPT !.at = "reserve", !.base = shard[b].seq]
                     ELSE [NoWrite EXCEPT !.at = "extent"])
    /\ UNCHANGED <<storeVars, mapVars, drainVars, mark, reader, done>>

\* ... or else in the extents, and fetch it: no chunk is changed or deleted
\* here, so the fetch sees what it would see later.
WriteReadExtent(b) ==
    /\ At(b, "extent") /\ PersistedMuFree
    /\ WriterStep(b, [NoWrite EXCEPT !.at = "reserve",
                                     !.base = Fetch([x \in {b} |-> ReadPersisted(x)])[b][2]])
    /\ UNCHANGED <<storeVars, mapVars, drainVars, mark, reader, done>>

WriteReserve(b) ==
    /\ At(b, "reserve") /\ seqNum < MaxSeqNum
    /\ seqNum' = seqNum + 1
    /\ WriterStep(b, [writer[b] EXCEPT !.at = "append", !.seq = seqNum + 1])
    /\ UNCHANGED <<storeVars, mapVars, writes, flushing, wal, jobs, mark, reader, done>>

\* Writes.mu is not held by a flush.
WriteAppend(b) ==
    /\ At(b, "append") /\ ~flushing
    /\ writes' = Append(writes, <<b, writer[b].seq>>)
    /\ WriterStep(b, [writer[b] EXCEPT !.at = "publish"])
    /\ UNCHANGED <<storeVars, mapVars, seqNum, flushing, wal, jobs, mark, reader, done>>

\* WriteWithSeqNum, and the lock is released.
WritePublish(b) ==
    /\ At(b, "publish")
    /\ shard' = IF b \in DOMAIN shard /\ shard[b].seq >= writer[b].seq THEN shard
                ELSE With(shard, b, [state |-> "hot", seq |-> writer[b].seq])
    /\ done' = [done EXCEPT ![b] = writer[b].seq]
    /\ WriterStep(b, NoWrite)
    /\ UNCHANGED <<extents, mapVars, drainVars, mark, reader>>

-----------------------------------------------------------------------------
(* Flush and drain.                                                        *)

\* flushLocked, record by record: WriteWAL, then MarkPending by block number.
\* The first record's step takes Writes.mu, the last one's releases it.
FlushRecord ==
    /\ writes # <<>>
    /\ LET b == Head(writes)[1]
           s == Head(writes)[2]
       IN  /\ wal' = IF b \in DOMAIN wal /\ wal[b] >= s THEN wal ELSE With(wal, b, s)
           /\ shard' = IF b \in DOMAIN shard THEN [shard EXCEPT ![b].state = "pending"]
                       ELSE shard
    /\ writes' = Tail(writes)
    /\ flushing' = (Tail(writes) # <<>>)
    /\ UNCHANGED <<extents, mapVars, seqNum, jobs, mark, writer, reader, done>>

\* Under drainMu, after its flush: the segment becomes chunks.
StartDrain ==
    /\ jobs = {} /\ mark = NoMark /\ DOMAIN wal # {}
    /\ LET pos(b)  == Cardinality({x \in DOMAIN wal : x < b})
           part(k) == {b \in DOMAIN wal : pos(b) \div ChunkBlocks = k}
           cut(k)  == [b \in part(k) |-> wal[b]]
       IN  jobs' = {[chunk |-> cut(pos(b) \div ChunkBlocks), id |-> 0, put |-> FALSE,
                     todo |-> cut(pos(b) \div ChunkBlocks)] : b \in DOMAIN wal}
    /\ wal' = Nothing
    /\ UNCHANGED <<storeVars, mapVars, seqNum, writes, flushing, mark, writer, reader, done>>

\* A worker allocates the ObjectID and PUTs the chunk.
PutChunk(j) ==
    /\ j \in jobs /\ ~j.put
    /\ chunks' = With(chunks, objNum, j.chunk)
    /\ objNum' = objNum + 1
    /\ jobs' = (jobs \ {j}) \cup {[j EXCEPT !.put = TRUE, !.id = objNum]}
    /\ UNCHANGED <<storeVars, lookup, seqNum, writes, flushing, wal, mark, writer, reader, done>>

\* BlocksToObject.mu is free for j: no mark is in progress and no other job
\* is half done.
HasMapMu(j) == mark.at = "idle" /\ \A k \in jobs \ {j} : k.todo = k.chunk

\* Mutant: the job stays when its last run is taken.
StartRunKeepsJob(j) ==
    /\ j \in jobs /\ j.put /\ HasMapMu(j) /\ DOMAIN j.todo # {}
    /\ LET run  == FirstRun(j.todo)
           n    == RunEntry(j.chunk, run, j.id)
           rest == [b \in DOMAIN j.todo \ run |-> j.todo[b]]
       IN  /\ lookup' = Insert(lookup, n)
           /\ mark' = [at |-> "sample", n |-> n, left |-> run, ok |-> {}]
           /\ jobs' = (jobs \ {j}) \cup {[j EXCEPT !.todo = rest]}
    /\ UNCHANGED <<storeVars, objNum, chunks, seqNum, writes, flushing, wal, writer, reader,
                   done>>

\* createChunkFile's loop body: the run goes into the map and on to
\* MarkPersistedRange, or is rejected as stale.
StartRun(j) ==
    /\ j \in jobs /\ j.put /\ HasMapMu(j)
    /\ LET run  == FirstRun(j.todo)
           n    == RunEntry(j.chunk, run, j.id)
           rest == [b \in DOMAIN j.todo \ run |-> j.todo[b]]
       IN  /\ IF Stale(lookup, n)
              THEN UNCHANGED <<lookup, mark>>
              ELSE /\ lookup' = Insert(lookup, n)
                   /\ mark' = [at |-> "sample", n |-> n, left |-> run, ok |-> {}]
           /\ jobs' = (jobs \ {j}) \cup
                      (IF DOMAIN rest = {} THEN {} ELSE {[j EXCEPT !.todo = rest]})
    /\ UNCHANGED <<storeVars, objNum, chunks, seqNum, writes, flushing, wal, writer, reader,
                   done>>

-----------------------------------------------------------------------------
(* MarkPersistedRange.                                                     *)

\* The entry is still the one the chunk was sealed from.
Eligible(b) ==
    /\ b \in DOMAIN shard
    /\ shard[b].state = "pending" /\ shard[b].seq = SeqNumAt(mark.n, b)

\* Mutant: the entry is removed in the pass that looks at it.
SampleRemoves(b) ==
    /\ mark.at = "sample" /\ b = Min(mark.left)
    /\ LET ok   == IF Eligible(b) THEN mark.ok \cup {b} ELSE mark.ok
           left == mark.left \ {b}
       IN  /\ mark' = IF left # {} THEN [mark EXCEPT !.left = left, !.ok = ok]
                      ELSE IF ok = {} THEN NoMark
                      ELSE [mark EXCEPT !.at = "extents", !.left = ok, !.ok = ok]
           /\ shard' = [c \in DOMAIN shard \ ok |-> shard[c]]
    /\ UNCHANGED <<extents, mapVars, drainVars, writer, reader, done>>

\* Pass 1: which blocks are eligible, one shard lock after the other.
Sample(b) ==
    /\ mark.at = "sample" /\ b = Min(mark.left)
    /\ LET ok   == IF Eligible(b) THEN mark.ok \cup {b} ELSE mark.ok
           left == mark.left \ {b}
       IN  mark' = IF left # {} THEN [mark EXCEPT !.left = left, !.ok = ok]
                   ELSE IF ok = {} THEN NoMark
                   ELSE [mark EXCEPT !.at = "extents", !.left = ok, !.ok = ok]
    /\ UNCHANGED <<storeVars, mapVars, drainVars, writer, reader, done>>

\* Mutant: every sub-run gets the offset of the whole run.
SubRunKeepsOffset(n, seqs) ==
    LET run == FirstRun(seqs)
        a   == Min(run)
    IN  [start |-> a, obj |-> n.obj, off |-> n.off,
         seqs  |-> [i \in 1..Cardinality(run) |-> seqs[(a + i) - 1]]]

\* The extent of the first consecutive blocks among eligible ones of n.
SubRun(n, seqs) ==
    LET run == FirstRun(seqs)
        a   == Min(run)
    IN  [start |-> a, obj |-> n.obj, off |-> OffsetAt(n, a),
         seqs  |-> [i \in 1..Cardinality(run) |-> seqs[(a + i) - 1]]]

\* Mutant: overlapping extents are not fractured.
FractureNothing(m, n) == m \cup {n}

\* fractureOverlapsLocked and the insertion of the extent.
Fracture(m, n) == Insert(m, n)

\* Pass 2, sub-run by sub-run: the first one's step takes persistedMu, the
\* last one's releases it.
InstallExtent ==
    /\ mark.at = "extents"
    /\ LET seqs == [b \in mark.left |-> SeqNumAt(mark.n, b)]
           left == mark.left \ FirstRun(seqs)
       IN  /\ extents' = Fracture(extents, SubRun(mark.n, seqs))
           /\ mark' = IF left # {} THEN [mark EXCEPT !.left = left]
                      ELSE [mark EXCEPT !.at = "remove", !.left = mark.ok]
    /\ UNCHANGED <<shard, mapVars, drainVars, writer, reader, done>>

\* Mutant: pass 3 trusts pass 1.
RemoveUnchecked(b) ==
    /\ mark.at = "remove" /\ b = Min(mark.left)
    /\ shard' = [c \in DOMAIN shard \ {b} |-> shard[c]]
    /\ mark' = IF mark.left = {b} THEN NoMark ELSE [mark EXCEPT !.left = @ \ {b}]
    /\ UNCHANGED <<extents, mapVars, drainVars, writer, reader, done>>

\* Pass 3: the entry is removed unless a newer write has replaced it.
Remove(b) ==
    /\ mark.at = "remove" /\ b = Min(mark.left)
    /\ shard' = IF Eligible(b) THEN [c \in DOMAIN shard \ {b} |-> shard[c]] ELSE shard
    /\ mark' = IF mark.left = {b} THEN NoMark ELSE [mark EXCEPT !.left = @ \ {b}]
    /\ UNCHANGED <<extents, mapVars, drainVars, writer, reader, done>>

-----------------------------------------------------------------------------
Next ==
    \/ StartRead \/ ReadShard \/ ReadExtent \/ ReadFetch \/ ReadReturns
    \/ \E b \in Blocks : \/ WriteReadShard(b) \/ WriteReadExtent(b) \/ WriteReserve(b)
                         \/ WriteAppend(b) \/ WritePublish(b)
    \/ FlushRecord \/ StartDrain
    \/ \E j \in jobs : PutChunk(j) \/ StartRun(j)
    \/ \E b \in mark.left : Sample(b) \/ Remove(b)
    \/ InstallExtent

Spec == Init /\ [][Next]_vars

-----------------------------------------------------------------------------
Extent == [start : Blocks, obj : Nat, off : Nat, seqs : Seq(Nat)]

\* The variables keep their types; a job that is not finished has blocks
\* left and a mark in progress has blocks of its own run.
TypeOK ==
    /\ \A b \in DOMAIN shard : /\ b \in Blocks /\ shard[b].seq \in 1..seqNum
                               /\ shard[b].state \in {"hot", "pending"}
    /\ extents \subseteq Extent /\ lookup \subseteq Extent
    /\ objNum \in Nat /\ DOMAIN chunks = 0..(objNum - 1)
    /\ seqNum \in Nat /\ flushing \in BOOLEAN /\ DOMAIN wal \subseteq Blocks
    /\ \A j \in jobs : DOMAIN j.todo # {} /\ DOMAIN j.todo \subseteq DOMAIN j.chunk
    /\ mark.at \in {"idle", "sample", "extents", "remove"}
    /\ mark.at # "idle" => \A b \in mark.left \cup mark.ok : Covers(mark.n, b)
    /\ \A b \in Blocks : writer[b].at \in {"idle", "extent", "reserve", "append", "publish"}
    /\ reader.at \in {"idle", "shard", "extent", "fetch", "done"}
    /\ done \in [Blocks -> Nat]

\* A read returns, for every block, a record at least as new as the newest
\* write that was complete when the read began, also while a drain moves the
\* block from its shard to the extents ("no reader ever observes a block as
\* unwritten mid-transition", MarkPersistedRange).
ReadsFresh ==
    reader.at = "done" => \A b \in DOMAIN reader.got :
        reader.got[b][1] = b /\ reader.got[b][2] >= reader.floor[b]

\* What a read fetches is the very record whose SeqNum the index gave it, so
\* its nonce opens it, also when neighbouring blocks are fetched as one run
\* (ReadEntry, fetchConsecutiveBlocksFromBackend).
ReadsOpen ==
    reader.at = "done" => \A b \in DOMAIN reader.got :
        reader.got[b] = <<b, reader.found[b].seq>>

\* A partial write splices onto the newest published record of its block, so
\* no splice is lost (writeOneBlockLocked).
SpliceKeepsNewest ==
    \A b \in Blocks : writer[b].at \in {"reserve", "append", "publish"} =>
        writer[b].base = done[b]

\* The two indexes of what is on the backend agree: a block with no entry in
\* its shard, no write and no mark in progress is at the same place in the
\* extents and in BlocksToObject (MarkPersistedRange, createChunkFile).
IndexesAgree ==
    \A b \in Blocks \ DOMAIN shard : mark.at = "idle" /\ At(b, "idle") =>
        /\ Mapped(extents, b) <=> Mapped(lookup, b)
        /\ Mapped(extents, b) => Location(extents, b) = Location(lookup, b)
=============================================================================
