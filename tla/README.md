# A TLA+ verification of viperblock

viperblock is a network block device engine: a guest reads and writes fixed-size
blocks through an nbdkit plugin, the engine buffers the writes, logs them to a local
WAL and packs them into immutable chunk objects on an S3-like backend. This directory
models the parts of it that decide whether the guest's data is still there and can
still be decrypted and model-checks them with TLC. With TLAPS it proves, for every size of
the system, that no nonce is used twice, that what was flushed survives, that the block
map stays exact, that reads beside drains see the newest data, that the chunk GC deletes
nothing that is needed, that snapshots and clones read what they should and that buffering
is bounded, each under hypotheses that name the code paths that break it. `PROJECT.json`
lists, for every definition, the lines of `src/` it models.

Paths below are relative to `src/`; `V` is `viperblock/viperblock.go`.

## 1. The system

| Part | State | Operations | Hard behaviour |
|---|---|---|---|
| SeqNum reservation, volume state (`V`, `crypto.go`) | `SeqNum`, `seqNumHighWater`, `nextStateSeqNum`, `VolumeUUID`; `config.json` locally and on the backend | `reserveSeqNum`, `SaveState`, `EnsureVolumeUUID`, `LoadState`, `Close` | lock-free fast path, persist before publish, crash between the two, pushes that are late or lost |
| Write buffer and WAL (`V`) | `Writes.Blocks`, WAL segments | `WriteAt`, `Flush`, rotation | partial flush, crash, rotation beside flushes |
| Drain and block map (`V`) | `BlocksToObject`, `gcRefcount`, `ObjectNum`, chunk objects, live and numbered checkpoints | `DrainToBackendCtx`, `createChunkFile`, `insertCoalescedLocked`, `SaveLiveCheckpoint`, `SaveBlockState` | parallel uploads, one failing of several, extents split by later runs, stale drains |
| Recovery and Close (`V`, `nbd/viperblock.go`) | all files and objects above | `RecoverLocalWALs`, `LoadLiveCheckpoint`, `Close` | crash at every step, replay of what was already persisted |
| Unified block store (`viperblock/blockstore.go`) | 16 shards of entries (Hot, Pending), persisted extents | `ReadEntry`, `WriteWithSeqNum`, `MarkPending`, `MarkPersistedRange`, `SetPersistedRange`, `Cache` | three passes with the locks released in between, beside readers and writers |
| Read path, read-modify-write (`V`) | the RMW locks | `readBlockStore`, `fetchConsecutiveBlocksFromBackend`, `writeOneBlockLocked` | looked up block by block, fetched as runs |
| Chunk GC (`V`) | `gcRefcount`, floor, snapshot marker, what a VB remembers of past checks | `runGCSweep`, `sweepChunks`, `reconcileChunksOnce` | runs beside uploads, readers and snapshots, also those of another process |
| Backpressure, goroutines (`V`, `backends/s3/s3.go`) | `pendingBytes`, `drainInFlight`, `backendFull`, `NearFull` | `awaitBackpressure`, `DrainToBackendCtx`, the uploader, the sweeper, the syncer | waiting writers, failing drains, a latch something has to clear |
| Snapshots, clones (`snapshot.go`, `V`) | snapshot objects, base map, ancestors, `SnapshotID` in `config.json` | `CreateSnapshot`, `OpenFromSnapshot`, `LoadState` | two reads of a map that moves, layers under different identities, crash while opening |
| Sharded WAL, arena, backends, plugin glue, import, tools, simplefs, telemetry | | | I/O or thin wrappers |

The guest's request thread calls `WriteAtCtx`, `ReadAtCtx` and `Flush`; background
goroutines fsync, drain and sweep; a control socket drains and snapshots. They share the
structures above, each under its own mutex, so almost every property here is about what
one of them sees between two critical sections of another, or about what a process
death between two of them leaves behind.

What makes the parts correct: no nonce twice, ever; everything a successful `Flush`
promised is there after a crash; the map sends every block to the record the guest wrote
last, at the offset and under the SeqNum that decrypt it; a chunk that a map, a checkpoint
or a snapshot needs is never deleted; reads that never miss a block in transit; a snapshot
that is one moment of its source and stays that; a buffer that is bounded and writers that
are not kept waiting for ever.

## 2. Modules

    SeqNum                     reservation, config.json, crashes, snapshots' SaveState
      SeqNumProofs
    Extents                    the coalesced map as pure operators
      ExtentsProofs            lemmas: what insert, split, coalesce, expand and count do
      BlockMap                 the map under the parallel drain pipeline
        BlockMapProofs
      Volume                   WAL, drains, checkpoints, recovery, Close, crashes;
                               implements GuestDisk
        VolumeProofs
      BlockStore               the read index, readers and partial writers beside drains
        BlockStoreProofs
    GuestDisk                  abstract: a disk with a volatile write cache
    ChunkGC                    sweeps beside drains, snapshots, crashes and Close
      ChunkGCProofs
    Backpressure               bounded buffering: waiting writers, drains, a full backend
      BackpressureProofs
    Clones                     snapshots and copy-on-write clones of clones
      ClonesProofs

The modules overlap on purpose: the drain appears in six of them, each time with the
detail its question needs and no more. BlockMap has the runs and SeqNums of a chunk,
Volume the files and checkpoints around it, BlockStore the passes over the read index,
ChunkGC the gap between a PUT and its map entry, Backpressure the records it frees and
the errors it returns, Clones the moment an entry appears in the map.

**SeqNum.** State: the two copies of `config.json` as `[gen, hw, uuid]` (StateSeqNum,
SeqNumHighWater, VolumeUUID), the fields of the open `VB`, and one `reserveSeqNum` call
per writer with its program counter: add, lock-free check, lock and re-check, persist,
publish, push. Each is an action because each is one atomic operation or one critical
section. `persistStateLocal` writes atomically or fails; a push takes effect now, later
(an older one may overtake a newer one) or never. `Crash` loses the memory at any
point. `used`/`reused` record every nonce sealed under. Opening runs in one goroutine
and is a step per function: `LoadState`, `EnsureVolumeUUID`, `RecoverLocalWALs`,
`ImportFresh`. `Spec` is the engine as the plugin runs it; `SnapSpec` adds
`CreateSnapshot`, whose `SaveState` runs beside the writers.

**Extents.** A map is a set of records `[start, obj, off, seqs]`, one per `BlockLookup`;
offsets are counted in blocks. `Insert` is `insertCoalescedLocked` (heads and tails of
what the new run overlaps survive), `InsertRefs` its reference counts, `Expand` and
`Coalesce` the checkpoint's two directions, `Stale` and `ApplyChunk` the body of
`createChunkFile`. `Stale` keeps the code's comparison with the SeqNum of the covering
extent's *first* block. The 65535-block limit of a run and the widths of the fields
(uint16/uint32) are not reached: a 4 MB chunk holds 1024 blocks.

**BlockMap.** `ReserveSeqNum` and `AppendWrite` are the two halves of a guest write;
`Rotate` is a drain's flush, rotation, deduplication, sort and cut; `TakeJob`, `PutChunk`,
`ApplyRun` are a worker (the runs of a chunk one by one, under `BlocksToObject.mu`),
`DropJob` what `submit` does after an error, `FinishDrain` the end with the live
checkpoint; `Reopen` a clean close and open through the checkpoint.

**Volume.** Segments are sets of `<<block, SeqNum>>`; so is `Writes.Blocks`, whose order is
that of the SeqNums, and a flush that stops at a record has written those `Before` it. `Write`, `Flush` and
`PartialFlush` run beside one control thread, which drains (`StartDrain`, `Upload`,
`UploadsDone`, `SaveLiveCheckpoint`), closes (`StartClose`, the same, `SaveState`,
`SaveBlockState`, `CloseRemoves`) or recovers (`Open`, uploads in order, `SaveState`,
`SaveBlockState`, `SaveLiveCheckpoint`, `RecoveryRemoves`). Each of its I/O steps may fail
(`Fault`), and a failed PUT may have taken effect. `Crash` is the death of the process:
what was written to a file stays. The file system losing unsynced writes at a power
failure is not modelled. The volume is unencrypted, so `LoadState` takes SeqNum from
`config.json`; the encrypted volume's counter is SeqNum's.
History: `promised` (what a successful Flush covered) and `lost` (which known lossy path
has dropped the last record of which block).

**BlockStore.** One reader (`StartRead`, `ReadShard`, `ReadExtent` for each block,
`ReadFetch`, `ReadReturns`) and one write per block: read under the RMW lock, reserve,
append, publish, one action each. `FlushRecord` is `flushLocked` record by
record, `Writes.mu` held from the first to the last; `StartDrain`, `PutChunk`, `StartRun` the drain;
`Sample`, `InstallExtent`, `Remove` the three passes of `MarkPersistedRange`: passes 1
and 3 block by block, as each takes the block's shard lock, pass 2 extent by extent with
`persistedMu` held throughout, so that readers wait (`PersistedMuFree`). A record stands for its
data, so "which bytes does the read return" is "which record".

**GuestDisk.** What a volume promises: a write gives a block a newer version, a flush makes
the versions there are safe, going down leaves every block a version between the safe and
the newest one, and coming up shows exactly that. Volume implements it
(`VolumeIsDisk == Disk!Spec`) under the mapping: `data` is what a read finds while the
volume serves, and otherwise what the segments and the checkpoint the next open loads
would give; `safe` is `promised`; `damaged` are the blocks of `lost`. So no flush, drain,
checkpoint, failed upload, rotation or step of a recovery, interrupted any number of
times, may change what the guest has.

**ChunkGC.** The map is a function from block to ObjectID and the reference count of a
chunk is the number of blocks that name it (BlockMap checks that the code's counter is
that). A drain is `Rotate`, `Put` and `InsertEntries` per chunk, `EndDrain`; between `Put`
and `InsertEntries` a chunk exists and nothing counts it. The sweep is a step per backend
call or critical section: `GCTick` (its drain), `SnapshotSafe` (marker), `ScanForOwnSnapshots`,
`ListChunks`, `MergeListed`, `EnsureGCFloor`, `Collect`, `MarkerMoved`, `DeleteChunkObjects`
(one object per step); what it remembers for the life of the VB (`latched`, `scan`,
`baseline`, `reconciled`, `floor`) is forgotten by a crash. Snapshots are taken by the
serving engine (`BeginOwn`, `DrainForSnapshot`, `Freeze`) or by another process
(`DaemonLoads`, `DaemonMarks`), and exist when their `config.json` does. Which records a
drain finds stale is left open: an insert moves any subset of the chunk's blocks.
History: `raced` (collected while its insert was pending), `beside` (lost its last
reference while a sweep was past its drain, so the live checkpoint may still name it),
`sgap` (another process' snapshot that neither scan nor marker could see), `ssaved`
(the live checkpoint had the map a snapshot froze).

**Backpressure.** Sizes are counted in blocks. A writer publishes its blocks one by one,
adds to the counter, and passes the gate or loops: poll, or win `drainInFlight` and
drive a drain. `LockDrain`, `DrainFlush`, `DrainRotate`, `UploadChunk`, `DrainSave`,
`EndDrain` are the drain, the uploader's or a writer's, with every one of its steps failing
(`Fault`), the 507 that becomes `ErrNoSpace`, the pool-pressure header, and a rotation
that leaves a closed WAL. The counter is a signed integer that `PendingBytes` reads as
unsigned: a negative one is over every limit (`Over`).

**Clones.** A block has two halves, each holding the number of the write it came from, so
a partial write through the layers shows which bytes survived. Volume 1 is plain, the
others are created from snapshots. `BeginSnapshot`, `Freeze`, `BuildFlatSection`,
`SaveSnapshot` are `CreateSnapshot` with its two separate reads of the map; `RemoteSnapshot`
is that of a process that does not own the WAL. `LoadState` and `FinishOpen` are the two
halves of `LoadStateCtx` around the save of the first SeqNum window. A record is named by
volume, block and position, so reading it under another volume's identity gives something
else. Drains do not fail here and chunks are not deleted.

Mutants (definitions with the comment `Mutant:`) sit in front of the definition they
vary; no specification uses them.

## 3. What is checked

Bounds are constants named in each module; deadlock checking is off because a volume
nobody uses, or one at its bounds, may stop.

| Run | Expect | Instance | What it shows |
|---|---|---|---|
| `seqnum_engine` | pass | 2 writers, window 2, batches up to 2, numbers up to 6, one UUID minted | `NonceUnique`, `IssuedBelowDurable`, `SealedUuidIsDurable`, `DurableNeverRegresses`: with crashes, failed persists and late or lost pushes at every step no nonce repeats |
| `seqnum_snapshot` | pass | the same, numbers up to 3, one snapshot | snapshot metadata never shares a nonce (`SnapNonceUnique`); the selected config never goes back |
| `seqnum_hw_regress` | violation | | `IssuedBelowDurable` fails once `CreateSnapshot` runs beside the writers |
| `blockmap_inorder` | pass | 4 blocks, chunks of 3, 2 workers, 1 request in flight, 5 writes, 1 fault, 1 reopen | extents disjoint, every mapping decryptable, reference counts exact, newest write wins, checkpoint round trip, no block goes back |
| `volume_spaced` | pass | blocks {0, 2}, 3 writes, 1 fault, 3 opens | `FlushedSurvives` outside the known lossy paths, `SeqNumCoversMap`, `ChunkIDsFresh`, `LoadedAdvances`; Volume implements GuestDisk (`VolumeIsDisk`) |
| `volume_adjacent` | violation | blocks {0, 1}, no fault but crashes | `FlushedSurvives` fails |
| `volume_close` | violation | one failed upload | `CloseKeepsRecords` fails |
| `blockstore_reads` | pass | 2 blocks, chunks of 2, 2 writers, 1 reader, 3 writes on an empty or a loaded volume | `ReadsFresh`, `ReadsOpen`, `SpliceKeepsNewest`, `IndexesAgree` |
| `chunkgc_sweep` | pass | 2 blocks, ObjectIDs up to 3 (recovery may pass it), 2 opens, 1 snapshot of either kind, 1 fault | `LiveChunksExist`, `SnapshotChunksExist`, `FallbackSpared`, `IDsNotReissued`, outside `raced`, `beside` and `sgap` |
| `chunkgc_dangling` | violation | 1 block, 1 open, no fault, no snapshot | `NoDanglingReference` fails |
| `backpressure_gate` | pass | 2 writers, 2 blocks, requests up to 2, high watermark 2, 2 failures allowed, 3 blocks written in all, 1 fault of any kind | `CounterExact`, `BufferBounded`; liveness `WaitEnds`, `WritesResume` |
| `clones_chain` | pass | 1 block of two halves, 3 volumes, 2 writes, 3 snapshots, 1 close or crash | `CloneReads`, `SnapshotFaithful`, `SnapshotFrozen` |

Why the bounds are enough for the cases meant. Two writers and a window of two make
every crossing of the high-water mark contended, and batches of two cross it in the
middle. Four blocks and chunks of three give runs that split an extent into head and
tail, span two chunks and leave gaps; five writes allow two overlapping drains'
worth of records after a first extent exists. Three opens allow a crash in the recovery
from a crash. The block store needs two blocks for sub-runs and joined fetches, and three
writes for one block to be rewritten during its mark while the other is in transit.
A sweep needs a chunk that was replaced, one that replaced it and one in flight, hence three
ObjectIDs; two blocks make one chunk lose its references one by one; two opens put a
crash or a Close between a drain, a sweep and the next reading of the checkpoint. In
Backpressure a watermark of two with requests of two makes one request cross it alone or
two cross it together; two blocks allow two chunks, of which one fails. Three volumes are
the shortest chain with an ancestor behind the base; two writes let a partial write of an
inherited block follow a full one in its source or clone. Two blocks with two
snapshots were checked in the same module as well, and found nothing more.
Every property has a mutant of the code that breaks it under the very same instance.

**Fairness.** Only Backpressure has liveness properties. Each writer's own steps are
weakly fair (a goroutine that can run does), and so are the uploader's wake-up (its
ticker), its lock and the steps of the drain in progress. A writer's `LockDrain` is
strongly fair: the mutex is free again and again while others drain, and Go's
`sync.Mutex` hands it to a waiter that has waited for a millisecond. Nothing makes a
guest write or flush, the uploader stop, or a fault happen. Faults are finitely many, so
"whatever fails" means: after the failures end.

### Disagreements between the code and what it says

1. `seqnum_hw_regress`. `SaveStateCtx` (V:4483) loads the high-water mark without
   `seqNumHighWaterMu` and writes it later; a `reserveSeqNum` in between persists and
   publishes a higher mark, and the older one lands on top of it. A crash then restarts
   the counter below numbers already issued. V:4876 says "no SeqNum above the durable
   hw is issued".
2. `volume_adjacent`. The stale-drain guard (V:3268) compares a run's first SeqNum with
   that of the covering extent's first block. Recovery replays everything in the
   segments, what is already in the map included; a run that begins with such a block is
   judged stale as a whole, the flushed blocks behind it are dropped and the WAL is removed.
3. `volume_close`. `Close` removes the local files after a failed upload (V:5371), the
   only copy of its records among them.
4. `chunkgc_dangling`. A drain beside a sweep puts a chunk; `reconcileChunksOnce` lists it
   before it is in the map and counts it zero; it is collected, entered in the map and the
   live checkpoint, and deleted. V:3824: "never a dangling reference".

Met on the way, described here and in the hazards, with no run of their own because
each would repeat a module for one more counterexample:

- With two requests in flight `NewestWriteWins` of BlockMap fails, by the guard of item 2:
  a number reserved early is appended after a later one was drained, and the newest record
  of another block in the run is rejected. V:3264: "Only advance on a strictly newer SeqNum."
- A flush and a drain between a record's append and its publication leave a Hot entry
  nothing will remove (BlockStore). It reads correctly; its memory is outside the bound
  blockstore.go:73 speaks of.
- The records of a failed upload stay in `PendingBackendWrites`, and no later drain takes
  them (their segment is closed), so `pendingBytes` never gives them back. Later drains
  have nothing to do and succeed, which resets the failure count: a waiting write polls for
  ever. V:1715 says the bound is there "so a persistently failing drain doesn't spin here
  forever", s3.go:90 that "the uploader retries on its next tick". `WaitEnds` leaves
  this out as `Stranded`.
- A write that fails half way leaves blocks published and never counted (`lost`);
  draining them takes `pendingBytes` below zero, which V:1647 excludes ("never negative")
  and which reads as a huge number.
- `NearFull` is set by PUTs alone. If the last PUT reports pressure and nothing is
  buffered, every write is refused and nothing will PUT again (`WritesResume` names it).
- Between CreateSnapshot's two reads of the map a background drain can enter a block that
  was inherited until then: it is in neither section, and a clone reads zeros there. Without
  `torn`, `SnapshotFaithful` fails in 14 steps. The comment on the section says "so the
  snapshot is self-contained".
- A process that loaded the map before it wrote the marker, or whose marker is the baseline
  while its `config.json` is still missing, is not seen by the sweep (`sgap`); and a
  snapshot that froze a map ahead of the live checkpoint loses its chunks when the engine
  crashes and hands the ObjectIDs out again (`ssaved`).

In the passing runs these paths are excluded where they would drown everything else, and
only there: `blockmap_inorder` has one request in flight, `volume_spaced` no neighbouring
blocks and leaves blocks in `lost` out, `Spec` of SeqNum has no concurrent snapshot, and
the properties of ChunkGC, Backpressure and Clones name their exceptions, each of them a
history variable that only the step in question sets.

## 4. What is proved

Each `...Proofs` module proves its component's properties for every value of the constants
(sets of writers, blocks, bounds and sizes of any magnitude). Each theorem has the same form: an
inductive invariant that holds initially, is kept by every action and implies the
property. TLC checked every inductive invariant on the instance of the component's run
before it was proved. The assumptions are those named in the modules (`...Assumption`):
that sets are finite, that bounds are naturals, that sizes and windows are positive, and that
tokens for "nobody" are not processes.

**SeqNumProofs**, under `Spec`: `TypeCorrect`, `NoncesUnique` (no nonce is sealed under
twice), `IssuedCovered` (no issued number is above the mark the next open loads),
`UuidDurable`, `NeverRegresses`. `NonceUnique` is not inductive: to see that a number about to
be sealed was never used one has to know where used numbers lie. `IInv` adds `ConfigInv` (the
two copies of the config are ordered by generation and the newer one has the larger mark),
`OpenInv` (the published mark of an open volume is covered by the durable one, its UUID is
the durable one), `CallInv` (what each step of a call knows about the mark), `RangeInv`
(calls in progress have disjoint ranges) and `UsedInv` (every used nonce is under the
durable UUID, below the durable mark, below the counter while the volume is open, and
outside the range of every call). A crash is safe because LoadState restarts at the durable
mark and `UsedInv` puts every used number at or below it; a reservation is safe because
the counter is above everything used.

Under `SnapSpec` (CreateSnapshot beside the writers) `IssuedBelowDurable` is false, item 1
of section 3. What remains true is proved from `SInv`, which is about generations alone:
`SnapshotNoncesUnique` (the generation an open selects is above every StateSeqNum a
snapshot was sealed under) and `NeverRegressesWithSnapshots`.

**ExtentsProofs** has the lemmas on the map's operators, for maps and chunks of any size.
`InsertIsMap` and `InsertResolves`: `Insert` keeps the extents apart, gives the blocks of the
new run the new entry and moves no other block; `InsertRefsExact`: the increments and
decrements of `insertCoalescedLocked` leave every reference count equal to the number of
entries; `CoalesceIsMap` and `RoundTrip`: coalescing a checkpoint gives a map whose expansion
is the checkpoint; `RunEntryIs` with `Positions`: the entry of a run names for each of its
blocks the position it was sealed at; `TallyExact`: the counts rebuilt at load are exact.

**BlockMapProofs**: `MapTypeCorrect`, `MapKeepsExtentsApart`, `MapPointsAtSealedBlocks`,
`RefcountsAreExact`, `CheckpointsRoundTrip`. `IInv` says besides the types that the map is one
(`MapOK`), that a job's remaining blocks are those of its chunk, unchanged, and the chunk is on
the backend before its runs are applied (`JobOK`), that two jobs share no block and no ObjectID
(`JobsApart`), who may hold the map's mutex (`MuOK`), that ids are below ObjectNum
(`IdsOK`), that counts are exact (`RefsOK`) and that a map that is not dirty is the live
checkpoint (`SavedOK`). With the condition `Writers = 1`, one request in flight:
`NewestRecordIsMapped` and `MapOnlyAdvances`. The condition is not a convenience: nbdkit
runs the plugin's requests in parallel, and with two in flight both are false (section 3).
`OInv` states the order the condition gives: records wait in the order of their numbers
(`WritesInOrder`), what is being drained is older than what waits (`JobsInOrder`), and an
entry over a block still to be applied holds only older numbers (`MapInOrder`), which is what
makes the guard's look at the *first* block of the covering extent harmless.

**ChunkGCProofs**: `GCTypeCorrect`, `ObjectIDsNotReissued`, `FallbackIsSpared`,
`LiveChunksAreKept`, `SnapshotChunksAreKept`, `OneFaultKeepsChunks`. The types need `Counts` and
`InBounds` (recovery hands out at most one ObjectID per block, so ids stay below a limit).
The heart is `Candidates`: a collected chunk has no entry, is at or above the floor and below
ObjectNum, and an insert that was pending at the collection is in `raced`; `Clean`: what the
live checkpoint names and the map no longer does is in `beside`; `Markers` and `DeleteSafe`:
a sweep past its snapshot check with the marker unmoved is beside no snapshot but one in
`sgap`. `LiveKept` and `SnapsKept` then say that what is named exists or is in one
of those windows. The last two need a hypothesis the proof attempt uncovered. SaveState
stores WallNum before SaveBlockState writes the checkpoint of that number (V:3404); on a
volume that has no live checkpoint, a failed live checkpoint followed by a failed or
interrupted SaveBlockState leaves config.json naming a checkpoint that is not there, and the
next open an empty map whose chunks a sweep may take. `PairedSave` excludes exactly that
pair. With at most one fault it cannot happen, and `OneFaultKeepsChunks` proves both
properties without `PairedSave`; the run has one fault, so it is an instance of that theorem.

**ClonesProofs**: `CloneTypeCorrect`, `ClonesReadTheirOwn`, `SnapshotsAreFaithful`,
`SnapshotsAreFrozen`. A record the map of a volume has got is never lost or changed, and
every layer of a snapshot, of an open volume and of a snapshot being made names only such
records (`LayersKnown`), so a crash, which takes only records the map has not got,
cannot change what a snapshot reads. `Histories` ties the guest's view at creation, at the
last drain and now to positions in the record sequences; `Making` says by step what
CreateSnapshot may still freeze.

**BackpressureProofs**: `GateTypeCorrect`, `CounterIsExact`, `BufferIsBounded`. `InFlight`,
`OneWriter` and `Holder` tie `drainInFlight` and `drainMu` to the processes that drain,
`Requests` says what a request has published, and `PublishedBounded` is the bound with each
request's published part in place of its size. Sums over writers and blocks are folds.

**BlockStoreProofs**: `StoreTypeCorrect`, `ReadsAreFresh`, `ReadsAreOpened`,
`SplicesKeepNewest`, `IndexesDoAgree`. `IInv` says besides the types that map and extents keep
their runs apart (`MapsOK`), that what they name is sealed there (`Sealed`), that a drain's
chunks hold what it is to mark (`JobsOK`), what a partial write has read (`WritersOK`) and what
a read has found so far (`ReaderOK`). Its heart are `Indexed`, the newest published record of a
block is in its shard or, without an entry there, exactly what the extents have, and `MarkOK`,
what each pass of `MarkPersistedRange` has done for each block: no entry is removed before
the extents have its record. Since the extents of a block only advance, a reader that found no
entry in the shard finds in the extents, however late, something at least as new as what it
must see. `FetchIs` shows that a fetch joined over neighbouring blocks returns for each
the record the index named. `IndexesDoAgree` also needs the order of the records: `OInv` says
that the records of a block wait in the order of their numbers (`InOrder`), that a block
without an entry waits only for a write about to be published (`Waiting`), and that the map has
the run being marked (`MarkMapped`). No condition on the number of writers is
needed here: the RMW lock makes the writes of one block sequential, and the reads and writes
of different blocks interleave freely.

**VolumeProofs**, for any volume, chunk size and number of writes, faults, crashes and opens:
`VolumeTypeCorrect` and `NumbersCoverTheMap` under `Spec` alone. `NInv` says that each number a
checkpoint or the map has is at or below `config.json`'s or that of a record still in the WAL
(`NumbersCovered`), so that recovery, which moves SeqNum past every record it replays, passes
it; that SeqNum is above all of them outside a replay (`NumbersBelow`); that a segment goes only
once `config.json` has its numbers (`ConfigFirst`); and that what is uploaded is in the WAL and
in one chunk (`JobsLogged`). `ApplyChunk` is a fold over the runs of a chunk; `ApplyOK` shows
that it leaves each block the record it had or gives it the chunk's.

`PromisesSurvive` (`FlushedSurvives`), `CheckpointsAdvance` (`LoadedAdvances`) and
`VolumeRefinesDisk` (`VolumeIsDisk`) follow from `VInv`, which adds `WallInv` and `LoadedIDs`
(the checkpoint the next open loads is the one SaveBlockState replaces, and its chunks are
below ObjectNum) and `DInv`. For a block that no lossy path has dropped (`Sound`), `DInv` puts
the map between the checkpoint the next open would load and what that open would bring back
(`MapBetween`), says that recovery has replayed each record or still has to (`Replayed`), that
the newest record since the open is in `Writes.Blocks` or in the WAL (`HotKept`), that what was
promised would be brought back (`PromisesKept`), and that a drain's records are newer than the
map and older than those that wait (`DrainsInOrder`). The step that carries it all is
`RecoverableStep`: what an open would bring back of a sound block never goes back, and moves on
only to a record of `Writes.Blocks`; a volume that is down has none, which is why opens that
crash or fail half way change nothing. The refinement maps a guest write to the disk's write, a
successful `Flush` to its flush, `StartClose` and a crash of a serving volume to `GoDown`, the end
of recovery to `ComeUp`, and every other step to one that leaves each undamaged block as it is.

These three have two hypotheses, both about the code and both found necessary:

- `PairedSave`, that Close's `SaveState` moves WallNum only when there is a live checkpoint
  (V:3404, the same as in ChunkGCProofs). `ObjectIDsAreFresh` (`ChunkIDsFresh`) needs this one
  only. Without it, with two faults on one block, TLC finds `LoadedAdvances` violated, and with
  six `ChunkIDsFresh`.
- `ReplayStep`, that a chunk recovery replays takes no block back and leaves none behind, that
  is, that the stale-drain guard is right about every block of the run and not only about its first.
  Without it `FlushedSurvives` is false, item 2 of section 3. Only recovery needs it: the
  records of a drain are all newer than the map (`DrainsInOrder`), so a drain loses nothing even
  where blocks are neighbours, as long as records reach `Writes.Blocks` in the order of their
  numbers (a write is one step in Volume; for two in flight see BlockMap in section 3).

They are not empty. `NoSaveUnpaired` proves `PairedSave` for at most one fault (`LiveDue`: a
live checkpoint that was not written stays due, and Close writes it before it saves its state),
`SpacedReplays` proves `ReplayStep` for blocks that are no neighbours, and `SpacedVolumeIsSafe`
draws the conclusion: there all four properties hold with nothing else assumed, of which
`volume_spaced` is an instance. TLC checked `VInv`, `LoadedAdvances` and `VolumeIsDisk` on
neighbouring blocks with two faults too, with the two hypotheses as constraints.

Induction over data: the library's induction theorems take an operator as a parameter,
which the installed provers cannot instantiate. Where a fact about a fold, a run or a
count needs induction, it is proved from the least counterexample instead (the set of
counterexamples, were it not empty, would have a smallest element or a subset-minimal one).

Out of the prover's reach, and left to TLC: liveness under fairness (`WaitEnds`,
`WritesResume`) and ENABLED.

## 5. What is only model-checked, and what is not modelled

Only model-checked: the liveness of Backpressure. The four runs that expect a violation
show what is false; nothing is proved about them beyond the hypotheses that exclude them.

Not modelled:

- the sharded WAL (an unencrypted-only variant: 16 files, its own drain and recovery);
- the legacy read path with the LRU cache, which a volume uses only when the block store
  is disabled;
- a reader beside the sweep: a chunk deleted between the lookup of a block and its fetch
  (V:3885). BlockStore has the reader, ChunkGC the sweep; their product is too large for a run;
- snapshot deletion, which another program does, and which decides whether a chunk that only
  a grandchild needs is still protected;
- cancelled contexts, the WAL syncer and the start of the background goroutines;
- power failures that lose unsynced data, torn checkpoint files;
- wrong keys and tampering (the modules assume the AEAD does what it promises), key
  handling, formats and their version checks;
- the arena, the backends' I/O, the tools, simplefs, telemetry and the cgo glue.

`PROJECT.json` gives the reason for each part, and lists the hazards with the properties
that cover them.

## 6. Plan

Done: every module of section 2 with its proofs, the refinement of GuestDisk by Volume
included. What could follow:

1. The sharded WAL, as a second instance of Volume's segments: a set of files per rotation,
   of which a crash leaves some.
2. A weaker sufficient condition for `ReplayStep` than `Spaced`, which would cover some volumes
   with neighbouring blocks.
3. The reader beside the sweep (V:3885), once BlockStore's reader is reduced to what that
   question needs.
