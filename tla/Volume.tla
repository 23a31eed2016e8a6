------------------------------- MODULE Volume -------------------------------
(***************************************************************************)
(* The durability of guest writes: the life of a record from the guest's   *)
(* write to the checkpointed map, through the volume's crashes, failed     *)
(* I/O, closes and reopens, on one node.                                   *)
(*                                                                         *)
(*   write -> Writes.Blocks -> (Flush) WAL segment -> (drain) chunk        *)
(*         -> BlocksToObject -> live checkpoint                            *)
(*                                                                         *)
(* WAL segments stay on the local disk until Close or recovery removes     *)
(* them.  Opening loads config.json and the live checkpoint and replays    *)
(* every segment.  One control thread drains, recovers or closes; writes   *)
(* and flushes run beside it.  Two goroutines beside it are not kept off   *)
(* by drainMu, which recovery does not take: the uploader of New, whose    *)
(* tick may save the map that recovery is replaying into, and the uploader *)
(* of a volume whose open has failed, which nobody stops.                  *)
(* A crash is the death of the process: what was written to a file stays.  *)
(* The volume is unencrypted, so LoadState takes SeqNum from config.json;  *)
(* module SeqNum has the encrypted volume's reservation.                   *)
(***************************************************************************)
EXTENDS Extents

CONSTANTS
    Blocks,         \* the block numbers in use
    ChunkBlocks,    \* ObjBlockSize / BlockSize
    MaxSeqNum,      \* bound: writes
    MaxFaults,      \* bound: failed steps
    MaxOpens        \* bound: opens, so crashes and closes

ASSUME VolumeAssumption ==
    /\ Blocks \subseteq Nat /\ IsFiniteSet(Blocks) /\ ChunkBlocks \in Nat \ {0}
ASSUME BoundAssumption == MaxSeqNum \in Nat /\ MaxFaults \in Nat /\ MaxOpens \in Nat

VARIABLES
    \* memory: Writes.Blocks as a set of <<block, SeqNum>>, in the order of
    \* their SeqNums; the newest SeqNum of each block written since the open
    \* (0: none), vb.SeqNum, BlockLookup, dirty, ObjectNum,
    \* BlockToObjectWAL.WallNum
    writes, hot, seqNum, lookup, dirty, objNum, wallNum,
    \* the local disk: WAL segments, each a set of <<block, SeqNum>>; the last
    \* one is open for append
    segments,
    \* config.json, the numbered checkpoints by WallNum, the live checkpoint
    \* (a set of at most one map)
    config, numbered, live,
    \* the control thread: the volume's phase, the step the thread is at, the
    \* chunks it still has to upload, and whether Close has hit an error
    phase, at, jobs, closeErr,
    \* the uploader's tick beside recovery: the map it has read and not yet
    \* saved, if any; the maps that abandoned volumes still have to save
    tick, orphans,
    \* history: what a successful Flush has promised, and which path of the
    \* code has dropped or displaced a record of which block
    promised, lost,
    faults, opens

memVars  == <<writes, hot, seqNum, lookup, dirty, objNum, wallNum>>
diskVars == <<config, numbered, live>>
ctlVars  == <<phase, at, jobs, closeErr>>
upVars   == <<tick, orphans>>
histVars == <<promised, lost>>
vars == <<memVars, segments, diskVars, ctlVars, upVars, histVars, faults, opens>>

None == [b \in {} |-> 0]
Zero == [b \in Blocks |-> 0]

Init ==
    /\ writes = {} /\ hot = Zero /\ seqNum = 0 /\ lookup = {} /\ dirty = FALSE
    /\ objNum = 0 /\ wallNum = 0
    /\ segments = <<>>
    /\ config = [seq |-> 0, obj |-> 0, wall |-> 0] /\ numbered = None /\ live = {}
    /\ phase = "down" /\ at = "idle" /\ jobs = {} /\ closeErr = FALSE
    /\ tick = {} /\ orphans = {}
    /\ promised = Zero /\ lost = {}
    /\ faults = 0 /\ opens = 0

\* One I/O operation fails (with its retries).
Fault == faults < MaxFaults /\ faults' = faults + 1

-----------------------------------------------------------------------------
(* Guest requests.                                                         *)

\* WriteAt of one block: a SeqNum, a record in Writes.Blocks and a Hot entry.
Write(b) ==
    /\ phase = "serving" /\ seqNum < MaxSeqNum
    /\ seqNum' = seqNum + 1
    /\ writes' = writes \cup {<<b, seqNum + 1>>}
    /\ hot' = [hot EXCEPT ![b] = seqNum + 1]
    /\ UNCHANGED <<lookup, dirty, objNum, wallNum, segments, diskVars, ctlVars, upVars,
                   histVars, faults, opens>>

\* The records of all WAL segments.
Logged == UNION {segments[i] : i \in DOMAIN segments}

\* The records of Writes.Blocks in front of r, which a loop over them that
\* stops at r has reached.
Before(r) == {x \in writes : x[2] < r[2]}

\* Records appended to the open segment.
AppendToWAL(records) == [segments EXCEPT ![Len(segments)] = @ \cup records]

\* What leaves Writes.Blocks once records of it are in the WAL: every record
\* of a block that has one among them.
Flushed(records) == {r \in writes : \E x \in records : x[1] = r[1]}

\* The SeqNum a map has for a block.
SeqIn(m, b) == IF Mapped(m, b) THEN SeqNumAt(Resolve(m, b), b) ELSE 0
MapSeq(b) == SeqIn(lookup, b)

\* The version a read of the block returns.
Readable(b) == Max({hot[b], MapSeq(b)})

\* flushLocked with every record written: the guest's flush succeeds.
Flush ==
    /\ phase = "serving"
    /\ segments' = AppendToWAL(writes)
    /\ writes' = {}
    /\ promised' = [b \in Blocks |-> Readable(b)]
    /\ UNCHANGED <<hot, seqNum, lookup, dirty, objNum, wallNum, diskVars, ctlVars, upVars,
                   lost, faults, opens>>

\* flushLocked stopped by a failed WriteWAL of r: the flush, or the drain it
\* belongs to, fails.
PartialFlush ==
    /\ phase = "serving" /\ Fault
    /\ \E r \in writes :
           /\ segments' = AppendToWAL(Before(r))
           /\ writes' = writes \ Flushed(Before(r))
           /\ lost' = lost \cup {<<"flush", x[1]>> : x \in Flushed(Before(r)) \ Before(r)}
    /\ UNCHANGED <<hot, seqNum, lookup, dirty, objNum, wallNum, diskVars, ctlVars, upVars,
                   promised, opens>>

-----------------------------------------------------------------------------
(* The steps the control thread is made of.                                *)

\* Mutant: the oldest record of a block wins.
NewestOldest(records) ==
    [b \in {r[1] : r \in records} |-> Min({r[2] : r \in {x \in records : x[1] = b}})]

\* Deduplicated records: the highest SeqNum of each block.
Newest(records) ==
    [b \in {r[1] : r \in records} |-> Max({r[2] : r \in {x \in records : x[1] = b}})]

\* Sorted by block and cut into chunks.
ChunksOf(f) ==
    LET pos(b)  == Cardinality({x \in DOMAIN f : x < b})
        part(k) == {b \in DOMAIN f : pos(b) \div ChunkBlocks = k}
    IN  {[b \in part(pos(c) \div ChunkBlocks) |-> f[b]] : c \in DOMAIN f}

\* The process ends, with its memory.
Gone ==
    /\ writes' = {} /\ hot' = Zero /\ seqNum' = 0 /\ lookup' = {} /\ dirty' = FALSE
    /\ objNum' = 0 /\ wallNum' = 0
    /\ phase' = "down" /\ at' = "idle" /\ jobs' = {} /\ closeErr' = FALSE /\ tick' = {}

\* The open fails and its volume is abandoned.  Its uploader goes on: what a
\* tick has read, or else the map if it is dirty, is still to be saved.
OpenFails ==
    /\ phase = "recover" /\ Gone
    /\ orphans' = orphans \cup (IF tick # {} THEN tick
                                ELSE IF dirty THEN {Expand(lookup)} ELSE {})

\* Records of Writes.Blocks are flushed, the segment is closed and its records
\* become upload jobs; a new segment is opened.
Rotate(records) ==
    /\ at' = "upload"
    /\ jobs' = ChunksOf(Newest(AppendToWAL(records)[Len(segments)]))
    /\ segments' = Append(AppendToWAL(records), {})
    /\ writes' = {}
    /\ UNCHANGED <<hot, seqNum, lookup, dirty, objNum, wallNum, diskVars, upVars, histVars,
                   opens>>

\* DrainToBackendCtx of the uploader, the snapshot socket or backpressure.  A
\* drain with nothing to write or to save is left out: it adds an empty
\* segment and nothing else.  A tick that began beside recovery holds drainMu.
StartDrain ==
    /\ phase = "serving" /\ at = "idle" /\ tick = {}
    /\ dirty \/ writes # {} \/ segments[Len(segments)] # {}
    /\ Rotate(writes)
    /\ UNCHANGED <<phase, closeErr, faults>>

\* Close waits for the uploader; a failed flush is only logged.
StartClose ==
    /\ phase = "serving" /\ at = "idle" /\ tick = {}
    /\ phase' = "closing" /\ closeErr' = FALSE
    /\ \/ Rotate(writes) /\ UNCHANGED faults
       \/ Fault /\ \E r \in writes : Rotate(Before(r))

\* Blocks that a replayed chunk leaves behind the record it has of them, or
\* takes back: the stale-drain guard judges a run by its first block.
Misjudged(j) ==
    {b \in DOMAIN j : SeqIn(lookup', b) < MapSeq(b) \/ SeqIn(lookup', b) < j[b]}

\* createChunkFile, with its advance of the map.  A drain's chunks land in any
\* order; recovery uploads them one after the other.
Upload(j) ==
    /\ at = "upload" /\ j \in jobs
    /\ phase = "recover" => \A k \in jobs : Min(DOMAIN j) <= Min(DOMAIN k)
    /\ lookup' = ApplyChunk(lookup, j, objNum)
    /\ objNum' = objNum + 1
    /\ dirty' = TRUE
    /\ jobs' = jobs \ {j}
    /\ lost' = IF phase = "recover" THEN lost \cup ({"replay"} \X Misjudged(j)) ELSE lost
    /\ UNCHANGED <<writes, hot, seqNum, wallNum, segments, diskVars, phase, at, closeErr,
                   upVars, promised, faults, opens>>

\* A failed PUT: the drain ends, Close skips the live checkpoint and goes on,
\* recovery fails the open.
UploadFails ==
    /\ at = "upload" /\ jobs # {} /\ Fault
    /\ \/ /\ phase \in {"serving", "closing"}
          /\ jobs' = {} /\ at' = (IF phase = "serving" THEN "idle" ELSE "config")
          /\ UNCHANGED <<memVars, phase, closeErr, upVars>>
       \/ OpenFails
    /\ UNCHANGED <<segments, diskVars, histVars, opens>>

\* Mutant: recovery leaves SeqNum where config.json had it.
UploadsDoneKeepsSeqNum ==
    /\ at = "upload" /\ jobs = {}
    /\ at' = IF phase = "recover" THEN "config" ELSE "live"
    /\ UNCHANGED <<memVars, segments, diskVars, phase, jobs, closeErr, upVars, histVars,
                   faults, opens>>

\* Every chunk has landed; recovery moves SeqNum past the records it replayed.
UploadsDone ==
    /\ at = "upload" /\ jobs = {}
    /\ IF phase = "recover"
       THEN /\ at' = "config"
            /\ seqNum' = Max({seqNum} \cup {r[2] : r \in Logged})
       ELSE at' = "live" /\ UNCHANGED seqNum
    /\ UNCHANGED <<writes, hot, lookup, dirty, objNum, wallNum, segments, diskVars, phase,
                   jobs, closeErr, upVars, histVars, faults, opens>>

\* SaveLiveCheckpointCtx.  No caller does more about a failure than log it:
\* Close and recovery go on.
SaveLiveCheckpoint ==
    /\ at = "live"
    /\ at' = CASE phase = "serving" -> "idle"
               [] phase = "closing" -> "config"
               [] phase = "recover" -> "remove"
    /\ \/ /\ live' = IF dirty THEN {Expand(lookup)} ELSE live
          /\ dirty' = FALSE /\ UNCHANGED faults
       \/ dirty /\ Fault /\ UNCHANGED <<live, dirty>>
    /\ UNCHANGED <<writes, hot, seqNum, lookup, objNum, wallNum, segments, config, numbered,
                   phase, jobs, closeErr, upVars, histVars, opens>>

\* The map LoadLiveCheckpoint finds: the live one if there is one, otherwise
\* the numbered one at the WallNum of config.json, otherwise none.
Loaded ==
    IF live # {} THEN CHOOSE f \in live : TRUE
    ELSE IF config.wall \in DOMAIN numbered THEN numbered[config.wall] ELSE None

\* The blocks of which an open would load another record than before the
\* step, and those of which it would load an older one or none.
Displaced ==
    {b \in DOMAIN Loaded \cup DOMAIN Loaded' :
        ~(b \in DOMAIN Loaded /\ b \in DOMAIN Loaded' /\ Loaded[b] = Loaded'[b])}
GoneBack ==
    {b \in DOMAIN Loaded : ~(b \in DOMAIN Loaded' /\ Loaded'[b].seq >= Loaded[b].seq)}

\* An error of SaveState or SaveBlockState is kept by Close and fatal to
\* recovery.
Refused(next) ==
    /\ Fault
    /\ \/ phase = "closing" /\ at' = next /\ closeErr' = TRUE
          /\ UNCHANGED <<memVars, phase, jobs, upVars>>
       \/ OpenFails

\* With no live checkpoint, the WallNum of config.json is all that names the
\* checkpoint an open loads: moving it displaces that one.
SaveState ==
    /\ at = "config"
    /\ LET c == [seq |-> seqNum, obj |-> objNum, wall |-> wallNum]
       IN  \/ /\ config' = c /\ at' = "numbered"
              /\ UNCHANGED <<memVars, phase, jobs, closeErr, upVars, faults>>
           \/ config' \in {c, config} /\ Refused("numbered")
    /\ UNCHANGED <<segments, numbered, live, promised, opens>>
    /\ lost' = lost \cup ({"wall"} \X Displaced)

SaveBlockState ==
    /\ at = "numbered"
    /\ LET c    == With(numbered, wallNum, Expand(lookup))
           next == IF phase = "recover" THEN "live" ELSE "remove"
       IN  \/ /\ numbered' = c /\ at' = next /\ wallNum' = wallNum + 1
              /\ UNCHANGED <<writes, hot, seqNum, lookup, dirty, objNum, phase, jobs,
                             closeErr, upVars, faults>>
           \/ numbered' \in {c, numbered} /\ Refused(next)
    /\ UNCHANGED <<segments, config, live, histVars, opens>>

-----------------------------------------------------------------------------
\* The records of a segment that no open could bring back without it.
Unsaved(segment) ==
    {r \in segment : r[1] \notin DOMAIN Loaded \/ Loaded[r[1]].seq < r[2]}

Without(i) == SubSeq(segments, 1, i - 1) \o SubSeq(segments, i + 1, Len(segments))

\* The end of Close: with an error kept, the local files stay; otherwise
\* RemoveAll takes them one by one.
CloseRemoves ==
    /\ phase = "closing" /\ at = "remove"
    /\ IF closeErr \/ segments = <<>>
       THEN Gone /\ UNCHANGED <<segments, lost, orphans>>
       ELSE \E i \in 1..Len(segments) :
               /\ segments' = Without(i)
               /\ lost' = lost \cup {<<"close", r[1]>> : r \in Unsaved(segments[i])}
               /\ UNCHANGED <<memVars, ctlVars, upVars>>
    /\ UNCHANGED <<diskVars, promised, faults, opens>>

\* Mutant: no WAL is opened after the replay.
RecoveryOpensNoWAL ==
    /\ phase = "recover" /\ at = "remove"
    /\ IF segments = <<>>
       THEN phase' = "serving" /\ at' = "idle" /\ UNCHANGED segments
       ELSE segments' = Tail(segments) /\ UNCHANGED <<phase, at>>
    /\ UNCHANGED <<memVars, diskVars, jobs, closeErr, upVars, histVars, faults, opens>>

\* The end of recovery: the replayed segments are removed, oldest first, and a
\* new one is opened.
RecoveryRemoves ==
    /\ phase = "recover" /\ at = "remove"
    /\ IF segments = <<>>
       THEN /\ phase' = "serving" /\ at' = "idle"
            /\ segments' = <<{}>>
            /\ UNCHANGED lost
       ELSE /\ segments' = Tail(segments)
            /\ lost' = lost \cup {<<"recover", r[1]>> :
                                     r \in {x \in Unsaved(Head(segments)) :
                                               MapSeq(x[1]) >= x[2]}}
            /\ UNCHANGED <<phase, at>>
    /\ UNCHANGED <<memVars, diskVars, jobs, closeErr, upVars, promised, faults, opens>>

-----------------------------------------------------------------------------
(* The uploader beside recovery.  It flushes nothing and finds no open WAL; *)
(* what is left of its drain is SaveLiveCheckpointCtx.                     *)

\* The map is read under the lock ...
TickReadsMap ==
    /\ phase = "recover" /\ dirty /\ tick = {}
    /\ tick' = {Expand(lookup)}
    /\ UNCHANGED <<memVars, segments, diskVars, ctlVars, orphans, histVars, faults, opens>>

\* ... and saved without it; dirty is cleared whatever recovery has added in
\* between.  A PUT that fails may have landed.
TickSaves ==
    /\ tick # {} /\ tick' = {}
    /\ \/ live' = tick /\ dirty' = FALSE /\ UNCHANGED faults
       \/ live' \in {tick, live} /\ Fault /\ UNCHANGED dirty
    /\ UNCHANGED <<config, numbered>>
    /\ lost' = lost \cup ({"tick"} \X GoneBack)
    /\ UNCHANGED <<writes, hot, seqNum, lookup, objNum, wallNum, segments, ctlVars, orphans,
                   promised, opens>>

\* The uploader of an abandoned volume saves its map over the live checkpoint.
\* The chunks it names were numbered from the same ObjectNum as those of the
\* volume that was opened after it.
OrphanSaves ==
    /\ \E f \in orphans : live' = {f} /\ orphans' = orphans \ {f}
    /\ UNCHANGED <<config, numbered>>
    /\ lost' = lost \cup ({"orphan"} \X Displaced)
    /\ UNCHANGED <<memVars, segments, ctlVars, tick, promised, faults, opens>>

-----------------------------------------------------------------------------
\* Mutant: ObjectNum comes from config.json alone.
NextObjectConfigOnly == config.obj

\* parseBlockCheckpoint's reconcile of ObjectNum.
NextObject == Max({config.obj} \cup {Loaded[b].obj + 1 : b \in DOMAIN Loaded})

\* Mutant: with a WAL to replay, recovery starts from an empty map.
OpenReplaysOnly ==
    /\ phase = "down" /\ opens < MaxOpens
    /\ opens' = opens + 1
    /\ phase' = "recover"
    /\ lookup' = IF Logged = {} THEN Coalesce(Loaded) ELSE {}
    /\ objNum' = NextObject
    /\ seqNum' = config.seq /\ wallNum' = config.wall
    /\ at' = IF Logged = {} THEN "remove" ELSE "upload"
    /\ jobs' = ChunksOf(Newest(Logged))
    /\ UNCHANGED <<writes, hot, dirty, segments, diskVars, closeErr, upVars, histVars, faults>>

\* LoadState, LoadLiveCheckpoint and the scan of RecoverLocalWALs.  A failed
\* read of the numbered checkpoint is taken for an empty volume; one of the
\* live checkpoint fails the open before it has done anything.
Open ==
    /\ phase = "down" /\ opens < MaxOpens
    /\ opens' = opens + 1
    /\ phase' = "recover"
    /\ \/ lookup' = Coalesce(Loaded) /\ objNum' = NextObject /\ UNCHANGED <<lost, faults>>
       \/ /\ live = {} /\ DOMAIN Loaded # {} /\ Fault
          /\ lookup' = {} /\ objNum' = config.obj
          /\ lost' = lost \cup ({"unread"} \X DOMAIN Loaded)
    /\ seqNum' = config.seq /\ wallNum' = config.wall
    /\ at' = IF Logged = {} THEN "remove" ELSE "upload"
    /\ jobs' = ChunksOf(Newest(Logged))
    /\ UNCHANGED <<writes, hot, dirty, segments, diskVars, closeErr, upVars, promised>>

\* kill -9 at any point; in the middle of a flush it leaves a prefix of
\* Writes.Blocks in the WAL.  The abandoned volumes go with the process.
Crash ==
    /\ phase # "down" \/ orphans # {}
    /\ opens < MaxOpens
    /\ \/ UNCHANGED segments
       \/ \E r \in writes : segments' = AppendToWAL(Before(r) \cup {r})
    /\ Gone /\ orphans' = {}
    /\ UNCHANGED <<diskVars, histVars, faults, opens>>

Next ==
    \/ \E b \in Blocks : Write(b)
    \/ Flush \/ PartialFlush
    \/ StartDrain \/ StartClose
    \/ \E j \in jobs : Upload(j)
    \/ UploadFails \/ UploadsDone
    \/ SaveLiveCheckpoint \/ SaveState \/ SaveBlockState
    \/ CloseRemoves \/ RecoveryRemoves
    \/ TickReadsMap \/ TickSaves \/ OrphanSaves
    \/ Open \/ Crash

Spec == Init /\ [][Next]_vars

-----------------------------------------------------------------------------
\* The ways a block's record is dropped or displaced.
Losses == {"flush", "close", "replay", "recover", "tick", "orphan", "wall", "unread"}

\* The variables keep their types; the control thread is in a step its phase
\* has, and an open volume has a segment to append to.
TypeOK ==
    /\ \A r \in writes \cup Logged : r[1] \in Blocks /\ r[2] \in Nat
    /\ hot \in [Blocks -> Nat] /\ promised \in [Blocks -> Nat]
    /\ seqNum \in Nat /\ objNum \in Nat /\ wallNum \in Nat
    /\ dirty \in BOOLEAN /\ closeErr \in BOOLEAN
    /\ phase \in {"down", "recover", "serving", "closing"}
    /\ at \in CASE phase = "down"    -> {"idle"}
               [] phase = "serving" -> {"idle", "upload", "live"}
               [] phase = "recover" -> {"upload", "config", "numbered", "live", "remove"}
               [] phase = "closing" -> {"upload", "config", "numbered", "live", "remove"}
    /\ phase = "serving" => segments # <<>>
    /\ tick # {} => phase \in {"recover", "serving"}
    /\ lost \subseteq Losses \X Blocks

\* What a successful Flush promised survives: once the volume serves again,
\* every block reads at least as new as at the last successful Flush, through
\* crashes at any step, failed uploads and failed saves.  Left out are the
\* blocks of which one of the paths above has dropped or displaced a record.
FlushedSurvives ==
    phase = "serving" => \A b \in Blocks :
        (\A l \in lost : l[2] # b) => Readable(b) >= promised[b]

\* A volume that serves numbers its next write above every record its map
\* names; a lower number would be taken for a stale drain and dropped
\* (RecoverLocalWALs, LoadState).
SeqNumCoversMap ==
    phase = "serving" => \A e \in lookup : \A b \in e.start..(End(e) - 1) :
        SeqNumAt(e, b) <= seqNum

\* A volume that is up never hands out an ObjectID that its map or the
\* checkpoint an open would load refers to (parseBlockCheckpoint), but for the
\* blocks of a checkpoint it was not opened from: an abandoned volume's, one
\* that WallNum has moved to, or one the open could not read.
ChunkIDsFresh ==
    phase # "down" =>
        /\ \A e \in lookup : e.obj < objNum
        /\ \A b \in DOMAIN Loaded :
               lost \cap ({"orphan", "wall", "unread"} \X {b}) = {} => Loaded[b].obj < objNum

\* What the next open loads never goes back to an older record of a block that
\* no path has dropped or displaced a record of.
LoadedAdvances ==
    [][\A b \in DOMAIN Loaded : (\A l \in lost' : l[2] # b) =>
           b \in DOMAIN Loaded' /\ Loaded'[b].seq >= Loaded[b].seq]_diskVars

\* The version of a block that the next open would bring back.
Recoverable(b) ==
    Max({0} \cup {r[2] : r \in {x \in Logged : x[1] = b}}
            \cup {Loaded[c].seq : c \in DOMAIN Loaded \cap {b}})

\* The volume is a disk with a volatile write cache: what a guest reads is
\* changed by its own writes alone, never by flushes, drains, checkpoints or
\* recovery, and what an open brings back is settled when the volume goes
\* down: opens that crash or fail half way do not change it again.
Disk == INSTANCE GuestDisk WITH
            up      <- phase = "serving",
            data    <- [b \in Blocks |->
                           IF phase = "serving" THEN Readable(b) ELSE Recoverable(b)],
            safe    <- promised,
            damaged <- {l[2] : l \in lost}
VolumeIsDisk == Disk!Spec

\* Close removes the local WAL because everything in it was "upload/sync in
\* prior steps": no record is removed that no open could bring back.
CloseKeepsRecords == \A l \in lost : l[1] # "close"

\* The stale-drain guard lets a run "Only advance on a strictly newer SeqNum":
\* a replayed run neither takes a block back nor leaves one behind that is
\* newer than the map has it.
ReplayKeepsRecords == \A l \in lost : l[1] # "replay"
=============================================================================
