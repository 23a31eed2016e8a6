------------------------------ MODULE ChunkGC ------------------------------
(***************************************************************************)
(* Chunk garbage collection: a sweep deletes the chunk objects no block    *)
(* refers to any more, beside the drains that create new ones, beside the  *)
(* snapshots that pin old ones, and through crashes, recovery and Close.   *)
(*                                                                         *)
(* A sweep drains (so that the live checkpoint excludes its candidates),   *)
(* checks once per open that no snapshot of the volume exists, lists the   *)
(* chunk objects once per open, takes the candidates                       *)
(*     count = 0  /\  floor <= id < watermark                              *)
(* under the map's lock, reads the snapshot marker again and deletes.      *)
(* Only the drain holds drainMu: the rest runs beside other drains.  A     *)
(* snapshot is taken by the engine that serves the volume ("own") or by    *)
(* another process ("daemon"), which freezes the map it loaded when it     *)
(* opened the volume.                                                      *)
(*                                                                         *)
(* The map is a function from block to ObjectID, counted from 1; 0 is "no  *)
(* entry".  A chunk's reference count is the number of entries that name   *)
(* it (BlockMap checks that), so only the set of ids that have a count is  *)
(* kept.  Which records are stale is left open: an insert moves any of the *)
(* chunk's blocks.                                                         *)
(***************************************************************************)
EXTENDS Naturals, FiniteSets, FiniteSetsExt, TLC

CONSTANTS
    Blocks,
    Kinds,          \* who takes snapshots: a subset of {"own", "daemon"}
    MaxObj,         \* bound: ObjectNum, past which only recovery goes
    MaxOpens,       \* bound: opens of the volume
    MaxSnaps,       \* bound: snapshots begun
    MaxFaults       \* bound: failed backend calls

ASSUME GCAssumption == IsFiniteSet(Blocks) /\ Kinds \subseteq {"own", "daemon"}
ASSUME GCBoundAssumption ==
    MaxObj \in Nat /\ MaxOpens \in Nat /\ MaxSnaps \in Nat /\ MaxFaults \in Nat

VARIABLES
    \* the backend: chunk objects, the live checkpoint (a set of at most one
    \* map), the numbered checkpoints by WallNum, config.json, the snapshot
    \* marker (how many were written), the snapshots whose config.json exists
    objects, live, numbered, config, marker, snaps,
    \* the engine: phase, BlockLookup, blocks in Writes.Blocks, blocks with a
    \* record in the local WAL (it outlives a crash), ObjectNum, dirty,
    \* BlockToObjectWAL.WallNum, the domain of gcRefcount
    phase, lookup, todo, wal, objNum, dirty, wall, counted,
    \* the drain: who holds drainMu, chunks to upload, chunks whose PUT has
    \* landed and whose entries are not made yet, and whether a PUT failed
    drain, jobs, inflight, failed,
    \* the sweep: its step, what it read so far
    gc, seen, listed, cand, mark,
    \* what it remembers for the life of the VB: gcLatchedOff,
    \* gcSnapshotChecked/Safe, gcMarkerBaseline, gcReconciled, gcFloor
    latched, scan, baseline, reconciled, floor,
    \* the one CreateSnapshot call
    sp, skind, smap, sgap, ssaved, taken,
    \* history: ids collected while their own insert was pending, and ids
    \* whose last reference went while a sweep was past its drain
    raced, beside,
    opens, faults

backendVars == <<objects, live, numbered, config, marker, snaps>>
engineVars  == <<phase, lookup, todo, wal, objNum, dirty, wall, counted>>
drainVars   == <<drain, jobs, inflight, failed>>
sweepVars   == <<gc, seen, listed, cand, mark>>
cacheVars   == <<latched, scan, baseline, reconciled, floor>>
snapVars    == <<sp, skind, smap, sgap, ssaved, taken>>
histVars    == <<raced, beside>>
vars == <<backendVars, engineVars, drainVars, sweepVars, cacheVars, snapVars, histVars,
          opens, faults>>

Empty == [b \in Blocks |-> 0]
Named(m) == {m[b] : b \in Blocks} \ {0}
NotReady == MaxObj + Cardinality(Blocks) + 2

Init ==
    /\ objects = {} /\ live = {} /\ numbered = [w \in {} |-> Empty]
    /\ config = [wall |-> 0, obj |-> 1] /\ marker = 0 /\ snaps = {}
    /\ phase = "down" /\ lookup = Empty /\ todo = {} /\ wal = {} /\ objNum = 1
    /\ dirty = FALSE /\ wall = 0 /\ counted = {}
    /\ drain = "free" /\ jobs = {} /\ inflight = {} /\ failed = FALSE
    /\ gc = "idle" /\ seen = 0 /\ listed = {} /\ cand = {} /\ mark = 0
    /\ latched = FALSE /\ scan = "unknown" /\ baseline = 0 /\ reconciled = FALSE
    /\ floor = NotReady
    /\ sp = "idle" /\ skind = "own" /\ smap = Empty /\ sgap = FALSE /\ ssaved = TRUE
    /\ taken = 0 /\ raced = {} /\ beside = {} /\ opens = 0 /\ faults = 0

Fault == faults < MaxFaults /\ faults' = faults + 1

-----------------------------------------------------------------------------
(* Writes and drains.                                                      *)

Write(b) ==
    /\ phase = "serving" /\ b \notin todo
    /\ objNum + Cardinality(todo) + Cardinality(UNION jobs) < MaxObj
    /\ todo' = todo \cup {b}
    /\ UNCHANGED <<backendVars, phase, lookup, wal, objNum, dirty, wall, counted,
                   drainVars, sweepVars, cacheVars, snapVars, histVars, opens, faults>>

\* The blocks of a segment in one chunk, or in a chunk each.
Chunkings(D) == IF D = {} THEN {{}} ELSE {{D}, {{b} : b \in D}}

\* drainMu is taken, Writes.Blocks goes to the WAL and the segment is rotated.
Rotate(who) ==
    /\ drain = "free" /\ drain' = who
    /\ jobs' \in Chunkings(todo)
    /\ wal' = wal \cup todo /\ todo' = {}
    /\ failed' = FALSE
    /\ UNCHANGED <<lookup, objNum, dirty, wall, counted, inflight>>

\* The uploader's ticker or size trigger, or the snapshot socket.  A drain
\* that finds nothing to do is left out.
StartDrain ==
    /\ phase = "serving" /\ (todo # {} \/ dirty)
    /\ Rotate("bg")
    /\ UNCHANGED <<backendVars, phase, sweepVars, cacheVars, snapVars, histVars, opens,
                   faults>>

\* createChunkFile up to the return of the PUT.  Recovery uploads one chunk
\* at a time.
Put(j) ==
    /\ j \in jobs /\ (drain = "recover" => inflight = {})
    /\ objects' = objects \cup {objNum}
    /\ inflight' = inflight \cup {[id |-> objNum, blocks |-> j]}
    /\ objNum' = objNum + 1
    /\ jobs' = jobs \ {j}
    /\ UNCHANGED <<live, numbered, config, marker, snaps, phase, lookup, todo, wal, dirty,
                   wall, counted, drain, failed, sweepVars, cacheVars, snapVars, histVars,
                   opens, faults>>

\* The engine's memory at a start or an end.
Forget ==
    /\ lookup' = Empty /\ todo' = {} /\ objNum' = 1 /\ dirty' = FALSE /\ wall' = 0
    /\ counted' = {}
    /\ drain' = "free" /\ jobs' = {} /\ inflight' = {} /\ failed' = FALSE
    /\ gc' = "idle" /\ seen' = 0 /\ listed' = {} /\ cand' = {} /\ mark' = 0
    /\ latched' = FALSE /\ scan' = "unknown" /\ baseline' = 0 /\ reconciled' = FALSE
    /\ floor' = NotReady

\* A PUT whose error may hide that the object landed: no further chunk is
\* submitted; recovery fails the open.
PutFails ==
    /\ jobs # {} /\ Fault
    /\ objects' \in {objects, objects \cup {objNum}}
    /\ IF drain = "recover"
       THEN phase' = "down" /\ Forget /\ UNCHANGED wal
       ELSE /\ objNum' = objNum + 1
            /\ jobs' = {} /\ failed' = TRUE
            /\ UNCHANGED <<phase, lookup, todo, wal, dirty, wall, counted, drain, inflight,
                           sweepVars, cacheVars>>
    /\ UNCHANGED <<live, numbered, config, marker, snaps, snapVars, histVars, opens>>

\* createChunkFile under BlocksToObject.mu: the runs that are not stale get
\* their entries; the chunk has a count from here on, zero if all were stale.
InsertEntries(c) ==
    /\ c \in inflight
    /\ \E moved \in SUBSET c.blocks :
           lookup' = [b \in Blocks |-> IF b \in moved THEN c.id ELSE lookup[b]]
    /\ beside' = IF gc \in {"idle", "drain"} THEN beside
                 ELSE beside \cup (Named(lookup) \ Named(lookup'))
    /\ counted' = counted \cup {c.id}
    /\ dirty' = TRUE
    /\ inflight' = inflight \ {c}
    /\ UNCHANGED <<backendVars, phase, todo, wal, objNum, wall, drain, jobs, failed,
                   sweepVars, cacheVars, snapVars, raced, opens, faults>>

\* Mutant: a sweep also follows a drain whose live checkpoint failed.
AfterDrainAlwaysSweeps(up, saved) ==
    /\ gc' = IF drain \in {"gc", "close"} /\ up THEN "check" ELSE gc
    /\ sp' = IF drain # "snap" THEN sp ELSE IF up THEN "drained" ELSE "idle"

\* What follows a drain: the sweep of runGCSweep and of Close needs all of it,
\* a snapshot goes on without the live checkpoint.
AfterDrain(up, saved) ==
    /\ gc' = IF drain \notin {"gc", "close"} THEN gc
             ELSE IF up /\ saved THEN "check" ELSE "idle"
    /\ sp' = IF drain # "snap" THEN sp ELSE IF up THEN "drained" ELSE "idle"

\* The end of a drain: SaveLiveCheckpointCtx if every chunk landed.
EndDrain ==
    /\ drain \in {"bg", "gc", "snap", "close"} /\ jobs = {} /\ inflight = {}
    /\ drain' = "free" /\ failed' = FALSE
    /\ \/ /\ failed
          /\ AfterDrain(FALSE, FALSE) /\ UNCHANGED <<live, dirty, faults>>
       \/ /\ ~failed
          /\ live' = (IF dirty THEN {lookup} ELSE live) /\ dirty' = FALSE
          /\ AfterDrain(TRUE, TRUE) /\ UNCHANGED faults
       \/ /\ ~failed /\ dirty /\ Fault
          /\ live' \in {live, {lookup}}
          /\ AfterDrain(TRUE, FALSE) /\ UNCHANGED dirty
    /\ UNCHANGED <<objects, numbered, config, marker, snaps, phase, lookup, todo, wal,
                   objNum, wall, counted, jobs, inflight, seen, listed, cand, mark,
                   cacheVars, skind, smap, sgap, ssaved, taken, histVars, opens>>

-----------------------------------------------------------------------------
(* The sweep.                                                              *)

\* runGCSweep: the drain first.
GCTick ==
    /\ phase = "serving" /\ gc = "idle"
    /\ Rotate("gc")
    /\ gc' = "drain"
    /\ UNCHANGED <<backendVars, phase, seen, listed, cand, mark, cacheVars, snapVars,
                   histVars, opens, faults>>

\* What a sweep step leaves alone when it touches no map, object or snapshot.
SweepOnly ==
    UNCHANGED <<backendVars, engineVars, drainVars, snapVars, histVars, opens>>

\* ensureGCSnapshotSafe up to the baseline: latched, cached, or read the
\* marker before the scan.
SnapshotSafe ==
    /\ gc = "check"
    /\ \/ /\ gc' = CASE latched \/ scan = "unsafe" -> "idle"
                     [] scan = "safe" /\ ~latched -> "list"
                     [] scan = "unknown" /\ ~latched -> "scan"
          /\ seen' = (IF gc' = "scan" THEN marker ELSE 0) /\ UNCHANGED faults
       \/ /\ scan = "unknown" /\ ~latched /\ Fault
          /\ gc' = "idle" /\ UNCHANGED seen
    /\ UNCHANGED <<listed, cand, mark, cacheVars>> /\ SweepOnly

\* scanForOwnSnapshots: a snapshot exists once its config.json does.  A
\* snapshot whose marker is the baseline and whose config.json is missing yet
\* is seen by neither (sgap).
ScanForOwnSnapshots ==
    /\ gc = "scan"
    /\ \/ /\ scan' = IF snaps = {} THEN "safe" ELSE "unsafe"
          /\ baseline' = seen
          /\ gc' = IF snaps = {} THEN "list" ELSE "idle"
          /\ sgap' = (sgap \/ (snaps = {} /\ sp \in {"marked", "frozen"} /\ marker = seen))
          /\ UNCHANGED faults
       \/ Fault /\ gc' = "idle" /\ UNCHANGED <<scan, baseline, sgap>>
    /\ seen' = 0
    /\ UNCHANGED <<backendVars, engineVars, drainVars, listed, cand, mark, latched,
                   reconciled, floor, sp, skind, smap, ssaved, taken, histVars, opens>>

\* reconcileChunksOnce: the listing ...
ListChunks ==
    /\ gc = "list"
    /\ \/ /\ gc' = IF reconciled THEN "floor" ELSE "merge"
          /\ listed' = (IF reconciled THEN {} ELSE objects)
          /\ UNCHANGED faults
       \/ ~reconciled /\ Fault /\ gc' = "floor" /\ UNCHANGED listed
    /\ UNCHANGED <<seen, cand, mark, cacheVars>> /\ SweepOnly

\* ... and, under the map's lock, a zero count for every id without one.
MergeListed ==
    /\ gc = "merge"
    /\ counted' = counted \cup listed
    /\ reconciled' = TRUE
    /\ gc' = "floor" /\ listed' = {}
    /\ UNCHANGED <<backendVars, phase, lookup, todo, wal, objNum, dirty, wall, drainVars,
                   seen, cand, mark, latched, scan, baseline, floor, snapVars, histVars,
                   opens, faults>>

\* Mutant: the highest referenced ObjectID itself.
FloorOffByOne(m) == IF Named(m) = {} THEN 0 ELSE Max(Named(m))

\* numberedCheckpointHighWater and ensureGCFloor.
FloorOf(m) == IF Named(m) = {} THEN 0 ELSE Max(Named(m)) + 1

\* The floor is read once per open, the watermark at every sweep.  A failed
\* read lets nothing through this time.
EnsureGCFloor ==
    /\ gc = "floor"
    /\ \/ /\ floor' = IF floor # NotReady THEN floor
                      ELSE IF wall \in DOMAIN numbered THEN FloorOf(numbered[wall]) ELSE 0
          /\ mark' = objNum /\ UNCHANGED faults
       \/ floor = NotReady /\ Fault /\ mark' = 0 /\ UNCHANGED floor
    /\ gc' = "collect"
    /\ UNCHANGED <<seen, listed, cand, latched, scan, baseline, reconciled>> /\ SweepOnly

\* The candidates, under the map's lock.  A chunk that was listed, or that an
\* engine which crashed had left, can be one while its insert is pending (raced).
Collect ==
    /\ gc = "collect"
    /\ cand' = {id \in counted \ Named(lookup) : floor <= id /\ id < mark}
    /\ raced' = raced \cup (cand' \cap {c.id : c \in inflight})
    /\ gc' = "marker" /\ mark' = 0
    /\ UNCHANGED <<backendVars, engineVars, drainVars, seen, listed, cacheVars, snapVars,
                   beside, opens, faults>>

\* Mutant: the marker is not read again before the deletes.
MarkerUnread ==
    /\ gc = "marker" /\ gc' = "delete"
    /\ UNCHANGED <<backendVars, engineVars, drainVars, seen, listed, cand, mark, cacheVars,
                   snapVars, histVars, opens, faults>>

\* gcSnapshotMarkerMoved.  The map another process has loaded and not announced
\* yet may name a candidate (sgap).
MarkerMoved ==
    /\ gc = "marker"
    /\ \/ /\ marker # baseline
          /\ latched' = TRUE /\ gc' = "idle" /\ cand' = {} /\ UNCHANGED <<sgap, faults>>
       \/ /\ marker = baseline
          /\ gc' = "delete"
          /\ sgap' = (sgap \/ (sp = "loaded" /\ cand \cap Named(smap) # {}))
          /\ UNCHANGED <<latched, cand, faults>>
       \/ Fault /\ gc' = "idle" /\ cand' = {} /\ UNCHANGED <<latched, sgap>>
    /\ UNCHANGED <<backendVars, engineVars, drainVars, seen, listed, mark, scan, baseline,
                   reconciled, floor, sp, skind, smap, ssaved, taken, histVars, opens>>

\* deleteChunkObjects: one DELETE per candidate; a failed one keeps its count.
DeleteChunkObjects ==
    /\ gc = "delete"
    /\ IF cand = {}
       THEN gc' = "idle" /\ UNCHANGED <<objects, counted, cand, faults>>
       ELSE \E id \in cand :
               /\ cand' = cand \ {id} /\ gc' = gc
               /\ \/ /\ objects' = objects \ {id} /\ counted' = counted \ {id}
                     /\ UNCHANGED faults
                  \/ Fault /\ UNCHANGED <<objects, counted>>
    /\ UNCHANGED <<live, numbered, config, marker, snaps, phase, lookup, todo, wal, objNum,
                   dirty, wall, drainVars, seen, listed, mark, cacheVars, snapVars,
                   histVars, opens>>

-----------------------------------------------------------------------------
(* CreateSnapshot.                                                         *)

SnapOnly ==
    UNCHANGED <<objects, live, numbered, config, engineVars, sweepVars, scan, baseline,
                reconciled, floor, histVars, opens>>

\* The map LoadLiveCheckpoint finds.
Loaded ==
    IF live # {} THEN CHOOSE m \in live : TRUE
    ELSE IF config.wall \in DOMAIN numbered THEN numbered[config.wall] ELSE Empty

\* The marker goes out before the map is read; a failed write (which may have
\* landed) fails the snapshot.
PutMarker(next) ==
    \/ marker' = marker + 1 /\ sp' = next /\ UNCHANGED faults
    \/ Fault /\ marker' \in {marker, marker + 1} /\ sp' = "idle"

\* By the serving engine: GC is latched off, then the marker.
BeginOwn ==
    /\ "own" \in Kinds /\ sp = "idle" /\ taken < MaxSnaps /\ phase = "serving"
    /\ latched' = TRUE
    /\ PutMarker("marked")
    /\ skind' = "own" /\ taken' = taken + 1 /\ sgap' = FALSE /\ ssaved' = TRUE
    /\ UNCHANGED <<snaps, smap, drainVars>> /\ SnapOnly

DrainForSnapshot ==
    /\ sp = "marked"
    /\ Rotate("snap")
    /\ sp' = "draining"
    /\ UNCHANGED <<backendVars, phase, sweepVars, cacheVars, skind, smap, sgap, ssaved,
                   taken, histVars, opens, faults>>

\* The map as it is now: a drain that began after this call's own may have
\* made entries the live checkpoint has not got yet (ssaved).
Freeze ==
    /\ sp = "drained"
    /\ smap' = lookup /\ sp' = "frozen"
    /\ ssaved' = (live = {lookup})
    /\ UNCHANGED <<snaps, marker, latched, drainVars, skind, sgap, taken, faults>>
    /\ SnapOnly

\* By another process: it opens the volume, and with that loads the map ...
DaemonLoads ==
    /\ "daemon" \in Kinds /\ sp = "idle" /\ taken < MaxSnaps
    /\ smap' = Loaded /\ sp' = "loaded"
    /\ skind' = "daemon" /\ taken' = taken + 1
    /\ sgap' = ~(Named(Loaded) \subseteq objects) /\ ssaved' = TRUE
    /\ UNCHANGED <<snaps, marker, latched, drainVars, faults>> /\ SnapOnly

\* ... then writes the marker; it owns no WAL, so it drains nothing and
\* freezes what it loaded.
DaemonMarks ==
    /\ sp = "loaded"
    /\ PutMarker("frozen")
    /\ UNCHANGED <<snaps, latched, drainVars, skind, smap, sgap, ssaved, taken>> /\ SnapOnly

\* The checkpoint is written, then config.json; only with that the snapshot
\* exists.  The volume is unencrypted: no SaveState in between.
FinishSnapshot ==
    /\ sp = "frozen"
    /\ sp' = "idle" /\ smap' = Empty /\ skind' = "own" /\ sgap' = FALSE /\ ssaved' = TRUE
    /\ \/ /\ snaps' = snaps \cup {[map |-> smap, gap |-> sgap, saved |-> ssaved]}
          /\ UNCHANGED faults
       \/ Fault /\ UNCHANGED snaps
    /\ UNCHANGED <<marker, latched, drainVars, taken>> /\ SnapOnly

-----------------------------------------------------------------------------
(* Open, recovery, Close, crash.                                           *)

\* Mutant: ObjectNum from config.json alone.
NextObjectOfConfig == config.obj

\* ObjectNum of config.json, raised past every id the checkpoint names
\* (parseBlockCheckpoint).
NextObject == Max({config.obj} \cup {id + 1 : id \in Named(Loaded)})

\* LoadState, LoadLiveCheckpoint (with fresh counts) and the scan of
\* RecoverLocalWALs.
Open ==
    /\ phase = "down" /\ opens < MaxOpens
    /\ NextObject <= MaxObj
    /\ opens' = opens + 1
    /\ lookup' = Loaded /\ counted' = Named(Loaded)
    /\ objNum' = NextObject /\ wall' = config.wall
    /\ IF wal = {}
       THEN phase' = "serving" /\ UNCHANGED <<drain, jobs>>
       ELSE phase' = "recover" /\ drain' = "recover" /\ jobs' \in Chunkings(wal)
    /\ UNCHANGED <<backendVars, todo, wal, dirty, inflight, failed, sweepVars, cacheVars,
                   snapVars, histVars, faults>>

\* What SaveState and SaveBlockState write.
SavedConfig == [wall |-> wall, obj |-> objNum]
SavedNumbered ==
    [w \in DOMAIN numbered \cup {wall} |-> IF w = wall THEN lookup ELSE numbered[w]]

\* One of the two fails, and may have taken effect all the same.  Recovery
\* gives up after the first, Close tries the second as well.
SaveFails ==
    /\ Fault
    /\ config' \in {config, SavedConfig} /\ numbered' \in {numbered, SavedNumbered}
    /\ phase = "closing" \/ config' = SavedConfig \/ numbered' = numbered
    /\ phase' = "down" /\ Forget /\ UNCHANGED <<live, wal>>

\* The end of recovery: config.json, the numbered checkpoint, whose WallNum is
\* then advanced, the live one, and the WAL removed.
EndRecovery ==
    /\ phase = "recover" /\ jobs = {} /\ inflight = {}
    /\ \/ SaveFails
       \/ /\ config' = SavedConfig /\ numbered' = SavedNumbered /\ wall' = wall + 1
          /\ \/ live' = {lookup} /\ dirty' = FALSE /\ UNCHANGED faults
             \/ Fault /\ live' \in {live, {lookup}} /\ UNCHANGED dirty
          /\ wal' = {} /\ phase' = "serving" /\ drain' = "free"
          /\ UNCHANGED <<lookup, todo, objNum, counted, jobs, inflight, failed, sweepVars,
                         cacheVars>>
    /\ UNCHANGED <<objects, marker, snaps, snapVars, histVars, opens>>

\* Mutant: Close does not wait for the sweep in progress.
CloseDuringSweep ==
    /\ phase = "serving" /\ (sp = "idle" \/ skind = "daemon")
    /\ Rotate("close")
    /\ phase' = "closing"
    /\ UNCHANGED <<backendVars, sweepVars, cacheVars, snapVars, histVars, opens, faults>>

\* Close: the sweeper and the uploader are stopped, which waits for what they
\* are doing; then a drain of its own.
StartClose ==
    /\ phase = "serving" /\ gc = "idle" /\ (sp = "idle" \/ skind = "daemon")
    /\ Rotate("close")
    /\ phase' = "closing"
    /\ UNCHANGED <<backendVars, sweepVars, cacheVars, snapVars, histVars, opens, faults>>

\* After the last sweep: SaveState, SaveBlockState, and the local files go,
\* unless one of the two failed.
EndClose ==
    /\ phase = "closing" /\ drain = "free" /\ gc = "idle"
    /\ \/ SaveFails
       \/ /\ config' = SavedConfig /\ numbered' = SavedNumbered
          /\ wal' = {} /\ phase' = "down" /\ Forget /\ UNCHANGED <<live, faults>>
    /\ UNCHANGED <<objects, marker, snaps, snapVars, histVars, opens>>

\* kill -9: memory and the engine's own CreateSnapshot are gone, the records
\* not yet flushed with it or not.
Crash ==
    /\ phase # "down" /\ opens < MaxOpens
    /\ phase' = "down" /\ Forget
    /\ wal' \in {wal, wal \cup todo}
    /\ sp' = (IF skind = "own" THEN "idle" ELSE sp)
    /\ UNCHANGED <<backendVars, skind, smap, sgap, ssaved, taken, histVars, opens, faults>>

Drain == StartDrain \/ EndDrain \/ PutFails
         \/ (\E j \in jobs : Put(j)) \/ (\E c \in inflight : InsertEntries(c))
Sweep == GCTick \/ SnapshotSafe \/ ScanForOwnSnapshots \/ ListChunks \/ MergeListed
         \/ EnsureGCFloor \/ Collect \/ MarkerMoved \/ DeleteChunkObjects
Snapshot == BeginOwn \/ DrainForSnapshot \/ Freeze \/ DaemonLoads \/ DaemonMarks
            \/ FinishSnapshot
Lifecycle == Open \/ EndRecovery \/ StartClose \/ EndClose \/ Crash

Next == (\E b \in Blocks : Write(b)) \/ Drain \/ Sweep \/ Snapshot \/ Lifecycle

Spec == Init /\ [][Next]_vars

\* Blocks are interchangeable.
BlockSymmetry == Permutations(Blocks)

-----------------------------------------------------------------------------
\* The variables keep their types.
TypeOK ==
    /\ objects \subseteq Nat /\ counted \subseteq Nat /\ cand \subseteq Nat
    /\ lookup \in [Blocks -> Nat] /\ smap \in [Blocks -> Nat]
    /\ todo \subseteq Blocks /\ wal \subseteq Blocks
    /\ phase \in {"down", "recover", "serving", "closing"}
    /\ drain \in {"free", "bg", "gc", "snap", "close", "recover"}
    /\ (drain = "free") => (jobs = {} /\ inflight = {})
    /\ gc \in {"idle", "drain", "check", "scan", "list", "merge", "floor", "collect",
               "marker", "delete"}
    /\ (gc = "drain") => (drain = "gc")
    /\ (drain = "close") => (gc = "idle")
    /\ sp \in {"idle", "loaded", "marked", "draining", "drained", "frozen"}
    /\ scan \in {"unknown", "safe", "unsafe"} /\ floor \in 0..NotReady

\* No sweep deletes a chunk that the map of the running engine, or the
\* checkpoint the next open would load, refers to: not beside drains, not
\* after failed PUTs, checkpoints or deletes, and not across a crash at any
\* step (sweepChunks runs only after a successful SaveLiveCheckpointCtx).
\* Left out are chunks collected between their PUT and their insert, and chunks
\* a drain replaced while the sweep was past its own drain.
LiveChunksExist == Named(lookup) \cup Named(Loaded) \subseteq objects \cup raced \cup beside

\* "a crash between checkpoint save and sweep leaves garbage on disk (safe),
\* never a dangling reference" (sweepChunks).
NoDanglingReference == Named(Loaded) \subseteq objects

\* The chunks a snapshot froze stay as long as the snapshot: of one taken by
\* the serving engine, and of another process' one outside the two windows
\* sgap marks (ensureGCSnapshotSafe, gcSnapshotMarkerMoved, CreateSnapshot).
SnapshotChunksExist ==
    \A s \in snaps : ~s.gap => Named(s.map) \subseteq objects \cup raced \cup beside

\* A sweep spares what the numbered checkpoint of config.json's WallNum refers
\* to, unless recovery has moved WallNum past it (ensureGCFloor).
FallbackSpared ==
    [][wall = config.wall /\ wall \in DOMAIN numbered =>
          (objects \ objects') \cap Named(numbered[wall]) = {}]_objects

\* An engine that is up never hands out an ObjectID that its map, a checkpoint
\* or a snapshot refers to, as long as the live checkpoint had caught up with
\* the map the snapshot froze; a second PUT under that id would replace the
\* chunk (parseBlockCheckpoint).
IDsNotReissued ==
    phase # "down" =>
        /\ \A id \in Named(lookup) \cup Named(Loaded) : id < objNum
        /\ \A s \in snaps : s.saved => \A id \in Named(s.map) : id < objNum

=============================================================================
