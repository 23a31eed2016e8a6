------------------------------- MODULE Clones -------------------------------
(***************************************************************************)
(* Snapshots and copy-on-write clones.  A snapshot is two sections: the    *)
(* source volume's own map, and, if the source is itself a clone, the      *)
(* blocks it inherits, layer by layer, each under the identity of the      *)
(* volume whose chunks hold them.  A clone reads its own blocks, then its  *)
(* base (the snapshot's own section), then the inherited layers.           *)
(*                                                                         *)
(* CreateSnapshot drains, reads the map under its lock, releases the lock  *)
(* and reads the map again for the inherited section, all beside guest     *)
(* writes and background drains.  A process that does not own the WAL      *)
(* ("remote") snapshots what it loaded when it opened the volume.          *)
(*                                                                         *)
(* A map entry is an ObjectID and an offset.  Uploads and live checkpoints *)
(* fail: the records of a failed upload stay in a WAL segment that no      *)
(* later drain takes.  After a crash ObjectNum starts again from           *)
(* config.json and the checkpoint, so an ObjectID can be handed out twice  *)
(* and the chunk of the first is replaced.                                 *)
(*                                                                         *)
(* A block has two halves, each holding the number of the write it came    *)
(* from, 0 if none: a partial write replaces one.  A replay is judged      *)
(* block by block (Volume has the runs), chunks are not deleted (ChunkGC)  *)
(* and no uploader runs beside recovery (Volume).                          *)
(***************************************************************************)
EXTENDS Naturals, Sequences, FiniteSets, FiniteSetsExt, TLC

CONSTANTS
    Blocks, Halves,
    Encrypted,      \* EncryptionEnabled
    MaxSources,     \* math.MaxUint8, layers of an inherited section
    MaxVolumes,     \* bound: volume 1 and its clones
    MaxWrites,      \* bound: guest writes
    MaxChunks,      \* bound: ObjectIDs of a volume
    MaxSnaps,       \* bound: snapshots
    MaxStops,       \* bound: closes and crashes of a volume that is up
    MaxFaults       \* bound: failed uploads, checkpoints and opens

ASSUME CloneAssumption ==
    /\ Blocks \subseteq Nat /\ IsFiniteSet(Blocks) /\ IsFiniteSet(Halves)
    /\ Encrypted \in BOOLEAN /\ MaxSources \in Nat
ASSUME CloneBoundAssumption ==
    /\ MaxVolumes \in Nat \ {0} /\ MaxWrites \in Nat /\ MaxChunks \in Nat
    /\ MaxSnaps \in Nat /\ MaxStops \in Nat /\ MaxFaults \in Nat

Volumes == 1..MaxVolumes
Ids     == 1..MaxChunks
Zero    == [h \in Halves |-> 0]
Junk    == [h \in Halves |-> MaxWrites + 1]    \* what no guest wrote
NoEntry == [obj |-> 0, off |-> 0]
NoMap   == [b \in Blocks |-> NoEntry]
None    == [b \in Blocks |-> 0]
NoChunk == [b \in {} |-> Zero]

VARIABLES
    \* each volume: "absent", "down", "loading" or "up"; SnapshotID and
    \* ObjectNum of config.json
    phase, conf, confObj,
    \* the VB that serves it: SnapshotID, BaseBlockMap with the ancestors
    link, layers,
    \* the records written since it was opened, by block, oldest first; how many
    \* of them rotated segments hold, and which one of them the map has
    log, taken, mapped,
    \* the map and the live checkpoint, ObjectNum, the chunks by ObjectID
    own, ckpt, objNum, objects,
    \* its drain: who holds drainMu, the blocks still to be uploaded
    drainer, segment,
    \* the CreateSnapshot call, and the snapshots that exist
    sp, snaps,
    \* history: what the guest has in each block, had when the volume was
    \* created, when the drain in progress and the last one with a checkpoint
    \* began (with the blocks that were left behind then)
    guest, first, cut, saved,
    writes, stops, faults

volVars  == <<phase, conf, confObj, link, layers>>
logVars  == <<log, taken, mapped>>
mapVars  == <<own, ckpt, objNum, objects>>
histVars == <<first, cut, saved>>
vars == <<volVars, logVars, mapVars, drainer, segment, sp, snaps, guest, histVars, writes, stops,
          faults>>

Moment(image, left) == [image |-> image, left |-> left]

NoSnap == [at |-> "idle", src |-> 0, own |-> NoMap, flat |-> <<>>, obj |-> 0,
           fits |-> [b \in Blocks |-> {}], torn |-> {}, left |-> {}, ahead |-> {}]

Init ==
    /\ phase = [v \in Volumes |-> IF v = 1 THEN "up" ELSE "absent"]
    /\ conf = [v \in Volumes |-> 0] /\ confObj = [v \in Volumes |-> 1]
    /\ link = conf /\ layers = [v \in Volumes |-> <<>>]
    /\ log = [v \in Volumes |-> [b \in Blocks |-> <<>>]]
    /\ taken = [v \in Volumes |-> None] /\ mapped = taken
    /\ own = [v \in Volumes |-> NoMap] /\ ckpt = own
    /\ objNum = [v \in Volumes |-> 1]
    /\ objects = [v \in Volumes |-> [i \in Ids |-> NoChunk]]
    /\ drainer = [v \in Volumes |-> "free"] /\ segment = [v \in Volumes |-> {}]
    /\ sp = NoSnap /\ snaps = <<>>
    /\ guest = [v \in Volumes |-> [b \in Blocks |-> Zero]] /\ first = guest
    /\ cut = [v \in Volumes |-> Moment(guest[v], {})] /\ saved = cut
    /\ writes = 0 /\ stops = 0 /\ faults = 0

Fault == faults < MaxFaults /\ faults' = faults + 1

-----------------------------------------------------------------------------
(* Chunks and reading.                                                     *)

\* Where a block lies in a chunk that holds the blocks S, sorted.
Place(S, b) == Cardinality({x \in S : x < b})

\* The record a map entry names, fetched by ObjectID and offset; if the chunk
\* has another block there, or ends before, the read gives what no guest wrote.
Fetch(vol, b, e) ==
    LET chunk == objects[vol][e.obj] IN
    IF e.obj \in Ids /\ b \in DOMAIN chunk /\ Place(DOMAIN chunk, b) = e.off
    THEN chunk[b] ELSE Junk

\* The base and then the ancestors, the first that has the block.
Inherited(L, b) ==
    LET having == {i \in DOMAIN L : L[i].map[b] # NoEntry} IN
    IF having = {} THEN Zero ELSE Fetch(L[Min(having)].vol, b, L[Min(having)].map[b])

\* readBlockStore: a record that is not in the map yet, else the map's, else
\* what the volume inherits.
Read(v, b) ==
    IF mapped[v][b] < Len(log[v][b]) THEN log[v][b][Len(log[v][b])]
    ELSE IF own[v][b] # NoEntry THEN Fetch(v, b, own[v][b])
    ELSE Inherited(layers[v], b)

\* OpenFromSnapshot: the snapshot's own section becomes the base, its inherited
\* section the ancestors.
LayersOf(s) ==
    IF s = 0 THEN <<>> ELSE <<[vol |-> snaps[s].src, map |-> snaps[s].own]>> \o snaps[s].flat

\* What a clone of the snapshot finds in a block.
ImageOf(s, b) == Inherited(LayersOf(s), b)

\* The blocks of a snapshot whose chunks the source's live checkpoint did not
\* reach when the map was frozen.
Doubtful(s) == IF s = 0 THEN {} ELSE snaps[s].ahead

\* What an entry of a volume holds, by its history.
Holds(v, b, e) == IF e = NoEntry THEN first[v][b] ELSE Fetch(v, b, e)

-----------------------------------------------------------------------------
(* Guest writes and drains.                                                *)

\* A whole block, or one half spliced into what a read returns.
Write(v, b, H) ==
    /\ phase[v] = "up" /\ writes < MaxWrites
    /\ writes' = writes + 1
    /\ LET old == Read(v, b)
           new == [h \in Halves |-> IF h \in H THEN writes' ELSE old[h]]
       IN  /\ log' = [log EXCEPT ![v][b] = Append(@, new)]
           /\ guest' = [guest EXCEPT ![v][b] =
                            [h \in Halves |-> IF h \in H THEN writes' ELSE @[h]]]
           /\ sp' = IF sp.src = v /\ sp.at \in {"draining", "drained"}
                    THEN [sp EXCEPT !.fits[b] = @ \cup {guest'[v][b]}] ELSE sp
    /\ UNCHANGED <<volVars, taken, mapped, mapVars, drainer, segment, snaps, histVars, stops,
                   faults>>

\* The blocks with records in the open segment or in memory.
Pending(v) == {b \in Blocks : taken[v][b] < Len(log[v][b])}

\* The blocks whose newest record a failed drain has left in a closed segment.
Stranded(v) ==
    {b \in Blocks : mapped[v][b] < taken[v][b] /\ taken[v][b] = Len(log[v][b])}

\* drainMu is taken, what is in memory is flushed and the segment is rotated.
Rotate(v, who) ==
    /\ phase[v] = "up" /\ drainer[v] = "free"
    /\ drainer' = [drainer EXCEPT ![v] = who]
    /\ segment' = [segment EXCEPT ![v] = Pending(v)]
    /\ taken' = [taken EXCEPT ![v] = [b \in Blocks |-> Len(log[v][b])]]
    /\ cut' = [cut EXCEPT ![v] = Moment(guest[v], Stranded(v))]
    /\ UNCHANGED <<volVars, log, mapped, mapVars, snaps, guest, first, saved, writes, stops,
                   faults>>

\* The uploader's drain; one with nothing to write or to save is left out.
StartDrain(v) ==
    (Pending(v) # {} \/ own[v] # ckpt[v]) /\ Rotate(v, "bg") /\ UNCHANGED sp

\* The map with the blocks of a new chunk.
Advanced(m, S, id) ==
    [b \in Blocks |-> IF b \in S THEN [obj |-> id, off |-> Place(S, b)] ELSE m[b]]

\* createChunkFile for some of the segment: an ObjectID, the PUT, the entries
\* of the map.  If a block was inherited until now and CreateSnapshot is between
\* its two reads of the map, the snapshot has it in neither section (torn).
Upload(v, S) ==
    /\ S # {} /\ objNum[v] \in Ids
    /\ objects' = [objects EXCEPT ![v][objNum[v]] = [b \in S |-> log[v][b][taken[v][b]]]]
    /\ own' = [own EXCEPT ![v] = Advanced(@, S, objNum[v])]
    /\ mapped' = [mapped EXCEPT ![v] = [b \in Blocks |-> IF b \in S THEN taken[v][b] ELSE @[b]]]
    /\ objNum' = [objNum EXCEPT ![v] = @ + 1]
    /\ segment' = [segment EXCEPT ![v] = @ \ S]
    /\ sp' = IF sp.src = v /\ sp.at = "frozen"
             THEN [sp EXCEPT !.torn = @ \cup {b \in S : own[v][b] = NoEntry}] ELSE sp
    /\ UNCHANGED <<volVars, log, taken, ckpt, drainer, snaps, guest, histVars, writes, stops,
                   faults>>

DrainEnds(v) ==
    /\ drainer' = [drainer EXCEPT ![v] = "free"]
    /\ cut' = [cut EXCEPT ![v] = Moment(first[v], {})]

\* A PUT fails, its ObjectID is used up, and so does the drain, or the
\* CreateSnapshot it belongs to.  What was left of the segment stays there.
UploadFails(v) ==
    /\ segment[v] # {} /\ Fault
    /\ objNum' = [objNum EXCEPT ![v] = @ + 1]
    /\ segment' = [segment EXCEPT ![v] = {}]
    /\ DrainEnds(v)
    /\ sp' = IF drainer[v] = "snap" THEN NoSnap ELSE sp
    /\ UNCHANGED <<volVars, logVars, own, ckpt, objects, snaps, guest, first, saved, writes,
                   stops>>

\* The live checkpoint is written, or that fails and the caller goes on; drainMu
\* is released.
EndDrain(v) ==
    /\ drainer[v] # "free" /\ segment[v] = {}
    /\ \/ /\ ckpt' = [ckpt EXCEPT ![v] = own[v]] /\ saved' = [saved EXCEPT ![v] = cut[v]]
          /\ UNCHANGED faults
       \/ own[v] # ckpt[v] /\ Fault /\ UNCHANGED <<ckpt, saved>>
    /\ DrainEnds(v)
    /\ sp' = IF drainer[v] = "snap" THEN [sp EXCEPT !.at = "drained"] ELSE sp
    /\ UNCHANGED <<volVars, logVars, own, objNum, objects, segment, snaps, guest, first, writes,
                   stops>>

-----------------------------------------------------------------------------
(* CreateSnapshot.                                                         *)

SnapOnly == UNCHANGED <<phase, conf, link, layers, logVars, mapVars, drainer, segment, guest,
                        histVars, writes, stops, faults>>

\* drainForSnapshot begins.  Every write completed by now has to be in the
\* snapshot, later ones may be (fits), but for what failed drains have left.
BeginSnapshot(v) ==
    /\ sp.at = "idle" /\ Len(snaps) < MaxSnaps
    /\ Rotate(v, "snap")
    /\ sp' = [NoSnap EXCEPT !.at = "draining", !.src = v, !.left = Stranded(v),
                            !.fits = [b \in Blocks |-> {guest[v][b]}]]

\* The live checkpoint names this ObjectID or a later one, so no open hands it
\* out again.
Vouched(v, id) == \E c \in Blocks : id <= ckpt[v][c].obj

\* The own section, under the map's read lock; a volume that is no clone has no
\* other.
Freeze ==
    /\ sp.at = "drained"
    /\ sp' = [sp EXCEPT !.at = IF layers[sp.src] = <<>> THEN "built" ELSE "frozen",
                        !.own = own[sp.src],
                        !.ahead = {b \in Blocks : /\ own[sp.src][b] # NoEntry
                                                  /\ ~Vouched(sp.src, own[sp.src][b].obj)}]
    /\ UNCHANGED <<confObj, snaps>> /\ SnapOnly

\* buildFlatSection: of each layer, the blocks neither the volume itself nor a
\* nearer layer has.
FlatSection(o, L) ==
    [i \in DOMAIN L |->
        [vol |-> L[i].vol,
         map |-> [b \in Blocks |->
                     IF o[b] # NoEntry \/ \E j \in 1..(i - 1) : L[j].map[b] # NoEntry
                     THEN NoEntry ELSE L[i].map[b]]]]

\* Mutant: a clone's snapshot without its inherited blocks.
BuildNoFlatSection ==
    /\ sp.at = "frozen" /\ Len(layers[sp.src]) <= MaxSources
    /\ sp' = [sp EXCEPT !.at = "built"]
    /\ UNCHANGED <<confObj, snaps>> /\ SnapOnly

\* The inherited section of a clone's snapshot, from the map as it is now.
BuildFlatSection ==
    /\ sp.at = "frozen" /\ Len(layers[sp.src]) <= MaxSources
    /\ sp' = [sp EXCEPT !.at = "built", !.flat = FlatSection(own[sp.src], layers[sp.src])]
    /\ UNCHANGED <<confObj, snaps>> /\ SnapOnly

\* Mutant: ObjectNum from config.json alone.
NextObjectOfConfig(v) == confObj[v]

\* ObjectNum of config.json, raised past every id the checkpoint names.
NextObject(v) == Max({confObj[v]} \cup {ckpt[v][b].obj + 1 : b \in Blocks})

\* Another process opens the volume from its config.json and its live
\* checkpoint; both sections are of the map it loaded.
RemoteSnapshot(v) ==
    /\ sp.at = "idle" /\ Len(snaps) < MaxSnaps /\ phase[v] # "absent"
    /\ Len(LayersOf(conf[v])) <= MaxSources
    /\ sp' = [NoSnap EXCEPT !.at = "remote", !.src = v, !.own = ckpt[v], !.obj = NextObject(v),
                            !.flat = FlatSection(ckpt[v], LayersOf(conf[v])),
                            !.fits = [b \in Blocks |-> {saved[v].image[b]}],
                            !.left = saved[v].left]
    /\ UNCHANGED <<confObj, snaps>> /\ SnapOnly

\* The checkpoint and then the snapshot's config.json are written; an encrypted
\* volume saves its own config.json first, with the ObjectNum of this process.
\* History: the blocks in which a clone would find something else than it
\* should (wrong), and those with a chunk that is not vouched for (ahead).
SaveSnapshot ==
    /\ sp.at \in {"built", "remote"}
    /\ LET made == <<[vol |-> sp.src, map |-> sp.own]>> \o sp.flat
           past == Doubtful(conf[sp.src])
       IN  snaps' = Append(snaps,
               [src |-> sp.src, own |-> sp.own, flat |-> sp.flat, ahead |-> sp.ahead \cup past,
                wrong |-> {b \in Blocks \ (sp.torn \cup sp.left \cup past) :
                              Inherited(made, b) \notin sp.fits[b]}])
    /\ confObj' = [confObj EXCEPT ![sp.src] =
                      IF ~Encrypted THEN @ ELSE IF sp.at = "remote" THEN sp.obj ELSE objNum[sp.src]]
    /\ sp' = NoSnap
    /\ SnapOnly

\* One of its writes fails, or there are too many sources.
SnapshotFails ==
    /\ sp.at \in {"drained", "frozen", "built", "remote"}
    /\ sp' = NoSnap
    /\ UNCHANGED <<confObj, snaps>> /\ SnapOnly

-----------------------------------------------------------------------------
(* Creating, opening and ending a volume.                                  *)

\* A new volume opens from a snapshot and saves its state.
Clone(v, s) ==
    /\ phase[v] = "absent" /\ phase[v - 1] # "absent"
    /\ phase' = [phase EXCEPT ![v] = "up"]
    /\ conf' = [conf EXCEPT ![v] = s] /\ link' = [link EXCEPT ![v] = s]
    /\ layers' = [layers EXCEPT ![v] = LayersOf(s)]
    /\ LET image == [b \in Blocks |-> ImageOf(s, b)] IN
           /\ guest' = [guest EXCEPT ![v] = image] /\ first' = [first EXCEPT ![v] = image]
           /\ cut' = [cut EXCEPT ![v] = Moment(image, {})]
           /\ saved' = [saved EXCEPT ![v] = Moment(image, {})]
    /\ UNCHANGED <<confObj, logVars, mapVars, drainer, segment, sp, snaps, writes, stops, faults>>

\* Mutant: the first SeqNum window is saved before the link is restored.
LoadStateSavesFirst(v) ==
    /\ phase[v] = "down"
    /\ phase' = [phase EXCEPT ![v] = "loading"]
    /\ link' = [link EXCEPT ![v] = conf[v]]
    /\ layers' = [layers EXCEPT ![v] = LayersOf(conf[v])]
    /\ objNum' = [objNum EXCEPT ![v] = NextObject(v)]
    /\ conf' = [conf EXCEPT ![v] = 0]
    /\ UNCHANGED <<confObj, logVars, own, ckpt, objects, drainer, segment, sp, snaps, guest,
                   histVars, writes, stops, faults>>

\* LoadStateCtx restores the link to the snapshot, and the checkpoint is loaded.
LoadState(v) ==
    /\ phase[v] = "down"
    /\ phase' = [phase EXCEPT ![v] = "loading"]
    /\ link' = [link EXCEPT ![v] = conf[v]]
    /\ layers' = [layers EXCEPT ![v] = LayersOf(conf[v])]
    /\ objNum' = [objNum EXCEPT ![v] = NextObject(v)]
    /\ UNCHANGED <<conf, confObj, logVars, own, ckpt, objects, drainer, segment, sp, snaps,
                   guest, histVars, writes, stops, faults>>

\* The blocks of which the WAL has records.
Logged(v) == {b \in Blocks : log[v][b] # <<>>}
NewestLogged(v, b) == log[v][b][Len(log[v][b])]

\* A chunk of the newest records of some blocks, if there are any, and ObjectNum
\* after it.
Puts(v, S) ==
    IF S = {} THEN UNCHANGED objects
    ELSE /\ objNum[v] \in Ids
         /\ objects' = [objects EXCEPT ![v][objNum[v]] = [b \in S |-> NewestLogged(v, b)]]
After(v, S) == IF S = {} THEN objNum[v] ELSE objNum[v] + 1

\* The map after RecoverLocalWALs has uploaded the newest record of each block: a
\* record it has already is skipped.
Replayed(v) ==
    LET new == {b \in Logged(v) : \/ own[v][b] = NoEntry
                                  \/ Fetch(v, b, own[v][b]) # NewestLogged(v, b)}
    IN  [b \in Blocks |-> IF b \in new THEN [obj |-> objNum[v], off |-> Place(Logged(v), b)]
                          ELSE own[v][b]]

\* The records of the WAL are in the map and in the WAL no more.
NoLog(v) ==
    /\ log' = [log EXCEPT ![v] = [b \in Blocks |-> <<>>]]
    /\ taken' = [taken EXCEPT ![v] = None] /\ mapped' = [mapped EXCEPT ![v] = None]

\* config.json is saved with the next SeqNum window and after the replay, then
\* the live checkpoint, if that does not fail, and the WAL is removed.
FinishOpen(v) ==
    /\ phase[v] = "loading" /\ Puts(v, Logged(v))
    /\ phase' = [phase EXCEPT ![v] = "up"]
    /\ objNum' = [objNum EXCEPT ![v] = After(v, Logged(v))]
    /\ conf' = [conf EXCEPT ![v] = link[v]] /\ confObj' = [confObj EXCEPT ![v] = objNum'[v]]
    /\ own' = [own EXCEPT ![v] = Replayed(v)]
    /\ NoLog(v)
    /\ \/ /\ ckpt' = [ckpt EXCEPT ![v] = Replayed(v)]
          /\ saved' = [saved EXCEPT ![v] = Moment(guest[v], {})] /\ UNCHANGED faults
       \/ Replayed(v) # own[v] /\ Fault /\ UNCHANGED <<ckpt, saved>>
    /\ UNCHANGED <<link, layers, drainer, segment, sp, snaps, guest, first, cut, writes, stops>>

\* The process is gone, with its memory; own is what the next open loads.
Gone(v) ==
    /\ phase' = [phase EXCEPT ![v] = "down"]
    /\ link' = [link EXCEPT ![v] = 0] /\ layers' = [layers EXCEPT ![v] = <<>>]
    /\ own' = [own EXCEPT ![v] = ckpt'[v]] /\ objNum' = [objNum EXCEPT ![v] = 0]
    /\ drainer' = [drainer EXCEPT ![v] = "free"] /\ segment' = [segment EXCEPT ![v] = {}]

\* Recovery fails after its upload, with config.json saved or not.
OpenFails(v) ==
    /\ phase[v] = "loading" /\ Logged(v) # {} /\ Puts(v, Logged(v)) /\ Fault
    /\ confObj' \in {confObj, [confObj EXCEPT ![v] = After(v, Logged(v))]}
    /\ conf' = [conf EXCEPT ![v] = link[v]]
    /\ UNCHANGED ckpt /\ Gone(v)
    /\ UNCHANGED <<logVars, sp, snaps, guest, histVars, writes, stops>>

\* Mutant: Close does not wait for a drain in progress.
CloseDuringDrain(v) ==
    /\ phase[v] = "up" /\ ~(sp.src = v /\ sp.at # "remote")
    /\ stops < MaxStops /\ stops' = stops + 1
    /\ phase' = [phase EXCEPT ![v] = "down"]
    /\ link' = [link EXCEPT ![v] = 0] /\ layers' = [layers EXCEPT ![v] = <<>>]
    /\ own' = [own EXCEPT ![v] = ckpt[v]] /\ objNum' = [objNum EXCEPT ![v] = 0]
    /\ UNCHANGED <<conf, confObj, logVars, ckpt, objects, drainer, segment, sp, snaps, guest,
                   histVars, writes, faults>>

\* Close stops the uploader, drains and saves the state; the local files are
\* removed, whatever of the drain has failed.
Close(v) ==
    /\ phase[v] = "up" /\ drainer[v] = "free" /\ ~(sp.src = v /\ sp.at # "remote")
    /\ stops < MaxStops /\ stops' = stops + 1
    /\ Puts(v, Pending(v))
    /\ \/ /\ ckpt' = [ckpt EXCEPT ![v] = Advanced(own[v], Pending(v), objNum[v])]
          /\ guest' = [guest EXCEPT ![v] = [b \in Blocks |->
                 IF b \in Pending(v) THEN NewestLogged(v, b) ELSE Holds(v, b, own[v][b])]]
          /\ saved' = [saved EXCEPT ![v] = Moment(guest'[v], {})] /\ UNCHANGED faults
       \/ /\ Fault /\ UNCHANGED <<ckpt, saved>>
          /\ guest' = [guest EXCEPT ![v] = [b \in Blocks |-> Holds(v, b, ckpt[v][b])]]
    /\ confObj' = [confObj EXCEPT ![v] = After(v, Pending(v))]
    /\ conf' = [conf EXCEPT ![v] = link[v]]
    /\ Gone(v) /\ NoLog(v)
    /\ UNCHANGED <<sp, snaps, first, cut, writes>>

\* kill -9: of each block the newest records that had not reached the WAL are
\* gone; those in a rotated segment had.
Crash(v) ==
    /\ \/ phase[v] = "up" /\ stops < MaxStops /\ stops' = stops + 1
       \/ phase[v] = "loading" /\ UNCHANGED stops
    /\ UNCHANGED ckpt /\ Gone(v)
    /\ \E n \in [Blocks -> 0..MaxWrites] :
           /\ \A b \in Blocks : taken[v][b] <= n[b] /\ n[b] <= Len(log[v][b])
           /\ log' = [log EXCEPT ![v] = [b \in Blocks |-> SubSeq(@[b], 1, n[b])]]
           /\ taken' = [taken EXCEPT ![v] = n] /\ mapped' = [mapped EXCEPT ![v] = None]
           /\ guest' = [guest EXCEPT ![v] =
                  [b \in Blocks |-> IF n[b] = 0 THEN Holds(v, b, ckpt[v][b]) ELSE log[v][b][n[b]]]]
    /\ sp' = IF sp.src = v /\ sp.at # "remote" THEN NoSnap ELSE sp
    /\ cut' = [cut EXCEPT ![v] = Moment(first[v], {})]
    /\ UNCHANGED <<conf, confObj, objects, snaps, first, saved, writes, faults>>

Next ==
    \/ \E v \in Volumes :
          \/ \E b \in Blocks, H \in (SUBSET Halves) \ {{}} : Write(v, b, H)
          \/ \E S \in SUBSET segment[v] : Upload(v, S)
          \/ StartDrain(v) \/ UploadFails(v) \/ EndDrain(v)
          \/ BeginSnapshot(v) \/ RemoteSnapshot(v)
          \/ LoadState(v) \/ FinishOpen(v) \/ OpenFails(v) \/ Close(v) \/ Crash(v)
    \/ \E v \in Volumes \ {1}, s \in DOMAIN snaps : Clone(v, s)
    \/ Freeze \/ BuildFlatSection \/ SaveSnapshot \/ SnapshotFails

Spec == Init /\ [][Next]_vars

\* The halves of a block are interchangeable.
Symmetry == Permutations(Halves)

-----------------------------------------------------------------------------
\* The variables keep their types; a drain belongs to a volume that is up, and
\* the map and the checkpoint name only ObjectIDs that were handed out.
TypeOK ==
    /\ phase \in [Volumes -> {"absent", "down", "loading", "up"}]
    /\ conf \in [Volumes -> 0..Len(snaps)] /\ link \in [Volumes -> 0..Len(snaps)]
    /\ drainer \in [Volumes -> {"free", "bg", "snap"}]
    /\ sp.at \in {"idle", "draining", "drained", "frozen", "built", "remote"}
    /\ \A v \in Volumes :
          /\ drainer[v] = "free" => segment[v] = {}
          /\ drainer[v] # "free" => phase[v] = "up"
          /\ \A b \in Blocks :
                /\ mapped[v][b] <= taken[v][b] /\ taken[v][b] <= Len(log[v][b])
                /\ ckpt[v][b].obj <= own[v][b].obj
                /\ phase[v] = "up" => own[v][b].obj < objNum[v]

\* A guest reads what it wrote over what its volume was created with, as far as
\* that has survived: through partial writes of inherited blocks, clones of
\* clones, failed drains, closes and crashes at any step of an open, and
\* whatever the guests of the source and of other clones do (readBlockStore,
\* writeOneBlockLocked, LoadStateCtx).  Left out are blocks of a base that was
\* frozen ahead of its source's live checkpoint.
CloneReads ==
    \A v \in Volumes : phase[v] = "up" =>
        \A b \in Blocks \ Doubtful(conf[v]) : Read(v, b) = guest[v][b]

\* A snapshot holds, of every block, what the guest had there when
\* CreateSnapshot drained or wrote after that; a remote one what it had at the
\* volume's last drain with a checkpoint.  Left out are blocks whose newest
\* record a failed drain had left behind, inherited blocks that a background
\* drain entered in the map between the snapshot's two sections, and blocks of
\* a base that was itself frozen ahead of a checkpoint (CreateSnapshot,
\* drainForSnapshot, buildFlatSection).
SnapshotFaithful ==
    \A s \in DOMAIN snaps : snaps[s].wrong = {}

\* A snapshot is frozen: nothing any volume does later, crashes of the source
\* and the ObjectIDs it hands out again included, changes what a clone of it
\* finds.  Left out are the blocks it froze ahead of the live checkpoint: their
\* ObjectIDs are handed out again after a crash.
SnapshotFrozen ==
    [][\A s \in DOMAIN snaps : \A b \in Blocks \ snaps[s].ahead :
           ImageOf(s, b)' = ImageOf(s, b)]_vars
=============================================================================
