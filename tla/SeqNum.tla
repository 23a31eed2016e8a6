------------------------------- MODULE SeqNum -------------------------------
(***************************************************************************)
(* Sequence-number reservation on an encrypted volume, across crashes.     *)
(*                                                                         *)
(* Every block record is sealed under a nonce built from the volume's UUID *)
(* and the record's SeqNum, so a pair (VolumeUUID, SeqNum) may be handed   *)
(* out at most once in the life of the volume.  reserveSeqNum hands the    *)
(* numbers out lock-free up to a high-water mark and persists a higher     *)
(* mark in config.json before it goes past it; LoadState restarts the      *)
(* counter at the persisted mark.  config.json is kept in two copies (the  *)
(* local file, written atomically, and a backend object pushed without a   *)
(* lock, possibly late or never); LoadState takes the one with the higher  *)
(* StateSeqNum.                                                            *)
(*                                                                         *)
(* Spec is the engine the NBD plugin runs: SaveState only while no writer  *)
(* is active.  SnapSpec adds CreateSnapshot, whose SaveState runs beside   *)
(* the writers.                                                            *)
(***************************************************************************)
EXTENDS Naturals, FiniteSets

CONSTANTS
    Writers,        \* goroutines that call reserveSeqNum
    Nobody,         \* seqNumHighWaterMu is free
    Window,         \* seqNumReservation
    MaxSeqNum,      \* largest value of the nonce's SeqNum slot
    MaxBatch,       \* blocks in one Write call (WriteAt reserves one by one)
    SeqBound,       \* bound: no reservation starts above this SeqNum
    MaxMints,       \* bound: opens that mint a VolumeUUID
    MaxSnaps        \* bound: snapshots taken in one open

ASSUME WriterAssumption == Nobody \notin Writers
ASSUME WindowAssumption == Window \in Nat \ {0}
ASSUME BoundAssumption ==
    /\ MaxSeqNum \in Nat /\ SeqBound \in Nat /\ MaxMints \in Nat
    /\ MaxSnaps \in Nat /\ MaxBatch \in Nat \ {0}

VARIABLES
    \* config.json: the local copy and the backend copy
    local, backend,
    \* the open VB: phase of its life, vb.SeqNum, vb.seqNumHighWater,
    \* vb.nextStateSeqNum, vb.VolumeUUID, seqNumHighWaterMu
    phase, seqNum, highWater, stateSeq, uuid, mu,
    \* one reserveSeqNum call per writer: where it is, the reserved range
    \* lo+1..hi, the mark it persists and the bytes it pushes afterwards
    pc, lo, hi, want, img,
    \* the one CreateSnapshot call: where it is, its StateSeqNum, the
    \* high-water mark SaveState loaded, the bytes it pushes
    spc, sgen, shw, simg, snaps,
    \* crypto/rand never repeats: UUIDs minted so far
    mints,
    \* nonces sealed under since the volume was created, and those used twice
    used, reused

diskVars   == <<local, backend>>
memVars    == <<phase, seqNum, highWater, stateSeq, uuid, mu>>
writerVars == <<pc, lo, hi, want, img>>
snapVars   == <<spc, sgen, shw, simg, snaps>>
nonceVars  == <<used, reused>>
vars == <<diskVars, memVars, writerVars, snapVars, mints, nonceVars>>

-----------------------------------------------------------------------------
\* The fields of VBState that matter here; StateSeqNum 0 is "no config.json".
Config == [gen : Nat, hw : Nat, uuid : Nat]
NoConfig == [gen |-> 0, hw |-> 0, uuid |-> 0]

\* Mutant: the backend copy wins whenever there is one.
AuthoritativeBackendFirst(l, b) == IF b.gen > 0 THEN b ELSE l

\* The copy LoadState selects.
Authoritative(l, b) == IF l.gen = 0 \/ b.gen > l.gen THEN b ELSE l
Durable == Authoritative(local, backend)

\* The nonces of block records and of snapshot metadata.  The third domain is
\* left out: VBState itself, which persistStateLocal seals under StateSeqNum
\* before the file that makes that number durable is in place.
Nonce == [dom : {"data", "snap"}, uuid : Nat, n : Nat]
DataNonces(u, a, b) == {[dom |-> "data", uuid |-> u, n |-> s] : s \in (a + 1)..b}
SnapNonces(u, g) == {[dom |-> "snap", uuid |-> u, n |-> g]}

Seal(nonces) ==
    /\ used' = used \cup nonces
    /\ reused' = reused \cup (nonces \cap used)

\* persistStateLocal: the generation counter always advances; the write of
\* config.json takes effect as a whole or not at all.
NextConfig(hw, u) == [gen |-> stateSeq + 1, hw |-> hw, uuid |-> u]

\* A fresh volume, or a clone whose config the control plane has put on the
\* backend with an inherited high-water mark and no VolumeUUID yet.
Init ==
    /\ local = NoConfig
    /\ backend \in {NoConfig} \cup
                   {[gen |-> 1, hw |-> h, uuid |-> 0] : h \in {0, Window}}
    /\ phase = "down" /\ seqNum = 0 /\ highWater = 0 /\ stateSeq = 0
    /\ uuid = 0 /\ mu = Nobody
    /\ pc = [w \in Writers |-> "idle"]
    /\ lo = [w \in Writers |-> 0] /\ hi = [w \in Writers |-> 0]
    /\ want = [w \in Writers |-> 0]
    /\ img = [w \in Writers |-> NoConfig]
    /\ spc = "idle" /\ sgen = 0 /\ shw = 0 /\ simg = NoConfig /\ snaps = 0
    /\ mints = 0
    /\ used = {} /\ reused = {}

-----------------------------------------------------------------------------
\* The process is gone, and its memory with it.
Down ==
    /\ phase' = "down" /\ seqNum' = 0 /\ highWater' = 0 /\ stateSeq' = 0
    /\ uuid' = 0 /\ mu' = Nobody
    /\ pc' = [w \in Writers |-> "idle"]
    /\ lo' = [w \in Writers |-> 0] /\ hi' = [w \in Writers |-> 0]
    /\ want' = [w \in Writers |-> 0]
    /\ img' = [w \in Writers |-> NoConfig]
    /\ spc' = "idle" /\ sgen' = 0 /\ shw' = 0 /\ simg' = NoConfig /\ snaps' = 0

-----------------------------------------------------------------------------
(* Opening the volume: one goroutine, so a step is a whole function with   *)
(* the outcomes its I/O can have.                                          *)

\* LoadState on an existing volume, up to the durable bump of the mark; the
\* backend push that follows the bump may be lost.
LoadState ==
    /\ phase = "down" /\ Durable.gen > 0 /\ Durable.hw <= SeqBound
    /\ mints <= MaxMints
    /\ LET c == [gen |-> Durable.gen + 1, hw |-> Durable.hw + Window,
                 uuid |-> Durable.uuid]
       IN  /\ local' = c
           /\ backend' \in {c, backend}
           /\ stateSeq' = c.gen
           /\ highWater' = c.hw
    /\ phase' = "loaded"
    /\ seqNum' = Durable.hw
    /\ uuid' = Durable.uuid
    /\ UNCHANGED <<mu, writerVars, snapVars, mints, nonceVars>>

\* ImportDiskImage on a volume nobody has saved yet: LoadState finds nothing,
\* SaveState mints the UUID and sets the mark to one window.  A push that
\* fails ends the import; the local copy stays.
ImportFresh ==
    /\ phase = "down" /\ Durable.gen = 0 /\ mints <= MaxMints
    /\ mints' = mints + 1
    /\ LET c == [gen |-> 1, hw |-> Window, uuid |-> mints + 1]
       IN  /\ local' = c
           /\ \/ /\ backend' = c
                 /\ phase' = "importing"
                 /\ stateSeq' = 1 /\ highWater' = Window /\ uuid' = c.uuid
                 /\ UNCHANGED <<seqNum, mu, writerVars, snapVars>>
              \/ UNCHANGED backend /\ Down
    /\ UNCHANGED nonceVars

\* The least mark in whole windows above base that covers s.
Covering(base, s) ==
    IF s <= base THEN base
    ELSE base + Window * (((s - base) + (Window - 1)) \div Window)

\* Mutant: config.json is saved before the UUID is minted.
EnsureSavesFirst ==
    /\ phase = "loaded"
    /\ phase' = "recovering"
    /\ mints' = mints + 1 /\ uuid' = mints + 1
    /\ LET c == NextConfig(highWater, uuid)
       IN  local' = c /\ backend' = c /\ stateSeq' = c.gen
    /\ UNCHANGED <<seqNum, highWater, mu, writerVars, snapVars, nonceVars>>

\* EnsureVolumeUUID: nothing to do once the UUID is set; otherwise mint and
\* persist it under a mark that never goes down.  A failed persist or push
\* fails the open.
EnsureVolumeUUID ==
    /\ phase = "loaded"
    /\ \/ /\ uuid # 0
          /\ phase' = "recovering"
          /\ UNCHANGED <<diskVars, seqNum, highWater, stateSeq, uuid, mu,
                         writerVars, snapVars, mints>>
       \/ /\ uuid = 0
          /\ mints' = mints + 1
          /\ LET floor == IF highWater >= Window THEN highWater ELSE Window
                 hw    == Covering(floor, seqNum)
                 c     == NextConfig(hw, mints + 1)
             IN  \/ /\ local' = c /\ backend' = c
                    /\ phase' = "recovering"
                    /\ highWater' = hw /\ uuid' = c.uuid /\ stateSeq' = c.gen
                    /\ UNCHANGED <<seqNum, mu, writerVars, snapVars>>
                 \/ local' \in {c, local} /\ UNCHANGED backend /\ Down
    /\ UNCHANGED nonceVars

\* RecoverLocalWALs finds WAL files and ends in SaveState, or finds none.
\* The recovered SeqNums are all below the mark, so SeqNum stays.
RecoverLocalWALs ==
    /\ phase = "recovering"
    /\ LET c == NextConfig(highWater, uuid)
       IN  \/ /\ phase' = "serving"
              /\ \/ local' = c /\ backend' = c /\ stateSeq' = c.gen
                 \/ UNCHANGED <<diskVars, stateSeq>>
              /\ UNCHANGED <<seqNum, highWater, uuid, mu, writerVars, snapVars>>
           \/ local' \in {c, local} /\ UNCHANGED backend /\ Down
    /\ UNCHANGED <<mints, nonceVars>>

-----------------------------------------------------------------------------
(* reserveSeqNum, split where another goroutine can run.                   *)

Quiet == spc = "idle" /\ \A w \in Writers : pc[w] = "idle"

\* NBD requests run side by side; ImportDiskImage is one goroutine.
MayCall == phase = "serving" \/ (phase = "importing" /\ Quiet)

\* The call returns and its locals go out of scope.
Return(w) ==
    /\ pc' = [pc EXCEPT ![w] = "idle"]
    /\ lo' = [lo EXCEPT ![w] = 0] /\ hi' = [hi EXCEPT ![w] = 0]
    /\ want' = [want EXCEPT ![w] = 0] /\ img' = [img EXCEPT ![w] = NoConfig]

\* end := vb.SeqNum.Add(n); past MaxSeqNum the call fails and the numbers are
\* lost.
ReserveAdd(w, n) ==
    /\ MayCall /\ pc[w] = "idle" /\ seqNum <= SeqBound
    /\ seqNum' = seqNum + n
    /\ IF seqNum + n > MaxSeqNum
       THEN UNCHANGED writerVars
       ELSE /\ pc' = [pc EXCEPT ![w] = "check"]
            /\ lo' = [lo EXCEPT ![w] = seqNum]
            /\ hi' = [hi EXCEPT ![w] = seqNum + n]
            /\ UNCHANGED <<want, img>>
    /\ UNCHANGED <<diskVars, phase, highWater, stateSeq, uuid, mu, snapVars,
                   mints, nonceVars>>

\* Mutant: the first number of the range is compared with the mark.
ReserveCheckFirst(w) ==
    /\ pc[w] = "check"
    /\ IF lo[w] < highWater
       THEN /\ Return(w)
            /\ Seal(DataNonces(uuid, lo[w], hi[w]))
       ELSE /\ pc' = [pc EXCEPT ![w] = "lock"]
            /\ UNCHANGED <<lo, hi, want, img, nonceVars>>
    /\ UNCHANGED <<diskVars, memVars, snapVars, mints>>

\* The lock-free check against the published mark.
ReserveCheck(w) ==
    /\ pc[w] = "check"
    /\ IF hi[w] <= highWater
       THEN /\ Return(w)
            /\ Seal(DataNonces(uuid, lo[w], hi[w]))
       ELSE /\ pc' = [pc EXCEPT ![w] = "lock"]
            /\ UNCHANGED <<lo, hi, want, img, nonceVars>>
    /\ UNCHANGED <<diskVars, memVars, snapVars, mints>>

\* Mutant: the mark is published when it is computed, before it is durable.
ReserveLockPublishes(w) ==
    /\ pc[w] = "lock" /\ mu = Nobody
    /\ pc' = [pc EXCEPT ![w] = "persist"]
    /\ mu' = w
    /\ want' = [want EXCEPT ![w] = Covering(highWater, hi[w])]
    /\ highWater' = Covering(highWater, hi[w])
    /\ UNCHANGED <<diskVars, phase, seqNum, stateSeq, uuid, lo, hi, img,
                   snapVars, mints, nonceVars>>

\* Lock seqNumHighWaterMu and re-check; compute the mark to persist.
ReserveLock(w) ==
    /\ pc[w] = "lock" /\ mu = Nobody
    /\ IF hi[w] <= highWater
       THEN /\ Return(w)
            /\ Seal(DataNonces(uuid, lo[w], hi[w]))
            /\ UNCHANGED mu
       ELSE /\ pc' = [pc EXCEPT ![w] = "persist"]
            /\ mu' = w
            /\ want' = [want EXCEPT ![w] = Covering(highWater, hi[w])]
            /\ UNCHANGED <<lo, hi, img, nonceVars>>
    /\ UNCHANGED <<diskVars, phase, seqNum, highWater, stateSeq, uuid, snapVars,
                   mints>>

\* Mutant: config.json is overwritten in place, so a failure tears it.
ReservePersistTears(w) ==
    /\ pc[w] = "persist"
    /\ stateSeq' = stateSeq + 1
    /\ local' \in {NextConfig(want[w], uuid), [gen |-> stateSeq + 1]}
    /\ Return(w)
    /\ mu' = Nobody
    /\ UNCHANGED <<backend, phase, seqNum, highWater, uuid, snapVars, mints,
                   nonceVars>>

\* persistStateLocal(hw): config.json is replaced, or an error leaves either
\* copy of it behind and the call fails with its numbers unused.
ReservePersist(w) ==
    /\ pc[w] = "persist"
    /\ stateSeq' = stateSeq + 1
    /\ LET c == NextConfig(want[w], uuid)
       IN  \/ /\ local' = c
              /\ img' = [img EXCEPT ![w] = c]
              /\ pc' = [pc EXCEPT ![w] = "publish"]
              /\ UNCHANGED <<mu, lo, hi, want>>
           \/ /\ local' \in {c, local}
              /\ Return(w)
              /\ mu' = Nobody
    /\ UNCHANGED <<backend, phase, seqNum, highWater, uuid, snapVars, mints,
                   nonceVars>>

\* vb.seqNumHighWater.Store(hw) and unlock.
ReservePublish(w) ==
    /\ pc[w] = "publish"
    /\ highWater' = want[w]
    /\ mu' = Nobody
    /\ pc' = [pc EXCEPT ![w] = "push"]
    /\ UNCHANGED <<diskVars, phase, seqNum, stateSeq, uuid, lo, hi, want, img,
                   snapVars, mints, nonceVars>>

\* pushStateToBackend outside the mutex: an older push may land after a newer
\* one, and a failed one is only logged.  The caller gets its numbers.
ReservePush(w) ==
    /\ pc[w] = "push"
    /\ backend' \in {img[w], backend}
    /\ Return(w)
    /\ Seal(DataNonces(uuid, lo[w], hi[w]))
    /\ UNCHANGED <<local, memVars, snapVars, mints>>

Reserve(w) ==
    \/ \E n \in 1..MaxBatch : ReserveAdd(w, n)
    \/ ReserveCheck(w) \/ ReserveLock(w) \/ ReservePersist(w)
    \/ ReservePublish(w) \/ ReservePush(w)

-----------------------------------------------------------------------------
\* Close with every request answered: SaveState, and once it has succeeded
\* the volume's local directory, config.json included, is removed.
Close ==
    /\ phase \in {"importing", "serving"} /\ Quiet
    /\ LET c == NextConfig(highWater, uuid)
       IN  \/ local' = NoConfig /\ backend' = c
           \/ local' \in {c, local} /\ UNCHANGED backend
    /\ Down
    /\ UNCHANGED <<mints, nonceVars>>

\* kill -9: memory is gone, config.json is not.
Crash ==
    /\ phase # "down"
    /\ Down
    /\ UNCHANGED <<diskVars, mints, nonceVars>>

-----------------------------------------------------------------------------
(* CreateSnapshot's encrypted section, beside the writers.                 *)

\* Mutant: the metadata is sealed with no SaveState before it.
SnapBumpSeals ==
    /\ MayCall /\ spc = "idle" /\ snaps < MaxSnaps
    /\ stateSeq' = stateSeq + 1
    /\ snaps' = snaps + 1
    /\ Seal(SnapNonces(uuid, stateSeq + 1))
    /\ UNCHANGED <<diskVars, phase, seqNum, highWater, uuid, mu, writerVars, spc,
                   sgen, shw, simg, mints>>

\* snap.StateSeqNum = nextStateSeqNum.Add(1)
SnapBump ==
    /\ MayCall /\ spc = "idle" /\ snaps < MaxSnaps
    /\ stateSeq' = stateSeq + 1
    /\ sgen' = stateSeq + 1
    /\ snaps' = snaps + 1
    /\ spc' = "load"
    /\ UNCHANGED <<diskVars, phase, seqNum, highWater, uuid, mu, writerVars, shw,
                   simg, mints, nonceVars>>

\* SaveStateCtx evaluates vb.seqNumHighWater.Load() with no lock held ...
SnapLoadHighWater ==
    /\ spc = "load"
    /\ shw' = highWater
    /\ spc' = "persist"
    /\ UNCHANGED <<diskVars, memVars, writerVars, sgen, simg, snaps, mints,
                   nonceVars>>

\* ... and persistStateLocal writes it under saveStateMu only.
SnapPersist ==
    /\ spc = "persist"
    /\ stateSeq' = stateSeq + 1
    /\ LET c == NextConfig(shw, uuid)
       IN  \/ local' = c /\ simg' = c /\ spc' = "push"
           \/ local' \in {c, local} /\ simg' = simg /\ spc' = "idle"
    /\ UNCHANGED <<backend, phase, seqNum, highWater, uuid, mu, writerVars, sgen,
                   shw, snaps, mints, nonceVars>>

\* The push, then the snapshot's metadata is sealed under its StateSeqNum; a
\* failed push fails the snapshot.
SnapPush ==
    /\ spc = "push"
    /\ \/ backend' = simg /\ Seal(SnapNonces(uuid, sgen))
       \/ UNCHANGED <<backend, nonceVars>>
    /\ spc' = "idle"
    /\ UNCHANGED <<local, memVars, writerVars, sgen, shw, simg, snaps, mints>>

CreateSnapshot == SnapBump \/ SnapLoadHighWater \/ SnapPersist \/ SnapPush

-----------------------------------------------------------------------------
Engine ==
    \/ LoadState \/ ImportFresh \/ EnsureVolumeUUID \/ RecoverLocalWALs
    \/ \E w \in Writers : Reserve(w)
    \/ Close \/ Crash

Next == Engine
Spec == Init /\ [][Next]_vars

SnapNext == Engine \/ CreateSnapshot
SnapSpec == Init /\ [][SnapNext]_vars

-----------------------------------------------------------------------------
Phases == {"down", "loaded", "recovering", "importing", "serving"}
WriterPCs == {"idle", "check", "lock", "persist", "publish", "push"}

\* Every variable stays in its type; marks, counters and ranges are naturals
\* and config.json copies are whole records (no torn file is ever loaded).
TypeOK ==
    /\ local \in Config /\ backend \in Config
    /\ phase \in Phases /\ seqNum \in Nat /\ highWater \in Nat
    /\ stateSeq \in Nat /\ uuid \in Nat /\ mu \in Writers \cup {Nobody}
    /\ pc \in [Writers -> WriterPCs]
    /\ lo \in [Writers -> Nat] /\ hi \in [Writers -> Nat]
    /\ want \in [Writers -> Nat] /\ img \in [Writers -> Config]
    /\ spc \in {"idle", "load", "persist", "push"} /\ sgen \in Nat
    /\ shw \in Nat /\ simg \in Config /\ snaps \in Nat /\ mints \in Nat
    /\ used \in SUBSET Nonce /\ reused \in SUBSET Nonce

\* No nonce of a block record or of snapshot metadata is ever used twice,
\* whatever crashes, failed persists and late or lost backend pushes happen in
\* between (reserveSeqNum, LoadState, persistStateLocal, CreateSnapshot).
NonceUnique == reused = {}

\* What reserveSeqNum's comment claims: no SeqNum above the durable
\* high-water mark has been issued, where the durable mark is the one in the
\* config.json copy LoadState would select now.
IssuedBelowDurable ==
    \A x \in used : x.dom = "data" /\ x.uuid = Durable.uuid => x.n <= Durable.hw

\* Every block is sealed under the UUID a later open will load: a UUID is
\* persisted before the first block is sealed under it and never replaced
\* afterwards (mintVolumeUUID, EnsureVolumeUUID).
SealedUuidIsDurable ==
    \A x \in used : x.uuid # 0 /\ x.uuid = Durable.uuid

\* The inductive strengthening.  While the volume is open the local copy is
\* the one an open would select, it carries the live UUID and a mark at least
\* the published one, and at most one call is between locking and publishing;
\* the ranges in flight are apart from each other and from what was used.
Up == phase # "down"

ConfigInv ==
    /\ local.gen = 0 => local.uuid = 0
    /\ backend.gen = 0 => backend.uuid = 0

OpenInv ==
    /\ spc = "idle"
    /\ Up => /\ local.gen > 0 /\ backend.gen <= local.gen
             /\ local.gen <= stateSeq
             /\ local.uuid = uuid /\ highWater <= local.hw
    /\ phase \in {"recovering", "importing", "serving"} => uuid # 0
    /\ phase \notin {"importing", "serving"} => \A w \in Writers : pc[w] = "idle"

CallInv ==
    \A w \in Writers :
        /\ img[w].gen = 0 => img[w].uuid = 0
        /\ img[w].gen <= local.gen
        /\ pc[w] # "idle" => lo[w] < hi[w] /\ hi[w] <= seqNum
        /\ pc[w] \in {"persist", "publish"} =>
               mu = w /\ highWater <= want[w] /\ hi[w] <= want[w]
        /\ pc[w] = "publish" => want[w] <= local.hw
        /\ pc[w] = "push" => hi[w] <= highWater

RangeInv ==
    \A v, w \in Writers :
        v # w /\ pc[v] # "idle" /\ pc[w] # "idle" => hi[v] <= lo[w] \/ hi[w] <= lo[v]

UsedInv ==
    \A x \in used :
        /\ x.dom = "data" /\ x.uuid # 0 /\ x.uuid = Durable.uuid /\ x.n <= Durable.hw
        /\ Up => x.n <= highWater /\ x.n <= seqNum
        /\ \A w \in Writers : pc[w] # "idle" => x.n <= lo[w] \/ x.n > hi[w]

IInv == TypeOK /\ ConfigInv /\ OpenInv /\ CallInv /\ RangeInv /\ UsedInv /\ NonceUnique

\* Two snapshots are never sealed under one StateSeqNum, even when a crash
\* falls between the counter's Add and the SaveState that makes it durable
\* (CreateSnapshot).
SnapNonceUnique == \A x \in reused : x.dom # "snap"

\* The state an open selects never goes back to an older generation, even when
\* a stale push overtakes a newer one or Close removes the local copy.
DurableNeverRegresses ==
    [][Durable'.gen >= Durable.gen]_diskVars
=============================================================================
