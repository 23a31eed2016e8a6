---------------------------- MODULE Backpressure ----------------------------
(***************************************************************************)
(* Write backpressure: guest writes are buffered and acknowledged before   *)
(* their chunk is stored, and wait once the buffer passes a high watermark *)
(* until drains bring it under half of that.                               *)
(*                                                                         *)
(*   WriteAt: publish each block -> pendingBytes.Add -> awaitBackpressure  *)
(*   drain:   flush -> rotate -> upload chunks -> live checkpoint          *)
(*                                                                         *)
(* One drain runs at a time (drainMu): a waiting writer's, of which        *)
(* drainInFlight lets one through, or the chunk uploader's, on its ticker  *)
(* or the size trigger.  Writes are refused while the last drain found the *)
(* backend full (backendFull) or the last PUT reported pool pressure       *)
(* (NearFull).  Sizes are counted in blocks.  A block number stands for    *)
(* the blocks of one chunk boundary; only how many records of a block are  *)
(* buffered is kept.                                                       *)
(***************************************************************************)
EXTENDS Integers, FiniteSets, FiniteSetsExt

CONSTANTS
    Writers, Uploader, Free,
    Blocks,
    MaxReq,         \* blocks of the longest request
    High,           \* MaxPendingBytes / BlockSize
    MaxFailures,    \* maxDrainFailures
    FaultKinds,     \* what may go wrong: a subset of AllFaults
    MaxUnits,       \* bound: blocks of all requests
    MaxFaults       \* bound: faults

\* A failed step; a PUT answered with 507 ("nospace"); a PUT that succeeds and
\* reports pool pressure ("pressure").
AllFaults == {"rmw", "flush", "rotate", "upload", "save", "nospace", "pressure"}
ASSUME ProcAssumption == Uploader \notin Writers /\ Free \notin Writers \cup {Uploader}
ASSUME SizeAssumption ==
    /\ IsFiniteSet(Writers) /\ IsFiniteSet(Blocks) /\ Blocks \subseteq Nat
    /\ MaxReq \in Nat \ {0} /\ High \in Nat \ {0}
    /\ MaxFailures \in Nat \ {0} /\ FaultKinds \subseteq AllFaults
ASSUME BPBoundAssumption == MaxUnits \in Nat /\ MaxFaults \in Nat

Procs == Writers \cup {Uploader}
Low == High \div 2

VARIABLES
    \* each process: where it is; of a writer's request, the blocks to publish,
    \* those published and not in pendingBytes yet, its size; its drainFailures
    pc, left, uncounted, size, failures,
    \* records of each block in Writes.Blocks and in PendingBackendWrites, the
    \* blocks with a record in the open WAL segment, whether rotation has left
    \* a closed WAL, and BlocksToObject.dirty
    writes, pending, segment, broken, dirty,
    counter,        \* pendingBytes
    inFlight,       \* drainInFlight
    \* the drain: who holds drainMu, its step, the chunks to upload, its error
    holder, at, jobs, err,
    full, near,     \* backendFull, NearFull
    \* history: blocks published that pendingBytes never got, and blocks of
    \* requests that the gate failed
    lost, excess,
    units, faults

writerVars == <<pc, left, uncounted, size, failures>>
bufVars    == <<writes, pending, segment, broken, dirty>>
drainVars  == <<holder, at, jobs, err>>
backVars   == <<full, near>>
boundVars  == <<units, faults>>
vars == <<writerVars, bufVars, counter, inFlight, drainVars, backVars, lost, excess,
          boundVars>>

None == [b \in Blocks |-> 0]
Total(f, D) == FoldSet(LAMBDA b, n : f[b] + n, 0, D)
Buffered(f) == {b \in Blocks : f[b] > 0}

\* PendingBytes converts the signed counter to uint64: negative reads as huge.
Over(limit) == counter < 0 \/ counter > limit

Init ==
    /\ pc = [p \in Procs |-> "idle"] /\ left = [w \in Writers |-> {}]
    /\ uncounted = [w \in Writers |-> 0] /\ size = [w \in Writers |-> 0]
    /\ failures = [w \in Writers |-> 0]
    /\ writes = None /\ pending = None /\ segment = {} /\ broken = FALSE /\ dirty = FALSE
    /\ counter = 0 /\ inFlight = FALSE
    /\ holder = Free /\ at = "none" /\ jobs = {} /\ err = "none"
    /\ full = FALSE /\ near = FALSE
    /\ lost = 0 /\ excess = 0 /\ units = 0 /\ faults = 0

Fault(kind) == kind \in FaultKinds /\ faults < MaxFaults /\ faults' = faults + 1

-----------------------------------------------------------------------------
(* A guest's write.                                                        *)

\* WriteAtCtx past its checks: a full or nearly full backend refuses.
StartWrite(w, R) ==
    /\ pc[w] = "idle" /\ ~full /\ ~near
    /\ R # {} /\ Cardinality(R) <= MaxReq /\ units + Cardinality(R) <= MaxUnits
    /\ units' = units + Cardinality(R)
    /\ pc' = [pc EXCEPT ![w] = "publish"]
    /\ left' = [left EXCEPT ![w] = R]
    /\ size' = [size EXCEPT ![w] = Cardinality(R)]
    /\ UNCHANGED <<uncounted, failures, bufVars, counter, inFlight,
                   drainVars, backVars, lost, excess, faults>>

\* writeOneBlockLocked of the next block.  A failed read or reservation ends
\* the request, after the blocks before have been published.
PublishBlock(w) ==
    /\ pc[w] = "publish" /\ left[w] # {}
    /\ LET b == Min(left[w]) IN
       \/ /\ writes' = [writes EXCEPT ![b] = @ + 1]
          /\ uncounted' = [uncounted EXCEPT ![w] = @ + 1]
          /\ left' = [left EXCEPT ![w] = @ \ {b}]
          /\ UNCHANGED <<pc, size, lost, faults>>
       \/ /\ Fault("rmw")
          /\ lost' = lost + uncounted[w]
          /\ uncounted' = [uncounted EXCEPT ![w] = 0]
          /\ left' = [left EXCEPT ![w] = {}]
          /\ size' = [size EXCEPT ![w] = 0]
          /\ pc' = [pc EXCEPT ![w] = "idle"]
          /\ UNCHANGED writes
    /\ UNCHANGED <<failures, pending, segment, broken, dirty, counter, inFlight, drainVars,
                   backVars, excess, units>>

\* pendingBytes.Add, and signalSizeTrigger, which only wakes the uploader early.
CountWrite(w) ==
    /\ pc[w] = "publish" /\ left[w] = {}
    /\ counter' = counter + uncounted[w]
    /\ uncounted' = [uncounted EXCEPT ![w] = 0]
    /\ pc' = [pc EXCEPT ![w] = "gate"]
    /\ UNCHANGED <<left, size, failures, bufVars, inFlight, drainVars, backVars,
                   lost, excess, boundVars>>

\* The request ends.
Return(w, e) ==
    /\ pc' = [pc EXCEPT ![w] = "idle"]
    /\ size' = [size EXCEPT ![w] = 0]
    /\ failures' = [failures EXCEPT ![w] = 0]
    /\ excess' = IF e = "none" THEN excess ELSE excess + size[w]

WriteOnly ==
    UNCHANGED <<left, uncounted, bufVars, counter, drainVars, backVars,
                lost, boundVars>>

\* Mutant: the gate lets everyone through.
GateOpen(w) ==
    /\ pc[w] = "gate" /\ Return(w, "none") /\ UNCHANGED inFlight /\ WriteOnly

\* awaitBackpressure: nothing to wait for, or into the loop.
Gate(w) ==
    /\ pc[w] = "gate"
    /\ \/ ~Over(High) /\ Return(w, "none")
       \/ /\ Over(High)
          /\ pc' = [pc EXCEPT ![w] = "wait"] /\ UNCHANGED <<size, failures, excess>>
    /\ UNCHANGED inFlight /\ WriteOnly

\* Mutant: drainInFlight is set without looking at it.
WaitNoSwap(w) ==
    /\ pc[w] = "wait"
    /\ \/ ~Over(Low) /\ Return(w, "none") /\ UNCHANGED inFlight
       \/ /\ Over(Low)
          /\ inFlight' = TRUE
          /\ pc' = [pc EXCEPT ![w] = "lock"] /\ UNCHANGED <<size, failures, excess>>
    /\ WriteOnly

\* The head of the loop: done, or the one to drive a drain; else poll again.
Wait(w) ==
    /\ pc[w] = "wait"
    /\ \/ ~Over(Low) /\ Return(w, "none") /\ UNCHANGED inFlight
       \/ /\ Over(Low) /\ ~inFlight
          /\ inFlight' = TRUE
          /\ pc' = [pc EXCEPT ![w] = "lock"] /\ UNCHANGED <<size, failures, excess>>
    /\ WriteOnly

-----------------------------------------------------------------------------
(* The chunk uploader.                                                     *)

UploaderOnly ==
    UNCHANGED <<left, uncounted, size, failures, bufVars, counter, inFlight, drainVars,
                backVars, lost, excess, boundVars>>

\* The uploader's select: its ticker, or the size trigger.
UploaderWakes ==
    /\ pc[Uploader] = "idle"
    /\ pc' = [pc EXCEPT ![Uploader] = "lock"]
    /\ UploaderOnly

\* StopChunkUploader, which waits for the drain the uploader is in.
StopChunkUploader ==
    /\ pc[Uploader] = "idle"
    /\ pc' = [pc EXCEPT ![Uploader] = "stopped"]
    /\ UploaderOnly

-----------------------------------------------------------------------------
(* DrainToBackendCtx.                                                      *)

LockDrain(p) ==
    /\ pc[p] = "lock" /\ holder = Free
    /\ holder' = p /\ at' = "flush"
    /\ pc' = [pc EXCEPT ![p] = "drain"]
    /\ UNCHANGED <<left, uncounted, size, failures, bufVars, counter, inFlight, jobs, err,
                   backVars, lost, excess, boundVars>>

\* flushLocked: the records of the blocks in S go to the WAL and to
\* PendingBackendWrites.
FlushRecords(S) ==
    /\ segment' = segment \cup (S \cap Buffered(writes))
    /\ pending' = [b \in Blocks |-> pending[b] + IF b \in S THEN writes[b] ELSE 0]
    /\ writes' = [b \in Blocks |-> IF b \in S THEN 0 ELSE writes[b]]

\* The guest's flush, all of it or stopped half way.
GuestFlush ==
    /\ Buffered(writes) # {} /\ ~broken
    /\ \/ FlushRecords(Blocks) /\ UNCHANGED faults
       \/ Fault("flush") /\ \E S \in SUBSET Buffered(writes) : FlushRecords(S)
    /\ UNCHANGED <<writerVars, broken, dirty, counter, inFlight, drainVars,
                   backVars, lost, excess, units>>

DrainOnly ==
    UNCHANGED <<writerVars, counter, inFlight, holder, full, lost,
                excess, units>>

\* The drain's flush; on a closed WAL it fails if there is a record to write.
DrainFlush ==
    /\ at = "flush"
    /\ \/ /\ broken => Buffered(writes) = {}
          /\ FlushRecords(Blocks) /\ at' = "rotate" /\ UNCHANGED <<err, faults>>
       \/ /\ broken /\ Buffered(writes) # {}
          /\ at' = "end" /\ err' = "other" /\ UNCHANGED <<writes, pending, segment, faults>>
       \/ /\ ~broken /\ Buffered(writes) # {} /\ Fault("flush")
          /\ \E S \in SUBSET Buffered(writes) : FlushRecords(S)
          /\ at' = "end" /\ err' = "other"
    /\ UNCHANGED <<broken, dirty, jobs, near>> /\ DrainOnly

Chunkings(D) == IF D = {} THEN {{}} ELSE {{D}, {{b} : b \in D}}

\* WriteWALToChunkCtx: the segment is synced, closed and becomes upload jobs.
\* If the next one cannot be opened, the closed one stays the current one.
DrainRotate ==
    /\ at = "rotate"
    /\ \/ /\ ~broken
          /\ jobs' \in Chunkings(segment) /\ segment' = {}
          /\ at' = "upload" /\ UNCHANGED <<broken, err, faults>>
       \/ /\ broken
          /\ at' = "end" /\ err' = "other" /\ UNCHANGED <<jobs, segment, broken, faults>>
       \/ /\ ~broken /\ Fault("rotate")
          /\ broken' = TRUE /\ segment' = {}
          /\ at' = "end" /\ err' = "other" /\ UNCHANGED jobs
    /\ UNCHANGED <<writes, pending, dirty, near>> /\ DrainOnly

\* Mutant: one record of each block is taken off.
FreedOnce(j) == Cardinality(j \cap Buffered(pending))

\* The records createChunkFile takes out of PendingBackendWrites: all of the
\* chunk's blocks.
Freed(j) == Total(pending, j)

\* A PUT and what the response says: NearFull is set by every one, and 507 is
\* ErrNoSpace (newPoolPressureMiddleware, classifyWriteErr).
PutLands ==
    \/ near' = FALSE /\ UNCHANGED faults
    \/ near' = TRUE /\ Fault("pressure")
PutFails(kind) ==
    /\ near' = FALSE
    /\ \/ Fault(kind) /\ err' = IF err = "none" THEN "other" ELSE err
       \/ Fault("nospace") /\ err' = IF err = "none" THEN "nospace" ELSE err

\* createChunkFile on a worker.  Once one has failed, chunks not handed out
\* yet are dropped, others may still land.
UploadChunk(j) ==
    /\ at = "upload" /\ j \in jobs
    /\ \/ /\ PutLands
          /\ counter' = counter - Freed(j)
          /\ pending' = [b \in Blocks |-> IF b \in j THEN 0 ELSE pending[b]]
          /\ dirty' = TRUE
          /\ jobs' = jobs \ {j} /\ UNCHANGED err
       \/ /\ PutFails("upload")
          /\ jobs' \in SUBSET (jobs \ {j})
          /\ UNCHANGED <<counter, pending, dirty>>
    /\ UNCHANGED <<writerVars, writes, segment, broken, inFlight, holder, at, full, lost,
                   excess, units>>

\* parallelUploader.wait, then SaveLiveCheckpointCtx, which PUTs if dirty.
DrainSave ==
    /\ at = "upload" /\ jobs = {} /\ at' = "end"
    /\ \/ (err # "none" \/ ~dirty) /\ UNCHANGED <<dirty, near, err, faults>>
       \/ err = "none" /\ dirty /\ PutLands /\ dirty' = FALSE /\ UNCHANGED err
       \/ err = "none" /\ dirty /\ PutFails("save") /\ UNCHANGED dirty
    /\ UNCHANGED <<writes, pending, segment, broken, jobs>> /\ DrainOnly

\* Mutant: a clean drain does not clear the latch.
LatchStays(e) == full \/ e = "nospace"

\* The latch at the end of a drain.
Latch(e) == CASE e = "nospace" -> TRUE [] e = "none" -> FALSE [] e = "other" -> full

\* Mutant: every drain starts the count again.
FailuresReset(w, e) == 0

\* drainFailures: a success starts the count again.
FailuresAfter(w, e) == IF e = "none" THEN 0 ELSE failures[w] + 1

\* drainMu is released, and drainInFlight if it was a writer's drain.
EndDrain ==
    /\ at = "end" /\ at' = "none" /\ holder' = Free /\ err' = "none"
    /\ full' = Latch(err)
    /\ IF holder = Uploader
       THEN /\ pc' = [pc EXCEPT ![Uploader] = "idle"]
            /\ UNCHANGED <<size, failures, excess, inFlight>>
       ELSE LET n == FailuresAfter(holder, err) IN
            /\ inFlight' = FALSE
            /\ IF err = "nospace" \/ n >= MaxFailures
               THEN Return(holder, err)
               ELSE /\ pc' = [pc EXCEPT ![holder] = "wait"]
                    /\ failures' = [failures EXCEPT ![holder] = n]
                    /\ UNCHANGED <<size, excess>>
    /\ UNCHANGED <<left, uncounted, bufVars, counter, jobs, near,
                   lost, boundVars>>

-----------------------------------------------------------------------------
WriterStep(w) == PublishBlock(w) \/ CountWrite(w) \/ Gate(w) \/ Wait(w)
DrainStep == DrainFlush \/ DrainRotate \/ (\E j \in jobs : UploadChunk(j)) \/ DrainSave
             \/ EndDrain

Next ==
    \/ \E w \in Writers : WriterStep(w) \/ \E R \in SUBSET Blocks : StartWrite(w, R)
    \/ \E p \in Procs : LockDrain(p)
    \/ UploaderWakes \/ StopChunkUploader
    \/ GuestFlush \/ DrainStep

\* Goroutines run, the uploader's ticker ticks, and sync.Mutex does not starve a
\* waiter (its starvation mode); at most one writer is after drainMu.  Nothing
\* makes a guest write or flush, a fault happen or the uploader stop.
Fairness ==
    /\ \A w \in Writers : WF_vars(WriterStep(w))
    /\ WF_vars(UploaderWakes \/ LockDrain(Uploader) \/ DrainStep)
    /\ SF_vars(\E w \in Writers : LockDrain(w))

Spec == Init /\ [][Next]_vars /\ Fairness

-----------------------------------------------------------------------------
Waiting(w) == pc[w] \in {"wait", "lock", "drain"}

\* The variables keep their types, and drainInFlight and drainMu are held by
\* the processes that say so.
TypeOK ==
    /\ writes \in [Blocks -> Nat] /\ pending \in [Blocks -> Nat]
    /\ segment \subseteq Blocks /\ counter \in Int
    /\ failures \in [Writers -> 0..MaxFailures]
    /\ inFlight = \E w \in Writers : pc[w] \in {"lock", "drain"}
    /\ \A p \in Procs : (pc[p] = "drain") = (holder = p)
    /\ (holder = Free) = (at = "none")
    /\ at \in {"none", "flush", "rotate", "upload", "end"}
    /\ err \in {"none", "nospace", "other"}

Published == Total(writes, Blocks) + Total(pending, Blocks)
Uncounted == Total(uncounted, Writers)

\* pendingBytes is what is buffered, but for requests between publishing and
\* counting and for requests that failed in between: rewrites of a block,
\* flushes beside an upload and drains that stop half way all keep it
\* (createChunkFile, WriteAtCtx).
CounterExact == counter = Published - Uncounted - lost

\* However writers, flushes and drains interleave, the buffer holds at most
\* the high watermark, the requests in progress, and what came with requests
\* that were failed (awaitBackpressure).
InProgress == Total(size, Writers)
BufferBounded == Published <= High + InProgress + excess + lost

\* Buffered blocks that no drain of this process will take again: their
\* segment is closed and its upload has failed.
Stranded ==
    Total(pending, Blocks \ (segment \cup UNION jobs \cup Buffered(writes)))

\* A write that waits is answered, with success or an error, whatever drains
\* fail, unless too much is stranded or the counter is off for good
\* (awaitBackpressure's bound on failures and its return on ErrNoSpace).
WaitEnds == \A w \in Writers : Waiting(w) ~> (~Waiting(w) \/ Stranded > Low \/ lost > 0)

\* Writes that are refused are taken again once the backend has space, as long
\* as the uploader runs and rotation works, unless NearFull is left over from
\* the last PUT and nothing is buffered that would cause another
\* (DrainToBackendCtx's latch, NearFull).
WritesResume ==
    (full \/ near) ~> \/ ~full /\ ~near
                      \/ pc[Uploader] = "stopped" \/ broken
                      \/ near /\ ~full /\ segment = {} /\ Buffered(writes) = {} /\ ~dirty
=============================================================================
