------------------------------ MODULE BlockMap ------------------------------
(***************************************************************************)
(* The live block map under the drain pipeline.  A drain flushes and       *)
(* rotates the WAL, keeps the newest record of each block, sorts the       *)
(* records, cuts them into chunks and hands the chunks to a pool of upload *)
(* workers; each worker PUTs its chunk object and then advances            *)
(* BlocksToObject run by run under its mutex, with the chunk reference     *)
(* counts beside it.  When every chunk has landed the map is saved as the  *)
(* live checkpoint.  drainMu keeps drains apart; writers run beside them.  *)
(***************************************************************************)
EXTENDS Extents

CONSTANTS
    NumBlocks,      \* blocks of the volume
    ChunkBlocks,    \* ObjBlockSize / BlockSize
    Workers,        \* UploadWorkers
    Writers,        \* guest requests in flight
    MaxSeqNum,      \* bound: writes
    MaxFaults,      \* bound: backend failures
    MaxOpens        \* bound: reopens

ASSUME SizeAssumption ==
    /\ NumBlocks \in Nat \ {0} /\ ChunkBlocks \in Nat \ {0}
    /\ Workers \in Nat \ {0} /\ Writers \in Nat \ {0}
ASSUME LimitAssumption == MaxSeqNum \in Nat /\ MaxFaults \in Nat /\ MaxOpens \in Nat

Blocks == 0..(NumBlocks - 1)

VARIABLES
    \* BlocksToObject: BlockLookup, gcRefcount, dirty, and who holds mu:
    \* no one, or the worker with that ObjectID
    lookup, refs, dirty, mapMu,
    objNum,         \* vb.ObjectNum
    \* the backend: chunk objects (ObjectID -> matchedBlocks), live checkpoint
    chunks, live,
    \* the drain in progress, its upload jobs, and whether one of them failed
    draining, jobs, failed,
    \* vb.SeqNum, the number each block's writer has reserved and not yet
    \* appended (0: none), and the records to be drained next, one per block
    seqNum, reserved, wal,
    \* ghost: each block's newest SeqNum appended, the blocks whose last
    \* drained record did not reach the backend, and those whose last run was
    \* judged by the number of another block and left out of the map
    newest, unsent, skipped,
    faults, opens

mapVars   == <<lookup, refs, dirty, mapMu>>
drainVars == <<draining, jobs, failed>>
writeVars == <<seqNum, reserved, wal>>
ghostVars == <<newest, unsent, skipped>>
boundVars == <<faults, opens>>
vars == <<mapVars, objNum, chunks, live, drainVars, writeVars, ghostVars, boundVars>>

Empty == [b \in {} |-> 0]

Init ==
    /\ lookup = {} /\ refs = Empty /\ dirty = FALSE /\ mapMu = {}
    /\ objNum = 0 /\ chunks = Empty /\ live = Empty
    /\ draining = FALSE /\ jobs = {} /\ failed = FALSE
    /\ seqNum = 0 /\ reserved = [b \in Blocks |-> 0] /\ wal = Empty
    /\ newest = [b \in Blocks |-> 0] /\ unsent = {} /\ skipped = {}
    /\ faults = 0 /\ opens = 0

-----------------------------------------------------------------------------
(* writeOneBlockLocked: the block's RMW lock is held from the reservation  *)
(* to the append, so a block has at most one number in flight.             *)

ReserveSeqNum(b) ==
    /\ reserved[b] = 0 /\ seqNum < MaxSeqNum
    /\ Cardinality({c \in Blocks : reserved[c] # 0}) < Writers
    /\ seqNum' = seqNum + 1
    /\ reserved' = [reserved EXCEPT ![b] = seqNum + 1]
    /\ UNCHANGED <<mapVars, objNum, chunks, live, drainVars, wal, ghostVars, boundVars>>

\* Mutant: the first record of a block in a segment is kept.
DedupFirst(w, b, s) == IF b \in DOMAIN w THEN w ELSE With(w, b, s)

\* The newest record of a block wins when the segment is deduplicated.
Dedup(w, b, s) == IF b \in DOMAIN w /\ w[b] >= s THEN w ELSE With(w, b, s)

AppendWrite(b) ==
    /\ reserved[b] # 0
    /\ wal' = Dedup(wal, b, reserved[b])
    /\ reserved' = [reserved EXCEPT ![b] = 0]
    /\ newest' = [newest EXCEPT ![b] = reserved[b]]
    /\ UNCHANGED <<mapVars, objNum, chunks, live, drainVars, seqNum, unsent, skipped,
                   boundVars>>

-----------------------------------------------------------------------------
(* DrainToBackendCtx.                                                      *)

\* The k-th chunk of a segment's sorted records.
Chunk(records, k) ==
    LET pos(b) == Cardinality({x \in DOMAIN records : x < b})
        mine   == {b \in DOMAIN records : pos(b) \div ChunkBlocks = k}
    IN  [b \in mine |-> records[b]]

\* The upload jobs of a segment, in the state submit leaves them.
Jobs(records) ==
    {[chunk |-> Chunk(records, k), todo |-> Chunk(records, k), at |-> "queued", id |-> 0] :
        k \in 0..((Cardinality(DOMAIN records) - 1) \div ChunkBlocks)}

\* Mutant: a drain does not wait for the one before it.
RotateUnserialized ==
    /\ DOMAIN wal # {}
    /\ draining' = TRUE
    /\ jobs' = jobs \cup Jobs(wal)
    /\ wal' = Empty
    /\ UNCHANGED <<mapVars, objNum, chunks, live, failed, seqNum, reserved, ghostVars,
                   boundVars>>

\* Under drainMu: Flush, the rotation of the WAL and its chunks.
Rotate ==
    /\ ~draining /\ DOMAIN wal # {}
    /\ draining' = TRUE
    /\ jobs' = Jobs(wal)
    /\ wal' = Empty
    /\ UNCHANGED <<mapVars, objNum, chunks, live, failed, seqNum, reserved, ghostVars,
                   boundVars>>

Queued == {j \in jobs : j.at = "queued"}
First(j) == Min(DOMAIN j.chunk)

\* Mutant: the ObjectID is read but not counted up.
TakeJobLoads(j) ==
    /\ j \in Queued /\ \A k \in Queued : First(j) <= First(k)
    /\ Cardinality(jobs \ Queued) < Workers
    /\ jobs' = (jobs \ {j}) \cup {[j EXCEPT !.at = "put", !.id = objNum]}
    /\ UNCHANGED <<mapVars, objNum, chunks, live, draining, failed, writeVars, ghostVars,
                   boundVars>>

\* A worker takes the next job and allocates its ObjectID.
TakeJob(j) ==
    /\ j \in Queued /\ \A k \in Queued : First(j) <= First(k)
    /\ Cardinality(jobs \ Queued) < Workers
    /\ jobs' = (jobs \ {j}) \cup {[j EXCEPT !.at = "put", !.id = objNum]}
    /\ objNum' = objNum + 1
    /\ UNCHANGED <<mapVars, chunks, live, draining, failed, writeVars, ghostVars, boundVars>>

\* Once a job has failed, submit drops the jobs not handed over yet.
DropJob(j) ==
    /\ j \in Queued /\ failed
    /\ jobs' = jobs \ {j}
    /\ unsent' = unsent \cup DOMAIN j.chunk
    /\ UNCHANGED <<mapVars, objNum, chunks, live, draining, failed, writeVars, newest, skipped,
                   boundVars>>

\* The PUT of the chunk object.  A failed one cancels the context of the
\* others; an object it left behind has an ObjectID nobody uses again.
PutChunk(j) ==
    /\ j \in jobs /\ j.at = "put"
    /\ \/ /\ chunks' = With(chunks, j.id, j.chunk)
          /\ jobs' = (jobs \ {j}) \cup {[j EXCEPT !.at = "apply"]}
          /\ unsent' = unsent \ DOMAIN j.chunk
          /\ UNCHANGED <<failed, faults>>
       \/ /\ failed \/ faults < MaxFaults
          /\ faults' = IF failed THEN faults ELSE faults + 1
          /\ failed' = TRUE
          /\ jobs' = jobs \ {j}
          /\ unsent' = unsent \cup DOMAIN j.chunk
          /\ UNCHANGED chunks
    /\ UNCHANGED <<mapVars, objNum, live, draining, writeVars, newest, skipped, opens>>

\* The stale-drain guard has read the number of another block: the entry that
\* covers the run's first block begins in front of it.
Misread(m, n) == Resolve(m, n.start).start # n.start

\* The rest of createChunkFile, one step per run of the chunk, all of them
\* under BlocksToObject.mu.
ApplyRun(j) ==
    /\ j \in jobs /\ j.at = "apply" /\ mapMu \in {{}, {j.id}}
    /\ LET run  == FirstRun(j.todo)
           n    == RunEntry(j.chunk, run, j.id)
           rest == [b \in DOMAIN j.todo \ run |-> j.todo[b]]
       IN  /\ IF Stale(lookup, n)
              THEN /\ refs' = IF j.id \in DOMAIN refs THEN refs ELSE With(refs, j.id, 0)
                   /\ skipped' = IF Misread(lookup, n) THEN skipped \cup run ELSE skipped
                   /\ UNCHANGED lookup
              ELSE /\ lookup' = Insert(lookup, n)
                   /\ refs' = InsertRefs(refs, lookup, n)
                   /\ skipped' = skipped \ run
           /\ IF DOMAIN rest = {}
              THEN jobs' = jobs \ {j} /\ mapMu' = {} /\ dirty' = TRUE
              ELSE /\ jobs' = (jobs \ {j}) \cup {[j EXCEPT !.todo = rest]}
                   /\ mapMu' = {j.id}
                   /\ UNCHANGED dirty
    /\ UNCHANGED <<objNum, chunks, live, draining, failed, writeVars, newest, unsent, boundVars>>

\* wait returns.  After an error the drain ends; otherwise
\* SaveLiveCheckpointCtx replaces the live checkpoint if the map has changed,
\* or gives up after its retries.
FinishDrain ==
    /\ draining /\ jobs = {}
    /\ draining' = FALSE /\ failed' = FALSE
    /\ \/ failed /\ UNCHANGED <<live, dirty, faults>>
       \/ ~failed /\ live' = (IF dirty THEN Expand(lookup) ELSE live)
                  /\ dirty' = FALSE /\ UNCHANGED faults
       \/ ~failed /\ dirty /\ faults < MaxFaults
                  /\ faults' = faults + 1 /\ UNCHANGED <<live, dirty>>
    /\ UNCHANGED <<lookup, refs, mapMu, objNum, chunks, jobs, writeVars, ghostVars, opens>>

-----------------------------------------------------------------------------
\* A clean Close and a new open: LoadLiveCheckpoint parses the checkpoint,
\* joins its records into runs, counts the references anew and puts ObjectNum
\* past every chunk the map names.
Reopen ==
    /\ ~draining /\ ~dirty /\ DOMAIN wal = {} /\ opens < MaxOpens
    /\ \A b \in Blocks : reserved[b] = 0
    /\ lookup' = Coalesce(live)
    /\ refs' = Tally(lookup')
    /\ objNum' = Max({objNum} \cup {live[b].obj + 1 : b \in DOMAIN live})
    /\ opens' = opens + 1
    /\ UNCHANGED <<dirty, mapMu, chunks, live, drainVars, writeVars, ghostVars, faults>>

Next ==
    \/ \E b \in Blocks : ReserveSeqNum(b) \/ AppendWrite(b)
    \/ Rotate
    \/ \E j \in jobs : TakeJob(j) \/ DropJob(j) \/ PutChunk(j) \/ ApplyRun(j)
    \/ FinishDrain
    \/ Reopen

Spec == Init /\ [][Next]_vars

-----------------------------------------------------------------------------
Extent == [start : Blocks, obj : Nat, off : Nat, seqs : Seq(Nat)]
Records(f) == DOMAIN f \subseteq Blocks /\ \A b \in DOMAIN f : f[b] \in Nat

\* The variables keep their types; an entry stays inside the volume and a
\* job never runs out of blocks before it ends.
TypeOK ==
    /\ lookup \subseteq Extent
    /\ \A e \in lookup : Len(e.seqs) > 0 /\ End(e) <= NumBlocks
    /\ \A o \in DOMAIN refs : o < objNum /\ refs[o] \in Nat
    /\ dirty \in BOOLEAN /\ draining \in BOOLEAN /\ failed \in BOOLEAN
    /\ mapMu = {} \/ \E j \in jobs : j.at = "apply" /\ mapMu = {j.id}
    /\ objNum \in Nat /\ \A o \in DOMAIN chunks : o < objNum
    /\ \A j \in jobs : /\ Records(j.chunk) /\ Records(j.todo) /\ DOMAIN j.todo # {}
                       /\ j.at \in {"queued", "put", "apply"} /\ j.id \in Nat
    /\ Records(wal)
    /\ seqNum \in Nat /\ reserved \in [Blocks -> Nat]
    /\ newest \in [Blocks -> Nat] /\ unsent \subseteq Blocks /\ skipped \subseteq Blocks

\* No two entries of the map cover the same block, so what a read resolves to
\* does not depend on Go's map iteration order (insertCoalescedLocked).
ExtentsDisjoint ==
    \A e, f \in lookup : e # f => ~Overlaps(e, f)

\* Wherever the map sends a block, the chunk object there holds that very
\* block at that offset, sealed under the SeqNum the map gives for it: the
\* chunk carries no nonce, so anything else cannot be decrypted
\* (createChunkFile, insertCoalescedLocked, coalesceBlockLookup).
Sealed(o, off, b, s) ==
    /\ o \in DOMAIN chunks /\ b \in DOMAIN chunks[o]
    /\ chunks[o][b] = s
    /\ Cardinality({c \in DOMAIN chunks[o] : c < b}) = off

MapFindsSealedBlock ==
    /\ \A e \in lookup : \A b \in e.start..(End(e) - 1) :
           Sealed(e.obj, OffsetAt(e, b), b, SeqNumAt(e, b))
    /\ \A b \in DOMAIN live : Sealed(live[b].obj, live[b].off, b, live[b].seq)

\* The chunk reference counts that decide what the sweep deletes equal the
\* number of map entries that point at the chunk, through every fracture,
\* rejected run and reload (gcRefcount).
RefcountExact ==
    \A o \in 0..objNum : RefCount(refs, o) = CountOf(lookup, o)

\* Between drains the map holds the newest record the guest wrote of each
\* block, however many requests write at once: "Only advance on a strictly
\* newer SeqNum" (createChunkFile's stale-drain guard) leaves out no newer
\* record of a block that it judges by its own number.  Left out are the blocks
\* that wait for the next drain, that a failed upload has hit, or whose run was
\* judged by another block's number and skipped.
NewestWriteWins ==
    ~draining => \A b \in Blocks \ (DOMAIN wal \cup unsent \cup skipped) : newest[b] # 0 =>
        Mapped(lookup, b) /\ SeqNumAt(Resolve(lookup, b), b) = newest[b]

\* Loading a checkpoint gives back exactly the blocks that were saved, and in
\* runs that do not overlap (expandBlockLookup, coalesceBlockLookup).
CheckpointRoundTrip ==
    /\ Expand(Coalesce(live)) = live
    /\ \A e, f \in Coalesce(live) : e # f => ~Overlaps(e, f)

\* A mapped block is never unmapped and never goes back to an older record,
\* whatever requests of other blocks overtake it: the RMW lock of the block
\* keeps its records in order through WAL, drains and uploads.
SeqNumAdvances ==
    [][\A b \in Blocks : Mapped(lookup, b) =>
          /\ Mapped(lookup', b)
          /\ SeqNumAt(Resolve(lookup', b), b) >= SeqNumAt(Resolve(lookup, b), b)]_lookup
=============================================================================
