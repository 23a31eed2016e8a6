--------------------------- MODULE BlockMapProofs ---------------------------
(***************************************************************************)
(* Proofs about the block map under the drain pipeline (BlockMap), for     *)
(* every volume size, chunk size, number of workers and bound.             *)
(***************************************************************************)
EXTENDS BlockMap, ExtentsProofs

-----------------------------------------------------------------------------
(* The inductive invariant.                                                *)

RecordMaps == UNION {[D -> Nat] : D \in SUBSET Blocks}
JobSet == [chunk : RecordMaps, todo : RecordMaps, at : {"queued", "put", "apply"}, id : Nat]

Types ==
    /\ dirty \in BOOLEAN /\ draining \in BOOLEAN /\ failed \in BOOLEAN
    /\ objNum \in Nat /\ seqNum \in Nat
    /\ reserved \in [Blocks -> Nat] /\ newest \in [Blocks -> Nat] /\ unsent \subseteq Blocks
    /\ skipped \subseteq Blocks
    /\ wal \in RecordMaps /\ jobs \subseteq JobSet
    /\ IsFlat(live, NumBlocks - 1)

\* The map's extents are apart and inside the volume.
MapOK == IsMap(lookup) /\ \A e \in lookup : End(e) <= NumBlocks

\* What is left to apply is part of the chunk, and all of it before the PUT;
\* an ObjectID in use is counted, its object is there once it was PUT and not
\* before.
JobOK(j) ==
    /\ DOMAIN j.todo # {} /\ DOMAIN j.todo \subseteq DOMAIN j.chunk
    /\ \A b \in DOMAIN j.todo : j.todo[b] = j.chunk[b]
    /\ j.at # "apply" => j.todo = j.chunk
    /\ j.at # "queued" => j.id < objNum
    /\ j.at = "put" => j.id \notin DOMAIN chunks
    /\ j.at = "apply" => j.id \in DOMAIN chunks /\ chunks[j.id] = j.chunk

\* Two jobs have no block and no ObjectID in common.
JobsApart ==
    \A j, k \in jobs : j # k =>
        /\ DOMAIN j.chunk \cap DOMAIN k.chunk = {}
        /\ j.at # "queued" /\ k.at # "queued" => j.id # k.id

JobsOK == (~draining => jobs = {}) /\ (\A j \in jobs : JobOK(j)) /\ JobsApart

\* The mutex of the map is free or with a worker that applies its runs.
MuOK == mapMu = {} \/ \E j \in jobs : j.at = "apply" /\ mapMu = {j.id}

\* Every ObjectID in the backend and in the counts is below ObjectNum.
IdsOK ==
    /\ \A o \in DOMAIN chunks : o \in Nat /\ o < objNum
    /\ \A o \in DOMAIN refs : o \in Nat /\ o < objNum /\ refs[o] \in Nat

RefsOK == \A o \in Nat : RefCount(refs, o) = CountOf(lookup, o)

\* A map that is not dirty is the live checkpoint.
SavedOK == ~dirty /\ mapMu = {} => live = Expand(lookup)

IInv ==
    /\ Types /\ MapOK /\ JobsOK /\ MuOK /\ IdsOK /\ RefsOK
    /\ MapFindsSealedBlock /\ SavedOK

\* The RMW lock keeps the numbers of a block in order: what it has in flight is
\* above all it has appended.
WritesInOrder ==
    /\ \A b \in Blocks : /\ reserved[b] <= seqNum /\ newest[b] <= seqNum
                         /\ reserved[b] # 0 => newest[b] < reserved[b]
    /\ \A b \in DOMAIN wal : wal[b] = newest[b]

\* The record that is drained of a block is older than the one that waits for
\* the next drain; if none waits, it is the newest.
JobsInOrder ==
    \A j \in jobs : \A b \in DOMAIN j.chunk :
        /\ j.chunk[b] <= newest[b]
        /\ b \in DOMAIN wal \/ j.chunk[b] = newest[b]
        /\ b \in DOMAIN wal => j.chunk[b] < wal[b]

\* The record that is mapped is older still.
MapInOrder ==
    \A e \in lookup : \A b \in Blocks : Covers(e, b) =>
        /\ SeqNumAt(e, b) <= newest[b]
        /\ b \in DOMAIN wal => SeqNumAt(e, b) < wal[b]
        /\ \A j \in jobs : b \in DOMAIN j.todo => SeqNumAt(e, b) < j.todo[b]

\* The newest record of a block is mapped or about to be.
NewestKept ==
    \A b \in Blocks \ (DOMAIN wal \cup unsent \cup skipped) : newest[b] # 0 =>
        \/ \E j \in jobs : b \in DOMAIN j.todo
        \/ Mapped(lookup, b) /\ SeqNumAt(Resolve(lookup, b), b) = newest[b]

OInv == WritesInOrder /\ JobsInOrder /\ MapInOrder /\ NewestKept

-----------------------------------------------------------------------------
(* Numbers and records.                                                    *)

\* The blocks of the volume.
LEMMA BlockNumbers ==
    /\ NumBlocks - 1 \in Nat /\ (NumBlocks - 1) + 1 = NumBlocks /\ NumBlocks \in Nat
    /\ Blocks = 0..(NumBlocks - 1) /\ Blocks \subseteq Nat
BY SizeAssumption DEF Blocks

\* A map from blocks to numbers.
LEMMA RecordMapIs ==
    ASSUME NEW f \in RecordMaps
    PROVE  /\ DOMAIN f \in SUBSET Blocks /\ DOMAIN f \subseteq Nat
           /\ DOMAIN f \in SUBSET (0..(NumBlocks - 1))
           /\ \A b \in DOMAIN f : f[b] \in Nat
           /\ Records(f)
<1>1. PICK D \in SUBSET Blocks : f \in [D -> Nat]
  BY DEF RecordMaps
<1>2. DOMAIN f = D
  BY <1>1
<1>3. \A b \in D : f[b] \in Nat
  BY <1>1
<1>4. QED BY <1>2, <1>3, BlockNumbers DEF Records

\* Such a map, from its parts.
LEMMA RecordMapOf ==
    ASSUME NEW D \in SUBSET Blocks, NEW f \in [D -> Nat]
    PROVE  f \in RecordMaps
BY DEF RecordMaps

\* The map with nothing in it.
LEMMA EmptyIs ==
    Empty \in RecordMaps /\ DOMAIN Empty = {}
<1>1. DOMAIN Empty = {}
  BY DEF Empty
<1>2. Empty \in [{} -> Nat]
  BY DEF Empty
<1>3. QED BY <1>1, <1>2, RecordMapOf

\* The parts of a job.
LEMMA JobType ==
    ASSUME NEW j \in JobSet
    PROVE  /\ j.chunk \in RecordMaps /\ j.todo \in RecordMaps /\ j.id \in Nat
           /\ j.at \in {"queued", "put", "apply"}
BY DEF JobSet

-----------------------------------------------------------------------------
(* The chunks of a segment.                                                *)

\* Division: a position falls into one chunk, and the first of a chunk into it.
LEMMA Division ==
    ASSUME NEW C \in Nat \ {0}, NEW n \in Nat
    PROVE  /\ n \div C \in Nat
           /\ \A k \in Nat : k <= n \div C => k * C \in Nat /\ k * C <= n /\ (k * C) \div C = k
           /\ \A p \in Nat : p <= n => p \div C \in Nat /\ p \div C <= n \div C
OBVIOUS

\* A chunk is not empty, has the segment's records, and shares no block with
\* another; every record is in one (the split of DrainToBackendCtx).
LEMMA ChunksOf ==
    ASSUME NEW w \in RecordMaps, DOMAIN w # {}
    PROVE  LET K == 0..((Cardinality(DOMAIN w) - 1) \div ChunkBlocks)
           IN  /\ \A k \in K : /\ Chunk(w, k) \in RecordMaps /\ DOMAIN Chunk(w, k) # {}
                               /\ DOMAIN Chunk(w, k) \subseteq DOMAIN w
                               /\ \A b \in DOMAIN Chunk(w, k) : Chunk(w, k)[b] = w[b]
               /\ \A k, l \in K : k # l => DOMAIN Chunk(w, k) \cap DOMAIN Chunk(w, l) = {}
               /\ \A b \in DOMAIN w : \E k \in K : b \in DOMAIN Chunk(w, k)
<1> DEFINE D == DOMAIN w
           pos(b) == Cardinality({x \in D : x < b})
           mine(k) == {b \in D : pos(b) \div ChunkBlocks = k}
           N == Cardinality(D) - 1
           K == 0..(N \div ChunkBlocks)
<1>1. /\ D \in SUBSET (0..(NumBlocks - 1)) /\ D \subseteq Blocks /\ \A b \in D : w[b] \in Nat
  BY RecordMapIs
<1>2. NumBlocks - 1 \in Nat /\ ChunkBlocks \in Nat \ {0}
  BY BlockNumbers, SizeAssumption
<1>3. IsFiniteSet(D) /\ Cardinality(D) \in Nat
  BY <1>1, <1>2, BelowFinite
<1>4. N \in Nat /\ Cardinality(D) = N + 1
  <2>1. Cardinality(D) # 0
    BY <1>3, FS_EmptySet
  <2>2. QED BY <1>3, <2>1
<1>5. \A b \in D : pos(b) \in Nat /\ pos(b) <= N
  <2> TAKE b \in D
  <2>1. pos(b) \in Nat
    BY <1>1, <1>2, BelowFinite
  <2>2. pos(b) < Cardinality(D)
    BY <1>1, <1>2, BelowLess
  <2> HIDE DEF N, pos
  <2>3. QED BY <1>4, <2>1, <2>2
<1>6. \A k : Chunk(w, k) = [b \in mine(k) |-> w[b]]
  BY DEF Chunk
<1>7. \A k : /\ DOMAIN Chunk(w, k) = mine(k) /\ mine(k) \subseteq D
             /\ \A b \in mine(k) : Chunk(w, k)[b] = w[b]
  BY <1>6
<1> HIDE DEF N, pos
<1>8. N \div ChunkBlocks \in Nat
  BY <1>2, <1>4, Division
<1>9. ASSUME NEW k \in K PROVE mine(k) # {}
  <2>1. k \in Nat /\ k <= N \div ChunkBlocks
    BY <1>8
  <2>2. k * ChunkBlocks \in Nat /\ k * ChunkBlocks <= N /\ (k * ChunkBlocks) \div ChunkBlocks = k
    BY <1>2, <1>4, <2>1, Division
  <2> DEFINE p == k * ChunkBlocks
  <2>3. p \in Nat /\ p <= N /\ p \div ChunkBlocks = k
    BY <2>2
  <2> HIDE DEF p
  <2>4. p < Cardinality(D)
    BY <1>4, <2>3
  <2>5. \E b \in D : pos(b) = p
    BY <1>1, <1>2, <2>3, <2>4, Positions DEF pos
  <2>6. QED BY <2>3, <2>5
<1>10. ASSUME NEW k \in K PROVE Chunk(w, k) \in RecordMaps
  <2>1. mine(k) \in SUBSET Blocks
    BY <1>1
  <2>2. Chunk(w, k) \in [mine(k) -> Nat]
    BY <1>1, <1>6
  <2> HIDE DEF mine
  <2>3. QED BY <2>1, <2>2, RecordMapOf
<1>11. \A k, l \in K : k # l => mine(k) \cap mine(l) = {}
  OBVIOUS
<1>12. ASSUME NEW b \in D PROVE \E k \in K : b \in mine(k)
  <2> DEFINE k == pos(b) \div ChunkBlocks
  <2>1. k \in Nat /\ k <= N \div ChunkBlocks
    BY <1>2, <1>4, <1>5, Division
  <2>2. k \in K
    BY <1>8, <2>1
  <2>3. b \in mine(k)
    OBVIOUS
  <2>4. QED BY <2>2, <2>3
<1> HIDE DEF mine
<1>13. QED BY <1>7, <1>9, <1>10, <1>11, <1>12 DEF N

\* The jobs of a segment.
LEMMA JobsOf ==
    ASSUME NEW w \in RecordMaps, DOMAIN w # {}
    PROVE  /\ Jobs(w) \subseteq JobSet
           /\ \A j \in Jobs(w) : /\ j.at = "queued" /\ j.todo = j.chunk
                                 /\ DOMAIN j.chunk # {} /\ DOMAIN j.chunk \subseteq DOMAIN w
                                 /\ \A b \in DOMAIN j.chunk : j.chunk[b] = w[b]
           /\ \A i, j \in Jobs(w) : i # j => DOMAIN i.chunk \cap DOMAIN j.chunk = {}
           /\ \A b \in DOMAIN w : \E j \in Jobs(w) : b \in DOMAIN j.chunk
<1> DEFINE K == 0..((Cardinality(DOMAIN w) - 1) \div ChunkBlocks)
           job(k) == [chunk |-> Chunk(w, k), todo |-> Chunk(w, k), at |-> "queued", id |-> 0]
<1>1. Jobs(w) = {job(k) : k \in K}
  BY DEF Jobs
<1>2. \A k \in K : /\ Chunk(w, k) \in RecordMaps /\ DOMAIN Chunk(w, k) # {}
                   /\ DOMAIN Chunk(w, k) \subseteq DOMAIN w
                   /\ \A b \in DOMAIN Chunk(w, k) : Chunk(w, k)[b] = w[b]
  BY ChunksOf
<1>3. \A k, l \in K : k # l => DOMAIN Chunk(w, k) \cap DOMAIN Chunk(w, l) = {}
  BY ChunksOf
<1>4. \A b \in DOMAIN w : \E k \in K : b \in DOMAIN Chunk(w, k)
  BY ChunksOf
<1> HIDE DEF K
<1>5. \A k \in K : job(k) \in JobSet /\ job(k).at = "queued" /\ job(k).todo = job(k).chunk
                   /\ job(k).chunk = Chunk(w, k)
  BY <1>2 DEF JobSet
<1> HIDE DEF job
<1>6. Jobs(w) \subseteq JobSet
  BY <1>1, <1>5
<1>7. ASSUME NEW j \in Jobs(w)
      PROVE  /\ j.at = "queued" /\ j.todo = j.chunk
             /\ DOMAIN j.chunk # {} /\ DOMAIN j.chunk \subseteq DOMAIN w
             /\ \A b \in DOMAIN j.chunk : j.chunk[b] = w[b]
  <2>1. PICK k \in K : j = job(k)
    BY <1>1
  <2>2. QED BY <1>2, <1>5, <2>1
<1>8. ASSUME NEW i \in Jobs(w), NEW j \in Jobs(w), i # j
      PROVE  DOMAIN i.chunk \cap DOMAIN j.chunk = {}
  <2>1. PICK k \in K : i = job(k)
    BY <1>1
  <2>2. PICK l \in K : j = job(l)
    BY <1>1
  <2>3. k # l
    BY <1>8, <2>1, <2>2
  <2>4. QED BY <1>3, <1>5, <2>1, <2>2, <2>3
<1>9. ASSUME NEW b \in DOMAIN w PROVE \E j \in Jobs(w) : b \in DOMAIN j.chunk
  <2>1. PICK k \in K : b \in DOMAIN Chunk(w, k)
    BY <1>4
  <2>2. job(k) \in Jobs(w) /\ b \in DOMAIN job(k).chunk
    BY <1>1, <1>5, <2>1
  <2>3. QED BY <2>2
<1>10. QED BY <1>6, <1>7, <1>8, <1>9

-----------------------------------------------------------------------------
(* IInv holds initially.                                                   *)

\* The empty map.
LEMMA EmptyMap ==
    IsMap({}) /\ Expand({}) = Empty /\ IsFlat(Empty, NumBlocks - 1)
    /\ \A o \in Nat : RefCount(Empty, o) = CountOf({}, o)
<1>1. IsMap({})
  BY DEF IsMap, Apart
<1>2. MappedBlocks({}) = {}
  BY DEF MappedBlocks
<1>3. DOMAIN Expand({}) = {} /\ Expand({}) = [b \in {} |-> Expand({})[b]]
  BY <1>2 DEF Expand
<1>4. Expand({}) = Empty
  BY <1>3 DEF Empty
<1>5. Empty \in [{} -> [obj : Nat, off : Nat, seq : Nat]]
  BY DEF Empty
<1>6. IsFlat(Empty, NumBlocks - 1)
  BY <1>5 DEF IsFlat
<1>7. \A o \in Nat : RefCount(Empty, o) = 0
  BY DEF RefCount, Empty
<1>8. \A o \in Nat : CountOf({}, o) = 0
  <2> TAKE o \in Nat
  <2>1. {e \in {} : e.obj = o} = {}
    OBVIOUS
  <2>2. QED BY <2>1, FS_EmptySet DEF CountOf
<1>9. QED BY <1>1, <1>4, <1>6, <1>7, <1>8

\* A new volume.
LEMMA InitIInv ==
    ASSUME Init
    PROVE  IInv
<1>1. Types
  BY EmptyIs, EmptyMap, BlockNumbers DEF Init, Types
<1>2. MapOK /\ RefsOK /\ SavedOK
  BY EmptyMap DEF Init, MapOK, RefsOK, SavedOK
<1>3. JobsOK /\ MuOK
  BY DEF Init, JobsOK, JobsApart, MuOK
<1>4. IdsOK
  BY EmptyIs DEF Init, IdsOK
<1>5. MapFindsSealedBlock
  BY EmptyIs DEF Init, MapFindsSealedBlock
<1>6. QED BY <1>1, <1>2, <1>3, <1>4, <1>5 DEF IInv

-----------------------------------------------------------------------------
(* IInv is kept.                                                           *)

\* A step that leaves the map, the backend and the drain alone.
LEMMA WriteStep ==
    ASSUME IInv, Types', UNCHANGED <<mapVars, objNum, chunks, live, drainVars>>
    PROVE  IInv'
<1>1. UNCHANGED <<lookup, refs, dirty, mapMu, objNum, chunks, live, draining, jobs, failed>>
  BY DEF mapVars, drainVars
<1>2. MapOK' /\ MuOK' /\ IdsOK' /\ RefsOK' /\ SavedOK'
  BY <1>1 DEF IInv, MapOK, MuOK, IdsOK, RefsOK, SavedOK
<1>3. JobsOK'
  BY <1>1 DEF IInv, JobsOK, JobOK, JobsApart
<1>4. MapFindsSealedBlock'
  BY <1>1 DEF IInv, MapFindsSealedBlock, Sealed
<1>5. QED BY <1>2, <1>3, <1>4 DEF IInv

\* A step that changes jobs and perhaps counts ObjectNum up.
LEMMA JobStep ==
    ASSUME IInv, Types', JobsOK', MuOK', objNum \in Nat, objNum' \in Nat, objNum <= objNum',
           UNCHANGED <<mapVars, chunks, live>>
    PROVE  IInv'
<1>1. UNCHANGED <<lookup, refs, dirty, mapMu, chunks, live>>
  BY DEF mapVars
<1>2. MapOK' /\ RefsOK' /\ SavedOK'
  BY <1>1 DEF IInv, MapOK, RefsOK, SavedOK
<1>3. IdsOK'
  <2>1. \A o \in Nat : o < objNum => o < objNum'
    OBVIOUS
  <2>2. QED BY <1>1, <2>1 DEF IInv, IdsOK
<1>4. MapFindsSealedBlock'
  BY <1>1 DEF IInv, MapFindsSealedBlock, Sealed
<1>5. QED BY <1>2, <1>3, <1>4 DEF IInv

\* ReserveSeqNum and the append of a record.
LEMMA WritesKeep ==
    ASSUME IInv, NEW b \in Blocks, ReserveSeqNum(b) \/ AppendWrite(b)
    PROVE  IInv'
<1>1. Types
  BY DEF IInv
<1>2. CASE ReserveSeqNum(b)
  <2>1. Types'
    BY <1>1, <1>2 DEF Types, ReserveSeqNum, mapVars, drainVars, ghostVars
  <2>2. QED BY <1>2, <2>1, WriteStep DEF ReserveSeqNum
<1>3. CASE AppendWrite(b)
  <2>1. reserved[b] \in Nat /\ wal \in RecordMaps
    BY <1>1 DEF Types
  <2>2. Dedup(wal, b, reserved[b]) \in RecordMaps
    <3>1. CASE b \in DOMAIN wal /\ wal[b] >= reserved[b]
      BY <2>1, <3>1 DEF Dedup
    <3>2. CASE ~(b \in DOMAIN wal /\ wal[b] >= reserved[b])
      <4> DEFINE r == reserved[b]
                 D == DOMAIN wal \cup {b}
      <4>1. Dedup(wal, b, r) = With(wal, b, r)
        BY <3>2 DEF Dedup
      <4>2. DOMAIN wal \in SUBSET Blocks /\ \A c \in DOMAIN wal : wal[c] \in Nat
        BY <2>1, RecordMapIs
      <4>3. With(wal, b, r) \in [D -> Nat]
        BY <2>1, <4>2 DEF With
      <4>4. D \in SUBSET Blocks
        BY <4>2
      <4> HIDE DEF D
      <4>5. QED BY <4>1, <4>3, <4>4, RecordMapOf
    <3>3. QED BY <3>1, <3>2
  <2>3. Types'
    BY <1>1, <1>3, <2>1, <2>2 DEF Types, AppendWrite, mapVars, drainVars
  <2>4. QED BY <1>3, <2>3, WriteStep DEF AppendWrite
<1>4. QED BY <1>2, <1>3

\* The rotation of the WAL and its jobs.
LEMMA RotateKeeps ==
    ASSUME IInv, Rotate
    PROVE  IInv'
<1>1. Types /\ JobsOK /\ MuOK
  BY DEF IInv
<1>2. wal \in RecordMaps /\ DOMAIN wal # {} /\ jobs' = Jobs(wal) /\ draining' = TRUE
      /\ wal' = Empty
  BY <1>1 DEF Types, Rotate
<1>3. jobs = {}
  BY <1>1 DEF JobsOK, Rotate
<1>4. UNCHANGED <<lookup, refs, dirty, mapMu, objNum, chunks, live, failed, seqNum, reserved,
                  newest, unsent, skipped>>
  BY DEF Rotate, mapVars, ghostVars
<1>5. Jobs(wal) \subseteq JobSet
  BY <1>2, JobsOf
<1>6. \A j \in Jobs(wal) : j.at = "queued" /\ j.todo = j.chunk /\ DOMAIN j.chunk # {}
  BY <1>2, JobsOf
<1>7. \A i, j \in Jobs(wal) : i # j => DOMAIN i.chunk \cap DOMAIN j.chunk = {}
  BY <1>2, JobsOf
<1>8. Types'
  BY <1>1, <1>2, <1>4, <1>5, EmptyIs DEF Types
<1>9. JobsOK'
  <2>1. \A j \in jobs' : JobOK(j)'
    BY <1>2, <1>6 DEF JobOK
  <2>2. JobsApart'
    BY <1>2, <1>6, <1>7 DEF JobsApart
  <2>3. QED BY <1>2, <2>1, <2>2 DEF JobsOK
<1>10. MuOK'
  BY <1>1, <1>3, <1>4 DEF MuOK
<1>11. objNum \in Nat /\ objNum' \in Nat /\ objNum <= objNum'
  BY <1>1, <1>4 DEF Types
<1>12. UNCHANGED <<mapVars, chunks, live>>
  BY <1>4 DEF mapVars
<1>13. QED BY <1>8, <1>9, <1>10, <1>11, <1>12, JobStep

\* A job there is: the drain is in progress.
LEMMA JobFacts ==
    ASSUME IInv, NEW j \in jobs
    PROVE  /\ j \in JobSet /\ JobOK(j) /\ draining = TRUE /\ j.id \in Nat
           /\ j.chunk \in RecordMaps /\ j.todo \in RecordMaps
           /\ objNum \in Nat
           /\ \A i \in jobs \ {j} : /\ JobOK(i) /\ i.id \in Nat
                                    /\ DOMAIN i.chunk \cap DOMAIN j.chunk = {}
                                    /\ i.at # "queued" /\ j.at # "queued" => i.id # j.id
<1>1. Types /\ JobsOK
  BY DEF IInv
<1>2. jobs \subseteq JobSet /\ objNum \in Nat /\ draining \in BOOLEAN
  BY <1>1 DEF Types
<1>3. draining = TRUE
  BY <1>1, <1>2 DEF JobsOK
<1>4. JobOK(j) /\ \A i \in jobs : JobOK(i)
  BY <1>1 DEF JobsOK
<1>5. j \in JobSet /\ \A i \in jobs : i.id \in Nat
  BY <1>2, JobType
<1>6. j.chunk \in RecordMaps /\ j.todo \in RecordMaps /\ j.id \in Nat
  BY <1>5, JobType
<1>7. JobsApart
  BY <1>1 DEF JobsOK
<1>8. \A i \in jobs \ {j} : /\ DOMAIN i.chunk \cap DOMAIN j.chunk = {}
                            /\ i.at # "queued" /\ j.at # "queued" => i.id # j.id
  BY <1>7 DEF JobsApart
<1>9. QED BY <1>2, <1>3, <1>4, <1>5, <1>6, <1>8

\* One job moves on, its chunk and the others as they were.
LEMMA JobReplaced ==
    ASSUME IInv, NEW j \in jobs, NEW k, k.chunk = j.chunk,
           jobs' = (jobs \ {j}) \cup {k}, draining' = TRUE,
           JobOK(k)', \A i \in jobs \ {j} : JobOK(i)',
           k.at # "queued" => \A i \in jobs \ {j} : i.at # "queued" => i.id # k.id
    PROVE  JobsOK'
<1>1. JobsApart
  BY DEF IInv, JobsOK
<1>2. \A i \in jobs \ {j} : DOMAIN i.chunk \cap DOMAIN j.chunk = {}
  BY JobFacts
<1>3. ASSUME NEW x \in jobs', NEW y \in jobs', x # y
      PROVE  /\ DOMAIN x.chunk \cap DOMAIN y.chunk = {}
             /\ x.at # "queued" /\ y.at # "queued" => x.id # y.id
  <2>1. CASE x \in jobs \ {j} /\ y \in jobs \ {j}
    BY <1>1, <1>3, <2>1 DEF JobsApart
  <2>2. CASE x \in jobs \ {j} /\ y = k
    BY <1>2, <2>2
  <2>3. CASE x = k /\ y \in jobs \ {j}
    BY <1>2, <2>3
  <2>4. QED BY <1>3, <2>1, <2>2, <2>3
<1>4. JobsApart'
  BY <1>3 DEF JobsApart
<1>5. \A x \in jobs' : JobOK(x)'
  OBVIOUS
<1>6. QED BY <1>4, <1>5 DEF JobsOK

\* One job ends.
LEMMA JobRemoved ==
    ASSUME IInv, NEW j \in jobs, jobs' = jobs \ {j}, draining' = TRUE,
           \A i \in jobs \ {j} : JobOK(i)'
    PROVE  JobsOK'
<1>1. JobsApart
  BY DEF IInv, JobsOK
<1>2. JobsApart'
  BY <1>1 DEF JobsApart
<1>3. QED BY <1>2 DEF JobsOK

\* A job whose object nobody touches stays as it should be.
LEMMA JobKept ==
    ASSUME NEW i, JobOK(i), i.id \in Nat, objNum \in Nat, objNum' \in Nat, objNum <= objNum',
           UNCHANGED chunks
    PROVE  JobOK(i)'
BY DEF JobOK

\* A worker takes a job, under an ObjectID no other job has.
LEMMA TakeJobKeeps ==
    ASSUME IInv, NEW j \in jobs, TakeJob(j)
    PROVE  IInv'
<1>0. PICK n : n = objNum
  OBVIOUS
<1> DEFINE k == [j EXCEPT !.at = "put", !.id = n]
<1>1. Types /\ MuOK /\ IdsOK
  BY DEF IInv
<1>2. /\ j \in JobSet /\ JobOK(j) /\ draining = TRUE /\ objNum \in Nat
      /\ \A i \in jobs \ {j} : JobOK(i) /\ i.id \in Nat
  BY JobFacts
<1>3. j.at = "queued" /\ jobs' = (jobs \ {j}) \cup {k} /\ objNum' = objNum + 1
  BY <1>0 DEF TakeJob, Queued
<1>4. UNCHANGED <<lookup, refs, dirty, mapMu, chunks, live, draining, failed, seqNum, reserved,
                  wal, newest, unsent, skipped>>
  BY DEF TakeJob, mapVars, writeVars, ghostVars
<1>5. /\ k \in JobSet /\ k.chunk = j.chunk /\ k.todo = j.todo
      /\ k.at = "put" /\ k.id = objNum
  BY <1>0, <1>2 DEF JobSet
<1> HIDE DEF k
<1>6. objNum' \in Nat /\ objNum <= objNum' /\ objNum < objNum'
  BY <1>2, <1>3
<1>7. Types'
  <2>1. jobs' \subseteq JobSet
    BY <1>1, <1>3, <1>5 DEF Types
  <2>2. QED BY <1>1, <1>4, <1>6, <2>1 DEF Types
<1>8. \A i \in jobs \ {j} : JobOK(i)'
  BY <1>2, <1>4, <1>6, JobKept
<1>9. JobOK(k)'
  <2>1. objNum \notin DOMAIN chunks
    BY <1>1, <1>2 DEF IdsOK
  <2>2. QED BY <1>2, <1>3, <1>4, <1>5, <1>6, <2>1 DEF JobOK
<1>10. \A i \in jobs \ {j} : i.at # "queued" => i.id # k.id
  BY <1>2, <1>5 DEF JobOK
<1>11. JobsOK'
  BY <1>2, <1>3, <1>4, <1>5, <1>8, <1>9, <1>10, JobReplaced
<1>12. MuOK'
  BY <1>1, <1>3, <1>4 DEF MuOK
<1>13. UNCHANGED <<mapVars, chunks, live>>
  BY <1>4 DEF mapVars
<1>14. QED BY <1>2, <1>6, <1>7, <1>11, <1>12, <1>13, JobStep

\* submit drops a job.
LEMMA DropJobKeeps ==
    ASSUME IInv, NEW j \in jobs, DropJob(j)
    PROVE  IInv'
<1>1. Types /\ MuOK
  BY DEF IInv
<1>2. /\ j.chunk \in RecordMaps /\ draining = TRUE /\ objNum \in Nat
      /\ \A i \in jobs \ {j} : JobOK(i) /\ i.id \in Nat
  BY JobFacts
<1>3. j.at = "queued" /\ jobs' = jobs \ {j} /\ unsent' = unsent \cup DOMAIN j.chunk
  BY DEF DropJob, Queued
<1>4. UNCHANGED <<lookup, refs, dirty, mapMu, objNum, chunks, live, draining, failed, seqNum,
                  reserved, wal, newest, skipped>>
  BY DEF DropJob, mapVars, writeVars
<1>5. DOMAIN j.chunk \in SUBSET Blocks
  BY <1>2, RecordMapIs
<1>6. Types'
  BY <1>1, <1>3, <1>4, <1>5 DEF Types
<1>7. objNum' \in Nat /\ objNum <= objNum'
  BY <1>2, <1>4
<1>8. \A i \in jobs \ {j} : JobOK(i)'
  BY <1>2, <1>4, <1>7, JobKept
<1>9. JobsOK'
  BY <1>2, <1>3, <1>4, <1>8, JobRemoved
<1>10. MuOK'
  BY <1>1, <1>3, <1>4 DEF MuOK
<1>11. UNCHANGED <<mapVars, chunks, live>>
  BY <1>4 DEF mapVars
<1>12. QED BY <1>2, <1>6, <1>7, <1>9, <1>10, <1>11, JobStep

\* What is sealed stays sealed when a new object is PUT.
LEMMA SealedStays ==
    ASSUME NEW id, NEW c, id \notin DOMAIN chunks, chunks' = With(chunks, id, c),
           NEW o, NEW off, NEW b, NEW s, Sealed(o, off, b, s)
    PROVE  Sealed(o, off, b, s)'
<1>1. o \in DOMAIN chunks /\ o # id
  BY DEF Sealed
<1>2. o \in DOMAIN chunks' /\ chunks'[o] = chunks[o]
  BY <1>1 DEF With
<1>3. QED BY <1>1, <1>2 DEF Sealed

\* The PUT of a chunk object.
LEMMA PutChunkKeeps ==
    ASSUME IInv, NEW j \in jobs, PutChunk(j)
    PROVE  IInv'
<1>1. Types /\ MuOK /\ IdsOK
  BY DEF IInv
<1>2. /\ j \in JobSet /\ JobOK(j) /\ j.id \in Nat
      /\ j.chunk \in RecordMaps /\ draining = TRUE /\ objNum \in Nat
      /\ \A i \in jobs \ {j} : /\ JobOK(i) /\ i.id \in Nat
                               /\ i.at # "queued" /\ j.at # "queued" => i.id # j.id
  BY JobFacts
<1>3. j.at = "put" /\ UNCHANGED <<lookup, refs, dirty, mapMu, objNum, live, draining, seqNum,
                                  reserved, wal, newest, skipped>>
  BY DEF PutChunk, mapVars, writeVars
<1>4. DOMAIN j.chunk \in SUBSET Blocks
  BY <1>2, RecordMapIs
<1>5. objNum' \in Nat /\ objNum <= objNum'
  BY <1>2, <1>3
<1>6. CASE /\ chunks' = With(chunks, j.id, j.chunk)
           /\ jobs' = (jobs \ {j}) \cup {[j EXCEPT !.at = "apply"]}
           /\ unsent' = unsent \ DOMAIN j.chunk
           /\ UNCHANGED <<failed, faults>>
  <2> DEFINE k == [j EXCEPT !.at = "apply"]
  <2>1. /\ k \in JobSet /\ k.chunk = j.chunk /\ k.todo = j.todo
        /\ k.at = "apply" /\ k.id = j.id
    BY <1>2 DEF JobSet
  <2>2. jobs' = (jobs \ {j}) \cup {k}
    BY <1>6
  <2> HIDE DEF k
  <2>3. /\ DOMAIN chunks' = DOMAIN chunks \cup {j.id} /\ chunks'[j.id] = j.chunk
        /\ \A o \in DOMAIN chunks : o # j.id => chunks'[o] = chunks[o]
    BY <1>6 DEF With
  <2>4. j.id \notin DOMAIN chunks /\ j.id < objNum
    BY <1>2, <1>3 DEF JobOK
  <2>5. Types'
    <3>1. jobs' \subseteq JobSet
      BY <1>1, <2>1, <2>2 DEF Types
    <3>2. unsent' \subseteq Blocks /\ failed' \in BOOLEAN
      BY <1>1, <1>6 DEF Types
    <3>3. QED BY <1>1, <1>3, <3>1, <3>2 DEF Types
  <2>6. ASSUME NEW i \in jobs \ {j} PROVE JobOK(i)'
    <3>1. JobOK(i) /\ (i.at # "queued" => i.id # j.id)
      BY <1>2, <1>3
    <3>2. i.at = "put" => i.id \notin DOMAIN chunks'
      BY <2>3, <3>1 DEF JobOK
    <3>3. i.at = "apply" => i.id \in DOMAIN chunks' /\ chunks'[i.id] = i.chunk
      BY <2>3, <3>1 DEF JobOK
    <3>4. QED BY <1>3, <3>1, <3>2, <3>3 DEF JobOK
  <2>7. JobOK(k)'
    BY <1>2, <1>3, <2>1, <2>3, <2>4 DEF JobOK
  <2>8. \A i \in jobs \ {j} : i.at # "queued" => i.id # k.id
    BY <1>2, <1>3, <2>1
  <2>9. JobsOK'
    BY <1>2, <1>3, <2>1, <2>2, <2>6, <2>7, <2>8, JobReplaced
  <2>10. MuOK'
    BY <1>1, <1>3, <2>2 DEF MuOK
  <2>11. IdsOK'
    BY <1>1, <1>2, <1>3, <2>3, <2>4 DEF IdsOK
  <2>12. MapFindsSealedBlock'
    <3>1. MapFindsSealedBlock
      BY DEF IInv
    <3>2. \A o, off, b, s : Sealed(o, off, b, s) => Sealed(o, off, b, s)'
      BY <1>6, <2>4, SealedStays
    <3>3. QED BY <1>3, <3>1, <3>2 DEF MapFindsSealedBlock
  <2>13. MapOK' /\ RefsOK' /\ SavedOK'
    BY <1>3 DEF IInv, MapOK, RefsOK, SavedOK
  <2>14. QED BY <2>5, <2>9, <2>10, <2>11, <2>12, <2>13 DEF IInv
<1>7. CASE /\ failed' = TRUE /\ jobs' = jobs \ {j}
           /\ unsent' = unsent \cup DOMAIN j.chunk /\ UNCHANGED chunks
  <2>1. Types'
    BY <1>1, <1>3, <1>4, <1>7 DEF Types
  <2>2. \A i \in jobs \ {j} : JobOK(i)'
    BY <1>2, <1>3, <1>5, <1>7, JobKept
  <2>3. JobsOK'
    BY <1>2, <1>3, <1>7, <2>2, JobRemoved
  <2>4. MuOK'
    BY <1>1, <1>3, <1>7 DEF MuOK
  <2>5. UNCHANGED <<mapVars, chunks, live>>
    BY <1>3, <1>7 DEF mapVars
  <2>6. QED BY <1>2, <1>5, <2>1, <2>3, <2>4, <2>5, JobStep
<1>8. QED BY <1>6, <1>7 DEF PutChunk

\* The blocks of an extent, as a range and as what it covers.
LEMMA CoversRange ==
    ASSUME NEW e, IsExtent(e)
    PROVE  \A b : b \in e.start..(End(e) - 1) <=> b \in Nat /\ Covers(e, b)
<1>1. e.start \in Nat /\ End(e) \in Nat
  BY ExtentType
<1>2. QED BY <1>1 DEF Covers

\* MapFindsSealedBlock in terms of what the entries cover.
LEMMA MapSealed ==
    ASSUME NEW m, \A e \in m : IsExtent(e)
    PROVE  (\A e \in m : \A b \in e.start..(End(e) - 1) :
                Sealed(e.obj, OffsetAt(e, b), b, SeqNumAt(e, b)))
           <=> (\A e \in m, b \in Nat : Covers(e, b) =>
                    Sealed(e.obj, OffsetAt(e, b), b, SeqNumAt(e, b)))
<1>1. \A e \in m : \A b : b \in e.start..(End(e) - 1) <=> b \in Nat /\ Covers(e, b)
  BY CoversRange
<1>2. QED BY <1>1

\* What IInv says of the map.
LEMMA MapFacts ==
    ASSUME IInv
    PROVE  /\ IsMap(lookup) /\ \A e \in lookup : IsExtent(e) /\ End(e) <= NumBlocks
           /\ \A e \in lookup, b \in Nat : Covers(e, b) =>
                  Sealed(e.obj, OffsetAt(e, b), b, SeqNumAt(e, b))
           /\ \A e \in lookup : e.obj \in Nat /\ e.obj < objNum
           /\ \A b \in DOMAIN live : Sealed(live[b].obj, live[b].off, b, live[b].seq)
<1>1. MapOK /\ MapFindsSealedBlock /\ IdsOK
  BY DEF IInv
<1>2. IsMap(lookup) /\ \A e \in lookup : IsExtent(e) /\ End(e) <= NumBlocks
  BY <1>1 DEF MapOK, IsMap
<1>3. \A e \in lookup, b \in Nat : Covers(e, b) =>
         Sealed(e.obj, OffsetAt(e, b), b, SeqNumAt(e, b))
  BY <1>1, <1>2, MapSealed DEF MapFindsSealedBlock
<1>4. ASSUME NEW e \in lookup PROVE e.obj \in Nat /\ e.obj < objNum
  <2>1. e.start \in Nat /\ e.start < End(e) /\ End(e) \in Nat
    BY <1>2, ExtentType
  <2>2. Covers(e, e.start)
    BY <2>1 DEF Covers
  <2>3. e.obj \in DOMAIN chunks
    BY <1>3, <2>1, <2>2 DEF Sealed
  <2>4. QED BY <1>1, <2>3 DEF IdsOK
<1>5. QED BY <1>1, <1>2, <1>3, <1>4 DEF MapFindsSealedBlock

\* The run a worker applies.
Run(j) == FirstRun(j.todo)
Entry(j) == RunEntry(j.chunk, Run(j), j.id)
Rest(j) == [b \in DOMAIN j.todo \ Run(j) |-> j.todo[b]]

\* What is applied is an extent of the chunk that was PUT.
LEMMA EntryFacts ==
    ASSUME IInv, NEW j \in jobs, j.at = "apply"
    PROVE  /\ IsExtent(Entry(j)) /\ End(Entry(j)) <= NumBlocks /\ Entry(j).obj = j.id
           /\ Run(j) \subseteq DOMAIN j.todo /\ Entry(j).start \in Run(j)
           /\ Entry(j).seqs[1] = j.todo[Entry(j).start]
           /\ \A b \in Nat : Covers(Entry(j), b) <=> b \in Run(j)
           /\ \A b \in Run(j) : /\ b \in Nat /\ SeqNumAt(Entry(j), b) = j.todo[b]
                                /\ Sealed(j.id, OffsetAt(Entry(j), b), b, SeqNumAt(Entry(j), b))
<1> DEFINE run == FirstRun(j.todo)
           n == RunEntry(j.chunk, run, j.id)
           N == NumBlocks - 1
<1>1. /\ j.chunk \in RecordMaps /\ j.todo \in RecordMaps /\ j.id \in Nat /\ JobOK(j)
  BY JobFacts
<1>2. /\ DOMAIN j.todo # {} /\ DOMAIN j.todo \subseteq DOMAIN j.chunk
      /\ \A b \in DOMAIN j.todo : j.todo[b] = j.chunk[b]
      /\ j.id \in DOMAIN chunks /\ chunks[j.id] = j.chunk
  BY <1>1 DEF JobOK
<1>3. /\ DOMAIN j.chunk \in SUBSET (0..N) /\ \A b \in DOMAIN j.chunk : j.chunk[b] \in Nat
      /\ DOMAIN j.todo \subseteq Nat
  BY <1>1, RecordMapIs
<1>4. N \in Nat /\ N + 1 = NumBlocks
  BY BlockNumbers
<1> HIDE DEF N
<1>5. /\ IsExtent(n) /\ End(n) <= N + 1 /\ n.obj = j.id
      /\ run \subseteq DOMAIN j.todo /\ n.start \in run
      /\ n.seqs[1] = j.chunk[n.start]
      /\ \A b \in Nat : Covers(n, b) <=> b \in run
      /\ \A b \in run : /\ SeqNumAt(n, b) = j.chunk[b]
                        /\ OffsetAt(n, b) = Position(DOMAIN j.chunk, b)
  <2> DEFINE ch == j.chunk
             td == j.todo
             id == j.id
  <2>1. /\ DOMAIN ch \in SUBSET (0..N) /\ (\A b \in DOMAIN ch : ch[b] \in Nat)
        /\ DOMAIN td \subseteq DOMAIN ch /\ DOMAIN td # {} /\ id \in Nat
    BY <1>1, <1>2, <1>3
  <2>2. run = FirstRun(td) /\ n = RunEntry(ch, run, id)
    OBVIOUS
  <2> HIDE DEF ch, td, id, run, n
  <2>3. IsEntry(n, run, ch, td, id, N)
    BY <1>4, <2>1, <2>2, RunEntryIs
  <2>4. QED BY <2>3 DEF ch, td, id, IsEntry
<1> HIDE DEF run, n
<1>6. ASSUME NEW b \in run
      PROVE  /\ b \in Nat /\ SeqNumAt(n, b) = j.todo[b]
             /\ Sealed(j.id, OffsetAt(n, b), b, SeqNumAt(n, b))
  <2>1. b \in DOMAIN j.todo /\ b \in DOMAIN j.chunk
    BY <1>2, <1>5
  <2>2. SeqNumAt(n, b) = j.todo[b] /\ b \in Nat
    BY <1>2, <1>3, <1>5, <2>1
  <2>3. Sealed(j.id, OffsetAt(n, b), b, SeqNumAt(n, b))
    BY <1>2, <1>5, <2>1 DEF Sealed, Position
  <2>4. QED BY <2>2, <2>3
<1>7. n.seqs[1] = j.todo[n.start]
  BY <1>2, <1>5
<1>8. run = Run(j) /\ n = Entry(j)
  BY DEF run, n, Run, Entry
<1>9. QED BY <1>4, <1>5, <1>6, <1>7, <1>8

\* The step, in terms of the run.
LEMMA ApplyRunIs ==
    ASSUME NEW j \in jobs, ApplyRun(j)
    PROVE  /\ j.at = "apply"
           /\ UNCHANGED <<objNum, chunks, live, draining, failed, seqNum, reserved, wal,
                          newest, unsent>>
           /\ \/ /\ Stale(lookup, Entry(j)) /\ lookup' = lookup
                 /\ refs' = IF j.id \in DOMAIN refs THEN refs ELSE With(refs, j.id, 0)
                 /\ skipped' = IF Misread(lookup, Entry(j)) THEN skipped \cup Run(j) ELSE skipped
              \/ /\ ~Stale(lookup, Entry(j)) /\ lookup' = Insert(lookup, Entry(j))
                 /\ refs' = InsertRefs(refs, lookup, Entry(j))
                 /\ skipped' = skipped \ Run(j)
           /\ \/ DOMAIN Rest(j) = {} /\ jobs' = jobs \ {j} /\ mapMu' = {} /\ dirty' = TRUE
              \/ /\ DOMAIN Rest(j) # {} /\ jobs' = (jobs \ {j}) \cup {[j EXCEPT !.todo = Rest(j)]}
                 /\ mapMu' = {j.id} /\ dirty' = dirty
BY DEF ApplyRun, Entry, Run, Rest, writeVars, ghostVars

\* What is left of a job after its first run.
LEMMA RestIs ==
    ASSUME IInv, NEW j \in jobs
    PROVE  /\ Rest(j) \in RecordMaps /\ DOMAIN Rest(j) = DOMAIN j.todo \ Run(j)
           /\ \A b \in DOMAIN Rest(j) : Rest(j)[b] = j.todo[b]
<1> DEFINE D == DOMAIN j.todo \ Run(j)
<1>1. j.todo \in RecordMaps
  BY JobFacts
<1>2. DOMAIN j.todo \in SUBSET Blocks /\ \A b \in DOMAIN j.todo : j.todo[b] \in Nat
  BY <1>1, RecordMapIs
<1>3. D \in SUBSET Blocks /\ \A b \in D : j.todo[b] \in Nat
  BY <1>2
<1>4. Rest(j) = [b \in D |-> j.todo[b]]
  BY DEF Rest
<1> HIDE DEF D
<1>5. Rest(j) \in [D -> Nat]
  BY <1>3, <1>4
<1>6. Rest(j) \in RecordMaps
  BY <1>3, <1>5, RecordMapOf
<1>7. DOMAIN Rest(j) = D /\ \A b \in D : Rest(j)[b] = j.todo[b]
  BY <1>4
<1>8. QED BY <1>6, <1>7 DEF D

\* The map after a run: n is new, everything else is a piece of what was there.
LEMMA MapAfterRun ==
    ASSUME IInv, NEW j \in jobs, ApplyRun(j)
    PROVE  /\ IsMap(lookup') /\ \A e \in lookup' : IsExtent(e) /\ End(e) <= NumBlocks
           /\ \A f \in lookup' : \/ f = Entry(j) /\ ~Stale(lookup, Entry(j))
                                 \/ \E e \in lookup : Piece(f, e)
<1> DEFINE n == Entry(j)
<1>1. IsMap(lookup) /\ \A e \in lookup : IsExtent(e) /\ End(e) <= NumBlocks
  BY MapFacts
<1>2. j.at = "apply"
  BY ApplyRunIs
<1>3. IsExtent(n) /\ End(n) <= NumBlocks
  BY <1>2, EntryFacts
<1> HIDE DEF n
<1>4. NumBlocks \in Nat
  BY BlockNumbers
<1>5. CASE lookup' = lookup
  BY <1>1, <1>5, PieceOfItself
<1>6. CASE lookup' = Insert(lookup, n) /\ ~Stale(lookup, n)
  <2>1. IsMap(lookup')
    BY <1>1, <1>3, <1>6, InsertIsMap
  <2>2. \A e \in Insert(lookup, n) : End(e) <= NumBlocks
    BY <1>1, <1>3, <1>4, InsertBounded
  <2>3. \A f \in Insert(lookup, n) : IsExtent(f) /\ (f = n \/ \E e \in lookup : Piece(f, e))
    BY <1>1, <1>3, InsertFrom
  <2>4. QED BY <1>6, <2>1, <2>2, <2>3 DEF n
<1>7. QED BY <1>5, <1>6, ApplyRunIs DEF n

\* Every entry of the map after a run finds its sealed blocks.
LEMMA SealedAfterRun ==
    ASSUME IInv, NEW j \in jobs, ApplyRun(j)
    PROVE  MapFindsSealedBlock'
<1>1. UNCHANGED <<chunks, live>> /\ j.at = "apply"
  BY ApplyRunIs
<1>2. \A o, off, b, s : Sealed(o, off, b, s) => Sealed(o, off, b, s)'
  BY <1>1 DEF Sealed
<1>3. /\ \A e \in lookup : IsExtent(e)
      /\ \A e \in lookup, b \in Nat : Covers(e, b) =>
             Sealed(e.obj, OffsetAt(e, b), b, SeqNumAt(e, b))
      /\ \A b \in DOMAIN live : Sealed(live[b].obj, live[b].off, b, live[b].seq)
  BY MapFacts
<1>4. /\ \A e \in lookup' : IsExtent(e)
      /\ \A f \in lookup' : f = Entry(j) \/ \E e \in lookup : Piece(f, e)
  BY MapAfterRun
<1>5. ASSUME NEW f \in lookup', NEW b \in Nat, Covers(f, b)
      PROVE  Sealed(f.obj, OffsetAt(f, b), b, SeqNumAt(f, b))
  <2>1. CASE f = Entry(j)
    <3>1. b \in Run(j) /\ f.obj = j.id
      BY <1>1, <1>5, <2>1, EntryFacts
    <3>2. Sealed(j.id, OffsetAt(Entry(j), b), b, SeqNumAt(Entry(j), b))
      BY <1>1, <3>1, EntryFacts
    <3>3. QED BY <2>1, <3>1, <3>2
  <2>2. ASSUME NEW e \in lookup, Piece(f, e)
        PROVE  Sealed(f.obj, OffsetAt(f, b), b, SeqNumAt(f, b))
    <3>1. /\ Covers(e, b) /\ SeqNumAt(f, b) = SeqNumAt(e, b)
          /\ OffsetAt(f, b) = OffsetAt(e, b) /\ f.obj = e.obj
      BY <1>3, <1>4, <1>5, <2>2, PieceFacts
    <3>2. Sealed(e.obj, OffsetAt(e, b), b, SeqNumAt(e, b))
      BY <1>3, <3>1
    <3>3. QED BY <3>1, <3>2
  <2>3. QED BY <1>4, <2>1, <2>2
<1>6. \A e \in lookup' : \A b \in e.start..(End(e) - 1) :
         Sealed(e.obj, OffsetAt(e, b), b, SeqNumAt(e, b))
  BY <1>4, <1>5, MapSealed
<1>7. QED BY <1>1, <1>2, <1>3, <1>6 DEF MapFindsSealedBlock

\* The reference counts after a run.
LEMMA RefsAfterRun ==
    ASSUME IInv, NEW j \in jobs, ApplyRun(j)
    PROVE  RefsOK' /\ IdsOK'
<1> DEFINE n == Entry(j)
<1>1. RefsOK /\ IdsOK
  BY DEF IInv
<1>2. j.at = "apply" /\ UNCHANGED <<objNum, chunks>>
  BY ApplyRunIs
<1>3. j.id \in Nat /\ j.id < objNum
  BY <1>2, JobFacts DEF JobOK
<1>4. IsExtent(n) /\ End(n) <= NumBlocks /\ n.obj = j.id
  BY <1>2, EntryFacts
<1>5. /\ IsMap(lookup) /\ \A e \in lookup : End(e) <= NumBlocks
      /\ \A e \in lookup : IsExtent(e) /\ e.obj \in Nat /\ e.obj < objNum
  BY MapFacts
<1>6. NumBlocks \in Nat
  BY BlockNumbers
<1>7. CASE lookup' = lookup /\ refs' = IF j.id \in DOMAIN refs THEN refs ELSE With(refs, j.id, 0)
  <2>1. CASE j.id \in DOMAIN refs
    BY <1>1, <1>2, <1>7, <2>1 DEF RefsOK, IdsOK
  <2>2. CASE j.id \notin DOMAIN refs
    <3>1. refs' = With(refs, j.id, 0)
      BY <1>7, <2>2
    <3>2. /\ DOMAIN refs' = DOMAIN refs \cup {j.id} /\ refs'[j.id] = 0
          /\ \A o \in DOMAIN refs : refs'[o] = refs[o]
      BY <2>2, <3>1 DEF With
    <3>3. \A o : RefCount(refs', o) = RefCount(refs, o)
      BY <2>2, <3>2 DEF RefCount
    <3>4. RefsOK'
      BY <1>1, <1>7, <3>3 DEF RefsOK
    <3>5. IdsOK'
      BY <1>1, <1>2, <1>3, <3>2 DEF IdsOK
    <3>6. QED BY <3>4, <3>5
  <2>3. QED BY <2>1, <2>2
<1>8. CASE lookup' = Insert(lookup, n) /\ refs' = InsertRefs(refs, lookup, n)
  <2> HIDE DEF n
  <2>1. \A o \in Nat : RefCount(refs, o) = CountOf(lookup, o)
    BY <1>1 DEF RefsOK
  <2>2. \A o \in Nat : RefCount(InsertRefs(refs, lookup, n), o) = CountOf(Insert(lookup, n), o)
    BY <1>4, <1>5, <1>6, <2>1, InsertRefsExact
  <2>3. RefsOK'
    BY <1>8, <2>2 DEF RefsOK
  <2>4. DOMAIN refs' = DOMAIN refs \cup {n.obj} \cup {e.obj : e \in Fragments(lookup, n)}
    BY <1>8 DEF InsertRefs
  <2>5. \A f \in Fragments(lookup, n) : f.obj \in Nat /\ f.obj < objNum
    <3> TAKE f \in Fragments(lookup, n)
    <3>1. PICK e \in lookup : Piece(f, e)
      BY <1>4, <1>5, FragmentIs
    <3>2. f.obj = e.obj
      BY <3>1 DEF Piece
    <3>3. QED BY <1>5, <3>2
  <2>6. \A o \in DOMAIN refs' : o \in Nat /\ o < objNum
    BY <1>1, <1>3, <1>4, <2>4, <2>5 DEF IdsOK
  <2>7. ASSUME NEW o \in DOMAIN refs' PROVE refs'[o] \in Nat
    <3>1. o \in Nat
      BY <2>6
    <3>2. RefCount(refs', o) = CountOf(Insert(lookup, n), o)
      BY <1>8, <2>2, <3>1
    <3>3. refs'[o] = CountOf(Insert(lookup, n), o)
      BY <3>2 DEF RefCount
    <3>4. IsMap(Insert(lookup, n))
      BY <1>4, <1>5, InsertIsMap
    <3>5. \A e \in Insert(lookup, n) : End(e) <= NumBlocks
      BY <1>4, <1>5, <1>6, InsertBounded
    <3>6. IsFiniteSet(Insert(lookup, n))
      BY <1>6, <3>4, <3>5, MapFinite
    <3>7. IsFiniteSet({e \in Insert(lookup, n) : e.obj = o})
      BY <3>6, FS_Subset
    <3>8. CountOf(Insert(lookup, n), o) \in Nat
      BY <3>7, FS_CardinalityType DEF CountOf
    <3>9. QED BY <3>3, <3>8
  <2>8. IdsOK'
    BY <1>1, <1>2, <2>6, <2>7 DEF IdsOK
  <2>9. QED BY <2>3, <2>8
<1>9. QED BY <1>7, <1>8, ApplyRunIs

\* A run is applied to the map.
LEMMA ApplyRunKeeps ==
    ASSUME IInv, NEW j \in jobs, ApplyRun(j)
    PROVE  IInv'
<1>1. Types
  BY DEF IInv
<1>2. j.at = "apply" /\ UNCHANGED <<objNum, chunks, live, draining, failed, seqNum, reserved, wal,
                                    newest, unsent>>
  BY ApplyRunIs
<1>3. /\ j \in JobSet /\ JobOK(j) /\ draining = TRUE /\ objNum \in Nat
      /\ \A i \in jobs \ {j} : /\ JobOK(i) /\ i.id \in Nat
                               /\ i.at # "queued" /\ j.at # "queued" => i.id # j.id
  BY JobFacts
<1>4. objNum' \in Nat /\ objNum <= objNum'
  BY <1>2, <1>3
<1>5. \A i \in jobs \ {j} : JobOK(i)'
  BY <1>2, <1>3, <1>4, JobKept
<1>6. MapOK'
  BY MapAfterRun DEF MapOK
<1>7. MapFindsSealedBlock' /\ RefsOK' /\ IdsOK'
  BY SealedAfterRun, RefsAfterRun
<1>8. skipped' \subseteq Blocks
  <2>1. DOMAIN j.todo \subseteq Blocks
    BY JobFacts, RecordMapIs
  <2>2. Run(j) \subseteq Blocks
    BY <1>2, <2>1, EntryFacts
  <2>3. skipped \subseteq Blocks
    BY <1>1 DEF Types
  <2>4. skipped' \in {skipped, skipped \cup Run(j), skipped \ Run(j)}
    BY ApplyRunIs
  <2>5. QED BY <2>2, <2>3, <2>4
<1>9. CASE DOMAIN Rest(j) = {} /\ jobs' = jobs \ {j} /\ mapMu' = {} /\ dirty' = TRUE
  <2>1. Types'
    BY <1>1, <1>2, <1>8, <1>9 DEF Types
  <2>2. JobsOK'
    BY <1>2, <1>3, <1>5, <1>9, JobRemoved
  <2>3. MuOK' /\ SavedOK'
    BY <1>9 DEF MuOK, SavedOK
  <2>4. QED BY <1>6, <1>7, <2>1, <2>2, <2>3 DEF IInv
<1>10. CASE /\ DOMAIN Rest(j) # {} /\ jobs' = (jobs \ {j}) \cup {[j EXCEPT !.todo = Rest(j)]}
           /\ mapMu' = {j.id} /\ dirty' = dirty
  <2> DEFINE k == [j EXCEPT !.todo = Rest(j)]
  <2>1. /\ Rest(j) \in RecordMaps /\ DOMAIN Rest(j) = DOMAIN j.todo \ Run(j)
        /\ \A b \in DOMAIN Rest(j) : Rest(j)[b] = j.todo[b]
    BY RestIs
  <2>2. /\ k \in JobSet /\ k.chunk = j.chunk /\ k.todo = Rest(j)
        /\ k.at = "apply" /\ k.id = j.id
    BY <1>2, <1>3, <2>1 DEF JobSet
  <2>3. jobs' = (jobs \ {j}) \cup {k}
    BY <1>10
  <2> HIDE DEF k
  <2>4. Types'
    <3>1. jobs' \subseteq JobSet
      BY <1>1, <2>2, <2>3 DEF Types
    <3>2. dirty' \in BOOLEAN
      BY <1>1, <1>10 DEF Types
    <3>3. QED BY <1>1, <1>2, <1>8, <3>1, <3>2 DEF Types
  <2>5. JobOK(k)'
    <3>1. DOMAIN k.todo # {} /\ DOMAIN k.todo \subseteq DOMAIN k.chunk
      BY <1>3, <1>10, <2>1, <2>2 DEF JobOK
    <3>2. \A b \in DOMAIN k.todo : k.todo[b] = k.chunk[b]
      BY <1>3, <2>1, <2>2 DEF JobOK
    <3>3. k.id < objNum' /\ k.id \in DOMAIN chunks' /\ chunks'[k.id] = k.chunk
      BY <1>2, <1>3, <2>2 DEF JobOK
    <3>4. QED BY <2>2, <3>1, <3>2, <3>3 DEF JobOK
  <2>6. \A i \in jobs \ {j} : i.at # "queued" => i.id # k.id
    BY <1>2, <1>3, <2>2
  <2>7. JobsOK'
    BY <1>2, <1>3, <1>5, <2>2, <2>3, <2>5, <2>6, JobReplaced
  <2>8. MuOK'
    BY <1>10, <2>2, <2>3 DEF MuOK
  <2>9. SavedOK'
    BY <1>10 DEF SavedOK
  <2>10. QED BY <1>6, <1>7, <2>4, <2>7, <2>8, <2>9 DEF IInv
<1>11. QED BY <1>9, <1>10, ApplyRunIs

\* Saving the map: the checkpoint sends every block where the map does.
LEMMA SavedMap ==
    ASSUME IInv
    PROVE  /\ IsFlat(Expand(lookup), NumBlocks - 1)
           /\ \A b \in DOMAIN Expand(lookup) :
                  Sealed(Expand(lookup)[b].obj, Expand(lookup)[b].off, b, Expand(lookup)[b].seq)
<1>1. /\ IsMap(lookup) /\ \A e \in lookup : IsExtent(e) /\ End(e) <= NumBlocks
      /\ \A e \in lookup, b \in Nat : Covers(e, b) =>
             Sealed(e.obj, OffsetAt(e, b), b, SeqNumAt(e, b))
  BY MapFacts
<1> DEFINE N == NumBlocks - 1
<1>2. N \in Nat /\ N + 1 = NumBlocks
  BY BlockNumbers
<1> HIDE DEF N
<1>3. \A e \in lookup : End(e) <= N + 1
  BY <1>1, <1>2
<1>4. IsFlat(Expand(lookup), N)
  BY <1>1, <1>2, <1>3, ExpandIs
<1>5. \A b \in DOMAIN Expand(lookup) :
         /\ b \in Nat
         /\ Expand(lookup)[b].obj = Resolve(lookup, b).obj
         /\ Expand(lookup)[b].off = OffsetAt(Resolve(lookup, b), b)
         /\ Expand(lookup)[b].seq = SeqNumAt(Resolve(lookup, b), b)
         /\ Resolve(lookup, b) \in lookup /\ Covers(Resolve(lookup, b), b)
  BY <1>1, <1>2, <1>3, ExpandIs
<1>6. ASSUME NEW b \in DOMAIN Expand(lookup)
      PROVE  Sealed(Expand(lookup)[b].obj, Expand(lookup)[b].off, b, Expand(lookup)[b].seq)
  <2>1. Sealed(Resolve(lookup, b).obj, OffsetAt(Resolve(lookup, b), b), b,
               SeqNumAt(Resolve(lookup, b), b))
    BY <1>1, <1>5
  <2>2. QED BY <1>5, <2>1
<1>7. QED BY <1>4, <1>6 DEF N

\* The end of a drain.
LEMMA FinishDrainKeeps ==
    ASSUME IInv, FinishDrain
    PROVE  IInv'
<1>1. Types /\ MapOK /\ MuOK /\ IdsOK /\ RefsOK /\ SavedOK /\ MapFindsSealedBlock
  BY DEF IInv
<1>2. /\ jobs = {} /\ draining' = FALSE /\ failed' = FALSE
      /\ UNCHANGED <<lookup, refs, mapMu, objNum, chunks, jobs, seqNum, reserved, wal, newest,
                     unsent, skipped>>
      /\ \/ live' = live /\ dirty' = dirty
         \/ dirty' = FALSE /\ dirty = TRUE /\ live' = Expand(lookup)
         \/ dirty' = FALSE /\ dirty = FALSE /\ live' = live
  <2>1. dirty \in BOOLEAN
    BY <1>1 DEF Types
  <2>2. \/ live' = live /\ dirty' = dirty
        \/ dirty' = FALSE /\ live' = IF dirty THEN Expand(lookup) ELSE live
    BY DEF FinishDrain
  <2>3. \/ live' = live /\ dirty' = dirty
        \/ dirty' = FALSE /\ dirty = TRUE /\ live' = Expand(lookup)
        \/ dirty' = FALSE /\ dirty = FALSE /\ live' = live
    BY <2>1, <2>2
  <2>4. QED BY <2>3 DEF FinishDrain, writeVars, ghostVars
<1>3. mapMu = {}
  BY <1>1, <1>2 DEF MuOK
<1>4. IsFlat(live', NumBlocks - 1) /\ dirty' \in BOOLEAN
  BY <1>1, <1>2, SavedMap DEF Types
<1>5. Types'
  BY <1>1, <1>2, <1>4 DEF Types
<1>6. JobsOK'
  BY <1>2 DEF JobsOK, JobsApart
<1>7. MapOK' /\ MuOK' /\ IdsOK' /\ RefsOK'
  BY <1>1, <1>2, <1>3 DEF MapOK, MuOK, IdsOK, RefsOK
<1>8. MapFindsSealedBlock'
  <2>1. \A o, off, b, s : Sealed(o, off, b, s) => Sealed(o, off, b, s)'
    BY <1>2 DEF Sealed
  <2>2. \A b \in DOMAIN live' : Sealed(live'[b].obj, live'[b].off, b, live'[b].seq)
    BY <1>1, <1>2, SavedMap DEF MapFindsSealedBlock
  <2>3. QED BY <1>1, <1>2, <2>1, <2>2 DEF MapFindsSealedBlock
<1>9. SavedOK'
  BY <1>1, <1>2, <1>3 DEF SavedOK
<1>10. QED BY <1>5, <1>6, <1>7, <1>8, <1>9 DEF IInv

\* The map after a reopen: what the checkpoint says, in runs.
LEMMA LoadedMap ==
    ASSUME IInv
    PROVE  /\ IsMap(Coalesce(live)) /\ Expand(Coalesce(live)) = live
           /\ \A e \in Coalesce(live) : IsExtent(e) /\ End(e) <= NumBlocks
           /\ \A e \in Coalesce(live), b \in Nat : Covers(e, b) =>
                  /\ b \in DOMAIN live /\ e.obj = live[b].obj
                  /\ OffsetAt(e, b) = live[b].off /\ SeqNumAt(e, b) = live[b].seq
                  /\ Sealed(e.obj, OffsetAt(e, b), b, SeqNumAt(e, b))
           /\ \A b \in DOMAIN live : Mapped(Coalesce(live), b)
<1> DEFINE N == NumBlocks - 1
<1>1. N \in Nat /\ N + 1 = NumBlocks
  BY BlockNumbers
<1>2. IsFlat(live, N)
  BY DEF IInv, Types
<1> HIDE DEF N
<1>3. IsMap(Coalesce(live))
  BY <1>1, <1>2, CoalesceIsMap
<1>4. \A e \in Coalesce(live) : End(e) <= N + 1
  BY <1>1, <1>2, CoalesceIsMap
<1>5. \A e \in Coalesce(live), b \in Nat : Covers(e, b) =>
         /\ b \in DOMAIN live /\ e.obj = live[b].obj
         /\ OffsetAt(e, b) = live[b].off /\ SeqNumAt(e, b) = live[b].seq
  BY <1>1, <1>2, CoalesceIsMap
<1>6. \A b \in DOMAIN live : Mapped(Coalesce(live), b)
  BY <1>1, <1>2, CoalesceIsMap
<1>7. Expand(Coalesce(live)) = live
  BY <1>1, <1>2, RoundTrip
<1>8. \A e \in Coalesce(live) : IsExtent(e)
  BY <1>3 DEF IsMap
<1>9. \A b \in DOMAIN live : Sealed(live[b].obj, live[b].off, b, live[b].seq)
  BY MapFacts
<1>10. \A e \in Coalesce(live), b \in Nat : Covers(e, b) =>
          Sealed(e.obj, OffsetAt(e, b), b, SeqNumAt(e, b))
  BY <1>5, <1>9
<1>11. QED BY <1>1, <1>3, <1>4, <1>5, <1>6, <1>7, <1>8, <1>10

\* A new open.
LEMMA ReopenKeeps ==
    ASSUME IInv, Reopen
    PROVE  IInv'
<1> DEFINE m == Coalesce(live)
<1>1. Types /\ MuOK /\ IdsOK /\ JobsOK /\ MapFindsSealedBlock
  BY DEF IInv
<1>2. /\ lookup' = m /\ refs' = Tally(lookup') /\ draining = FALSE /\ dirty = FALSE
      /\ objNum' = Max({objNum} \cup {live[b].obj + 1 : b \in DOMAIN live})
      /\ UNCHANGED <<dirty, mapMu, chunks, live, draining, jobs, failed, seqNum, reserved, wal,
                     newest, unsent, skipped>>
  <2>1. dirty \in BOOLEAN /\ draining \in BOOLEAN
    BY <1>1 DEF Types
  <2>2. QED BY <2>1 DEF Reopen, drainVars, writeVars, ghostVars
<1>3. jobs = {} /\ mapMu = {}
  BY <1>1, <1>2 DEF JobsOK, MuOK
<1>4. IsMap(m) /\ Expand(m) = live
  BY LoadedMap
<1>5. \A e \in m : IsExtent(e) /\ End(e) <= NumBlocks
  BY LoadedMap
<1>6. \A e \in m, b \in Nat : Covers(e, b) =>
         /\ b \in DOMAIN live /\ e.obj = live[b].obj
         /\ Sealed(e.obj, OffsetAt(e, b), b, SeqNumAt(e, b))
  BY LoadedMap
<1>7. \A b \in DOMAIN live : Sealed(live[b].obj, live[b].off, b, live[b].seq)
  BY MapFacts
<1> HIDE DEF m
<1>8. objNum \in Nat
  BY <1>1 DEF Types
<1>9. \A b \in DOMAIN live : live[b].obj \in Nat /\ live[b].obj < objNum
  BY <1>1, <1>7 DEF Sealed, IdsOK
<1>10. objNum' = objNum
  <2> DEFINE S == {objNum} \cup {live[b].obj + 1 : b \in DOMAIN live}
  <2>1. \A y \in S : y \in Nat /\ y <= objNum
    BY <1>8, <1>9
  <2>2. objNum \in S
    OBVIOUS
  <2> HIDE DEF S
  <2>3. \A x \in S : (\A y \in S : x >= y) <=> x = objNum
    BY <1>8, <2>1, <2>2
  <2>4. Max(S) = objNum
    BY <2>2, <2>3 DEF Max
  <2>5. QED BY <1>2, <2>4 DEF S
<1>11. Types'
  BY <1>1, <1>2, <1>10 DEF Types
<1>12. MapOK'
  BY <1>2, <1>4, <1>5 DEF MapOK
<1>13. JobsOK' /\ MuOK'
  BY <1>2, <1>3 DEF JobsOK, JobsApart, MuOK
<1>14. RefsOK'
  BY <1>2, TallyExact DEF RefsOK
<1>15. IdsOK'
  <2>1. ASSUME NEW e \in m PROVE e.obj \in Nat /\ e.obj < objNum
    <3>1. e.start \in Nat /\ e.start < End(e) /\ End(e) \in Nat
      BY <1>5, ExtentType
    <3>2. Covers(e, e.start)
      BY <3>1 DEF Covers
    <3>3. QED BY <1>6, <1>9, <3>1, <3>2
  <2>2. /\ DOMAIN Tally(m) = {e.obj : e \in m}
        /\ \A o \in DOMAIN Tally(m) : Tally(m)[o] = CountOf(m, o)
    BY DEF Tally
  <2>3. NumBlocks \in Nat
    BY BlockNumbers
  <2>4. IsFiniteSet(m)
    BY <1>4, <1>5, <2>3, MapFinite
  <2>5. \A o : CountOf(m, o) \in Nat
    <3> TAKE o
    <3>1. IsFiniteSet({e \in m : e.obj = o})
      BY <2>4, FS_Subset
    <3>2. QED BY <3>1, FS_CardinalityType DEF CountOf
  <2>6. \A o \in DOMAIN refs' : o \in Nat /\ o < objNum' /\ refs'[o] \in Nat
    BY <1>2, <1>10, <2>1, <2>2, <2>5
  <2>7. QED BY <1>1, <1>2, <1>10, <2>6 DEF IdsOK
<1>16. MapFindsSealedBlock'
  <2>1. \A o, off, b, s : Sealed(o, off, b, s) => Sealed(o, off, b, s)'
    BY <1>2 DEF Sealed
  <2>2. \A e \in m : \A b \in e.start..(End(e) - 1) :
           Sealed(e.obj, OffsetAt(e, b), b, SeqNumAt(e, b))
    BY <1>5, <1>6, MapSealed
  <2>3. QED BY <1>2, <1>7, <2>1, <2>2 DEF MapFindsSealedBlock
<1>17. SavedOK'
  BY <1>2, <1>4 DEF SavedOK
<1>18. QED BY <1>11, <1>12, <1>13, <1>14, <1>15, <1>16, <1>17 DEF IInv

\* Every step keeps IInv.
LEMMA StepIInv ==
    ASSUME IInv, [Next]_vars
    PROVE  IInv'
<1>1. ASSUME NEW b \in Blocks, ReserveSeqNum(b) \/ AppendWrite(b) PROVE IInv'
  BY <1>1, WritesKeep
<1>2. CASE Rotate
  BY <1>2, RotateKeeps
<1>3. ASSUME NEW j \in jobs, TakeJob(j) \/ DropJob(j) \/ PutChunk(j) \/ ApplyRun(j) PROVE IInv'
  BY <1>3, TakeJobKeeps, DropJobKeeps, PutChunkKeeps, ApplyRunKeeps
<1>4. CASE FinishDrain
  BY <1>4, FinishDrainKeeps
<1>5. CASE Reopen
  BY <1>5, ReopenKeeps
<1>6. CASE UNCHANGED vars
  <2>1. Types'
    BY <1>6 DEF IInv, Types, vars, mapVars, drainVars, writeVars, ghostVars
  <2>2. UNCHANGED <<mapVars, objNum, chunks, live, drainVars>>
    BY <1>6 DEF vars
  <2>3. QED BY <2>1, <2>2, WriteStep
<1>7. QED BY <1>1, <1>2, <1>3, <1>4, <1>5, <1>6 DEF Next

\* What IInv says of the properties.
LEMMA IInvImplies ==
    ASSUME IInv
    PROVE  TypeOK /\ ExtentsDisjoint /\ MapFindsSealedBlock /\ RefcountExact
           /\ CheckpointRoundTrip
<1>1. Types /\ MuOK /\ IdsOK /\ RefsOK /\ JobsOK /\ MapFindsSealedBlock
  BY DEF IInv
<1>2. IsMap(lookup) /\ \A e \in lookup : IsExtent(e) /\ End(e) <= NumBlocks
  BY MapFacts
<1>3. \A e \in lookup : e \in Extent /\ Len(e.seqs) > 0
  <2> TAKE e \in lookup
  <2>1. /\ e \in [start : Nat, obj : Nat, off : Nat, seqs : Seq(Nat)] /\ Len(e.seqs) > 0
    BY <1>2 DEF IsExtent
  <2>2. e.start \in Nat /\ End(e) \in Nat /\ e.start < End(e) /\ End(e) <= NumBlocks
    BY <1>2, ExtentType
  <2>3. e.start \in Blocks
    BY <2>2, BlockNumbers
  <2>4. QED BY <2>1, <2>3 DEF Extent
<1>4. \A j \in jobs : /\ Records(j.chunk) /\ Records(j.todo) /\ DOMAIN j.todo # {}
                      /\ j.at \in {"queued", "put", "apply"} /\ j.id \in Nat
  <2> TAKE j \in jobs
  <2>1. j \in JobSet /\ JobOK(j)
    BY JobFacts
  <2>2. /\ j.chunk \in RecordMaps /\ j.todo \in RecordMaps /\ j.id \in Nat
        /\ j.at \in {"queued", "put", "apply"}
    BY <2>1, JobType
  <2>3. Records(j.chunk) /\ Records(j.todo)
    BY <2>2, RecordMapIs
  <2>4. QED BY <2>1, <2>2, <2>3 DEF JobOK
<1>5. Records(wal)
  BY <1>1, RecordMapIs DEF Types
<1>6. TypeOK
  BY <1>1, <1>2, <1>3, <1>4, <1>5 DEF TypeOK, Types, MuOK, IdsOK
<1>7. ExtentsDisjoint
  BY <1>2 DEF ExtentsDisjoint, IsMap, Apart
<1>8. RefcountExact
  <2>1. \A o \in 0..objNum : o \in Nat
    BY <1>1 DEF Types
  <2>2. QED BY <1>1, <2>1 DEF RefcountExact, RefsOK
<1>9. CheckpointRoundTrip
  <2>1. IsMap(Coalesce(live)) /\ Expand(Coalesce(live)) = live
    BY LoadedMap
  <2>2. QED BY <2>1 DEF CheckpointRoundTrip, IsMap, Apart
<1>10. QED BY <1>1, <1>6, <1>7, <1>8, <1>9

\* The invariant holds.
LEMMA Invariance == Spec => []IInv
<1>1. Init => IInv
  BY InitIInv
<1>2. IInv /\ [Next]_vars => IInv'
  BY StepIInv
<1>3. QED BY <1>1, <1>2, PTL DEF Spec

\* Type correctness of the block map, the drain and its jobs (BlocksToObject,
\* DrainToBackendCtx, createChunkFile), for every volume and chunk size.
THEOREM MapTypeCorrect == Spec => []TypeOK
<1>1. IInv => TypeOK
  BY IInvImplies
<1>2. QED BY <1>1, Invariance, PTL

\* No two entries of BlocksToObject ever cover the same block, whatever runs
\* are inserted and however entries are fractured (insertCoalescedLocked).
THEOREM MapKeepsExtentsApart == Spec => []ExtentsDisjoint
<1>1. IInv => ExtentsDisjoint
  BY IInvImplies
<1>2. QED BY <1>1, Invariance, PTL

\* The map and the live checkpoint send every block to a chunk object that
\* holds it at that offset under that SeqNum, through drains with failed
\* uploads, fractures, rejected runs and reopens (createChunkFile,
\* insertCoalescedLocked, coalesceBlockLookup).
THEOREM MapPointsAtSealedBlocks == Spec => []MapFindsSealedBlock
<1>1. IInv => MapFindsSealedBlock
  BY IInvImplies
<1>2. QED BY <1>1, Invariance, PTL

\* gcRefcount is the number of entries that point at each chunk: the clamp at
\* zero in insertCoalescedLocked never hides a lost count.
THEOREM RefcountsAreExact == Spec => []RefcountExact
<1>1. IInv => RefcountExact
  BY IInvImplies
<1>2. QED BY <1>1, Invariance, PTL

\* Whatever checkpoint a drain leaves behind, loading it gives the same records
\* in runs that do not overlap (expandBlockLookup, coalesceBlockLookup).
THEOREM CheckpointsRoundTrip == Spec => []CheckpointRoundTrip
<1>1. IInv => CheckpointRoundTrip
  BY IInvImplies
<1>2. QED BY <1>1, Invariance, PTL

-----------------------------------------------------------------------------
(* The order of each block's records: OInv, and the newest record wins.    *)

\* The numbers OInv compares.
LEMMA OrderTypes ==
    ASSUME IInv
    PROVE  /\ seqNum \in Nat /\ \A b \in Blocks : reserved[b] \in Nat /\ newest[b] \in Nat
           /\ DOMAIN wal \subseteq Blocks /\ \A b \in DOMAIN wal : wal[b] \in Nat
           /\ \A e \in lookup, b \in Nat : Covers(e, b) => SeqNumAt(e, b) \in Nat
           /\ \A j \in jobs : /\ DOMAIN j.chunk \subseteq Blocks /\ DOMAIN j.todo \subseteq Blocks
                              /\ DOMAIN j.todo \subseteq DOMAIN j.chunk
                              /\ \A b \in DOMAIN j.chunk : j.chunk[b] \in Nat
                              /\ \A b \in DOMAIN j.todo : j.todo[b] = j.chunk[b]
<1>1. Types
  BY DEF IInv
<1>2. seqNum \in Nat /\ \A b \in Blocks : reserved[b] \in Nat /\ newest[b] \in Nat
  BY <1>1 DEF Types
<1>3. DOMAIN wal \subseteq Blocks /\ \A b \in DOMAIN wal : wal[b] \in Nat
  BY <1>1, RecordMapIs DEF Types
<1>4. \A e \in lookup : IsExtent(e)
  BY MapFacts
<1>5. \A e \in lookup, b \in Nat : Covers(e, b) => SeqNumAt(e, b) \in Nat
  BY <1>4, ExtentType
<1>6. ASSUME NEW j \in jobs
      PROVE  /\ DOMAIN j.chunk \subseteq Blocks /\ DOMAIN j.todo \subseteq Blocks
             /\ DOMAIN j.todo \subseteq DOMAIN j.chunk
             /\ \A b \in DOMAIN j.chunk : j.chunk[b] \in Nat
             /\ \A b \in DOMAIN j.todo : j.todo[b] = j.chunk[b]
  <2>1. j.chunk \in RecordMaps /\ j.todo \in RecordMaps /\ JobOK(j)
    BY JobFacts
  <2>2. /\ DOMAIN j.chunk \subseteq Blocks /\ DOMAIN j.todo \subseteq Blocks
        /\ \A b \in DOMAIN j.chunk : j.chunk[b] \in Nat
    BY <2>1, RecordMapIs
  <2>3. QED BY <2>1, <2>2 DEF JobOK
<1>7. QED BY <1>2, <1>3, <1>5, <1>6

\* A new number is above all that were appended.
LEMMA ReserveKeepsOrder ==
    ASSUME IInv, OInv, NEW b \in Blocks, ReserveSeqNum(b)
    PROVE  OInv'
<1>1. /\ seqNum \in Nat /\ \A c \in Blocks : reserved[c] \in Nat /\ newest[c] \in Nat
  BY OrderTypes
<1>2. /\ seqNum' = seqNum + 1 /\ reserved' = [reserved EXCEPT ![b] = seqNum + 1]
      /\ UNCHANGED <<lookup, jobs, wal, newest, unsent, skipped>>
  BY DEF ReserveSeqNum, mapVars, drainVars, ghostVars
<1>3. reserved \in [Blocks -> Nat]
  BY DEF IInv, Types
<1>4. reserved'[b] = seqNum + 1 /\ \A c \in Blocks : c # b => reserved'[c] = reserved[c]
  BY <1>2, <1>3
<1>5. \A c \in Blocks : /\ reserved[c] <= seqNum /\ newest[c] <= seqNum
                        /\ reserved[c] # 0 => newest[c] < reserved[c]
  BY DEF OInv, WritesInOrder
<1>6. \A c \in Blocks : /\ reserved'[c] <= seqNum + 1 /\ newest[c] <= seqNum + 1
                        /\ reserved'[c] # 0 => newest[c] < reserved'[c]
  BY <1>1, <1>4, <1>5
<1>7. WritesInOrder'
  BY <1>2, <1>6 DEF OInv, WritesInOrder
<1>8. JobsInOrder' /\ MapInOrder' /\ NewestKept'
  BY <1>2 DEF OInv, JobsInOrder, MapInOrder, NewestKept
<1>9. QED BY <1>7, <1>8 DEF OInv

\* The record of a block is appended before its next number is reserved.
LEMMA AppendKeepsOrder ==
    ASSUME IInv, OInv, NEW b \in Blocks, AppendWrite(b)
    PROVE  OInv'
<1> DEFINE r == reserved[b]
<1>1. /\ seqNum \in Nat /\ \A c \in Blocks : reserved[c] \in Nat /\ newest[c] \in Nat
      /\ DOMAIN wal \subseteq Blocks /\ \A c \in DOMAIN wal : wal[c] \in Nat
      /\ \A j \in jobs : /\ DOMAIN j.chunk \subseteq Blocks
                         /\ \A c \in DOMAIN j.chunk : j.chunk[c] \in Nat
  BY OrderTypes
<1>2. reserved \in [Blocks -> Nat] /\ newest \in [Blocks -> Nat]
  BY DEF IInv, Types
<1>3. /\ r # 0 /\ wal' = Dedup(wal, b, r) /\ reserved' = [reserved EXCEPT ![b] = 0]
      /\ newest' = [newest EXCEPT ![b] = r] /\ UNCHANGED <<lookup, jobs, seqNum, unsent, skipped>>
  BY DEF AppendWrite, mapVars, drainVars
<1>4. r \in Nat /\ newest[b] < r /\ r <= seqNum
  BY <1>1, <1>3 DEF OInv, WritesInOrder
<1>5. reserved'[b] = 0 /\ \A c \in Blocks : c # b => reserved'[c] = reserved[c]
  BY <1>2, <1>3
<1>6. newest'[b] = r /\ \A c \in Blocks : c # b => newest'[c] = newest[c]
  BY <1>2, <1>3
<1>7. \A c \in DOMAIN wal : wal[c] = newest[c]
  BY DEF OInv, WritesInOrder
<1>8. wal' = With(wal, b, r)
  <2>1. ~(b \in DOMAIN wal /\ wal[b] >= r)
    BY <1>1, <1>4, <1>7
  <2>2. QED BY <1>3, <2>1 DEF Dedup
<1>9. /\ DOMAIN wal' = DOMAIN wal \cup {b} /\ wal'[b] = r
      /\ \A c \in DOMAIN wal : c # b => wal'[c] = wal[c]
  BY <1>8 DEF With
<1> HIDE DEF r
<1>10. WritesInOrder'
  <2>1. \A c \in Blocks : /\ reserved'[c] <= seqNum /\ newest'[c] <= seqNum
                          /\ reserved'[c] # 0 => newest'[c] < reserved'[c]
    <3> TAKE c \in Blocks
    <3>1. /\ reserved[c] <= seqNum /\ newest[c] <= seqNum
          /\ reserved[c] # 0 => newest[c] < reserved[c]
      BY DEF OInv, WritesInOrder
    <3>2. CASE c = b
      BY <1>1, <1>4, <1>5, <1>6, <3>2
    <3>3. CASE c # b
      BY <1>5, <1>6, <3>1, <3>3
    <3>4. QED BY <3>2, <3>3
  <2>2. \A c \in DOMAIN wal' : wal'[c] = newest'[c]
    BY <1>1, <1>6, <1>7, <1>9
  <2>3. QED BY <1>3, <2>1, <2>2 DEF WritesInOrder
<1>11. JobsInOrder'
  <2>1. ASSUME NEW j \in jobs, NEW c \in DOMAIN j.chunk
        PROVE  /\ j.chunk[c] <= newest'[c]
               /\ c \in DOMAIN wal' \/ j.chunk[c] = newest'[c]
               /\ c \in DOMAIN wal' => j.chunk[c] < wal'[c]
    <3>1. /\ c \in Blocks /\ j.chunk[c] \in Nat /\ newest[c] \in Nat
      BY <1>1
    <3>2. /\ j.chunk[c] <= newest[c]
          /\ c \in DOMAIN wal \/ j.chunk[c] = newest[c]
          /\ c \in DOMAIN wal => j.chunk[c] < wal[c]
      BY DEF OInv, JobsInOrder
    <3>3. CASE c = b
      BY <1>4, <1>6, <1>9, <3>1, <3>2, <3>3
    <3>4. CASE c # b
      BY <1>6, <1>9, <3>1, <3>2, <3>4
    <3>5. QED BY <3>3, <3>4
  <2>2. QED BY <1>3, <2>1 DEF JobsInOrder
<1>12. MapInOrder'
  <2>1. ASSUME NEW e \in lookup, NEW c \in Blocks, Covers(e, c)
        PROVE  /\ SeqNumAt(e, c) <= newest'[c]
               /\ c \in DOMAIN wal' => SeqNumAt(e, c) < wal'[c]
               /\ \A j \in jobs : c \in DOMAIN j.todo => SeqNumAt(e, c) < j.todo[c]
    <3>1. /\ SeqNumAt(e, c) <= newest[c]
          /\ c \in DOMAIN wal => SeqNumAt(e, c) < wal[c]
          /\ \A j \in jobs : c \in DOMAIN j.todo => SeqNumAt(e, c) < j.todo[c]
      BY <2>1 DEF OInv, MapInOrder
    <3>2. SeqNumAt(e, c) \in Nat /\ newest[c] \in Nat
      BY <1>1, <2>1, OrderTypes, BlockNumbers
    <3>3. CASE c = b
      BY <1>4, <1>6, <1>9, <3>1, <3>2, <3>3
    <3>4. CASE c # b
      BY <1>6, <1>9, <3>1, <3>4
    <3>5. QED BY <3>3, <3>4
  <2>2. QED BY <1>3, <2>1 DEF MapInOrder
<1>13. NewestKept'
  <2>1. ASSUME NEW c \in Blocks \ (DOMAIN wal' \cup unsent \cup skipped), newest'[c] # 0
        PROVE  \/ \E j \in jobs : c \in DOMAIN j.todo
               \/ Mapped(lookup, c) /\ SeqNumAt(Resolve(lookup, c), c) = newest'[c]
    <3>1. /\ c # b /\ c \in Blocks \ (DOMAIN wal \cup unsent \cup skipped)
          /\ newest'[c] = newest[c]
      BY <1>6, <1>9
    <3>2. QED BY <2>1, <3>1 DEF OInv, NewestKept
  <2>2. QED BY <1>3, <2>1 DEF NewestKept
<1>14. QED BY <1>10, <1>11, <1>12, <1>13 DEF OInv

\* The rotated records are newer than what is mapped.
LEMMA RotateKeepsOrder ==
    ASSUME IInv, OInv, Rotate
    PROVE  OInv'
<1>1. wal \in RecordMaps /\ DOMAIN wal # {} /\ jobs' = Jobs(wal) /\ wal' = Empty
  BY DEF IInv, Types, Rotate
<1>2. jobs = {}
  BY DEF IInv, JobsOK, Rotate
<1>3. UNCHANGED <<lookup, seqNum, reserved, newest, unsent, skipped>>
  BY DEF Rotate, mapVars, ghostVars
<1>4. DOMAIN wal' = {}
  BY <1>1, EmptyIs
<1>5. \A j \in jobs' : /\ j.todo = j.chunk /\ DOMAIN j.chunk \subseteq DOMAIN wal
                       /\ \A b \in DOMAIN j.chunk : j.chunk[b] = wal[b]
  BY <1>1, JobsOf
<1>6. \A b \in DOMAIN wal : \E j \in jobs' : b \in DOMAIN j.chunk
  BY <1>1, JobsOf
<1>7. \A b \in DOMAIN wal : b \in Blocks /\ wal[b] = newest[b] /\ newest[b] \in Nat
  BY OrderTypes DEF OInv, WritesInOrder
<1>8. WritesInOrder'
  BY <1>3, <1>4 DEF OInv, WritesInOrder
<1>9. JobsInOrder'
  <2>1. ASSUME NEW j \in jobs', NEW b \in DOMAIN j.chunk
        PROVE  j.chunk[b] <= newest[b] /\ j.chunk[b] = newest[b]
    BY <1>5, <1>7
  <2>2. QED BY <1>3, <1>4, <2>1 DEF JobsInOrder
<1>10. MapInOrder'
  <2>1. ASSUME NEW e \in lookup, NEW b \in Blocks, Covers(e, b)
        PROVE  /\ SeqNumAt(e, b) <= newest[b]
               /\ \A j \in jobs' : b \in DOMAIN j.todo => SeqNumAt(e, b) < j.todo[b]
    <3>1. /\ SeqNumAt(e, b) <= newest[b]
          /\ b \in DOMAIN wal => SeqNumAt(e, b) < wal[b]
      BY <2>1 DEF OInv, MapInOrder
    <3>2. QED BY <1>5, <3>1
  <2>2. QED BY <1>3, <1>4, <2>1 DEF MapInOrder
<1>11. NewestKept'
  <2>1. ASSUME NEW b \in Blocks \ (unsent \cup skipped), newest[b] # 0
        PROVE  \/ \E j \in jobs' : b \in DOMAIN j.todo
               \/ Mapped(lookup, b) /\ SeqNumAt(Resolve(lookup, b), b) = newest[b]
    <3>1. CASE b \in DOMAIN wal
      BY <1>5, <1>6, <3>1
    <3>2. CASE b \notin DOMAIN wal
      BY <1>2, <2>1, <3>2 DEF OInv, NewestKept
    <3>3. QED BY <3>1, <3>2
  <2>2. QED BY <1>3, <2>1 DEF NewestKept
<1>12. QED BY <1>8, <1>9, <1>10, <1>11 DEF OInv

\* A step that leaves the map and the writers alone and only moves jobs on,
\* ends them or takes blocks out of unsent that are still to be applied.
LEMMA JobsKeepOrder ==
    ASSUME IInv, OInv, UNCHANGED <<lookup, seqNum, reserved, wal, newest, skipped>>,
           \A k \in jobs' : \E j \in jobs : k.chunk = j.chunk /\ k.todo = j.todo,
           \A b \in Blocks \ unsent' :
              \/ \E k \in jobs' : b \in DOMAIN k.todo
              \/ b \notin unsent /\ \A j \in jobs : b \notin DOMAIN j.todo
    PROVE  OInv'
<1>1. WritesInOrder'
  BY DEF OInv, WritesInOrder
<1>2. JobsInOrder'
  BY DEF OInv, JobsInOrder
<1>3. MapInOrder'
  BY DEF OInv, MapInOrder
<1>4. NewestKept'
  BY DEF OInv, NewestKept
<1>5. QED BY <1>1, <1>2, <1>3, <1>4 DEF OInv

\* Taking, dropping and uploading jobs.
LEMMA UploadsKeepOrder ==
    ASSUME IInv, OInv, NEW j \in jobs, TakeJob(j) \/ DropJob(j) \/ PutChunk(j)
    PROVE  OInv'
<1>1. /\ j \in JobSet /\ JobOK(j) /\ objNum \in Nat
  BY JobFacts
<1>2. DOMAIN j.todo \subseteq DOMAIN j.chunk /\ (j.at # "apply" => j.todo = j.chunk)
  BY <1>1 DEF JobOK
<1>3. UNCHANGED <<lookup, seqNum, reserved, wal, newest, skipped>>
  BY DEF TakeJob, DropJob, PutChunk, mapVars, writeVars, ghostVars
<1>4. CASE TakeJob(j)
  <2>1. PICK k : k = [j EXCEPT !.at = "put", !.id = objNum]
    OBVIOUS
  <2>2. k.chunk = j.chunk /\ k.todo = j.todo
    BY <1>1, <2>1 DEF JobSet
  <2>3. jobs' = (jobs \ {j}) \cup {k} /\ unsent' = unsent
    BY <1>4, <2>1 DEF TakeJob, ghostVars
  <2>4. \A i \in jobs' : \E x \in jobs : i.chunk = x.chunk /\ i.todo = x.todo
    BY <2>2, <2>3
  <2>5. \A x \in jobs : \E i \in jobs' : i.todo = x.todo
    BY <2>2, <2>3
  <2>6. QED BY <1>3, <2>3, <2>4, <2>5, JobsKeepOrder
<1>5. CASE jobs' = jobs \ {j} /\ unsent' = unsent \cup DOMAIN j.chunk
  <2>1. \A i \in jobs' : \E x \in jobs : i.chunk = x.chunk /\ i.todo = x.todo
    BY <1>5
  <2>2. ASSUME NEW b \in Blocks \ unsent'
        PROVE  \/ \E k \in jobs' : b \in DOMAIN k.todo
               \/ b \notin unsent /\ \A i \in jobs : b \notin DOMAIN i.todo
    <3>1. b \notin unsent /\ b \notin DOMAIN j.todo
      BY <1>2, <1>5
    <3>2. QED BY <1>5, <3>1
  <2>3. QED BY <1>3, <2>1, <2>2, JobsKeepOrder
<1>6. CASE /\ jobs' = (jobs \ {j}) \cup {[j EXCEPT !.at = "apply"]}
           /\ unsent' = unsent \ DOMAIN j.chunk /\ j.at = "put"
  <2>1. PICK k : k = [j EXCEPT !.at = "apply"]
    OBVIOUS
  <2>2. k.chunk = j.chunk /\ k.todo = j.todo
    BY <1>1, <2>1 DEF JobSet
  <2>3. jobs' = (jobs \ {j}) \cup {k}
    BY <1>6, <2>1
  <2>4. \A i \in jobs' : \E x \in jobs : i.chunk = x.chunk /\ i.todo = x.todo
    BY <2>2, <2>3
  <2>5. ASSUME NEW b \in Blocks \ unsent'
        PROVE  \/ \E i \in jobs' : b \in DOMAIN i.todo
               \/ b \notin unsent /\ \A i \in jobs : b \notin DOMAIN i.todo
    <3>1. CASE b \in DOMAIN j.chunk
      BY <1>2, <1>6, <2>2, <2>3, <3>1
    <3>2. CASE b \notin DOMAIN j.chunk
      <4>1. b \notin unsent
        BY <1>6, <3>2
      <4>2. \A x \in jobs : \E i \in jobs' : i.todo = x.todo
        BY <2>2, <2>3
      <4>3. QED BY <4>1, <4>2
    <3>3. QED BY <3>1, <3>2
  <2>6. QED BY <1>3, <2>4, <2>5, JobsKeepOrder
<1>7. QED BY <1>4, <1>5, <1>6 DEF DropJob, PutChunk

\* A run is found stale only by the number of another block: what is mapped of
\* its own first block is from an earlier drain.
LEMMA StaleMisread ==
    ASSUME IInv, OInv, NEW j \in jobs, j.at = "apply", Stale(lookup, Entry(j))
    PROVE  Misread(lookup, Entry(j))
<1> DEFINE n == Entry(j)
           e == Resolve(lookup, n.start)
<1>1. /\ n.start \in Run(j) /\ Run(j) \subseteq DOMAIN j.todo /\ n.seqs[1] = j.todo[n.start]
      /\ n.start \in Nat
  BY EntryFacts
<1>2. Mapped(lookup, n.start) /\ e.seqs[1] >= n.seqs[1]
  BY DEF Stale
<1>3. SUFFICES ASSUME e.start = n.start PROVE FALSE
  BY DEF Misread
<1> HIDE DEF n
<1>4. e \in lookup /\ Covers(e, n.start)
  BY <1>2 DEF Mapped, Resolve
<1>5. n.start \in DOMAIN j.todo /\ n.start \in Blocks
  BY <1>1, OrderTypes
<1> HIDE DEF e
<1>6. SeqNumAt(e, n.start) < j.todo[n.start]
  BY <1>4, <1>5 DEF OInv, MapInOrder
<1>7. SeqNumAt(e, n.start) = e.seqs[1]
  <2>1. (n.start - e.start) + 1 = 1
    BY <1>1, <1>3
  <2>2. QED BY <2>1 DEF SeqNumAt
<1>8. SeqNumAt(e, n.start) \in Nat /\ j.todo[n.start] \in Nat
  BY <1>1, <1>4, <1>5, OrderTypes
<1>9. QED BY <1>1, <1>2, <1>6, <1>7, <1>8

\* What a run does to the map: it is skipped with its blocks, or its blocks
\* resolve to it with newer numbers and the others keep theirs.
LEMMA RunResolves ==
    ASSUME IInv, OInv, NEW j \in jobs, ApplyRun(j), NEW b \in Blocks
    PROVE  \/ /\ lookup' = lookup /\ skipped' = skipped \cup Run(j)
           \/ /\ skipped' = skipped \ Run(j)
              /\ b \in Run(j) => /\ Mapped(lookup', b)
                                 /\ SeqNumAt(Resolve(lookup', b), b) = j.todo[b]
                                 /\ Mapped(lookup, b) =>
                                        SeqNumAt(Resolve(lookup, b), b) < j.todo[b]
              /\ b \notin Run(j) /\ Mapped(lookup, b) =>
                     /\ Mapped(lookup', b)
                     /\ SeqNumAt(Resolve(lookup', b), b) = SeqNumAt(Resolve(lookup, b), b)
<1> DEFINE n == Entry(j)
           m == lookup
           I == Insert(m, n)
<1>0. b \in Nat
  BY BlockNumbers
<1>1. j.at = "apply"
  BY ApplyRunIs
<1>2. CASE Stale(lookup, n)
  BY <1>1, <1>2, ApplyRunIs, StaleMisread
<1>3. CASE ~Stale(lookup, n)
  <2>1. lookup' = I /\ skipped' = skipped \ Run(j)
    BY <1>3, ApplyRunIs
  <2>2. IsMap(m) /\ \A e \in m : IsExtent(e)
    BY MapFacts
  <2>3. IsExtent(n) /\ (Covers(n, b) <=> b \in Run(j)) /\ Run(j) \subseteq DOMAIN j.todo
    BY <1>0, <1>1, EntryFacts
  <2>4. b \in Run(j) => SeqNumAt(n, b) = j.todo[b]
    BY <1>1, EntryFacts
  <2>5. Mapped(m, b) => Resolve(m, b) \in m /\ Covers(Resolve(m, b), b)
    BY DEF Mapped, Resolve
  <2>6. ASSUME b \in Run(j), Mapped(m, b) PROVE SeqNumAt(Resolve(m, b), b) < j.todo[b]
    BY <2>3, <2>5, <2>6 DEF OInv, MapInOrder
  <2> HIDE DEF n, m
  <2>7. Covers(n, b) => Mapped(I, b) /\ Resolve(I, b) = n
    BY <1>0, <2>2, <2>3, InsertResolves
  <2>8. ASSUME ~Covers(n, b), Mapped(m, b)
        PROVE  /\ Mapped(I, b) /\ IsExtent(Resolve(m, b)) /\ IsExtent(Resolve(I, b))
               /\ Piece(Resolve(I, b), Resolve(m, b)) /\ Covers(Resolve(I, b), b)
    <3>1. Mapped(I, b) /\ IsExtent(Resolve(m, b))
      BY <1>0, <2>2, <2>3, <2>8, InsertResolves
    <3>2. IsExtent(Resolve(I, b)) /\ Piece(Resolve(I, b), Resolve(m, b))
      BY <1>0, <2>2, <2>3, <2>8, InsertResolves
    <3>3. Covers(Resolve(I, b), b)
      BY <1>0, <2>2, <2>3, <2>8, InsertResolves
    <3>4. QED BY <3>1, <3>2, <3>3
  <2>9. ASSUME ~Covers(n, b), Mapped(m, b)
        PROVE  Mapped(I, b) /\ SeqNumAt(Resolve(I, b), b) = SeqNumAt(Resolve(m, b), b)
    <3> HIDE DEF I
    <3>1. QED BY <1>0, <2>8, <2>9, PieceFacts
  <2>10. QED BY <2>1, <2>3, <2>4, <2>6, <2>7, <2>9 DEF m
<1>4. QED BY <1>2, <1>3

\* A run is applied.
LEMMA ApplyRunKeepsOrder ==
    ASSUME IInv, OInv, NEW j \in jobs, ApplyRun(j)
    PROVE  OInv'
<1> DEFINE n == Entry(j)
<1>1. j.at = "apply" /\ UNCHANGED <<seqNum, reserved, wal, newest, unsent>>
  BY ApplyRunIs
<1>3. /\ j \in JobSet /\ j.chunk \in RecordMaps
      /\ \A i \in jobs \ {j} : DOMAIN i.chunk \cap DOMAIN j.chunk = {}
  BY JobFacts
<1>4. /\ \A i \in jobs : /\ DOMAIN i.todo \subseteq DOMAIN i.chunk /\ DOMAIN i.todo \subseteq Blocks
                         /\ \A b \in DOMAIN i.todo : i.todo[b] = i.chunk[b]
  BY OrderTypes
<1>5. /\ Rest(j) \in RecordMaps /\ DOMAIN Rest(j) = DOMAIN j.todo \ Run(j)
      /\ \A b \in DOMAIN Rest(j) : Rest(j)[b] = j.todo[b]
  BY RestIs
<1>6. /\ Run(j) \subseteq DOMAIN j.todo /\ IsExtent(n)
      /\ \A b \in Nat : Covers(n, b) <=> b \in Run(j)
      /\ \A b \in Run(j) : SeqNumAt(n, b) = j.todo[b]
  BY <1>1, EntryFacts
<1>7. PICK k : k = [j EXCEPT !.todo = Rest(j)]
  OBVIOUS
<1>8. k.chunk = j.chunk /\ k.todo = Rest(j)
  BY <1>3, <1>5, <1>7 DEF JobSet
<1>9. \/ DOMAIN Rest(j) = {} /\ jobs' = jobs \ {j}
      \/ DOMAIN Rest(j) # {} /\ jobs' = (jobs \ {j}) \cup {k}
  BY <1>7, ApplyRunIs
<1>10. \A i \in jobs' : \E x \in jobs : i.chunk = x.chunk
  BY <1>8, <1>9
<1>11. \A i \in jobs' : \E x \in jobs :
          /\ DOMAIN i.todo \subseteq DOMAIN x.todo /\ \A c \in DOMAIN i.todo : i.todo[c] = x.todo[c]
  <2> TAKE i \in jobs'
  <2>1. CASE i \in jobs
    BY <2>1
  <2>2. CASE i = k
    BY <1>5, <1>8, <2>2
  <2>3. QED BY <1>9, <2>1, <2>2
<1>12. \A i \in jobs' : DOMAIN i.todo \cap Run(j) = {}
  <2> TAKE i \in jobs'
  <2>1. CASE i \in jobs \ {j}
    BY <1>3, <1>4, <1>6, <2>1
  <2>2. CASE i = k
    BY <1>5, <1>8, <2>2
  <2>3. QED BY <1>9, <2>1, <2>2
<1>13. WritesInOrder'
  BY <1>1 DEF OInv, WritesInOrder
<1>14. JobsInOrder'
  BY <1>1, <1>10 DEF OInv, JobsInOrder
<1>15. MapInOrder'
  <2>1. ASSUME NEW f \in lookup', NEW b \in Blocks, Covers(f, b)
        PROVE  /\ SeqNumAt(f, b) <= newest[b]
               /\ b \in DOMAIN wal => SeqNumAt(f, b) < wal[b]
               /\ \A i \in jobs' : b \in DOMAIN i.todo => SeqNumAt(f, b) < i.todo[b]
    <3>0. b \in Nat
      BY BlockNumbers
    <3>1. CASE f = n
      <4>1. b \in Run(j) /\ b \in DOMAIN j.todo /\ b \in DOMAIN j.chunk
        BY <1>4, <1>6, <2>1, <3>0, <3>1
      <4>2. SeqNumAt(f, b) = j.chunk[b]
        BY <1>4, <1>6, <3>1, <4>1
      <4>3. j.chunk[b] <= newest[b] /\ (b \in DOMAIN wal => j.chunk[b] < wal[b])
        BY <4>1 DEF OInv, JobsInOrder
      <4>4. \A i \in jobs' : b \notin DOMAIN i.todo
        BY <1>12, <4>1
      <4>5. QED BY <4>2, <4>3, <4>4
    <3>2. ASSUME NEW e \in lookup, Piece(f, e)
          PROVE  /\ SeqNumAt(f, b) <= newest[b]
                 /\ b \in DOMAIN wal => SeqNumAt(f, b) < wal[b]
                 /\ \A i \in jobs' : b \in DOMAIN i.todo => SeqNumAt(f, b) < i.todo[b]
      <4>1. IsExtent(e) /\ IsExtent(f)
        BY MapFacts, MapAfterRun
      <4>2. Covers(e, b) /\ SeqNumAt(f, b) = SeqNumAt(e, b)
        BY <2>1, <3>0, <3>2, <4>1, PieceFacts
      <4>3. /\ SeqNumAt(e, b) <= newest[b]
            /\ b \in DOMAIN wal => SeqNumAt(e, b) < wal[b]
            /\ \A x \in jobs : b \in DOMAIN x.todo => SeqNumAt(e, b) < x.todo[b]
        BY <4>2 DEF OInv, MapInOrder
      <4>4. ASSUME NEW i \in jobs', b \in DOMAIN i.todo PROVE SeqNumAt(e, b) < i.todo[b]
        <5>1. PICK x \in jobs : b \in DOMAIN x.todo /\ i.todo[b] = x.todo[b]
          BY <1>11, <4>4
        <5>2. QED BY <4>3, <5>1
      <4>5. QED BY <4>2, <4>3, <4>4
    <3>3. QED BY <3>1, <3>2, MapAfterRun
  <2>2. QED BY <1>1, <2>1 DEF MapInOrder
<1>16. NewestKept'
  <2>1. ASSUME NEW b \in Blocks \ (DOMAIN wal \cup unsent \cup skipped'), newest[b] # 0
        PROVE  \/ \E i \in jobs' : b \in DOMAIN i.todo
               \/ Mapped(lookup', b) /\ SeqNumAt(Resolve(lookup', b), b) = newest[b]
    <3>1. CASE b \in Run(j)
      <4>1. b \in DOMAIN j.todo /\ b \in DOMAIN j.chunk /\ j.todo[b] = j.chunk[b]
        BY <1>4, <1>6, <3>1
      <4>2. j.chunk[b] = newest[b]
        BY <2>1, <4>1 DEF OInv, JobsInOrder
      <4>3. Mapped(lookup', b) /\ SeqNumAt(Resolve(lookup', b), b) = j.todo[b]
        BY <2>1, <3>1, RunResolves
      <4>4. QED BY <4>1, <4>2, <4>3
    <3>2. CASE b \notin Run(j)
      <4>1. CASE b \in DOMAIN j.todo
        <5>1. b \in DOMAIN Rest(j)
          BY <1>5, <3>2, <4>1
        <5>2. k \in jobs' /\ b \in DOMAIN k.todo
          BY <1>8, <1>9, <5>1
        <5>3. QED BY <5>2
      <4>2. ASSUME NEW i \in jobs, i # j, b \in DOMAIN i.todo PROVE i \in jobs'
        BY <1>9, <4>2
      <4>3. CASE Mapped(lookup, b) /\ SeqNumAt(Resolve(lookup, b), b) = newest[b]
        <5>1. Mapped(lookup', b)
              /\ SeqNumAt(Resolve(lookup', b), b) = SeqNumAt(Resolve(lookup, b), b)
          BY <3>2, <4>3, RunResolves
        <5>2. QED BY <4>3, <5>1
      <4>4. b \notin skipped
        BY <2>1, <3>2, RunResolves
      <4>5. \/ \E i \in jobs : b \in DOMAIN i.todo
            \/ Mapped(lookup, b) /\ SeqNumAt(Resolve(lookup, b), b) = newest[b]
        BY <2>1, <4>4 DEF OInv, NewestKept
      <4>6. QED BY <4>1, <4>2, <4>3, <4>5
    <3>3. QED BY <3>1, <3>2
  <2>2. QED BY <1>1, <2>1 DEF NewestKept
<1>17. QED BY <1>13, <1>14, <1>15, <1>16 DEF OInv

\* A reopen gives every block the record it had.
LEMMA ReopenResolves ==
    ASSUME IInv, Reopen, NEW b \in Nat
    PROVE  /\ Mapped(lookup, b) =>
                  /\ Mapped(lookup', b)
                  /\ SeqNumAt(Resolve(lookup', b), b) = SeqNumAt(Resolve(lookup, b), b)
           /\ \A e \in lookup' : Covers(e, b) =>
                  /\ Mapped(lookup, b) /\ SeqNumAt(e, b) = SeqNumAt(Resolve(lookup, b), b)
<1>1. lookup' = Coalesce(live) /\ ~draining /\ ~dirty
  BY DEF Reopen
<1>2. mapMu = {}
  BY <1>1 DEF IInv, JobsOK, MuOK
<1>3. live = Expand(lookup)
  BY <1>1, <1>2 DEF IInv, SavedOK
<1> DEFINE N == NumBlocks - 1
<1>4. N \in Nat /\ N + 1 = NumBlocks
  BY BlockNumbers
<1> HIDE DEF N
<1>5. IsMap(lookup) /\ \A e \in lookup : End(e) <= N + 1
  BY <1>4, MapFacts
<1>6. DOMAIN live = MappedBlocks(lookup)
  BY <1>3, <1>4, <1>5, ExpandIs
<1>7. \A c \in DOMAIN live : live[c].seq = SeqNumAt(Resolve(lookup, c), c)
  BY <1>3, <1>4, <1>5, ExpandIs
<1>8. b \in DOMAIN live <=> Mapped(lookup, b)
  BY <1>5, <1>6, MappedBlocksIs
<1>9. \A e \in lookup' : Covers(e, b) => b \in DOMAIN live /\ SeqNumAt(e, b) = live[b].seq
  BY <1>1, LoadedMap
<1>10. \A c \in DOMAIN live : Mapped(lookup', c)
  BY <1>1, LoadedMap
<1>11. Mapped(lookup', b) => Resolve(lookup', b) \in lookup' /\ Covers(Resolve(lookup', b), b)
  BY DEF Mapped, Resolve
<1>12. QED BY <1>7, <1>8, <1>9, <1>10, <1>11

\* The end of a drain and a reopen.
LEMMA EndsKeepOrder ==
    ASSUME IInv, OInv, FinishDrain \/ Reopen
    PROVE  OInv'
<1>1. jobs' = jobs /\ UNCHANGED <<seqNum, reserved, wal, newest, unsent, skipped>>
  BY DEF FinishDrain, Reopen, drainVars, writeVars, ghostVars
<1>2. jobs = {}
  BY DEF FinishDrain, Reopen, IInv, JobsOK
<1>4. WritesInOrder'
  BY <1>1 DEF OInv, WritesInOrder
<1>5. JobsInOrder'
  BY <1>1, <1>2 DEF JobsInOrder
<1>6. CASE FinishDrain
  <2>1. lookup' = lookup
    BY <1>6 DEF FinishDrain
  <2>2. MapInOrder'
    BY <1>1, <2>1 DEF OInv, MapInOrder
  <2>3. NewestKept'
    BY <1>1, <2>1 DEF OInv, NewestKept
  <2>4. QED BY <1>4, <1>5, <2>2, <2>3 DEF OInv
<1>7. CASE Reopen
  <2>1. DOMAIN wal = {}
    BY <1>7 DEF Reopen
  <2>2. ASSUME NEW e \in lookup', NEW b \in Blocks, Covers(e, b)
        PROVE  SeqNumAt(e, b) <= newest[b]
    <3>0. b \in Nat
      BY BlockNumbers
    <3>1. Mapped(lookup, b) /\ SeqNumAt(e, b) = SeqNumAt(Resolve(lookup, b), b)
      BY <1>7, <2>2, <3>0, ReopenResolves
    <3>2. Resolve(lookup, b) \in lookup /\ Covers(Resolve(lookup, b), b)
      BY <3>1 DEF Mapped, Resolve
    <3>3. SeqNumAt(Resolve(lookup, b), b) <= newest[b]
      BY <3>2 DEF OInv, MapInOrder
    <3>4. QED BY <3>1, <3>3
  <2>3. MapInOrder'
    BY <1>1, <1>2, <2>1, <2>2 DEF MapInOrder
  <2>4. NewestKept'
    <3>1. ASSUME NEW b \in Blocks \ (DOMAIN wal \cup unsent \cup skipped), newest[b] # 0
          PROVE  Mapped(lookup', b) /\ SeqNumAt(Resolve(lookup', b), b) = newest[b]
      <4>1. Mapped(lookup, b) /\ SeqNumAt(Resolve(lookup, b), b) = newest[b]
        BY <1>2, <3>1 DEF OInv, NewestKept
      <4>2. b \in Nat
        BY BlockNumbers
      <4>3. QED BY <1>7, <4>1, <4>2, ReopenResolves
    <3>2. QED BY <1>1, <3>1 DEF NewestKept
  <2>5. QED BY <1>4, <1>5, <2>3, <2>4 DEF OInv
<1>8. QED BY <1>6, <1>7

\* Nothing was written yet.
LEMMA InitOInv ==
    ASSUME Init
    PROVE  OInv
<1>1. DOMAIN wal = {} /\ lookup = {} /\ jobs = {} /\ seqNum = 0
      /\ \A b \in Blocks : reserved[b] = 0 /\ newest[b] = 0
  BY EmptyIs DEF Init
<1>2. WritesInOrder
  BY <1>1 DEF WritesInOrder
<1>3. JobsInOrder /\ MapInOrder /\ NewestKept
  BY <1>1 DEF JobsInOrder, MapInOrder, NewestKept
<1>4. QED BY <1>2, <1>3 DEF OInv

\* Every step keeps OInv.
LEMMA StepOInv ==
    ASSUME IInv, OInv, [Next]_vars
    PROVE  OInv'
<1>1. ASSUME NEW b \in Blocks, ReserveSeqNum(b) \/ AppendWrite(b) PROVE OInv'
  BY <1>1, ReserveKeepsOrder, AppendKeepsOrder
<1>2. CASE Rotate
  BY <1>2, RotateKeepsOrder
<1>3. ASSUME NEW j \in jobs, TakeJob(j) \/ DropJob(j) \/ PutChunk(j) \/ ApplyRun(j) PROVE OInv'
  BY <1>3, UploadsKeepOrder, ApplyRunKeepsOrder
<1>4. CASE FinishDrain \/ Reopen
  BY <1>4, EndsKeepOrder
<1>5. CASE UNCHANGED vars
  <2>1. UNCHANGED <<lookup, jobs, seqNum, reserved, wal, newest, unsent, skipped>>
    BY <1>5 DEF vars, mapVars, drainVars, writeVars, ghostVars
  <2>2. QED BY <2>1 DEF OInv, WritesInOrder, JobsInOrder, MapInOrder, NewestKept
<1>6. QED BY <1>1, <1>2, <1>3, <1>4, <1>5 DEF Next

\* A step of the map: no block is lost, none goes back to an older record.
Advances ==
    \A b \in Blocks : Mapped(lookup, b) =>
        /\ Mapped(lookup', b)
        /\ SeqNumAt(Resolve(lookup', b), b) >= SeqNumAt(Resolve(lookup, b), b)

\* Every step that changes the map advances it.
LEMMA StepAdvances ==
    ASSUME IInv, OInv, [Next]_vars
    PROVE  [Advances]_lookup
<1>1. ASSUME NEW b \in Blocks, Mapped(lookup, b)
      PROVE  b \in Nat /\ SeqNumAt(Resolve(lookup, b), b) \in Nat
  <2>1. b \in Nat
    BY BlockNumbers
  <2>2. Resolve(lookup, b) \in lookup /\ Covers(Resolve(lookup, b), b)
    BY <1>1 DEF Mapped, Resolve
  <2>3. QED BY <2>1, <2>2, OrderTypes
<1>2. CASE lookup' = lookup
  BY <1>2
<1>3. ASSUME NEW j \in jobs, ApplyRun(j) PROVE Advances
  <2>1. ASSUME NEW b \in Blocks, Mapped(lookup, b)
        PROVE  /\ Mapped(lookup', b)
               /\ SeqNumAt(Resolve(lookup', b), b) >= SeqNumAt(Resolve(lookup, b), b)
    <3>1. b \in Nat /\ SeqNumAt(Resolve(lookup, b), b) \in Nat
      BY <1>1, <2>1
    <3>0. CASE lookup' = lookup
      BY <2>1, <3>0, <3>1
    <3>2. CASE lookup' # lookup /\ b \in Run(j)
      <4>1. /\ Mapped(lookup', b) /\ SeqNumAt(Resolve(lookup', b), b) = j.todo[b]
            /\ SeqNumAt(Resolve(lookup, b), b) < j.todo[b]
        BY <1>3, <2>1, <3>2, RunResolves
      <4>2. j.todo[b] \in Nat
        <5>1. j.at = "apply"
          BY <1>3, ApplyRunIs
        <5>2. b \in DOMAIN j.todo
          BY <3>2, <5>1, EntryFacts
        <5>3. QED BY <5>2, OrderTypes
      <4> DEFINE s == SeqNumAt(Resolve(lookup, b), b)
                 t == j.todo[b]
      <4>3. s \in Nat /\ t \in Nat /\ s < t
        BY <3>1, <4>1, <4>2
      <4> HIDE DEF s, t
      <4>4. t >= s
        BY <4>3
      <4>5. QED BY <4>1, <4>4 DEF s, t
    <3>3. CASE lookup' # lookup /\ b \notin Run(j)
      <4>1. /\ Mapped(lookup', b)
            /\ SeqNumAt(Resolve(lookup', b), b) = SeqNumAt(Resolve(lookup, b), b)
        BY <1>3, <2>1, <3>3, RunResolves
      <4>2. QED BY <3>1, <4>1
    <3>4. QED BY <3>0, <3>2, <3>3
  <2>2. QED BY <2>1 DEF Advances
<1>4. ASSUME Reopen PROVE Advances
  <2>1. ASSUME NEW b \in Blocks, Mapped(lookup, b)
        PROVE  /\ Mapped(lookup', b)
               /\ SeqNumAt(Resolve(lookup', b), b) >= SeqNumAt(Resolve(lookup, b), b)
    <3>1. b \in Nat /\ SeqNumAt(Resolve(lookup, b), b) \in Nat
      BY <1>1, <2>1
    <3>2. /\ Mapped(lookup', b)
          /\ SeqNumAt(Resolve(lookup', b), b) = SeqNumAt(Resolve(lookup, b), b)
      BY <1>4, <2>1, <3>1, ReopenResolves
    <3>3. QED BY <3>1, <3>2
  <2>2. QED BY <2>1 DEF Advances
<1>5. \/ lookup' = lookup
      \/ \E j \in jobs : ApplyRun(j)
      \/ Reopen
  BY DEF Next, vars, ReserveSeqNum, AppendWrite, Rotate, TakeJob, DropJob, PutChunk, FinishDrain,
         mapVars
<1>6. QED BY <1>2, <1>3, <1>4, <1>5

\* The order holds.
LEMMA Order == Spec => []OInv
<1>1. Init => OInv
  BY InitOInv
<1>2. IInv /\ OInv /\ [Next]_vars => OInv'
  BY StepOInv
<1>3. QED BY <1>1, <1>2, Invariance, PTL DEF Spec

\* However many requests write at once, the map holds, between drains, the
\* newest record of every block that is neither waiting nor lost with a failed
\* upload nor skipped by a guard that read another block's number: the
\* stale-drain guard of createChunkFile never leaves out a newer record of a
\* block that it judges by its own number.
THEOREM NewestRecordIsMapped == Spec => []NewestWriteWins
<1>1. IInv /\ OInv => NewestWriteWins
  BY DEF IInv, JobsOK, OInv, NewestKept, NewestWriteWins
<1>2. QED BY <1>1, Invariance, Order, PTL

\* However many requests write at once, a mapped block is never unmapped and
\* never goes back to an older record, through drains and reopens
\* (insertCoalescedLocked, LoadLiveCheckpoint).
THEOREM MapOnlyAdvances == Spec => SeqNumAdvances
<1>1. IInv /\ OInv /\ [Next]_vars => [Advances]_lookup
  BY StepAdvances
<1>2. Spec => [][Advances]_lookup
  BY <1>1, Invariance, Order, PTL DEF Spec
<1>3. QED BY <1>2 DEF SeqNumAdvances, Advances

=============================================================================
