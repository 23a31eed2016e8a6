---------------------------- MODULE ClonesProofs ----------------------------
(***************************************************************************)
(* Clones read what they should and snapshots are faithful and frozen, for *)
(* every set of blocks and halves and every bound of module Clones.        *)
(*                                                                         *)
(* The argument: the only chunk a step may replace is the one ObjectNum of *)
(* a volume that is open names (Kept), and that is above every id of       *)
(* the volume's map and of its live checkpoint (VolInv).  So what the      *)
(* checkpoint vouches for stays, and every layer of a snapshot, of a       *)
(* volume that is open and of a snapshot being made names only such chunks *)
(* (Known), but for the blocks that were frozen ahead of the checkpoint.   *)
(***************************************************************************)
EXTENDS Clones, FiniteSetTheorems, WellFoundedInduction, TLAPS

Record   == [Halves -> Nat]
Entry    == [obj : 0..MaxChunks, off : Nat]
EntryMap == [Blocks -> Entry]
Chunk    == UNION {[S -> Record] : S \in SUBSET Blocks}
Instant  == [image : [Blocks -> Record], left : SUBSET Blocks]
Layer    == [vol : Volumes, map : EntryMap]
Snapshot == [src : Volumes, own : EntryMap, flat : Seq(Layer), ahead : SUBSET Blocks,
             wrong : SUBSET Blocks]
SnapCall == [at : {"idle", "draining", "drained", "frozen", "built", "remote"},
             src : Volumes \cup {0}, own : EntryMap, flat : Seq(Layer), obj : Nat,
             fits : [Blocks -> SUBSET Record], torn : SUBSET Blocks, left : SUBSET Blocks,
             ahead : SUBSET Blocks]

VolTypes ==
    /\ phase \in [Volumes -> {"absent", "down", "loading", "up"}]
    /\ conf \in [Volumes -> 0..Len(snaps)] /\ link \in [Volumes -> 0..Len(snaps)]
    /\ confObj \in [Volumes -> Nat] /\ layers \in [Volumes -> Seq(Layer)]

DataTypes ==
    /\ log \in [Volumes -> [Blocks -> Seq(Record)]]
    /\ taken \in [Volumes -> [Blocks -> Nat]] /\ mapped \in [Volumes -> [Blocks -> Nat]]
    /\ own \in [Volumes -> EntryMap] /\ ckpt \in [Volumes -> EntryMap]
    /\ objNum \in [Volumes -> Nat] /\ objects \in [Volumes -> [Ids -> Chunk]]
    /\ drainer \in [Volumes -> {"free", "bg", "snap"}]
    /\ segment \in [Volumes -> SUBSET Blocks]

PastTypes ==
    /\ guest \in [Volumes -> [Blocks -> Record]] /\ first \in [Volumes -> [Blocks -> Record]]
    /\ cut \in [Volumes -> Instant] /\ saved \in [Volumes -> Instant]
    /\ writes \in Nat /\ stops \in Nat /\ faults \in Nat

SnapTypes == sp \in SnapCall /\ snaps \in Seq(Snapshot)

Types == VolTypes /\ DataTypes /\ PastTypes /\ SnapTypes

-----------------------------------------------------------------------------
(* The operators of module Clones by the state they read.                  *)

ReadAt(chunks, b, e) ==
    IF e.obj \in Ids /\ b \in DOMAIN chunks[e.obj] /\ Place(DOMAIN chunks[e.obj], b) = e.off
    THEN chunks[e.obj][b] ELSE Junk

\* What a volume's entry holds, over what it was created with (base).
Val(chunks, base, b, e) == IF e = NoEntry THEN base ELSE ReadAt(chunks, b, e)

InhIn(o, L, b) ==
    LET having == {i \in DOMAIN L : L[i].map[b] # NoEntry} IN
    IF having = {} THEN Zero ELSE ReadAt(o[L[Min(having)].vol], b, L[Min(having)].map[b])

LayersIn(sn, s) ==
    IF s = 0 THEN <<>> ELSE <<[vol |-> sn[s].src, map |-> sn[s].own]>> \o sn[s].flat

DoubtIn(sn, s) == IF s = 0 THEN {} ELSE sn[s].ahead

VouchedBy(m, id) == \E c \in Blocks : id <= m[c].obj

\* A list of layers names only chunks that the checkpoints k vouch for, but for
\* the blocks of A.
Known(k, L, A) ==
    \A i \in DOMAIN L : \A b \in Blocks \ A :
        L[i].map[b] = NoEntry \/ VouchedBy(k[L[i].vol], L[i].map[b].obj)

-----------------------------------------------------------------------------
(* The inductive invariant.                                                *)

Open(v) == phase[v] \in {"loading", "up"}

\* The numbers of a volume: how far drains and the map have come with its
\* records, and that ObjectNum is above all the map and the checkpoint name.
Numbers(v) ==
    /\ \A b \in Blocks :
          /\ mapped[v][b] <= taken[v][b] /\ taken[v][b] <= Len(log[v][b])
          /\ ckpt[v][b].obj <= own[v][b].obj
          /\ Open(v) => own[v][b].obj < objNum[v]
          /\ phase[v] # "up" => own[v][b] = ckpt[v][b] /\ mapped[v][b] = 0
          /\ b \in segment[v] => mapped[v][b] < taken[v][b]
          /\ phase[v] = "absent" => own[v][b] = NoEntry /\ log[v][b] = <<>>
    /\ phase[v] = "absent" => objNum[v] = 1
    /\ drainer[v] = "free" => segment[v] = {}
    /\ drainer[v] # "free" => phase[v] = "up"

\* The VB's link and layers are those of config.json.
Linked(v) ==
    Open(v) => link[v] = conf[v] /\ layers[v] = LayersIn(snaps, conf[v])

\* What a read of the volume's own records returns, over what it was created with.
Current(v, b) ==
    IF mapped[v][b] < Len(log[v][b]) THEN log[v][b][Len(log[v][b])]
    ELSE Val(objects[v], first[v][b], b, own[v][b])

\* What the guest has, had at creation, at the last checkpoint and at the drain
\* in progress, each by the entries and records that hold it.
Histories(v) ==
    phase[v] # "absent" => \A b \in Blocks \ DoubtIn(snaps, conf[v]) :
        /\ first[v][b] = InhIn(objects, LayersIn(snaps, conf[v]), b)
        /\ guest[v][b] = Current(v, b)
        /\ b \notin saved[v].left =>
              saved[v].image[b] = Val(objects[v], first[v][b], b, ckpt[v][b])
        /\ drainer[v] # "free" /\ b \notin cut[v].left =>
              cut[v].image[b] = IF b \in segment[v] THEN log[v][b][taken[v][b]]
                                ELSE Val(objects[v], first[v][b], b, own[v][b])

VolInv(v) == Numbers(v) /\ Linked(v) /\ Histories(v)

\* Saved snapshots name what the checkpoints of their sources vouch for.
SnapsKnown ==
    \A s \in DOMAIN snaps : Known(ckpt, LayersIn(snaps, s), DoubtIn(snaps, s))

\* The layers a clone of the snapshot being made would get, and the blocks the
\* snapshot is answerable for.
Made  == <<[vol |-> sp.src, map |-> sp.own]>> \o sp.flat
Cared == Blocks \ (sp.left \cup DoubtIn(snaps, conf[sp.src]))

\* Every record of the block that the snapshot may still freeze is one it may.
Fitting(b) ==
    IF sp.at = "draining" /\ b \in segment[sp.src]
    THEN \A n \in taken[sp.src][b]..Len(log[sp.src][b]) : log[sp.src][b][n] \in sp.fits[b]
    ELSE /\ Val(objects[sp.src], first[sp.src][b], b, own[sp.src][b]) \in sp.fits[b]
         /\ \A n \in (mapped[sp.src][b] + 1)..Len(log[sp.src][b]) :
                log[sp.src][b][n] \in sp.fits[b]

\* What CreateSnapshot has frozen so far, by the step it has reached.
Sections ==
    /\ sp.at \in {"draining", "drained", "frozen"} => sp.flat = <<>>
    /\ sp.at = "remote" => sp.ahead = {}
    /\ sp.at \in {"frozen", "built", "remote"} =>
          \A b \in Blocks \ sp.ahead :
              sp.own[b] = NoEntry \/ VouchedBy(ckpt[sp.src], sp.own[b].obj)
    /\ sp.at \in {"frozen", "built"} => \A b \in Blocks : sp.own[b].obj < objNum[sp.src]
    /\ sp.at = "frozen" => \A b \in Cared :
          Val(objects[sp.src], first[sp.src][b], b, sp.own[b]) \in sp.fits[b]
    /\ sp.at \in {"built", "remote"} =>
          \A b \in Cared \ sp.torn : InhIn(objects, Made, b) \in sp.fits[b]

\* The snapshot being made.
Making ==
    sp.at # "idle" =>
        /\ sp.src \in Volumes /\ phase[sp.src] # "absent"
        /\ sp.at # "remote" => phase[sp.src] = "up"
        /\ Known(ckpt, sp.flat, DoubtIn(snaps, conf[sp.src]))
        /\ Sections

\* Until the own section is frozen every record it may get is one it may have;
\* then the map has gained no entry but of torn blocks.
Growing ==
    /\ sp.at \in {"draining", "drained"} => \A b \in Cared : Fitting(b)
    /\ sp.at = "frozen" => \A b \in Cared \ sp.torn :
          (sp.own[b] = NoEntry <=> own[sp.src][b] = NoEntry)

SnapDrains == \A v \in Volumes : drainer[v] = "snap" <=> sp.at = "draining" /\ sp.src = v

IInv ==
    /\ Types /\ (\A v \in Volumes : VolInv(v)) /\ SnapsKnown /\ SnapDrains /\ Making
    /\ Growing
    /\ SnapshotFaithful

-----------------------------------------------------------------------------
(* Layers.                                                                 *)

\* No entry is an entry, and the maps of a new volume are maps.
LEMMA NoEntryType == NoEntry \in Entry /\ NoMap \in EntryMap
BY CloneBoundAssumption DEF NoEntry, Entry, NoMap, EntryMap

\* A non-empty set of naturals has a least element, and Min is it.
LEMMA MinIsLeast ==
    ASSUME NEW S \in SUBSET Nat, S # {}
    PROVE  Min(S) \in S /\ \A y \in S : Min(S) <= y
<1>1. PICK x \in S : \A y \in S : ~(<<y, x>> \in OpToRel(<, Nat))
  BY NatLessThanWellFounded, WFMin
<1>2. \A y \in S : ~(y < x)
  BY <1>1 DEF OpToRel
<1>3. \E m \in S : \A y \in S : m =< y
  BY <1>2
<1>4. QED BY <1>3 DEF Min

\* A bounded non-empty set of naturals has a greatest element, and Max is it:
\* the least of its upper bounds.
LEMMA MaxIsGreatest ==
    ASSUME NEW S \in SUBSET Nat, S # {}, NEW n \in Nat, \A x \in S : x <= n
    PROVE  Max(S) \in S /\ \A y \in S : y <= Max(S)
<1> DEFINE Upper == {u \in Nat : \A x \in S : x <= u}
<1>1. n \in Upper /\ Upper \in SUBSET Nat
  OBVIOUS
<1>2. PICK u \in Upper : \A y \in Upper : ~(<<y, u>> \in OpToRel(<, Nat))
  BY <1>1, NatLessThanWellFounded, WFMin
<1>3. \A y \in Upper : ~(y < u)
  BY <1>2 DEF OpToRel
<1>4. u \in S
  <2>1. SUFFICES ASSUME u \notin S PROVE FALSE
    OBVIOUS
  <2>2. PICK x \in S : TRUE
    OBVIOUS
  <2>3. u \in Nat /\ \A y \in S : y \in Nat /\ y <= u /\ y # u
    BY <2>1, <1>2
  <2>4. \A y \in S : y <= u - 1
    BY <2>3
  <2>5. u - 1 \in Upper /\ u - 1 < u
    BY <2>2, <2>3, <2>4
  <2>6. QED BY <2>5, <1>3
<1>5. \E m \in S : \A y \in S : m >= y
  BY <1>4, <1>2
<1>6. QED BY <1>5 DEF Max

\* The layer a read of an inherited block ends in (readBlockStore): the
\* first that has it.
Ends(L, b, i) ==
    i \in DOMAIN L /\ L[i].map[b] # NoEntry /\ \A j \in DOMAIN L : j < i => L[j].map[b] = NoEntry

\* A list of layers has the block in no layer, or a read ends in one of them.
LEMMA EndsSomewhere ==
    ASSUME NEW L \in Seq(Layer), NEW b \in Blocks
    PROVE  \/ \A i \in DOMAIN L : L[i].map[b] = NoEntry
           \/ \E i \in DOMAIN L : Ends(L, b, i)
<1> DEFINE having == {i \in DOMAIN L : L[i].map[b] # NoEntry}
<1>1. having \in SUBSET Nat
  OBVIOUS
<1>2. CASE having # {}
  <2>1. PICK m \in having : \A y \in having : m <= y
    BY <1>1, <1>2, MinIsLeast
  <2>2. Ends(L, b, m)
    <3>1. ASSUME NEW j \in DOMAIN L, j < m PROVE L[j].map[b] = NoEntry
      BY <1>1, <2>1, <3>1
    <3>2. QED BY <2>1, <3>1 DEF Ends
  <2>3. QED BY <2>1, <2>2
<1>3. QED BY <1>2

\* What Inherited returns, by the layer the read ends in.
LEMMA InheritedEnds ==
    ASSUME NEW o, NEW L \in Seq(Layer), NEW b \in Blocks
    PROVE  /\ (\A i \in DOMAIN L : L[i].map[b] = NoEntry) => InhIn(o, L, b) = Zero
           /\ \A i : Ends(L, b, i) => InhIn(o, L, b) = ReadAt(o[L[i].vol], b, L[i].map[b])
<1> DEFINE having == {i \in DOMAIN L : L[i].map[b] # NoEntry}
<1>1. having \in SUBSET Nat
  OBVIOUS
<1>2. ASSUME NEW i, Ends(L, b, i)
      PROVE  InhIn(o, L, b) = ReadAt(o[L[i].vol], b, L[i].map[b])
  <2>1. i \in having /\ \A j \in having : i <= j
    BY <1>1, <1>2 DEF Ends
  <2>2. Min(having) = i
    <3> DEFINE m == Min(having)
    <3>1. m \in having /\ \A y \in having : m <= y
      BY <1>1, <2>1, MinIsLeast
    <3> HIDE DEF m, having
    <3>2. m <= i /\ i <= m /\ m \in Nat /\ i \in Nat
      BY <1>1, <2>1, <3>1
    <3>3. m = i
      BY <3>2
    <3>4. QED BY <3>3 DEF m
  <2>3. QED BY <2>1, <2>2 DEF InhIn
<1>3. QED BY <1>2 DEF InhIn

\* A layer put in front of others.
LEMMA InFront ==
    ASSUME NEW x \in Layer, NEW F \in Seq(Layer)
    PROVE  /\ <<x>> \o F \in Seq(Layer)
           /\ DOMAIN (<<x>> \o F) = 1..(Len(F) + 1)
           /\ (<<x>> \o F)[1] = x
           /\ \A i \in DOMAIN F : (<<x>> \o F)[i + 1] = F[i]
<1>1. <<x>> \in Seq(Layer) /\ Len(<<x>>) = 1
  OBVIOUS
<1>2. QED BY <1>1

\* buildFlatSection makes one layer of each.
LEMMA FlatType ==
    ASSUME NEW o \in EntryMap, NEW L \in Seq(Layer)
    PROVE  /\ FlatSection(o, L) \in Seq(Layer) /\ DOMAIN FlatSection(o, L) = DOMAIN L
           /\ \A i \in DOMAIN L, b \in Blocks :
                  /\ FlatSection(o, L)[i].vol = L[i].vol
                  /\ FlatSection(o, L)[i].map[b] =
                        IF o[b] # NoEntry \/ \E j \in 1..(i - 1) : L[j].map[b] # NoEntry
                        THEN NoEntry ELSE L[i].map[b]
<1> DEFINE F == FlatSection(o, L)
<1>1. DOMAIN L = 1..Len(L) /\ Len(L) \in Nat
  OBVIOUS
<1>2. \A i \in DOMAIN L : L[i] \in Layer
  OBVIOUS
<1>3. DOMAIN F = DOMAIN L /\ \A i \in DOMAIN L : F[i] \in Layer
  <2>1. ASSUME NEW i \in DOMAIN L PROVE F[i] \in Layer
    <3> DEFINE m == [b \in Blocks |->
                       IF o[b] # NoEntry \/ \E j \in 1..(i - 1) : L[j].map[b] # NoEntry
                       THEN NoEntry ELSE L[i].map[b]]
    <3>1. m \in EntryMap
      BY <1>2, NoEntryType DEF EntryMap, Layer
    <3>2. F[i] = [vol |-> L[i].vol, map |-> m]
      BY DEF FlatSection
    <3> HIDE DEF m, F
    <3>3. QED BY <1>2, <3>1, <3>2 DEF Layer
  <2>2. QED BY <2>1 DEF FlatSection
<1>4. F \in Seq(Layer)
  <2>1. F = [i \in 1..Len(L) |-> F[i]]
    BY <1>1 DEF FlatSection
  <2> HIDE DEF F
  <2>2. QED BY <1>1, <1>3, <2>1
<1>5. QED BY <1>3, <1>4 DEF FlatSection

\* A clone of the snapshot finds the volume's own record of a block, else what
\* the volume inherits: leaving out of each layer what a nearer one has changes
\* nothing for a reader (buildFlatSection, OpenFromSnapshot).  The two sections
\* are made from the map at two moments, e and o.
LEMMA FlatReads ==
    ASSUME NEW c, NEW v \in Volumes, NEW e \in EntryMap, NEW o \in EntryMap, NEW L \in Seq(Layer),
           NEW b \in Blocks
    PROVE  LET M == <<[vol |-> v, map |-> e]>> \o FlatSection(o, L) IN
           /\ e[b] # NoEntry => InhIn(c, M, b) = ReadAt(c[v], b, e[b])
           /\ e[b] = NoEntry /\ o[b] = NoEntry => InhIn(c, M, b) = InhIn(c, L, b)
<1> DEFINE x == [vol |-> v, map |-> e]
           F == FlatSection(o, L)
           M == <<x>> \o F
<1>1. x \in Layer /\ x.vol = v /\ x.map = e
  BY DEF Layer
<1>2. /\ F \in Seq(Layer) /\ DOMAIN F = DOMAIN L
      /\ \A i \in DOMAIN L :
            /\ F[i].vol = L[i].vol
            /\ F[i].map[b] = IF o[b] # NoEntry \/ \E j \in 1..(i - 1) : L[j].map[b] # NoEntry
                            THEN NoEntry ELSE L[i].map[b]
  BY FlatType
<1> HIDE DEF x, F
<1>3. /\ M \in Seq(Layer) /\ DOMAIN M = 1..(Len(F) + 1) /\ M[1] = x
      /\ \A i \in DOMAIN F : M[i + 1] = F[i]
  BY <1>1, <1>2, InFront
<1>4. Len(F) \in Nat /\ DOMAIN F = 1..Len(F) /\ DOMAIN L = 1..Len(F)
  BY <1>2
<1> HIDE DEF M
<1>5. CASE e[b] # NoEntry
  <2>1. Ends(M, b, 1)
    BY <1>1, <1>3, <1>4, <1>5 DEF Ends
  <2>2. InhIn(c, M, b) = ReadAt(c[v], b, e[b])
    BY <2>1, <1>1, <1>3, InheritedEnds
  <2>3. QED BY <1>5, <2>2 DEF M, F, x
<1>6. CASE e[b] = NoEntry /\ o[b] = NoEntry
  <2>1. ASSUME \A i \in DOMAIN L : L[i].map[b] = NoEntry
        PROVE  InhIn(c, M, b) = InhIn(c, L, b)
    <3>1. ASSUME NEW k \in DOMAIN M PROVE M[k].map[b] = NoEntry
      <4>1. CASE k = 1
        BY <1>1, <1>3, <1>6, <4>1
      <4>2. CASE k # 1
        <5>1. k - 1 \in DOMAIN F /\ k = (k - 1) + 1
          BY <1>3, <1>4, <4>2
        <5>2. M[k] = F[k - 1]
          BY <1>3, <5>1
        <5>3. QED BY <1>2, <2>1, <5>1, <5>2
      <4>3. QED BY <4>1, <4>2
    <3>2. QED BY <2>1, <3>1, <1>3, InheritedEnds
  <2>2. ASSUME NEW i \in DOMAIN L, Ends(L, b, i) PROVE InhIn(c, M, b) = InhIn(c, L, b)
    <3>1. F[i].map[b] = L[i].map[b] /\ F[i].vol = L[i].vol
      <4>1. ~ \E j \in 1..(i - 1) : L[j].map[b] # NoEntry
        BY <2>2, <1>4 DEF Ends
      <4>2. QED BY <4>1, <1>2, <1>6
    <3>2. M[i + 1] = F[i] /\ i + 1 \in DOMAIN M
      BY <1>3, <1>4
    <3>3. Ends(M, b, i + 1)
      <4>1. ASSUME NEW k \in DOMAIN M, k < i + 1 PROVE M[k].map[b] = NoEntry
        <5>1. CASE k = 1
          BY <1>1, <1>3, <1>6, <5>1
        <5>2. CASE k # 1
          <6>1. k - 1 \in DOMAIN L /\ k = (k - 1) + 1 /\ k - 1 < i
            BY <1>3, <1>4, <4>1, <5>2
          <6>2. M[k] = F[k - 1]
            BY <1>2, <1>3, <6>1
          <6>3. L[k - 1].map[b] = NoEntry
            BY <2>2, <6>1 DEF Ends
          <6>4. QED BY <1>2, <6>1, <6>2, <6>3
        <5>3. QED BY <5>1, <5>2
      <4>2. QED BY <2>2, <3>1, <3>2, <4>1 DEF Ends
    <3>4. InhIn(c, M, b) = ReadAt(c[M[i + 1].vol], b, M[i + 1].map[b])
      BY <3>3, <1>3, InheritedEnds
    <3>5. InhIn(c, L, b) = ReadAt(c[L[i].vol], b, L[i].map[b])
      BY <2>2, InheritedEnds
    <3>6. QED BY <3>1, <3>2, <3>4, <3>5
  <2>3. InhIn(c, M, b) = InhIn(c, L, b)
    BY <2>1, <2>2, EndsSomewhere
  <2>4. QED BY <1>6, <2>3 DEF M, F, x
<1>7. QED BY <1>5, <1>6 DEF M, F, x

\* A snapshot of a volume that is no clone has its own section only.
LEMMA OwnOnly ==
    ASSUME NEW c, NEW v \in Volumes, NEW e \in EntryMap, NEW b \in Blocks
    PROVE  InhIn(c, <<[vol |-> v, map |-> e]>> \o <<>>, b) =
              IF e[b] = NoEntry THEN Zero ELSE ReadAt(c[v], b, e[b])
<1> DEFINE x == [vol |-> v, map |-> e]
           M == <<x>> \o <<>>
<1>1. x \in Layer /\ x.vol = v /\ x.map = e /\ <<>> \in Seq(Layer)
  BY DEF Layer
<1> HIDE DEF x
<1>2. M \in Seq(Layer) /\ DOMAIN M = 1..(Len(<<>>) + 1) /\ M[1] = x
  BY <1>1, InFront
<1>3. DOMAIN M = {1}
  BY <1>2
<1> HIDE DEF M
<1>4. CASE e[b] = NoEntry
  <2>1. \A i \in DOMAIN M : M[i].map[b] = NoEntry
    BY <1>1, <1>2, <1>3, <1>4
  <2>2. InhIn(c, M, b) = Zero
    BY <1>2, <2>1, InheritedEnds
  <2>3. QED BY <1>4, <2>2 DEF M, x
<1>5. CASE e[b] # NoEntry
  <2>1. Ends(M, b, 1)
    BY <1>1, <1>2, <1>3, <1>5 DEF Ends
  <2>2. InhIn(c, M, b) = ReadAt(c[v], b, e[b])
    BY <1>1, <1>2, <2>1, InheritedEnds
  <2>3. QED BY <1>5, <2>2 DEF M, x
<1>6. QED BY <1>4, <1>5

-----------------------------------------------------------------------------
(* Types.                                                                  *)

\* Some records of a chunk are a chunk, and a block's record in it a record.
LEMMA ChunkType ==
    /\ \A S \in SUBSET Blocks : [S -> Record] \subseteq Chunk
    /\ \A f \in Chunk : \A b \in DOMAIN f : f[b] \in Record
BY DEF Chunk

\* What is read at an entry is a record.
LEMMA ReadAtType ==
    ASSUME NEW chunks \in [Ids -> Chunk], NEW b \in Blocks, NEW e
    PROVE  ReadAt(chunks, b, e) \in Record
<1>1. Junk \in Record
  BY CloneBoundAssumption DEF Junk, Record
<1>2. CASE e.obj \in Ids /\ b \in DOMAIN chunks[e.obj]
  <2>1. chunks[e.obj] \in Chunk
    BY <1>2
  <2>2. chunks[e.obj][b] \in Record
    BY <1>2, <2>1, ChunkType
  <2>3. QED BY <1>1, <2>2 DEF ReadAt
<1>3. QED BY <1>1, <1>2 DEF ReadAt

\* What a read of layers returns is a record.
LEMMA InheritedType ==
    ASSUME Types, NEW L \in Seq(Layer), NEW b \in Blocks
    PROVE  InhIn(objects, L, b) \in Record
<1>1. Zero \in Record
  BY DEF Zero, Record
<1>2. ASSUME NEW i \in DOMAIN L, Ends(L, b, i) PROVE InhIn(objects, L, b) \in Record
  <2>1. L[i] \in Layer
    OBVIOUS
  <2>2. L[i].vol \in Volumes
    BY <2>1 DEF Layer
  <2>3. objects[L[i].vol] \in [Ids -> Chunk]
    BY <2>2 DEF Types, DataTypes
  <2>4. QED BY <1>2, <2>3, InheritedEnds, ReadAtType
<1>3. QED BY <1>1, <1>2, EndsSomewhere, InheritedEnds

\* The operators of module Clones are those of this one on the current state.
LEMMA Unfolded ==
    /\ \A v, b, e : Fetch(v, b, e) = ReadAt(objects[v], b, e)
    /\ \A v, b, e : Holds(v, b, e) = Val(objects[v], first[v][b], b, e)
    /\ \A L, b : Inherited(L, b) = InhIn(objects, L, b)
    /\ \A s : LayersOf(s) = LayersIn(snaps, s) /\ Doubtful(s) = DoubtIn(snaps, s)
    /\ \A s, b : ImageOf(s, b) = InhIn(objects, LayersIn(snaps, s), b)
    /\ \A v, id : Vouched(v, id) = VouchedBy(ckpt[v], id)
<1>1. \A v, b, e : Fetch(v, b, e) = ReadAt(objects[v], b, e)
  BY DEF Fetch, ReadAt
<1>2. \A v, b, e : Holds(v, b, e) = Val(objects[v], first[v][b], b, e)
  BY <1>1 DEF Holds, Val
<1>3. \A L, b : Inherited(L, b) = InhIn(objects, L, b)
  BY <1>1 DEF Inherited, InhIn
<1>4. \A s : LayersOf(s) = LayersIn(snaps, s) /\ Doubtful(s) = DoubtIn(snaps, s)
  BY DEF LayersOf, LayersIn, Doubtful, DoubtIn
<1>5. \A s, b : ImageOf(s, b) = InhIn(objects, LayersIn(snaps, s), b)
  BY <1>3, <1>4 DEF ImageOf
<1>6. \A v, id : Vouched(v, id) = VouchedBy(ckpt[v], id)
  BY DEF Vouched, VouchedBy
<1>7. QED BY <1>1, <1>2, <1>3, <1>4, <1>5, <1>6

\* The types, volume by volume and block by block.
Elements ==
    \A v \in Volumes :
        /\ objects[v] \in [Ids -> Chunk] /\ objNum[v] \in Nat /\ segment[v] \subseteq Blocks
        /\ conf[v] \in 0..Len(snaps) /\ link[v] \in 0..Len(snaps) /\ layers[v] \in Seq(Layer)
        /\ saved[v].left \subseteq Blocks /\ cut[v].left \subseteq Blocks
        /\ own[v] \in EntryMap /\ ckpt[v] \in EntryMap
        /\ \A b \in Blocks :
              /\ own[v][b] \in Entry /\ ckpt[v][b] \in Entry
              /\ own[v][b].obj \in Nat /\ ckpt[v][b].obj \in Nat
              /\ log[v][b] \in Seq(Record) /\ Len(log[v][b]) \in Nat
              /\ taken[v][b] \in Nat /\ mapped[v][b] \in Nat
              /\ guest[v][b] \in Record /\ first[v][b] \in Record
              /\ cut[v].image[b] \in Record /\ saved[v].image[b] \in Record

\* The types give those of every entry, record and history.
LEMMA TypesElements == Types => Elements
<1> SUFFICES ASSUME Types, NEW v \in Volumes
             PROVE  /\ objects[v] \in [Ids -> Chunk] /\ objNum[v] \in Nat
                    /\ segment[v] \subseteq Blocks
                    /\ conf[v] \in 0..Len(snaps) /\ link[v] \in 0..Len(snaps)
                    /\ layers[v] \in Seq(Layer)
                    /\ saved[v].left \subseteq Blocks /\ cut[v].left \subseteq Blocks
                    /\ own[v] \in EntryMap /\ ckpt[v] \in EntryMap
                    /\ \A b \in Blocks :
                          /\ own[v][b] \in Entry /\ ckpt[v][b] \in Entry
                          /\ own[v][b].obj \in Nat /\ ckpt[v][b].obj \in Nat
                          /\ log[v][b] \in Seq(Record) /\ Len(log[v][b]) \in Nat
                          /\ taken[v][b] \in Nat /\ mapped[v][b] \in Nat
                          /\ guest[v][b] \in Record /\ first[v][b] \in Record
                          /\ cut[v].image[b] \in Record /\ saved[v].image[b] \in Record
  BY DEF Elements
<1>1. cut[v] \in Instant /\ saved[v] \in Instant
  BY DEF Types, PastTypes
<1>2. /\ saved[v].left \subseteq Blocks /\ cut[v].left \subseteq Blocks
      /\ \A b \in Blocks : cut[v].image[b] \in Record /\ saved[v].image[b] \in Record
  BY <1>1 DEF Instant
<1>3. /\ conf[v] \in 0..Len(snaps) /\ link[v] \in 0..Len(snaps) /\ layers[v] \in Seq(Layer)
  BY DEF Types, VolTypes
<1>4. /\ objects[v] \in [Ids -> Chunk] /\ objNum[v] \in Nat /\ segment[v] \subseteq Blocks
      /\ own[v] \in EntryMap /\ ckpt[v] \in EntryMap
      /\ \A b \in Blocks : /\ log[v][b] \in Seq(Record)
                           /\ taken[v][b] \in Nat /\ mapped[v][b] \in Nat
  BY DEF Types, DataTypes
<1>5. \A b \in Blocks : /\ own[v][b] \in Entry /\ ckpt[v][b] \in Entry
                        /\ own[v][b].obj \in Nat /\ ckpt[v][b].obj \in Nat
  BY <1>4, CloneBoundAssumption DEF EntryMap, Entry
<1>6. \A b \in Blocks : Len(log[v][b]) \in Nat
  BY <1>4
<1>7. \A b \in Blocks : guest[v][b] \in Record /\ first[v][b] \in Record
  BY DEF Types, PastTypes
<1>8. QED BY <1>2, <1>3, <1>4, <1>5, <1>6, <1>7

\* The same after a step.
LEMMA TypesElementsNext == Types' => Elements'
BY TypesElements, PTL

\* The layers of a snapshot are layers.
LEMMA LayersType ==
    ASSUME Types, NEW s \in 0..Len(snaps)
    PROVE  LayersIn(snaps, s) \in Seq(Layer)
<1>1. CASE s = 0
  BY <1>1 DEF LayersIn
<1>2. CASE s # 0
  <2>1. s \in DOMAIN snaps /\ snaps[s] \in Snapshot
    BY <1>2 DEF Types, SnapTypes
  <2>2. [vol |-> snaps[s].src, map |-> snaps[s].own] \in Layer /\ snaps[s].flat \in Seq(Layer)
    BY <2>1 DEF Snapshot, Layer
  <2>3. QED BY <1>2, <2>2, InFront DEF LayersIn
<1>3. QED BY <1>1, <1>2

\* What a crash leaves of a block's records.
LEMMA Prefix ==
    ASSUME NEW R, NEW q \in Seq(R), NEW k \in Nat, k <= Len(q)
    PROVE  /\ SubSeq(q, 1, k) \in Seq(R) /\ Len(SubSeq(q, 1, k)) = k
           /\ \A i \in 1..k : SubSeq(q, 1, k)[i] = q[i]
           /\ k # 0 => q[k] \in R
<1>1. Len(q) \in Nat /\ \A i \in 1..Len(q) : q[i] \in R
  OBVIOUS
<1>2. QED BY <1>1

\* The value of sp when no CreateSnapshot runs is one of its values.
LEMMA NoSnapType == NoSnap \in SnapCall
BY NoEntryType DEF NoSnap, SnapCall, Volumes

\* Where a block lies in a chunk is a number.
LEMMA PlaceType ==
    ASSUME NEW S \in SUBSET Blocks, NEW b
    PROVE  Place(S, b) \in Nat
<1>1. IsFiniteSet({x \in S : x < b})
  BY CloneAssumption, FS_Subset
<1>2. QED BY <1>1, FS_CardinalityType DEF Place

\* A map with the blocks of a new chunk is a map.
LEMMA AdvancedType ==
    ASSUME NEW m \in EntryMap, NEW S \in SUBSET Blocks, NEW id, S = {} \/ id \in Ids
    PROVE  Advanced(m, S, id) \in EntryMap
<1>1. \A b \in S : [obj |-> id, off |-> Place(S, b)] \in Entry
  BY PlaceType, CloneBoundAssumption DEF Entry, Ids
<1>2. QED BY <1>1 DEF Advanced, EntryMap

\* ObjectNum after an open is above all the checkpoint names.
LEMMA NextAbove ==
    ASSUME Types, NEW v \in Volumes
    PROVE  NextObject(v) \in Nat /\ \A b \in Blocks : ckpt[v][b].obj < NextObject(v)
<1> DEFINE S == {confObj[v]} \cup {ckpt[v][b].obj + 1 : b \in Blocks}
           n == confObj[v] + MaxChunks + 1
<1>1. confObj[v] \in Nat /\ MaxChunks \in Nat
  BY CloneBoundAssumption DEF Types, VolTypes
<1>2. \A b \in Blocks : ckpt[v][b].obj \in 0..MaxChunks
  <2>1. ckpt[v] \in EntryMap
    BY DEF Types, DataTypes
  <2>2. QED BY <2>1 DEF EntryMap, Entry
<1>3. S \in SUBSET Nat /\ S # {} /\ n \in Nat /\ \A x \in S : x <= n
  BY <1>1, <1>2
<1>4. \A b \in Blocks : ckpt[v][b].obj + 1 \in S
  OBVIOUS
<1>5. NextObject(v) = Max(S)
  BY DEF NextObject
<1> HIDE DEF S, n
<1>6. Max(S) \in S /\ \A y \in S : y <= Max(S)
  BY <1>3, MaxIsGreatest
<1> DEFINE m == Max(S)
<1>7. m \in Nat /\ \A y \in S : y <= m
  BY <1>3, <1>6
<1> HIDE DEF m
<1>8. ASSUME NEW b \in Blocks PROVE ckpt[v][b].obj < m
  <2>1. ckpt[v][b].obj + 1 <= m /\ ckpt[v][b].obj \in Nat
    BY <1>1, <1>2, <1>4, <1>7
  <2>2. QED BY <2>1, <1>7
<1>9. QED BY <1>5, <1>7, <1>8 DEF m

-----------------------------------------------------------------------------
(* What no step takes away.                                                *)

\* The only chunk a step may write is the one ObjectNum of an open volume names;
\* checkpoints only gain; snapshots stay, and so does what a volume came from.
Kept ==
    /\ \A u \in Volumes, i \in Ids :
          objects'[u][i] = objects[u][i] \/ (Open(u) /\ i = objNum[u])
    /\ \A u \in Volumes, b \in Blocks : ckpt[u][b].obj <= ckpt'[u][b].obj
    /\ \A s \in DOMAIN snaps : s \in DOMAIN snaps' /\ snaps'[s] = snaps[s]
    /\ \A u \in Volumes : phase[u] # "absent" =>
          phase'[u] # "absent" /\ first'[u] = first[u] /\ conf'[u] = conf[u]

VolInvs == \A u \in Volumes : VolInv(u)

\* A step whose types are right and that keeps all this.
Steady == Types /\ Types' /\ Kept /\ VolInvs /\ SnapsKnown

\* What an entry below ObjectNum holds stays.
LEMMA StableRead ==
    ASSUME Kept, NEW u \in Volumes, NEW b \in Blocks, NEW e, e.obj \in Nat,
           ~Open(u) \/ e.obj < objNum[u], objNum[u] \in Nat
    PROVE  ReadAt(objects'[u], b, e) = ReadAt(objects[u], b, e)
<1>1. CASE e.obj \notin Ids
  BY <1>1 DEF ReadAt
<1>2. CASE e.obj \in Ids
  <2>1. ~(Open(u) /\ e.obj = objNum[u])
    OBVIOUS
  <2>2. objects'[u][e.obj] = objects[u][e.obj]
    BY <1>2, <2>1 DEF Kept
  <2>3. QED BY <2>2 DEF ReadAt
<1>3. QED BY <1>1, <1>2

\* ObjectNum of an open volume is above every id its checkpoint vouches for.
LEMMA VouchedStable ==
    ASSUME Types, VolInvs, NEW u \in Volumes, NEW id \in Nat, VouchedBy(ckpt[u], id), Open(u)
    PROVE  id < objNum[u]
<1>1. PICK c \in Blocks : id <= ckpt[u][c].obj
  BY DEF VouchedBy
<1>2. ckpt[u][c].obj \in Nat /\ own[u][c].obj \in Nat /\ objNum[u] \in Nat
  BY TypesElements DEF Elements
<1>3. ckpt[u][c].obj <= own[u][c].obj /\ own[u][c].obj < objNum[u]
  BY DEF VolInvs, VolInv, Numbers
<1>4. QED BY <1>1, <1>2, <1>3

\* What layers give in a block stays if the entries that have it are below the
\* ObjectNum of their volumes.
LEMMA InhStable ==
    ASSUME Types, Kept, NEW L \in Seq(Layer), NEW b \in Blocks,
           \A i \in DOMAIN L : \/ L[i].map[b] = NoEntry \/ ~Open(L[i].vol)
                               \/ L[i].map[b].obj < objNum[L[i].vol]
    PROVE  InhIn(objects', L, b) = InhIn(objects, L, b)
<1>1. CASE \A i \in DOMAIN L : L[i].map[b] = NoEntry
  BY <1>1, InheritedEnds
<1>2. ASSUME NEW i \in DOMAIN L, Ends(L, b, i)
      PROVE  InhIn(objects', L, b) = InhIn(objects, L, b)
  <2> DEFINE u == L[i].vol
             e == L[i].map[b]
  <2>1. u \in Volumes /\ e \in Entry
    <3>1. L[i] \in Layer
      OBVIOUS
    <3>2. QED BY <3>1 DEF Layer, EntryMap
  <2>2. e.obj \in Nat /\ objNum[u] \in Nat
    BY <2>1, TypesElements, CloneBoundAssumption DEF Entry, Elements
  <2>3. ~Open(u) \/ e.obj < objNum[u]
    BY <1>2 DEF Ends
  <2>4. /\ InhIn(objects', L, b) = ReadAt(objects'[u], b, e)
        /\ InhIn(objects, L, b) = ReadAt(objects[u], b, e)
    BY <1>2, InheritedEnds
  <2> HIDE DEF u, e
  <2>5. QED BY <2>1, <2>2, <2>3, <2>4, StableRead
<1>3. QED BY <1>1, <1>2, EndsSomewhere

\* An entry of known layers is below the ObjectNum of its volume.
LEMMA KnownStable ==
    ASSUME Types, VolInvs, NEW L \in Seq(Layer), NEW A, Known(ckpt, L, A), NEW i \in DOMAIN L,
           NEW b \in Blocks, b \notin A
    PROVE  \/ L[i].map[b] = NoEntry \/ ~Open(L[i].vol)
           \/ L[i].map[b].obj < objNum[L[i].vol]
<1>1. L[i] \in Layer
  OBVIOUS
<1>2. L[i].vol \in Volumes /\ L[i].map[b] \in Entry
  BY <1>1 DEF Layer, EntryMap
<1>3. L[i].map[b].obj \in Nat
  BY <1>2, CloneBoundAssumption DEF Entry
<1>4. L[i].map[b] = NoEntry \/ VouchedBy(ckpt[L[i].vol], L[i].map[b].obj)
  BY DEF Known
<1>5. QED BY <1>2, <1>3, <1>4, VouchedStable

\* What layers that name only vouched chunks give stays.
LEMMA InhKept ==
    ASSUME Steady, NEW L \in Seq(Layer), NEW A, Known(ckpt, L, A), NEW b \in Blocks, b \notin A
    PROVE  InhIn(objects', L, b) = InhIn(objects, L, b)
<1>1. \A i \in DOMAIN L : \/ L[i].map[b] = NoEntry \/ ~Open(L[i].vol)
                           \/ L[i].map[b].obj < objNum[L[i].vol]
  BY KnownStable DEF Steady
<1>2. QED BY <1>1, InhStable DEF Steady

\* A later checkpoint vouches for what an earlier one does.
LEMMA VouchedKept ==
    ASSUME Types, Types', Kept, NEW u \in Volumes, NEW id \in Nat, VouchedBy(ckpt[u], id)
    PROVE  VouchedBy(ckpt'[u], id)
<1>1. PICK c \in Blocks : id <= ckpt[u][c].obj
  BY DEF VouchedBy
<1>2. ckpt[u][c].obj \in Nat
  BY TypesElements DEF Elements
<1>3. ckpt'[u][c].obj \in Nat
  BY TypesElementsNext DEF Elements
<1>4. ckpt[u][c].obj <= ckpt'[u][c].obj
  BY DEF Kept
<1>5. id <= ckpt'[u][c].obj
  BY <1>1, <1>2, <1>3, <1>4
<1>6. QED BY <1>5 DEF VouchedBy

\* Known layers stay known.
LEMMA KnownKept ==
    ASSUME Steady, NEW L \in Seq(Layer), NEW A, Known(ckpt, L, A)
    PROVE  Known(ckpt', L, A)
<1> SUFFICES ASSUME NEW i \in DOMAIN L, NEW b \in Blocks \ A, L[i].map[b] # NoEntry
             PROVE  VouchedBy(ckpt'[L[i].vol], L[i].map[b].obj)
  BY DEF Known
<1>1. L[i] \in Layer
  OBVIOUS
<1>2. L[i].vol \in Volumes /\ L[i].map[b] \in Entry
  BY <1>1 DEF Layer, EntryMap
<1>3. L[i].map[b].obj \in Nat
  BY <1>2, CloneBoundAssumption DEF Entry
<1>4. VouchedBy(ckpt[L[i].vol], L[i].map[b].obj)
  BY DEF Known
<1>5. QED BY <1>2, <1>3, <1>4, VouchedKept DEF Steady

\* The layers of a snapshot stay, and so does what they give and vouch for.
LEMMA LayersKept ==
    ASSUME Steady, NEW s \in 0..Len(snaps)
    PROVE  /\ LayersIn(snaps', s) = LayersIn(snaps, s) /\ DoubtIn(snaps', s) = DoubtIn(snaps, s)
           /\ Known(ckpt, LayersIn(snaps, s), DoubtIn(snaps, s))
           /\ \A b \in Blocks \ DoubtIn(snaps, s) :
                 InhIn(objects', LayersIn(snaps, s), b) = InhIn(objects, LayersIn(snaps, s), b)
<1>1. LayersIn(snaps', s) = LayersIn(snaps, s) /\ DoubtIn(snaps', s) = DoubtIn(snaps, s)
  <2>1. CASE s = 0
    BY <2>1 DEF LayersIn, DoubtIn
  <2>2. CASE s # 0
    <3>1. s \in DOMAIN snaps
      BY <2>2 DEF Steady, Types, SnapTypes
    <3>2. snaps'[s] = snaps[s]
      BY <3>1 DEF Steady, Kept
    <3>3. QED BY <2>2, <3>2 DEF LayersIn, DoubtIn
  <2>3. QED BY <2>1, <2>2
<1>2. LayersIn(snaps, s) \in Seq(Layer)
  BY LayersType DEF Steady
<1>3. Known(ckpt, LayersIn(snaps, s), DoubtIn(snaps, s))
  <2>1. CASE s = 0
    BY <2>1 DEF LayersIn, Known
  <2>2. CASE s # 0
    <3>1. s \in DOMAIN snaps
      BY <2>2 DEF Steady, Types, SnapTypes
    <3>2. QED BY <3>1 DEF Steady, SnapsKnown
  <2>3. QED BY <2>1, <2>2
<1>4. QED BY <1>1, <1>2, <1>3, InhKept

\* What a volume was created with is what it still inherits.
LEMMA FirstKept ==
    ASSUME Steady, NEW u \in Volumes, phase[u] # "absent"
    PROVE  /\ conf'[u] = conf[u] /\ DoubtIn(snaps', conf'[u]) = DoubtIn(snaps, conf[u])
           /\ LayersIn(snaps', conf'[u]) = LayersIn(snaps, conf[u])
           /\ \A b \in Blocks \ DoubtIn(snaps, conf[u]) :
                 /\ first'[u][b] = first[u][b]
                 /\ first'[u][b] = InhIn(objects', LayersIn(snaps, conf[u]), b)
<1>1. conf[u] \in 0..Len(snaps)
  BY TypesElements DEF Steady, Elements
<1>2. conf'[u] = conf[u] /\ first'[u] = first[u]
  BY DEF Steady, Kept
<1>3. /\ LayersIn(snaps', conf[u]) = LayersIn(snaps, conf[u])
      /\ DoubtIn(snaps', conf[u]) = DoubtIn(snaps, conf[u])
      /\ \A b \in Blocks \ DoubtIn(snaps, conf[u]) :
            InhIn(objects', LayersIn(snaps, conf[u]), b) =
               InhIn(objects, LayersIn(snaps, conf[u]), b)
  BY <1>1, LayersKept
<1>4. \A b \in Blocks \ DoubtIn(snaps, conf[u]) :
          first[u][b] = InhIn(objects, LayersIn(snaps, conf[u]), b)
  BY DEF Steady, VolInvs, VolInv, Histories
<1>5. QED BY <1>2, <1>3, <1>4

\* The variables of a volume that a step leaves alone.
Same(u) ==
    /\ phase'[u] = phase[u] /\ conf'[u] = conf[u] /\ link'[u] = link[u]
    /\ layers'[u] = layers[u] /\ log'[u] = log[u] /\ taken'[u] = taken[u]
    /\ mapped'[u] = mapped[u] /\ own'[u] = own[u] /\ ckpt'[u] = ckpt[u]
    /\ objNum'[u] = objNum[u] /\ objects'[u] = objects[u] /\ drainer'[u] = drainer[u]
    /\ segment'[u] = segment[u] /\ guest'[u] = guest[u] /\ first'[u] = first[u]
    /\ cut'[u] = cut[u] /\ saved'[u] = saved[u]

Others(v) == \A u \in Volumes \ {v} : Same(u)

\* The invariant of a volume that a step leaves alone.
LEMMA SameVol ==
    ASSUME Steady, NEW u \in Volumes, Same(u)
    PROVE  VolInv(u)'
<1>1. VolInv(u)
  BY DEF Steady, VolInvs
<1>2. Numbers(u)'
  BY <1>1 DEF VolInv, Numbers, Same, Open
<1>3. Linked(u)'
  <2>1. CASE Open(u)
    BY <1>1, <2>1, FirstKept DEF VolInv, Linked, Open, Same
  <2>2. CASE ~Open(u)
    BY <2>2 DEF Linked, Open, Same
  <2>3. QED BY <2>1, <2>2
<1>4. Histories(u)'
  <2>1. SUFFICES ASSUME phase[u] # "absent",
                        NEW b \in Blocks, b \notin DoubtIn(snaps', conf'[u])
                 PROVE  /\ first'[u][b] = InhIn(objects', LayersIn(snaps', conf'[u]), b)
                        /\ guest'[u][b] = Current(u, b)'
                        /\ b \notin saved'[u].left =>
                              saved'[u].image[b] = Val(objects'[u], first'[u][b], b, ckpt'[u][b])
                        /\ drainer'[u] # "free" /\ b \notin cut'[u].left =>
                              cut'[u].image[b] =
                                 IF b \in segment'[u] THEN log'[u][b][taken'[u][b]]
                                 ELSE Val(objects'[u], first'[u][b], b, own'[u][b])
    BY DEF Histories, Same
  <2>2. b \notin DoubtIn(snaps, conf[u])
    BY <2>1, FirstKept
  <2>3. first'[u][b] = InhIn(objects', LayersIn(snaps', conf'[u]), b)
    BY <2>1, <2>2, FirstKept
  <2>4. QED BY <1>1, <2>1, <2>2, <2>3 DEF VolInv, Histories, Current, Same
<1>5. QED BY <1>2, <1>3, <1>4 DEF VolInv

\* A step of one volume leaves the invariants of the others.
LEMMA OtherVols ==
    ASSUME Steady, NEW v \in Volumes, Others(v), VolInv(v)'
    PROVE  VolInvs'
BY SameVol DEF Others, VolInvs

\* Saved snapshots stay known and right in a step that saves none.
LEMMA SavedKept ==
    ASSUME Steady, SnapshotFaithful, UNCHANGED snaps
    PROVE  SnapsKnown' /\ SnapshotFaithful'
<1>1. ASSUME NEW s \in DOMAIN snaps PROVE Known(ckpt', LayersIn(snaps, s), DoubtIn(snaps, s))
  <2>1. s \in 0..Len(snaps)
    BY DEF Steady, Types, SnapTypes
  <2>2. LayersIn(snaps, s) \in Seq(Layer)
    BY <2>1, LayersType DEF Steady
  <2>3. QED BY <2>1, <2>2, LayersKept, KnownKept
<1>2. QED BY <1>1 DEF SnapsKnown, SnapshotFaithful
-----------------------------------------------------------------------------
(* The snapshot being made.                                                *)

\* sp with the same sections, at the same step or just past its drain.
Grown ==
    /\ sp'.at = sp.at \/ (sp.at = "draining" /\ sp'.at = "drained")
    /\ sp'.src = sp.src /\ sp'.own = sp.own /\ sp'.flat = sp.flat
    /\ sp'.left = sp.left /\ sp'.ahead = sp.ahead /\ sp.torn \subseteq sp'.torn
    /\ \A b \in Blocks : sp.fits[b] \subseteq sp'.fits[b]

\* The parts of a call have their types.
LEMMA SpTypes ==
    ASSUME Types
    PROVE  /\ sp.at \in {"idle", "draining", "drained", "frozen", "built", "remote"}
           /\ sp.own \in EntryMap /\ sp.flat \in Seq(Layer) /\ sp.obj \in Nat
           /\ sp.torn \subseteq Blocks /\ sp.left \subseteq Blocks /\ sp.ahead \subseteq Blocks
           /\ \A b \in Blocks : sp.own[b] \in Entry /\ sp.own[b].obj \in Nat
           /\ sp.fits \in [Blocks -> SUBSET Record]
<1>1. sp \in SnapCall
  BY DEF Types, SnapTypes
<1>2. sp.own \in EntryMap
  BY <1>1 DEF SnapCall
<1>3. \A b \in Blocks : sp.own[b] \in Entry /\ sp.own[b].obj \in Nat
  BY <1>2, CloneBoundAssumption DEF EntryMap, Entry
<1>4. QED BY <1>1, <1>3 DEF SnapCall

\* What a clone of the snapshot being made would find stays.
LEMMA MadeKept ==
    ASSUME Steady, Making, sp.at \in {"built", "remote"}, NEW b \in Cared
    PROVE  InhIn(objects', Made, b) = InhIn(objects, Made, b)
<1> DEFINE x == [vol |-> sp.src, map |-> sp.own]
           M == <<x>> \o sp.flat
           D == DoubtIn(snaps, conf[sp.src])
<1>1. sp.src \in Volumes /\ Known(ckpt, sp.flat, D) /\ Sections
  BY DEF Making
<1>2. sp.own \in EntryMap /\ sp.flat \in Seq(Layer) /\ sp.own[b].obj \in Nat /\ b \in Blocks
  BY SpTypes DEF Steady, Cared
<1>3. x \in Layer /\ x.vol = sp.src /\ x.map = sp.own
  BY <1>1, <1>2 DEF Layer
<1> HIDE DEF x, D
<1>4. /\ M \in Seq(Layer) /\ DOMAIN M = 1..(Len(sp.flat) + 1) /\ M[1] = x
      /\ \A i \in DOMAIN sp.flat : M[i + 1] = sp.flat[i]
  BY <1>2, <1>3, InFront
<1>5. DOMAIN sp.flat = 1..Len(sp.flat) /\ Len(sp.flat) \in Nat
  BY <1>2
<1> HIDE DEF M
<1>6. sp.own[b] = NoEntry \/ ~Open(sp.src) \/ sp.own[b].obj < objNum[sp.src]
  <2>1. CASE sp.at = "built"
    BY <1>1, <1>2, <2>1 DEF Sections
  <2>2. CASE sp.at = "remote"
    <3>1. sp.own[b] = NoEntry \/ VouchedBy(ckpt[sp.src], sp.own[b].obj)
      BY <1>1, <1>2, <2>2 DEF Sections
    <3>2. QED BY <3>1, <1>1, <1>2, VouchedStable DEF Steady
  <2>3. QED BY <2>1, <2>2
<1>7. ASSUME NEW k \in DOMAIN M
      PROVE  \/ M[k].map[b] = NoEntry \/ ~Open(M[k].vol) \/ M[k].map[b].obj < objNum[M[k].vol]
  <2>1. CASE k = 1
    BY <1>3, <1>4, <1>6, <2>1
  <2>2. CASE k # 1
    <3>1. k - 1 \in DOMAIN sp.flat /\ k = (k - 1) + 1
      BY <1>4, <1>5, <2>2
    <3>2. M[k] = sp.flat[k - 1]
      BY <1>4, <3>1
    <3>3. b \notin D
      BY DEF Cared, D
    <3>4. QED BY <1>1, <1>2, <3>1, <3>2, <3>3, KnownStable DEF Steady
  <2>3. QED BY <2>1, <2>2
<1>8. InhIn(objects', M, b) = InhIn(objects, M, b)
  BY <1>2, <1>4, <1>7, InhStable DEF Steady
<1>9. QED BY <1>8 DEF M, x, Made

\* CreateSnapshot keeps what it has, beside any step that does not end it.
LEMMA MakingKept ==
    ASSUME Steady, Making, sp.at # "idle", Grown,
           sp.at # "remote" => phase'[sp.src] = "up" /\ objNum[sp.src] <= objNum'[sp.src]
    PROVE  Making'
<1> DEFINE v == sp.src
           D == DoubtIn(snaps, conf[v])
<1>1. v \in Volumes /\ phase[v] # "absent" /\ Known(ckpt, sp.flat, D) /\ Sections
  BY DEF Making
<1>2. /\ sp.own \in EntryMap /\ sp.flat \in Seq(Layer)
      /\ \A b \in Blocks : sp.own[b].obj \in Nat
      /\ sp.at \in {"idle", "draining", "drained", "frozen", "built", "remote"}
  BY SpTypes DEF Steady
<1>3. /\ conf'[v] = conf[v] /\ DoubtIn(snaps', conf'[v]) = D
      /\ \A b \in Blocks \ D : first'[v][b] = first[v][b]
      /\ phase'[v] # "absent"
  BY <1>1, FirstKept DEF Steady, Kept
<1>4. sp'.src = v /\ Cared' = Cared
  BY <1>3 DEF Grown, Cared
<1>5. Known(ckpt', sp'.flat, DoubtIn(snaps', conf'[v]))
  BY <1>1, <1>2, <1>3, KnownKept DEF Grown
<1>6. objNum[v] \in Nat
  BY <1>1, TypesElements DEF Steady, Elements
<1>7. objNum'[v] \in Nat
  BY <1>1, TypesElementsNext DEF Steady, Elements
<1> HIDE DEF D, v
<1>8. sp'.at \in {"draining", "drained", "frozen"} => sp'.flat = <<>>
  BY <1>1 DEF Grown, Sections
<1>9. sp'.at = "remote" => sp'.ahead = {}
  BY <1>1 DEF Grown, Sections
<1>10. ASSUME sp'.at \in {"frozen", "built", "remote"}, NEW b \in Blocks \ sp'.ahead,
              sp'.own[b] # NoEntry
       PROVE  VouchedBy(ckpt'[v], sp'.own[b].obj)
  <2>1. VouchedBy(ckpt[v], sp.own[b].obj)
    BY <1>1, <1>10 DEF Grown, Sections, v
  <2>2. QED BY <1>1, <1>2, <2>1, VouchedKept DEF Grown, Steady
<1>11. ASSUME sp'.at \in {"frozen", "built"}, NEW b \in Blocks
       PROVE  sp'.own[b].obj < objNum'[v]
  <2>1. sp.own[b].obj < objNum[v] /\ objNum[v] <= objNum'[v]
    BY <1>1, <1>11 DEF Grown, Sections, v
  <2>2. QED BY <1>2, <1>6, <1>7, <2>1 DEF Grown
<1>12. ASSUME sp'.at = "frozen", NEW b \in Cared
       PROVE  Val(objects'[v], first'[v][b], b, sp'.own[b]) \in sp'.fits[b]
  <2>1. sp.at = "frozen"
    BY <1>12 DEF Grown
  <2>2. b \in Blocks \ D
    BY DEF Cared, D, v
  <2>3. sp.own[b].obj < objNum[v] /\ Val(objects[v], first[v][b], b, sp.own[b]) \in sp.fits[b]
    BY <1>1, <2>1, <2>2 DEF Sections, v
  <2>4. ReadAt(objects'[v], b, sp.own[b]) = ReadAt(objects[v], b, sp.own[b])
    BY <1>1, <1>2, <1>6, <2>2, <2>3, StableRead DEF Steady
  <2>5. Val(objects'[v], first'[v][b], b, sp.own[b]) = Val(objects[v], first[v][b], b, sp.own[b])
    BY <1>3, <2>2, <2>4 DEF Val
  <2>6. QED BY <2>2, <2>3, <2>5 DEF Grown
<1>13. ASSUME sp'.at \in {"built", "remote"}, NEW b \in Cared \ sp'.torn
       PROVE  InhIn(objects', Made', b) \in sp'.fits[b]
  <2>1. sp.at \in {"built", "remote"} /\ Made' = Made
    BY <1>13 DEF Grown, Made
  <2>2. b \in Cared \ sp.torn /\ b \in Blocks
    BY DEF Grown, Cared
  <2>3. InhIn(objects, Made, b) \in sp.fits[b]
    BY <1>1, <2>1, <2>2 DEF Sections
  <2>4. InhIn(objects', Made, b) = InhIn(objects, Made, b)
    BY <2>1, <2>2, MadeKept
  <2>5. QED BY <2>1, <2>2, <2>3, <2>4 DEF Grown
<1>14. Sections'
  BY <1>4, <1>8, <1>9, <1>10, <1>11, <1>12, <1>13 DEF Sections
<1>15. sp'.at # "remote" => phase'[v] = "up"
  BY DEF Grown, v
<1>16. QED BY <1>1, <1>3, <1>4, <1>5, <1>14, <1>15 DEF Making

\* So do the records it may freeze, if its volume is left alone.
LEMMA GrowingKept ==
    ASSUME Steady, Making, Growing, sp' = sp,
           sp.at \in {"draining", "drained", "frozen"} => Same(sp.src)
    PROVE  Growing'
<1>1. CASE sp.at \in {"draining", "drained", "frozen"}
  <2>1. sp.src \in Volumes /\ phase[sp.src] # "absent" /\ Same(sp.src)
    BY <1>1 DEF Making
  <2>2. Cared' = Cared /\ \A b \in Cared : first'[sp.src][b] = first[sp.src][b] /\ b \in Blocks
    BY <2>1, FirstKept DEF Cared
  <2>3. \A b \in Cared : Fitting(b)' = Fitting(b)
    BY <2>1, <2>2 DEF Fitting, Same
  <2>4. QED BY <1>1, <2>1, <2>2, <2>3 DEF Growing, Same
<1>2. CASE sp.at \notin {"draining", "drained", "frozen"}
  BY <1>2 DEF Growing
<1>3. QED BY <1>1, <1>2
-----------------------------------------------------------------------------
(* Guest writes.                                                           *)

\* What a read returns is a record, and in a volume that is up it is what the
\* guest has, but for the doubtful blocks of its base.
LEMMA ReadIs ==
    ASSUME Types, VolInvs, NEW v \in Volumes, phase[v] = "up", NEW b \in Blocks
    PROVE  /\ Read(v, b) \in Record
           /\ b \notin DoubtIn(snaps, conf[v]) => Read(v, b) = guest[v][b]
<1>1. /\ log[v][b] \in Seq(Record) /\ Len(log[v][b]) \in Nat /\ mapped[v][b] \in Nat
      /\ objects[v] \in [Ids -> Chunk] /\ layers[v] \in Seq(Layer)
  BY TypesElements DEF Elements
<1>2. VolInv(v)
  BY DEF VolInvs
<1>3. layers[v] = LayersIn(snaps, conf[v])
  BY <1>2 DEF VolInv, Linked, Open
<1>4. CASE mapped[v][b] < Len(log[v][b])
  <2>1. Read(v, b) = log[v][b][Len(log[v][b])] /\ Len(log[v][b]) \in 1..Len(log[v][b])
    BY <1>1, <1>4 DEF Read
  <2>2. Read(v, b) \in Record
    BY <1>1, <2>1
  <2>3. QED BY <1>2, <1>4, <2>1, <2>2 DEF VolInv, Histories, Current
<1>5. CASE ~(mapped[v][b] < Len(log[v][b])) /\ own[v][b] # NoEntry
  <2>1. Read(v, b) = ReadAt(objects[v], b, own[v][b])
    BY <1>5, Unfolded DEF Read
  <2>2. QED BY <1>1, <1>2, <1>5, <2>1, ReadAtType DEF VolInv, Histories, Current, Val
<1>6. CASE ~(mapped[v][b] < Len(log[v][b])) /\ own[v][b] = NoEntry
  <2>1. Read(v, b) = InhIn(objects, layers[v], b)
    BY <1>6, Unfolded DEF Read
  <2>2. QED BY <1>1, <1>2, <1>3, <1>6, <2>1, InheritedType DEF VolInv, Histories, Current, Val
<1>7. QED BY <1>4, <1>5, <1>6

\* One half, or all, of a record replaced.
LEMMA Spliced ==
    ASSUME NEW r \in Record, NEW H, NEW n \in Nat
    PROVE  [h \in Halves |-> IF h \in H THEN n ELSE r[h]] \in Record
BY DEF Record

\* A guest write, by its changes.
LEMMA WriteIs ==
    ASSUME Types, VolInvs, NEW v \in Volumes, NEW c \in Blocks, NEW H, Write(v, c, H)
    PROVE  /\ Types' /\ Others(v) /\ phase[v] = "up" /\ UNCHANGED snaps
           /\ UNCHANGED <<phase, conf, link, layers, taken, mapped, own, ckpt, objNum, objects,
                          drainer, segment, first, cut, saved>>
           /\ \E new \in Record :
                 /\ c \notin DoubtIn(snaps, conf[v]) => guest'[v][c] = new
                 /\ log'[v][c] = Append(log[v][c], new)
                 /\ \A b \in Blocks \ {c} : log'[v][b] = log[v][b] /\ guest'[v][b] = guest[v][b]
           /\ IF sp.src = v /\ sp.at \in {"draining", "drained"}
              THEN Grown /\ sp'.at = sp.at /\ sp'.torn = sp.torn /\ guest'[v][c] \in sp'.fits[c]
              ELSE sp' = sp
<1> DEFINE n == writes + 1
           new == [h \in Halves |-> IF h \in H THEN n ELSE Read(v, c)[h]]
           had == [h \in Halves |-> IF h \in H THEN n ELSE guest[v][c][h]]
<1>1. n \in Nat /\ writes' = n /\ phase[v] = "up"
  BY DEF Write, Types, PastTypes
<1>2. Read(v, c) \in Record /\ guest[v][c] \in Record /\ log[v][c] \in Seq(Record)
  BY <1>1, ReadIs, TypesElements DEF Elements
<1>3. new \in Record /\ had \in Record
  BY <1>1, <1>2, Spliced
<1>4. log' = [log EXCEPT ![v][c] = Append(@, new)] /\ guest' = [guest EXCEPT ![v][c] = had]
  BY <1>1 DEF Write
<1>5. c \notin DoubtIn(snaps, conf[v]) => had = new
  BY <1>1, ReadIs
<1> HIDE DEF n, new, had
<1>6. /\ log \in [Volumes -> [Blocks -> Seq(Record)]]
      /\ guest \in [Volumes -> [Blocks -> Record]]
  BY DEF Types, DataTypes, PastTypes
<1>7. /\ log' \in [Volumes -> [Blocks -> Seq(Record)]]
      /\ guest' \in [Volumes -> [Blocks -> Record]]
      /\ log'[v][c] = Append(log[v][c], new) /\ guest'[v][c] = had
      /\ \A b \in Blocks \ {c} : log'[v][b] = log[v][b] /\ guest'[v][b] = guest[v][b]
      /\ \A u \in Volumes \ {v} : log'[u] = log[u] /\ guest'[u] = guest[u]
  <2>1. Append(log[v][c], new) \in Seq(Record)
    BY <1>2, <1>3
  <2>2. QED BY <1>3, <1>4, <1>6, <2>1
<1>8. /\ UNCHANGED <<phase, conf, link, layers, taken, mapped, own, ckpt, objNum, objects,
                     drainer, segment, first, cut, saved>>
      /\ UNCHANGED <<snaps, confObj, stops, faults>>
  BY DEF Write, volVars, mapVars, histVars
<1>9. Others(v)
  BY <1>7, <1>8 DEF Others, Same
<1>10. sp \in SnapCall
  BY DEF Types, SnapTypes
<1>11. CASE sp.src = v /\ sp.at \in {"draining", "drained"}
  <2>1. sp' = [sp EXCEPT !.fits[c] = @ \cup {guest'[v][c]}]
    BY <1>11 DEF Write
  <2>2. sp' = [sp EXCEPT !.fits = [sp.fits EXCEPT ![c] = @ \cup {had}]]
    BY <2>1, <1>7, <1>10 DEF SnapCall
  <2>3. [sp.fits EXCEPT ![c] = @ \cup {had}] \in [Blocks -> SUBSET Record]
    BY <1>3, SpTypes
  <2>4. sp' \in SnapCall
    BY <2>2, <2>3, <1>10 DEF SnapCall
  <2>5. Grown /\ sp'.at = sp.at /\ sp'.torn = sp.torn /\ guest'[v][c] \in sp'.fits[c]
    BY <2>2, <1>7, <1>10, SpTypes DEF Grown, SnapCall
  <2>6. QED BY <2>4, <2>5, <1>1, <1>3, <1>5, <1>7, <1>8, <1>9, <1>11
        DEF Types, VolTypes, DataTypes, PastTypes, SnapTypes
<1>12. CASE ~(sp.src = v /\ sp.at \in {"draining", "drained"})
  <2>1. sp' = sp
    BY <1>12 DEF Write
  <2>2. QED BY <2>1, <1>1, <1>3, <1>5, <1>7, <1>8, <1>9, <1>12
        DEF Types, VolTypes, DataTypes, PastTypes, SnapTypes
<1>13. QED BY <1>11, <1>12

\* The sequence of a block's records after one more.
LEMMA Appended ==
    ASSUME NEW q \in Seq(Record), NEW r \in Record
    PROVE  /\ Len(q) \in Nat /\ Len(Append(q, r)) = Len(q) + 1
           /\ Append(q, r)[Len(q) + 1] = r
           /\ \A n \in 1..Len(q) : Append(q, r)[n] = q[n]
OBVIOUS

\* The parts of the invariant.
LEMMA Parts ==
    IInv => /\ Types /\ VolInvs /\ SnapsKnown /\ SnapDrains /\ Making /\ Growing
            /\ SnapshotFaithful
BY DEF IInv, VolInvs

\* The invariant after a step, from its parts.
LEMMA PartsNext ==
    ASSUME Types', VolInvs', SnapsKnown', SnapDrains', Making', Growing', SnapshotFaithful'
    PROVE  IInv'
BY DEF IInv, VolInvs

\* A guest write preserves the invariant.
LEMMA WriteStep ==
    ASSUME IInv, NEW v \in Volumes, NEW c \in Blocks, NEW H, Write(v, c, H)
    PROVE  IInv' /\ Kept
<1>1. /\ Types /\ VolInvs /\ SnapsKnown /\ SnapDrains /\ Making /\ Growing
      /\ SnapshotFaithful
  BY Parts
<1>2. /\ Types' /\ Others(v) /\ phase[v] = "up" /\ UNCHANGED snaps
      /\ UNCHANGED <<phase, conf, link, layers, taken, mapped, own, ckpt, objNum, objects,
                     drainer, segment, first, cut, saved>>
  BY <1>1, WriteIs
<1>3. PICK new \in Record :
          /\ c \notin DoubtIn(snaps, conf[v]) => guest'[v][c] = new
          /\ log'[v][c] = Append(log[v][c], new)
          /\ \A b \in Blocks \ {c} : log'[v][b] = log[v][b] /\ guest'[v][b] = guest[v][b]
  BY <1>1, WriteIs
<1>4. IF sp.src = v /\ sp.at \in {"draining", "drained"}
      THEN Grown /\ sp'.at = sp.at /\ sp'.torn = sp.torn /\ guest'[v][c] \in sp'.fits[c]
      ELSE sp' = sp
  BY <1>1, WriteIs
<1>5. \A b \in Blocks : /\ log[v][b] \in Seq(Record) /\ Len(log[v][b]) \in Nat
                        /\ taken[v][b] \in Nat /\ mapped[v][b] \in Nat
                        /\ mapped[v][b] <= taken[v][b] /\ taken[v][b] <= Len(log[v][b])
                        /\ b \in segment[v] => mapped[v][b] < taken[v][b]
  BY <1>1, TypesElements DEF Elements, VolInvs, VolInv, Numbers
<1>6. /\ Len(log'[v][c]) = Len(log[v][c]) + 1 /\ log'[v][c][Len(log[v][c]) + 1] = new
      /\ \A n \in 1..Len(log[v][c]) : log'[v][c][n] = log[v][c][n]
  BY <1>3, <1>5, Appended
<1>7. Kept
  BY <1>1, <1>2, TypesElements DEF Kept, Elements
<1>8. Steady
  BY <1>1, <1>2, <1>7 DEF Steady
<1>9. VolInv(v)'
  <2>1. VolInv(v) /\ phase[v] = "up" /\ phase'[v] = "up"
    BY <1>1, <1>2 DEF VolInvs
  <2>2. Numbers(v)'
    <3>1. \A b \in Blocks : taken'[v][b] <= Len(log'[v][b])
      BY <1>2, <1>3, <1>5, <1>6
    <3>2. QED BY <2>1, <3>1, <1>2 DEF VolInv, Numbers, Open
  <2>3. Linked(v)'
    BY <2>1, <1>2 DEF VolInv, Linked, Open
  <2>4. ASSUME NEW b \in Blocks, b \notin DoubtIn(snaps, conf[v])
        PROVE  /\ first[v][b] = InhIn(objects, LayersIn(snaps, conf[v]), b)
               /\ guest'[v][b] = Current(v, b)'
               /\ b \notin saved[v].left =>
                     saved[v].image[b] = Val(objects[v], first[v][b], b, ckpt[v][b])
               /\ drainer[v] # "free" /\ b \notin cut[v].left =>
                     cut[v].image[b] = IF b \in segment[v] THEN log'[v][b][taken[v][b]]
                                       ELSE Val(objects[v], first[v][b], b, own[v][b])
    <3>1. guest'[v][b] = Current(v, b)'
      <4>1. CASE b = c
        <5>1. mapped'[v][c] < Len(log'[v][c]) /\ log'[v][c][Len(log'[v][c])] = new
          BY <1>2, <1>5, <1>6
        <5>2. Current(v, c)' = new
          BY <5>1 DEF Current
        <5>3. QED BY <1>3, <2>4, <4>1, <5>2
      <4>2. CASE b # c
        BY <1>2, <1>3, <2>1, <2>4, <4>2 DEF Current, VolInv, Histories
      <4>3. QED BY <4>1, <4>2
    <3>2. b \in segment[v] => log'[v][b][taken[v][b]] = log[v][b][taken[v][b]]
      BY <1>3, <1>5, <1>6
    <3>3. QED BY <2>1, <2>4, <3>1, <3>2 DEF VolInv, Histories
  <2>5. Histories(v)'
    BY <1>2, <2>4 DEF Histories
  <2>6. QED BY <2>2, <2>3, <2>5 DEF VolInv
<1>10. VolInvs'
  BY <1>2, <1>8, <1>9, OtherVols
<1>11. SnapsKnown' /\ SnapshotFaithful'
  BY <1>1, <1>2, <1>8, SavedKept
<1>12. sp'.at = sp.at /\ sp'.src = sp.src
  BY <1>4 DEF Grown
<1>13. SnapDrains'
  BY <1>1, <1>2, <1>12 DEF SnapDrains
<1>14. Making'
  <2>1. CASE sp.at = "idle"
    BY <2>1, <1>12 DEF Making
  <2>2. CASE sp.at # "idle"
    <3>1. Grown
      BY <1>4 DEF Grown
    <3>2. sp.at # "remote" => phase'[sp.src] = "up" /\ objNum[sp.src] <= objNum'[sp.src]
      BY <1>1, <1>2, <2>2, TypesElements DEF Making, Elements
    <3>3. QED BY <1>1, <1>8, <2>2, <3>1, <3>2, MakingKept
  <2>3. QED BY <2>1, <2>2
<1>15. Growing'
  <2>1. CASE sp.src = v /\ sp.at \in {"draining", "drained"}
    <3>1. /\ Grown /\ sp'.at = sp.at /\ sp'.torn = sp.torn /\ guest'[v][c] \in sp'.fits[c]
          /\ sp'.src = v
      BY <1>4, <2>1 DEF Grown
    <3>2. Cared' = Cared
      BY <1>2, <3>1, <2>1 DEF Grown, Cared
    <3>3. ASSUME NEW b \in Cared PROVE Fitting(b)'
      <4>1. b \in Blocks /\ b \notin DoubtIn(snaps, conf[v]) /\ Fitting(b)
        BY <1>1, <2>1, <3>3 DEF Cared, Growing
      <4>2. sp.fits[b] \subseteq sp'.fits[b]
        BY <4>1, <3>1 DEF Grown
      <4>3. CASE b # c
        BY <1>2, <1>3, <2>1, <3>1, <4>1, <4>2, <4>3 DEF Fitting
      <4>4. CASE b = c
        <5>1. new \in sp'.fits[b]
          BY <1>3, <3>1, <4>1, <4>4
        <5>2. CASE sp.at = "draining" /\ b \in segment[v]
          <6>1. \A n \in taken[v][b]..Len(log[v][b]) : log[v][b][n] \in sp.fits[b]
            BY <2>1, <4>1, <5>2 DEF Fitting
          <6>2. ASSUME NEW n \in taken[v][b]..(Len(log[v][b]) + 1)
                PROVE  log'[v][b][n] \in sp'.fits[b]
            <7>1. CASE n = Len(log[v][b]) + 1
              BY <1>6, <4>4, <5>1, <7>1
            <7>2. CASE n # Len(log[v][b]) + 1
              <8>1. n \in taken[v][b]..Len(log[v][b]) /\ n \in 1..Len(log[v][b])
                BY <1>5, <4>1, <5>2, <7>2
              <8>2. QED BY <1>6, <4>2, <4>4, <6>1, <8>1
            <7>3. QED BY <7>1, <7>2
          <6>3. QED BY <6>2, <1>2, <1>6, <3>1, <4>4, <5>2 DEF Fitting
        <5>3. CASE ~(sp.at = "draining" /\ b \in segment[v])
          <6>1. /\ \A n \in (mapped[v][b] + 1)..Len(log[v][b]) : log[v][b][n] \in sp.fits[b]
                /\ Val(objects[v], first[v][b], b, own[v][b]) \in sp.fits[b]
            BY <2>1, <4>1, <5>3 DEF Fitting
          <6>2. ASSUME NEW n \in (mapped[v][b] + 1)..(Len(log[v][b]) + 1)
                PROVE  log'[v][b][n] \in sp'.fits[b]
            <7>1. CASE n = Len(log[v][b]) + 1
              BY <1>6, <4>4, <5>1, <7>1
            <7>2. CASE n # Len(log[v][b]) + 1
              <8>0. mapped[v][b] \in Nat /\ Len(log[v][b]) \in Nat
                BY <1>5, <4>1
              <8>1. n \in (mapped[v][b] + 1)..Len(log[v][b]) /\ n \in 1..Len(log[v][b])
                BY <8>0, <7>2
              <8>2. QED BY <1>6, <4>2, <4>4, <6>1, <8>1
            <7>3. QED BY <7>1, <7>2
          <6>3. QED BY <6>1, <6>2, <1>2, <1>6, <3>1, <4>2, <4>4, <5>3 DEF Fitting
        <5>4. QED BY <5>2, <5>3
      <4>5. QED BY <4>3, <4>4
    <3>4. QED BY <2>1, <3>1, <3>2, <3>3 DEF Growing
  <2>2. CASE sp.src # v
    <3>1. sp' = sp
      BY <1>4, <2>2
    <3>2. sp.at \in {"draining", "drained", "frozen"} => Same(sp.src)
      BY <1>1, <1>2, <2>2 DEF Making, Others
    <3>3. QED BY <1>1, <1>8, <3>1, <3>2, GrowingKept
  <2>3. CASE sp.src = v /\ sp.at \notin {"draining", "drained"}
    <3>1. sp' = sp
      BY <1>4, <2>3
    <3>2. Cared' = Cared
      BY <1>2, <3>1 DEF Cared
    <3>3. QED BY <1>1, <1>2, <2>3, <3>1, <3>2 DEF Growing
  <2>4. QED BY <2>1, <2>2, <2>3
<1> SUFFICES IInv'
  BY <1>7
<1>16. QED BY <1>2, <1>10, <1>11, <1>13, <1>14, <1>15, PartsNext

-----------------------------------------------------------------------------
(* Drains.                                                                 *)

\* A rotation, by its changes.
LEMMA RotateIs ==
    ASSUME Types, NEW v \in Volumes, NEW who \in {"bg", "snap"}, Rotate(v, who)
    PROVE  /\ VolTypes' /\ DataTypes' /\ PastTypes' /\ Others(v)
           /\ phase[v] = "up" /\ drainer[v] = "free"
           /\ UNCHANGED <<phase, conf, link, layers, log, mapped, own, ckpt, objNum, objects,
                          snaps, guest, first, saved>>
           /\ drainer'[v] = who /\ segment'[v] = Pending(v)
           /\ \A b \in Blocks : taken'[v][b] = Len(log[v][b])
           /\ cut'[v].image = guest[v] /\ cut'[v].left = Stranded(v)
<1> DEFINE lens == [b \in Blocks |-> Len(log[v][b])]
           mom == Moment(guest[v], Stranded(v))
<1>1. /\ UNCHANGED <<phase, conf, link, layers, log, mapped, own, ckpt, objNum, objects,
                     snaps, guest, first, saved>>
      /\ UNCHANGED <<confObj, writes, stops, faults>>
  BY DEF Rotate, volVars, mapVars
<1>2. /\ drainer' = [drainer EXCEPT ![v] = who] /\ segment' = [segment EXCEPT ![v] = Pending(v)]
      /\ taken' = [taken EXCEPT ![v] = lens] /\ cut' = [cut EXCEPT ![v] = mom]
      /\ phase[v] = "up" /\ drainer[v] = "free"
  BY DEF Rotate
<1>3. lens \in [Blocks -> Nat] /\ \A b \in Blocks : lens[b] = Len(log[v][b])
  BY TypesElements DEF Elements
<1>4. mom \in Instant /\ mom.image = guest[v] /\ mom.left = Stranded(v)
  BY DEF Moment, Instant, Types, PastTypes, Stranded
<1>5. Pending(v) \subseteq Blocks
  BY DEF Pending
<1> HIDE DEF lens, mom
<1>6. /\ drainer' \in [Volumes -> {"free", "bg", "snap"}] /\ drainer'[v] = who
      /\ segment' \in [Volumes -> SUBSET Blocks] /\ segment'[v] = Pending(v)
      /\ taken' \in [Volumes -> [Blocks -> Nat]] /\ taken'[v] = lens
      /\ \A u \in Volumes \ {v} :
            drainer'[u] = drainer[u] /\ segment'[u] = segment[u] /\ taken'[u] = taken[u]
  BY <1>2, <1>3, <1>5 DEF Types, DataTypes
<1>7. /\ cut' \in [Volumes -> Instant] /\ cut'[v] = mom
      /\ \A u \in Volumes \ {v} : cut'[u] = cut[u]
  BY <1>2, <1>4 DEF Types, PastTypes
<1>8. Others(v)
  BY <1>1, <1>6, <1>7 DEF Others, Same
<1>9. VolTypes' /\ DataTypes' /\ PastTypes'
  BY <1>1, <1>6, <1>7 DEF Types, VolTypes, DataTypes, PastTypes
<1>10. QED BY <1>1, <1>2, <1>3, <1>4, <1>6, <1>7, <1>8, <1>9

\* What the guest has in a block is its newest record, if the rotated segment
\* has it or the map.
LEMMA RotatedBlock ==
    ASSUME Types, VolInvs, NEW v \in Volumes, phase[v] = "up", NEW b \in Blocks,
           b \notin DoubtIn(snaps, conf[v]), b \notin Stranded(v)
    PROVE  /\ b \in Pending(v) =>
                 mapped[v][b] < Len(log[v][b]) /\ guest[v][b] = log[v][b][Len(log[v][b])]
           /\ b \notin Pending(v) =>
                 /\ mapped[v][b] = Len(log[v][b])
                 /\ guest[v][b] = Val(objects[v], first[v][b], b, own[v][b])
<1>1. /\ Len(log[v][b]) \in Nat /\ taken[v][b] \in Nat /\ mapped[v][b] \in Nat
      /\ mapped[v][b] <= taken[v][b] /\ taken[v][b] <= Len(log[v][b])
  BY TypesElements DEF Elements, VolInvs, VolInv, Numbers
<1>2. guest[v][b] = Current(v, b)
  BY DEF VolInvs, VolInv, Histories
<1>3. CASE b \in Pending(v)
  <2>1. mapped[v][b] < Len(log[v][b])
    BY <1>1, <1>3 DEF Pending
  <2>2. QED BY <1>2, <1>3, <2>1 DEF Current
<1>4. CASE b \notin Pending(v)
  <2>1. mapped[v][b] = Len(log[v][b])
    BY <1>1, <1>4 DEF Pending, Stranded
  <2>2. ~(mapped[v][b] < Len(log[v][b]))
    BY <2>1, <1>1
  <2>3. QED BY <1>2, <1>4, <2>1, <2>2 DEF Current
<1>5. QED BY <1>3, <1>4

\* A rotation keeps the invariants of the volumes.
LEMMA RotateVols ==
    ASSUME IInv, Types', NEW v \in Volumes, NEW who \in {"bg", "snap"}, Rotate(v, who)
    PROVE  Steady /\ VolInvs'
<1>1. Types /\ VolInvs /\ SnapsKnown
  BY Parts
<1>2. /\ Others(v)
      /\ phase[v] = "up" /\ drainer[v] = "free"
      /\ UNCHANGED <<phase, conf, link, layers, log, mapped, own, ckpt, objNum, objects,
                     snaps, guest, first, saved>>
      /\ drainer'[v] = who /\ segment'[v] = Pending(v)
      /\ \A b \in Blocks : taken'[v][b] = Len(log[v][b])
      /\ cut'[v].image = guest[v] /\ cut'[v].left = Stranded(v)
  BY <1>1, RotateIs
<1>3. Kept
  BY <1>1, <1>2, TypesElements DEF Kept, Elements
<1>4. Steady
  BY <1>1, <1>3 DEF Steady
<1>5. VolInv(v)
  BY <1>1 DEF VolInvs
<1>6. Numbers(v)'
  <2>1. ASSUME NEW b \in Blocks
        PROVE  /\ mapped'[v][b] <= taken'[v][b] /\ taken'[v][b] <= Len(log'[v][b])
               /\ b \in segment'[v] => mapped'[v][b] < taken'[v][b]
    <3>1. /\ Len(log[v][b]) \in Nat /\ taken[v][b] \in Nat /\ mapped[v][b] \in Nat
          /\ mapped[v][b] <= taken[v][b] /\ taken[v][b] <= Len(log[v][b])
      BY <1>1, <1>5, TypesElements DEF Elements, VolInv, Numbers
    <3>2. QED BY <3>1, <1>2 DEF Pending
  <2>2. drainer'[v] # "free"
    BY <1>2
  <2>3. QED BY <2>1, <2>2, <1>2, <1>5 DEF VolInv, Numbers, Open
<1>7. Linked(v)'
  BY <1>2, <1>5 DEF VolInv, Linked, Open
<1>8. ASSUME NEW b \in Blocks, b \notin DoubtIn(snaps, conf[v])
      PROVE  /\ first[v][b] = InhIn(objects, LayersIn(snaps, conf[v]), b)
             /\ guest[v][b] = Current(v, b)
             /\ b \notin saved[v].left =>
                   saved[v].image[b] = Val(objects[v], first[v][b], b, ckpt[v][b])
             /\ b \notin cut'[v].left =>
                   cut'[v].image[b] = IF b \in segment'[v] THEN log[v][b][taken'[v][b]]
                                      ELSE Val(objects[v], first[v][b], b, own[v][b])
  <2>1. b \notin cut'[v].left =>
            cut'[v].image[b] = IF b \in segment'[v] THEN log[v][b][taken'[v][b]]
                               ELSE Val(objects[v], first[v][b], b, own[v][b])
    BY <1>1, <1>2, <1>8, RotatedBlock
  <2>2. QED BY <2>1, <1>2, <1>5, <1>8 DEF VolInv, Histories
<1>9. Histories(v)'
  <2>1. \A b : Current(v, b)' = Current(v, b)
    BY <1>2 DEF Current
  <2>2. QED BY <2>1, <1>2, <1>8 DEF Histories
<1>10. VolInv(v)'
  BY <1>6, <1>7, <1>9 DEF VolInv
<1>11. QED BY <1>2, <1>4, <1>10, OtherVols

\* The start of a background drain preserves the invariant.
LEMMA StartDrainStep ==
    ASSUME IInv, NEW v \in Volumes, StartDrain(v)
    PROVE  IInv' /\ Kept
<1>1. /\ Types /\ VolInvs /\ SnapsKnown /\ SnapDrains /\ Making /\ Growing
      /\ SnapshotFaithful
  BY Parts
<1>2. Rotate(v, "bg") /\ sp' = sp
  BY DEF StartDrain
<1>3. /\ VolTypes' /\ DataTypes' /\ PastTypes' /\ Others(v)
      /\ phase[v] = "up" /\ drainer[v] = "free"
      /\ UNCHANGED <<phase, conf, link, layers, log, mapped, own, ckpt, objNum, objects,
                     snaps, guest, first, saved>>
      /\ drainer'[v] = "bg" /\ segment'[v] = Pending(v)
  BY <1>1, <1>2, RotateIs
<1>4. Types'
  BY <1>1, <1>2, <1>3 DEF Types, SnapTypes
<1>5. Steady /\ VolInvs'
  BY <1>2, <1>4, RotateVols
<1>6. SnapsKnown' /\ SnapshotFaithful'
  BY <1>1, <1>3, <1>5, SavedKept
<1>7. ~(sp.at = "draining" /\ sp.src = v)
  BY <1>1, <1>3 DEF SnapDrains
<1>8. SnapDrains'
  <2>1. \A u \in Volumes \ {v} : drainer'[u] = drainer[u]
    BY <1>3 DEF Others, Same
  <2>2. QED BY <2>1, <1>1, <1>2, <1>3, <1>7 DEF SnapDrains
<1>9. Making'
  <2>1. CASE sp.at = "idle"
    BY <2>1, <1>2 DEF Making
  <2>2. CASE sp.at # "idle"
    <3>1. Grown
      BY <1>2 DEF Grown
    <3>2. sp.at # "remote" => phase'[sp.src] = "up" /\ objNum[sp.src] <= objNum'[sp.src]
      BY <1>1, <1>3, <2>2, TypesElements DEF Making, Elements
    <3>3. QED BY <1>1, <1>5, <2>2, <3>1, <3>2, MakingKept
  <2>3. QED BY <2>1, <2>2
<1>10. Growing'
  <2>1. CASE sp.src # v
    <3>1. sp.at \in {"draining", "drained", "frozen"} => Same(sp.src)
      BY <1>1, <1>3, <2>1 DEF Making, Others
    <3>2. QED BY <1>1, <1>2, <1>5, <3>1, GrowingKept
  <2>2. CASE sp.src = v
    <3>1. Cared' = Cared /\ sp.at # "draining"
      BY <1>2, <1>3, <1>7, <2>2 DEF Cared
    <3>2. \A b \in Cared : Fitting(b)' = Fitting(b)
      BY <1>2, <1>3, <2>2, <3>1 DEF Fitting
    <3>3. QED BY <1>1, <1>2, <1>3, <2>2, <3>1, <3>2 DEF Growing
  <2>3. QED BY <2>1, <2>2
<1> SUFFICES IInv'
  BY <1>5 DEF Steady
<1>11. QED BY <1>4, <1>5, <1>6, <1>8, <1>9, <1>10, PartsNext

\* The start of CreateSnapshot's drain preserves the invariant.
LEMMA BeginSnapshotStep ==
    ASSUME IInv, NEW v \in Volumes, BeginSnapshot(v)
    PROVE  IInv' /\ Kept
<1>1. /\ Types /\ VolInvs /\ SnapsKnown /\ SnapDrains /\ Making /\ Growing
      /\ SnapshotFaithful
  BY Parts
<1> DEFINE f == [b \in Blocks |-> {guest[v][b]}]
<1>2. Rotate(v, "snap") /\ sp.at = "idle"
  BY DEF BeginSnapshot
<1>3. /\ VolTypes' /\ DataTypes' /\ PastTypes' /\ Others(v)
      /\ phase[v] = "up" /\ drainer[v] = "free"
      /\ UNCHANGED <<phase, conf, link, layers, log, mapped, own, ckpt, objNum, objects,
                     snaps, guest, first, saved>>
      /\ drainer'[v] = "snap" /\ segment'[v] = Pending(v)
      /\ \A b \in Blocks : taken'[v][b] = Len(log[v][b])
  BY <1>1, <1>2, RotateIs
<1>4. /\ f \in [Blocks -> SUBSET Record] /\ \A b \in Blocks : f[b] = {guest[v][b]}
  BY <1>1, TypesElements DEF Elements
<1>5. sp' = [NoSnap EXCEPT !.at = "draining", !.src = v, !.left = Stranded(v), !.fits = f]
  BY DEF BeginSnapshot
<1> HIDE DEF f
<1>6. /\ sp' \in SnapCall
      /\ sp'.at = "draining" /\ sp'.src = v /\ sp'.left = Stranded(v) /\ sp'.fits = f
      /\ sp'.flat = <<>>
  <2>1. NoSnap \in SnapCall /\ NoSnap.flat = <<>> /\ Stranded(v) \subseteq Blocks
    BY NoSnapType DEF NoSnap, Stranded
  <2> HIDE DEF NoSnap
  <2>2. QED BY <1>4, <1>5, <2>1 DEF SnapCall
<1>7. Types'
  BY <1>1, <1>3, <1>6 DEF Types, SnapTypes
<1>8. Steady /\ VolInvs'
  BY <1>2, <1>7, RotateVols
<1>9. SnapsKnown' /\ SnapshotFaithful'
  BY <1>1, <1>3, <1>8, SavedKept
<1>10. SnapDrains'
  <2>1. \A u \in Volumes \ {v} : drainer'[u] = drainer[u] /\ drainer[u] # "snap"
    BY <1>1, <1>2, <1>3 DEF Others, Same, SnapDrains
  <2>2. QED BY <2>1, <1>3, <1>6 DEF SnapDrains
<1>11. Making'
  <2>1. Known(ckpt', sp'.flat, DoubtIn(snaps', conf'[v]))
    BY <1>6 DEF Known
  <2>2. Sections'
    BY <1>6 DEF Sections
  <2>3. QED BY <2>1, <2>2, <1>3, <1>6 DEF Making
<1>12. Growing'
  <2>1. ASSUME NEW b \in Blocks, b \notin Stranded(v), b \notin DoubtIn(snaps, conf[v])
        PROVE  Fitting(b)'
    <3>1. /\ b \in Pending(v) => guest[v][b] = log[v][b][Len(log[v][b])]
          /\ b \notin Pending(v) =>
                /\ mapped[v][b] = Len(log[v][b])
                /\ guest[v][b] = Val(objects[v], first[v][b], b, own[v][b])
      BY <1>1, <1>3, <2>1, RotatedBlock
    <3>2. Len(log[v][b]) \in Nat /\ guest[v][b] \in sp'.fits[b]
      BY <1>1, <1>4, <1>6, TypesElements DEF Elements
    <3>3. CASE b \in Pending(v)
      <4>1. taken'[v][b] = Len(log[v][b]) /\ b \in segment'[v]
        BY <1>3, <3>3
      <4>2. \A n \in Len(log[v][b])..Len(log[v][b]) : log[v][b][n] \in sp'.fits[b]
        BY <3>1, <3>2, <3>3
      <4>3. QED BY <4>1, <4>2, <1>3, <1>6 DEF Fitting
    <3>4. CASE b \notin Pending(v)
      <4>1. \A n \in (mapped[v][b] + 1)..Len(log[v][b]) : FALSE
        BY <3>1, <3>2, <3>4
      <4>2. QED BY <4>1, <3>1, <3>2, <3>4, <1>3, <1>6 DEF Fitting
    <3>5. QED BY <3>3, <3>4
  <2>2. QED BY <2>1, <1>3, <1>6 DEF Growing, Cared
<1> SUFFICES IInv'
  BY <1>8 DEF Steady
<1>13. QED BY <1>7, <1>8, <1>9, <1>10, <1>11, <1>12, PartsNext

\* What an entry below ObjectNum stands for stays.
LEMMA ValKept ==
    ASSUME Steady, NEW v \in Volumes, phase[v] # "absent", NEW b \in Blocks,
           b \notin DoubtIn(snaps, conf[v]), NEW e \in Entry, ~Open(v) \/ e.obj < objNum[v]
    PROVE  Val(objects'[v], first'[v][b], b, e) = Val(objects[v], first[v][b], b, e)
<1>1. e.obj \in Nat /\ objNum[v] \in Nat
  BY TypesElements, CloneBoundAssumption DEF Entry, Elements, Steady
<1>2. ReadAt(objects'[v], b, e) = ReadAt(objects[v], b, e)
  BY <1>1, StableRead DEF Steady
<1>3. first'[v][b] = first[v][b]
  BY FirstKept
<1>4. QED BY <1>2, <1>3 DEF Val

\* A chunk just written is read back through the entries made for it.
LEMMA ReadBack ==
    ASSUME NEW chunks, NEW id \in Ids, NEW S, NEW b \in S, chunks[id] \in [S -> Record]
    PROVE  /\ ReadAt(chunks, b, [obj |-> id, off |-> Place(S, b)]) = chunks[id][b]
           /\ [obj |-> id, off |-> Place(S, b)] # NoEntry
           /\ \A x : Val(chunks, x, b, [obj |-> id, off |-> Place(S, b)]) = chunks[id][b]
<1> DEFINE e == [obj |-> id, off |-> Place(S, b)]
<1>1. e.obj = id /\ e.off = Place(S, b) /\ NoEntry.obj = 0 /\ id # 0
  BY CloneBoundAssumption DEF NoEntry, Ids
<1>2. DOMAIN chunks[id] = S
  OBVIOUS
<1> HIDE DEF e
<1>3. ReadAt(chunks, b, e) = chunks[id][b]
  BY <1>1, <1>2 DEF ReadAt
<1>4. e # NoEntry
  BY <1>1
<1>5. \A x : Val(chunks, x, b, e) = chunks[id][b]
  BY <1>3, <1>4 DEF Val
<1>6. QED BY <1>3, <1>4, <1>5 DEF e

\* What an upload of the blocks S changes.
Uploaded(v, S) ==
    /\ Types' /\ Others(v) /\ S \subseteq Blocks /\ objNum[v] \in Ids /\ S # {}
    /\ UNCHANGED <<phase, conf, link, layers, log, taken, ckpt, drainer, snaps, guest,
                   first, cut, saved>>
    /\ \A i \in Ids \ {objNum[v]} : objects'[v][i] = objects[v][i]
    /\ objNum'[v] = objNum[v] + 1 /\ segment'[v] = segment[v] \ S
    /\ \A b \in S : /\ own'[v][b] # NoEntry /\ own'[v][b].obj = objNum[v]
                    /\ mapped'[v][b] = taken[v][b]
                    /\ \A x : Val(objects'[v], x, b, own'[v][b]) = log[v][b][taken[v][b]]
    /\ \A b \in Blocks \ S : own'[v][b] = own[v][b] /\ mapped'[v][b] = mapped[v][b]
    /\ IF sp.src = v /\ sp.at = "frozen"
       THEN /\ Grown /\ sp'.at = sp.at
            /\ \A b \in S : own[v][b] = NoEntry => b \in sp'.torn
       ELSE sp' = sp

\* An upload, by its changes.
LEMMA UploadIs ==
    ASSUME Types, VolInvs, NEW v \in Volumes, NEW S \in SUBSET segment[v], Upload(v, S)
    PROVE  Uploaded(v, S)
<1> DEFINE id == objNum[v]
           chunk == [b \in S |-> log[v][b][taken[v][b]]]
           got == [b \in Blocks |-> IF b \in S THEN taken[v][b] ELSE mapped[v][b]]
           map == Advanced(own[v], S, id)
<1>1. /\ objects' = [objects EXCEPT ![v][id] = chunk] /\ own' = [own EXCEPT ![v] = map]
      /\ mapped' = [mapped EXCEPT ![v] = got] /\ objNum' = [objNum EXCEPT ![v] = id + 1]
      /\ segment' = [segment EXCEPT ![v] = segment[v] \ S] /\ id \in Ids /\ S # {}
  <2>1. mapped' = [mapped EXCEPT ![v] = [b \in Blocks |-> IF b \in S THEN taken[v][b] ELSE @[b]]]
    BY DEF Upload
  <2>2. mapped' = [mapped EXCEPT ![v] = got]
    BY <2>1 DEF Types, DataTypes
  <2>3. /\ own' = [own EXCEPT ![v] = Advanced(@, S, id)]
        /\ objNum' = [objNum EXCEPT ![v] = @ + 1] /\ segment' = [segment EXCEPT ![v] = @ \ S]
    BY DEF Upload
  <2>4. own' = [own EXCEPT ![v] = map]
    BY <2>3 DEF Types, DataTypes
  <2>5. objNum' = [objNum EXCEPT ![v] = id + 1] /\ segment' = [segment EXCEPT ![v] = segment[v] \ S]
    BY <2>3 DEF Types, DataTypes
  <2>6. QED BY <2>2, <2>4, <2>5 DEF Upload
<1>2. S \subseteq Blocks
  BY TypesElements DEF Elements
<1>3. chunk \in [S -> Record]
  <2>1. ASSUME NEW b \in S PROVE log[v][b][taken[v][b]] \in Record
    <3>1. /\ log[v][b] \in Seq(Record) /\ Len(log[v][b]) \in Nat /\ taken[v][b] \in Nat
          /\ mapped[v][b] \in Nat /\ mapped[v][b] < taken[v][b] /\ taken[v][b] <= Len(log[v][b])
      BY <1>2, TypesElements DEF Elements, VolInvs, VolInv, Numbers
    <3>2. taken[v][b] \in 1..Len(log[v][b])
      BY <3>1
    <3>3. QED BY <3>1, <3>2
  <2>2. QED BY <2>1
<1>4. chunk \in Chunk
  BY <1>2, <1>3, ChunkType
<1>5. got \in [Blocks -> Nat] /\ \A b \in Blocks : got[b] = IF b \in S THEN taken[v][b]
                                                           ELSE mapped[v][b]
  BY TypesElements DEF Elements
<1>6. map \in EntryMap
  BY <1>1, <1>2, AdvancedType, TypesElements DEF Elements
<1>7. \A b \in Blocks : map[b] = IF b \in S THEN [obj |-> id, off |-> Place(S, b)] ELSE own[v][b]
  BY DEF Advanced
<1>8. id + 1 \in Nat
  BY TypesElements DEF Elements
<1>9. \A b \in S : chunk[b] = log[v][b][taken[v][b]]
  OBVIOUS
<1> HIDE DEF chunk, got, map
<1>10. /\ objects' \in [Volumes -> [Ids -> Chunk]] /\ objects'[v][id] = chunk
       /\ \A i \in Ids \ {id} : objects'[v][i] = objects[v][i]
       /\ \A u \in Volumes \ {v} : objects'[u] = objects[u]
  <2>1. objects \in [Volumes -> [Ids -> Chunk]]
    BY DEF Types, DataTypes
  <2>2. QED BY <1>1, <1>4, <2>1
<1>11. /\ own' \in [Volumes -> EntryMap] /\ own'[v] = map
       /\ mapped' \in [Volumes -> [Blocks -> Nat]] /\ mapped'[v] = got
       /\ objNum' \in [Volumes -> Nat] /\ objNum'[v] = id + 1
       /\ segment' \in [Volumes -> SUBSET Blocks] /\ segment'[v] = segment[v] \ S
       /\ \A u \in Volumes \ {v} : /\ own'[u] = own[u] /\ mapped'[u] = mapped[u]
                                   /\ objNum'[u] = objNum[u] /\ segment'[u] = segment[u]
  BY <1>1, <1>5, <1>6, <1>8 DEF Types, DataTypes
<1>12. /\ UNCHANGED <<phase, conf, link, layers, log, taken, ckpt, drainer, snaps, guest,
                      first, cut, saved>>
       /\ UNCHANGED <<confObj, writes, stops, faults>>
  BY DEF Upload, volVars, histVars
<1>13. Others(v)
  BY <1>10, <1>11, <1>12 DEF Others, Same
<1>14. VolTypes' /\ DataTypes' /\ PastTypes'
  BY <1>10, <1>11, <1>12 DEF Types, VolTypes, DataTypes, PastTypes
<1>15. ASSUME NEW b \in S
       PROVE  /\ own'[v][b] # NoEntry /\ own'[v][b].obj = id /\ mapped'[v][b] = taken[v][b]
              /\ \A x : Val(objects'[v], x, b, own'[v][b]) = log[v][b][taken[v][b]]
  <2>1. own'[v][b] = [obj |-> id, off |-> Place(S, b)]
    BY <1>2, <1>7, <1>11
  <2>2. objects'[v][id] \in [S -> Record]
    BY <1>3, <1>10 DEF chunk
  <2>3. /\ own'[v][b] # NoEntry
        /\ \A x : Val(objects'[v], x, b, own'[v][b]) = objects'[v][id][b]
    <3>1. id \in Ids
      BY <1>1
    <3> HIDE DEF id
    <3>2. /\ [obj |-> id, off |-> Place(S, b)] # NoEntry
          /\ \A x : Val(objects'[v], x, b, [obj |-> id, off |-> Place(S, b)])
                      = objects'[v][id][b]
      BY <3>1, <2>2, ReadBack
    <3>3. QED BY <2>1, <3>2
  <2>4. QED BY <1>2, <1>5, <1>9, <1>10, <1>11, <2>1, <2>3
<1>16. \A b \in Blocks \ S : own'[v][b] = own[v][b] /\ mapped'[v][b] = mapped[v][b]
  BY <1>5, <1>7, <1>11
<1>17. /\ sp' \in SnapCall
       /\ IF sp.src = v /\ sp.at = "frozen"
          THEN /\ Grown /\ sp'.at = sp.at
               /\ \A b \in S : own[v][b] = NoEntry => b \in sp'.torn
          ELSE sp' = sp
  <2> DEFINE new == sp.torn \cup {b \in S : own[v][b] = NoEntry}
  <2>1. sp \in SnapCall
    BY DEF Types, SnapTypes
  <2>2. CASE sp.src = v /\ sp.at = "frozen"
    <3>1. sp' = [sp EXCEPT !.torn = new]
      BY <2>1, <2>2 DEF Upload, SnapCall
    <3>2. new \subseteq Blocks /\ sp.torn \subseteq new
      BY <1>2, SpTypes
    <3>3. \A b \in S : own[v][b] = NoEntry => b \in new
      OBVIOUS
    <3> HIDE DEF new
    <3>4. QED BY <2>1, <2>2, <3>1, <3>2, <3>3 DEF SnapCall, Grown
  <2>3. CASE ~(sp.src = v /\ sp.at = "frozen")
    <3>1. sp' = sp
      BY <2>3 DEF Upload
    <3>2. QED BY <2>1, <2>3, <3>1
  <2>4. QED BY <2>2, <2>3
<1>18. Types'
  BY <1>12, <1>14, <1>17 DEF Types, SnapTypes
<1>19. QED BY <1>1, <1>2, <1>10, <1>11, <1>12, <1>13, <1>15, <1>16, <1>17, <1>18 DEF Uploaded

\* An upload preserves the invariant.
LEMMA UploadStep ==
    ASSUME IInv, NEW v \in Volumes, NEW S \in SUBSET segment[v], Upload(v, S)
    PROVE  IInv' /\ Kept
<1>1. /\ Types /\ VolInvs /\ SnapsKnown /\ SnapDrains /\ Making /\ Growing
      /\ SnapshotFaithful
  BY Parts
<1>0. Uploaded(v, S)
  BY <1>1, UploadIs
<1>2. /\ Types' /\ Others(v) /\ S \subseteq Blocks /\ objNum[v] \in Ids /\ S # {}
      /\ UNCHANGED <<phase, conf, link, layers, log, taken, ckpt, drainer, snaps, guest,
                     first, cut, saved>>
      /\ \A i \in Ids \ {objNum[v]} : objects'[v][i] = objects[v][i]
      /\ objNum'[v] = objNum[v] + 1 /\ segment'[v] = segment[v] \ S
      /\ \A b \in S : /\ own'[v][b] # NoEntry /\ own'[v][b].obj = objNum[v]
                      /\ mapped'[v][b] = taken[v][b]
                      /\ \A x : Val(objects'[v], x, b, own'[v][b]) = log[v][b][taken[v][b]]
      /\ \A b \in Blocks \ S : own'[v][b] = own[v][b] /\ mapped'[v][b] = mapped[v][b]
  BY <1>0 DEF Uploaded
<1>3. IF sp.src = v /\ sp.at = "frozen"
      THEN /\ Grown /\ sp'.at = sp.at
           /\ \A b \in S : own[v][b] = NoEntry => b \in sp'.torn
      ELSE sp' = sp
  BY <1>0 DEF Uploaded
<1>4. VolInv(v) /\ phase[v] = "up" /\ drainer[v] # "free"
  BY <1>1, <1>2 DEF VolInvs, VolInv, Numbers
<1>5. \A b \in Blocks :
          /\ Len(log[v][b]) \in Nat /\ taken[v][b] \in Nat /\ mapped[v][b] \in Nat
          /\ mapped[v][b] <= taken[v][b] /\ taken[v][b] <= Len(log[v][b])
          /\ b \in segment[v] => mapped[v][b] < taken[v][b]
          /\ own[v][b] \in Entry /\ ckpt[v][b] \in Entry
          /\ own[v][b].obj \in Nat /\ ckpt[v][b].obj \in Nat
          /\ ckpt[v][b].obj <= own[v][b].obj /\ own[v][b].obj < objNum[v]
  BY <1>1, <1>4, TypesElements DEF Elements, VolInv, Numbers, Open
<1>6. objNum[v] \in Nat
  BY <1>1, TypesElements DEF Elements
<1>7. Kept
  <2>1. \A u \in Volumes, i \in Ids :
            objects'[u][i] = objects[u][i] \/ (Open(u) /\ i = objNum[u])
    BY <1>2, <1>4 DEF Others, Same, Open
  <2>2. \A u \in Volumes, b \in Blocks : ckpt[u][b].obj <= ckpt'[u][b].obj
    BY <1>1, <1>2, TypesElements DEF Elements
  <2>3. QED BY <2>1, <2>2, <1>2 DEF Kept
<1>8. Steady
  BY <1>1, <1>2, <1>7 DEF Steady
<1>9. ASSUME NEW b \in Blocks, b \notin DoubtIn(snaps, conf[v]), NEW e \in Entry,
             e.obj < objNum[v]
      PROVE  Val(objects'[v], first[v][b], b, e) = Val(objects[v], first[v][b], b, e)
  <2>1. phase[v] # "absent" /\ first' = first
    BY <1>2, <1>4
  <2>2. QED BY <1>8, <1>9, <2>1, ValKept
<1>10. ASSUME NEW b \in Blocks, b \notin DoubtIn(snaps, conf[v]), b \notin S
       PROVE  Val(objects'[v], first[v][b], b, own'[v][b]) =
                 Val(objects[v], first[v][b], b, own[v][b])
  BY <1>2, <1>5, <1>9, <1>10
<1>11. VolInv(v)'
  <2>1. Numbers(v)'
    <3>1. ASSUME NEW b \in Blocks
          PROVE  /\ mapped'[v][b] <= taken'[v][b] /\ taken'[v][b] <= Len(log'[v][b])
                 /\ ckpt'[v][b].obj <= own'[v][b].obj /\ own'[v][b].obj < objNum'[v]
                 /\ b \in segment'[v] => mapped'[v][b] < taken'[v][b]
      <4>1. CASE b \in S
        BY <1>2, <1>5, <1>6, <4>1
      <4>2. CASE b \notin S
        BY <1>2, <1>5, <1>6, <4>2
      <4>3. QED BY <4>1, <4>2
    <3>2. phase'[v] = "up" /\ drainer'[v] # "free"
      BY <1>2, <1>4
    <3>3. QED BY <3>1, <3>2 DEF Numbers
  <2>2. Linked(v)'
    BY <1>2, <1>4 DEF VolInv, Linked, Open
  <2>3. ASSUME NEW b \in Blocks, b \notin DoubtIn(snaps, conf[v])
        PROVE  /\ first'[v][b] = InhIn(objects', LayersIn(snaps, conf[v]), b)
               /\ guest'[v][b] = Current(v, b)'
               /\ b \notin saved[v].left =>
                     saved[v].image[b] = Val(objects'[v], first[v][b], b, ckpt[v][b])
               /\ b \notin cut[v].left =>
                     cut[v].image[b] = IF b \in segment'[v] THEN log[v][b][taken[v][b]]
                                       ELSE Val(objects'[v], first[v][b], b, own'[v][b])
    <3>1. first'[v][b] = InhIn(objects', LayersIn(snaps, conf[v]), b)
      BY <1>4, <1>8, <2>3, FirstKept
    <3>2. /\ guest[v][b] = Current(v, b)
          /\ b \notin saved[v].left =>
                saved[v].image[b] = Val(objects[v], first[v][b], b, ckpt[v][b])
          /\ b \notin cut[v].left =>
                cut[v].image[b] = IF b \in segment[v] THEN log[v][b][taken[v][b]]
                                  ELSE Val(objects[v], first[v][b], b, own[v][b])
      BY <1>4, <2>3 DEF VolInv, Histories
    <3>3. Val(objects'[v], first[v][b], b, ckpt[v][b]) = Val(objects[v], first[v][b], b, ckpt[v][b])
      <4>1. ckpt[v][b] \in Entry /\ ckpt[v][b].obj < objNum[v]
        BY <1>5, <1>6
      <4>2. QED BY <1>9, <2>3, <4>1
    <3>4. CASE b \in S
      <4>1. /\ mapped'[v][b] = taken[v][b] /\ b \in segment[v] /\ b \notin segment'[v]
            /\ Val(objects'[v], first[v][b], b, own'[v][b]) = log[v][b][taken[v][b]]
        BY <1>2, <3>4
      <4>2. Current(v, b) = log[v][b][Len(log[v][b])]
        <5>1. mapped[v][b] < Len(log[v][b])
          BY <1>5, <4>1
        <5>2. QED BY <5>1 DEF Current
      <4>3. Current(v, b)' = log[v][b][Len(log[v][b])]
        <5>1. CASE taken[v][b] < Len(log[v][b])
          BY <1>2, <4>1, <5>1 DEF Current
        <5>2. CASE taken[v][b] = Len(log[v][b])
          <6>1. ~(taken[v][b] < Len(log[v][b]))
            BY <1>5, <5>2
          <6>2. Current(v, b)' = Val(objects'[v], first'[v][b], b, own'[v][b])
            BY <1>2, <4>1, <6>1 DEF Current
          <6>3. QED BY <1>2, <4>1, <5>2, <6>2
        <5>3. QED BY <1>5, <5>1, <5>2
      <4>4. QED BY <1>2, <3>1, <3>2, <3>3, <4>1, <4>2, <4>3
    <3>5. CASE b \notin S
      <4>1. Val(objects'[v], first[v][b], b, own'[v][b]) = Val(objects[v], first[v][b], b, own[v][b])
        BY <1>10, <2>3, <3>5
      <4>2. Current(v, b)' = Current(v, b)
        BY <1>2, <3>5, <4>1 DEF Current
      <4>3. b \in segment'[v] <=> b \in segment[v]
        BY <1>2, <3>5
      <4>4. QED BY <1>2, <3>1, <3>2, <3>3, <4>1, <4>2, <4>3
    <3>6. QED BY <3>4, <3>5
  <2>4. Histories(v)'
    BY <1>2, <2>3 DEF Histories
  <2>5. QED BY <2>1, <2>2, <2>4 DEF VolInv
<1>12. VolInvs'
  BY <1>2, <1>8, <1>11, OtherVols
<1>13. SnapsKnown' /\ SnapshotFaithful'
  BY <1>1, <1>2, <1>8, SavedKept
<1>14. sp'.at = sp.at /\ sp'.src = sp.src
  BY <1>3 DEF Grown
<1>15. SnapDrains'
  BY <1>1, <1>2, <1>14 DEF SnapDrains
<1>16. Making'
  <2>1. CASE sp.at = "idle"
    BY <2>1, <1>14 DEF Making
  <2>2. CASE sp.at # "idle"
    <3>1. Grown
      BY <1>3 DEF Grown
    <3>2. sp.at # "remote" => phase'[sp.src] = "up" /\ objNum[sp.src] <= objNum'[sp.src]
      <4>1. sp.src \in Volumes /\ (sp.at # "remote" => phase[sp.src] = "up")
        BY <1>1, <2>2 DEF Making
      <4>2. CASE sp.src = v
        BY <1>2, <1>4, <1>6, <4>2
      <4>3. CASE sp.src # v
        BY <1>1, <1>2, <4>1, <4>3, TypesElements DEF Elements, Others, Same
      <4>4. QED BY <4>2, <4>3
    <3>3. QED BY <1>1, <1>8, <2>2, <3>1, <3>2, MakingKept
  <2>3. QED BY <2>1, <2>2
<1>17. Growing'
  <2>1. CASE sp.src # v
    <3>1. sp' = sp
      BY <1>3, <2>1
    <3>2. sp.at \in {"draining", "drained", "frozen"} => Same(sp.src)
      BY <1>1, <1>2, <2>1 DEF Making, Others
    <3>3. QED BY <1>1, <1>8, <3>1, <3>2, GrowingKept
  <2>2. CASE sp.src = v /\ sp.at = "frozen"
    <3>1. Grown /\ sp'.at = sp.at /\ sp'.src = v /\ \A b \in S : own[v][b] = NoEntry => b \in sp'.torn
      BY <1>3, <2>2 DEF Grown
    <3>2. Cared' = Cared
      BY <1>2, <2>2, <3>1 DEF Grown, Cared
    <3>3. ASSUME NEW b \in Cared \ sp'.torn
          PROVE  sp'.own[b] = NoEntry <=> own'[v][b] = NoEntry
      <4>1. b \in Cared \ sp.torn /\ sp'.own = sp.own /\ b \in Blocks
        BY <3>1 DEF Grown, Cared
      <4>2. sp.own[b] = NoEntry <=> own[v][b] = NoEntry
        BY <1>1, <2>2, <4>1 DEF Growing
      <4>3. QED BY <1>2, <3>1, <4>1, <4>2
    <3>4. QED BY <2>2, <3>1, <3>2, <3>3 DEF Growing
  <2>3. CASE sp.src = v /\ sp.at \in {"draining", "drained"}
    <3>1. sp' = sp
      BY <1>3, <2>3
    <3>2. Cared' = Cared
      BY <1>2, <3>1 DEF Cared
    <3>3. ASSUME NEW b \in Cared PROVE Fitting(b)'
      <4>1. b \in Blocks /\ b \notin DoubtIn(snaps, conf[v]) /\ Fitting(b)
        BY <1>1, <2>3, <3>3 DEF Cared, Growing
      <4>2. CASE b \notin S
        <5>1. Val(objects'[v], first[v][b], b, own'[v][b]) = Val(objects[v], first[v][b], b, own[v][b])
          BY <1>10, <4>1, <4>2
        <5>2. b \in segment'[v] <=> b \in segment[v]
          BY <1>2, <4>2
        <5>3. mapped'[v][b] = mapped[v][b]
          BY <1>2, <4>1, <4>2
        <5>4. QED BY <1>2, <2>3, <3>1, <4>1, <5>1, <5>2, <5>3 DEF Fitting
      <4>3. CASE b \in S
        <5>1. /\ mapped'[v][b] = taken[v][b] /\ b \in segment[v] /\ b \notin segment'[v]
              /\ Val(objects'[v], first[v][b], b, own'[v][b]) = log[v][b][taken[v][b]]
          BY <1>2, <4>3
        <5>2. \A n \in taken[v][b]..Len(log[v][b]) : log[v][b][n] \in sp.fits[b]
          <6>1. CASE sp.at = "draining"
            BY <2>3, <4>1, <5>1, <6>1 DEF Fitting
          <6>2. CASE sp.at = "drained"
            <7>1. \A n \in (mapped[v][b] + 1)..Len(log[v][b]) : log[v][b][n] \in sp.fits[b]
              BY <2>3, <4>1, <6>2 DEF Fitting
            <7>2. \A n \in taken[v][b]..Len(log[v][b]) : n \in (mapped[v][b] + 1)..Len(log[v][b])
              BY <1>5, <4>1, <5>1
            <7>3. QED BY <7>1, <7>2
          <6>3. QED BY <2>3, <6>1, <6>2
        <5>3. taken[v][b] \in taken[v][b]..Len(log[v][b])
          BY <1>5, <4>1
        <5>4. \A n \in (taken[v][b] + 1)..Len(log[v][b]) : n \in taken[v][b]..Len(log[v][b])
          BY <1>5, <4>1
        <5>5. QED BY <1>2, <2>3, <3>1, <5>1, <5>2, <5>3, <5>4 DEF Fitting
      <4>4. QED BY <4>2, <4>3
    <3>4. QED BY <2>3, <3>1, <3>2, <3>3 DEF Growing
  <2>4. CASE sp.src = v /\ sp.at \notin {"draining", "drained", "frozen"}
    BY <1>3, <2>4 DEF Growing
  <2>5. QED BY <2>1, <2>2, <2>3, <2>4
<1> SUFFICES IInv'
  BY <1>7
<1>18. QED BY <1>2, <1>12, <1>13, <1>15, <1>16, <1>17, PartsNext

\* The end of a drain, by its changes.
LEMMA DrainEndsIs ==
    ASSUME Types, NEW v \in Volumes, DrainEnds(v)
    PROVE  /\ drainer' \in [Volumes -> {"free", "bg", "snap"}] /\ drainer'[v] = "free"
           /\ cut' \in [Volumes -> Instant]
           /\ \A u \in Volumes \ {v} : drainer'[u] = drainer[u] /\ cut'[u] = cut[u]
<1>1. Moment(first[v], {}) \in Instant
  BY DEF Moment, Instant, Types, PastTypes
<1>2. QED BY <1>1 DEF DrainEnds, Types, DataTypes, PastTypes

\* A failed upload preserves the invariant.
LEMMA UploadFailsStep ==
    ASSUME IInv, NEW v \in Volumes, UploadFails(v)
    PROVE  IInv' /\ Kept
<1>1. /\ Types /\ VolInvs /\ SnapsKnown /\ SnapDrains /\ Making /\ Growing
      /\ SnapshotFaithful
  BY Parts
<1>2. /\ drainer' \in [Volumes -> {"free", "bg", "snap"}] /\ drainer'[v] = "free"
      /\ cut' \in [Volumes -> Instant]
      /\ \A u \in Volumes \ {v} : drainer'[u] = drainer[u] /\ cut'[u] = cut[u]
  BY <1>1, DrainEndsIs DEF UploadFails
<1>3. /\ UNCHANGED <<phase, conf, link, layers, log, taken, mapped, own, ckpt, objects, snaps,
                     guest, first, saved>>
      /\ UNCHANGED <<confObj, writes, stops>> /\ segment[v] # {} /\ faults' \in Nat
  BY <1>1 DEF UploadFails, volVars, logVars, Fault, Types, PastTypes
<1>4. objNum[v] \in Nat /\ objNum[v] + 1 \in Nat
  BY <1>1, TypesElements DEF Elements
<1>5. /\ objNum' \in [Volumes -> Nat] /\ objNum'[v] = objNum[v] + 1
      /\ segment' \in [Volumes -> SUBSET Blocks] /\ segment'[v] = {}
      /\ \A u \in Volumes \ {v} : objNum'[u] = objNum[u] /\ segment'[u] = segment[u]
  BY <1>1, <1>4 DEF UploadFails, Types, DataTypes
<1>6. Others(v)
  BY <1>2, <1>3, <1>5 DEF Others, Same
<1>7. sp' = IF drainer[v] = "snap" THEN NoSnap ELSE sp
  BY DEF UploadFails
<1>8. Types'
  <2>1. sp' \in SnapCall
    BY <1>1, <1>7, NoSnapType DEF Types, SnapTypes
  <2>2. QED BY <1>1, <1>2, <1>3, <1>5, <2>1 DEF Types, VolTypes, DataTypes, PastTypes, SnapTypes
<1>9. Kept
  BY <1>1, <1>3, TypesElements DEF Kept, Elements
<1>10. Steady
  BY <1>1, <1>8, <1>9 DEF Steady
<1>11. VolInv(v) /\ phase[v] = "up" /\ drainer[v] # "free"
  BY <1>1, <1>3 DEF VolInvs, VolInv, Numbers
<1>12. VolInv(v)'
  <2>1. \A b \in Blocks : own'[v][b].obj < objNum'[v]
    <3>1. \A b \in Blocks : own[v][b].obj \in Nat /\ own[v][b].obj < objNum[v]
      BY <1>1, <1>11, TypesElements DEF Elements, VolInv, Numbers, Open
    <3>2. QED BY <3>1, <1>3, <1>4, <1>5
  <2>2. Numbers(v)'
    BY <2>1, <1>2, <1>3, <1>5, <1>11 DEF VolInv, Numbers, Open
  <2>3. Linked(v)'
    BY <1>3, <1>11 DEF VolInv, Linked, Open
  <2>4. \A b : Current(v, b)' = Current(v, b)
    BY <1>3 DEF Current
  <2>5. Histories(v)'
    BY <2>4, <1>2, <1>3, <1>11 DEF VolInv, Histories
  <2>6. QED BY <2>2, <2>3, <2>5 DEF VolInv
<1>13. VolInvs'
  BY <1>6, <1>10, <1>12, OtherVols
<1>14. SnapsKnown' /\ SnapshotFaithful'
  BY <1>1, <1>3, <1>10, SavedKept
<1> SUFFICES IInv'
  BY <1>9
<1>15. CASE drainer[v] = "snap"
  <2>1. sp'.at = "idle" /\ sp.at = "draining" /\ sp.src = v
    BY <1>1, <1>7, <1>15 DEF NoSnap, SnapDrains
  <2>2. Making' /\ Growing'
    BY <2>1 DEF Making, Growing
  <2>3. \A u \in Volumes : drainer'[u] # "snap"
    BY <1>1, <1>2, <2>1 DEF SnapDrains
  <2>4. SnapDrains'
    BY <2>1, <2>3 DEF SnapDrains
  <2>5. QED BY <2>2, <2>4, <1>8, <1>13, <1>14, PartsNext
<1>16. CASE drainer[v] # "snap"
  <2>1. sp' = sp /\ ~(sp.at = "draining" /\ sp.src = v)
    BY <1>1, <1>7, <1>16 DEF SnapDrains
  <2>2. SnapDrains'
    BY <1>1, <1>2, <2>1 DEF SnapDrains
  <2>3. Making'
    <3>1. CASE sp.at = "idle"
      BY <2>1, <3>1 DEF Making
    <3>2. CASE sp.at # "idle"
      <4>1. Grown
        BY <2>1 DEF Grown
      <4>2. sp.at # "remote" => phase'[sp.src] = "up" /\ objNum[sp.src] <= objNum'[sp.src]
        <5>1. sp.src \in Volumes /\ (sp.at # "remote" => phase[sp.src] = "up")
          BY <1>1, <3>2 DEF Making
        <5>2. objNum[sp.src] \in Nat
          BY <1>1, <5>1, TypesElements DEF Elements
        <5>3. QED BY <1>3, <1>4, <1>5, <5>1, <5>2
      <4>3. QED BY <1>1, <1>10, <3>2, <4>1, <4>2, MakingKept
    <3>3. QED BY <3>1, <3>2
  <2>4. Growing'
    <3>1. CASE sp.src # v
      <4>1. sp.at \in {"draining", "drained", "frozen"} => Same(sp.src)
        BY <1>1, <1>6, <3>1 DEF Making, Others
      <4>2. QED BY <1>1, <1>10, <2>1, <4>1, GrowingKept
    <3>2. CASE sp.src = v
      <4>1. Cared' = Cared /\ sp.at # "draining"
        BY <1>3, <2>1, <3>2 DEF Cared
      <4>2. \A b \in Cared : Fitting(b)' = Fitting(b)
        BY <1>3, <2>1, <3>2, <4>1 DEF Fitting
      <4>3. QED BY <1>1, <1>3, <2>1, <3>2, <4>1, <4>2 DEF Growing
    <3>3. QED BY <3>1, <3>2
  <2>5. QED BY <2>2, <2>3, <2>4, <1>8, <1>13, <1>14, PartsNext
<1>17. QED BY <1>15, <1>16

\* The end of a drain, its checkpoint written or not, preserves the invariant.
LEMMA EndDrainStep ==
    ASSUME IInv, NEW v \in Volumes, EndDrain(v)
    PROVE  IInv' /\ Kept
<1>1. /\ Types /\ VolInvs /\ SnapsKnown /\ SnapDrains /\ Making /\ Growing
      /\ SnapshotFaithful
  BY Parts
<1>2. /\ drainer' \in [Volumes -> {"free", "bg", "snap"}] /\ drainer'[v] = "free"
      /\ cut' \in [Volumes -> Instant]
      /\ \A u \in Volumes \ {v} : drainer'[u] = drainer[u] /\ cut'[u] = cut[u]
  BY <1>1, DrainEndsIs DEF EndDrain
<1>3. /\ UNCHANGED <<phase, conf, link, layers, log, taken, mapped, own, objNum, objects, segment,
                     snaps, guest, first>>
      /\ UNCHANGED <<confObj, writes, stops>> /\ segment[v] = {} /\ drainer[v] # "free"
  BY DEF EndDrain, volVars, logVars
<1>4. /\ ckpt' \in [Volumes -> EntryMap] /\ saved' \in [Volumes -> Instant] /\ faults' \in Nat
      /\ \/ ckpt'[v] = own[v] /\ saved'[v] = cut[v]
         \/ ckpt'[v] = ckpt[v] /\ saved'[v] = saved[v]
      /\ \A u \in Volumes \ {v} : ckpt'[u] = ckpt[u] /\ saved'[u] = saved[u]
  <2>1. /\ ckpt \in [Volumes -> EntryMap] /\ own[v] \in EntryMap
        /\ saved \in [Volumes -> Instant] /\ cut[v] \in Instant /\ faults \in Nat
    BY <1>1 DEF Types, DataTypes, PastTypes
  <2>2. CASE /\ ckpt' = [ckpt EXCEPT ![v] = own[v]] /\ saved' = [saved EXCEPT ![v] = cut[v]]
             /\ UNCHANGED faults
    BY <2>1, <2>2
  <2>3. CASE Fault /\ UNCHANGED <<ckpt, saved>>
    BY <2>1, <2>3 DEF Fault
  <2>4. QED BY <2>2, <2>3 DEF EndDrain
<1>5. Others(v)
  BY <1>2, <1>3, <1>4 DEF Others, Same
<1>6. sp' = IF drainer[v] = "snap" THEN [sp EXCEPT !.at = "drained"] ELSE sp
  BY DEF EndDrain
<1>7. sp' \in SnapCall /\ Grown /\ sp'.fits = sp.fits /\ sp'.torn = sp.torn
  <2>1. sp \in SnapCall
    BY <1>1 DEF Types, SnapTypes
  <2>2. CASE drainer[v] = "snap"
    <3>1. sp.at = "draining"
      BY <1>1, <2>2 DEF SnapDrains
    <3>2. sp' = [sp EXCEPT !.at = "drained"]
      BY <1>6, <2>2
    <3>3. QED BY <2>1, <3>1, <3>2 DEF SnapCall, Grown
  <2>3. CASE drainer[v] # "snap"
    BY <1>6, <2>1, <2>3 DEF Grown
  <2>4. QED BY <2>2, <2>3
<1>8. Types'
  BY <1>1, <1>2, <1>3, <1>4, <1>7 DEF Types, VolTypes, DataTypes, PastTypes, SnapTypes
<1>9. VolInv(v) /\ phase[v] = "up"
  BY <1>1, <1>3 DEF VolInvs, VolInv, Numbers
<1>10. \A b \in Blocks : /\ own[v][b].obj \in Nat /\ ckpt[v][b].obj \in Nat
                         /\ ckpt[v][b].obj <= own[v][b].obj
  BY <1>1, <1>9, TypesElements DEF Elements, VolInv, Numbers
<1>11. Kept
  <2>1. ASSUME NEW u \in Volumes, NEW b \in Blocks PROVE ckpt[u][b].obj <= ckpt'[u][b].obj
    <3>1. ckpt[u][b].obj \in Nat
      BY <1>1, TypesElements DEF Elements
    <3>2. QED BY <3>1, <1>4, <1>10
  <2>2. QED BY <2>1, <1>3 DEF Kept
<1>12. Steady
  BY <1>1, <1>8, <1>11 DEF Steady
<1>13. VolInv(v)'
  <2>1. \A b \in Blocks : ckpt'[v][b].obj <= own'[v][b].obj
    BY <1>3, <1>4, <1>10
  <2>2. Numbers(v)'
    BY <2>1, <1>2, <1>3, <1>9 DEF VolInv, Numbers, Open
  <2>3. Linked(v)'
    BY <1>3, <1>9 DEF VolInv, Linked, Open
  <2>4. \A b : Current(v, b)' = Current(v, b)
    BY <1>3 DEF Current
  <2>5. ASSUME NEW b \in Blocks, b \notin DoubtIn(snaps, conf[v]), b \notin saved'[v].left
        PROVE  saved'[v].image[b] = Val(objects[v], first[v][b], b, ckpt'[v][b])
    <3>1. CASE ckpt'[v] = own[v] /\ saved'[v] = cut[v]
      BY <1>3, <1>9, <2>5, <3>1 DEF VolInv, Histories
    <3>2. CASE ckpt'[v] = ckpt[v] /\ saved'[v] = saved[v]
      BY <1>3, <1>9, <2>5, <3>2 DEF VolInv, Histories
    <3>3. QED BY <1>4, <3>1, <3>2
  <2>6. Histories(v)'
    BY <2>4, <2>5, <1>2, <1>3, <1>9 DEF VolInv, Histories
  <2>7. QED BY <2>2, <2>3, <2>6 DEF VolInv
<1>14. VolInvs'
  BY <1>5, <1>12, <1>13, OtherVols
<1>15. SnapsKnown' /\ SnapshotFaithful'
  BY <1>1, <1>3, <1>12, SavedKept
<1>16. sp'.src = sp.src /\ sp'.left = sp.left /\ sp'.own = sp.own
  BY <1>7 DEF Grown
<1>17. SnapDrains'
  <2>1. CASE drainer[v] = "snap"
    <3>1. sp.src = v /\ sp'.at # "draining" /\ sp.at = "draining"
      <4>1. sp.at = "draining" /\ sp.src = v
        BY <1>1, <2>1 DEF SnapDrains
      <4>2. sp' = [sp EXCEPT !.at = "drained"] /\ sp \in SnapCall
        BY <1>1, <1>6, <2>1 DEF Types, SnapTypes
      <4>3. sp'.at = "drained"
        BY <4>2 DEF SnapCall
      <4>4. QED BY <4>1, <4>3
    <3>2. \A u \in Volumes : drainer'[u] # "snap"
      BY <1>1, <1>2, <3>1 DEF SnapDrains
    <3>3. QED BY <3>1, <3>2 DEF SnapDrains
  <2>2. CASE drainer[v] # "snap"
    <3>1. sp' = sp /\ ~(sp.at = "draining" /\ sp.src = v)
      BY <1>1, <1>6, <2>2 DEF SnapDrains
    <3>2. QED BY <3>1, <1>1, <1>2 DEF SnapDrains
  <2>3. QED BY <2>1, <2>2
<1>18. Making'
  <2>1. CASE sp.at = "idle"
    BY <1>7, <2>1 DEF Making, Grown
  <2>2. CASE sp.at # "idle"
    <3>1. sp.at # "remote" => phase'[sp.src] = "up" /\ objNum[sp.src] <= objNum'[sp.src]
      BY <1>1, <1>3, <2>2, TypesElements DEF Making, Elements
    <3>2. QED BY <1>1, <1>7, <1>12, <2>2, <3>1, MakingKept
  <2>3. QED BY <2>1, <2>2
<1>19. Growing'
  <2>1. CASE sp.src # v
    <3>1. sp' = sp
      BY <1>1, <1>6, <2>1 DEF SnapDrains
    <3>2. sp.at \in {"draining", "drained", "frozen"} => Same(sp.src)
      BY <1>1, <1>5, <2>1 DEF Making, Others
    <3>3. QED BY <1>1, <1>12, <3>1, <3>2, GrowingKept
  <2>2. CASE sp.src = v
    <3>1. Cared' = Cared
      BY <1>3, <1>16 DEF Cared
    <3>2. \A b \in Cared : Fitting(b)' = Fitting(b)
      BY <1>3, <1>7, <1>16, <2>2 DEF Fitting
    <3>3. /\ sp'.at \in {"draining", "drained"} => sp.at \in {"draining", "drained"}
          /\ sp'.at = "frozen" => sp.at = "frozen"
      BY <1>7 DEF Grown
    <3>4. QED BY <1>1, <1>3, <1>7, <1>16, <2>2, <3>1, <3>2, <3>3 DEF Growing
  <2>3. QED BY <2>1, <2>2
<1> SUFFICES IInv'
  BY <1>11
<1>20. QED BY <1>8, <1>14, <1>15, <1>17, <1>18, <1>19, PartsNext

-----------------------------------------------------------------------------
(* CreateSnapshot.                                                         *)

\* A step of CreateSnapshot leaves the volumes alone.
LEMMA SnapOnlyIs ==
    ASSUME IInv, SnapOnly, snaps' \in Seq(Snapshot), Len(snaps) <= Len(snaps'),
           \A s \in DOMAIN snaps : s \in DOMAIN snaps' /\ snaps'[s] = snaps[s],
           sp' \in SnapCall, confObj' \in [Volumes -> Nat]
    PROVE  Types' /\ Steady /\ VolInvs'
<1>1. Types /\ VolInvs /\ SnapsKnown
  BY Parts
<1>2. /\ UNCHANGED <<phase, conf, link, layers, log, taken, mapped, own, ckpt, objNum, objects,
                     drainer, segment, guest, first, cut, saved>>
      /\ UNCHANGED <<writes, stops, faults>>
  BY DEF SnapOnly, logVars, mapVars, histVars
<1>3. Len(snaps) \in Nat /\ Len(snaps') \in Nat
  BY <1>1 DEF Types, SnapTypes
<1>4. 0..Len(snaps) \subseteq 0..Len(snaps')
  BY <1>3
<1>5. /\ conf' \in [Volumes -> 0..Len(snaps')] /\ link' \in [Volumes -> 0..Len(snaps')]
  BY <1>1, <1>2, <1>4 DEF Types, VolTypes
<1>6. Types'
  BY <1>1, <1>2, <1>5 DEF Types, VolTypes, DataTypes, PastTypes, SnapTypes
<1>7. Kept
  BY <1>1, <1>2, TypesElements DEF Kept, Elements
<1>8. Steady
  BY <1>1, <1>6, <1>7 DEF Steady
<1>9. \A u \in Volumes : Same(u)
  BY <1>2 DEF Same
<1>10. QED BY <1>6, <1>8, <1>9, SameVol DEF VolInvs

\* A step of CreateSnapshot that saves nothing.
LEMMA SpOnlyIs ==
    ASSUME IInv, SnapOnly, UNCHANGED <<confObj, snaps>>, sp' \in SnapCall
    PROVE  Types' /\ Steady /\ VolInvs' /\ SnapsKnown' /\ SnapshotFaithful'
<1>1. Types /\ VolInvs /\ SnapsKnown /\ SnapshotFaithful
  BY Parts
<1>2. /\ snaps' \in Seq(Snapshot) /\ Len(snaps) <= Len(snaps')
      /\ confObj' \in [Volumes -> Nat]
      /\ \A s \in DOMAIN snaps : s \in DOMAIN snaps' /\ snaps'[s] = snaps[s]
  <2>1. snaps \in Seq(Snapshot) /\ Len(snaps) \in Nat /\ confObj \in [Volumes -> Nat]
    BY <1>1 DEF Types, VolTypes, SnapTypes
  <2>2. QED BY <2>1
<1>3. Types' /\ Steady /\ VolInvs'
  BY <1>2, SnapOnlyIs
<1>4. QED BY <1>1, <1>3, SavedKept

\* CreateSnapshot gives up.
LEMMA SnapshotFailsStep ==
    ASSUME IInv, SnapshotFails
    PROVE  IInv' /\ Kept
<1>1. SnapDrains
  BY Parts
<1>2. /\ SnapOnly /\ UNCHANGED <<confObj, snaps>> /\ sp' \in SnapCall
      /\ sp.at # "draining" /\ sp'.at = "idle" /\ drainer' = drainer
  BY NoSnapType DEF SnapshotFails, NoSnap, SnapOnly
<1>3. Types' /\ Steady /\ VolInvs' /\ SnapsKnown' /\ SnapshotFaithful'
  BY <1>2, SpOnlyIs
<1>4. SnapDrains'
  BY <1>1, <1>2 DEF SnapDrains
<1>5. Making' /\ Growing'
  BY <1>2 DEF Making, Growing
<1> SUFFICES IInv'
  BY <1>3 DEF Steady
<1>6. QED BY <1>3, <1>4, <1>5, PartsNext

\* The own section is frozen.
LEMMA FreezeStep ==
    ASSUME IInv, Freeze
    PROVE  IInv' /\ Kept
<1>1. /\ Types /\ VolInvs /\ SnapsKnown /\ SnapDrains /\ Making /\ Growing
  BY Parts
<1> DEFINE v == sp.src
           at == IF layers[v] = <<>> THEN "built" ELSE "frozen"
           A == {b \in Blocks : own[v][b] # NoEntry /\ ~Vouched(v, own[v][b].obj)}
<1>2. sp.at = "drained" /\ v \in Volumes /\ phase[v] = "up" /\ sp.flat = <<>>
  BY <1>1 DEF Freeze, Making, Sections
<1>3. SnapOnly /\ UNCHANGED <<confObj, snaps>>
  BY DEF Freeze
<1>4. UNCHANGED <<phase, conf, layers, own, ckpt, objNum, objects, drainer, first>>
  BY <1>3 DEF SnapOnly, mapVars, histVars
<1>5. sp' = [sp EXCEPT !.at = at, !.own = own[v], !.ahead = A]
  BY DEF Freeze
<1>6. own[v] \in EntryMap /\ A \subseteq Blocks /\ at \in {"built", "frozen"} /\ sp \in SnapCall
  BY <1>1, <1>2, TypesElements DEF Elements, Types, SnapTypes
<1>7. \A b \in Blocks \ A : own[v][b] = NoEntry \/ VouchedBy(ckpt[v], own[v][b].obj)
  BY Unfolded
<1> HIDE DEF A, at, v
<1>8. /\ sp' \in SnapCall /\ sp'.at = at /\ sp'.own = own[v] /\ sp'.ahead = A /\ sp'.src = v
      /\ sp'.flat = <<>> /\ sp'.fits = sp.fits /\ sp'.torn = sp.torn /\ sp'.left = sp.left
  BY <1>2, <1>5, <1>6 DEF SnapCall, v
<1>9. Types' /\ Steady /\ VolInvs' /\ SnapsKnown' /\ SnapshotFaithful'
  BY <1>3, <1>8, SpOnlyIs
<1>10. SnapDrains'
  BY <1>1, <1>2, <1>4, <1>6, <1>8 DEF SnapDrains
<1>11. Cared' = Cared
  BY <1>3, <1>4, <1>8 DEF Cared, v
<1>12. \A b \in Cared : b \in Blocks /\ b \notin DoubtIn(snaps, conf[v])
  BY DEF Cared, v
<1>13. VolInv(v)
  BY <1>1, <1>2 DEF VolInvs
<1>14. \A b \in Cared : Val(objects[v], first[v][b], b, own[v][b]) \in sp.fits[b]
  BY <1>1, <1>2 DEF Growing, Fitting, v
<1>15. \A b \in Blocks : own[v][b].obj < objNum[v]
  BY <1>2, <1>13 DEF VolInv, Numbers, Open
<1>16. ASSUME at = "built", NEW b \in Cared PROVE InhIn(objects, Made', b) \in sp.fits[b]
  <2>1. layers[v] = <<>>
    BY <1>16 DEF at
  <2>2. first[v][b] = InhIn(objects, <<>>, b)
    BY <1>2, <1>12, <1>13, <2>1 DEF VolInv, Linked, Histories, Open
  <2>3. InhIn(objects, <<>>, b) = Zero
    <3>1. <<>> \in Seq(Layer) /\ \A i \in DOMAIN <<>> : FALSE
      OBVIOUS
    <3>2. QED BY <1>12, <3>1, InheritedEnds
  <2>4. InhIn(objects, <<[vol |-> v, map |-> own[v]]>> \o <<>>, b) =
            IF own[v][b] = NoEntry THEN Zero ELSE ReadAt(objects[v], b, own[v][b])
    BY <1>2, <1>6, <1>12, OwnOnly
  <2>5. InhIn(objects, Made', b) = Val(objects[v], first[v][b], b, own[v][b])
    BY <1>8, <2>2, <2>3, <2>4 DEF Made, Val
  <2>6. QED BY <1>14, <2>5
<1>17. Sections'
  <2>1. /\ sp'.at \in {"draining", "drained", "frozen"} => sp'.flat = <<>>
        /\ sp'.at # "remote"
    BY <1>6, <1>8
  <2>2. \A b \in Blocks \ sp'.ahead :
            sp'.own[b] = NoEntry \/ VouchedBy(ckpt'[sp'.src], sp'.own[b].obj)
    BY <1>4, <1>7, <1>8
  <2>3. \A b \in Blocks : sp'.own[b].obj < objNum'[sp'.src]
    BY <1>4, <1>8, <1>15
  <2>4. \A b \in Cared' : Val(objects'[sp'.src], first'[sp'.src][b], b, sp'.own[b]) \in sp'.fits[b]
    BY <1>4, <1>8, <1>11, <1>14
  <2>5. sp'.at = "built" => \A b \in Cared' : InhIn(objects', Made', b) \in sp'.fits[b]
    BY <1>4, <1>8, <1>11, <1>16
  <2>6. QED BY <2>1, <2>2, <2>3, <2>4, <2>5 DEF Sections
<1>18. Making'
  <2>1. Known(ckpt', sp'.flat, DoubtIn(snaps', conf'[sp'.src]))
    BY <1>8 DEF Known
  <2>2. QED BY <1>2, <1>4, <1>8, <1>17, <2>1 DEF Making
<1>19. Growing'
  BY <1>4, <1>6, <1>8 DEF Growing
<1> SUFFICES IInv'
  BY <1>9 DEF Steady
<1>20. QED BY <1>9, <1>10, <1>18, <1>19, PartsNext

\* Leaving blocks out of known layers leaves them known.
LEMMA FlatKnown ==
    ASSUME NEW k, NEW o \in EntryMap, NEW L \in Seq(Layer), NEW A, Known(k, L, A)
    PROVE  Known(k, FlatSection(o, L), A)
<1>1. /\ DOMAIN FlatSection(o, L) = DOMAIN L
      /\ \A i \in DOMAIN L, b \in Blocks :
             /\ FlatSection(o, L)[i].vol = L[i].vol
             /\ FlatSection(o, L)[i].map[b] \in {NoEntry, L[i].map[b]}
  BY FlatType
<1>2. QED BY <1>1 DEF Known

\* The inherited section is built.
LEMMA BuildFlatSectionStep ==
    ASSUME IInv, BuildFlatSection
    PROVE  IInv' /\ Kept
<1>1. /\ Types /\ VolInvs /\ SnapsKnown /\ SnapDrains /\ Making /\ Growing
  BY Parts
<1> DEFINE v == sp.src
           L == layers[v]
           F == FlatSection(own[v], L)
<1>2. sp.at = "frozen" /\ v \in Volumes /\ phase[v] = "up" /\ Sections
  BY <1>1 DEF BuildFlatSection, Making
<1>3. SnapOnly /\ UNCHANGED <<confObj, snaps>>
  BY DEF BuildFlatSection
<1>4. UNCHANGED <<phase, conf, layers, own, ckpt, objNum, objects, drainer, first>>
  BY <1>3 DEF SnapOnly, mapVars, histVars
<1>5. sp' = [sp EXCEPT !.at = "built", !.flat = F]
  BY DEF BuildFlatSection
<1>6. /\ own[v] \in EntryMap /\ L \in Seq(Layer) /\ sp \in SnapCall /\ sp.own \in EntryMap
      /\ conf[v] \in 0..Len(snaps)
  BY <1>1, <1>2, TypesElements, SpTypes DEF Elements, Types, SnapTypes
<1>7. F \in Seq(Layer)
  BY <1>6, FlatType
<1>8. VolInv(v) /\ L = LayersIn(snaps, conf[v])
  BY <1>1, <1>2 DEF VolInvs, VolInv, Linked, Open
<1> HIDE DEF F, L, v
<1>9. /\ sp' \in SnapCall /\ sp'.at = "built" /\ sp'.own = sp.own /\ sp'.ahead = sp.ahead
      /\ sp'.src = v /\ sp'.flat = F /\ sp'.fits = sp.fits /\ sp'.torn = sp.torn
      /\ sp'.left = sp.left
  BY <1>5, <1>6, <1>7 DEF SnapCall, v
<1>10. Types' /\ Steady /\ VolInvs' /\ SnapsKnown' /\ SnapshotFaithful'
  BY <1>3, <1>9, SpOnlyIs
<1>11. SnapDrains'
  BY <1>1, <1>2, <1>4, <1>9 DEF SnapDrains
<1>12. Cared' = Cared
  BY <1>3, <1>4, <1>9 DEF Cared, v
<1>13. Known(ckpt, F, DoubtIn(snaps, conf[v]))
  <2>1. Known(ckpt, L, DoubtIn(snaps, conf[v]))
    BY <1>6, <1>8, <1>10, LayersKept
  <2>2. QED BY <1>6, <2>1, FlatKnown DEF F
<1>14. ASSUME NEW b \in Cared \ sp.torn PROVE InhIn(objects, Made', b) \in sp.fits[b]
  <2>1. b \in Blocks /\ b \notin DoubtIn(snaps, conf[v])
    BY DEF Cared, v
  <2>2. Val(objects[v], first[v][b], b, sp.own[b]) \in sp.fits[b]
    BY <1>2 DEF Sections, v
  <2>3. sp.own[b] = NoEntry <=> own[v][b] = NoEntry
    BY <1>1, <1>2 DEF Growing, v
  <2>4. Made' = <<[vol |-> v, map |-> sp.own]>> \o FlatSection(own[v], L)
    BY <1>9 DEF Made, F
  <2>5. /\ sp.own[b] # NoEntry => InhIn(objects, Made', b) = ReadAt(objects[v], b, sp.own[b])
        /\ sp.own[b] = NoEntry /\ own[v][b] = NoEntry =>
              InhIn(objects, Made', b) = InhIn(objects, L, b)
    <3> DEFINE e == sp.own
               o == own[v]
               M == <<[vol |-> v, map |-> e]>> \o FlatSection(o, L)
    <3>1. v \in Volumes /\ e \in EntryMap /\ o \in EntryMap /\ L \in Seq(Layer) /\ b \in Blocks
      BY <1>2, <1>6, <2>1
    <3>2. M = Made'
      BY <2>4
    <3> HIDE DEF e, o
    <3>3. /\ e[b] # NoEntry => InhIn(objects, M, b) = ReadAt(objects[v], b, e[b])
          /\ e[b] = NoEntry /\ o[b] = NoEntry => InhIn(objects, M, b) = InhIn(objects, L, b)
      BY <3>1, FlatReads
    <3> HIDE DEF M
    <3>4. QED BY <3>2, <3>3 DEF e, o
  <2>6. first[v][b] = InhIn(objects, L, b)
    BY <1>2, <1>8, <2>1 DEF VolInv, Histories, v
  <2>7. QED BY <2>2, <2>3, <2>5, <2>6 DEF Val
<1>15. Sections'
  <2>1. \A b \in Blocks \ sp'.ahead :
            sp'.own[b] = NoEntry \/ VouchedBy(ckpt'[sp'.src], sp'.own[b].obj)
    BY <1>2, <1>4, <1>9 DEF Sections, v
  <2>2. \A b \in Blocks : sp'.own[b].obj < objNum'[sp'.src]
    BY <1>2, <1>4, <1>9 DEF Sections, v
  <2>3. \A b \in Cared' \ sp'.torn : InhIn(objects', Made', b) \in sp'.fits[b]
    BY <1>4, <1>9, <1>12, <1>14
  <2>4. QED BY <2>1, <2>2, <2>3, <1>9 DEF Sections
<1>16. Making'
  <2>1. Known(ckpt', sp'.flat, DoubtIn(snaps', conf'[sp'.src]))
    BY <1>3, <1>4, <1>9, <1>13
  <2>2. QED BY <1>2, <1>4, <1>9, <1>15, <2>1 DEF Making, v
<1>17. Growing'
  BY <1>9 DEF Growing
<1> SUFFICES IInv'
  BY <1>10 DEF Steady
<1>18. QED BY <1>10, <1>11, <1>16, <1>17, PartsNext

\* Another process loads a volume to snapshot it.
LEMMA RemoteSnapshotStep ==
    ASSUME IInv, NEW v \in Volumes, RemoteSnapshot(v)
    PROVE  IInv' /\ Kept
<1>1. /\ Types /\ VolInvs /\ SnapsKnown /\ SnapDrains
  BY Parts
<1> DEFINE L == LayersIn(snaps, conf[v])
           o == ckpt[v]
           F == FlatSection(o, L)
           f == [b \in Blocks |-> {saved[v].image[b]}]
<1>2. sp.at = "idle" /\ phase[v] # "absent"
  BY DEF RemoteSnapshot
<1>3. SnapOnly /\ UNCHANGED <<confObj, snaps>>
  BY DEF RemoteSnapshot
<1>4. UNCHANGED <<phase, conf, ckpt, objects, drainer>>
  BY <1>3 DEF SnapOnly, mapVars
<1>5. sp' = [NoSnap EXCEPT !.at = "remote", !.src = v, !.own = o, !.obj = NextObject(v),
                           !.flat = F, !.fits = f, !.left = saved[v].left]
  BY Unfolded DEF RemoteSnapshot
<1>6. o \in EntryMap /\ conf[v] \in 0..Len(snaps) /\ saved[v].left \subseteq Blocks
  BY <1>1, TypesElements DEF Elements
<1>7. L \in Seq(Layer)
  BY <1>1, <1>6, LayersType
<1>8. F \in Seq(Layer)
  BY <1>6, <1>7, FlatType
<1>9. NextObject(v) \in Nat
  BY <1>1, NextAbove
<1>10. f \in [Blocks -> SUBSET Record] /\ \A b \in Blocks : saved[v].image[b] \in f[b]
  BY <1>1, TypesElements DEF Elements
<1>11. VolInv(v)
  BY <1>1 DEF VolInvs
<1> HIDE DEF F, L, f, o
<1>12. /\ sp' \in SnapCall /\ sp'.at = "remote" /\ sp'.own = o /\ sp'.ahead = {}
       /\ sp'.src = v /\ sp'.flat = F /\ sp'.fits = f /\ sp'.left = saved[v].left
  <2>1. NoSnap \in SnapCall /\ NoSnap.ahead = {}
    BY NoSnapType DEF NoSnap
  <2> HIDE DEF NoSnap
  <2>2. QED BY <1>5, <1>6, <1>8, <1>9, <1>10, <2>1 DEF SnapCall
<1>13. Types' /\ Steady /\ VolInvs' /\ SnapsKnown' /\ SnapshotFaithful'
  BY <1>3, <1>12, SpOnlyIs
<1>14. SnapDrains'
  BY <1>1, <1>2, <1>4, <1>12 DEF SnapDrains
<1>15. Known(ckpt, F, DoubtIn(snaps, conf[v]))
  <2>1. Known(ckpt, L, DoubtIn(snaps, conf[v]))
    BY <1>6, <1>13, LayersKept DEF L
  <2>2. QED BY <1>6, <1>7, <2>1, FlatKnown DEF F
<1>16. ASSUME NEW b \in Cared' PROVE InhIn(objects, Made', b) \in f[b]
  <2>1. b \in Blocks /\ b \notin DoubtIn(snaps, conf[v]) /\ b \notin saved[v].left
    BY <1>3, <1>4, <1>12 DEF Cared
  <2>2. saved[v].image[b] = Val(objects[v], first[v][b], b, o[b])
    BY <1>2, <1>11, <2>1 DEF VolInv, Histories, o
  <2>3. first[v][b] = InhIn(objects, L, b)
    BY <1>2, <1>11, <2>1 DEF VolInv, Histories, L
  <2> DEFINE M == <<[vol |-> v, map |-> o]>> \o FlatSection(o, L)
  <2>4. M = Made'
    BY <1>12 DEF Made, F
  <2>5. /\ o[b] # NoEntry => InhIn(objects, M, b) = ReadAt(objects[v], b, o[b])
        /\ o[b] = NoEntry => InhIn(objects, M, b) = InhIn(objects, L, b)
    BY <1>6, <1>7, <2>1, FlatReads
  <2> HIDE DEF M
  <2>6. InhIn(objects, Made', b) = saved[v].image[b]
    BY <2>2, <2>3, <2>4, <2>5 DEF Val
  <2>7. QED BY <1>10, <2>1, <2>6
<1>17. \A b \in Blocks : VouchedBy(o, o[b].obj)
  <2>1. \A b \in Blocks : o[b].obj \in Nat
    BY <1>1, TypesElements DEF Elements, o
  <2>2. \A b \in Blocks : o[b].obj <= o[b].obj
    BY <2>1
  <2>3. QED BY <2>2 DEF VouchedBy
<1>18. Sections'
  BY <1>4, <1>12, <1>16, <1>17 DEF Sections, o
<1>19. Making'
  <2>1. Known(ckpt', sp'.flat, DoubtIn(snaps', conf'[sp'.src]))
    BY <1>3, <1>4, <1>12, <1>15
  <2>2. QED BY <1>2, <1>4, <1>12, <1>18, <2>1 DEF Making
<1>20. Growing'
  BY <1>12 DEF Growing
<1> SUFFICES IInv'
  BY <1>13 DEF Steady
<1>21. QED BY <1>13, <1>14, <1>19, <1>20, PartsNext

\* The snapshot is saved.
LEMMA SaveSnapshotStep ==
    ASSUME IInv, SaveSnapshot
    PROVE  IInv' /\ Kept
<1>1. /\ Types /\ VolInvs /\ SnapsKnown /\ SnapDrains /\ Making /\ SnapshotFaithful
  BY Parts
<1> DEFINE v == sp.src
           past == DoubtIn(snaps, conf[v])
           bad == {b \in Blocks \ (sp.torn \cup sp.left \cup past) :
                      InhIn(objects, Made, b) \notin sp.fits[b]}
           rec == [src |-> v, own |-> sp.own, flat |-> sp.flat, ahead |-> sp.ahead \cup past,
                   wrong |-> bad]
           n == Len(snaps) + 1
<1>2. sp.at \in {"built", "remote"}
  BY DEF SaveSnapshot
<1>3. v \in Volumes /\ Sections /\ Known(ckpt, sp.flat, past)
  BY <1>1, <1>2 DEF Making
<1>4. snaps' = Append(snaps, rec) /\ sp' = NoSnap /\ SnapOnly
  BY Unfolded DEF SaveSnapshot, Made
<1>5. UNCHANGED <<ckpt, objects, drainer>>
  BY <1>4 DEF SnapOnly, mapVars
<1>6. /\ sp.own \in EntryMap /\ sp.flat \in Seq(Layer) /\ sp.ahead \subseteq Blocks
      /\ sp.obj \in Nat
  BY <1>1, SpTypes
<1>7. snaps \in Seq(Snapshot) /\ Len(snaps) \in Nat /\ conf[v] \in 0..Len(snaps)
  BY <1>1, <1>3, TypesElements DEF Types, SnapTypes, Elements
<1>8. past \subseteq Blocks
  <2>1. CASE conf[v] = 0
    BY <2>1 DEF DoubtIn
  <2>2. CASE conf[v] # 0
    <3>1. snaps[conf[v]] \in Snapshot
      BY <1>7, <2>2
    <3>2. QED BY <2>2, <3>1 DEF DoubtIn, Snapshot
  <2>3. QED BY <2>1, <2>2
<1>9. bad = {}
  BY <1>2, <1>3 DEF Sections, Cared
<1> HIDE DEF bad, past, v
<1>10. /\ rec \in Snapshot /\ rec.src = v /\ rec.own = sp.own /\ rec.flat = sp.flat
       /\ rec.ahead = sp.ahead \cup past /\ rec.wrong = {}
  BY <1>3, <1>6, <1>8, <1>9 DEF Snapshot
<1> HIDE DEF rec
<1>11. /\ snaps' \in Seq(Snapshot) /\ Len(snaps') = n /\ DOMAIN snaps' = 1..n
       /\ DOMAIN snaps = 1..Len(snaps) /\ snaps'[n] = rec
       /\ \A s \in DOMAIN snaps : s \in DOMAIN snaps' /\ snaps'[s] = snaps[s]
  BY <1>4, <1>7, <1>10
<1>12. confObj' \in [Volumes -> Nat]
  <2>1. confObj \in [Volumes -> Nat] /\ objNum[v] \in Nat
    BY <1>1, <1>3, TypesElements DEF Types, VolTypes, Elements
  <2>2. confObj' = [confObj EXCEPT ![v] = IF ~Encrypted THEN @
                                         ELSE IF sp.at = "remote" THEN sp.obj ELSE objNum[v]]
    BY DEF SaveSnapshot, v
  <2>3. QED BY <1>3, <1>6, <2>1, <2>2
<1>13. sp' \in SnapCall /\ sp'.at = "idle"
  BY <1>4, NoSnapType DEF NoSnap
<1>14. Types' /\ Steady /\ VolInvs'
  <2>1. Len(snaps) <= Len(snaps')
    BY <1>7, <1>11
  <2>2. QED BY <2>1, <1>4, <1>11, <1>12, <1>13, SnapOnlyIs
<1>15. SnapsKnown'
  <2>1. ASSUME NEW s \in DOMAIN snaps' PROVE Known(ckpt', LayersIn(snaps', s), DoubtIn(snaps', s))
    <3>1. CASE s \in DOMAIN snaps
      <4>1. s \in 0..Len(snaps)
        BY <1>7, <3>1
      <4>2. LayersIn(snaps, s) \in Seq(Layer)
        BY <1>1, <4>1, LayersType
      <4>3. QED BY <1>14, <4>1, <4>2, LayersKept, KnownKept
    <3>2. CASE s \notin DOMAIN snaps
      <4> DEFINE x == [vol |-> v, map |-> sp.own]
                 M == <<x>> \o sp.flat
                 D == sp.ahead \cup past
      <4>1. s = n /\ n # 0
        BY <1>7, <1>11, <3>2
      <4>2. LayersIn(snaps', s) = M /\ DoubtIn(snaps', s) = D
        BY <1>10, <1>11, <4>1 DEF LayersIn, DoubtIn
      <4>3. x \in Layer /\ x.vol = v /\ x.map = sp.own
        BY <1>3, <1>6 DEF Layer
      <4> HIDE DEF x
      <4>4. /\ DOMAIN M = 1..(Len(sp.flat) + 1) /\ M[1] = x
            /\ \A i \in DOMAIN sp.flat : M[i + 1] = sp.flat[i]
        BY <1>6, <4>3, InFront
      <4>5. DOMAIN sp.flat = 1..Len(sp.flat) /\ Len(sp.flat) \in Nat
        BY <1>6
      <4> HIDE DEF M
      <4>6. ASSUME NEW i \in DOMAIN M, NEW b \in Blocks \ D
            PROVE  M[i].map[b] = NoEntry \/ VouchedBy(ckpt[M[i].vol], M[i].map[b].obj)
        <5>1. CASE i = 1
          <6>1. sp.own[b] = NoEntry \/ VouchedBy(ckpt[v], sp.own[b].obj)
            BY <1>2, <1>3 DEF Sections, v
          <6>2. QED BY <4>3, <4>4, <5>1, <6>1
        <5>2. CASE i # 1
          <6>1. i - 1 \in DOMAIN sp.flat /\ i = (i - 1) + 1
            BY <4>4, <4>5, <5>2
          <6>2. M[i] = sp.flat[i - 1]
            BY <4>4, <6>1
          <6>3. QED BY <1>3, <6>1, <6>2 DEF Known
        <5>3. QED BY <5>1, <5>2
      <4>7. Known(ckpt, M, D)
        BY <4>6 DEF Known
      <4>8. QED BY <1>5, <4>2, <4>7
    <3>3. QED BY <3>1, <3>2
  <2>2. QED BY <2>1 DEF SnapsKnown
<1>16. SnapshotFaithful'
  <2>1. ASSUME NEW s \in DOMAIN snaps' PROVE snaps'[s].wrong = {}
    <3>1. CASE s \in DOMAIN snaps
      BY <1>1, <1>11, <3>1 DEF SnapshotFaithful
    <3>2. CASE s \notin DOMAIN snaps
      <4>1. s = n
        BY <1>7, <1>11, <3>2
      <4>2. QED BY <1>10, <1>11, <4>1
    <3>3. QED BY <3>1, <3>2
  <2>2. QED BY <2>1 DEF SnapshotFaithful
<1>17. SnapDrains'
  BY <1>1, <1>2, <1>5, <1>13 DEF SnapDrains
<1>18. Making' /\ Growing'
  BY <1>13 DEF Making, Growing
<1> SUFFICES IInv'
  BY <1>14 DEF Steady
<1>19. QED BY <1>14, <1>15, <1>16, <1>17, <1>18, PartsNext

-----------------------------------------------------------------------------
(* Creating, opening and ending a volume.                                  *)

\* A snapshot being made beside a step of a volume that is not its source, or of
\* which another process has loaded all it needs.
LEMMA AsideKept ==
    ASSUME IInv, Steady, sp' = sp, NEW v \in Volumes, Others(v),
           sp.at # "idle" /\ sp.src = v => sp.at = "remote", drainer'[v] = "free"
    PROVE  SnapDrains' /\ Making' /\ Growing'
<1>1. Types /\ SnapDrains /\ Making /\ Growing
  BY Parts
<1>2. SnapDrains'
  BY <1>1 DEF SnapDrains, Others, Same
<1>3. sp.at # "idle" /\ sp.at # "remote" => sp.src \in Volumes \ {v} /\ Same(sp.src)
  BY <1>1 DEF Making, Others
<1>4. Making'
  <2>1. CASE sp.at = "idle"
    BY <2>1 DEF Making
  <2>2. CASE sp.at # "idle"
    <3>1. Grown
      BY DEF Grown
    <3>2. sp.at # "remote" => phase'[sp.src] = "up" /\ objNum[sp.src] <= objNum'[sp.src]
      BY <1>1, <1>3, <2>2, TypesElements DEF Making, Elements, Same
    <3>3. QED BY <1>1, <2>2, <3>1, <3>2, MakingKept
  <2>3. QED BY <2>1, <2>2
<1>5. Growing'
  BY <1>1, <1>3, GrowingKept
<1>6. QED BY <1>2, <1>4, <1>5

\* What is left to show of such a step is what it does to the volume.
LEMMA AsideStep ==
    ASSUME IInv, Types', Kept, sp' = sp, UNCHANGED snaps, NEW v \in Volumes, Others(v),
           sp.at # "idle" /\ sp.src = v => sp.at = "remote", drainer'[v] = "free", VolInv(v)'
    PROVE  IInv'
<1>1. Types /\ VolInvs /\ SnapsKnown /\ SnapshotFaithful
  BY Parts
<1>2. Steady
  BY <1>1 DEF Steady
<1>3. VolInvs'
  BY <1>2, OtherVols
<1>4. SnapsKnown' /\ SnapshotFaithful'
  BY <1>1, <1>2, SavedKept
<1>5. SnapDrains' /\ Making' /\ Growing'
  BY <1>2, AsideKept
<1>6. QED BY <1>3, <1>4, <1>5, PartsNext

\* A clone is created.
LEMMA CloneStep ==
    ASSUME IInv, NEW v \in Volumes, NEW s \in DOMAIN snaps, Clone(v, s)
    PROVE  IInv' /\ Kept
<1>1. Types /\ VolInvs /\ SnapsKnown /\ Making
  BY Parts
<1> DEFINE L == LayersIn(snaps, s)
           image == [b \in Blocks |-> InhIn(objects, L, b)]
           mom == Moment(image, {})
<1>2. /\ phase[v] = "absent" /\ phase' = [phase EXCEPT ![v] = "up"]
      /\ conf' = [conf EXCEPT ![v] = s] /\ link' = [link EXCEPT ![v] = s]
      /\ layers' = [layers EXCEPT ![v] = L]
      /\ guest' = [guest EXCEPT ![v] = image] /\ first' = [first EXCEPT ![v] = image]
      /\ cut' = [cut EXCEPT ![v] = mom] /\ saved' = [saved EXCEPT ![v] = mom]
  BY Unfolded DEF Clone
<1>3. /\ UNCHANGED <<log, taken, mapped, own, ckpt, objNum, objects, drainer, segment, sp, snaps>>
      /\ UNCHANGED <<confObj, writes, stops, faults>>
  BY DEF Clone, logVars, mapVars
<1>4. s \in 0..Len(snaps)
  BY <1>1 DEF Types, SnapTypes
<1>5. L \in Seq(Layer)
  BY <1>1, <1>4, LayersType
<1>6. image \in [Blocks -> Record]
  BY <1>1, <1>5, InheritedType
<1>7. mom \in Instant /\ mom.image = image /\ mom.left = {}
  BY <1>6 DEF Moment, Instant
<1>8. \A b \in Blocks : image[b] = InhIn(objects, L, b)
  OBVIOUS
<1> HIDE DEF L, image, mom
<1>9. /\ phase' \in [Volumes -> {"absent", "down", "loading", "up"}]
      /\ conf' \in [Volumes -> 0..Len(snaps)] /\ link' \in [Volumes -> 0..Len(snaps)]
      /\ layers' \in [Volumes -> Seq(Layer)]
      /\ phase'[v] = "up" /\ conf'[v] = s /\ link'[v] = s /\ layers'[v] = L
      /\ \A u \in Volumes \ {v} : /\ phase'[u] = phase[u] /\ conf'[u] = conf[u]
                                  /\ link'[u] = link[u] /\ layers'[u] = layers[u]
  BY <1>1, <1>2, <1>4, <1>5 DEF Types, VolTypes
<1>10. /\ guest' \in [Volumes -> [Blocks -> Record]] /\ first' \in [Volumes -> [Blocks -> Record]]
       /\ cut' \in [Volumes -> Instant] /\ saved' \in [Volumes -> Instant]
       /\ guest'[v] = image /\ first'[v] = image /\ cut'[v] = mom /\ saved'[v] = mom
       /\ \A u \in Volumes \ {v} : /\ guest'[u] = guest[u] /\ first'[u] = first[u]
                                   /\ cut'[u] = cut[u] /\ saved'[u] = saved[u]
  BY <1>1, <1>2, <1>6, <1>7 DEF Types, PastTypes
<1>11. Types'
  BY <1>1, <1>3, <1>9, <1>10 DEF Types, VolTypes, DataTypes, PastTypes, SnapTypes
<1>12. Others(v)
  BY <1>3, <1>9, <1>10 DEF Others, Same
<1>13. Kept
  <2>1. \A u \in Volumes : phase[u] # "absent" =>
            phase'[u] # "absent" /\ first'[u] = first[u] /\ conf'[u] = conf[u]
    BY <1>2, <1>9, <1>10
  <2>2. \A u \in Volumes, b \in Blocks : ckpt[u][b].obj <= ckpt'[u][b].obj
    BY <1>1, <1>3, TypesElements DEF Elements
  <2>3. QED BY <1>3, <2>1, <2>2 DEF Kept
<1>14. VolInv(v)
  BY <1>1 DEF VolInvs
<1>15. /\ drainer[v] = "free" /\ segment[v] = {} /\ objNum[v] = 1
       /\ \A b \in Blocks : /\ own[v][b] = NoEntry /\ ckpt[v][b] = NoEntry
                            /\ log[v][b] = <<>> /\ mapped[v][b] = 0 /\ taken[v][b] = 0
  <2>1. /\ drainer[v] = "free" /\ segment[v] = {} /\ objNum[v] = 1
        /\ \A b \in Blocks : /\ own[v][b] = NoEntry /\ own[v][b] = ckpt[v][b]
                             /\ log[v][b] = <<>> /\ mapped[v][b] = 0
                             /\ taken[v][b] <= Len(log[v][b])
    BY <1>2, <1>14 DEF VolInv, Numbers
  <2>2. \A b \in Blocks : taken[v][b] \in Nat
    BY <1>1, TypesElements DEF Elements
  <2>3. QED BY <2>1, <2>2
<1>16. VolInv(v)'
  <2>1. Numbers(v)'
    BY <1>3, <1>9, <1>15 DEF Numbers, Open, NoEntry
  <2>2. Linked(v)'
    BY <1>3, <1>9 DEF Linked, L
  <2>3. ASSUME NEW b \in Blocks
        PROVE  /\ first'[v][b] = InhIn(objects', LayersIn(snaps', conf'[v]), b)
               /\ guest'[v][b] = Current(v, b)'
               /\ saved'[v].image[b] = Val(objects'[v], first'[v][b], b, ckpt'[v][b])
    <3>1. Current(v, b)' = image[b]
      BY <1>3, <1>10, <1>15 DEF Current, Val
    <3>2. QED BY <3>1, <1>3, <1>7, <1>8, <1>9, <1>10, <1>15 DEF Val, L
  <2>4. Histories(v)'
    BY <2>3, <1>3, <1>15 DEF Histories
  <2>5. QED BY <2>1, <2>2, <2>4 DEF VolInv
<1>17. sp.at # "idle" /\ sp.src = v => sp.at = "remote"
  BY <1>1, <1>2 DEF Making
<1>18. drainer'[v] = "free"
  BY <1>3, <1>15
<1> SUFFICES IInv'
  BY <1>13
<1>19. QED BY <1>3, <1>11, <1>12, <1>13, <1>16, <1>17, <1>18, AsideStep

\* The state of a volume is loaded.
LEMMA LoadStateStep ==
    ASSUME IInv, NEW v \in Volumes, LoadState(v)
    PROVE  IInv' /\ Kept
<1>1. Types /\ VolInvs /\ SnapsKnown /\ Making
  BY Parts
<1> DEFINE L == LayersIn(snaps, conf[v])
<1>2. /\ phase[v] = "down" /\ phase' = [phase EXCEPT ![v] = "loading"]
      /\ link' = [link EXCEPT ![v] = conf[v]] /\ layers' = [layers EXCEPT ![v] = L]
      /\ objNum' = [objNum EXCEPT ![v] = NextObject(v)]
  BY Unfolded DEF LoadState
<1>3. /\ UNCHANGED <<conf, log, taken, mapped, own, ckpt, objects, drainer, segment, sp, snaps,
                     guest, first, cut, saved>>
      /\ UNCHANGED <<confObj, writes, stops, faults>>
  BY DEF LoadState, logVars, histVars
<1>4. conf[v] \in 0..Len(snaps)
  BY <1>1, TypesElements DEF Elements
<1>5. L \in Seq(Layer)
  BY <1>1, <1>4, LayersType
<1>6. NextObject(v) \in Nat /\ \A b \in Blocks : ckpt[v][b].obj < NextObject(v)
  BY <1>1, NextAbove
<1> HIDE DEF L
<1>7. /\ phase' \in [Volumes -> {"absent", "down", "loading", "up"}]
      /\ link' \in [Volumes -> 0..Len(snaps)] /\ layers' \in [Volumes -> Seq(Layer)]
      /\ objNum' \in [Volumes -> Nat]
      /\ phase'[v] = "loading" /\ link'[v] = conf[v] /\ layers'[v] = L
      /\ objNum'[v] = NextObject(v)
      /\ \A u \in Volumes \ {v} : /\ phase'[u] = phase[u] /\ objNum'[u] = objNum[u]
                                  /\ link'[u] = link[u] /\ layers'[u] = layers[u]
  BY <1>1, <1>2, <1>4, <1>5, <1>6 DEF Types, VolTypes, DataTypes
<1>8. Types'
  BY <1>1, <1>3, <1>7 DEF Types, VolTypes, DataTypes, PastTypes, SnapTypes
<1>9. Others(v)
  BY <1>3, <1>7 DEF Others, Same
<1>10. Kept
  <2>1. \A u \in Volumes : phase[u] # "absent" => phase'[u] # "absent"
    BY <1>7
  <2>2. \A u \in Volumes, b \in Blocks : ckpt[u][b].obj <= ckpt'[u][b].obj
    BY <1>1, <1>3, TypesElements DEF Elements
  <2>3. QED BY <1>3, <2>1, <2>2 DEF Kept
<1>11. VolInv(v)
  BY <1>1 DEF VolInvs
<1>12. drainer[v] = "free"
  BY <1>2, <1>11 DEF VolInv, Numbers
<1>13. VolInv(v)'
  <2>1. \A b \in Blocks : own'[v][b].obj < objNum'[v]
    BY <1>2, <1>3, <1>6, <1>7, <1>11 DEF VolInv, Numbers
  <2>2. Numbers(v)'
    BY <2>1, <1>2, <1>3, <1>7, <1>11 DEF VolInv, Numbers
  <2>3. Linked(v)'
    BY <1>3, <1>7 DEF Linked, L
  <2>4. \A b : Current(v, b)' = Current(v, b)
    BY <1>3 DEF Current
  <2>5. Histories(v)'
    BY <2>4, <1>2, <1>3, <1>11, <1>12 DEF VolInv, Histories
  <2>6. QED BY <2>2, <2>3, <2>5 DEF VolInv
<1>14. sp.at # "idle" /\ sp.src = v => sp.at = "remote"
  BY <1>1, <1>2 DEF Making
<1>15. drainer'[v] = "free"
  BY <1>3, <1>12
<1> SUFFICES IInv'
  BY <1>10
<1>16. QED BY <1>3, <1>8, <1>9, <1>10, <1>13, <1>14, <1>15, AsideStep

\* The newest record of a block that has one.
LEMMA NewestType ==
    ASSUME Types, NEW v \in Volumes, NEW b \in Blocks, log[v][b] # <<>>
    PROVE  NewestLogged(v, b) \in Record /\ Len(log[v][b]) > 0
<1>1. log[v][b] \in Seq(Record) /\ Len(log[v][b]) \in Nat
  BY TypesElements DEF Elements
<1>2. Len(log[v][b]) # 0
  BY <1>1
<1>3. Len(log[v][b]) \in 1..Len(log[v][b])
  BY <1>1, <1>2
<1>4. QED BY <1>1, <1>3 DEF NewestLogged

\* What a chunk of the newest records of the blocks S changes.
Written(v, S) ==
    /\ objects' \in [Volumes -> [Ids -> Chunk]]
    /\ \A u \in Volumes \ {v} : objects'[u] = objects[u]
    /\ \A i \in Ids \ {objNum[v]} : objects'[v][i] = objects[v][i]
    /\ S = {} => objects' = objects
    /\ S # {} => objNum[v] \in Ids
    /\ \A b \in S : LET e == [obj |-> objNum[v], off |-> Place(S, b)] IN
          e \in Entry /\ e # NoEntry /\ \A x : Val(objects'[v], x, b, e) = NewestLogged(v, b)

\* Writing such a chunk, by its changes.
LEMMA PutsIs ==
    ASSUME Types, NEW v \in Volumes, NEW S \in SUBSET Blocks, \A b \in S : log[v][b] # <<>>,
           Puts(v, S)
    PROVE  Written(v, S)
<1>1. objects \in [Volumes -> [Ids -> Chunk]]
  BY DEF Types, DataTypes
<1>2. CASE S = {}
  <2>1. objects' = objects
    BY <1>2 DEF Puts
  <2>2. QED BY <1>1, <1>2, <2>1 DEF Written
<1>3. CASE S # {}
  <2> DEFINE id == objNum[v]
             chunk == [b \in S |-> NewestLogged(v, b)]
  <2>1. id \in Ids /\ objects' = [objects EXCEPT ![v][id] = chunk]
    BY <1>3 DEF Puts
  <2>2. chunk \in [S -> Record] /\ \A b \in S : chunk[b] = NewestLogged(v, b)
    BY NewestType
  <2>3. chunk \in Chunk
    BY <2>2, ChunkType
  <2> HIDE DEF chunk
  <2>4. /\ objects' \in [Volumes -> [Ids -> Chunk]] /\ objects'[v][id] = chunk
        /\ \A i \in Ids \ {id} : objects'[v][i] = objects[v][i]
        /\ \A u \in Volumes \ {v} : objects'[u] = objects[u]
    BY <1>1, <2>1, <2>3
  <2>5. ASSUME NEW b \in S
        PROVE  LET e == [obj |-> id, off |-> Place(S, b)] IN
               e \in Entry /\ e # NoEntry /\ \A x : Val(objects'[v], x, b, e) = NewestLogged(v, b)
    <3> HIDE DEF id
    <3>1. [obj |-> id, off |-> Place(S, b)] \in Entry
      BY <2>1, PlaceType, CloneBoundAssumption DEF Entry, Ids
    <3>2. objects'[v][id] \in [S -> Record]
      BY <2>2, <2>4
    <3>3. /\ [obj |-> id, off |-> Place(S, b)] # NoEntry
          /\ \A x : Val(objects'[v], x, b, [obj |-> id, off |-> Place(S, b)])
                      = objects'[v][id][b]
      <4> DEFINE C == objects'[v]
      <4>1. id \in Ids /\ C[id] \in [S -> Record]
        BY <2>1, <3>2
      <4> HIDE DEF C
      <4>2. [obj |-> id, off |-> Place(S, b)] # NoEntry
        BY <4>1, ReadBack
      <4>3. \A x : Val(C, x, b, [obj |-> id, off |-> Place(S, b)]) = C[id][b]
        BY <4>1, ReadBack
      <4>4. QED BY <4>2, <4>3 DEF C
    <3>4. objects'[v][id][b] = NewestLogged(v, b)
      BY <2>2, <2>4
    <3>5. QED BY <3>1, <3>3, <3>4
  <2>6. QED BY <1>3, <2>1, <2>4, <2>5 DEF Written
<1>4. QED BY <1>2, <1>3

\* The process is gone, by its changes.
LEMMA GoneIs ==
    ASSUME Types, NEW v \in Volumes, Gone(v), ckpt'[v] \in EntryMap
    PROVE  /\ phase' \in [Volumes -> {"absent", "down", "loading", "up"}]
           /\ link' \in [Volumes -> 0..Len(snaps)] /\ layers' \in [Volumes -> Seq(Layer)]
           /\ own' \in [Volumes -> EntryMap] /\ objNum' \in [Volumes -> Nat]
           /\ drainer' \in [Volumes -> {"free", "bg", "snap"}]
           /\ segment' \in [Volumes -> SUBSET Blocks]
           /\ phase'[v] = "down" /\ own'[v] = ckpt'[v] /\ drainer'[v] = "free"
           /\ segment'[v] = {}
           /\ \A u \in Volumes \ {v} :
                 /\ phase'[u] = phase[u] /\ link'[u] = link[u] /\ layers'[u] = layers[u]
                 /\ own'[u] = own[u] /\ objNum'[u] = objNum[u] /\ drainer'[u] = drainer[u]
                 /\ segment'[u] = segment[u]
<1>1. 0 \in 0..Len(snaps) /\ <<>> \in Seq(Layer) /\ 0 \in Nat /\ {} \in SUBSET Blocks
  BY DEF Types, SnapTypes
<1>2. /\ phase' \in [Volumes -> {"absent", "down", "loading", "up"}]
      /\ link' \in [Volumes -> 0..Len(snaps)] /\ layers' \in [Volumes -> Seq(Layer)]
      /\ phase'[v] = "down"
      /\ \A u \in Volumes \ {v} :
            phase'[u] = phase[u] /\ link'[u] = link[u] /\ layers'[u] = layers[u]
  BY <1>1 DEF Gone, Types, VolTypes
<1>3. /\ own' \in [Volumes -> EntryMap] /\ objNum' \in [Volumes -> Nat]
      /\ drainer' \in [Volumes -> {"free", "bg", "snap"}]
      /\ segment' \in [Volumes -> SUBSET Blocks]
      /\ own'[v] = ckpt'[v] /\ drainer'[v] = "free" /\ segment'[v] = {}
      /\ \A u \in Volumes \ {v} :
            /\ own'[u] = own[u] /\ objNum'[u] = objNum[u] /\ drainer'[u] = drainer[u]
            /\ segment'[u] = segment[u]
  BY <1>1 DEF Gone, Types, DataTypes
<1>4. QED BY <1>2, <1>3

\* The WAL is removed, by its changes.
LEMMA NoLogIs ==
    ASSUME Types, NEW v \in Volumes, NoLog(v)
    PROVE  /\ log' \in [Volumes -> [Blocks -> Seq(Record)]]
           /\ taken' \in [Volumes -> [Blocks -> Nat]] /\ mapped' \in [Volumes -> [Blocks -> Nat]]
           /\ \A b \in Blocks : log'[v][b] = <<>> /\ taken'[v][b] = 0 /\ mapped'[v][b] = 0
           /\ \A u \in Volumes \ {v} :
                 log'[u] = log[u] /\ taken'[u] = taken[u] /\ mapped'[u] = mapped[u]
<1> DEFINE empty == [b \in Blocks |-> <<>>]
<1>1. /\ empty \in [Blocks -> Seq(Record)] /\ \A b \in Blocks : empty[b] = <<>>
      /\ None \in [Blocks -> Nat] /\ \A b \in Blocks : None[b] = 0
  BY DEF None
<1>2. log' = [log EXCEPT ![v] = empty]
  BY DEF NoLog
<1> HIDE DEF empty
<1>3. QED BY <1>1, <1>2 DEF NoLog, Types, DataTypes

\* The blocks with records, and those of the open segment.
LEMMA LoggedIs ==
    ASSUME Types, NEW v \in Volumes
    PROVE  /\ Logged(v) \in SUBSET Blocks /\ \A b \in Logged(v) : log[v][b] # <<>>
           /\ Pending(v) \in SUBSET Blocks /\ \A b \in Pending(v) : log[v][b] # <<>>
           /\ \A b \in Blocks \ Logged(v) : Len(log[v][b]) = 0
<1>1. ASSUME NEW b \in Pending(v) PROVE log[v][b] # <<>>
  <2>1. taken[v][b] \in Nat /\ taken[v][b] < Len(log[v][b]) /\ log[v][b] \in Seq(Record)
    BY TypesElements DEF Elements, Pending
  <2>2. QED BY <2>1
<1>2. QED BY <1>1 DEF Logged, Pending

\* A recovery that fails preserves the invariant.
LEMMA OpenFailsStep ==
    ASSUME IInv, NEW v \in Volumes, OpenFails(v)
    PROVE  IInv' /\ Kept
<1>1. Types /\ VolInvs /\ SnapsKnown /\ Making
  BY Parts
<1>2. /\ phase[v] = "loading" /\ Puts(v, Logged(v)) /\ Gone(v) /\ Logged(v) # {}
      /\ conf' = [conf EXCEPT ![v] = link[v]]
      /\ UNCHANGED <<ckpt, log, taken, mapped, sp, snaps, guest, first, cut, saved>>
      /\ UNCHANGED <<writes, stops>> /\ faults' = faults + 1
  BY DEF OpenFails, Fault, logVars, histVars
<1>3. VolInv(v) /\ Open(v)
  BY <1>1, <1>2 DEF VolInvs, Open
<1>4. conf' = conf
  <2>1. link[v] = conf[v] /\ conf \in [Volumes -> 0..Len(snaps)]
    BY <1>1, <1>3 DEF VolInv, Linked, Types, VolTypes
  <2>2. QED BY <1>2, <2>1
<1>5. Written(v, Logged(v))
  BY <1>1, <1>2, LoggedIs, PutsIs
<1>6. /\ phase' \in [Volumes -> {"absent", "down", "loading", "up"}]
      /\ link' \in [Volumes -> 0..Len(snaps)] /\ layers' \in [Volumes -> Seq(Layer)]
      /\ own' \in [Volumes -> EntryMap] /\ objNum' \in [Volumes -> Nat]
      /\ drainer' \in [Volumes -> {"free", "bg", "snap"}]
      /\ segment' \in [Volumes -> SUBSET Blocks]
      /\ phase'[v] = "down" /\ own'[v] = ckpt[v] /\ drainer'[v] = "free"
      /\ segment'[v] = {}
      /\ \A u \in Volumes \ {v} :
            /\ phase'[u] = phase[u] /\ link'[u] = link[u] /\ layers'[u] = layers[u]
            /\ own'[u] = own[u] /\ objNum'[u] = objNum[u] /\ drainer'[u] = drainer[u]
            /\ segment'[u] = segment[u]
  <2>1. ckpt'[v] \in EntryMap /\ ckpt' = ckpt
    BY <1>1, <1>2, TypesElements DEF Elements
  <2>2. QED BY <1>1, <1>2, <2>1, GoneIs
<1>7. confObj' \in [Volumes -> Nat]
  <2>1. objNum[v] \in Nat /\ confObj \in [Volumes -> Nat]
    BY <1>1, TypesElements DEF Types, VolTypes, Elements
  <2>2. After(v, Logged(v)) \in Nat
    BY <2>1 DEF After
  <2>3. confObj' \in {confObj, [confObj EXCEPT ![v] = After(v, Logged(v))]}
    BY DEF OpenFails
  <2>4. QED BY <2>1, <2>2, <2>3
<1>8. Types'
  <2>1. faults' \in Nat
    BY <1>1, <1>2 DEF Types, PastTypes
  <2>2. objects' \in [Volumes -> [Ids -> Chunk]]
    BY <1>5 DEF Written
  <2>3. QED BY <1>1, <1>2, <1>4, <1>6, <1>7, <2>1, <2>2
        DEF Types, VolTypes, DataTypes, PastTypes, SnapTypes
<1>9. Others(v)
  BY <1>2, <1>4, <1>5, <1>6 DEF Others, Same, Written
<1>10. Kept
  <2>1. \A u \in Volumes, i \in Ids :
            objects'[u][i] = objects[u][i] \/ (Open(u) /\ i = objNum[u])
    BY <1>3, <1>5 DEF Written
  <2>2. \A u \in Volumes, b \in Blocks : ckpt[u][b].obj <= ckpt'[u][b].obj
    BY <1>1, <1>2, TypesElements DEF Elements
  <2>3. \A u \in Volumes : phase[u] # "absent" => phase'[u] # "absent"
    BY <1>6
  <2>4. QED BY <1>2, <1>4, <2>1, <2>2, <2>3 DEF Kept
<1>11. Steady
  BY <1>1, <1>8, <1>10 DEF Steady
<1>12. \A b \in Blocks : /\ own[v][b] = ckpt[v][b] /\ mapped[v][b] = 0
                         /\ ckpt[v][b] \in Entry /\ ckpt[v][b].obj < objNum[v]
  BY <1>1, <1>2, <1>3, TypesElements DEF Elements, VolInv, Numbers
<1>13. VolInv(v)'
  <2>1. \A b \in Blocks : ckpt[v][b].obj <= ckpt[v][b].obj
    BY <1>1, TypesElements DEF Elements
  <2>2. Numbers(v)'
    BY <2>1, <1>2, <1>3, <1>6, <1>12 DEF VolInv, Numbers, Open
  <2>3. Linked(v)'
    BY <1>6 DEF Linked, Open
  <2>4. ASSUME NEW b \in Blocks, b \notin DoubtIn(snaps, conf[v])
        PROVE  /\ first'[v][b] = InhIn(objects', LayersIn(snaps, conf[v]), b)
               /\ guest'[v][b] = Current(v, b)'
               /\ b \notin saved'[v].left =>
                     saved'[v].image[b] = Val(objects'[v], first'[v][b], b, ckpt'[v][b])
    <3>1. first'[v][b] = InhIn(objects', LayersIn(snaps, conf[v]), b)
      BY <1>2, <1>11, <2>4, FirstKept
    <3>2. Val(objects'[v], first'[v][b], b, ckpt[v][b]) = Val(objects[v], first[v][b], b, ckpt[v][b])
      BY <1>2, <1>11, <1>12, <2>4, ValKept
    <3>3. Current(v, b)' = Current(v, b)
      BY <1>2, <1>6, <1>12, <3>2 DEF Current
    <3>4. QED BY <1>2, <1>3, <2>4, <3>1, <3>2, <3>3 DEF VolInv, Histories
  <2>5. Histories(v)'
    BY <2>4, <1>2, <1>4, <1>6 DEF Histories
  <2>6. QED BY <2>2, <2>3, <2>5 DEF VolInv
<1>14. sp.at # "idle" /\ sp.src = v => sp.at = "remote"
  BY <1>1, <1>2 DEF Making
<1> SUFFICES IInv'
  BY <1>10
<1>15. QED BY <1>2, <1>6, <1>8, <1>9, <1>10, <1>13, <1>14, AsideStep

\* The map after a replay holds the newest record of every block that has one,
\* and what it held of the others.
LEMMA ReplayedIs ==
    ASSUME Steady, NEW v \in Volumes, phase[v] = "loading", Written(v, Logged(v))
    PROVE  /\ Replayed(v) \in EntryMap
           /\ \A b \in Blocks :
                 /\ ckpt[v][b].obj <= Replayed(v)[b].obj
                 /\ Replayed(v)[b].obj < After(v, Logged(v))
           /\ \A b \in Blocks \ DoubtIn(snaps, conf[v]) :
                 /\ Current(v, b) = Val(objects'[v], first'[v][b], b, Replayed(v)[b])
                 /\ Val(objects'[v], first'[v][b], b, ckpt[v][b]) =
                       Val(objects[v], first[v][b], b, ckpt[v][b])
<1> DEFINE id == objNum[v]
           S == Logged(v)
           e(b) == [obj |-> id, off |-> Place(S, b)]
           new == {b \in S : own[v][b] = NoEntry \/ Fetch(v, b, own[v][b]) # NewestLogged(v, b)}
           R == Replayed(v)
<1>1. Types /\ VolInv(v)
  BY DEF Steady, VolInvs
<1>2. \A b \in Blocks : /\ own[v][b] = ckpt[v][b] /\ mapped[v][b] = 0 /\ own[v][b] \in Entry
                        /\ own[v][b].obj \in Nat /\ own[v][b].obj < id
  BY <1>1, TypesElements DEF Elements, VolInv, Numbers, Open
<1>3. /\ S \in SUBSET Blocks /\ \A b \in S : log[v][b] # <<>>
      /\ \A b \in Blocks \ S : Len(log[v][b]) = 0
  BY <1>1, LoggedIs
<1>4. id \in Nat /\ After(v, S) \in Nat /\ (S = {} => After(v, S) = id)
      /\ (S # {} => After(v, S) = id + 1)
  BY <1>1, TypesElements DEF Elements, After
<1>5. \A b \in Blocks : R[b] = IF b \in new THEN e(b) ELSE own[v][b]
  BY DEF Replayed
<1>6. R = [b \in Blocks |-> R[b]]
  BY DEF Replayed
<1>7. \A b \in S : /\ e(b) \in Entry /\ e(b) # NoEntry /\ e(b).obj = id
                   /\ \A x : Val(objects'[v], x, b, e(b)) = NewestLogged(v, b)
  BY DEF Written
<1>8. new \subseteq S
  OBVIOUS
<1>9. \A b \in S \ new : own[v][b] # NoEntry /\ ReadAt(objects[v], b, own[v][b]) = NewestLogged(v, b)
  BY Unfolded
<1> HIDE DEF id, S, e, new, R
<1>10. R \in EntryMap
  <2>1. \A b \in Blocks : R[b] \in Entry
    BY <1>2, <1>5, <1>7, <1>8
  <2>2. QED BY <1>6, <2>1 DEF EntryMap
<1>11. ASSUME NEW b \in Blocks
       PROVE  ckpt[v][b].obj <= R[b].obj /\ R[b].obj < After(v, S)
  <2>1. CASE b \in new
    BY <1>2, <1>4, <1>5, <1>7, <1>8, <2>1
  <2>2. CASE b \notin new
    BY <1>2, <1>4, <1>5, <2>2
  <2>3. QED BY <2>1, <2>2
<1>12. ASSUME NEW b \in Blocks, b \notin DoubtIn(snaps, conf[v])
       PROVE  /\ Current(v, b) = Val(objects'[v], first'[v][b], b, R[b])
              /\ Val(objects'[v], first'[v][b], b, ckpt[v][b]) =
                    Val(objects[v], first[v][b], b, ckpt[v][b])
  <2>1. Val(objects'[v], first'[v][b], b, own[v][b]) = Val(objects[v], first[v][b], b, own[v][b])
    BY <1>2, <1>12, ValKept DEF id
  <2>2. CASE b \in S
    <3>1. Len(log[v][b]) > 0
      BY <1>1, <1>3, <2>2, NewestType
    <3>2. Current(v, b) = NewestLogged(v, b)
      BY <1>2, <3>1 DEF Current, NewestLogged
    <3>3. CASE b \in new
      BY <1>5, <1>7, <2>1, <1>2, <2>2, <3>2, <3>3
    <3>4. CASE b \notin new
      <4>1. Val(objects[v], first[v][b], b, own[v][b]) = NewestLogged(v, b)
        BY <1>9, <2>2, <3>4 DEF Val
      <4>2. QED BY <1>2, <1>5, <2>1, <3>2, <3>4, <4>1
    <3>5. QED BY <3>3, <3>4
  <2>3. CASE b \notin S
    <3>1. ~(mapped[v][b] < Len(log[v][b]))
      BY <1>2, <1>3, <2>3
    <3>2. Current(v, b) = Val(objects[v], first[v][b], b, own[v][b])
      BY <3>1 DEF Current
    <3>3. QED BY <1>2, <1>5, <1>8, <2>1, <2>3, <3>2
  <2>4. QED BY <2>2, <2>3
<1>13. QED BY <1>10, <1>11, <1>12 DEF R, S

\* The end of an open preserves the invariant.
LEMMA FinishOpenStep ==
    ASSUME IInv, NEW v \in Volumes, FinishOpen(v)
    PROVE  IInv' /\ Kept
<1>1. Types /\ VolInvs /\ SnapsKnown /\ Making
  BY Parts
<1> DEFINE R == Replayed(v)
           n == After(v, Logged(v))
           mom == Moment(guest[v], {})
<1>2. /\ phase[v] = "loading" /\ Puts(v, Logged(v)) /\ NoLog(v)
      /\ phase' = [phase EXCEPT ![v] = "up"] /\ objNum' = [objNum EXCEPT ![v] = n]
      /\ conf' = [conf EXCEPT ![v] = link[v]] /\ confObj' = [confObj EXCEPT ![v] = objNum'[v]]
      /\ own' = [own EXCEPT ![v] = R]
      /\ UNCHANGED <<link, layers, drainer, segment, sp, snaps, guest, first, cut>>
      /\ UNCHANGED <<writes, stops>>
  BY DEF FinishOpen
<1>3. VolInv(v) /\ Open(v)
  BY <1>1, <1>2 DEF VolInvs, Open
<1>4. conf' = conf
  <2>1. link[v] = conf[v] /\ conf \in [Volumes -> 0..Len(snaps)]
    BY <1>1, <1>3 DEF VolInv, Linked, Types, VolTypes
  <2>2. QED BY <1>2, <2>1
<1>5. Written(v, Logged(v))
  BY <1>1, <1>2, LoggedIs, PutsIs
<1>6. /\ log' \in [Volumes -> [Blocks -> Seq(Record)]]
      /\ taken' \in [Volumes -> [Blocks -> Nat]] /\ mapped' \in [Volumes -> [Blocks -> Nat]]
      /\ \A b \in Blocks : log'[v][b] = <<>> /\ taken'[v][b] = 0 /\ mapped'[v][b] = 0
      /\ \A u \in Volumes \ {v} :
            log'[u] = log[u] /\ taken'[u] = taken[u] /\ mapped'[u] = mapped[u]
  BY <1>1, <1>2, NoLogIs
<1>7. n \in Nat /\ objNum[v] \in Nat
  BY <1>1, TypesElements DEF Elements, After
<1>8. R \in EntryMap
  <2>1. own[v] \in EntryMap /\ Logged(v) \in SUBSET Blocks
    BY <1>1, TypesElements, LoggedIs DEF Elements
  <2>2. \A b \in Logged(v) : [obj |-> objNum[v], off |-> Place(Logged(v), b)] \in Entry
    BY <1>5 DEF Written
  <2>3. \A b \in Blocks : own[v][b] \in Entry
    BY <2>1 DEF EntryMap
  <2>4. QED BY <2>2, <2>3 DEF Replayed, EntryMap
<1>9. mom \in Instant /\ mom.image = guest[v] /\ mom.left = {}
  BY <1>1 DEF Moment, Instant, Types, PastTypes
<1>10. \/ ckpt' = [ckpt EXCEPT ![v] = R] /\ saved' = [saved EXCEPT ![v] = mom] /\ UNCHANGED faults
       \/ Fault /\ UNCHANGED <<ckpt, saved>>
  BY DEF FinishOpen
<1> HIDE DEF R, n, mom
<1>11. /\ phase' \in [Volumes -> {"absent", "down", "loading", "up"}] /\ phase'[v] = "up"
       /\ confObj' \in [Volumes -> Nat]
       /\ objNum' \in [Volumes -> Nat] /\ objNum'[v] = n
       /\ own' \in [Volumes -> EntryMap] /\ own'[v] = R
       /\ \A u \in Volumes \ {v} :
             phase'[u] = phase[u] /\ objNum'[u] = objNum[u] /\ own'[u] = own[u]
  BY <1>1, <1>2, <1>7, <1>8 DEF Types, VolTypes, DataTypes
<1>12. /\ ckpt' \in [Volumes -> EntryMap] /\ saved' \in [Volumes -> Instant] /\ faults' \in Nat
       /\ \/ ckpt'[v] = R /\ saved'[v] = mom
          \/ ckpt'[v] = ckpt[v] /\ saved'[v] = saved[v]
       /\ \A u \in Volumes \ {v} : ckpt'[u] = ckpt[u] /\ saved'[u] = saved[u]
  <2>1. ckpt \in [Volumes -> EntryMap] /\ saved \in [Volumes -> Instant] /\ faults \in Nat
    BY <1>1 DEF Types, DataTypes, PastTypes
  <2>2. CASE ckpt' = [ckpt EXCEPT ![v] = R] /\ saved' = [saved EXCEPT ![v] = mom] /\ UNCHANGED faults
    BY <1>8, <1>9, <2>1, <2>2
  <2>3. CASE Fault /\ UNCHANGED <<ckpt, saved>>
    BY <2>1, <2>3 DEF Fault
  <2>4. QED BY <1>10, <2>2, <2>3
<1>13. Types'
  <2>1. objects' \in [Volumes -> [Ids -> Chunk]]
    BY <1>5 DEF Written
  <2>2. QED BY <1>1, <1>2, <1>4, <1>6, <1>11, <1>12, <2>1
        DEF Types, VolTypes, DataTypes, PastTypes, SnapTypes
<1>14. Others(v)
  BY <1>2, <1>4, <1>5, <1>6, <1>11, <1>12 DEF Others, Same, Written
<1>15. \A b \in Blocks : ckpt[v][b].obj \in Nat /\ ckpt[v][b].obj <= R[b].obj
  <2>1. ASSUME NEW b \in Blocks PROVE ckpt[v][b].obj \in Nat /\ ckpt[v][b].obj <= R[b].obj
    <3>1. /\ ckpt[v][b].obj \in Nat /\ objNum[v] \in Nat /\ own[v][b] = ckpt[v][b]
          /\ own[v][b].obj < objNum[v]
      BY <1>1, <1>2, <1>3, TypesElements DEF Elements, VolInv, Numbers
    <3>2. R[b] = own[v][b] \/ R[b].obj = objNum[v]
      BY DEF R, Replayed
    <3>3. QED BY <3>1, <3>2
  <2>2. QED BY <2>1
<1>16. Kept
  <2>1. \A u \in Volumes, i \in Ids :
            objects'[u][i] = objects[u][i] \/ (Open(u) /\ i = objNum[u])
    BY <1>3, <1>5 DEF Written
  <2>2. ASSUME NEW u \in Volumes, NEW b \in Blocks PROVE ckpt[u][b].obj <= ckpt'[u][b].obj
    <3>1. ckpt[u][b].obj \in Nat
      BY <1>1, TypesElements DEF Elements
    <3>2. QED BY <3>1, <1>12, <1>15
  <2>3. \A u \in Volumes : phase[u] # "absent" => phase'[u] # "absent"
    BY <1>11
  <2>4. QED BY <1>2, <1>4, <2>1, <2>2, <2>3 DEF Kept
<1>17. Steady
  BY <1>1, <1>13, <1>16 DEF Steady
<1>18. /\ \A b \in Blocks : R[b].obj < n
       /\ \A b \in Blocks \ DoubtIn(snaps, conf[v]) :
             /\ Current(v, b) = Val(objects'[v], first'[v][b], b, R[b])
             /\ Val(objects'[v], first'[v][b], b, ckpt[v][b]) =
                   Val(objects[v], first[v][b], b, ckpt[v][b])
  BY <1>2, <1>5, <1>17, ReplayedIs DEF R, n
<1>19. drainer[v] = "free" /\ segment[v] = {}
  BY <1>2, <1>3 DEF VolInv, Numbers
<1>20. VolInv(v)'
  <2>1. \A b \in Blocks : ckpt'[v][b].obj <= own'[v][b].obj
    <3>1. \A b \in Blocks : R[b].obj \in Nat
      BY <1>8, CloneBoundAssumption DEF EntryMap, Entry
    <3>2. QED BY <3>1, <1>11, <1>12, <1>15
  <2>2. \A b \in Blocks : taken'[v][b] <= Len(log'[v][b]) /\ mapped'[v][b] <= taken'[v][b]
    BY <1>6
  <2>3. Numbers(v)'
    BY <2>1, <2>2, <1>2, <1>11, <1>18, <1>19 DEF Numbers
  <2>4. Linked(v)'
    BY <1>2, <1>3, <1>4 DEF VolInv, Linked
  <2>5. ASSUME NEW b \in Blocks, b \notin DoubtIn(snaps, conf[v])
        PROVE  /\ first'[v][b] = InhIn(objects', LayersIn(snaps, conf[v]), b)
               /\ guest'[v][b] = Current(v, b)'
               /\ b \notin saved'[v].left =>
                     saved'[v].image[b] = Val(objects'[v], first'[v][b], b, ckpt'[v][b])
    <3>1. first'[v][b] = InhIn(objects', LayersIn(snaps, conf[v]), b)
      BY <1>2, <1>17, <2>5, FirstKept
    <3>2. Current(v, b)' = Val(objects'[v], first'[v][b], b, R[b])
      <4>1. ~(mapped'[v][b] < Len(log'[v][b]))
        BY <1>6
      <4>2. QED BY <4>1, <1>11 DEF Current
    <3>3. guest[v][b] = Current(v, b)
      BY <1>2, <1>3, <2>5 DEF VolInv, Histories
    <3>4. CASE ckpt'[v] = R /\ saved'[v] = mom
      BY <1>2, <1>9, <1>18, <2>5, <3>1, <3>2, <3>3, <3>4
    <3>5. CASE ckpt'[v] = ckpt[v] /\ saved'[v] = saved[v]
      <4>1. b \notin saved[v].left =>
                saved[v].image[b] = Val(objects[v], first[v][b], b, ckpt[v][b])
        BY <1>2, <1>3, <2>5 DEF VolInv, Histories
      <4>2. QED BY <1>2, <1>18, <2>5, <3>1, <3>2, <3>3, <3>5, <4>1
    <3>6. QED BY <1>12, <3>4, <3>5
  <2>6. Histories(v)'
    BY <2>5, <1>2, <1>4, <1>19 DEF Histories
  <2>7. QED BY <2>3, <2>4, <2>6 DEF VolInv
<1>21. sp.at # "idle" /\ sp.src = v => sp.at = "remote"
  BY <1>1, <1>2 DEF Making
<1>22. drainer'[v] = "free"
  BY <1>2, <1>19
<1> SUFFICES IInv'
  BY <1>16
<1>23. QED BY <1>2, <1>13, <1>14, <1>16, <1>20, <1>21, <1>22, AsideStep

\* Close preserves the invariant.
LEMMA CloseStep ==
    ASSUME IInv, NEW v \in Volumes, Close(v)
    PROVE  IInv' /\ Kept
<1>1. Types /\ VolInvs /\ SnapsKnown /\ Making
  BY Parts
<1> DEFINE S == Pending(v)
           A == Advanced(own[v], S, objNum[v])
           n == After(v, S)
           full == [b \in Blocks |-> IF b \in S THEN NewestLogged(v, b)
                                     ELSE Val(objects[v], first[v][b], b, own[v][b])]
           old == [b \in Blocks |-> Val(objects[v], first[v][b], b, ckpt[v][b])]
<1>2. /\ phase[v] = "up" /\ Puts(v, S) /\ NoLog(v) /\ Gone(v)
      /\ ~(sp.src = v /\ sp.at # "remote")
      /\ conf' = [conf EXCEPT ![v] = link[v]] /\ confObj' = [confObj EXCEPT ![v] = n]
      /\ UNCHANGED <<sp, snaps, first, cut>>
      /\ UNCHANGED writes /\ stops' = stops + 1
  BY DEF Close
<1>3. \/ /\ ckpt' = [ckpt EXCEPT ![v] = A] /\ guest' = [guest EXCEPT ![v] = full]
         /\ saved' = [saved EXCEPT ![v] = Moment(guest'[v], {})] /\ UNCHANGED faults
      \/ Fault /\ UNCHANGED <<ckpt, saved>> /\ guest' = [guest EXCEPT ![v] = old]
  BY Unfolded DEF Close
<1>4. VolInv(v) /\ Open(v)
  BY <1>1, <1>2 DEF VolInvs, Open
<1>5. conf' = conf
  <2>1. link[v] = conf[v] /\ conf \in [Volumes -> 0..Len(snaps)]
    BY <1>1, <1>4 DEF VolInv, Linked, Types, VolTypes
  <2>2. QED BY <1>2, <2>1
<1>6. Written(v, S) /\ S \in SUBSET Blocks /\ \A b \in S : log[v][b] # <<>>
  BY <1>1, <1>2, LoggedIs, PutsIs
<1>7. /\ log' \in [Volumes -> [Blocks -> Seq(Record)]]
      /\ taken' \in [Volumes -> [Blocks -> Nat]] /\ mapped' \in [Volumes -> [Blocks -> Nat]]
      /\ \A b \in Blocks : log'[v][b] = <<>> /\ taken'[v][b] = 0 /\ mapped'[v][b] = 0
      /\ \A u \in Volumes \ {v} :
            log'[u] = log[u] /\ taken'[u] = taken[u] /\ mapped'[u] = mapped[u]
  BY <1>1, <1>2, NoLogIs
<1>8. n \in Nat /\ objNum[v] \in Nat
  BY <1>1, TypesElements DEF Elements, After
<1>9. \A b \in Blocks :
          /\ own[v][b] \in Entry /\ own[v][b].obj \in Nat /\ own[v][b].obj < objNum[v]
          /\ ckpt[v][b] \in Entry /\ ckpt[v][b].obj \in Nat /\ ckpt[v][b].obj < objNum[v]
          /\ ckpt[v][b].obj <= own[v][b].obj /\ first[v][b] \in Record
  <2>1. ASSUME NEW b \in Blocks
        PROVE  /\ own[v][b] \in Entry /\ own[v][b].obj \in Nat /\ own[v][b].obj < objNum[v]
               /\ ckpt[v][b] \in Entry /\ ckpt[v][b].obj \in Nat
               /\ ckpt[v][b].obj <= own[v][b].obj /\ first[v][b] \in Record
    BY <1>1, <1>4, TypesElements DEF Elements, VolInv, Numbers
  <2>2. QED BY <2>1, <1>8
<1>10. A \in EntryMap
  <2>1. own[v] \in EntryMap /\ (S = {} \/ objNum[v] \in Ids)
    BY <1>1, <1>6, TypesElements DEF Elements, Written
  <2>2. QED BY <1>6, <2>1, AdvancedType
<1>11. /\ \A b \in S : A[b] = [obj |-> objNum[v], off |-> Place(S, b)]
       /\ \A b \in Blocks \ S : A[b] = own[v][b]
  BY <1>6 DEF Advanced
<1>12. full \in [Blocks -> Record] /\ old \in [Blocks -> Record]
  <2>1. objects[v] \in [Ids -> Chunk]
    BY <1>1, TypesElements DEF Elements
  <2>2. ASSUME NEW b \in Blocks, NEW e PROVE Val(objects[v], first[v][b], b, e) \in Record
    BY <1>9, <2>1, <2>2, ReadAtType DEF Val
  <2>3. \A b \in S : NewestLogged(v, b) \in Record
    BY <1>1, <1>6, NewestType
  <2>4. QED BY <2>2, <2>3
<1>13. /\ \A b \in S : full[b] = NewestLogged(v, b)
       /\ \A b \in Blocks \ S : full[b] = Val(objects[v], first[v][b], b, own[v][b])
       /\ \A b \in Blocks : old[b] = Val(objects[v], first[v][b], b, ckpt[v][b])
  BY <1>6
<1> HIDE DEF A, n, full, old, S
<1>14. /\ ckpt' \in [Volumes -> EntryMap] /\ saved' \in [Volumes -> Instant]
       /\ guest' \in [Volumes -> [Blocks -> Record]] /\ faults' \in Nat
       /\ \/ /\ ckpt'[v] = A /\ guest'[v] = full
             /\ saved'[v].image = full /\ saved'[v].left = {}
          \/ ckpt'[v] = ckpt[v] /\ saved'[v] = saved[v] /\ guest'[v] = old
       /\ \A u \in Volumes \ {v} :
             ckpt'[u] = ckpt[u] /\ saved'[u] = saved[u] /\ guest'[u] = guest[u]
  <2>1. /\ ckpt \in [Volumes -> EntryMap] /\ saved \in [Volumes -> Instant] /\ faults \in Nat
        /\ guest \in [Volumes -> [Blocks -> Record]]
    BY <1>1 DEF Types, DataTypes, PastTypes
  <2>2. CASE /\ ckpt' = [ckpt EXCEPT ![v] = A] /\ guest' = [guest EXCEPT ![v] = full]
             /\ saved' = [saved EXCEPT ![v] = Moment(guest'[v], {})] /\ UNCHANGED faults
    <3>1. guest'[v] = full
      BY <2>1, <2>2
    <3>2. /\ Moment(full, {}) \in Instant /\ Moment(full, {}).image = full
          /\ Moment(full, {}).left = {}
      BY <1>12 DEF Moment, Instant
    <3> HIDE DEF Moment
    <3>3. QED BY <1>10, <1>12, <2>1, <2>2, <3>1, <3>2
  <2>3. CASE Fault /\ UNCHANGED <<ckpt, saved>> /\ guest' = [guest EXCEPT ![v] = old]
    BY <1>12, <2>1, <2>3 DEF Fault
  <2>4. QED BY <1>3, <2>2, <2>3
<1>15. /\ phase' \in [Volumes -> {"absent", "down", "loading", "up"}]
       /\ link' \in [Volumes -> 0..Len(snaps)] /\ layers' \in [Volumes -> Seq(Layer)]
       /\ own' \in [Volumes -> EntryMap] /\ objNum' \in [Volumes -> Nat]
       /\ drainer' \in [Volumes -> {"free", "bg", "snap"}]
       /\ segment' \in [Volumes -> SUBSET Blocks]
       /\ phase'[v] = "down" /\ own'[v] = ckpt'[v] /\ drainer'[v] = "free"
       /\ segment'[v] = {}
       /\ \A u \in Volumes \ {v} :
             /\ phase'[u] = phase[u] /\ link'[u] = link[u] /\ layers'[u] = layers[u]
             /\ own'[u] = own[u] /\ objNum'[u] = objNum[u] /\ drainer'[u] = drainer[u]
             /\ segment'[u] = segment[u]
  <2>1. ckpt'[v] \in EntryMap
    BY <1>14
  <2>2. QED BY <1>1, <1>2, <2>1, GoneIs
<1>16. Types'
  <2>1. confObj' \in [Volumes -> Nat]
    BY <1>1, <1>2, <1>8 DEF Types, VolTypes
  <2>2. objects' \in [Volumes -> [Ids -> Chunk]] /\ stops' \in Nat
    BY <1>1, <1>2, <1>6 DEF Written, Types, PastTypes
  <2>3. QED BY <1>1, <1>2, <1>5, <1>7, <1>14, <1>15, <2>1, <2>2
        DEF Types, VolTypes, DataTypes, PastTypes, SnapTypes
<1>17. Others(v)
  BY <1>2, <1>5, <1>6, <1>7, <1>14, <1>15 DEF Others, Same, Written
<1>18. ASSUME NEW b \in Blocks
       PROVE  ckpt'[v][b].obj \in Nat /\ ckpt[v][b].obj <= ckpt'[v][b].obj
  <2>1. /\ own[v][b].obj \in Nat /\ ckpt[v][b].obj \in Nat /\ ckpt[v][b].obj < objNum[v]
        /\ ckpt[v][b].obj <= own[v][b].obj
    BY <1>9
  <2>2. A[b] = [obj |-> objNum[v], off |-> Place(S, b)] \/ A[b] = own[v][b]
    BY <1>11
  <2>3. A[b].obj \in Nat /\ ckpt[v][b].obj <= A[b].obj
    BY <1>8, <2>1, <2>2
  <2>4. QED BY <1>14, <2>1, <2>3
<1>19. Kept
  <2>1. \A u \in Volumes, i \in Ids :
            objects'[u][i] = objects[u][i] \/ (Open(u) /\ i = objNum[u])
    BY <1>4, <1>6 DEF Written
  <2>2. ASSUME NEW u \in Volumes, NEW b \in Blocks PROVE ckpt[u][b].obj <= ckpt'[u][b].obj
    <3>1. ckpt[u][b].obj \in Nat
      BY <1>1, TypesElements DEF Elements
    <3>2. QED BY <3>1, <1>14, <1>18
  <2>3. \A u \in Volumes : phase[u] # "absent" => phase'[u] # "absent"
    BY <1>15
  <2>4. QED BY <1>2, <1>5, <2>1, <2>2, <2>3 DEF Kept
<1>20. Steady
  BY <1>1, <1>16, <1>19 DEF Steady
<1>21. VolInv(v)'
  <2>1. \A b \in Blocks : /\ taken'[v][b] <= Len(log'[v][b]) /\ mapped'[v][b] <= taken'[v][b]
                          /\ ckpt'[v][b].obj <= own'[v][b].obj
    BY <1>7, <1>15, <1>18
  <2>2. Numbers(v)'
    BY <2>1, <1>7, <1>15 DEF Numbers, Open
  <2>3. Linked(v)'
    BY <1>15 DEF Linked, Open
  <2>4. ASSUME NEW b \in Blocks, b \notin DoubtIn(snaps, conf[v])
        PROVE  /\ first'[v][b] = InhIn(objects', LayersIn(snaps, conf[v]), b)
               /\ guest'[v][b] = Current(v, b)'
               /\ b \notin saved'[v].left =>
                     saved'[v].image[b] = Val(objects'[v], first'[v][b], b, ckpt'[v][b])
    <3>1. first'[v][b] = InhIn(objects', LayersIn(snaps, conf[v]), b)
      BY <1>2, <1>20, <2>4, FirstKept
    <3>2. Current(v, b)' = Val(objects'[v], first'[v][b], b, ckpt'[v][b])
      <4>1. ~(mapped'[v][b] < Len(log'[v][b]))
        BY <1>7
      <4>2. QED BY <4>1, <1>15 DEF Current
    <3>3. /\ Val(objects'[v], first'[v][b], b, own[v][b]) = Val(objects[v], first[v][b], b, own[v][b])
          /\ Val(objects'[v], first'[v][b], b, ckpt[v][b]) = Val(objects[v], first[v][b], b, ckpt[v][b])
      BY <1>2, <1>9, <1>20, <2>4, ValKept
    <3>4. CASE ckpt'[v] = A /\ guest'[v] = full /\ saved'[v].image = full /\ saved'[v].left = {}
      <4>1. Val(objects'[v], first'[v][b], b, A[b]) = full[b]
        <5>1. CASE b \in S
          <6>1. A[b] = [obj |-> objNum[v], off |-> Place(S, b)]
            BY <1>11, <5>1
          <6>2. Val(objects'[v], first'[v][b], b, [obj |-> objNum[v], off |-> Place(S, b)])
                  = NewestLogged(v, b)
            BY <1>6, <5>1 DEF Written
          <6>3. QED BY <1>13, <5>1, <6>1, <6>2
        <5>2. CASE b \notin S
          BY <1>11, <1>13, <3>3, <5>2
        <5>3. QED BY <5>1, <5>2
      <4>2. QED BY <3>1, <3>2, <3>4, <4>1
    <3>5. CASE ckpt'[v] = ckpt[v] /\ saved'[v] = saved[v] /\ guest'[v] = old
      <4>1. b \notin saved[v].left =>
                saved[v].image[b] = Val(objects[v], first[v][b], b, ckpt[v][b])
        BY <1>2, <1>4, <2>4 DEF VolInv, Histories
      <4>2. QED BY <1>13, <3>1, <3>2, <3>3, <3>5, <4>1
    <3>6. QED BY <1>14, <3>4, <3>5
  <2>5. Histories(v)'
    BY <2>4, <1>2, <1>5, <1>15 DEF Histories
  <2>6. QED BY <2>2, <2>3, <2>5 DEF VolInv
<1>22. sp.at # "idle" /\ sp.src = v => sp.at = "remote"
  BY <1>2
<1> SUFFICES IInv'
  BY <1>19
<1>23. QED BY <1>2, <1>15, <1>16, <1>17, <1>19, <1>21, <1>22, AsideStep

\* A crash of a volume, by its changes.
LEMMA CrashIs ==
    ASSUME Types, NEW v \in Volumes, Crash(v)
    PROVE  /\ Open(v) /\ Gone(v) /\ UNCHANGED <<conf, confObj, objects, snaps, first, saved, ckpt>>
           /\ UNCHANGED <<writes, faults>> /\ stops' \in Nat
           /\ sp' = IF sp.src = v /\ sp.at # "remote" THEN NoSnap ELSE sp
           /\ cut' \in [Volumes -> Instant] /\ guest' \in [Volumes -> [Blocks -> Record]]
           /\ log' \in [Volumes -> [Blocks -> Seq(Record)]]
           /\ taken' \in [Volumes -> [Blocks -> Nat]] /\ mapped' \in [Volumes -> [Blocks -> Nat]]
           /\ \A b \in Blocks :
                 /\ mapped'[v][b] = 0 /\ taken'[v][b] = Len(log'[v][b])
                 /\ guest'[v][b] = IF log'[v][b] = <<>>
                                   THEN Val(objects[v], first[v][b], b, ckpt[v][b])
                                   ELSE log'[v][b][Len(log'[v][b])]
           /\ \A u \in Volumes \ {v} :
                 /\ log'[u] = log[u] /\ taken'[u] = taken[u] /\ mapped'[u] = mapped[u]
                 /\ guest'[u] = guest[u] /\ cut'[u] = cut[u]
<1>1. PICK n \in [Blocks -> 0..MaxWrites] :
          /\ \A b \in Blocks : taken[v][b] <= n[b] /\ n[b] <= Len(log[v][b])
          /\ log' = [log EXCEPT ![v] = [b \in Blocks |-> SubSeq(@[b], 1, n[b])]]
          /\ taken' = [taken EXCEPT ![v] = n] /\ mapped' = [mapped EXCEPT ![v] = None]
          /\ guest' = [guest EXCEPT ![v] =
                 [b \in Blocks |-> IF n[b] = 0 THEN Holds(v, b, ckpt[v][b]) ELSE log[v][b][n[b]]]]
  BY DEF Crash
<1>2. \A b \in Blocks : n[b] \in Nat /\ n[b] <= Len(log[v][b]) /\ log[v][b] \in Seq(Record)
  BY <1>1, TypesElements, CloneBoundAssumption DEF Elements
<1> DEFINE short == [b \in Blocks |-> SubSeq(log[v][b], 1, n[b])]
           has == [b \in Blocks |-> IF n[b] = 0 THEN Holds(v, b, ckpt[v][b]) ELSE log[v][b][n[b]]]
<1>3. ASSUME NEW b \in Blocks
      PROVE  /\ short[b] \in Seq(Record) /\ Len(short[b]) = n[b]
             /\ n[b] # 0 => short[b][n[b]] = log[v][b][n[b]] /\ log[v][b][n[b]] \in Record
             /\ short[b] = <<>> <=> n[b] = 0
  <2>1. /\ SubSeq(log[v][b], 1, n[b]) \in Seq(Record) /\ Len(SubSeq(log[v][b], 1, n[b])) = n[b]
        /\ \A i \in 1..n[b] : SubSeq(log[v][b], 1, n[b])[i] = log[v][b][i]
        /\ n[b] # 0 => log[v][b][n[b]] \in Record
    BY <1>2, Prefix
  <2>2. n[b] # 0 => n[b] \in 1..n[b]
    BY <1>2
  <2>3. short[b] = SubSeq(log[v][b], 1, n[b])
    OBVIOUS
  <2> HIDE DEF short
  <2>4. \A q \in Seq(Record) : q = <<>> <=> Len(q) = 0
    OBVIOUS
  <2>5. short[b] \in Seq(Record) /\ Len(short[b]) = n[b]
    BY <2>1, <2>3
  <2>6. n[b] # 0 => short[b][n[b]] = log[v][b][n[b]] /\ log[v][b][n[b]] \in Record
    BY <2>1, <2>2, <2>3
  <2>7. QED BY <2>4, <2>5, <2>6
<1>4. ASSUME NEW b \in Blocks
      PROVE  /\ Holds(v, b, ckpt[v][b]) = Val(objects[v], first[v][b], b, ckpt[v][b])
             /\ Val(objects[v], first[v][b], b, ckpt[v][b]) \in Record
  <2>1. first[v][b] \in Record /\ objects[v] \in [Ids -> Chunk]
    BY TypesElements DEF Elements
  <2>2. Val(objects[v], first[v][b], b, ckpt[v][b]) \in Record
    BY <2>1, ReadAtType DEF Val
  <2>3. QED BY <2>2, Unfolded
<1>5. has \in [Blocks -> Record]
  BY <1>3, <1>4
<1>6. short \in [Blocks -> Seq(Record)] /\ n \in [Blocks -> Nat] /\ None \in [Blocks -> Nat]
  BY <1>2, <1>3 DEF None
<1>7. /\ log' = [log EXCEPT ![v] = short] /\ guest' = [guest EXCEPT ![v] = has]
      /\ taken' = [taken EXCEPT ![v] = n] /\ mapped' = [mapped EXCEPT ![v] = None]
  BY <1>1
<1>8. \A b \in Blocks :
          /\ None[b] = 0
          /\ has[b] = IF n[b] = 0 THEN Val(objects[v], first[v][b], b, ckpt[v][b])
                      ELSE log[v][b][n[b]]
  BY <1>4 DEF None
<1>9. Moment(first[v], {}) \in Instant
  BY DEF Types, PastTypes, Moment, Instant
<1> HIDE DEF short, has
<1>10. /\ log' \in [Volumes -> [Blocks -> Seq(Record)]] /\ log'[v] = short
       /\ guest' \in [Volumes -> [Blocks -> Record]] /\ guest'[v] = has
       /\ taken' \in [Volumes -> [Blocks -> Nat]] /\ taken'[v] = n
       /\ mapped' \in [Volumes -> [Blocks -> Nat]] /\ mapped'[v] = None
       /\ \A u \in Volumes \ {v} :
             /\ log'[u] = log[u] /\ taken'[u] = taken[u] /\ mapped'[u] = mapped[u]
             /\ guest'[u] = guest[u]
  BY <1>5, <1>6, <1>7 DEF Types, DataTypes, PastTypes
<1>11. cut' \in [Volumes -> Instant] /\ \A u \in Volumes \ {v} : cut'[u] = cut[u]
  <2>1. cut' = [cut EXCEPT ![v] = Moment(first[v], {})] /\ cut \in [Volumes -> Instant]
    BY DEF Crash, Types, PastTypes
  <2>2. QED BY <1>9, <2>1
<1>12. /\ Open(v) /\ Gone(v) /\ UNCHANGED <<conf, confObj, objects, snaps, first, saved, ckpt>>
       /\ UNCHANGED <<writes, faults>> /\ stops' \in Nat
       /\ sp' = IF sp.src = v /\ sp.at # "remote" THEN NoSnap ELSE sp
  BY DEF Crash, Open, Types, PastTypes
<1>13. ASSUME NEW b \in Blocks
       PROVE  /\ mapped'[v][b] = 0 /\ taken'[v][b] = Len(log'[v][b])
              /\ guest'[v][b] = IF log'[v][b] = <<>>
                                THEN Val(objects[v], first[v][b], b, ckpt[v][b])
                                ELSE log'[v][b][Len(log'[v][b])]
  BY <1>3, <1>8, <1>10
<1>14. QED BY <1>10, <1>11, <1>12, <1>13

\* A crash preserves the invariant.
LEMMA CrashStep ==
    ASSUME IInv, NEW v \in Volumes, Crash(v)
    PROVE  IInv' /\ Kept
<1>1. /\ Types /\ VolInvs /\ SnapsKnown /\ SnapDrains /\ Making /\ Growing
      /\ SnapshotFaithful
  BY Parts
<1>2. /\ Open(v) /\ Gone(v) /\ UNCHANGED <<conf, confObj, objects, snaps, first, saved, ckpt>>
      /\ UNCHANGED <<writes, faults>> /\ stops' \in Nat
      /\ sp' = IF sp.src = v /\ sp.at # "remote" THEN NoSnap ELSE sp
      /\ cut' \in [Volumes -> Instant] /\ guest' \in [Volumes -> [Blocks -> Record]]
      /\ log' \in [Volumes -> [Blocks -> Seq(Record)]]
      /\ taken' \in [Volumes -> [Blocks -> Nat]] /\ mapped' \in [Volumes -> [Blocks -> Nat]]
      /\ \A b \in Blocks :
            /\ mapped'[v][b] = 0 /\ taken'[v][b] = Len(log'[v][b])
            /\ guest'[v][b] = IF log'[v][b] = <<>>
                              THEN Val(objects[v], first[v][b], b, ckpt[v][b])
                              ELSE log'[v][b][Len(log'[v][b])]
      /\ \A u \in Volumes \ {v} :
            /\ log'[u] = log[u] /\ taken'[u] = taken[u] /\ mapped'[u] = mapped[u]
            /\ guest'[u] = guest[u] /\ cut'[u] = cut[u]
  BY <1>1, CrashIs
<1>3. /\ phase' \in [Volumes -> {"absent", "down", "loading", "up"}]
      /\ link' \in [Volumes -> 0..Len(snaps)] /\ layers' \in [Volumes -> Seq(Layer)]
      /\ own' \in [Volumes -> EntryMap] /\ objNum' \in [Volumes -> Nat]
      /\ drainer' \in [Volumes -> {"free", "bg", "snap"}]
      /\ segment' \in [Volumes -> SUBSET Blocks]
      /\ phase'[v] = "down" /\ own'[v] = ckpt[v] /\ drainer'[v] = "free"
      /\ segment'[v] = {}
      /\ \A u \in Volumes \ {v} :
            /\ phase'[u] = phase[u] /\ link'[u] = link[u] /\ layers'[u] = layers[u]
            /\ own'[u] = own[u] /\ objNum'[u] = objNum[u] /\ drainer'[u] = drainer[u]
            /\ segment'[u] = segment[u]
  <2>1. ckpt'[v] \in EntryMap /\ ckpt' = ckpt
    BY <1>1, <1>2, TypesElements DEF Elements
  <2>2. QED BY <1>1, <1>2, <2>1, GoneIs
<1>4. Types'
  <2>1. sp' \in SnapCall
    BY <1>1, <1>2, NoSnapType DEF Types, SnapTypes
  <2>2. QED BY <1>1, <1>2, <1>3, <2>1
        DEF Types, VolTypes, DataTypes, PastTypes, SnapTypes
<1>5. Others(v)
  BY <1>2, <1>3 DEF Others, Same
<1>6. Kept
  <2>1. \A u \in Volumes, b \in Blocks : ckpt[u][b].obj <= ckpt'[u][b].obj
    BY <1>1, <1>2, TypesElements DEF Elements
  <2>2. \A u \in Volumes : phase[u] # "absent" => phase'[u] # "absent"
    BY <1>3
  <2>3. QED BY <1>2, <2>1, <2>2 DEF Kept
<1>7. Steady
  BY <1>1, <1>4, <1>6 DEF Steady
<1>8. VolInv(v)'
  <2>1. \A b \in Blocks : Len(log'[v][b]) \in Nat /\ ckpt[v][b].obj <= ckpt[v][b].obj
    BY <1>1, <1>2, TypesElements DEF Elements
  <2>2. Numbers(v)'
    BY <2>1, <1>2, <1>3 DEF Numbers, Open
  <2>3. Linked(v)'
    BY <1>3 DEF Linked, Open
  <2>4. phase[v] # "absent" /\ VolInv(v)
    BY <1>1, <1>2 DEF Open, VolInvs
  <2>5. ASSUME NEW b \in Blocks, b \notin DoubtIn(snaps, conf[v])
        PROVE  /\ first'[v][b] = InhIn(objects', LayersIn(snaps, conf[v]), b)
               /\ guest'[v][b] = Current(v, b)'
               /\ b \notin saved'[v].left =>
                     saved'[v].image[b] = Val(objects'[v], first'[v][b], b, ckpt'[v][b])
    <3>1. Current(v, b)' = IF log'[v][b] = <<>>
                           THEN Val(objects[v], first[v][b], b, ckpt[v][b])
                           ELSE log'[v][b][Len(log'[v][b])]
      <4>1. log'[v][b] \in Seq(Record) /\ (0 < Len(log'[v][b]) <=> log'[v][b] # <<>>)
        BY <1>2
      <4>2. QED BY <4>1, <1>2, <1>3 DEF Current
    <3>2. QED BY <1>2, <2>4, <2>5, <3>1 DEF VolInv, Histories
  <2>6. Histories(v)'
    BY <2>5, <1>2, <1>3 DEF Histories
  <2>7. QED BY <2>2, <2>3, <2>6 DEF VolInv
<1>9. VolInvs' /\ SnapsKnown' /\ SnapshotFaithful'
  BY <1>1, <1>2, <1>5, <1>7, <1>8, OtherVols, SavedKept
<1>10. SnapDrains' /\ Making' /\ Growing'
  <2>1. CASE sp.src = v /\ sp.at # "remote"
    <3>1. sp'.at = "idle"
      BY <1>2, <2>1 DEF NoSnap
    <3>2. SnapDrains'
      <4>1. ASSUME NEW u \in Volumes PROVE drainer'[u] # "snap"
        <5>1. CASE u = v
          BY <1>3, <5>1
        <5>2. CASE u # v
          <6>1. drainer'[u] = drainer[u]
            BY <1>3, <5>2
          <6>2. drainer[u] # "snap"
            BY <1>1, <2>1, <5>2 DEF SnapDrains
          <6>3. QED BY <6>1, <6>2
        <5>3. QED BY <5>1, <5>2
      <4>2. QED BY <3>1, <4>1 DEF SnapDrains
    <3>3. QED BY <3>1, <3>2 DEF Making, Growing
  <2>2. CASE ~(sp.src = v /\ sp.at # "remote")
    BY <1>2, <1>3, <1>5, <1>7, <2>2, AsideKept
  <2>3. QED BY <2>1, <2>2
<1>11. QED BY <1>4, <1>6, <1>9, <1>10, PartsNext

-----------------------------------------------------------------------------
(* The theorems.                                                           *)

\* The invariant holds initially.
LEMMA CloneInit == Init => IInv
<1> SUFFICES ASSUME Init PROVE IInv
  OBVIOUS
<1>1. sp = NoSnap /\ sp.at = "idle" /\ snaps = <<>> /\ Len(snaps) = 0
  BY DEF Init, NoSnap
<1>2. /\ Zero \in Record /\ NoMap \in EntryMap /\ NoSnap \in SnapCall /\ NoChunk \in Chunk
      /\ None \in [Blocks -> Nat] /\ \A b \in Blocks : None[b] = 0 /\ NoMap[b] = NoEntry
      /\ NoEntry.obj = 0
  <2>1. NoChunk \in Chunk
    BY DEF NoChunk, Chunk
  <2>2. QED BY <2>1, NoSnapType, NoEntryType DEF Zero, Record, NoMap, None, NoEntry
<1>3. VolTypes
  <2>1. 0 \in 0..Len(snaps) /\ <<>> \in Seq(Layer)
    BY <1>1
  <2>2. QED BY <2>1 DEF Init, VolTypes
<1>4. DataTypes
  <2>1. <<>> \in Seq(Record)
    OBVIOUS
  <2>2. QED BY <1>2, <2>1 DEF Init, DataTypes
<1>5. PastTypes /\ SnapTypes
  <2>1. guest \in [Volumes -> [Blocks -> Record]] /\ first = guest
    BY <1>2 DEF Init
  <2>2. \A v \in Volumes : Moment(guest[v], {}) \in Instant
    BY <2>1 DEF Moment, Instant
  <2>3. cut \in [Volumes -> Instant] /\ saved = cut
    BY <2>2 DEF Init
  <2>4. PastTypes
    BY <2>1, <2>3 DEF Init, PastTypes
  <2>5. SnapTypes
    BY <1>1, <1>2 DEF SnapTypes
  <2>6. QED BY <2>4, <2>5
<1>6. Types
  BY <1>3, <1>4, <1>5 DEF Types
<1>7. ASSUME NEW v \in Volumes PROVE VolInv(v)
  <2>1. /\ drainer[v] = "free" /\ segment[v] = {} /\ objNum[v] = 1 /\ conf[v] = 0
        /\ link[v] = 0 /\ layers[v] = <<>>
    BY DEF Init
  <2>2. ASSUME NEW b \in Blocks
        PROVE  /\ mapped[v][b] = 0 /\ taken[v][b] = 0 /\ log[v][b] = <<>> /\ Len(log[v][b]) = 0
               /\ own[v][b] = NoEntry /\ ckpt[v][b] = NoEntry
               /\ first[v][b] = Zero /\ guest[v][b] = Zero /\ saved[v].image[b] = Zero
    BY <1>2 DEF Init, Moment
  <2>3. Numbers(v)
    BY <1>2, <2>1, <2>2 DEF Numbers
  <2>4. Linked(v)
    BY <2>1 DEF Linked, LayersIn
  <2>5. ASSUME NEW b \in Blocks PROVE InhIn(objects, LayersIn(snaps, conf[v]), b) = Zero
    <3>1. LayersIn(snaps, conf[v]) = <<>>
      BY <2>1 DEF LayersIn
    <3>2. <<>> \in Seq(Layer) /\ \A i \in DOMAIN <<>> : <<>>[i].map[b] = NoEntry
      OBVIOUS
    <3>3. InhIn(objects, <<>>, b) = Zero
      BY <3>2, InheritedEnds
    <3>4. QED BY <3>1, <3>3
  <2>6. Histories(v)
    BY <2>1, <2>2, <2>5 DEF Histories, Current, Val
  <2>7. QED BY <2>3, <2>4, <2>6 DEF VolInv
<1>8. SnapsKnown /\ SnapshotFaithful
  BY <1>1 DEF SnapsKnown, SnapshotFaithful
<1>9. SnapDrains
  BY <1>1 DEF SnapDrains, Init
<1>10. Making /\ Growing
  BY <1>1 DEF Making, Growing
<1>11. QED BY <1>6, <1>7, <1>8, <1>9, <1>10 DEF IInv

\* Every step preserves the invariant, and takes nothing away.
LEMMA CloneNext == IInv /\ Next => IInv' /\ Kept
<1> SUFFICES ASSUME IInv, Next PROVE IInv' /\ Kept
  OBVIOUS
<1>1. CASE \E v \in Volumes :
            \/ \E b \in Blocks, H \in (SUBSET Halves) \ {{}} : Write(v, b, H)
            \/ \E S \in SUBSET segment[v] : Upload(v, S)
            \/ StartDrain(v) \/ UploadFails(v) \/ EndDrain(v)
  BY <1>1, WriteStep, UploadStep, StartDrainStep, UploadFailsStep, EndDrainStep
<1>2. CASE \E v \in Volumes :
            \/ BeginSnapshot(v) \/ RemoteSnapshot(v)
            \/ LoadState(v) \/ FinishOpen(v) \/ OpenFails(v) \/ Close(v) \/ Crash(v)
  BY <1>2, BeginSnapshotStep, RemoteSnapshotStep, LoadStateStep, FinishOpenStep, OpenFailsStep,
     CloseStep, CrashStep
<1>3. CASE \E v \in Volumes \ {1}, s \in DOMAIN snaps : Clone(v, s)
  BY <1>3, CloneStep
<1>4. CASE Freeze \/ BuildFlatSection \/ SaveSnapshot \/ SnapshotFails
  BY <1>4, FreezeStep, BuildFlatSectionStep, SaveSnapshotStep, SnapshotFailsStep
<1>5. QED BY <1>1, <1>2, <1>3, <1>4 DEF Next

\* A step that leaves every variable alone preserves the invariant.
LEMMA CloneStutter == IInv /\ UNCHANGED vars => IInv' /\ Kept
<1> SUFFICES ASSUME IInv, UNCHANGED vars PROVE IInv' /\ Kept
  OBVIOUS
<1>1. Types /\ VolInvs /\ SnapsKnown /\ SnapDrains /\ Making /\ Growing /\ SnapshotFaithful
  BY Parts
<1>2. /\ SnapOnly /\ UNCHANGED <<confObj, snaps>> /\ sp' = sp /\ sp' \in SnapCall
  BY <1>1 DEF vars, volVars, SnapOnly, Types, SnapTypes
<1>3. Types' /\ Steady /\ VolInvs' /\ SnapsKnown' /\ SnapshotFaithful'
  BY <1>2, SpOnlyIs
<1>4. \A u \in Volumes : Same(u)
  BY DEF vars, volVars, logVars, mapVars, histVars, Same
<1>5. SnapDrains'
  BY <1>1, <1>2, <1>4 DEF SnapDrains, Same
<1>6. Making'
  <2>1. CASE sp.at = "idle"
    BY <1>2, <2>1 DEF Making
  <2>2. CASE sp.at # "idle"
    <3>1. Grown /\ sp.src \in Volumes
      BY <1>1, <1>2, <2>2 DEF Grown, Making
    <3>2. sp.at # "remote" => phase'[sp.src] = "up" /\ objNum[sp.src] <= objNum'[sp.src]
      BY <1>1, <1>4, <2>2, <3>1, TypesElements DEF Making, Elements, Same
    <3>3. QED BY <1>1, <1>2, <1>3, <2>2, <3>1, <3>2, MakingKept
  <2>3. QED BY <2>1, <2>2
<1>7. Growing'
  <2>1. sp.at \in {"draining", "drained", "frozen"} => sp.src \in Volumes /\ Same(sp.src)
    BY <1>1, <1>4 DEF Making
  <2>2. QED BY <1>1, <1>2, <1>3, <2>1, GrowingKept
<1>8. QED BY <1>3, <1>5, <1>6, <1>7, PartsNext DEF Steady

\* The inductive invariant holds in every behaviour.
LEMMA CloneInvariant == Spec => []IInv
<1>1. IInv /\ [Next]_vars => IInv'
  BY CloneNext, CloneStutter
<1>2. QED BY <1>1, CloneInit, PTL DEF Spec

\* Every variable keeps its type; drains belong to volumes that are up; the map
\* and the checkpoint name only ObjectIDs that were handed out.
THEOREM CloneTypeCorrect == Spec => []TypeOK
<1>1. IInv => TypeOK
  <2> SUFFICES ASSUME IInv PROVE TypeOK
    OBVIOUS
  <2>1. sp.at \in {"idle", "draining", "drained", "frozen", "built", "remote"}
    BY Parts DEF Types, SnapTypes, SnapCall
  <2>2. /\ phase \in [Volumes -> {"absent", "down", "loading", "up"}]
        /\ conf \in [Volumes -> 0..Len(snaps)] /\ link \in [Volumes -> 0..Len(snaps)]
        /\ drainer \in [Volumes -> {"free", "bg", "snap"}]
    BY Parts DEF Types, VolTypes, DataTypes
  <2>3. ASSUME NEW v \in Volumes
        PROVE  /\ drainer[v] = "free" => segment[v] = {}
               /\ drainer[v] # "free" => phase[v] = "up"
               /\ \A b \in Blocks :
                     /\ mapped[v][b] <= taken[v][b] /\ taken[v][b] <= Len(log[v][b])
                     /\ ckpt[v][b].obj <= own[v][b].obj
                     /\ phase[v] = "up" => own[v][b].obj < objNum[v]
    BY Parts DEF VolInvs, VolInv, Numbers, Open
  <2>4. QED BY <2>1, <2>2, <2>3 DEF TypeOK
<1>2. QED BY <1>1, CloneInvariant, PTL

\* A guest reads what it wrote over what its volume was created with, through
\* failed drains, closes and crashes, but for the blocks of a base frozen ahead
\* of its source's live checkpoint (readBlockStore over OpenFromSnapshot's
\* layers).
THEOREM ClonesReadTheirOwn == Spec => []CloneReads
<1>1. IInv => CloneReads
  BY Parts, ReadIs, Unfolded DEF CloneReads
<1>2. QED BY <1>1, CloneInvariant, PTL

\* A snapshot holds what the guest had when CreateSnapshot drained, or wrote
\* after that, and a remote one what it had at the last drain with a checkpoint,
\* but for the blocks a failed drain has left behind, the torn ones and those of
\* a doubtful base.
THEOREM SnapshotsAreFaithful == Spec => []SnapshotFaithful
<1>1. IInv => SnapshotFaithful
  BY Parts
<1>2. QED BY <1>1, CloneInvariant, PTL

\* Nothing a volume does later, handing out an ObjectID again included, changes
\* what a clone of a snapshot finds, but for the blocks it froze ahead of the
\* live checkpoint.
THEOREM SnapshotsAreFrozen == Spec => SnapshotFrozen
<1>1. IInv /\ [Next]_vars =>
        [\A s \in DOMAIN snaps : \A b \in Blocks \ snaps[s].ahead :
             ImageOf(s, b)' = ImageOf(s, b)]_vars
  <2> SUFFICES ASSUME IInv, [Next]_vars, NEW s \in DOMAIN snaps,
                      NEW b \in Blocks \ snaps[s].ahead
               PROVE  ImageOf(s, b)' = ImageOf(s, b)
    OBVIOUS
  <2>1. IInv' /\ Kept
    BY CloneNext, CloneStutter
  <2>2. Types'
    BY <2>1 DEF IInv
  <2>3. Steady
    BY <2>1, <2>2, Parts DEF Steady
  <2>4. s \in 0..Len(snaps) /\ DoubtIn(snaps, s) = snaps[s].ahead
    BY Parts DEF Types, SnapTypes, DoubtIn
  <2>5. /\ LayersIn(snaps', s) = LayersIn(snaps, s)
        /\ InhIn(objects', LayersIn(snaps, s), b) = InhIn(objects, LayersIn(snaps, s), b)
    BY <2>3, <2>4, LayersKept
  <2>6. ImageOf(s, b) = InhIn(objects, LayersIn(snaps, s), b)
    BY Unfolded
  <2>7. ImageOf(s, b)' = InhIn(objects', LayersIn(snaps', s), b)
    BY DEF ImageOf, Inherited, LayersOf, Fetch, LayersIn, InhIn, ReadAt
  <2>8. QED BY <2>5, <2>6, <2>7
<1>2. QED BY <1>1, CloneInvariant, PTL DEF Spec, SnapshotFrozen
=============================================================================
