-------------------------- MODULE BlockStoreProofs --------------------------
(***************************************************************************)
(* Proofs about the unified block store (BlockStore), for every volume     *)
(* size, chunk size and number of writers.                                 *)
(*                                                                         *)
(* The argument for reads: the newest published record of a block is in    *)
(* its shard, or else in the extents (Indexed), at every step of a mark; a *)
(* reader that missed the block in the shard finds a record at least as    *)
(* new in the extents, which only advance.  The argument for the map: the  *)
(* records of a block wait in order (InOrder), and a block whose entry is  *)
(* gone waits for nothing but a write about to be published (Waiting).     *)
(***************************************************************************)
EXTENDS BlockStore, ExtentsProofs

-----------------------------------------------------------------------------
(* The inductive invariant.                                                *)

Maps(S) == UNION {[D -> S] : D \in SUBSET Blocks}
RecordMaps == Maps(Nat)
Entry  == [state : {"hot", "pending"}, seq : Nat]
Place  == [mem : BOOLEAN, obj : Nat, off : Nat, seq : Nat]
JobSet == [chunk : RecordMaps, id : Nat, put : BOOLEAN, todo : RecordMaps]
Run    == [start : Nat, obj : Nat, off : Nat, seqs : Seq(Nat)]

Types ==
    /\ shard \in Maps(Entry) /\ wal \in RecordMaps /\ jobs \subseteq JobSet
    /\ objNum \in Nat /\ DOMAIN chunks = 0..(objNum - 1)
    /\ \A o \in DOMAIN chunks : chunks[o] \in RecordMaps
    /\ seqNum \in Nat /\ writes \in Seq(Blocks \X Nat) /\ flushing \in BOOLEAN
    /\ mark \in [at : {"idle", "sample", "extents", "remove"}, n : Run \cup {0},
                 left : SUBSET Blocks, ok : SUBSET Blocks]
    /\ writer \in [Blocks -> [at : {"idle", "extent", "reserve", "append", "publish"},
                              base : Nat, seq : Nat]]
    /\ reader \in [at : {"idle", "shard", "extent", "fetch", "done"}, pos : Nat, last : Nat,
                   floor : RecordMaps, found : Maps(Place), got : Maps(Nat \X Nat)]
    /\ done \in [Blocks -> Nat]

\* A map that is one and lies inside the volume.
MapIn(m) == IsMap(m) /\ \A e \in m : End(e) <= NumBlocks
MapsOK == MapIn(lookup) /\ MapIn(extents)

\* A place holds the record of the block under the SeqNum it names.
Holds(c, x, b) ==
    /\ x.obj \in DOMAIN c /\ b \in DOMAIN c[x.obj]
    /\ x.seq = c[x.obj][b]
    /\ x.off = Position(DOMAIN c[x.obj], b)

\* Where an extent has a block.
PlaceIn(e, b) == [mem |-> FALSE, obj |-> e.obj, off |-> OffsetAt(e, b), seq |-> SeqNumAt(e, b)]

Sealed == \A b \in Blocks : Mapped(extents, b) => Holds(chunks, Location(extents, b), b)

\* What is left of a job is part of its chunk, all of it before the PUT; the
\* chunk is on the backend from then on.
JobOK(j) ==
    /\ DOMAIN j.todo # {} /\ DOMAIN j.todo \subseteq DOMAIN j.chunk
    /\ \A b \in DOMAIN j.todo : j.todo[b] = j.chunk[b]
    /\ j.put => j.id \in DOMAIN chunks /\ chunks[j.id] = j.chunk

JobsOK ==
    /\ \A j \in jobs : JobOK(j)
    /\ \A j, k \in jobs : j # k => DOMAIN j.chunk \cap DOMAIN k.chunk = {}

\* The SeqNum the extents have a block under; 0 if they do not have it.
ExtSeq(m, b) == IF Mapped(m, b) THEN SeqNumAt(Resolve(m, b), b) ELSE 0

\* The newest published record of a block is the one in its shard, or the one
\* in the extents.
Indexed ==
    \A b \in Blocks :
        /\ done[b] <= seqNum
        /\ b \in DOMAIN shard => /\ shard[b].seq = done[b] /\ done[b] > 0
                                 /\ ExtSeq(extents, b) <= done[b]
        /\ b \notin DOMAIN shard => ExtSeq(extents, b) = done[b]

\* A write holds its block's lock from its read to its publication.
WritersOK ==
    \A b \in Blocks :
        /\ writer[b].at = "extent" => b \notin DOMAIN shard
        /\ writer[b].at \in {"reserve", "append", "publish"} => writer[b].base = done[b]
        /\ writer[b].at \in {"append", "publish"} =>
               done[b] < writer[b].seq /\ writer[b].seq <= seqNum

\* The extents have a block where the run being marked has it.
Installed(m, n, b) == Mapped(m, b) /\ Location(m, b) = PlaceIn(n, b)

\* The mark in progress: its run, and what each of its passes has done.
MarkOK ==
    mark.at # "idle" =>
        /\ IsExtent(mark.n) /\ End(mark.n) <= NumBlocks
        /\ \A b \in Blocks : Covers(mark.n, b) => Holds(chunks, PlaceIn(mark.n, b), b)
        /\ mark.left # {} /\ \A b \in mark.left \cup mark.ok : Covers(mark.n, b)
        /\ mark.at = "sample" => mark.ok \subseteq DOMAIN shard
        /\ mark.at = "extents" => mark.left \subseteq mark.ok /\ mark.ok \subseteq DOMAIN shard
        /\ mark.at = "remove" => mark.left \subseteq mark.ok /\ mark.left \subseteq DOMAIN shard
        /\ \A b \in mark.ok : SeqNumAt(mark.n, b) <= done[b]
        /\ mark.at \in {"sample", "extents"} =>
              \A b \in mark.ok : ExtSeq(extents, b) <= SeqNumAt(mark.n, b)
        /\ mark.at = "extents" => \A b \in mark.ok \ mark.left : Installed(extents, mark.n, b)
        /\ mark.at = "remove"  => \A b \in mark.left : Installed(extents, mark.n, b)

\* What a read in progress has found is there and not too old.
ReaderOK ==
    reader.at # "idle" =>
        /\ \E a, z \in Blocks : DOMAIN reader.floor = a..z /\ reader.last = z
        /\ reader.at \in {"shard", "extent"} =>
              /\ reader.pos \in DOMAIN reader.floor
              /\ DOMAIN reader.found = {b \in DOMAIN reader.floor : b < reader.pos}
        /\ reader.at \in {"fetch", "done"} => DOMAIN reader.found = DOMAIN reader.floor
        /\ \A b \in DOMAIN reader.floor : reader.floor[b] <= done[b]
        /\ \A b \in DOMAIN reader.found :
              /\ reader.floor[b] <= reader.found[b].seq
              /\ ~reader.found[b].mem => Holds(chunks, reader.found[b], b)
        /\ reader.at = "extent" => reader.floor[reader.pos] <= ExtSeq(extents, reader.pos)
        /\ reader.at = "done" =>
              /\ DOMAIN reader.got = DOMAIN reader.found
              /\ \A b \in DOMAIN reader.got : reader.got[b] = <<b, reader.found[b].seq>>

IInv == Types /\ MapsOK /\ Sealed /\ JobsOK /\ Indexed /\ WritersOK /\ MarkOK /\ ReaderOK

\* The records of a block on their way to the map.
Waits(b, s) ==
    \/ \E i \in DOMAIN writes : writes[i] = <<b, s>>
    \/ b \in DOMAIN wal /\ s = wal[b]
    \/ \E j \in jobs : b \in DOMAIN j.todo /\ s = j.todo[b]

\* A record was published, or is the one its write is about to publish.
Known(b, s) == s <= done[b] \/ (writer[b].at = "publish" /\ s = writer[b].seq)

\* They are in order: those of the drain in progress, of the open segment and
\* of Writes.Blocks.
InOrder ==
    /\ \A j \in jobs : \A b \in DOMAIN j.todo :
          /\ b \in DOMAIN wal => j.todo[b] < wal[b]
          /\ \A i \in DOMAIN writes : writes[i][1] = b => j.todo[b] < writes[i][2]
    /\ \A i \in DOMAIN writes :
          /\ writes[i][1] \in DOMAIN wal => wal[writes[i][1]] < writes[i][2]
          /\ \A k \in DOMAIN writes :
                i < k /\ writes[i][1] = writes[k][1] => writes[i][2] < writes[k][2]

\* Every waiting record is known and newer than the mark in progress; without
\* an entry in its shard a block waits for nothing that was published.
Waiting ==
    \A b \in Blocks, s \in Nat : Waits(b, s) =>
        /\ Known(b, s)
        /\ b \notin DOMAIN shard => done[b] < s
        /\ mark.at # "idle" /\ Covers(mark.n, b) => SeqNumAt(mark.n, b) < s

\* While a run is marked the map has it, and its records are known.
MarkMapped ==
    mark.at # "idle" =>
        \A b \in Blocks : Covers(mark.n, b) =>
            /\ Installed(lookup, mark.n, b)
            /\ Known(b, SeqNumAt(mark.n, b))

\* Map and extents have a block at the same place, but for blocks with an
\* entry in the shard or one about to be published.
Agreed ==
    \A b \in Blocks \ DOMAIN shard : writer[b].at # "publish" =>
        /\ Mapped(extents, b) <=> Mapped(lookup, b)
        /\ Mapped(extents, b) => Location(extents, b) = Location(lookup, b)

OInv == InOrder /\ Waiting /\ MarkMapped /\ Agreed

-----------------------------------------------------------------------------
(* Numbers, maps and places.                                               *)

\* The blocks of the volume.
LEMMA BlockNumbers ==
    /\ NumBlocks - 1 \in Nat /\ (NumBlocks - 1) + 1 = NumBlocks /\ NumBlocks \in Nat
    /\ Blocks = 0..(NumBlocks - 1) /\ Blocks \subseteq Nat
BY StoreAssumption DEF Blocks

\* A map from some of the blocks.
LEMMA MapsIs ==
    ASSUME NEW S, NEW f \in Maps(S)
    PROVE  /\ DOMAIN f \in SUBSET Blocks /\ f \in [DOMAIN f -> S]
           /\ \A b \in DOMAIN f : f[b] \in S
<1>1. PICK D \in SUBSET Blocks : f \in [D -> S]
  BY DEF Maps
<1>2. DOMAIN f = D
  BY <1>1
<1>3. QED BY <1>1, <1>2

\* Such a map, from its parts.
LEMMA MapsOf ==
    ASSUME NEW S, NEW D \in SUBSET Blocks, NEW f \in [D -> S]
    PROVE  f \in Maps(S)
BY DEF Maps

\* The map with nothing in it.
LEMMA NothingIs ==
    DOMAIN Nothing = {} /\ \A S : Nothing \in Maps(S)
<1>1. DOMAIN Nothing = {}
  BY DEF Nothing
<1>2. ASSUME NEW S PROVE Nothing \in Maps(S)
  <2>1. Nothing \in [{} -> S]
    BY DEF Nothing
  <2>2. QED BY <2>1, MapsOf
<1>3. QED BY <1>1, <1>2

\* A map after an assignment.
LEMMA WithIs ==
    ASSUME NEW f, NEW x, NEW v
    PROVE  /\ DOMAIN With(f, x, v) = DOMAIN f \cup {x}
           /\ With(f, x, v)[x] = v
           /\ \A y \in DOMAIN f : y # x => With(f, x, v)[y] = f[y]
BY DEF With

\* ... keeps its type.
LEMMA WithType ==
    ASSUME NEW S, NEW f \in Maps(S), NEW b \in Blocks, NEW v \in S
    PROVE  With(f, b, v) \in Maps(S)
<1>1. DOMAIN f \in SUBSET Blocks /\ \A c \in DOMAIN f : f[c] \in S
  BY MapsIs
<1> DEFINE D == DOMAIN f \cup {b}
<1>2. D \in SUBSET Blocks
  BY <1>1
<1>3. With(f, b, v) \in [D -> S]
  BY <1>1 DEF With
<1> HIDE DEF D
<1>4. QED BY <1>2, <1>3, MapsOf

\* A map without some of its blocks.
LEMMA WithoutType ==
    ASSUME NEW S, NEW f \in Maps(S), NEW X, NEW g, g = [c \in DOMAIN f \ X |-> f[c]]
    PROVE  /\ g \in Maps(S) /\ DOMAIN g = DOMAIN f \ X
           /\ \A c \in DOMAIN g : g[c] = f[c]
<1>1. DOMAIN f \in SUBSET Blocks /\ \A c \in DOMAIN f : f[c] \in S
  BY MapsIs
<1> DEFINE D == DOMAIN f \ X
<1>2. D \in SUBSET Blocks
  BY <1>1
<1>3. g \in [D -> S]
  BY <1>1
<1>4. DOMAIN g = D /\ \A c \in D : g[c] = f[c]
  OBVIOUS
<1> HIDE DEF D
<1>5. g \in Maps(S)
  BY <1>2, <1>3, MapsOf
<1>6. QED BY <1>4, <1>5 DEF D

\* The records of a chunk or a segment.
LEMMA RecordMapIs ==
    ASSUME NEW f \in RecordMaps
    PROVE  /\ DOMAIN f \in SUBSET Blocks /\ DOMAIN f \in SUBSET (0..(NumBlocks - 1))
           /\ DOMAIN f \subseteq Nat /\ \A b \in DOMAIN f : f[b] \in Nat
BY MapsIs, BlockNumbers DEF RecordMaps

\* Where a map has a block.
LEMMA LocationIs ==
    ASSUME NEW m, IsMap(m), NEW b \in Nat, Mapped(m, b)
    PROVE  /\ Resolve(m, b) \in m /\ IsExtent(Resolve(m, b)) /\ Covers(Resolve(m, b), b)
           /\ Location(m, b) = PlaceIn(Resolve(m, b), b)
           /\ Location(m, b) \in Place /\ Location(m, b).mem = FALSE
           /\ ExtSeq(m, b) = Location(m, b).seq
<1>1. Resolve(m, b) \in m /\ Covers(Resolve(m, b), b)
  BY DEF Mapped, Resolve
<1>2. IsExtent(Resolve(m, b))
  BY <1>1 DEF IsMap
<1>3. /\ Resolve(m, b).obj \in Nat /\ OffsetAt(Resolve(m, b), b) \in Nat
      /\ SeqNumAt(Resolve(m, b), b) \in Nat
  BY <1>1, <1>2, ExtentType
<1>4. Location(m, b) = PlaceIn(Resolve(m, b), b)
  BY DEF Location, PlaceIn
<1>5. QED BY <1>1, <1>2, <1>3, <1>4 DEF PlaceIn, Place, ExtSeq

\* The number the extents have a block under is one.
LEMMA ExtSeqType ==
    ASSUME NEW m, IsMap(m), NEW b \in Nat
    PROVE  ExtSeq(m, b) \in Nat
<1>1. CASE Mapped(m, b)
  BY <1>1, LocationIs DEF Place
<1>2. CASE ~Mapped(m, b)
  BY <1>2 DEF ExtSeq
<1>3. QED BY <1>1, <1>2

\* An insertion gives the blocks of the run the run's places, and moves no
\* other block (fractureOverlapsLocked, insertCoalescedLocked).
LEMMA InsertLocation ==
    ASSUME NEW m, IsMap(m), NEW n, IsExtent(n), NEW b \in Nat
    PROVE  /\ Covers(n, b) => Installed(Insert(m, n), n, b)
           /\ ~Covers(n, b) => /\ Mapped(Insert(m, n), b) <=> Mapped(m, b)
                               /\ Mapped(m, b) =>
                                     Location(Insert(m, n), b) = Location(m, b)
<1> DEFINE r == Insert(m, n)
<1>1. IsMap(r)
  BY InsertIsMap
<1>2. Covers(n, b) => Mapped(r, b) /\ Resolve(r, b) = n
  BY InsertResolves
<1>3. ~Covers(n, b) /\ Mapped(m, b) =>
         /\ Mapped(r, b) /\ IsExtent(Resolve(m, b)) /\ IsExtent(Resolve(r, b))
         /\ Piece(Resolve(r, b), Resolve(m, b))
         /\ Covers(Resolve(r, b), b) /\ Covers(Resolve(m, b), b)
  BY InsertResolves
<1>4. Mapped(r, b) => Covers(n, b) \/ Mapped(m, b)
  BY InsertResolves
<1> HIDE DEF r
<1>5. CASE Covers(n, b)
  BY <1>1, <1>2, <1>5, LocationIs DEF Installed, r
<1>6. CASE ~Covers(n, b) /\ Mapped(m, b)
  <2>1. /\ SeqNumAt(Resolve(r, b), b) = SeqNumAt(Resolve(m, b), b)
        /\ OffsetAt(Resolve(r, b), b) = OffsetAt(Resolve(m, b), b)
        /\ Resolve(r, b).obj = Resolve(m, b).obj
    BY <1>3, <1>6, PieceFacts
  <2>2. Location(r, b) = PlaceIn(Resolve(r, b), b) /\ Location(m, b) = PlaceIn(Resolve(m, b), b)
    BY <1>1, <1>3, <1>6, LocationIs
  <2>3. PlaceIn(Resolve(r, b), b) = PlaceIn(Resolve(m, b), b)
    BY <2>1 DEF PlaceIn
  <2>4. QED BY <1>3, <1>6, <2>2, <2>3 DEF r
<1>7. CASE ~Covers(n, b) /\ ~Mapped(m, b)
  BY <1>4, <1>7 DEF r
<1>8. QED BY <1>5, <1>6, <1>7

-----------------------------------------------------------------------------
(* Chunk objects and fetches.                                              *)

\* No chunk object is changed or deleted.
Grows(c, d) == \A o \in DOMAIN c : o \in DOMAIN d /\ d[o] = c[o]

\* What a place holds it keeps.
LEMMA HoldsStays ==
    ASSUME NEW c, NEW d, Grows(c, d), NEW x, NEW b, Holds(c, x, b)
    PROVE  Holds(d, x, b)
BY DEF Grows, Holds

\* Chunk objects of the volume.
ChunksOK(c) == \A o \in DOMAIN c : c[o] \in RecordMaps

\* Two blocks of a chunk have different positions.
LEMMA PositionsDiffer ==
    ASSUME NEW N \in Nat, NEW D \in SUBSET (0..N), NEW a \in D, NEW b \in D, a < b
    PROVE  Position(D, a) # Position(D, b)
<1> DEFINE E == {x \in D : x < b}
<1>1. E \in SUBSET (0..N) /\ a \in E /\ a \in Nat /\ b \in Nat
  <2>1. \A x \in D : x \in Nat
    OBVIOUS
  <2>2. E \subseteq D
    OBVIOUS
  <2>3. QED BY <2>1, <2>2
<1>2. {x \in E : x < a} = {x \in D : x < a}
  <2>1. ASSUME NEW x \in D, x < a PROVE x \in E
    <3>1. x \in Nat
      OBVIOUS
    <3>2. x < b
      BY <1>1, <2>1, <3>1
    <3>3. QED BY <3>2
  <2>2. QED BY <2>1
<1> HIDE DEF E
<1>3. Cardinality({x \in E : x < a}) < Cardinality(E)
  BY <1>1, BelowLess
<1>4. Cardinality(E) \in Nat /\ Cardinality({x \in E : x < a}) \in Nat
  BY <1>1, BelowFinite
<1>5. Position(D, a) = Cardinality({x \in E : x < a})
  BY <1>2 DEF Position
<1>6. Position(D, b) = Cardinality(E)
  BY DEF Position, E
<1>7. QED BY <1>3, <1>4, <1>5, <1>6

\* At the position of a block there is its record.
LEMMA RecordAtIs ==
    ASSUME ChunksOK(chunks), NEW o \in DOMAIN chunks, NEW b \in DOMAIN chunks[o],
           NEW off, off = Position(DOMAIN chunks[o], b)
    PROVE  RecordAt(o, off) = <<b, chunks[o][b]>>
<1> DEFINE c == chunks[o]
           D == DOMAIN c
           at == {x \in D : Position(D, x) = off}
<1>1. D \in SUBSET (0..(NumBlocks - 1)) /\ D \subseteq Nat /\ NumBlocks - 1 \in Nat
  BY RecordMapIs, BlockNumbers DEF ChunksOK
<1>2. RecordAt(o, off) = IF at = {} THEN <<NumBlocks, 0>> ELSE <<Min(at), c[Min(at)]>>
  BY DEF RecordAt, Position
<1>3. b \in at /\ at \in SUBSET Nat /\ at # {}
  BY <1>1
<1>4. ASSUME NEW x \in at PROVE x = b
  <2>1. x \in D /\ b \in D /\ x \in Nat /\ b \in Nat /\ Position(D, x) = Position(D, b)
    BY <1>1, <1>3
  <2> HIDE DEF D
  <2>2. ~(x < b) /\ ~(b < x)
    BY <1>1, <2>1, PositionsDiffer
  <2>3. QED BY <2>1, <2>2
<1> HIDE DEF at
<1>5. Min(at) \in at
  BY <1>3, LeastNumber
<1>6. Min(at) = b
  BY <1>4, <1>5
<1>7. QED BY <1>2, <1>3, <1>6

\* A block without gaps.
Gapless(D) == \A x, y \in D : x..y \subseteq D

\* A fetch returns for every block the record under the SeqNum its place names,
\* also when it was joined to its neighbours' fetch
\* (fetchConsecutiveBlocksFromBackend).
LEMMA FetchIs ==
    ASSUME ChunksOK(chunks), NEW found, DOMAIN found \in SUBSET Blocks, Gapless(DOMAIN found),
           \A b \in DOMAIN found : ~found[b].mem => Holds(chunks, found[b], b)
    PROVE  /\ DOMAIN Fetch(found) = DOMAIN found
           /\ \A b \in DOMAIN found : Fetch(found)[b] = <<b, found[b].seq>>
<1> DEFINE F == DOMAIN found
           near(b) == {x \in F : x <= b /\ Joined(found, x, b)}
<1>1. /\ DOMAIN Fetch(found) = F
      /\ \A b \in F : Fetch(found)[b] =
             IF found[b].mem THEN <<b, found[b].seq>>
             ELSE RecordAt(found[b].obj, found[Min(near(b))].off + (b - Min(near(b))))
  BY DEF Fetch
<1>2. F \subseteq Nat /\ NumBlocks - 1 \in Nat
  BY BlockNumbers
<1>3. ASSUME NEW b \in F, ~found[b].mem PROVE Fetch(found)[b] = <<b, found[b].seq>>
  <2>1. near(b) \in SUBSET Nat /\ near(b) # {}
    <3>1. Joined(found, b, b)
      <4>1. b \in Nat /\ \A c \in b..b : c = b
        BY <1>2
      <4>2. QED BY <1>3, <4>1 DEF Joined
    <3>2. b \in near(b)
      BY <1>2, <3>1
    <3>3. QED BY <1>2, <3>2
  <2> DEFINE a == Min(near(b))
  <2>2. a \in near(b)
    <3> HIDE DEF near
    <3>1. QED BY <2>1, LeastNumber
  <2>3. a \in F /\ a <= b /\ Joined(found, a, b) /\ a \in Nat /\ b \in Nat
    BY <1>2, <2>2
  <2>4. Fetch(found)[b] = RecordAt(found[b].obj, found[a].off + (b - a))
    BY <1>1, <1>3
  <2> HIDE DEF a, near
  <2> DEFINE o == found[b].obj
             D == DOMAIN chunks[o]
  <2>5. a..b \subseteq F
    BY <2>3 DEF Gapless
  <2>6. ASSUME NEW c \in a..b
        PROVE  /\ o \in DOMAIN chunks /\ c \in D
               /\ found[c].seq = chunks[o][c] /\ found[c].off = Position(D, c)
    <3>1. ~found[c].mem /\ found[c].obj = o
      BY <2>3 DEF Joined
    <3>2. Holds(chunks, found[c], c)
      BY <2>5, <3>1
    <3>3. QED BY <3>1, <3>2 DEF Holds
  <2>7. a \in a..b /\ b \in a..b
    BY <2>3
  <2>8. o \in DOMAIN chunks /\ b \in D /\ found[b].seq = chunks[o][b]
    BY <2>6, <2>7
  <2>9. D \in SUBSET (0..(NumBlocks - 1))
    BY <2>8, RecordMapIs DEF ChunksOK
  <2>10. found[a].off = Position(D, a)
    BY <2>6, <2>7
  <2>11. \A x \in a..b : x < b => x \in D
    BY <2>6
  <2> HIDE DEF D, o
  <2>12. Position(D, b) = Position(D, a) + (b - a)
    BY <1>2, <2>3, <2>9, <2>11, BelowAdds DEF Position
  <2>13. RecordAt(o, found[a].off + (b - a)) = <<b, chunks[o][b]>>
    BY <2>8, <2>10, <2>12, RecordAtIs DEF D
  <2>14. QED BY <2>4, <2>8, <2>13 DEF o
<1>4. QED BY <1>1, <1>3

-----------------------------------------------------------------------------
(* Parts of the invariant that a step leaves as they are.                  *)

\* No block goes back.
Later(d, e) == \A b \in Blocks : d[b] <= e[b]

\* The maps as they are.
LEMMA MapsKept ==
    ASSUME MapsOK, UNCHANGED <<lookup, extents>>
    PROVE  MapsOK'
BY DEF MapsOK

\* The extents as they are, beside uploads.
LEMMA SealedKept ==
    ASSUME Sealed, UNCHANGED extents, Grows(chunks, chunks')
    PROVE  Sealed'
<1>1. ASSUME NEW b \in Blocks, Mapped(extents, b)
      PROVE  Holds(chunks', Location(extents, b), b)
  BY <1>1, HoldsStays DEF Sealed
<1>2. QED BY <1>1 DEF Sealed

\* A job, beside uploads.
LEMMA JobKept ==
    ASSUME NEW j, JobOK(j), Grows(chunks, chunks')
    PROVE  JobOK(j)'
BY DEF JobOK, Grows

\* The jobs as they are.
LEMMA JobsKept ==
    ASSUME JobsOK, UNCHANGED jobs, Grows(chunks, chunks')
    PROVE  JobsOK'
<1>1. \A j \in jobs : JobOK(j)'
  BY JobKept DEF JobsOK
<1>2. QED BY <1>1 DEF JobsOK

\* The entries' numbers, the extents and the newest records as they are.
LEMMA IndexedKept ==
    ASSUME Types, Indexed, UNCHANGED <<extents, done>>, seqNum' \in Nat, seqNum <= seqNum',
           DOMAIN shard' = DOMAIN shard, \A b \in DOMAIN shard : shard'[b].seq = shard[b].seq
    PROVE  Indexed'
<1>1. ASSUME NEW b \in Blocks PROVE done[b] <= seqNum'
  <2>1. done[b] \in Nat /\ seqNum \in Nat /\ done[b] <= seqNum
    BY DEF Types, Indexed
  <2>2. QED BY <2>1
<1>2. QED BY <1>1 DEF Indexed

\* The writes in progress as they are.
LEMMA WritersKept ==
    ASSUME Types, WritersOK, UNCHANGED <<writer, done>>, seqNum' \in Nat, seqNum <= seqNum',
           DOMAIN shard' \subseteq DOMAIN shard
    PROVE  WritersOK'
<1>1. ASSUME NEW b \in Blocks, writer[b].at \in {"append", "publish"}
      PROVE  done[b] < writer[b].seq /\ writer[b].seq <= seqNum'
  <2>1. writer[b].seq \in Nat /\ seqNum \in Nat
    BY DEF Types
  <2>2. done[b] < writer[b].seq /\ writer[b].seq <= seqNum
    BY <1>1 DEF WritersOK
  <2>3. QED BY <2>1, <2>2
<1>2. QED BY <1>1 DEF WritersOK

\* The mark as it is, beside uploads and writes.
LEMMA MarkKept ==
    ASSUME Types, MarkOK, UNCHANGED <<mark, extents>>, Grows(chunks, chunks'),
           DOMAIN shard \subseteq DOMAIN shard', done' \in [Blocks -> Nat], Later(done, done')
    PROVE  MarkOK'
<1> SUFFICES ASSUME mark.at # "idle" PROVE MarkOK'
  BY DEF MarkOK
<1>1. /\ IsExtent(mark.n) /\ End(mark.n) <= NumBlocks
      /\ \A b \in Blocks : Covers(mark.n, b) => Holds(chunks, PlaceIn(mark.n, b), b)
      /\ mark.left # {} /\ \A b \in mark.left \cup mark.ok : Covers(mark.n, b)
      /\ \A b \in mark.ok : SeqNumAt(mark.n, b) <= done[b]
  BY DEF MarkOK
<1>2. \A b \in Blocks : Covers(mark.n, b) => Holds(chunks', PlaceIn(mark.n, b), b)
  BY <1>1, HoldsStays
<1>3. ASSUME NEW b \in mark.ok PROVE SeqNumAt(mark.n, b) <= done'[b]
  <2>1. b \in Blocks /\ b \in Nat
    BY BlockNumbers DEF Types
  <2>2. SeqNumAt(mark.n, b) \in Nat
    BY <1>1, <2>1, ExtentType
  <2>3. done[b] \in Nat /\ done'[b] \in Nat /\ done[b] <= done'[b]
    BY <2>1 DEF Types, Later
  <2>4. SeqNumAt(mark.n, b) <= done[b]
    BY <1>1
  <2>5. QED BY <2>2, <2>3, <2>4
<1>4. /\ mark.at = "sample" => mark.ok \subseteq DOMAIN shard'
      /\ mark.at = "extents" => mark.left \subseteq mark.ok /\ mark.ok \subseteq DOMAIN shard'
      /\ mark.at = "remove" => mark.left \subseteq mark.ok /\ mark.left \subseteq DOMAIN shard'
  BY DEF MarkOK
<1>5. /\ mark.at \in {"sample", "extents"} =>
            \A b \in mark.ok : ExtSeq(extents, b) <= SeqNumAt(mark.n, b)
      /\ mark.at = "extents" => \A b \in mark.ok \ mark.left : Installed(extents, mark.n, b)
      /\ mark.at = "remove"  => \A b \in mark.left : Installed(extents, mark.n, b)
  BY DEF MarkOK
<1>6. QED BY <1>1, <1>2, <1>3, <1>4, <1>5 DEF MarkOK

\* The read as it is, beside uploads, writes and extents that advance.
LEMMA ReaderKept ==
    ASSUME Types, MapsOK, ReaderOK, UNCHANGED reader, Grows(chunks, chunks'), IsMap(extents'),
           done' \in [Blocks -> Nat], Later(done, done'),
           \A b \in Blocks : ExtSeq(extents, b) <= ExtSeq(extents', b)
    PROVE  ReaderOK'
<1> SUFFICES ASSUME reader.at # "idle" PROVE ReaderOK'
  BY DEF ReaderOK
<1> DEFINE F == DOMAIN reader.floor
<1>1. /\ \E a, z \in Blocks : F = a..z /\ reader.last = z
      /\ reader.at \in {"shard", "extent"} =>
            reader.pos \in F /\ DOMAIN reader.found = {b \in F : b < reader.pos}
      /\ reader.at \in {"fetch", "done"} => DOMAIN reader.found = F
      /\ reader.at = "done" =>
            /\ DOMAIN reader.got = DOMAIN reader.found
            /\ \A b \in DOMAIN reader.got : reader.got[b] = <<b, reader.found[b].seq>>
  BY DEF ReaderOK
<1>2. F \in SUBSET Blocks /\ \A b \in F : reader.floor[b] \in Nat
  <2>1. reader.floor \in RecordMaps
    BY DEF Types
  <2>2. QED BY <2>1, RecordMapIs
<1>3. ASSUME NEW b \in F PROVE reader.floor[b] <= done'[b]
  <2>1. reader.floor[b] <= done[b]
    BY DEF ReaderOK
  <2>2. done[b] \in Nat /\ done'[b] \in Nat /\ done[b] <= done'[b]
    BY <1>2 DEF Types, Later
  <2>3. QED BY <1>2, <2>1, <2>2
<1>4. ASSUME NEW b \in DOMAIN reader.found
      PROVE  /\ reader.floor[b] <= reader.found[b].seq
             /\ ~reader.found[b].mem => Holds(chunks', reader.found[b], b)
  BY HoldsStays DEF ReaderOK
<1>5. reader.at = "extent" => reader.floor[reader.pos] <= ExtSeq(extents', reader.pos)
  <2> SUFFICES ASSUME reader.at = "extent"
               PROVE  reader.floor[reader.pos] <= ExtSeq(extents', reader.pos)
    OBVIOUS
  <2>1. reader.pos \in F /\ reader.pos \in Blocks /\ reader.pos \in Nat
    BY <1>1, <1>2, BlockNumbers
  <2>2. reader.floor[reader.pos] <= ExtSeq(extents, reader.pos)
    BY DEF ReaderOK
  <2>3. ExtSeq(extents, reader.pos) \in Nat /\ ExtSeq(extents', reader.pos) \in Nat
    BY <2>1, ExtSeqType DEF MapsOK, MapIn
  <2>4. ExtSeq(extents, reader.pos) <= ExtSeq(extents', reader.pos)
    BY <2>1
  <2>5. QED BY <1>2, <2>1, <2>2, <2>3, <2>4
<1>6. QED BY <1>1, <1>3, <1>4, <1>5 DEF ReaderOK

\* The chunk objects as they are.
LEMMA NoneNew == UNCHANGED chunks => Grows(chunks, chunks')
BY DEF Grows

\* Blocks as they are.
LEMMA NoneLater == Types /\ UNCHANGED done => done' \in [Blocks -> Nat] /\ Later(done, done')
BY DEF Types, Later

\* What the extents have is a number.
LEMMA ExtNumbers ==
    ASSUME MapsOK
    PROVE  \A b \in Blocks : b \in Nat /\ ExtSeq(extents, b) \in Nat
BY ExtSeqType, BlockNumbers DEF MapsOK, MapIn

-----------------------------------------------------------------------------
(* Guest reads.                                                            *)

\* The parts of Types about the read and the writes in progress.
Reading ==
    [at : {"idle", "shard", "extent", "fetch", "done"}, pos : Nat, last : Nat,
     floor : RecordMaps, found : Maps(Place), got : Maps(Nat \X Nat)]
Write == [at : {"idle", "extent", "reserve", "append", "publish"}, base : Nat, seq : Nat]

\* A step that touches neither the store nor the map nor the jobs.
LEMMA StoreSteady ==
    ASSUME IInv, UNCHANGED <<storeVars, mapVars, jobs, mark, done>>,
           seqNum' \in Nat, seqNum <= seqNum'
    PROVE  /\ MapsOK' /\ Sealed' /\ JobsOK' /\ Indexed' /\ MarkOK'
           /\ UNCHANGED writer => WritersOK'
           /\ UNCHANGED reader => ReaderOK'
<1>1. UNCHANGED <<shard, extents, lookup, objNum, chunks, jobs, mark, done>>
  BY DEF storeVars, mapVars
<1>2. Types /\ MapsOK /\ Sealed /\ JobsOK /\ Indexed /\ WritersOK /\ MarkOK /\ ReaderOK
  BY DEF IInv
<1>3. Grows(chunks, chunks') /\ done' \in [Blocks -> Nat] /\ Later(done, done')
  BY <1>1, <1>2, NoneNew, NoneLater
<1>4. MapsOK' /\ Sealed' /\ JobsOK'
  BY <1>1, <1>2, <1>3, MapsKept, SealedKept, JobsKept
<1>5. Indexed' /\ MarkOK'
  BY <1>1, <1>2, <1>3, IndexedKept, MarkKept
<1>6. UNCHANGED writer => WritersOK'
  BY <1>1, <1>2, WritersKept
<1>7. UNCHANGED reader => ReaderOK'
  <2>1. \A b \in Blocks : ExtSeq(extents, b) <= ExtSeq(extents', b)
    BY <1>1, <1>2, ExtNumbers
  <2>2. IsMap(extents')
    BY <1>1, <1>2 DEF MapsOK, MapIn
  <2>3. QED BY <1>2, <1>3, <2>1, <2>2, ReaderKept
<1>8. QED BY <1>4, <1>5, <1>6, <1>7

\* A step of a read or a write that does not touch the drain either.
LEMMA StoreStill ==
    ASSUME IInv, UNCHANGED <<storeVars, mapVars, drainVars, mark, done>>
    PROVE  /\ MapsOK' /\ Sealed' /\ JobsOK' /\ Indexed' /\ MarkOK'
           /\ UNCHANGED writer => WritersOK'
           /\ UNCHANGED reader => ReaderOK'
           /\ reader' \in Reading /\ writer' \in [Blocks -> Write] => Types'
<1>1. UNCHANGED <<shard, extents, lookup, objNum, chunks, seqNum, writes, flushing, wal, jobs,
                  mark, done>>
  BY DEF storeVars, mapVars, drainVars
<1>2. Types
  BY DEF IInv
<1>3. seqNum' \in Nat /\ seqNum <= seqNum'
  BY <1>1, <1>2 DEF Types
<1>4. UNCHANGED <<storeVars, mapVars, jobs, mark, done>>
  BY <1>1 DEF storeVars, mapVars
<1>5. reader' \in Reading /\ writer' \in [Blocks -> Write] => Types'
  BY <1>1, <1>2 DEF Types, Reading, Write
<1>6. QED BY <1>3, <1>4, <1>5, StoreSteady

\* What a read in progress knows of the blocks it is about.
LEMMA ReadFacts ==
    ASSUME IInv, reader.at # "idle"
    PROVE  /\ reader \in Reading /\ DOMAIN reader.floor \in SUBSET Blocks
           /\ \E a, z \in Blocks : DOMAIN reader.floor = a..z /\ reader.last = z
           /\ reader.at \in {"shard", "extent"} =>
                 /\ reader.pos \in DOMAIN reader.floor /\ reader.pos \in Blocks
                 /\ reader.pos \in Nat
                 /\ DOMAIN reader.found = {b \in DOMAIN reader.floor : b < reader.pos}
           /\ reader.at \in {"fetch", "done"} => DOMAIN reader.found = DOMAIN reader.floor
           /\ DOMAIN reader.found \in SUBSET Blocks
           /\ \A b \in DOMAIN reader.floor : /\ reader.floor[b] \in Nat
                                             /\ reader.floor[b] <= done[b]
           /\ \A b \in DOMAIN reader.found :
                 /\ reader.floor[b] <= reader.found[b].seq
                 /\ ~reader.found[b].mem => Holds(chunks, reader.found[b], b)
<1>1. Types /\ ReaderOK
  BY DEF IInv
<1>2. reader \in Reading
  BY <1>1 DEF Types, Reading
<1>3. reader.floor \in RecordMaps /\ reader.found \in Maps(Place)
  BY <1>2 DEF Reading
<1>4. /\ DOMAIN reader.floor \in SUBSET Blocks /\ DOMAIN reader.found \in SUBSET Blocks
      /\ \A b \in DOMAIN reader.floor : reader.floor[b] \in Nat
  BY <1>3, MapsIs, RecordMapIs
<1>5. QED BY <1>1, <1>2, <1>4, BlockNumbers DEF ReaderOK

\* The next block is found.
LEMMA FoundKeeps ==
    ASSUME IInv, reader.at \in {"shard", "extent"}, NEW x \in Place,
           reader.floor[reader.pos] <= x.seq, ~x.mem => Holds(chunks, x, reader.pos),
           reader' = Found(reader.pos, x),
           UNCHANGED <<storeVars, mapVars, drainVars, mark, writer, done>>
    PROVE  IInv'
<1> DEFINE b == reader.pos
           F == DOMAIN reader.floor
<1>1. /\ reader \in Reading /\ F \in SUBSET Blocks /\ b \in F /\ b \in Blocks /\ b \in Nat
      /\ DOMAIN reader.found = {c \in F : c < b}
      /\ \A c \in F : reader.floor[c] \in Nat /\ reader.floor[c] <= done[c]
      /\ \A c \in DOMAIN reader.found :
            /\ reader.floor[c] <= reader.found[c].seq
            /\ ~reader.found[c].mem => Holds(chunks, reader.found[c], c)
  BY ReadFacts
<1>2. PICK a \in Blocks, z \in Blocks : F = a..z /\ reader.last = z
  BY ReadFacts
<1>3. a \in Nat /\ z \in Nat
  BY <1>2, BlockNumbers
<1>4. /\ reader'.found = With(reader.found, b, x) /\ reader'.pos = b + 1
      /\ reader'.at = (IF b = z THEN "fetch" ELSE "shard")
      /\ reader'.last = z /\ reader'.floor = reader.floor /\ reader'.got = reader.got
      /\ reader' = [reader EXCEPT !.found = With(reader.found, b, x), !.pos = b + 1,
                                  !.at = IF b = z THEN "fetch" ELSE "shard"]
  BY <1>1, <1>2 DEF Found, Reading
<1>5. reader.found \in Maps(Place)
  BY <1>1 DEF Reading
<1>6. With(reader.found, b, x) \in Maps(Place)
  BY <1>1, <1>5, WithType
<1>7. reader' \in Reading
  <2>1. b + 1 \in Nat
    BY <1>1
  <2> HIDE DEF b
  <2>2. QED BY <1>1, <1>4, <1>6, <2>1 DEF Reading
<1>8. /\ DOMAIN reader'.found = DOMAIN reader.found \cup {b} /\ reader'.found[b] = x
      /\ \A c \in DOMAIN reader.found : c # b => reader'.found[c] = reader.found[c]
  <2> DEFINE f == reader.found
             g == With(f, b, x)
  <2>1. reader'.found = g
    BY <1>4
  <2> HIDE DEF b, f
  <2>2. DOMAIN g = DOMAIN f \cup {b}
    BY DEF With
  <2>3. g[b] = x /\ \A c \in DOMAIN f : c # b => g[c] = f[c]
    BY DEF With
  <2> HIDE DEF g
  <2>4. QED BY <2>1, <2>2, <2>3 DEF f
<1> HIDE DEF b, F
<1>9. /\ b # z => b + 1 \in F
      /\ {c \in F : c < b} \cup {b} = {c \in F : c < b + 1}
      /\ b = z => {c \in F : c < b} \cup {b} = F
  BY <1>1, <1>2, <1>3
<1>10. UNCHANGED <<done, chunks, extents>>
  BY DEF storeVars, mapVars
<1>11. ReaderOK'
  <2>1. \E u, v \in Blocks : DOMAIN reader'.floor = u..v /\ reader'.last = v
    BY <1>2, <1>4 DEF F
  <2>2. reader'.at \in {"shard", "extent"} =>
           /\ reader'.pos \in DOMAIN reader'.floor
           /\ DOMAIN reader'.found = {c \in DOMAIN reader'.floor : c < reader'.pos}
    <3>1. reader'.pos = b + 1 /\ DOMAIN reader'.floor = F
      BY <1>4 DEF F
    <3>2. DOMAIN reader'.found = {c \in F : c < b + 1}
      BY <1>1, <1>8, <1>9
    <3>3. reader'.at \in {"shard", "extent"} => b # z
      BY <1>4
    <3>4. QED BY <1>9, <3>1, <3>2, <3>3
  <2>3. reader'.at \in {"fetch", "done"} => DOMAIN reader'.found = DOMAIN reader'.floor
    BY <1>1, <1>4, <1>8, <1>9 DEF F
  <2>4. \A c \in DOMAIN reader'.floor : reader'.floor[c] <= done'[c]
    BY <1>1, <1>4, <1>10 DEF F
  <2>5. ASSUME NEW c \in DOMAIN reader'.found
        PROVE  /\ reader'.floor[c] <= reader'.found[c].seq
               /\ ~reader'.found[c].mem => Holds(chunks', reader'.found[c], c)
    <3>1. CASE c = b
      BY <1>4, <1>8, <1>10, <3>1 DEF b
    <3>2. CASE c # b
      BY <1>1, <1>4, <1>8, <1>10, <2>5, <3>2
    <3>3. QED BY <3>1, <3>2
  <2>6. reader'.at # "extent" /\ reader'.at # "done"
    BY <1>4
  <2>7. QED BY <2>1, <2>2, <2>3, <2>4, <2>5, <2>6 DEF ReaderOK
<1>12. writer' \in [Blocks -> Write]
  BY DEF IInv, Types, Write
<1>13. QED BY <1>7, <1>11, <1>12, StoreStill DEF IInv

\* A read begins.
LEMMA StartReadKeeps ==
    ASSUME IInv, StartRead
    PROVE  IInv'
<1>1. PICK a \in Blocks, z \in Blocks :
         a <= z /\ reader' = [NoRead EXCEPT !.at = "shard", !.pos = a, !.last = z,
                                            !.floor = [b \in a..z |-> done[b]]]
  BY DEF StartRead
<1>2. UNCHANGED <<storeVars, mapVars, drainVars, mark, writer, done>>
  BY DEF StartRead
<1>3. a \in Nat /\ z \in Nat /\ done \in [Blocks -> Nat] /\ a..z \in SUBSET Blocks
  <2>1. a \in Nat /\ z \in Nat
    BY <1>1, BlockNumbers
  <2>2. done \in [Blocks -> Nat]
    BY DEF IInv, Types
  <2>3. a..z \subseteq Blocks
    BY <1>1, <2>1, BlockNumbers
  <2>4. QED BY <2>1, <2>2, <2>3
<1> DEFINE f == [b \in a..z |-> done[b]]
<1>4. f \in [a..z -> Nat]
  BY <1>3
<1>5. f \in RecordMaps
  <2>1. f \in Maps(Nat)
    <3> HIDE DEF f
    <3>1. QED BY <1>3, <1>4, MapsOf
  <2>2. QED BY <2>1 DEF RecordMaps
<1>6. /\ reader'.at = "shard" /\ reader'.pos = a /\ reader'.last = z /\ reader'.floor = f
      /\ reader'.found = Nothing /\ reader'.got = Nothing
      /\ reader' = [at |-> "shard", pos |-> a, last |-> z, floor |-> f, found |-> Nothing,
                    got |-> Nothing]
  BY <1>1 DEF NoRead
<1>7. DOMAIN f = a..z /\ \A b \in a..z : f[b] = done[b]
  OBVIOUS
<1> HIDE DEF f
<1>8. Nothing \in Maps(Place) /\ Nothing \in Maps(Nat \X Nat) /\ DOMAIN Nothing = {}
  BY NothingIs
<1>9. reader' \in Reading
  BY <1>3, <1>5, <1>6, <1>8 DEF Reading
<1>10. ReaderOK'
  <2>1. \E u, v \in Blocks : DOMAIN reader'.floor = u..v /\ reader'.last = v
    BY <1>6, <1>7
  <2>2. a \in DOMAIN f /\ {b \in DOMAIN f : b < a} = {}
    BY <1>1, <1>3, <1>7
  <2>3. \A b \in DOMAIN f : f[b] <= done'[b]
    BY <1>2, <1>3, <1>7
  <2>4. QED BY <1>6, <1>8, <2>1, <2>2, <2>3 DEF ReaderOK
<1>11. writer' \in [Blocks -> Write]
  BY <1>2 DEF IInv, Types, Write
<1>12. QED BY <1>2, <1>9, <1>10, <1>11, StoreStill DEF IInv

\* A read looks for its next block in the shard.
LEMMA ReadShardKeeps ==
    ASSUME IInv, ReadShard
    PROVE  IInv'
<1> DEFINE b == reader.pos
<1>1. reader.at = "shard" /\ UNCHANGED <<storeVars, mapVars, drainVars, mark, writer, done>>
  BY DEF ReadShard
<1>2. /\ reader \in Reading /\ b \in DOMAIN reader.floor /\ b \in Blocks /\ b \in Nat
      /\ reader.floor[b] \in Nat /\ reader.floor[b] <= done[b]
  BY <1>1, ReadFacts
<1>3. Types /\ MapsOK /\ Indexed /\ ReaderOK
  BY DEF IInv
<1>4. CASE b \in DOMAIN shard
  <2> DEFINE x == InMemory(shard[b].seq)
  <2>1. shard[b].seq = done[b] /\ done[b] \in Nat
    BY <1>2, <1>3, <1>4 DEF Indexed, Types
  <2>2. x \in Place /\ x.mem = TRUE /\ x.seq = done[b]
    BY <2>1 DEF InMemory, Place
  <2>3. reader' = Found(b, x)
    BY <1>4 DEF ReadShard
  <2> HIDE DEF x
  <2>4. QED BY <1>1, <1>2, <2>2, <2>3, FoundKeeps
<1>5. CASE b \notin DOMAIN shard
  <2>1. reader' = [reader EXCEPT !.at = "extent"]
    BY <1>5 DEF ReadShard
  <2>2. /\ reader' \in Reading /\ reader'.at = "extent" /\ reader'.pos = b
        /\ reader'.last = reader.last /\ reader'.floor = reader.floor
        /\ reader'.found = reader.found /\ reader'.got = reader.got
    BY <1>2, <2>1 DEF Reading
  <2>3. ExtSeq(extents, b) = done[b]
    BY <1>2, <1>3, <1>5 DEF Indexed
  <2>4. UNCHANGED <<extents, chunks, done>>
    BY <1>1 DEF storeVars, mapVars
  <2>5. ReaderOK'
    BY <1>1, <1>2, <1>3, <2>2, <2>3, <2>4 DEF ReaderOK
  <2>6. writer' \in [Blocks -> Write]
    BY <1>1, <1>3 DEF Types, Write
  <2>7. QED BY <1>1, <2>2, <2>5, <2>6, StoreStill DEF IInv
<1>6. QED BY <1>4, <1>5

\* What the extents answer for a block: a place that holds it, or zeroes.
LEMMA PersistedIs ==
    ASSUME IInv, NEW b \in Blocks
    PROVE  /\ ReadPersisted(b) \in Place
           /\ ReadPersisted(b).seq = ExtSeq(extents, b)
           /\ ~ReadPersisted(b).mem => Holds(chunks, ReadPersisted(b), b)
<1>1. b \in Nat /\ IsMap(extents)
  BY BlockNumbers DEF IInv, MapsOK, MapIn
<1>2. CASE Mapped(extents, b)
  <2>1. ReadPersisted(b) = Location(extents, b)
    BY <1>2 DEF ReadPersisted
  <2>2. Holds(chunks, Location(extents, b), b)
    BY <1>2 DEF IInv, Sealed
  <2>3. Location(extents, b) \in Place /\ ExtSeq(extents, b) = Location(extents, b).seq
    BY <1>1, <1>2, LocationIs
  <2>4. QED BY <2>1, <2>2, <2>3
<1>3. CASE ~Mapped(extents, b)
  BY <1>3 DEF ReadPersisted, InMemory, Place, ExtSeq
<1>4. QED BY <1>2, <1>3

\* ... and then in the extents.
LEMMA ReadExtentKeeps ==
    ASSUME IInv, ReadExtent
    PROVE  IInv'
<1> DEFINE b == reader.pos
           x == ReadPersisted(b)
<1>1. reader.at = "extent" /\ UNCHANGED <<storeVars, mapVars, drainVars, mark, writer, done>>
  BY DEF ReadExtent
<1>2. b \in Blocks
  BY <1>1, ReadFacts
<1>3. x \in Place /\ x.seq = ExtSeq(extents, b) /\ (~x.mem => Holds(chunks, x, b))
  BY <1>2, PersistedIs
<1>4. reader.floor[b] <= ExtSeq(extents, b)
  BY <1>1 DEF IInv, ReaderOK
<1>5. reader' = Found(b, x)
  BY DEF ReadExtent
<1> HIDE DEF x
<1>6. QED BY <1>1, <1>3, <1>4, <1>5, FoundKeeps

\* A read fetches what is not in memory.
LEMMA ReadFetchKeeps ==
    ASSUME IInv, ReadFetch
    PROVE  IInv'
<1> DEFINE f == reader.found
           g == Fetch(f)
<1>1. /\ reader.at = "fetch" /\ reader' = [reader EXCEPT !.at = "done", !.got = g]
      /\ UNCHANGED <<storeVars, mapVars, drainVars, mark, writer, done>>
  BY DEF ReadFetch
<1>2. /\ reader \in Reading /\ DOMAIN f = DOMAIN reader.floor /\ DOMAIN f \in SUBSET Blocks
      /\ \A b \in DOMAIN f : ~f[b].mem => Holds(chunks, f[b], b)
  BY <1>1, ReadFacts
<1>3. Gapless(DOMAIN f)
  <2>1. PICK a \in Blocks, z \in Blocks : DOMAIN reader.floor = a..z
    BY <1>1, ReadFacts
  <2>2. a \in Nat /\ z \in Nat
    BY <2>1, BlockNumbers
  <2>3. \A x, y \in a..z : x..y \subseteq a..z
    BY <2>2
  <2>4. QED BY <1>2, <2>1, <2>3 DEF Gapless
<1>4. ChunksOK(chunks)
  BY DEF IInv, Types, ChunksOK
<1>5. f \in Maps(Place)
  BY <1>2 DEF Reading
<1> HIDE DEF f
<1>6. \A b \in DOMAIN f : f[b].seq \in Nat
  <2>1. \A b \in DOMAIN f : f[b] \in Place
    BY <1>5, MapsIs
  <2>2. QED BY <2>1 DEF Place
<1>7. DOMAIN g = DOMAIN f /\ \A b \in DOMAIN f : g[b] = <<b, f[b].seq>>
  BY <1>2, <1>3, <1>4, FetchIs
<1>8. g = [b \in DOMAIN f |-> g[b]]
  <2>1. g = [b \in DOMAIN f |-> g[b]]
    BY DEF Fetch
  <2>2. QED BY <2>1
<1> HIDE DEF g
<1>9. ASSUME NEW b \in DOMAIN f PROVE g[b] \in Nat \X Nat
  <2>1. b \in Nat /\ f[b].seq \in Nat
    BY <1>2, <1>6, BlockNumbers
  <2>2. QED BY <1>7, <2>1
<1>10. g \in Maps(Nat \X Nat)
  <2>1. g \in [DOMAIN f -> Nat \X Nat]
    BY <1>8, <1>9
  <2>2. QED BY <1>2, <2>1, MapsOf
<1>11. /\ reader' \in Reading /\ reader'.at = "done" /\ reader'.got = g
       /\ reader'.last = reader.last /\ reader'.floor = reader.floor
       /\ reader'.found = f /\ reader'.pos = reader.pos
  BY <1>1, <1>2, <1>10 DEF Reading, f
<1>12. UNCHANGED <<extents, chunks, done>>
  BY <1>1 DEF storeVars, mapVars
<1>13. ReaderOK'
  <2>1. ReaderOK
    BY DEF IInv
  <2>2. QED BY <1>1, <1>2, <1>7, <1>11, <1>12, <2>1 DEF ReaderOK, f
<1>14. writer' \in [Blocks -> Write]
  BY <1>1 DEF IInv, Types, Write
<1>15. QED BY <1>1, <1>11, <1>13, <1>14, StoreStill DEF IInv

\* A read returns.
LEMMA ReadReturnsKeeps ==
    ASSUME IInv, ReadReturns
    PROVE  IInv'
<1>1. reader' = NoRead /\ UNCHANGED <<storeVars, mapVars, drainVars, mark, writer, done>>
  BY DEF ReadReturns
<1>2. reader' \in Reading /\ reader'.at = "idle"
  <2>1. Nothing \in RecordMaps /\ Nothing \in Maps(Place) /\ Nothing \in Maps(Nat \X Nat)
    BY NothingIs DEF RecordMaps
  <2>2. QED BY <1>1, <2>1 DEF NoRead, Reading
<1>3. ReaderOK'
  BY <1>2 DEF ReaderOK
<1>4. writer' \in [Blocks -> Write]
  BY <1>1 DEF IInv, Types, Write
<1>5. QED BY <1>1, <1>2, <1>3, <1>4, StoreStill DEF IInv

-----------------------------------------------------------------------------
(* Guest writes.                                                           *)

\* A write moves on, with what it knows.
LEMMA WriterMoves ==
    ASSUME IInv, NEW b \in Blocks, NEW w \in Write, WriterStep(b, w),
           UNCHANGED <<shard, done>>, seqNum' \in Nat, seqNum <= seqNum',
           w.at = "extent" => b \notin DOMAIN shard,
           w.at \in {"reserve", "append", "publish"} => w.base = done[b],
           w.at \in {"append", "publish"} => done[b] < w.seq /\ w.seq <= seqNum'
    PROVE  WritersOK' /\ writer' \in [Blocks -> Write]
<1>1. Types /\ WritersOK
  BY DEF IInv
<1>2. writer \in [Blocks -> Write] /\ seqNum \in Nat
  BY <1>1 DEF Types, Write
<1>3. /\ writer' \in [Blocks -> Write] /\ writer'[b] = w
      /\ \A c \in Blocks : c # b => writer'[c] = writer[c]
  BY <1>2 DEF WriterStep
<1>4. ASSUME NEW c \in Blocks
      PROVE  /\ writer'[c].at = "extent" => c \notin DOMAIN shard
             /\ writer'[c].at \in {"reserve", "append", "publish"} => writer'[c].base = done[c]
             /\ writer'[c].at \in {"append", "publish"} =>
                    done[c] < writer'[c].seq /\ writer'[c].seq <= seqNum'
  <2>1. CASE c = b
    BY <1>3, <2>1
  <2>2. CASE c # b
    <3>1. writer'[c] = writer[c] /\ writer[c].seq \in Nat
      BY <1>2, <1>3, <2>2 DEF Write
    <3>2. /\ writer[c].at = "extent" => c \notin DOMAIN shard
          /\ writer[c].at \in {"reserve", "append", "publish"} => writer[c].base = done[c]
          /\ writer[c].at \in {"append", "publish"} =>
                 done[c] < writer[c].seq /\ writer[c].seq <= seqNum
      BY <1>1 DEF WritersOK
    <3>3. QED BY <1>2, <3>1, <3>2
  <2>3. QED BY <2>1, <2>2
<1>5. QED BY <1>3, <1>4 DEF WritersOK

\* Reads and writes in progress as they are.
LEMMA ReadingStays ==
    IInv /\ UNCHANGED reader => reader' \in Reading
BY DEF IInv, Types, Reading

\* A write reads its block in the shard.
LEMMA WriteReadShardKeeps ==
    ASSUME IInv, NEW b \in Blocks, WriteReadShard(b)
    PROVE  IInv'
<1>1. UNCHANGED <<storeVars, mapVars, drainVars, mark, reader, done>>
  BY DEF WriteReadShard
<1>2. UNCHANGED <<shard, done, seqNum>> /\ seqNum \in Nat
  BY <1>1 DEF storeVars, drainVars, IInv, Types
<1>3. Indexed /\ done \in [Blocks -> Nat]
  BY DEF IInv, Types
<1>4. CASE b \in DOMAIN shard
  <2> DEFINE w == [NoWrite EXCEPT !.at = "reserve", !.base = shard[b].seq]
  <2>1. WriterStep(b, w)
    BY <1>4 DEF WriteReadShard
  <2>2. shard[b].seq = done[b] /\ done[b] \in Nat
    BY <1>3, <1>4 DEF Indexed
  <2>3. w \in Write /\ w.at = "reserve" /\ w.base = done[b]
    BY <2>2 DEF NoWrite, Write
  <2> HIDE DEF w
  <2>4. WritersOK' /\ writer' \in [Blocks -> Write]
    BY <1>2, <2>1, <2>3, WriterMoves
  <2>5. QED BY <1>1, <2>4, ReadingStays, StoreStill DEF IInv
<1>5. CASE b \notin DOMAIN shard
  <2> DEFINE w == [NoWrite EXCEPT !.at = "extent"]
  <2>1. WriterStep(b, w)
    BY <1>5 DEF WriteReadShard
  <2>2. w \in Write /\ w.at = "extent"
    BY DEF NoWrite, Write
  <2> HIDE DEF w
  <2>3. WritersOK' /\ writer' \in [Blocks -> Write]
    BY <1>2, <1>5, <2>1, <2>2, WriterMoves
  <2>4. QED BY <1>1, <2>3, ReadingStays, StoreStill DEF IInv
<1>6. QED BY <1>4, <1>5

\* ... or on the backend.
LEMMA WriteReadExtentKeeps ==
    ASSUME IInv, NEW b \in Blocks, WriteReadExtent(b)
    PROVE  IInv'
<1>1. writer[b].at = "extent" /\ UNCHANGED <<storeVars, mapVars, drainVars, mark, reader, done>>
  BY DEF WriteReadExtent, At
<1>2. UNCHANGED <<shard, done, seqNum>> /\ seqNum \in Nat /\ done[b] \in Nat /\ b \in Nat
  BY <1>1, BlockNumbers DEF storeVars, drainVars, IInv, Types
<1>3. ExtSeq(extents, b) = done[b]
  BY <1>1 DEF IInv, WritersOK, Indexed
<1> DEFINE f == [x \in {b} |-> ReadPersisted(x)]
           s == Fetch(f)[b][2]
           w == [NoWrite EXCEPT !.at = "reserve", !.base = s]
<1>4. s = done[b]
  <2>1. DOMAIN f = {b} /\ f[b] = ReadPersisted(b)
    OBVIOUS
  <2>2. /\ ReadPersisted(b).seq = ExtSeq(extents, b)
        /\ ~ReadPersisted(b).mem => Holds(chunks, ReadPersisted(b), b)
    BY PersistedIs
  <2>3. ChunksOK(chunks)
    BY DEF IInv, Types, ChunksOK
  <2> HIDE DEF f
  <2>4. Gapless(DOMAIN f)
    <3>1. \A x \in b..b : x = b
      BY <1>2
    <3>2. QED BY <2>1, <3>1 DEF Gapless
  <2>5. DOMAIN f \in SUBSET Blocks
    BY <2>1
  <2>6. \A x \in DOMAIN f : ~f[x].mem => Holds(chunks, f[x], x)
    BY <2>1, <2>2
  <2>7. \A x \in DOMAIN f : Fetch(f)[x] = <<x, f[x].seq>>
    BY <2>3, <2>4, <2>5, <2>6, FetchIs
  <2>8. Fetch(f)[b] = <<b, done[b]>>
    BY <1>3, <2>1, <2>2, <2>7
  <2>9. QED BY <2>8
<1>5. WriterStep(b, w)
  BY DEF WriteReadExtent
<1> HIDE DEF s
<1>6. w \in Write /\ w.at = "reserve" /\ w.base = done[b]
  BY <1>2, <1>4 DEF NoWrite, Write
<1> HIDE DEF w
<1>7. WritersOK' /\ writer' \in [Blocks -> Write]
  BY <1>2, <1>5, <1>6, WriterMoves
<1>8. QED BY <1>1, <1>7, ReadingStays, StoreStill DEF IInv

\* A write reserves its number.
LEMMA WriteReserveKeeps ==
    ASSUME IInv, NEW b \in Blocks, WriteReserve(b)
    PROVE  IInv'
<1> DEFINE w == [writer[b] EXCEPT !.at = "append", !.seq = seqNum + 1]
<1>1. /\ writer[b].at = "reserve" /\ seqNum' = seqNum + 1 /\ WriterStep(b, w)
      /\ UNCHANGED <<storeVars, mapVars, writes, flushing, wal, jobs, mark, reader, done>>
  BY DEF WriteReserve, At
<1>2. /\ Types /\ writer[b] \in Write /\ seqNum \in Nat /\ done[b] \in Nat
      /\ done[b] <= seqNum /\ writer[b].base = done[b]
  BY <1>1 DEF IInv, Types, Write, Indexed, WritersOK
<1>3. seqNum' \in Nat /\ seqNum <= seqNum' /\ done[b] < seqNum + 1 /\ seqNum + 1 \in Nat
  BY <1>1, <1>2
<1>4. w \in Write /\ w.at = "append" /\ w.base = done[b] /\ w.seq = seqNum + 1
  BY <1>2, <1>3 DEF Write
<1> HIDE DEF w
<1>5. UNCHANGED <<shard, done>> /\ w.seq <= seqNum' /\ done[b] < w.seq
  BY <1>1, <1>3, <1>4 DEF storeVars
<1>6. WritersOK' /\ writer' \in [Blocks -> Write]
  BY <1>1, <1>3, <1>4, <1>5, WriterMoves
<1>7. /\ MapsOK' /\ Sealed' /\ JobsOK' /\ Indexed' /\ MarkOK' /\ ReaderOK'
  BY <1>1, <1>3, StoreSteady
<1>8. Types'
  BY <1>1, <1>2, <1>3, <1>6 DEF Types, Write, storeVars, mapVars
<1>9. QED BY <1>6, <1>7, <1>8 DEF IInv

\* A write appends its record.
LEMMA WriteAppendKeeps ==
    ASSUME IInv, NEW b \in Blocks, WriteAppend(b)
    PROVE  IInv'
<1> DEFINE w == [writer[b] EXCEPT !.at = "publish"]
<1>1. /\ writer[b].at = "append" /\ WriterStep(b, w)
      /\ writes' = Append(writes, <<b, writer[b].seq>>)
      /\ UNCHANGED <<storeVars, mapVars, seqNum, flushing, wal, jobs, mark, reader, done>>
  BY DEF WriteAppend, At
<1>2. /\ Types /\ writer[b] \in Write /\ seqNum \in Nat /\ writer[b].base = done[b]
      /\ done[b] < writer[b].seq /\ writer[b].seq <= seqNum
  BY <1>1 DEF IInv, Types, Write, WritersOK
<1>3. seqNum' \in Nat /\ seqNum <= seqNum'
  BY <1>1, <1>2
<1>4. w \in Write /\ w.at = "publish" /\ w.base = done[b] /\ w.seq = writer[b].seq
  BY <1>2 DEF Write
<1> HIDE DEF w
<1>5. UNCHANGED <<shard, done>> /\ w.seq <= seqNum' /\ done[b] < w.seq
  BY <1>1, <1>2, <1>4 DEF storeVars
<1>6. WritersOK' /\ writer' \in [Blocks -> Write]
  BY <1>1, <1>3, <1>4, <1>5, WriterMoves
<1>7. /\ MapsOK' /\ Sealed' /\ JobsOK' /\ Indexed' /\ MarkOK' /\ ReaderOK'
  BY <1>1, <1>3, StoreSteady
<1>8. writes' \in Seq(Blocks \X Nat)
  <2>1. writer[b].seq \in Nat /\ writes \in Seq(Blocks \X Nat)
    BY <1>2 DEF Write, Types
  <2>2. <<b, writer[b].seq>> \in Blocks \X Nat
    BY <2>1
  <2>3. QED BY <1>1, <2>1, <2>2
<1>9. Types'
  BY <1>1, <1>2, <1>6, <1>8 DEF Types, Write, storeVars, mapVars
<1>10. QED BY <1>6, <1>7, <1>9 DEF IInv

\* A write publishes its entry: it is newer than what the shard has.
LEMMA WritePublishIs ==
    ASSUME IInv, NEW b \in Blocks, WritePublish(b)
    PROVE  /\ writer[b].at = "publish" /\ writer[b].seq \in Nat
           /\ done[b] < writer[b].seq /\ writer[b].seq <= seqNum
           /\ shard' = With(shard, b, [state |-> "hot", seq |-> writer[b].seq])
           /\ done' = [done EXCEPT ![b] = writer[b].seq] /\ writer' = [writer EXCEPT ![b] = NoWrite]
           /\ UNCHANGED <<extents, mapVars, drainVars, mark, reader>>
<1>1. /\ writer[b].at = "publish" /\ writer' = [writer EXCEPT ![b] = NoWrite]
      /\ done' = [done EXCEPT ![b] = writer[b].seq]
      /\ UNCHANGED <<extents, mapVars, drainVars, mark, reader>>
  BY DEF WritePublish, At, WriterStep
<1>2. /\ writer[b].seq \in Nat /\ done[b] \in Nat
      /\ done[b] < writer[b].seq /\ writer[b].seq <= seqNum
  BY <1>1 DEF IInv, Types, WritersOK
<1>3. b \in DOMAIN shard => shard[b].seq = done[b]
  BY DEF IInv, Indexed
<1>4. ~(b \in DOMAIN shard /\ shard[b].seq >= writer[b].seq)
  BY <1>2, <1>3
<1>5. QED BY <1>1, <1>2, <1>4 DEF WritePublish

\* The publication of a write.
LEMMA WritePublishKeeps ==
    ASSUME IInv, NEW b \in Blocks, WritePublish(b)
    PROVE  IInv'
<1> DEFINE s == writer[b].seq
           x == [state |-> "hot", seq |-> s]
<1>1. /\ writer[b].at = "publish" /\ s \in Nat /\ done[b] < s /\ s <= seqNum
      /\ shard' = With(shard, b, x)
      /\ done' = [done EXCEPT ![b] = s] /\ writer' = [writer EXCEPT ![b] = NoWrite]
      /\ UNCHANGED <<extents, mapVars, drainVars, mark, reader>>
  BY WritePublishIs
<1>2. UNCHANGED <<extents, lookup, objNum, chunks, seqNum, writes, flushing, wal, jobs, mark,
                  reader>>
  BY <1>1 DEF mapVars, drainVars
<1>3. Types /\ MapsOK /\ Sealed /\ JobsOK /\ Indexed /\ WritersOK /\ MarkOK /\ ReaderOK
  BY DEF IInv
<1>4. x \in Entry /\ x.seq = s
  BY <1>1 DEF Entry
<1> HIDE DEF x, s
<1>5. shard \in Maps(Entry) /\ shard' \in Maps(Entry)
  <2>1. shard \in Maps(Entry)
    BY <1>3 DEF Types
  <2>2. QED BY <1>1, <1>4, <2>1, WithType
<1>6. DOMAIN shard' = DOMAIN shard \cup {b}
  BY <1>1 DEF With
<1>7. shard'[b] = x
  BY <1>1 DEF With
<1>8. \A c \in DOMAIN shard : c # b => shard'[c] = shard[c]
  <2> TAKE c \in DOMAIN shard
  <2>1. shard' = [y \in DOMAIN shard \cup {b} |-> IF y = b THEN x ELSE shard[y]]
    BY <1>1 DEF With
  <2>2. QED BY <2>1
<1>9. /\ done \in [Blocks -> Nat] /\ done' \in [Blocks -> Nat] /\ done'[b] = s
      /\ \A c \in Blocks : c # b => done'[c] = done[c]
  BY <1>1, <1>3 DEF Types
<1>10. Later(done, done')
  <2> SUFFICES ASSUME NEW c \in Blocks PROVE done[c] <= done'[c]
    BY DEF Later
  <2>1. done[c] \in Nat /\ done'[c] \in Nat
    BY <1>9
  <2>2. CASE c = b
    BY <1>1, <1>9, <2>1, <2>2
  <2>3. CASE c # b
    BY <1>9, <2>1, <2>3
  <2>4. QED BY <2>2, <2>3
<1>11. /\ writer' \in [Blocks -> Write] /\ writer'[b] = NoWrite
       /\ \A c \in Blocks : c # b => writer'[c] = writer[c]
  <2>1. NoWrite \in Write
    BY DEF NoWrite, Write
  <2>2. writer \in [Blocks -> Write]
    BY <1>3 DEF Types, Write
  <2>3. QED BY <1>1, <2>1, <2>2
<1>12. Grows(chunks, chunks') /\ seqNum \in Nat
  BY <1>2, <1>3, NoneNew DEF Types
<1>13. Types'
  BY <1>2, <1>3, <1>5, <1>9, <1>11 DEF Types, Write
<1>14. MapsOK' /\ Sealed' /\ JobsOK'
  BY <1>2, <1>3, <1>12, MapsKept, SealedKept, JobsKept
<1>15. MarkOK'
  BY <1>2, <1>3, <1>6, <1>9, <1>10, <1>12, MarkKept
<1>16. \A c \in Blocks : ExtSeq(extents, c) \in Nat
  BY <1>3, ExtNumbers
<1>17. ReaderOK'
  <2>1. \A c \in Blocks : ExtSeq(extents, c) <= ExtSeq(extents', c)
    BY <1>2, <1>16
  <2>2. IsMap(extents')
    BY <1>2, <1>3 DEF MapsOK, MapIn
  <2>3. QED BY <1>2, <1>3, <1>9, <1>10, <1>12, <2>1, <2>2, ReaderKept
<1>18. Indexed'
  <2>1. ASSUME NEW c \in Blocks
        PROVE  /\ done'[c] <= seqNum
               /\ c \in DOMAIN shard' => /\ shard'[c].seq = done'[c] /\ done'[c] > 0
                                         /\ ExtSeq(extents, c) <= done'[c]
               /\ c \notin DOMAIN shard' => ExtSeq(extents, c) = done'[c]
    <3>1. /\ done[c] <= seqNum /\ done[c] \in Nat
          /\ c \in DOMAIN shard => /\ shard[c].seq = done[c] /\ done[c] > 0
                                   /\ ExtSeq(extents, c) <= done[c]
          /\ c \notin DOMAIN shard => ExtSeq(extents, c) = done[c]
      BY <1>3, <1>9 DEF Indexed
    <3>2. CASE c = b
      <4>1. ExtSeq(extents, c) <= done[c]
        BY <1>16, <3>1
      <4>2. QED BY <1>1, <1>4, <1>6, <1>7, <1>9, <1>16, <3>1, <3>2, <4>1
    <3>3. CASE c # b
      BY <1>6, <1>8, <1>9, <3>1, <3>3
    <3>4. QED BY <3>2, <3>3
  <2>2. QED BY <1>2, <2>1 DEF Indexed
<1>19. WritersOK'
  <2>1. ASSUME NEW c \in Blocks
        PROVE  /\ writer'[c].at = "extent" => c \notin DOMAIN shard'
               /\ writer'[c].at \in {"reserve", "append", "publish"} =>
                      writer'[c].base = done'[c]
               /\ writer'[c].at \in {"append", "publish"} =>
                      done'[c] < writer'[c].seq /\ writer'[c].seq <= seqNum
    <3>1. CASE c = b
      BY <1>11, <3>1 DEF NoWrite
    <3>2. CASE c # b
      BY <1>3, <1>6, <1>9, <1>11, <3>2 DEF WritersOK
    <3>3. QED BY <3>1, <3>2
  <2>2. QED BY <1>2, <2>1 DEF WritersOK
<1>20. QED BY <1>13, <1>14, <1>15, <1>17, <1>18, <1>19 DEF IInv

-----------------------------------------------------------------------------
(* Flush and drain.                                                        *)

\* A flush takes the first record of Writes.Blocks to the WAL and marks its
\* block's entry.
LEMMA FlushRecordIs ==
    ASSUME IInv, FlushRecord
    PROVE  \E b \in Blocks, s \in Nat :
              /\ writes # <<>> /\ writes[1] = <<b, s>> /\ Head(writes) = writes[1]
              /\ wal' = IF b \in DOMAIN wal /\ wal[b] >= s THEN wal ELSE With(wal, b, s)
              /\ shard' = IF b \in DOMAIN shard THEN [shard EXCEPT ![b].state = "pending"]
                          ELSE shard
              /\ writes' = Tail(writes) /\ flushing' \in BOOLEAN
              /\ UNCHANGED <<extents, mapVars, seqNum, jobs, mark, writer, reader, done>>
<1>1. writes # <<>> /\ writes \in Seq(Blocks \X Nat)
  BY DEF FlushRecord, IInv, Types
<1>2. Head(writes) \in Blocks \X Nat /\ Head(writes) = writes[1]
  BY <1>1
<1>3. PICK b \in Blocks, s \in Nat : Head(writes) = <<b, s>>
  BY <1>2
<1>4. Head(writes)[1] = b /\ Head(writes)[2] = s
  BY <1>3
<1>5. /\ wal' = IF b \in DOMAIN wal /\ wal[b] >= s THEN wal ELSE With(wal, b, s)
      /\ shard' = IF b \in DOMAIN shard THEN [shard EXCEPT ![b].state = "pending"] ELSE shard
      /\ writes' = Tail(writes)
      /\ UNCHANGED <<extents, mapVars, seqNum, jobs, mark, writer, reader, done>>
  BY <1>4 DEF FlushRecord
<1>6. flushing' \in BOOLEAN
  BY DEF FlushRecord
<1>7. QED BY <1>1, <1>2, <1>3, <1>5, <1>6

\* The entries' numbers stay.
LEMMA PendingIs ==
    ASSUME shard \in Maps(Entry), NEW b \in Blocks,
           shard' = IF b \in DOMAIN shard THEN [shard EXCEPT ![b].state = "pending"] ELSE shard
    PROVE  /\ shard' \in Maps(Entry) /\ DOMAIN shard' = DOMAIN shard
           /\ \A c \in DOMAIN shard : shard'[c].seq = shard[c].seq
<1>1. /\ DOMAIN shard \in SUBSET Blocks /\ shard \in [DOMAIN shard -> Entry]
      /\ \A c \in DOMAIN shard : shard[c] \in Entry
  BY MapsIs
<1>2. CASE b \in DOMAIN shard
  <2>1. shard' = [shard EXCEPT ![b] = [shard[b] EXCEPT !.state = "pending"]]
    BY <1>2
  <2> DEFINE x == [shard[b] EXCEPT !.state = "pending"]
  <2>2. x \in Entry /\ x.seq = shard[b].seq
    BY <1>1, <1>2 DEF Entry
  <2> HIDE DEF x
  <2>3. shard' = [shard EXCEPT ![b] = x]
    BY <2>1 DEF x
  <2>4. shard' \in [DOMAIN shard -> Entry]
    BY <1>1, <2>2, <2>3
  <2>5. shard' \in Maps(Entry)
    BY <1>1, <2>4, MapsOf
  <2>6. DOMAIN shard' = DOMAIN shard /\ \A c \in DOMAIN shard : shard'[c].seq = shard[c].seq
    BY <1>1, <2>2, <2>3
  <2>7. QED BY <2>5, <2>6
<1>3. CASE b \notin DOMAIN shard
  BY <1>3
<1>4. QED BY <1>2, <1>3

\* A record is flushed.
LEMMA FlushRecordKeeps ==
    ASSUME IInv, FlushRecord
    PROVE  IInv'
<1>1. PICK b \in Blocks, s \in Nat :
         /\ writes # <<>> /\ writes[1] = <<b, s>> /\ Head(writes) = writes[1]
         /\ wal' = IF b \in DOMAIN wal /\ wal[b] >= s THEN wal ELSE With(wal, b, s)
         /\ shard' = IF b \in DOMAIN shard THEN [shard EXCEPT ![b].state = "pending"] ELSE shard
         /\ writes' = Tail(writes) /\ flushing' \in BOOLEAN
         /\ UNCHANGED <<extents, mapVars, seqNum, jobs, mark, writer, reader, done>>
  BY FlushRecordIs
<1>2. UNCHANGED <<extents, lookup, objNum, chunks, seqNum, jobs, mark, writer, reader, done>>
  BY <1>1 DEF mapVars
<1>3. Types /\ MapsOK /\ Sealed /\ JobsOK /\ Indexed /\ WritersOK /\ MarkOK /\ ReaderOK
  BY DEF IInv
<1>4. /\ shard' \in Maps(Entry) /\ DOMAIN shard' = DOMAIN shard
      /\ \A c \in DOMAIN shard : shard'[c].seq = shard[c].seq
  <2>1. shard \in Maps(Entry)
    BY <1>3 DEF Types
  <2>2. QED BY <1>1, <2>1, PendingIs
<1>5. wal' \in RecordMaps
  <2>1. wal \in Maps(Nat)
    BY <1>3 DEF Types, RecordMaps
  <2>2. With(wal, b, s) \in Maps(Nat)
    BY <2>1, WithType
  <2>3. QED BY <1>1, <2>1, <2>2 DEF RecordMaps
<1>6. writes' \in Seq(Blocks \X Nat)
  BY <1>1, <1>3 DEF Types
<1>7. Types'
  BY <1>1, <1>2, <1>3, <1>4, <1>5, <1>6 DEF Types
<1>8. Grows(chunks, chunks') /\ done' \in [Blocks -> Nat] /\ Later(done, done')
  BY <1>2, <1>3, NoneNew, NoneLater
<1>9. seqNum' \in Nat /\ seqNum <= seqNum'
  BY <1>2, <1>3 DEF Types
<1>10. MapsOK' /\ Sealed' /\ JobsOK'
  BY <1>2, <1>3, <1>8, MapsKept, SealedKept, JobsKept
<1>11. Indexed' /\ WritersOK'
  BY <1>2, <1>3, <1>4, <1>9, IndexedKept, WritersKept
<1>12. MarkOK'
  BY <1>2, <1>3, <1>4, <1>8, MarkKept
<1>13. ReaderOK'
  <2>1. \A c \in Blocks : ExtSeq(extents, c) <= ExtSeq(extents', c)
    BY <1>2, <1>3, ExtNumbers
  <2>2. IsMap(extents')
    BY <1>2, <1>3 DEF MapsOK, MapIn
  <2>3. QED BY <1>2, <1>3, <1>8, <2>1, <2>2, ReaderKept
<1>14. QED BY <1>7, <1>10, <1>11, <1>12, <1>13 DEF IInv

\* A segment cut into chunks: the part with index k, and the job for it.
IndexIn(w, b) == Position(DOMAIN w, b) \div ChunkBlocks
CutOf(w, k) == [b \in {x \in DOMAIN w : IndexIn(w, x) = k} |-> w[b]]
NewJob(c) == [chunk |-> c, id |-> 0, put |-> FALSE, todo |-> c]

\* What is true of the jobs of a segment.
CutsOf(w, J) ==
    /\ J \subseteq JobSet
    /\ \A j \in J : /\ j.put = FALSE /\ j.todo = j.chunk
                    /\ DOMAIN j.chunk # {} /\ DOMAIN j.chunk \subseteq DOMAIN w
                    /\ \A b \in DOMAIN j.chunk : j.chunk[b] = w[b]
    /\ \A j, k \in J : j # k => DOMAIN j.chunk \cap DOMAIN k.chunk = {}

\* Every block of a segment is in one chunk.
LEMMA SegmentCut ==
    ASSUME NEW w \in RecordMaps, NEW J, J = {NewJob(CutOf(w, IndexIn(w, b))) : b \in DOMAIN w}
    PROVE  CutsOf(w, J)
<1>1. DOMAIN w \in SUBSET Blocks /\ \A b \in DOMAIN w : w[b] \in Nat
  BY RecordMapIs
<1> DEFINE D(k) == {x \in DOMAIN w : IndexIn(w, x) = k}
<1>2. ASSUME NEW k
      PROVE  /\ CutOf(w, k) \in RecordMaps /\ DOMAIN CutOf(w, k) = D(k)
             /\ \A b \in D(k) : CutOf(w, k)[b] = w[b]
  <2>1. D(k) \in SUBSET Blocks /\ \A b \in D(k) : w[b] \in Nat
    BY <1>1
  <2>2. CutOf(w, k) = [b \in D(k) |-> w[b]]
    BY DEF CutOf
  <2> HIDE DEF D
  <2>3. CutOf(w, k) \in [D(k) -> Nat]
    BY <2>1, <2>2
  <2>4. QED BY <2>1, <2>2, <2>3, MapsOf DEF RecordMaps
<1>3. ASSUME NEW j \in J
      PROVE  \E b \in DOMAIN w : /\ b \in D(IndexIn(w, b))
                                 /\ j = NewJob(CutOf(w, IndexIn(w, b)))
  BY <1>3
<1>4. ASSUME NEW j \in J
      PROVE  /\ j \in JobSet /\ j.put = FALSE /\ j.todo = j.chunk
             /\ DOMAIN j.chunk # {} /\ DOMAIN j.chunk \subseteq DOMAIN w
             /\ \A b \in DOMAIN j.chunk : j.chunk[b] = w[b]
  <2>1. PICK b \in DOMAIN w : /\ b \in D(IndexIn(w, b))
                              /\ j = NewJob(CutOf(w, IndexIn(w, b)))
    BY <1>3
  <2> DEFINE k == IndexIn(w, b)
             c == CutOf(w, k)
  <2>2. c \in RecordMaps /\ DOMAIN c = D(k) /\ \A x \in D(k) : c[x] = w[x]
    BY <1>2
  <2>3. D(k) \subseteq DOMAIN w /\ b \in D(k)
    BY <2>1
  <2>4. j = [chunk |-> c, id |-> 0, put |-> FALSE, todo |-> c]
    BY <2>1 DEF NewJob
  <2> HIDE DEF c, D, k
  <2>5. QED BY <2>2, <2>3, <2>4 DEF JobSet
<1>5. ASSUME NEW j \in J, NEW k \in J, j # k PROVE DOMAIN j.chunk \cap DOMAIN k.chunk = {}
  <2>1. PICK b \in DOMAIN w : j = NewJob(CutOf(w, IndexIn(w, b)))
    BY <1>3
  <2>2. PICK c \in DOMAIN w : k = NewJob(CutOf(w, IndexIn(w, c)))
    BY <1>3
  <2>3. IndexIn(w, b) # IndexIn(w, c)
    BY <1>5, <2>1, <2>2
  <2>4. DOMAIN j.chunk = D(IndexIn(w, b)) /\ DOMAIN k.chunk = D(IndexIn(w, c))
    BY <1>2, <2>1, <2>2 DEF NewJob
  <2>5. QED BY <2>3, <2>4
<1>6. QED BY <1>4, <1>5 DEF CutsOf

\* A drain begins with the jobs of the segment.
LEMMA StartDrainIs ==
    ASSUME IInv, StartDrain
    PROVE  /\ jobs = {} /\ mark = NoMark /\ wal' = Nothing /\ CutsOf(wal, jobs')
           /\ UNCHANGED <<storeVars, mapVars, seqNum, writes, flushing, mark, writer, reader, done>>
<1>1. /\ jobs = {} /\ mark = NoMark /\ wal' = Nothing
      /\ UNCHANGED <<storeVars, mapVars, seqNum, writes, flushing, mark, writer, reader, done>>
  BY DEF StartDrain
<1>2. jobs' = {NewJob(CutOf(wal, IndexIn(wal, b))) : b \in DOMAIN wal}
  BY DEF StartDrain, NewJob, CutOf, IndexIn, Position
<1>3. wal \in RecordMaps
  BY DEF IInv, Types
<1>4. CutsOf(wal, jobs')
  BY <1>2, <1>3, SegmentCut
<1>5. QED BY <1>1, <1>4

\* A step that touches neither the store nor the map, beside uploads.
LEMMA DrainStill ==
    ASSUME IInv, UNCHANGED <<storeVars, lookup, seqNum, mark, writer, reader, done>>,
           Grows(chunks, chunks')
    PROVE  MapsOK' /\ Sealed' /\ Indexed' /\ WritersOK' /\ MarkOK' /\ ReaderOK'
<1>1. UNCHANGED <<shard, extents, lookup, seqNum, mark, writer, reader, done>>
  BY DEF storeVars
<1>2. Types /\ MapsOK /\ Sealed /\ Indexed /\ WritersOK /\ MarkOK /\ ReaderOK
  BY DEF IInv
<1>3. done' \in [Blocks -> Nat] /\ Later(done, done') /\ seqNum' \in Nat /\ seqNum <= seqNum'
  <2>1. seqNum' \in Nat /\ seqNum <= seqNum'
    BY <1>1, <1>2 DEF Types
  <2>2. QED BY <1>1, <1>2, <2>1, NoneLater
<1>4. MapsOK' /\ Sealed'
  BY <1>1, <1>2, MapsKept, SealedKept
<1>5. Indexed' /\ WritersOK'
  BY <1>1, <1>2, <1>3, IndexedKept, WritersKept
<1>6. MarkOK'
  BY <1>1, <1>2, <1>3, MarkKept
<1>7. ReaderOK'
  <2>1. \A c \in Blocks : ExtSeq(extents, c) <= ExtSeq(extents', c)
    BY <1>1, <1>2, ExtNumbers
  <2>2. IsMap(extents')
    BY <1>1, <1>2 DEF MapsOK, MapIn
  <2>3. QED BY <1>1, <1>2, <1>3, <2>1, <2>2, ReaderKept
<1>8. QED BY <1>4, <1>5, <1>6, <1>7

\* The segment becomes chunks.
LEMMA StartDrainKeeps ==
    ASSUME IInv, StartDrain
    PROVE  IInv'
<1>1. /\ wal' = Nothing /\ CutsOf(wal, jobs')
      /\ UNCHANGED <<storeVars, mapVars, seqNum, writes, flushing, mark, writer, reader, done>>
  BY StartDrainIs
<1>2. UNCHANGED <<shard, extents, lookup, objNum, chunks, seqNum, writes, flushing, mark,
                  writer, reader, done>>
  BY <1>1 DEF storeVars, mapVars
<1>3. Grows(chunks, chunks')
  BY <1>2, NoneNew
<1>4. MapsOK' /\ Sealed' /\ Indexed' /\ WritersOK' /\ MarkOK' /\ ReaderOK'
  BY <1>1, <1>2, <1>3, DrainStill
<1>5. wal' \in RecordMaps
  BY <1>1, NothingIs DEF RecordMaps
<1>6. jobs' \subseteq JobSet
  BY <1>1 DEF CutsOf
<1>7. Types'
  <2>1. Types
    BY DEF IInv
  <2>2. QED BY <1>2, <1>5, <1>6, <2>1 DEF Types
<1>8. JobsOK'
  <2>1. ASSUME NEW j \in jobs' PROVE JobOK(j)'
    BY <1>1, <2>1 DEF CutsOf, JobOK
  <2>2. QED BY <1>1, <2>1 DEF JobsOK, CutsOf
<1>9. QED BY <1>4, <1>7, <1>8 DEF IInv

\* One job goes on.
LEMMA JobReplaced ==
    ASSUME JobsOK, NEW j \in jobs, NEW k, k.chunk = j.chunk, jobs' = (jobs \ {j}) \cup {k},
           Grows(chunks, chunks'), JobOK(k)'
    PROVE  JobsOK'
<1>1. \A i \in jobs \ {j} : JobOK(i)' /\ DOMAIN i.chunk \cap DOMAIN j.chunk = {}
  BY JobKept DEF JobsOK
<1>2. \A i \in jobs' : JobOK(i)'
  BY <1>1
<1>3. ASSUME NEW x \in jobs', NEW y \in jobs', x # y
      PROVE  DOMAIN x.chunk \cap DOMAIN y.chunk = {}
  <2>1. CASE x \in jobs \ {j} /\ y \in jobs \ {j}
    BY <1>3, <2>1 DEF JobsOK
  <2>2. CASE x \in jobs \ {j} /\ y = k
    BY <1>1, <2>2
  <2>3. CASE x = k /\ y \in jobs \ {j}
    BY <1>1, <2>3
  <2>4. QED BY <1>3, <2>1, <2>2, <2>3
<1>4. QED BY <1>2, <1>3 DEF JobsOK

\* One job ends.
LEMMA JobRemoved ==
    ASSUME JobsOK, NEW j \in jobs, jobs' = jobs \ {j}, Grows(chunks, chunks')
    PROVE  JobsOK'
<1>1. \A i \in jobs' : JobOK(i)'
  BY JobKept DEF JobsOK
<1>2. QED BY <1>1 DEF JobsOK

\* A job is a record with maps of the volume.
LEMMA JobIs ==
    ASSUME IInv, NEW j \in jobs
    PROVE  /\ j \in JobSet /\ j.chunk \in RecordMaps /\ j.todo \in RecordMaps /\ j.id \in Nat
           /\ j.put \in BOOLEAN /\ JobOK(j)
BY DEF IInv, Types, JobsOK, JobSet

\* A chunk is uploaded, under an ObjectID no object has.
LEMMA PutChunkKeeps ==
    ASSUME IInv, NEW j \in jobs, PutChunk(j)
    PROVE  IInv'
<1>0. PICK k : k = [j EXCEPT !.put = TRUE, !.id = objNum]
  OBVIOUS
<1>1. /\ chunks' = With(chunks, objNum, j.chunk) /\ objNum' = objNum + 1
      /\ jobs' = (jobs \ {j}) \cup {k}
      /\ UNCHANGED <<storeVars, lookup, seqNum, writes, flushing, wal, mark, writer, reader, done>>
  BY <1>0 DEF PutChunk
<1>2. /\ Types /\ JobsOK /\ objNum \in Nat /\ DOMAIN chunks = 0..(objNum - 1)
      /\ \A o \in DOMAIN chunks : chunks[o] \in RecordMaps
  BY DEF IInv, Types
<1>3. j \in JobSet /\ JobOK(j) /\ j.chunk \in RecordMaps
  BY JobIs
<1>4. /\ k \in JobSet /\ k.chunk = j.chunk /\ k.todo = j.todo /\ k.put = TRUE /\ k.id = objNum
  BY <1>0, <1>2, <1>3 DEF JobSet
<1>5. chunks' = [y \in DOMAIN chunks \cup {objNum} |->
                    IF y = objNum THEN j.chunk ELSE chunks[y]]
  BY <1>1 DEF With
<1>6. objNum \notin DOMAIN chunks /\ DOMAIN chunks \cup {objNum} = 0..((objNum + 1) - 1)
  BY <1>2
<1>7. /\ DOMAIN chunks' = DOMAIN chunks \cup {objNum} /\ chunks'[objNum] = j.chunk
      /\ \A o \in DOMAIN chunks : chunks'[o] = chunks[o]
  BY <1>5, <1>6
<1>8. Grows(chunks, chunks')
  BY <1>7 DEF Grows
<1>9. /\ objNum' \in Nat /\ DOMAIN chunks' = 0..(objNum' - 1)
      /\ \A o \in DOMAIN chunks' : chunks'[o] \in RecordMaps
  <2>1. objNum' \in Nat /\ DOMAIN chunks' = 0..(objNum' - 1)
    BY <1>1, <1>2, <1>6, <1>7
  <2>2. QED BY <1>2, <1>3, <1>7, <2>1
<1>10. Types'
  <2>1. jobs' \subseteq JobSet
    BY <1>1, <1>2, <1>4 DEF Types
  <2>2. UNCHANGED <<shard, extents, lookup, seqNum, writes, flushing, wal, mark, writer, reader,
                    done>>
    BY <1>1 DEF storeVars
  <2>3. QED BY <1>2, <1>9, <2>1, <2>2 DEF Types
<1>11. JobOK(k)'
  BY <1>3, <1>4, <1>7 DEF JobOK
<1>12. JobsOK'
  BY <1>1, <1>2, <1>4, <1>8, <1>11, JobReplaced
<1>13. MapsOK' /\ Sealed' /\ Indexed' /\ WritersOK' /\ MarkOK' /\ ReaderOK'
  BY <1>1, <1>8, DrainStill
<1>14. QED BY <1>10, <1>12, <1>13 DEF IInv

-----------------------------------------------------------------------------
(* createChunkFile's loop.                                                 *)

\* The run a worker takes, its entry, and what is left of the job.
TakenRun(j) == FirstRun(j.todo)
TakenEntry(j) == RunEntry(j.chunk, TakenRun(j), j.id)
Rest(j) == [b \in DOMAIN j.todo \ TakenRun(j) |-> j.todo[b]]

\* n is an extent of the volume that covers the blocks of a run.
RunOfVolume(n, run) ==
    /\ IsExtent(n) /\ End(n) <= NumBlocks /\ n.start \in run
    /\ run \in SUBSET Blocks /\ run # {}
    /\ \A b \in Nat : Covers(n, b) <=> b \in run

\* What is taken is a run of the chunk that was uploaded.
LEMMA TakenIs ==
    ASSUME IInv, NEW j \in jobs, j.put
    PROVE  /\ RunOfVolume(TakenEntry(j), TakenRun(j)) /\ TakenRun(j) \subseteq DOMAIN j.todo
           /\ TakenEntry(j).seqs[1] = j.todo[TakenEntry(j).start]
           /\ \A b \in TakenRun(j) : /\ SeqNumAt(TakenEntry(j), b) = j.todo[b]
                                     /\ Holds(chunks, PlaceIn(TakenEntry(j), b), b)
<1> DEFINE run == FirstRun(j.todo)
           n == RunEntry(j.chunk, run, j.id)
           N == NumBlocks - 1
<1>1. j.chunk \in RecordMaps /\ j.todo \in RecordMaps /\ j.id \in Nat /\ JobOK(j)
  BY JobIs
<1>2. /\ DOMAIN j.todo # {} /\ DOMAIN j.todo \subseteq DOMAIN j.chunk
      /\ \A b \in DOMAIN j.todo : j.todo[b] = j.chunk[b]
      /\ j.id \in DOMAIN chunks /\ chunks[j.id] = j.chunk
  BY <1>1 DEF JobOK
<1>3. /\ DOMAIN j.chunk \in SUBSET (0..N) /\ \A b \in DOMAIN j.chunk : j.chunk[b] \in Nat
      /\ DOMAIN j.todo \subseteq Nat /\ DOMAIN j.todo \in SUBSET Blocks
  BY <1>1, RecordMapIs
<1>4. N \in Nat /\ N + 1 = NumBlocks
  BY BlockNumbers
<1> HIDE DEF N
<1>5. /\ IsExtent(n) /\ End(n) <= N + 1 /\ n.obj = j.id
      /\ run \subseteq DOMAIN j.todo /\ n.start \in run
      /\ n.seqs[1] = j.chunk[n.start]
      /\ \A b \in Nat : Covers(n, b) <=> b \in run
      /\ \A b \in run : /\ SeqNumAt(n, b) = j.chunk[b]
                        /\ OffsetAt(n, b) = Position(DOMAIN j.chunk, b)
  <2> DEFINE ch == j.chunk
             td == j.todo
             id == j.id
  <2>1. /\ DOMAIN ch \in SUBSET (0..N) /\ (\A b \in DOMAIN ch : ch[b] \in Nat)
        /\ DOMAIN td \subseteq DOMAIN ch /\ DOMAIN td # {} /\ id \in Nat
    BY <1>1, <1>2, <1>3
  <2>2. run = FirstRun(td) /\ n = RunEntry(ch, run, id)
    OBVIOUS
  <2> HIDE DEF ch, td, id, run, n
  <2>3. IsEntry(n, run, ch, td, id, N)
    BY <1>4, <2>1, <2>2, RunEntryIs
  <2>4. QED BY <2>3 DEF ch, td, id, IsEntry
<1> HIDE DEF run, n
<1>6. ASSUME NEW b \in run
      PROVE  SeqNumAt(n, b) = j.todo[b] /\ Holds(chunks, PlaceIn(n, b), b)
  <2>1. b \in DOMAIN j.todo /\ b \in DOMAIN j.chunk
    BY <1>2, <1>5
  <2>2. SeqNumAt(n, b) = j.todo[b] /\ SeqNumAt(n, b) = j.chunk[b]
    BY <1>2, <1>5, <2>1
  <2>3. OffsetAt(n, b) = Position(DOMAIN j.chunk, b)
    BY <1>5
  <2>4. Holds(chunks, PlaceIn(n, b), b)
    BY <1>2, <1>5, <2>1, <2>2, <2>3 DEF Holds, PlaceIn
  <2>5. QED BY <2>2, <2>4
<1>7. n.seqs[1] = j.todo[n.start]
  BY <1>2, <1>5
<1>8. run = TakenRun(j) /\ n = TakenEntry(j)
  BY DEF run, n, TakenRun, TakenEntry
<1>9. RunOfVolume(n, run)
  BY <1>3, <1>4, <1>5 DEF RunOfVolume
<1>10. QED BY <1>5, <1>6, <1>7, <1>8, <1>9

\* What is left of a job.
LEMMA RestIs ==
    ASSUME IInv, NEW j \in jobs
    PROVE  /\ Rest(j) \in RecordMaps /\ DOMAIN Rest(j) = DOMAIN j.todo \ TakenRun(j)
           /\ \A b \in DOMAIN Rest(j) : Rest(j)[b] = j.todo[b]
<1> DEFINE f == j.todo
           X == TakenRun(j)
           g == Rest(j)
<1>1. f \in Maps(Nat)
  BY JobIs DEF RecordMaps
<1>2. g = [c \in DOMAIN f \ X |-> f[c]]
  BY DEF Rest
<1> HIDE DEF f, X, g
<1>3. g \in Maps(Nat) /\ DOMAIN g = DOMAIN f \ X /\ \A c \in DOMAIN g : g[c] = f[c]
  BY <1>1, <1>2, WithoutType
<1>4. QED BY <1>3 DEF f, X, g, RecordMaps

\* The step, in terms of the run.
LEMMA StartRunIs ==
    ASSUME NEW j \in jobs, StartRun(j)
    PROVE  /\ j.put /\ HasMapMu(j)
           /\ UNCHANGED <<storeVars, objNum, chunks, seqNum, writes, flushing, wal, writer,
                          reader, done>>
           /\ \/ Stale(lookup, TakenEntry(j)) /\ UNCHANGED <<lookup, mark>>
              \/ /\ ~Stale(lookup, TakenEntry(j)) /\ lookup' = Insert(lookup, TakenEntry(j))
                 /\ mark' = [at |-> "sample", n |-> TakenEntry(j), left |-> TakenRun(j),
                             ok |-> {}]
           /\ \/ DOMAIN Rest(j) = {} /\ jobs' = jobs \ {j}
              \/ DOMAIN Rest(j) # {} /\ jobs' = (jobs \ {j}) \cup {[j EXCEPT !.todo = Rest(j)]}
BY DEF StartRun, TakenEntry, TakenRun, Rest

\* The jobs after a run was taken.
LEMMA JobsAfterRun ==
    ASSUME IInv, NEW j \in jobs, StartRun(j)
    PROVE  jobs' \subseteq JobSet /\ JobsOK'
<1>1. jobs \subseteq JobSet /\ JobsOK /\ Grows(chunks, chunks')
  BY StartRunIs, NoneNew DEF IInv, Types
<1>2. CASE jobs' = jobs \ {j}
  BY <1>1, <1>2, JobRemoved
<1>3. CASE DOMAIN Rest(j) # {} /\ jobs' = (jobs \ {j}) \cup {[j EXCEPT !.todo = Rest(j)]}
  <2> DEFINE k == [j EXCEPT !.todo = Rest(j)]
  <2>1. j \in JobSet /\ JobOK(j) /\ j.put
    BY JobIs, StartRunIs
  <2>2. /\ Rest(j) \in RecordMaps /\ DOMAIN Rest(j) \subseteq DOMAIN j.todo
        /\ \A b \in DOMAIN Rest(j) : Rest(j)[b] = j.todo[b]
    BY RestIs
  <2>3. k \in JobSet /\ k.chunk = j.chunk /\ k.todo = Rest(j) /\ k.put = j.put /\ k.id = j.id
    BY <2>1, <2>2 DEF JobSet
  <2> HIDE DEF k
  <2>4. UNCHANGED chunks
    BY StartRunIs
  <2>5. JobOK(k)'
    BY <1>3, <2>1, <2>2, <2>3, <2>4 DEF JobOK
  <2>6. jobs' = (jobs \ {j}) \cup {k}
    BY <1>3 DEF k
  <2>7. JobsOK'
    BY <1>1, <2>3, <2>5, <2>6, JobReplaced
  <2>8. QED BY <1>1, <2>3, <2>6, <2>7
<1>4. QED BY <1>2, <1>3, StartRunIs

\* A run goes into the map and is going to be marked.
LEMMA StartRunKeeps ==
    ASSUME IInv, NEW j \in jobs, StartRun(j)
    PROVE  IInv'
<1> DEFINE run == TakenRun(j)
           n == TakenEntry(j)
<1>1. /\ j.put
      /\ UNCHANGED <<storeVars, objNum, chunks, seqNum, writes, flushing, wal, writer,
                     reader, done>>
      /\ \/ UNCHANGED <<lookup, mark>>
         \/ /\ lookup' = Insert(lookup, n)
            /\ mark' = [at |-> "sample", n |-> n, left |-> run, ok |-> {}]
  BY StartRunIs
<1>2. UNCHANGED <<shard, extents, objNum, chunks, seqNum, writes, flushing, wal, writer, reader,
                  done>>
  BY <1>1 DEF storeVars
<1>3. jobs' \subseteq JobSet /\ JobsOK'
  BY JobsAfterRun
<1>4. RunOfVolume(n, run) /\ \A b \in run : Holds(chunks, PlaceIn(n, b), b)
  BY <1>1, TakenIs
<1> HIDE DEF run, n
<1>5. Types /\ MapsOK /\ Sealed /\ Indexed /\ WritersOK /\ MarkOK /\ ReaderOK
  BY DEF IInv
<1>6. Grows(chunks, chunks') /\ done' \in [Blocks -> Nat] /\ Later(done, done')
  BY <1>2, <1>5, NoneNew, NoneLater
<1>7. MapsOK'
  <2>1. CASE UNCHANGED lookup
    BY <1>2, <1>5, <2>1, MapsKept
  <2>2. CASE lookup' = Insert(lookup, n)
    <3>1. IsMap(lookup) /\ \A e \in lookup : End(e) <= NumBlocks
      BY <1>5 DEF MapsOK, MapIn
    <3>2. IsExtent(n) /\ End(n) <= NumBlocks /\ NumBlocks \in Nat
      BY <1>4, BlockNumbers DEF RunOfVolume
    <3>3. IsMap(lookup') /\ \A e \in Insert(lookup, n) : End(e) <= NumBlocks
      BY <2>2, <3>1, <3>2, InsertIsMap, InsertBounded
    <3>4. QED BY <1>2, <1>5, <2>2, <3>3 DEF MapsOK, MapIn
  <2>3. QED BY <1>1, <2>1, <2>2
<1>8. Sealed'
  BY <1>2, <1>5, <1>6, SealedKept
<1>9. Indexed' /\ WritersOK'
  <2>1. seqNum' \in Nat /\ seqNum <= seqNum'
    BY <1>2, <1>5 DEF Types
  <2>2. QED BY <1>2, <1>5, <2>1, IndexedKept, WritersKept
<1>10. ReaderOK'
  <2>1. \A c \in Blocks : ExtSeq(extents, c) <= ExtSeq(extents', c)
    BY <1>2, <1>5, ExtNumbers
  <2>2. IsMap(extents')
    BY <1>2, <1>5 DEF MapsOK, MapIn
  <2>3. QED BY <1>2, <1>5, <1>6, <2>1, <2>2, ReaderKept
<1>11. MarkOK' /\ mark' \in [at : {"idle", "sample", "extents", "remove"}, n : Run \cup {0},
                             left : SUBSET Blocks, ok : SUBSET Blocks]
  <2>1. CASE UNCHANGED mark
    BY <1>2, <1>5, <1>6, <2>1, MarkKept DEF Types
  <2>2. CASE mark' = [at |-> "sample", n |-> n, left |-> run, ok |-> {}]
    <3>1. n \in Run /\ run \in SUBSET Blocks /\ run # {}
      BY <1>4 DEF RunOfVolume, IsExtent, Run
    <3>2. mark' \in [at : {"idle", "sample", "extents", "remove"}, n : Run \cup {0},
                     left : SUBSET Blocks, ok : SUBSET Blocks]
      BY <2>2, <3>1
    <3>3. mark'.at = "sample" /\ mark'.n = n /\ mark'.left = run /\ mark'.ok = {}
      BY <2>2
    <3>4. \A b \in Blocks : Covers(n, b) => Holds(chunks', PlaceIn(n, b), b)
      BY <1>2, <1>4, BlockNumbers DEF RunOfVolume
    <3>5. \A b \in run : Covers(n, b)
      BY <1>4, BlockNumbers DEF RunOfVolume
    <3>6. IsExtent(n) /\ End(n) <= NumBlocks
      BY <1>4 DEF RunOfVolume
    <3>7. MarkOK'
      BY <3>1, <3>3, <3>4, <3>5, <3>6 DEF MarkOK
    <3>8. QED BY <3>2, <3>7
  <2>3. QED BY <1>1, <2>1, <2>2
<1>12. Types'
  BY <1>2, <1>3, <1>5, <1>11 DEF Types
<1>13. QED BY <1>3, <1>7, <1>8, <1>9, <1>10, <1>11, <1>12 DEF IInv

-----------------------------------------------------------------------------
(* MarkPersistedRange.                                                     *)

Mark == [at : {"idle", "sample", "extents", "remove"}, n : Run \cup {0},
         left : SUBSET Blocks, ok : SUBSET Blocks]

\* What a mark in progress knows of its run.
LEMMA MarkFacts ==
    ASSUME IInv, mark.at # "idle"
    PROVE  /\ mark \in Mark /\ mark.left \in SUBSET Blocks /\ mark.ok \in SUBSET Blocks
           /\ IsExtent(mark.n) /\ End(mark.n) <= NumBlocks /\ mark.left # {}
           /\ \A b \in Blocks : Covers(mark.n, b) => Holds(chunks, PlaceIn(mark.n, b), b)
           /\ \A b \in mark.left \cup mark.ok :
                 Covers(mark.n, b) /\ b \in Nat /\ SeqNumAt(mark.n, b) \in Nat
           /\ \A b \in mark.ok : SeqNumAt(mark.n, b) <= done[b]
<1>1. mark \in Mark /\ MarkOK
  BY DEF IInv, Types, Mark
<1>2. mark.left \in SUBSET Blocks /\ mark.ok \in SUBSET Blocks
  BY <1>1 DEF Mark
<1>3. /\ IsExtent(mark.n) /\ End(mark.n) <= NumBlocks /\ mark.left # {}
      /\ \A b \in Blocks : Covers(mark.n, b) => Holds(chunks, PlaceIn(mark.n, b), b)
      /\ \A b \in mark.left \cup mark.ok : Covers(mark.n, b)
      /\ \A b \in mark.ok : SeqNumAt(mark.n, b) <= done[b]
  BY <1>1 DEF MarkOK
<1>4. ASSUME NEW b \in mark.left \cup mark.ok PROVE b \in Nat /\ SeqNumAt(mark.n, b) \in Nat
  <2>1. b \in Nat
    BY <1>2, BlockNumbers
  <2>2. QED BY <1>3, <2>1, ExtentType
<1>5. QED BY <1>1, <1>2, <1>3, <1>4

\* A mark that touches neither the shards nor the extents.
LEMMA MarkStill ==
    ASSUME IInv, UNCHANGED <<storeVars, mapVars, drainVars, writer, reader, done>>,
           mark' \in Mark, MarkOK'
    PROVE  IInv'
<1>1. UNCHANGED <<shard, extents, lookup, objNum, chunks, seqNum, writes, flushing, wal, jobs,
                  writer, reader, done>>
  BY DEF storeVars, mapVars, drainVars
<1>2. Types /\ MapsOK /\ Sealed /\ JobsOK /\ Indexed /\ WritersOK /\ ReaderOK
  BY DEF IInv
<1>3. Types'
  BY <1>1, <1>2 DEF Types, Mark
<1>4. Grows(chunks, chunks') /\ done' \in [Blocks -> Nat] /\ Later(done, done')
  BY <1>1, <1>2, NoneNew, NoneLater
<1>5. MapsOK' /\ Sealed' /\ JobsOK'
  BY <1>1, <1>2, <1>4, MapsKept, SealedKept, JobsKept
<1>6. Indexed' /\ WritersOK'
  <2>1. seqNum' \in Nat /\ seqNum <= seqNum'
    BY <1>1, <1>2 DEF Types
  <2>2. QED BY <1>1, <1>2, <2>1, IndexedKept, WritersKept
<1>7. ReaderOK'
  <2>1. \A c \in Blocks : ExtSeq(extents, c) <= ExtSeq(extents', c)
    BY <1>1, <1>2, ExtNumbers
  <2>2. IsMap(extents')
    BY <1>1, <1>2 DEF MapsOK, MapIn
  <2>3. QED BY <1>1, <1>2, <1>4, <2>1, <2>2, ReaderKept
<1>8. QED BY <1>3, <1>5, <1>6, <1>7 DEF IInv

\* No mark in progress.
LEMMA NoMarkIs == NoMark \in Mark /\ NoMark.at = "idle"
BY DEF NoMark, Mark

\* Pass 1 looks at a block.
LEMMA SampleKeeps ==
    ASSUME IInv, NEW b \in mark.left, Sample(b)
    PROVE  IInv'
<1> DEFINE ok == IF Eligible(b) THEN mark.ok \cup {b} ELSE mark.ok
           left == mark.left \ {b}
<1>1. /\ mark.at = "sample"
      /\ mark' = IF left # {} THEN [mark EXCEPT !.left = left, !.ok = ok]
                 ELSE IF ok = {} THEN NoMark
                 ELSE [mark EXCEPT !.at = "extents", !.left = ok, !.ok = ok]
      /\ UNCHANGED <<storeVars, mapVars, drainVars, writer, reader, done>>
  BY DEF Sample
<1>2. UNCHANGED <<shard, extents, chunks, done>>
  BY <1>1 DEF storeVars, mapVars
<1>3. /\ mark \in Mark /\ mark.left \in SUBSET Blocks /\ mark.ok \in SUBSET Blocks
      /\ IsExtent(mark.n) /\ End(mark.n) <= NumBlocks
      /\ \A c \in Blocks : Covers(mark.n, c) => Holds(chunks, PlaceIn(mark.n, c), c)
      /\ \A c \in mark.left \cup mark.ok :
            Covers(mark.n, c) /\ c \in Nat /\ SeqNumAt(mark.n, c) \in Nat
      /\ \A c \in mark.ok : SeqNumAt(mark.n, c) <= done[c]
  BY <1>1, MarkFacts
<1>4. /\ mark.ok \subseteq DOMAIN shard
      /\ \A c \in mark.ok : ExtSeq(extents, c) <= SeqNumAt(mark.n, c)
  BY <1>1 DEF IInv, MarkOK
<1>5. Eligible(b) => /\ b \in DOMAIN shard /\ SeqNumAt(mark.n, b) <= done[b]
                     /\ ExtSeq(extents, b) <= SeqNumAt(mark.n, b)
  <2> SUFFICES ASSUME Eligible(b)
               PROVE  /\ b \in DOMAIN shard /\ SeqNumAt(mark.n, b) <= done[b]
                      /\ ExtSeq(extents, b) <= SeqNumAt(mark.n, b)
    OBVIOUS
  <2>1. b \in DOMAIN shard /\ shard[b].seq = SeqNumAt(mark.n, b) /\ b \in Blocks
    BY <1>3 DEF Eligible
  <2>2. shard[b].seq = done[b] /\ ExtSeq(extents, b) <= done[b]
    BY <2>1 DEF IInv, Indexed
  <2>3. SeqNumAt(mark.n, b) \in Nat
    BY <1>3
  <2>4. QED BY <2>1, <2>2, <2>3
<1>6. /\ left \in SUBSET Blocks /\ ok \in SUBSET Blocks /\ ok \subseteq DOMAIN shard
      /\ \A c \in left \cup ok : Covers(mark.n, c)
  BY <1>3, <1>4, <1>5
<1>7. \A c \in ok : /\ SeqNumAt(mark.n, c) <= done[c]
                    /\ ExtSeq(extents, c) <= SeqNumAt(mark.n, c)
  BY <1>3, <1>4, <1>5
<1> HIDE DEF ok, left
<1>8. CASE left # {}
  <2>1. mark' = [mark EXCEPT !.left = left, !.ok = ok]
    BY <1>1, <1>8
  <2>2. /\ mark' \in Mark /\ mark'.at = "sample" /\ mark'.n = mark.n
        /\ mark'.left = left /\ mark'.ok = ok
    BY <1>1, <1>3, <1>6, <2>1 DEF Mark
  <2>3. MarkOK'
    BY <1>2, <1>3, <1>6, <1>7, <1>8, <2>2 DEF MarkOK
  <2>4. QED BY <1>1, <2>2, <2>3, MarkStill
<1>9. CASE left = {} /\ ok = {}
  <2>1. mark' = NoMark
    BY <1>1, <1>9
  <2>2. mark' \in Mark /\ mark'.at = "idle"
    BY <2>1, NoMarkIs
  <2>3. MarkOK'
    BY <2>2 DEF MarkOK
  <2>4. QED BY <1>1, <2>2, <2>3, MarkStill
<1>10. CASE left = {} /\ ok # {}
  <2>1. mark' = [mark EXCEPT !.at = "extents", !.left = ok, !.ok = ok]
    BY <1>1, <1>10
  <2>2. /\ mark' \in Mark /\ mark'.at = "extents" /\ mark'.n = mark.n
        /\ mark'.left = ok /\ mark'.ok = ok
    BY <1>3, <1>6, <2>1 DEF Mark
  <2>3. MarkOK'
    BY <1>2, <1>3, <1>6, <1>7, <1>10, <2>2 DEF MarkOK
  <2>4. QED BY <1>1, <2>2, <2>3, MarkStill
<1>11. QED BY <1>8, <1>9, <1>10

\* Pass 3 comes to a block: its entry goes if it is the one in the extents.
LEMMA RemoveIs ==
    ASSUME IInv, NEW b \in mark.left, Remove(b)
    PROVE  /\ mark.at = "remove" /\ b \in Blocks
           /\ mark' = IF mark.left = {b} THEN NoMark ELSE [mark EXCEPT !.left = mark.left \ {b}]
           /\ UNCHANGED <<extents, mapVars, drainVars, writer, reader, done>>
           /\ \/ UNCHANGED shard
              \/ /\ b \in DOMAIN shard /\ shard' = [c \in DOMAIN shard \ {b} |-> shard[c]]
                 /\ SeqNumAt(mark.n, b) = done[b] /\ ExtSeq(extents, b) = done[b]
<1>1. /\ mark.at = "remove"
      /\ mark' = IF mark.left = {b} THEN NoMark ELSE [mark EXCEPT !.left = mark.left \ {b}]
      /\ UNCHANGED <<extents, mapVars, drainVars, writer, reader, done>>
      /\ shard' = IF Eligible(b) THEN [c \in DOMAIN shard \ {b} |-> shard[c]] ELSE shard
  BY DEF Remove
<1>2. b \in Blocks /\ b \in Nat
  BY <1>1, MarkFacts
<1>3. ASSUME Eligible(b)
      PROVE  /\ b \in DOMAIN shard /\ SeqNumAt(mark.n, b) = done[b]
             /\ ExtSeq(extents, b) = done[b]
  <2>1. b \in DOMAIN shard /\ shard[b].seq = SeqNumAt(mark.n, b)
    BY <1>3 DEF Eligible
  <2>2. shard[b].seq = done[b]
    BY <1>2, <2>1 DEF IInv, Indexed
  <2>3. Installed(extents, mark.n, b) /\ IsMap(extents)
    BY <1>1 DEF IInv, MarkOK, MapsOK, MapIn
  <2>4. Mapped(extents, b) /\ Location(extents, b) = PlaceIn(mark.n, b)
    BY <2>3 DEF Installed
  <2>5. ExtSeq(extents, b) = Location(extents, b).seq
    BY <1>2, <2>3, <2>4, LocationIs
  <2>6. ExtSeq(extents, b) = SeqNumAt(mark.n, b)
    BY <2>4, <2>5 DEF PlaceIn
  <2>7. QED BY <2>1, <2>2, <2>6
<1>4. QED BY <1>1, <1>2, <1>3

\* The removal of an entry.
LEMMA RemoveKeeps ==
    ASSUME IInv, NEW b \in mark.left, Remove(b)
    PROVE  IInv'
<1>1. /\ mark.at = "remove" /\ b \in Blocks
      /\ mark' = IF mark.left = {b} THEN NoMark ELSE [mark EXCEPT !.left = mark.left \ {b}]
      /\ UNCHANGED <<extents, mapVars, drainVars, writer, reader, done>>
      /\ \/ UNCHANGED shard
         \/ /\ b \in DOMAIN shard /\ shard' = [c \in DOMAIN shard \ {b} |-> shard[c]]
            /\ SeqNumAt(mark.n, b) = done[b] /\ ExtSeq(extents, b) = done[b]
  BY RemoveIs
<1>2. UNCHANGED <<extents, lookup, objNum, chunks, seqNum, writes, flushing, wal, jobs, writer,
                  reader, done>>
  BY <1>1 DEF mapVars, drainVars
<1>3. Types /\ MapsOK /\ Sealed /\ JobsOK /\ Indexed /\ WritersOK /\ MarkOK /\ ReaderOK
  BY DEF IInv
<1>4. shard \in Maps(Entry)
  BY <1>3 DEF Types
<1>5. /\ shard' \in Maps(Entry) /\ DOMAIN shard' \subseteq DOMAIN shard
      /\ DOMAIN shard \ {b} \subseteq DOMAIN shard'
      /\ \A c \in DOMAIN shard' : shard'[c] = shard[c]
      /\ b \in DOMAIN shard /\ b \notin DOMAIN shard' => ExtSeq(extents, b) = done[b]
  <2>1. CASE UNCHANGED shard
    BY <1>4, <2>1
  <2>2. CASE shard' = [c \in DOMAIN shard \ {b} |-> shard[c]] /\ ExtSeq(extents, b) = done[b]
    <3>1. /\ shard' \in Maps(Entry) /\ DOMAIN shard' = DOMAIN shard \ {b}
          /\ \A c \in DOMAIN shard' : shard'[c] = shard[c]
      BY <1>4, <2>2, WithoutType
    <3>2. QED BY <2>2, <3>1
  <2>3. QED BY <1>1, <2>1, <2>2
<1>6. /\ mark \in Mark /\ mark.left \in SUBSET Blocks
      /\ IsExtent(mark.n) /\ End(mark.n) <= NumBlocks
      /\ \A c \in Blocks : Covers(mark.n, c) => Holds(chunks, PlaceIn(mark.n, c), c)
      /\ \A c \in mark.left \cup mark.ok : Covers(mark.n, c)
      /\ \A c \in mark.ok : SeqNumAt(mark.n, c) <= done[c]
  BY <1>1, MarkFacts
<1>7. mark' \in Mark /\ MarkOK'
  <2>1. CASE mark.left = {b}
    <3>1. mark' \in Mark /\ mark'.at = "idle"
      BY <1>1, <2>1, NoMarkIs
    <3>2. QED BY <3>1 DEF MarkOK
  <2>2. CASE mark.left # {b}
    <3>1. mark' = [mark EXCEPT !.left = mark.left \ {b}]
      BY <1>1, <2>2
    <3>2. /\ mark' \in Mark /\ mark'.at = "remove" /\ mark'.n = mark.n
          /\ mark'.left = mark.left \ {b} /\ mark'.ok = mark.ok
      BY <1>1, <1>6, <3>1 DEF Mark
    <3>3. /\ mark.left \subseteq mark.ok /\ mark.left \subseteq DOMAIN shard
          /\ \A c \in mark.left : Installed(extents, mark.n, c)
      BY <1>1, <1>3 DEF MarkOK
    <3>4. mark.left \ {b} # {}
      BY <2>2
    <3>5. MarkOK'
      BY <1>2, <1>5, <1>6, <3>2, <3>3, <3>4 DEF MarkOK
    <3>6. QED BY <3>2, <3>5
  <2>3. QED BY <2>1, <2>2
<1>8. Types'
  BY <1>2, <1>3, <1>5, <1>7 DEF Types, Mark
<1>9. Grows(chunks, chunks') /\ done' \in [Blocks -> Nat] /\ Later(done, done')
  BY <1>2, <1>3, NoneNew, NoneLater
<1>10. MapsOK' /\ Sealed' /\ JobsOK'
  BY <1>2, <1>3, <1>9, MapsKept, SealedKept, JobsKept
<1>11. WritersOK'
  <2>1. seqNum' \in Nat /\ seqNum <= seqNum'
    BY <1>2, <1>3 DEF Types
  <2>2. QED BY <1>2, <1>3, <1>5, <2>1, WritersKept
<1>12. Indexed'
  <2>1. ASSUME NEW c \in Blocks
        PROVE  /\ done[c] <= seqNum
               /\ c \in DOMAIN shard' => /\ shard'[c].seq = done[c] /\ done[c] > 0
                                         /\ ExtSeq(extents, c) <= done[c]
               /\ c \notin DOMAIN shard' => ExtSeq(extents, c) = done[c]
    <3>1. /\ done[c] <= seqNum
          /\ c \in DOMAIN shard => /\ shard[c].seq = done[c] /\ done[c] > 0
                                   /\ ExtSeq(extents, c) <= done[c]
          /\ c \notin DOMAIN shard => ExtSeq(extents, c) = done[c]
      BY <1>3 DEF Indexed
    <3>2. c \in DOMAIN shard /\ c \notin DOMAIN shard' => c = b
      BY <1>5
    <3>3. QED BY <1>5, <3>1, <3>2
  <2>2. QED BY <1>2, <2>1 DEF Indexed
<1>13. ReaderOK'
  <2>1. \A c \in Blocks : ExtSeq(extents, c) <= ExtSeq(extents', c)
    BY <1>2, <1>3, ExtNumbers
  <2>2. IsMap(extents')
    BY <1>2, <1>3 DEF MapsOK, MapIn
  <2>3. QED BY <1>2, <1>3, <1>9, <2>1, <2>2, ReaderKept
<1>14. QED BY <1>7, <1>8, <1>10, <1>11, <1>12, <1>13 DEF IInv

\* A sub-run of the eligible blocks is an extent that has each of them where
\* the run has it.
LEMMA SubRunIs ==
    ASSUME NEW n, IsExtent(n), NEW L \in SUBSET Blocks, L # {}, \A b \in L : Covers(n, b),
           NEW seqs, seqs = [b \in L |-> SeqNumAt(n, b)], NEW e, e = SubRun(n, seqs)
    PROVE  /\ RunOfVolume(e, FirstRun(seqs)) /\ FirstRun(seqs) \subseteq L
           /\ \A b \in FirstRun(seqs) : PlaceIn(e, b) = PlaceIn(n, b)
<1> DEFINE N == NumBlocks - 1
           run == FirstRun(seqs)
<1>1. N \in Nat /\ N + 1 = NumBlocks /\ Blocks = 0..N /\ Blocks \subseteq Nat
  BY BlockNumbers
<1>2. DOMAIN seqs = L /\ \A b \in L : seqs[b] = SeqNumAt(n, b)
  OBVIOUS
<1>3. DOMAIN seqs \in SUBSET (0..N) /\ DOMAIN seqs # {}
  BY <1>1, <1>2
<1> HIDE DEF N
<1>4. PICK a \in Nat, z \in Nat :
          /\ a <= z /\ run = a..z /\ a..z \subseteq L
          /\ a = Min(run) /\ Cardinality(run) = (z - a) + 1
  BY <1>1, <1>2, <1>3, FirstRunIs
<1> HIDE DEF run
<1> DEFINE k == (z - a) + 1
           q == [i \in 1..k |-> seqs[(a + i) - 1]]
<1>5. n.start \in Nat /\ n.obj \in Nat /\ n.off \in Nat
  BY ExtentType
<1>6. \A b \in L : b \in Nat /\ SeqNumAt(n, b) \in Nat /\ OffsetAt(n, b) \in Nat
  BY <1>1, ExtentType
<1>7. \A i \in 1..k : (a + i) - 1 \in a..z
  BY <1>4
<1>8. k \in Nat /\ k > 0 /\ q \in [1..k -> Nat]
  <2>1. k \in Nat /\ k > 0
    BY <1>4
  <2>2. \A i \in 1..k : seqs[(a + i) - 1] \in Nat
    BY <1>2, <1>4, <1>6, <1>7
  <2>3. QED BY <2>1, <2>2
<1>9. q \in Seq(Nat) /\ Len(q) = k
  <2> HIDE DEF q, k
  <2>1. QED BY <1>8, SequenceOf
<1>10. e = [start |-> a, obj |-> n.obj, off |-> OffsetAt(n, a), seqs |-> q]
  <2>1. e = [start |-> Min(run), obj |-> n.obj, off |-> OffsetAt(n, Min(run)),
             seqs  |-> [i \in 1..Cardinality(run) |-> seqs[(Min(run) + i) - 1]]]
    BY DEF SubRun, run
  <2>2. Min(run) = a /\ Cardinality(run) = k
    BY <1>4
  <2>3. q = [i \in 1..Cardinality(run) |-> seqs[(Min(run) + i) - 1]]
    BY <2>2
  <2> HIDE DEF k, q
  <2>4. QED BY <2>1, <2>2, <2>3
<1>11. a \in L /\ z \in L /\ a \in run
  BY <1>4
<1>12. /\ e.start = a /\ e.obj = n.obj /\ e.off = OffsetAt(n, a) /\ e.seqs = q
  <2> HIDE DEF q
  <2>1. QED BY <1>10
<1>13. IsExtent(e)
  BY <1>5, <1>6, <1>8, <1>9, <1>10, <1>11, <1>12 DEF IsExtent
<1>14. End(e) = z + 1 /\ End(e) <= NumBlocks
  <2>1. End(e) = a + k
    BY <1>9, <1>12 DEF End
  <2>2. z <= N
    BY <1>1, <1>11
  <2>3. QED BY <1>1, <1>4, <2>1, <2>2
<1>15. \A b \in Nat : Covers(e, b) <=> b \in run
  BY <1>4, <1>12, <1>14 DEF Covers
<1>16. run \in SUBSET Blocks /\ run # {}
  BY <1>4, <1>11
<1>17. ASSUME NEW b \in run PROVE PlaceIn(e, b) = PlaceIn(n, b)
  <2>1. b \in Nat /\ a <= b /\ b <= z /\ b \in L
    BY <1>4, <1>17
  <2>2. (b - a) + 1 \in 1..k /\ (a + ((b - a) + 1)) - 1 = b
    BY <1>4, <2>1
  <2>3. q[(b - a) + 1] = seqs[b]
    BY <2>2
  <2>4. SeqNumAt(e, b) = SeqNumAt(n, b)
    BY <1>2, <1>12, <2>1, <2>3 DEF SeqNumAt
  <2>5. n.start <= a
    BY <1>11 DEF Covers
  <2>6. OffsetAt(e, b) = OffsetAt(n, b)
    BY <1>4, <1>5, <1>12, <2>1, <2>5 DEF OffsetAt
  <2>7. QED BY <1>12, <2>4, <2>6 DEF PlaceIn
<1>18. QED BY <1>4, <1>11, <1>12, <1>13, <1>14, <1>15, <1>16, <1>17 DEF RunOfVolume, run

\* What has been installed and what is left to install.
LEMMA InstallIs ==
    ASSUME IInv, InstallExtent
    PROVE  \E run \in SUBSET Blocks, e \in Run :
              /\ mark.at = "extents" /\ RunOfVolume(e, run) /\ run \subseteq mark.left
              /\ extents' = Insert(extents, e)
              /\ \A b \in run : PlaceIn(e, b) = PlaceIn(mark.n, b)
              /\ \/ /\ mark.left \ run # {}
                    /\ mark' = [mark EXCEPT !.left = mark.left \ run]
                 \/ /\ mark.left \ run = {}
                    /\ mark' = [mark EXCEPT !.at = "remove", !.left = mark.ok]
              /\ UNCHANGED <<shard, mapVars, drainVars, writer, reader, done>>
<1> DEFINE seqs == [b \in mark.left |-> SeqNumAt(mark.n, b)]
           run == FirstRun(seqs)
           e == SubRun(mark.n, seqs)
           n == mark.n
           L == mark.left
<1>1. /\ mark.at = "extents" /\ extents' = Insert(extents, e)
      /\ mark' = IF mark.left \ run # {} THEN [mark EXCEPT !.left = mark.left \ run]
                 ELSE [mark EXCEPT !.at = "remove", !.left = mark.ok]
      /\ UNCHANGED <<shard, mapVars, drainVars, writer, reader, done>>
  BY DEF InstallExtent, Fracture
<1>2. IsExtent(n) /\ L \in SUBSET Blocks /\ L # {} /\ \A b \in L : Covers(n, b)
  BY <1>1, MarkFacts
<1>3. seqs = [b \in L |-> SeqNumAt(n, b)] /\ e = SubRun(n, seqs)
  OBVIOUS
<1> HIDE DEF seqs, e, n, L
<1>4. /\ RunOfVolume(e, run) /\ run \subseteq L
      /\ \A b \in run : PlaceIn(e, b) = PlaceIn(n, b)
  BY <1>2, <1>3, SubRunIs
<1> HIDE DEF run
<1>5. run \in SUBSET Blocks /\ e \in Run
  BY <1>2, <1>4 DEF RunOfVolume, IsExtent, Run
<1>6. QED BY <1>1, <1>4, <1>5 DEF n, L

\* Pass 2 installs an extent: no block goes back.
LEMMA InstallExtentKeeps ==
    ASSUME IInv, InstallExtent
    PROVE  IInv'
<1>1. PICK run \in SUBSET Blocks, e \in Run :
          /\ mark.at = "extents" /\ RunOfVolume(e, run) /\ run \subseteq mark.left
          /\ extents' = Insert(extents, e)
          /\ \A b \in run : PlaceIn(e, b) = PlaceIn(mark.n, b)
          /\ \/ /\ mark.left \ run # {}
                /\ mark' = [mark EXCEPT !.left = mark.left \ run]
             \/ /\ mark.left \ run = {}
                /\ mark' = [mark EXCEPT !.at = "remove", !.left = mark.ok]
          /\ UNCHANGED <<shard, mapVars, drainVars, writer, reader, done>>
  BY InstallIs
<1>2. UNCHANGED <<shard, lookup, objNum, chunks, seqNum, writes, flushing, wal, jobs, writer,
                  reader, done>>
  BY <1>1 DEF mapVars, drainVars
<1>3. Types /\ MapsOK /\ Sealed /\ JobsOK /\ Indexed /\ WritersOK /\ MarkOK /\ ReaderOK
  BY DEF IInv
<1>4. /\ mark \in Mark /\ mark.left \in SUBSET Blocks /\ mark.ok \in SUBSET Blocks
      /\ IsExtent(mark.n) /\ End(mark.n) <= NumBlocks
      /\ \A b \in Blocks : Covers(mark.n, b) => Holds(chunks, PlaceIn(mark.n, b), b)
      /\ \A b \in mark.left \cup mark.ok :
            Covers(mark.n, b) /\ b \in Nat /\ SeqNumAt(mark.n, b) \in Nat
      /\ \A b \in mark.ok : SeqNumAt(mark.n, b) <= done[b]
  BY <1>1, MarkFacts
<1>5. /\ mark.left \subseteq mark.ok /\ mark.ok \subseteq DOMAIN shard /\ mark.left # {}
      /\ \A b \in mark.ok : ExtSeq(extents, b) <= SeqNumAt(mark.n, b)
      /\ \A b \in mark.ok \ mark.left : Installed(extents, mark.n, b)
  BY <1>1, <1>3 DEF MarkOK
<1>6. IsMap(extents) /\ (\A f \in extents : End(f) <= NumBlocks) /\ NumBlocks \in Nat
  BY <1>3, BlockNumbers DEF MapsOK, MapIn
<1>7. IsExtent(e) /\ End(e) <= NumBlocks /\ \A b \in Nat : Covers(e, b) <=> b \in run
  BY <1>1 DEF RunOfVolume
<1>8. IsMap(extents') /\ \A f \in extents' : End(f) <= NumBlocks
  BY <1>1, <1>6, <1>7, InsertIsMap, InsertBounded
<1>9. ASSUME NEW b \in Blocks
      PROVE  /\ b \in run => Installed(extents', mark.n, b)
             /\ b \notin run => /\ Mapped(extents', b) <=> Mapped(extents, b)
                                /\ Mapped(extents, b) => Location(extents', b) = Location(extents, b)
  <2>1. b \in Nat
    BY BlockNumbers
  <2>2. Covers(e, b) => Installed(Insert(extents, e), e, b)
    BY <1>6, <1>7, <2>1, InsertLocation
  <2>3. ~Covers(e, b) =>
           /\ Mapped(Insert(extents, e), b) <=> Mapped(extents, b)
           /\ Mapped(extents, b) => Location(Insert(extents, e), b) = Location(extents, b)
    BY <1>6, <1>7, <2>1, InsertLocation
  <2>4. b \in run => Installed(extents', mark.n, b)
    BY <1>1, <1>7, <2>1, <2>2 DEF Installed
  <2>5. QED BY <1>1, <1>7, <2>1, <2>3, <2>4
<1>10. ASSUME NEW b \in Blocks
       PROVE  /\ b \in run => ExtSeq(extents', b) = SeqNumAt(mark.n, b)
              /\ b \notin run => ExtSeq(extents', b) = ExtSeq(extents, b)
  <2>1. b \in Nat
    BY BlockNumbers
  <2>2. CASE b \in run
    <3>1. Mapped(extents', b) /\ Location(extents', b) = PlaceIn(mark.n, b)
      BY <1>9, <2>2 DEF Installed
    <3>2. ExtSeq(extents', b) = Location(extents', b).seq
      BY <1>8, <2>1, <3>1, LocationIs
    <3>3. QED BY <2>2, <3>1, <3>2 DEF PlaceIn
  <2>3. CASE b \notin run /\ Mapped(extents, b)
    <3>1. Mapped(extents', b) /\ Location(extents', b) = Location(extents, b)
      BY <1>9, <2>3
    <3>2. ExtSeq(extents', b) = Location(extents', b).seq
      BY <1>8, <2>1, <3>1, LocationIs
    <3>3. ExtSeq(extents, b) = Location(extents, b).seq
      BY <1>6, <2>1, <2>3, LocationIs
    <3>4. QED BY <2>3, <3>1, <3>2, <3>3
  <2>4. CASE b \notin run /\ ~Mapped(extents, b)
    <3>1. ~Mapped(extents', b)
      BY <1>9, <2>4
    <3>2. QED BY <2>4, <3>1 DEF ExtSeq
  <2>5. QED BY <2>2, <2>3, <2>4
<1>11. \A b \in run : b \in mark.ok /\ b \in DOMAIN shard /\ b \in Blocks
  BY <1>1, <1>5
<1>12. \A b \in Blocks : ExtSeq(extents, b) \in Nat
  BY <1>3, ExtNumbers
<1>13. ASSUME NEW b \in Blocks PROVE ExtSeq(extents, b) <= ExtSeq(extents', b)
  <2>1. CASE b \in run
    BY <1>5, <1>10, <1>11, <2>1
  <2>2. CASE b \notin run
    BY <1>10, <1>12, <2>2
  <2>3. QED BY <2>1, <2>2
<1>14. Grows(chunks, chunks') /\ done' \in [Blocks -> Nat] /\ Later(done, done')
  BY <1>2, <1>3, NoneNew, NoneLater
<1>15. MapsOK'
  BY <1>2, <1>3, <1>8 DEF MapsOK, MapIn
<1>16. Sealed'
  <2>1. ASSUME NEW b \in Blocks, Mapped(extents', b)
        PROVE  Holds(chunks, Location(extents', b), b)
    <3>1. CASE b \in run
      <4>1. Location(extents', b) = PlaceIn(mark.n, b)
        BY <1>9, <3>1 DEF Installed
      <4>2. Covers(mark.n, b)
        BY <1>4, <1>11, <3>1
      <4>3. QED BY <1>4, <4>1, <4>2
    <3>2. CASE b \notin run
      BY <1>3, <1>9, <2>1, <3>2 DEF Sealed
    <3>3. QED BY <3>1, <3>2
  <2>2. QED BY <1>2, <2>1 DEF Sealed
<1>17. JobsOK'
  BY <1>2, <1>3, <1>14, JobsKept
<1>18. Indexed'
  <2>1. ASSUME NEW b \in Blocks
        PROVE  /\ done[b] <= seqNum
               /\ b \in DOMAIN shard => /\ shard[b].seq = done[b] /\ done[b] > 0
                                        /\ ExtSeq(extents', b) <= done[b]
               /\ b \notin DOMAIN shard => ExtSeq(extents', b) = done[b]
    <3>1. /\ done[b] <= seqNum
          /\ b \in DOMAIN shard => /\ shard[b].seq = done[b] /\ done[b] > 0
                                   /\ ExtSeq(extents, b) <= done[b]
          /\ b \notin DOMAIN shard => ExtSeq(extents, b) = done[b]
      BY <1>3 DEF Indexed
    <3>2. CASE b \in run
      BY <1>4, <1>10, <1>11, <3>1, <3>2
    <3>3. CASE b \notin run
      BY <1>10, <3>1, <3>3
    <3>4. QED BY <3>2, <3>3
  <2>2. QED BY <1>2, <2>1 DEF Indexed
<1>19. WritersOK'
  <2>1. seqNum' \in Nat /\ seqNum <= seqNum'
    BY <1>2, <1>3 DEF Types
  <2>2. QED BY <1>2, <1>3, <2>1, WritersKept
<1>20. ReaderOK'
  BY <1>2, <1>3, <1>8, <1>13, <1>14, ReaderKept
<1>21. \A b \in mark.ok \ (mark.left \ run) : Installed(extents', mark.n, b)
  <2>1. ASSUME NEW b \in mark.ok \ (mark.left \ run) PROVE Installed(extents', mark.n, b)
    <3>1. b \in Blocks
      BY <1>4
    <3>2. CASE b \in run
      BY <1>9, <3>1, <3>2
    <3>3. CASE b \notin run
      <4>1. Installed(extents, mark.n, b)
        BY <1>5, <3>3
      <4>2. QED BY <1>9, <3>1, <3>3, <4>1 DEF Installed
    <3>4. QED BY <3>2, <3>3
  <2>2. QED BY <2>1
<1>22. \A b \in mark.ok : ExtSeq(extents', b) <= SeqNumAt(mark.n, b)
  <2>1. ASSUME NEW b \in mark.ok PROVE ExtSeq(extents', b) <= SeqNumAt(mark.n, b)
    <3>1. b \in Blocks /\ SeqNumAt(mark.n, b) \in Nat
      BY <1>4
    <3>2. QED BY <1>5, <1>10, <3>1
  <2>2. QED BY <2>1
<1>23. mark' \in Mark /\ MarkOK'
  <2>1. CASE mark.left \ run # {} /\ mark' = [mark EXCEPT !.left = mark.left \ run]
    <3>1. /\ mark' \in Mark /\ mark'.at = "extents" /\ mark'.n = mark.n
          /\ mark'.left = mark.left \ run /\ mark'.ok = mark.ok
      BY <1>1, <1>4, <2>1 DEF Mark
    <3>2. MarkOK'
      BY <1>2, <1>4, <1>5, <1>21, <1>22, <2>1, <3>1 DEF MarkOK
    <3>3. QED BY <3>1, <3>2
  <2>2. CASE /\ mark.left \ run = {}
             /\ mark' = [mark EXCEPT !.at = "remove", !.left = mark.ok]
    <3>1. /\ mark' \in Mark /\ mark'.at = "remove" /\ mark'.n = mark.n
          /\ mark'.left = mark.ok /\ mark'.ok = mark.ok
      BY <1>4, <2>2 DEF Mark
    <3>2. \A b \in mark.ok : Installed(extents', mark.n, b)
      BY <1>21, <2>2
    <3>3. mark.ok # {}
      BY <1>5
    <3>4. MarkOK'
      BY <1>2, <1>4, <1>5, <3>1, <3>2, <3>3 DEF MarkOK
    <3>5. QED BY <3>1, <3>4
  <2>3. QED BY <1>1, <2>1, <2>2
<1>24. Types'
  BY <1>2, <1>3, <1>23 DEF Types, Mark
<1>25. QED BY <1>15, <1>16, <1>17, <1>18, <1>19, <1>20, <1>23, <1>24 DEF IInv

-----------------------------------------------------------------------------
(* The theorems about the store.                                           *)

\* The map of a volume opened with every block in chunk 0, and its chunk.
FullExtent == [start |-> 0, obj |-> 0, off |-> 0, seqs |-> [i \in 1..NumBlocks |-> i]]
FullChunk == [b \in Blocks |-> b + 1]

\* The extent covers the volume, each block where the chunk has it.
LEMMA FullIs ==
    /\ RunOfVolume(FullExtent, Blocks) /\ FullChunk \in RecordMaps /\ FullExtent.obj = 0
    /\ \A b \in Blocks : /\ SeqNumAt(FullExtent, b) = b + 1
                         /\ OffsetAt(FullExtent, b) = Position(Blocks, b)
<1> DEFINE N == NumBlocks - 1
           q == [i \in 1..NumBlocks |-> i]
<1>1. /\ N \in Nat /\ N + 1 = NumBlocks /\ NumBlocks \in Nat /\ Blocks = 0..N
      /\ Blocks \subseteq Nat
  BY BlockNumbers
<1>2. q \in [1..NumBlocks -> Nat]
  BY <1>1
<1>3. FullExtent = [start |-> 0, obj |-> 0, off |-> 0, seqs |-> q]
  BY DEF FullExtent
<1>4. \A i \in 1..NumBlocks : q[i] = i
  OBVIOUS
<1> HIDE DEF q, N
<1>5. q \in Seq(Nat) /\ Len(q) = NumBlocks
  BY <1>1, <1>2, SequenceOf
<1>6. /\ FullExtent.start = 0 /\ FullExtent.obj = 0 /\ FullExtent.off = 0
      /\ FullExtent.seqs = q
  BY <1>3
<1>7. IsExtent(FullExtent)
  BY <1>1, <1>3, <1>5, <1>6 DEF IsExtent
<1>8. End(FullExtent) = NumBlocks
  BY <1>1, <1>5, <1>6 DEF End
<1>9. \A b \in Nat : Covers(FullExtent, b) <=> b \in Blocks
  BY <1>1, <1>6, <1>8 DEF Covers
<1>10. RunOfVolume(FullExtent, Blocks)
  <2>1. 0 \in Blocks
    BY <1>1
  <2>2. QED BY <1>1, <1>6, <1>7, <1>8, <1>9, <2>1 DEF RunOfVolume
<1>11. FullChunk \in RecordMaps
  <2>1. FullChunk \in [Blocks -> Nat]
    BY <1>1 DEF FullChunk
  <2>2. QED BY <2>1, MapsOf DEF RecordMaps
<1>12. ASSUME NEW b \in Blocks
       PROVE  SeqNumAt(FullExtent, b) = b + 1 /\ OffsetAt(FullExtent, b) = Position(Blocks, b)
  <2>1. b \in Nat /\ b <= N /\ (b - 0) + 1 = b + 1 /\ b + 1 \in 1..NumBlocks
    BY <1>1
  <2>2. SeqNumAt(FullExtent, b) = b + 1
    BY <1>4, <1>6, <2>1 DEF SeqNumAt
  <2>3. Position(Blocks, b) = Position(Blocks, 0) + (b - 0)
    <3>1. Blocks \in SUBSET (0..N) /\ \A x \in 0..b : x < b => x \in Blocks
      BY <1>1, <2>1
    <3> DEFINE a == 0
               D == Blocks
    <3>2. /\ a \in Nat /\ b \in Nat /\ a <= b /\ D \in SUBSET (0..N)
          /\ \A x \in a..b : x < b => x \in D
      BY <2>1, <3>1
    <3> HIDE DEF a, D
    <3>3. Cardinality({x \in D : x < b}) = Cardinality({x \in D : x < a}) + (b - a)
      BY <1>1, <3>2, BelowAdds
    <3>4. QED BY <3>3 DEF Position, a, D
  <2>4. Position(Blocks, 0) = 0
    <3>1. {x \in Blocks : x < 0} = {}
      BY <1>1
    <3>2. QED BY <3>1, FS_EmptySet DEF Position
  <2>5. OffsetAt(FullExtent, b) = b
    BY <1>6, <2>1 DEF OffsetAt
  <2>6. QED BY <2>1, <2>2, <2>3, <2>4, <2>5
<1>13. QED BY <1>6, <1>10, <1>11, <1>12

\* The maps of an opened volume: what holds of them in both cases.
Opened(m, c, o, d) ==
    /\ MapIn(m) /\ o \in Nat /\ DOMAIN c = 0..(o - 1) /\ \A x \in DOMAIN c : c[x] \in RecordMaps
    /\ \A b \in Blocks : /\ Mapped(m, b) => Holds(c, Location(m, b), b)
                         /\ ExtSeq(m, b) = d[b]
    /\ d \in [Blocks -> Nat] /\ \A b \in Blocks : d[b] <= NumBlocks

\* A volume opened empty.
LEMMA OpenedEmpty ==
    Opened({}, Nothing, 0, [b \in Blocks |-> 0])
<1> DEFINE d == [b \in Blocks |-> 0]
<1>1. IsMap({}) /\ \A b : ~Mapped({}, b)
  BY DEF IsMap, Apart, Mapped
<1>2. MapIn({})
  BY <1>1 DEF MapIn
<1>3. DOMAIN Nothing = 0..(0 - 1)
  BY NothingIs
<1>4. \A b \in Blocks : ExtSeq({}, b) = d[b] /\ d[b] <= NumBlocks
  BY <1>1, BlockNumbers DEF ExtSeq
<1>5. d \in [Blocks -> Nat] /\ \A x \in DOMAIN Nothing : Nothing[x] \in RecordMaps
  BY NothingIs
<1> HIDE DEF d
<1>6. Opened({}, Nothing, 0, d)
  BY <1>1, <1>2, <1>3, <1>4, <1>5 DEF Opened
<1>7. QED BY <1>6 DEF d

\* A volume opened with every block in chunk 0.
LEMMA OpenedFull ==
    Opened({FullExtent}, With(Nothing, 0, FullChunk), 1, FullChunk)
<1> DEFINE m == {FullExtent}
           c == With(Nothing, 0, FullChunk)
<1>1. /\ IsExtent(FullExtent) /\ End(FullExtent) <= NumBlocks /\ FullExtent.obj = 0
      /\ \A b \in Nat : Covers(FullExtent, b) <=> b \in Blocks
      /\ FullChunk \in RecordMaps
  BY FullIs DEF RunOfVolume
<1>2. IsMap(m) /\ MapIn(m)
  BY <1>1 DEF IsMap, Apart, MapIn
<1>3. c = [y \in {0} |-> FullChunk]
  <2>1. c = [y \in DOMAIN Nothing \cup {0} |-> IF y = 0 THEN FullChunk ELSE Nothing[y]]
    BY DEF With
  <2>2. DOMAIN Nothing \cup {0} = {0}
    BY NothingIs
  <2>3. c = [y \in {0} |-> IF y = 0 THEN FullChunk ELSE Nothing[y]]
    BY <2>1, <2>2
  <2> HIDE DEF c
  <2>4. DOMAIN c = {0} /\ c[0] = FullChunk
    BY <2>3
  <2>5. QED BY <2>3, <2>4
<1>4. DOMAIN c = {0} /\ c[0] = FullChunk
  BY <1>3
<1> HIDE DEF c
<1>5. {0} = 0..(1 - 1)
  OBVIOUS
<1>6. DOMAIN FullChunk = Blocks /\ \A b \in Blocks : FullChunk[b] = b + 1
  BY DEF FullChunk
<1>7. ASSUME NEW b \in Blocks
      PROVE  /\ Mapped(m, b) => Holds(c, Location(m, b), b)
             /\ ExtSeq(m, b) = FullChunk[b] /\ FullChunk[b] <= NumBlocks
  <2>1. b \in Nat /\ Covers(FullExtent, b) /\ b + 1 <= NumBlocks
    BY <1>1, BlockNumbers
  <2>2. Mapped(m, b) /\ Resolve(m, b) = FullExtent
    BY <1>2, <2>1, ResolveIs
  <2>3. Location(m, b) = PlaceIn(FullExtent, b) /\ ExtSeq(m, b) = Location(m, b).seq
    BY <1>2, <2>1, <2>2, LocationIs
  <2>4. SeqNumAt(FullExtent, b) = b + 1 /\ OffsetAt(FullExtent, b) = Position(Blocks, b)
    BY FullIs
  <2>5. Holds(c, PlaceIn(FullExtent, b), b)
    BY <1>1, <1>4, <1>6, <2>4 DEF Holds, PlaceIn
  <2>6. PlaceIn(FullExtent, b).seq = b + 1
    BY <2>4 DEF PlaceIn
  <2>7. QED BY <1>6, <2>1, <2>3, <2>5, <2>6
<1>8. FullChunk \in [Blocks -> Nat]
  BY BlockNumbers DEF FullChunk
<1>9. DOMAIN c = 0..(1 - 1) /\ \A x \in DOMAIN c : c[x] \in RecordMaps
  BY <1>1, <1>4, <1>5
<1> HIDE DEF m
<1>10. Opened(m, c, 1, FullChunk)
  BY <1>2, <1>7, <1>8, <1>9 DEF Opened
<1>11. QED BY <1>10 DEF m, c

\* Init is one of the two.
LEMMA InitIs ==
    ASSUME Init
    PROVE  /\ shard = Nothing /\ extents = lookup /\ seqNum = NumBlocks
           /\ writes = <<>> /\ flushing = FALSE /\ wal = Nothing /\ jobs = {} /\ mark = NoMark
           /\ writer = [b \in Blocks |-> NoWrite] /\ reader = NoRead
           /\ Opened(lookup, chunks, objNum, done)
<1>1. /\ shard = Nothing /\ seqNum = NumBlocks
      /\ writes = <<>> /\ flushing = FALSE /\ wal = Nothing /\ jobs = {} /\ mark = NoMark
      /\ writer = [b \in Blocks |-> NoWrite] /\ reader = NoRead
  BY DEF Init
<1>2. PICK n \in {0, NumBlocks} :
           /\ lookup = IF n = 0 THEN {}
                       ELSE {[start |-> 0, obj |-> 0, off |-> 0, seqs |-> [i \in 1..n |-> i]]}
           /\ extents = SetPersistedRange(lookup)
           /\ objNum = IF n = 0 THEN 0 ELSE 1
           /\ chunks = IF n = 0 THEN Nothing ELSE With(Nothing, 0, [b \in Blocks |-> b + 1])
           /\ done = [b \in Blocks |-> IF n = 0 THEN 0 ELSE b + 1]
  BY DEF Init
<1>3. extents = lookup
  BY <1>2 DEF SetPersistedRange
<1>4. CASE n = 0
  <2>1. lookup = {} /\ objNum = 0 /\ chunks = Nothing /\ done = [b \in Blocks |-> 0]
    BY <1>2, <1>4
  <2>2. QED BY <1>1, <1>3, <2>1, OpenedEmpty
<1>5. CASE n = NumBlocks /\ n # 0
  <2>1. /\ lookup = {FullExtent} /\ objNum = 1 /\ chunks = With(Nothing, 0, FullChunk)
        /\ done = FullChunk
    BY <1>2, <1>5 DEF FullExtent, FullChunk
  <2>2. QED BY <1>1, <1>3, <2>1, OpenedFull
<1>6. QED BY <1>2, <1>4, <1>5

\* The initial states.
LEMMA InitIInv == Init => IInv
<1> SUFFICES ASSUME Init PROVE IInv
  OBVIOUS
<1>1. /\ shard = Nothing /\ extents = lookup /\ seqNum = NumBlocks
      /\ writes = <<>> /\ flushing = FALSE /\ wal = Nothing /\ jobs = {} /\ mark = NoMark
      /\ writer = [b \in Blocks |-> NoWrite] /\ reader = NoRead
      /\ Opened(lookup, chunks, objNum, done)
  BY InitIs
<1>2. /\ MapIn(lookup) /\ objNum \in Nat /\ DOMAIN chunks = 0..(objNum - 1)
      /\ \A x \in DOMAIN chunks : chunks[x] \in RecordMaps
      /\ \A b \in Blocks : /\ Mapped(lookup, b) => Holds(chunks, Location(lookup, b), b)
                           /\ ExtSeq(lookup, b) = done[b]
      /\ done \in [Blocks -> Nat] /\ \A b \in Blocks : done[b] <= NumBlocks
  BY <1>1 DEF Opened
<1>3. Types
  <2>1. shard \in Maps(Entry) /\ wal \in RecordMaps /\ jobs \subseteq JobSet
    BY <1>1, NothingIs DEF RecordMaps
  <2>2. seqNum \in Nat /\ flushing \in BOOLEAN
    BY <1>1, BlockNumbers
  <2>3. writes \in Seq(Blocks \X Nat)
    BY <1>1
  <2>4. mark \in [at : {"idle", "sample", "extents", "remove"}, n : Run \cup {0},
                  left : SUBSET Blocks, ok : SUBSET Blocks]
    BY <1>1 DEF NoMark
  <2>5. writer \in [Blocks -> [at : {"idle", "extent", "reserve", "append", "publish"},
                               base : Nat, seq : Nat]]
    <3>1. NoWrite \in [at : {"idle", "extent", "reserve", "append", "publish"},
                       base : Nat, seq : Nat]
      BY DEF NoWrite
    <3>2. QED BY <1>1, <3>1
  <2>6. reader \in [at : {"idle", "shard", "extent", "fetch", "done"}, pos : Nat, last : Nat,
                    floor : RecordMaps, found : Maps(Place), got : Maps(Nat \X Nat)]
    <3>1. Nothing \in RecordMaps /\ Nothing \in Maps(Place) /\ Nothing \in Maps(Nat \X Nat)
      BY NothingIs DEF RecordMaps
    <3>2. QED BY <1>1, <3>1 DEF NoRead
  <2>7. QED BY <1>2, <2>1, <2>2, <2>3, <2>4, <2>5, <2>6 DEF Types
<1>4. MapsOK /\ Sealed
  BY <1>1, <1>2 DEF MapsOK, Sealed
<1>5. JobsOK
  BY <1>1 DEF JobsOK
<1>6. Indexed
  BY <1>1, <1>2, NothingIs DEF Indexed
<1>7. WritersOK
  BY <1>1 DEF WritersOK, NoWrite
<1>8. MarkOK /\ ReaderOK
  BY <1>1 DEF MarkOK, ReaderOK, NoMark, NoRead
<1>9. QED BY <1>3, <1>4, <1>5, <1>6, <1>7, <1>8 DEF IInv

\* Every step keeps the invariant.
LEMMA StepIInv == IInv /\ [Next]_vars => IInv'
<1> SUFFICES ASSUME IInv, [Next]_vars PROVE IInv'
  OBVIOUS
<1>1. CASE StartRead \/ ReadShard \/ ReadExtent \/ ReadFetch \/ ReadReturns
  BY <1>1, StartReadKeeps, ReadShardKeeps, ReadExtentKeeps, ReadFetchKeeps, ReadReturnsKeeps
<1>2. ASSUME NEW b \in Blocks, \/ WriteReadShard(b) \/ WriteReadExtent(b) \/ WriteReserve(b)
                               \/ WriteAppend(b) \/ WritePublish(b)
      PROVE  IInv'
  BY <1>2, WriteReadShardKeeps, WriteReadExtentKeeps, WriteReserveKeeps, WriteAppendKeeps,
     WritePublishKeeps
<1>3. CASE FlushRecord \/ StartDrain
  BY <1>3, FlushRecordKeeps, StartDrainKeeps
<1>4. ASSUME NEW j \in jobs, PutChunk(j) \/ StartRun(j) PROVE IInv'
  BY <1>4, PutChunkKeeps, StartRunKeeps
<1>5. ASSUME NEW b \in mark.left, Sample(b) \/ Remove(b) PROVE IInv'
  BY <1>5, SampleKeeps, RemoveKeeps
<1>6. CASE InstallExtent
  BY <1>6, InstallExtentKeeps
<1>7. CASE UNCHANGED vars
  <2>1. UNCHANGED <<storeVars, mapVars, drainVars, mark, writer, reader, done>>
    BY <1>7 DEF vars
  <2>2. reader' \in Reading /\ writer' \in [Blocks -> Write]
    BY <2>1 DEF IInv, Types, Reading, Write
  <2>3. QED BY <2>1, <2>2, StoreStill DEF IInv
<1>8. QED BY <1>1, <1>2, <1>3, <1>4, <1>5, <1>6, <1>7 DEF Next

\* The invariant says what the store promises.
LEMMA IInvImplies ==
    IInv => TypeOK /\ ReadsFresh /\ ReadsOpen /\ SpliceKeepsNewest
<1> SUFFICES ASSUME IInv PROVE TypeOK /\ ReadsFresh /\ ReadsOpen /\ SpliceKeepsNewest
  OBVIOUS
<1>1. Types /\ MapsOK /\ JobsOK /\ Indexed /\ WritersOK /\ MarkOK /\ ReaderOK
  BY DEF IInv
<1>2. SpliceKeepsNewest
  BY <1>1 DEF WritersOK, SpliceKeepsNewest
<1>3. ReadsOpen
  BY <1>1 DEF ReaderOK, ReadsOpen
<1>4. ReadsFresh
  <2> SUFFICES ASSUME reader.at = "done", NEW b \in DOMAIN reader.got
               PROVE  reader.got[b][1] = b /\ reader.got[b][2] >= reader.floor[b]
    BY DEF ReadsFresh
  <2>1. /\ DOMAIN reader.got = DOMAIN reader.found /\ DOMAIN reader.found = DOMAIN reader.floor
        /\ reader.got[b] = <<b, reader.found[b].seq>>
        /\ reader.floor[b] <= reader.found[b].seq
    BY <1>1 DEF ReaderOK
  <2>2. reader.found \in Maps(Place) /\ reader.floor \in RecordMaps
    BY <1>1 DEF Types
  <2>3. reader.found[b] \in Place /\ reader.floor[b] \in Nat
    BY <2>1, <2>2, MapsIs, RecordMapIs
  <2>4. reader.found[b].seq \in Nat
    BY <2>3 DEF Place
  <2>5. reader.got[b][1] = b /\ reader.got[b][2] = reader.found[b].seq
    BY <2>1
  <2>6. QED BY <2>1, <2>3, <2>4, <2>5
<1>5. TypeOK
  <2>1. ASSUME NEW b \in DOMAIN shard
        PROVE  /\ b \in Blocks /\ shard[b].seq \in 1..seqNum
               /\ shard[b].state \in {"hot", "pending"}
    <3>1. shard \in Maps(Entry) /\ seqNum \in Nat
      BY <1>1 DEF Types
    <3>2. DOMAIN shard \in SUBSET Blocks /\ shard[b] \in Entry
      BY <3>1, MapsIs
    <3>3. b \in Blocks /\ shard[b].seq \in Nat /\ shard[b].state \in {"hot", "pending"}
      BY <3>2 DEF Entry
    <3>4. shard[b].seq = done[b] /\ done[b] > 0 /\ done[b] <= seqNum
      BY <1>1, <3>3 DEF Indexed
    <3>5. QED BY <3>1, <3>3, <3>4
  <2>2. ASSUME NEW m, MapIn(m) PROVE m \subseteq Extent
    <3> SUFFICES ASSUME NEW e \in m PROVE e \in Extent
      OBVIOUS
    <3>1. IsExtent(e) /\ End(e) <= NumBlocks
      BY <2>2 DEF MapIn, IsMap
    <3>2. e \in [start : Nat, obj : Nat, off : Nat, seqs : Seq(Nat)]
      BY <3>1 DEF IsExtent
    <3>3. e.start \in Nat /\ End(e) \in Nat /\ e.start < End(e)
      BY <3>1, ExtentType
    <3>4. e.start \in Blocks
      BY <3>1, <3>3, BlockNumbers
    <3>5. QED BY <3>2, <3>4 DEF Extent
  <2>3. extents \subseteq Extent /\ lookup \subseteq Extent
    BY <1>1, <2>2 DEF MapsOK
  <2>4. DOMAIN wal \subseteq Blocks
    <3>1. wal \in RecordMaps
      BY <1>1 DEF Types
    <3>2. QED BY <3>1, RecordMapIs
  <2>5. \A j \in jobs : DOMAIN j.todo # {} /\ DOMAIN j.todo \subseteq DOMAIN j.chunk
    BY <1>1 DEF JobsOK, JobOK
  <2>6. mark.at # "idle" => \A b \in mark.left \cup mark.ok : Covers(mark.n, b)
    BY <1>1 DEF MarkOK
  <2>7. /\ objNum \in Nat /\ DOMAIN chunks = 0..(objNum - 1)
        /\ seqNum \in Nat /\ flushing \in BOOLEAN
        /\ mark.at \in {"idle", "sample", "extents", "remove"}
        /\ reader.at \in {"idle", "shard", "extent", "fetch", "done"}
        /\ done \in [Blocks -> Nat]
    BY <1>1 DEF Types
  <2>8. \A b \in Blocks : writer[b].at \in {"idle", "extent", "reserve", "append", "publish"}
    BY <1>1 DEF Types
  <2>9. QED BY <2>1, <2>3, <2>4, <2>5, <2>6, <2>7, <2>8 DEF TypeOK
<1>6. QED BY <1>2, <1>3, <1>4, <1>5

\* The store's invariant holds always.
LEMMA Invariance == Spec => []IInv
BY InitIInv, StepIInv, PTL DEF Spec

\* The store keeps its types; a job that is not finished has blocks left and
\* a mark in progress has blocks of its own run.
THEOREM StoreTypeCorrect == Spec => []TypeOK
BY Invariance, IInvImplies, PTL

\* Whatever the drain is doing, a read returns for every block a record at
\* least as new as the newest write that was complete when the read began
\* (ReadEntry beside MarkPersistedRange).
THEOREM ReadsAreFresh == Spec => []ReadsFresh
BY Invariance, IInvImplies, PTL

\* A read fetches the very record whose SeqNum the index gave it, also when
\* neighbouring blocks are fetched as one run
\* (fetchConsecutiveBlocksFromBackend).
THEOREM ReadsAreOpened == Spec => []ReadsOpen
BY Invariance, IInvImplies, PTL

\* A partial write splices onto the newest published record of its block
\* (writeOneBlockLocked).
THEOREM SplicesKeepNewest == Spec => []SpliceKeepsNewest
BY Invariance, IInvImplies, PTL

-----------------------------------------------------------------------------
(* The two indexes.                                                        *)

\* The records of the jobs, now, are records of the jobs before.
FromJobs(J, K) ==
    \A k \in K : \E j \in J : /\ DOMAIN k.todo \subseteq DOMAIN j.todo
                              /\ \A b \in DOMAIN k.todo : k.todo[b] = j.todo[b]

\* Runs taken from the jobs change no order.
LEMMA FewerWait ==
    ASSUME InOrder, UNCHANGED <<writes, wal>>, FromJobs(jobs, jobs')
    PROVE  InOrder' /\ \A b, s : Waits(b, s)' => Waits(b, s)
<1>1. ASSUME NEW b, NEW s, Waits(b, s)' PROVE Waits(b, s)
  <2>1. CASE \E k \in jobs' : b \in DOMAIN k.todo /\ s = k.todo[b]
    BY <2>1 DEF FromJobs, Waits
  <2>2. QED BY <1>1, <2>1 DEF Waits
<1>2. ASSUME NEW k \in jobs', NEW b \in DOMAIN k.todo
      PROVE  /\ b \in DOMAIN wal => k.todo[b] < wal[b]
             /\ \A i \in DOMAIN writes : writes[i][1] = b => k.todo[b] < writes[i][2]
  <2>1. PICK j \in jobs : b \in DOMAIN j.todo /\ k.todo[b] = j.todo[b]
    BY <1>2 DEF FromJobs
  <2>2. QED BY <2>1 DEF InOrder
<1>3. InOrder'
  BY <1>2 DEF InOrder
<1>4. QED BY <1>1, <1>3

\* The jobs as they are.
LEMMA SameJobs == FromJobs(jobs, jobs)
BY DEF FromJobs

\* A mark goes on or ends.
MarkGoesOn == mark' = mark \/ mark'.at = "idle" \/ (mark.at # "idle" /\ mark'.n = mark.n)

\* A step that leaves map and newest records alone, and the extents and the
\* entries but for blocks that stay in agreement.
LEMMA OrderKept ==
    ASSUME OInv, UNCHANGED <<writes, wal, lookup, done>>, FromJobs(jobs, jobs'), MarkGoesOn,
           \A b \in Blocks : \/ writer'[b] = writer[b]
                             \/ writer[b].at # "publish" /\ writer'[b].at # "publish",
           \A b \in Blocks : b \in DOMAIN shard /\ b \notin DOMAIN shard' =>
               \A s \in Nat : Waits(b, s) => done[b] < s,
           Agreed'
    PROVE  OInv'
<1>1. InOrder /\ Waiting /\ MarkMapped
  BY DEF OInv
<1>2. InOrder' /\ \A b, s : Waits(b, s)' => Waits(b, s)
  BY <1>1, FewerWait
<1>3. ASSUME NEW b \in Blocks, NEW s, Known(b, s) PROVE Known(b, s)'
  BY <1>3 DEF Known
<1>4. Waiting'
  <2> SUFFICES ASSUME NEW b \in Blocks, NEW s \in Nat, Waits(b, s)'
               PROVE  /\ Known(b, s)'
                      /\ b \notin DOMAIN shard' => done'[b] < s
                      /\ mark'.at # "idle" /\ Covers(mark'.n, b) => SeqNumAt(mark'.n, b) < s
    BY DEF Waiting
  <2>1. Waits(b, s)
    BY <1>2
  <2>2. /\ Known(b, s) /\ (b \notin DOMAIN shard => done[b] < s)
        /\ mark.at # "idle" /\ Covers(mark.n, b) => SeqNumAt(mark.n, b) < s
    BY <1>1, <2>1 DEF Waiting
  <2>3. Known(b, s)'
    BY <1>3, <2>2
  <2>4. b \notin DOMAIN shard' => done'[b] < s
    BY <2>1, <2>2
  <2>5. mark'.at # "idle" /\ Covers(mark'.n, b) => SeqNumAt(mark'.n, b) < s
    BY <2>2 DEF MarkGoesOn
  <2>6. QED BY <2>3, <2>4, <2>5
<1>5. MarkMapped'
  <2> SUFFICES ASSUME mark'.at # "idle", NEW b \in Blocks, Covers(mark'.n, b)
               PROVE  Installed(lookup', mark'.n, b) /\ Known(b, SeqNumAt(mark.n, b))'
    BY DEF MarkMapped
  <2>1. mark.at # "idle" /\ mark'.n = mark.n
    BY DEF MarkGoesOn
  <2>2. PICK s : s = SeqNumAt(mark.n, b)
    OBVIOUS
  <2>3. Installed(lookup, mark.n, b) /\ Known(b, s)
    BY <1>1, <2>1, <2>2 DEF MarkMapped
  <2>4. Known(b, s)'
    BY <1>3, <2>3
  <2>5. SeqNumAt(mark'.n, b) = s
    BY <2>1, <2>2
  <2>6. Known(b, SeqNumAt(mark.n, b))'
    BY <2>4, <2>5 DEF Known
  <2>7. QED BY <2>1, <2>3, <2>6
<1>6. QED BY <1>2, <1>4, <1>5 DEF OInv

\* Map, extents and entries as they are.
LEMMA AgreedKept ==
    ASSUME Agreed, UNCHANGED <<shard, extents, lookup>>,
           \A b \in Blocks : \/ writer'[b] = writer[b]
                             \/ writer[b].at # "publish" /\ writer'[b].at # "publish"
    PROVE  Agreed'
BY DEF Agreed

\* Steps of reads and writes that neither append nor publish.
LEMMA QuietKeepsOrder ==
    ASSUME OInv, UNCHANGED <<shard, extents, lookup, writes, wal, jobs, mark, done>>,
           \A b \in Blocks : \/ writer'[b] = writer[b]
                             \/ writer[b].at # "publish" /\ writer'[b].at # "publish"
    PROVE  OInv'
<1>1. Agreed'
  BY AgreedKept DEF OInv
<1>2. FromJobs(jobs, jobs') /\ MarkGoesOn
  BY SameJobs DEF MarkGoesOn
<1>3. QED BY <1>1, <1>2, OrderKept

\* Reads.
LEMMA ReadsKeepOrder ==
    ASSUME OInv, StartRead \/ ReadShard \/ ReadExtent \/ ReadFetch \/ ReadReturns
    PROVE  OInv'
<1>1. UNCHANGED <<storeVars, mapVars, drainVars, mark, writer, done>>
  BY DEF StartRead, ReadShard, ReadExtent, ReadFetch, ReadReturns
<1>2. UNCHANGED <<shard, extents, lookup, writes, wal, jobs, mark, done, writer>>
  BY <1>1 DEF storeVars, mapVars, drainVars
<1>3. QED BY <1>2, QuietKeepsOrder

\* Writes up to their reservation.
LEMMA WritesKeepOrder ==
    ASSUME IInv, OInv, NEW b \in Blocks,
           WriteReadShard(b) \/ WriteReadExtent(b) \/ WriteReserve(b)
    PROVE  OInv'
<1>1. writer \in [Blocks -> Write]
  BY DEF IInv, Types, Write
<1>2. UNCHANGED <<shard, extents, lookup, writes, wal, jobs, mark, done>>
  BY DEF WriteReadShard, WriteReadExtent, WriteReserve, storeVars, mapVars, drainVars
<1>3. \E w \in Write : WriterStep(b, w) /\ writer[b].at # "publish" /\ w.at # "publish"
  <2>1. CASE WriteReadShard(b)
    <3> DEFINE w == IF b \in DOMAIN shard
                    THEN [NoWrite EXCEPT !.at = "reserve", !.base = shard[b].seq]
                    ELSE [NoWrite EXCEPT !.at = "extent"]
    <3>1. writer[b].at = "idle" /\ WriterStep(b, w)
      BY <2>1 DEF WriteReadShard, At
    <3>2. b \in DOMAIN shard => shard[b].seq \in Nat
      <4>1. shard \in Maps(Entry)
        BY DEF IInv, Types
      <4>2. b \in DOMAIN shard => shard[b] \in Entry
        BY <4>1, MapsIs
      <4>3. QED BY <4>2 DEF Entry
    <3>3. w \in Write /\ w.at # "publish"
      BY <3>2 DEF NoWrite, Write
    <3> HIDE DEF w
    <3>4. QED BY <3>1, <3>3
  <2>2. CASE WriteReadExtent(b)
    <3> DEFINE s == Fetch([x \in {b} |-> ReadPersisted(x)])[b][2]
               w == [NoWrite EXCEPT !.at = "reserve", !.base = s]
    <3>1. writer[b].at = "extent" /\ WriterStep(b, w)
      BY <2>2 DEF WriteReadExtent, At
    <3> HIDE DEF s
    <3>2. w.at = "reserve" /\ writer'[b] = w
      BY <1>1, <3>1 DEF WriterStep, NoWrite
    <3>3. writer' \in [Blocks -> Write]
      BY <2>2, WriteReadExtentKeeps DEF IInv, Types, Write
    <3> HIDE DEF w
    <3>4. w \in Write
      BY <3>2, <3>3
    <3>5. QED BY <3>1, <3>2, <3>4
  <2>3. CASE WriteReserve(b)
    <3> DEFINE w == [writer[b] EXCEPT !.at = "append", !.seq = seqNum + 1]
    <3>1. writer[b].at = "reserve" /\ WriterStep(b, w) /\ seqNum \in Nat
      BY <2>3 DEF WriteReserve, At, IInv, Types
    <3>2. writer[b] \in Write /\ seqNum + 1 \in Nat
      BY <1>1, <3>1
    <3>3. w \in Write /\ w.at = "append"
      BY <3>2 DEF Write
    <3> HIDE DEF w
    <3>4. QED BY <3>1, <3>3
  <2>4. QED BY <2>1, <2>2, <2>3
<1>4. \A c \in Blocks : \/ writer'[c] = writer[c]
                        \/ writer[c].at # "publish" /\ writer'[c].at # "publish"
  BY <1>1, <1>3 DEF WriterStep
<1>5. QED BY <1>2, <1>4, QuietKeepsOrder

\* A write appends its record: it is newer than every record of its block.
LEMMA WriteAppendKeepsOrder ==
    ASSUME IInv, OInv, NEW b \in Blocks, WriteAppend(b)
    PROVE  OInv'
<1>1. PICK s : s = writer[b].seq
  OBVIOUS
<1>2. /\ writer[b].at = "append" /\ writer' = [writer EXCEPT ![b] = [writer[b] EXCEPT !.at = "publish"]]
      /\ writes' = Append(writes, <<b, s>>)
      /\ UNCHANGED <<shard, extents, lookup, wal, jobs, mark, done>>
  BY <1>1 DEF WriteAppend, At, WriterStep, storeVars, mapVars
<1>3. /\ writer \in [Blocks -> Write] /\ s \in Nat /\ done[b] < s /\ done \in [Blocks -> Nat]
      /\ writes \in Seq(Blocks \X Nat)
  BY <1>1, <1>2 DEF IInv, Types, Write, WritersOK
<1>4. /\ writer'[b].at = "publish" /\ writer'[b].seq = s
      /\ \A c \in Blocks : c # b => writer'[c] = writer[c]
  <2>1. writer[b] \in Write
    BY <1>3
  <2>2. QED BY <1>1, <1>2, <1>3, <2>1 DEF Write
<1>5. InOrder /\ Waiting /\ MarkMapped /\ Agreed
  BY DEF OInv
<1> DEFINE l == Len(writes)
<1>6. /\ l \in Nat /\ DOMAIN writes = 1..l /\ DOMAIN writes' = 1..(l + 1)
      /\ writes'[l + 1] = <<b, s>> /\ \A i \in 1..l : writes'[i] = writes[i]
  BY <1>2, <1>3
<1> HIDE DEF l
<1>7. \A i \in 1..l : /\ writes[i] \in Blocks \X Nat
                      /\ writes[i] = <<writes[i][1], writes[i][2]>>
                      /\ writes[i][1] \in Blocks /\ writes[i][2] \in Nat
  BY <1>3, <1>6
<1>8. ASSUME NEW t \in Nat, Waits(b, t) PROVE t < s
  <2>1. t <= done[b]
    BY <1>2, <1>5, <1>8 DEF Waiting, Known
  <2>2. done[b] \in Nat
    BY <1>3
  <2>3. QED BY <1>3, <2>1, <2>2
<1>9. ASSUME NEW c \in Blocks, NEW t \in Nat, Waits(c, t)'
      PROVE  Waits(c, t) \/ (c = b /\ t = s)
  <2>1. CASE \E i \in DOMAIN writes' : writes'[i] = <<c, t>>
    <3>1. PICK i \in 1..(l + 1) : writes'[i] = <<c, t>>
      BY <1>6, <2>1
    <3>2. CASE i = l + 1
      BY <1>6, <3>1, <3>2
    <3>3. CASE i \in 1..l
      BY <1>6, <3>1, <3>3 DEF Waits
    <3>4. QED BY <1>6, <3>2, <3>3
  <2>2. CASE ~\E i \in DOMAIN writes' : writes'[i] = <<c, t>>
    BY <1>2, <1>9, <2>2 DEF Waits
  <2>3. QED BY <2>1, <2>2
<1>10. ASSUME NEW c \in Blocks, NEW t, Known(c, t) PROVE Known(c, t)'
  BY <1>2, <1>4, <1>10 DEF Known
<1>11. InOrder'
  <2>1. ASSUME NEW j \in jobs, NEW c \in DOMAIN j.todo
        PROVE  /\ c \in DOMAIN wal => j.todo[c] < wal[c]
               /\ \A i \in DOMAIN writes' : writes'[i][1] = c => j.todo[c] < writes'[i][2]
    <3>1. /\ c \in DOMAIN wal => j.todo[c] < wal[c]
          /\ \A i \in DOMAIN writes : writes[i][1] = c => j.todo[c] < writes[i][2]
      BY <1>5, <2>1 DEF InOrder
    <3>2. j.todo[c] \in Nat /\ Waits(c, j.todo[c])
      BY <2>1, JobIs, RecordMapIs DEF Waits
    <3>3. ASSUME NEW i \in DOMAIN writes', writes'[i][1] = c PROVE j.todo[c] < writes'[i][2]
      <4>1. CASE i = l + 1
        BY <1>6, <1>8, <3>2, <3>3, <4>1
      <4>2. CASE i \in 1..l
        BY <1>6, <3>1, <3>3, <4>2
      <4>3. QED BY <1>6, <4>1, <4>2
    <3>4. QED BY <3>1, <3>3
  <2>2. ASSUME NEW i \in DOMAIN writes'
        PROVE  /\ writes'[i][1] \in DOMAIN wal => wal[writes'[i][1]] < writes'[i][2]
               /\ \A k \in DOMAIN writes' :
                     i < k /\ writes'[i][1] = writes'[k][1] => writes'[i][2] < writes'[k][2]
    <3>1. CASE i = l + 1
      <4>1. b \in DOMAIN wal => wal[b] < s
        <5>1. wal \in RecordMaps
          BY DEF IInv, Types
        <5>2. b \in DOMAIN wal => wal[b] \in Nat /\ Waits(b, wal[b])
          BY <5>1, RecordMapIs DEF Waits
        <5>3. QED BY <1>8, <5>2
      <4>2. \A k \in DOMAIN writes' : ~(i < k)
        BY <1>6, <3>1
      <4>3. QED BY <1>6, <3>1, <4>1, <4>2
    <3>2. CASE i \in 1..l
      <4>1. /\ writes[i][1] \in DOMAIN wal => wal[writes[i][1]] < writes[i][2]
            /\ \A k \in DOMAIN writes :
                  i < k /\ writes[i][1] = writes[k][1] => writes[i][2] < writes[k][2]
        BY <1>5, <1>6, <3>2 DEF InOrder
      <4>2. ASSUME NEW k \in DOMAIN writes', i < k, writes'[i][1] = writes'[k][1]
            PROVE  writes'[i][2] < writes'[k][2]
        <5>1. CASE k = l + 1
          <6>1. writes[i] = <<b, writes[i][2]>> /\ writes[i][2] \in Nat
            BY <1>6, <1>7, <3>2, <4>2, <5>1
          <6>2. Waits(b, writes[i][2])
            BY <1>6, <3>2, <6>1 DEF Waits
          <6>3. QED BY <1>6, <1>8, <3>2, <5>1, <6>1, <6>2
        <5>2. CASE k \in 1..l
          BY <1>6, <3>2, <4>1, <4>2, <5>2
        <5>3. QED BY <1>6, <5>1, <5>2
      <4>3. QED BY <1>6, <3>2, <4>1, <4>2
    <3>3. QED BY <1>6, <2>2, <3>1, <3>2
  <2>3. QED BY <1>2, <2>1, <2>2 DEF InOrder
<1>12. mark.at # "idle" /\ Covers(mark.n, b) => SeqNumAt(mark.n, b) < s
  <2> SUFFICES ASSUME mark.at # "idle", Covers(mark.n, b) PROVE SeqNumAt(mark.n, b) < s
    OBVIOUS
  <2>1. Known(b, SeqNumAt(mark.n, b))
    BY <1>5 DEF MarkMapped
  <2>2. SeqNumAt(mark.n, b) <= done[b]
    BY <1>2, <2>1 DEF Known
  <2>3. IsExtent(mark.n) /\ b \in Nat
    BY MarkFacts, BlockNumbers
  <2>4. SeqNumAt(mark.n, b) \in Nat /\ done[b] \in Nat
    BY <1>3, <2>3, ExtentType
  <2>5. QED BY <1>3, <2>2, <2>4
<1>13. Waiting'
  <2> SUFFICES ASSUME NEW c \in Blocks, NEW t \in Nat, Waits(c, t)'
               PROVE  /\ Known(c, t)'
                      /\ c \notin DOMAIN shard' => done'[c] < t
                      /\ mark'.at # "idle" /\ Covers(mark'.n, c) => SeqNumAt(mark'.n, c) < t
    BY DEF Waiting
  <2>1. CASE Waits(c, t)
    <3>1. /\ Known(c, t) /\ (c \notin DOMAIN shard => done[c] < t)
          /\ mark.at # "idle" /\ Covers(mark.n, c) => SeqNumAt(mark.n, c) < t
      BY <1>5, <2>1 DEF Waiting
    <3>2. QED BY <1>2, <1>10, <3>1
  <2>2. CASE c = b /\ t = s
    <3>1. Known(b, s)'
      BY <1>4 DEF Known
    <3>2. QED BY <1>2, <1>3, <1>12, <2>2, <3>1
  <2>3. QED BY <1>9, <2>1, <2>2
<1>14. MarkMapped'
  <2> SUFFICES ASSUME mark.at # "idle", NEW c \in Blocks, Covers(mark.n, c)
               PROVE  Installed(lookup, mark.n, c) /\ Known(c, SeqNumAt(mark.n, c))'
    BY <1>2 DEF MarkMapped
  <2>1. PICK t : t = SeqNumAt(mark.n, c)
    OBVIOUS
  <2>2. Installed(lookup, mark.n, c) /\ Known(c, t)
    BY <1>5, <2>1 DEF MarkMapped
  <2>3. Known(c, t)' /\ SeqNumAt(mark'.n, c) = t
    BY <1>2, <1>10, <2>1, <2>2
  <2>4. QED BY <2>2, <2>3 DEF Known
<1>15. Agreed'
  <2>1. ASSUME NEW c \in Blocks \ DOMAIN shard, writer'[c].at # "publish"
        PROVE  /\ Mapped(extents, c) <=> Mapped(lookup, c)
               /\ Mapped(extents, c) => Location(extents, c) = Location(lookup, c)
    <3>1. c # b /\ writer'[c] = writer[c]
      BY <1>4, <2>1
    <3>2. QED BY <1>5, <2>1, <3>1 DEF Agreed
  <2>2. QED BY <1>2, <2>1 DEF Agreed
<1>16. QED BY <1>11, <1>13, <1>14, <1>15 DEF OInv

\* A write publishes its entry.
LEMMA WritePublishKeepsOrder ==
    ASSUME IInv, OInv, NEW b \in Blocks, WritePublish(b)
    PROVE  OInv'
<1>1. PICK s : s = writer[b].seq
  OBVIOUS
<1> DEFINE x == [state |-> "hot", seq |-> s]
<1>2. /\ writer[b].at = "publish" /\ s \in Nat /\ done[b] < s
      /\ shard' = With(shard, b, x)
      /\ done' = [done EXCEPT ![b] = s] /\ writer' = [writer EXCEPT ![b] = NoWrite]
      /\ UNCHANGED <<extents, mapVars, drainVars, mark, reader>>
  BY <1>1, WritePublishIs
<1> HIDE DEF x
<1>3. UNCHANGED <<extents, lookup, writes, wal, jobs, mark>>
  BY <1>2 DEF mapVars, drainVars
<1>4. DOMAIN shard' = DOMAIN shard \cup {b}
  BY <1>2 DEF With
<1>5. /\ done \in [Blocks -> Nat] /\ done'[b] = s
      /\ \A c \in Blocks : c # b => done'[c] = done[c] /\ writer'[c] = writer[c]
  BY <1>2 DEF IInv, Types
<1>6. InOrder /\ Waiting /\ MarkMapped /\ Agreed
  BY DEF OInv
<1>7. InOrder'
  BY <1>3, <1>6 DEF InOrder
<1>8. ASSUME NEW c \in Blocks, NEW t \in Nat, Known(c, t) PROVE Known(c, t)'
  <2>1. CASE c = b
    <3>1. t <= done[b] \/ t = s
      BY <1>1, <1>8, <2>1 DEF Known
    <3>2. t <= s
      BY <1>2, <1>5, <3>1
    <3>3. QED BY <1>5, <2>1, <3>2 DEF Known
  <2>2. CASE c # b
    BY <1>5, <1>8, <2>2 DEF Known
  <2>3. QED BY <2>1, <2>2
<1>9. Waiting'
  <2> SUFFICES ASSUME NEW c \in Blocks, NEW t \in Nat, Waits(c, t)'
               PROVE  /\ Known(c, t)'
                      /\ c \notin DOMAIN shard' => done'[c] < t
                      /\ mark'.at # "idle" /\ Covers(mark'.n, c) => SeqNumAt(mark'.n, c) < t
    BY DEF Waiting
  <2>1. Waits(c, t)
    BY <1>3 DEF Waits
  <2>2. /\ Known(c, t) /\ (c \notin DOMAIN shard => done[c] < t)
        /\ mark.at # "idle" /\ Covers(mark.n, c) => SeqNumAt(mark.n, c) < t
    BY <1>6, <2>1 DEF Waiting
  <2>3. c \notin DOMAIN shard' => c # b /\ c \notin DOMAIN shard
    BY <1>4
  <2>4. QED BY <1>3, <1>5, <1>8, <2>2, <2>3
<1>10. MarkMapped'
  <2> SUFFICES ASSUME mark.at # "idle", NEW c \in Blocks, Covers(mark.n, c)
               PROVE  Installed(lookup, mark.n, c) /\ Known(c, SeqNumAt(mark.n, c))'
    BY <1>3 DEF MarkMapped
  <2>1. PICK t : t = SeqNumAt(mark.n, c)
    OBVIOUS
  <2>2. Installed(lookup, mark.n, c) /\ Known(c, t)
    BY <1>6, <2>1 DEF MarkMapped
  <2>3. IsExtent(mark.n) /\ c \in Nat
    BY MarkFacts, BlockNumbers
  <2>4. t \in Nat
    BY <2>1, <2>3, ExtentType
  <2>5. Known(c, t)' /\ SeqNumAt(mark'.n, c) = t
    BY <1>3, <1>8, <2>1, <2>2, <2>4
  <2>6. QED BY <2>2, <2>5 DEF Known
<1>11. Agreed'
  <2>1. ASSUME NEW c \in Blocks \ DOMAIN shard', writer'[c].at # "publish"
        PROVE  /\ Mapped(extents, c) <=> Mapped(lookup, c)
               /\ Mapped(extents, c) => Location(extents, c) = Location(lookup, c)
    <3>1. c # b /\ c \notin DOMAIN shard /\ writer'[c] = writer[c]
      BY <1>4, <1>5, <2>1
    <3>2. QED BY <1>6, <2>1, <3>1 DEF Agreed
  <2>2. QED BY <1>3, <2>1 DEF Agreed
<1>12. QED BY <1>7, <1>9, <1>10, <1>11 DEF OInv

\* A record is flushed: the segment's record of its block is older.
LEMMA FlushRecordKeepsOrder ==
    ASSUME IInv, OInv, FlushRecord
    PROVE  OInv'
<1>1. PICK b \in Blocks, s \in Nat :
         /\ writes # <<>> /\ writes[1] = <<b, s>> /\ Head(writes) = writes[1]
         /\ wal' = IF b \in DOMAIN wal /\ wal[b] >= s THEN wal ELSE With(wal, b, s)
         /\ shard' = IF b \in DOMAIN shard THEN [shard EXCEPT ![b].state = "pending"] ELSE shard
         /\ writes' = Tail(writes) /\ flushing' \in BOOLEAN
         /\ UNCHANGED <<extents, mapVars, seqNum, jobs, mark, writer, reader, done>>
  BY FlushRecordIs
<1>2. UNCHANGED <<extents, lookup, jobs, mark, writer, done>>
  BY <1>1 DEF mapVars
<1>3. InOrder /\ Waiting /\ MarkMapped /\ Agreed
  BY DEF OInv
<1>4. DOMAIN shard' = DOMAIN shard
  <2>1. shard \in Maps(Entry)
    BY DEF IInv, Types
  <2>2. QED BY <1>1, <2>1, PendingIs
<1>5. writes \in Seq(Blocks \X Nat) /\ wal \in RecordMaps
  BY DEF IInv, Types
<1> DEFINE l == Len(writes) - 1
<1>6. /\ l \in Nat /\ DOMAIN writes = 1..(l + 1) /\ DOMAIN writes' = 1..l
      /\ \A i \in 1..l : i + 1 \in 1..(l + 1) /\ writes'[i] = writes[i + 1]
  BY <1>1, <1>5
<1> HIDE DEF l
<1>7. 1 \in DOMAIN writes /\ writes[1][1] = b /\ writes[1][2] = s
  BY <1>1, <1>6
<1>8. b \in DOMAIN wal => wal[b] < s
  BY <1>3, <1>7 DEF InOrder
<1>9. b \in DOMAIN wal => wal[b] \in Nat
  BY <1>5, RecordMapIs
<1>10. wal' = With(wal, b, s)
  BY <1>1, <1>8, <1>9
<1>11. wal' = [y \in DOMAIN wal \cup {b} |-> IF y = b THEN s ELSE wal[y]]
  BY <1>10 DEF With
<1>12. /\ DOMAIN wal' = DOMAIN wal \cup {b} /\ wal'[b] = s
       /\ \A c \in DOMAIN wal : c # b => wal'[c] = wal[c]
  BY <1>11
<1>13. ASSUME NEW c, NEW t, Waits(c, t)' PROVE Waits(c, t)
  <2>1. CASE \E i \in DOMAIN writes' : writes'[i] = <<c, t>>
    <3>1. PICK i \in 1..l : writes'[i] = <<c, t>>
      BY <1>6, <2>1
    <3>2. i + 1 \in DOMAIN writes /\ writes[i + 1] = <<c, t>>
      BY <1>6, <3>1
    <3>3. QED BY <3>2 DEF Waits
  <2>2. CASE c \in DOMAIN wal' /\ t = wal'[c]
    <3>1. CASE c = b
      <4>1. 1 \in DOMAIN writes /\ writes[1] = <<c, t>>
        BY <1>1, <1>7, <1>12, <2>2, <3>1
      <4>2. QED BY <4>1 DEF Waits
    <3>2. CASE c # b
      BY <1>12, <2>2, <3>2 DEF Waits
    <3>3. QED BY <3>1, <3>2
  <2>3. CASE \E j \in jobs : c \in DOMAIN j.todo /\ t = j.todo[c]
    BY <2>3 DEF Waits
  <2>4. QED BY <1>2, <1>13, <2>1, <2>2, <2>3 DEF Waits
<1>14. InOrder'
  <2>1. ASSUME NEW j \in jobs, NEW c \in DOMAIN j.todo
        PROVE  /\ c \in DOMAIN wal' => j.todo[c] < wal'[c]
               /\ \A i \in DOMAIN writes' : writes'[i][1] = c => j.todo[c] < writes'[i][2]
    <3>1. /\ c \in DOMAIN wal => j.todo[c] < wal[c]
          /\ \A i \in DOMAIN writes : writes[i][1] = c => j.todo[c] < writes[i][2]
      BY <1>3, <2>1 DEF InOrder
    <3>2. c \in DOMAIN wal' => j.todo[c] < wal'[c]
      <4>1. CASE c = b
        BY <1>7, <1>12, <3>1, <4>1
      <4>2. CASE c # b
        BY <1>12, <3>1, <4>2
      <4>3. QED BY <4>1, <4>2
    <3>3. QED BY <1>6, <3>1, <3>2
  <2>2. ASSUME NEW i \in DOMAIN writes'
        PROVE  /\ writes'[i][1] \in DOMAIN wal' => wal'[writes'[i][1]] < writes'[i][2]
               /\ \A k \in DOMAIN writes' :
                     i < k /\ writes'[i][1] = writes'[k][1] => writes'[i][2] < writes'[k][2]
    <3>1. i \in 1..l /\ i + 1 \in DOMAIN writes /\ writes'[i] = writes[i + 1] /\ 1 < i + 1
      BY <1>6, <2>2
    <3>2. /\ writes[i + 1][1] \in DOMAIN wal => wal[writes[i + 1][1]] < writes[i + 1][2]
          /\ \A k \in DOMAIN writes : i + 1 < k /\ writes[i + 1][1] = writes[k][1]
                                      => writes[i + 1][2] < writes[k][2]
      BY <1>3, <3>1 DEF InOrder
    <3>3. writes[i + 1][1] = b => s < writes[i + 1][2]
      BY <1>3, <1>7, <3>1 DEF InOrder
    <3>4. writes'[i][1] \in DOMAIN wal' => wal'[writes'[i][1]] < writes'[i][2]
      BY <1>12, <3>1, <3>2, <3>3
    <3>5. ASSUME NEW k \in DOMAIN writes', i < k, writes'[i][1] = writes'[k][1]
          PROVE  writes'[i][2] < writes'[k][2]
      <4>1. k \in 1..l /\ k + 1 \in DOMAIN writes /\ writes'[k] = writes[k + 1]
        BY <1>6, <3>5
      <4>2. i + 1 < k + 1
        BY <3>1, <3>5, <4>1
      <4>3. QED BY <3>1, <3>2, <3>5, <4>1, <4>2
    <3>6. QED BY <3>4, <3>5
  <2>3. QED BY <1>2, <2>1, <2>2 DEF InOrder
<1>15. Waiting'
  <2> SUFFICES ASSUME NEW c \in Blocks, NEW t \in Nat, Waits(c, t)'
               PROVE  /\ Known(c, t)'
                      /\ c \notin DOMAIN shard' => done'[c] < t
                      /\ mark'.at # "idle" /\ Covers(mark'.n, c) => SeqNumAt(mark'.n, c) < t
    BY DEF Waiting
  <2>1. Waits(c, t)
    BY <1>13
  <2>2. /\ Known(c, t) /\ (c \notin DOMAIN shard => done[c] < t)
        /\ mark.at # "idle" /\ Covers(mark.n, c) => SeqNumAt(mark.n, c) < t
    BY <1>3, <2>1 DEF Waiting
  <2>3. QED BY <1>2, <1>4, <2>2 DEF Known
<1>16. MarkMapped'
  BY <1>2, <1>3 DEF MarkMapped, Known
<1>17. Agreed'
  BY <1>2, <1>3, <1>4 DEF Agreed
<1>18. QED BY <1>14, <1>15, <1>16, <1>17 DEF OInv

\* The segment becomes the jobs of a drain.
LEMMA StartDrainKeepsOrder ==
    ASSUME IInv, OInv, StartDrain
    PROVE  OInv'
<1>1. /\ jobs = {} /\ wal' = Nothing /\ CutsOf(wal, jobs')
      /\ UNCHANGED <<storeVars, mapVars, seqNum, writes, flushing, mark, writer, reader, done>>
  BY StartDrainIs
<1>2. UNCHANGED <<shard, extents, lookup, writes, mark, writer, done>>
  BY <1>1 DEF storeVars, mapVars
<1>3. InOrder /\ Waiting /\ MarkMapped /\ Agreed
  BY DEF OInv
<1>4. ASSUME NEW j \in jobs', NEW c \in DOMAIN j.todo
      PROVE  c \in DOMAIN wal /\ j.todo[c] = wal[c]
  BY <1>1, <1>4 DEF CutsOf
<1>5. DOMAIN wal' = {}
  BY <1>1, NothingIs
<1>6. ASSUME NEW c, NEW t, Waits(c, t)' PROVE Waits(c, t)
  <2>1. CASE \E j \in jobs' : c \in DOMAIN j.todo /\ t = j.todo[c]
    BY <1>4, <2>1 DEF Waits
  <2>2. QED BY <1>2, <1>5, <1>6, <2>1 DEF Waits
<1>7. InOrder'
  <2>1. ASSUME NEW j \in jobs', NEW c \in DOMAIN j.todo, NEW i \in DOMAIN writes, writes[i][1] = c
        PROVE  j.todo[c] < writes[i][2]
    <3>1. c \in DOMAIN wal /\ j.todo[c] = wal[c]
      BY <1>4, <2>1
    <3>2. wal[c] < writes[i][2]
      BY <1>3, <2>1, <3>1 DEF InOrder
    <3>3. QED BY <3>1, <3>2
  <2>2. \A i, k \in DOMAIN writes :
           i < k /\ writes[i][1] = writes[k][1] => writes[i][2] < writes[k][2]
    BY <1>3 DEF InOrder
  <2>3. QED BY <1>2, <1>5, <2>1, <2>2 DEF InOrder
<1>8. Waiting'
  <2> SUFFICES ASSUME NEW c \in Blocks, NEW t \in Nat, Waits(c, t)'
               PROVE  /\ Known(c, t)'
                      /\ c \notin DOMAIN shard' => done'[c] < t
                      /\ mark'.at # "idle" /\ Covers(mark'.n, c) => SeqNumAt(mark'.n, c) < t
    BY DEF Waiting
  <2>1. Waits(c, t)
    BY <1>6
  <2>2. /\ Known(c, t) /\ (c \notin DOMAIN shard => done[c] < t)
        /\ mark.at # "idle" /\ Covers(mark.n, c) => SeqNumAt(mark.n, c) < t
    BY <1>3, <2>1 DEF Waiting
  <2>3. QED BY <1>2, <2>2 DEF Known
<1>9. MarkMapped'
  BY <1>2, <1>3 DEF MarkMapped, Known
<1>10. Agreed'
  BY <1>2, <1>3 DEF Agreed
<1>11. QED BY <1>7, <1>8, <1>9, <1>10 DEF OInv

\* A chunk is uploaded.
LEMMA PutChunkKeepsOrder ==
    ASSUME IInv, OInv, NEW j \in jobs, PutChunk(j)
    PROVE  OInv'
<1>1. /\ jobs' = (jobs \ {j}) \cup {[j EXCEPT !.put = TRUE, !.id = objNum]}
      /\ UNCHANGED <<shard, extents, lookup, writes, wal, mark, writer, done>>
  BY DEF PutChunk, storeVars
<1>2. j \in JobSet
  BY JobIs
<1>3. [j EXCEPT !.put = TRUE, !.id = objNum].todo = j.todo
  BY <1>2 DEF JobSet
<1>4. FromJobs(jobs, jobs')
  BY <1>1, <1>3 DEF FromJobs
<1>5. Agreed' /\ MarkGoesOn
  BY <1>1, AgreedKept DEF OInv, MarkGoesOn
<1>6. QED BY <1>1, <1>4, <1>5, OrderKept

\* After a run was taken the jobs have what they had, but for the run.
LEMMA RunTaken ==
    ASSUME IInv, NEW j \in jobs, StartRun(j)
    PROVE  /\ FromJobs(jobs, jobs')
           /\ \A k \in jobs' : DOMAIN k.todo \cap TakenRun(j) = {}
<1>1. j \in JobSet /\ JobOK(j)
  BY JobIs
<1>2. /\ DOMAIN Rest(j) = DOMAIN j.todo \ TakenRun(j)
      /\ \A b \in DOMAIN Rest(j) : Rest(j)[b] = j.todo[b]
  BY RestIs
<1>3. [j EXCEPT !.todo = Rest(j)].todo = Rest(j)
  BY <1>1 DEF JobSet
<1>4. TakenRun(j) \subseteq DOMAIN j.chunk
  BY <1>1, StartRunIs, TakenIs DEF JobOK
<1>5. ASSUME NEW k \in jobs \ {j} PROVE DOMAIN k.todo \cap TakenRun(j) = {}
  <2>1. JobOK(k) /\ DOMAIN k.chunk \cap DOMAIN j.chunk = {}
    BY <1>5 DEF IInv, JobsOK
  <2>2. QED BY <1>4, <2>1 DEF JobOK
<1>6. ASSUME NEW k \in jobs' PROVE k \in jobs \ {j} \/ k = [j EXCEPT !.todo = Rest(j)]
  BY <1>6, StartRunIs
<1>7. ASSUME NEW k \in jobs'
      PROVE  /\ \E i \in jobs : /\ DOMAIN k.todo \subseteq DOMAIN i.todo
                                /\ \A b \in DOMAIN k.todo : k.todo[b] = i.todo[b]
             /\ DOMAIN k.todo \cap TakenRun(j) = {}
  <2>1. CASE k \in jobs \ {j}
    BY <1>5, <2>1
  <2>2. CASE k = [j EXCEPT !.todo = Rest(j)]
    <3>1. k.todo = Rest(j)
      BY <1>3, <2>2
    <3>2. QED BY <1>2, <3>1
  <2>3. QED BY <1>6, <2>1, <2>2
<1>8. QED BY <1>7 DEF FromJobs

\* A run goes into the map: its records are the oldest of their blocks on the
\* way there, and a block without an entry is about to get one.
LEMMA StartRunKeepsOrder ==
    ASSUME IInv, OInv, NEW j \in jobs, StartRun(j)
    PROVE  OInv'
<1> DEFINE run == TakenRun(j)
           n == TakenEntry(j)
<1>1. /\ j.put /\ HasMapMu(j)
      /\ UNCHANGED <<storeVars, objNum, chunks, seqNum, writes, flushing, wal, writer,
                     reader, done>>
      /\ \/ UNCHANGED <<lookup, mark>>
         \/ /\ lookup' = Insert(lookup, n)
            /\ mark' = [at |-> "sample", n |-> n, left |-> run, ok |-> {}]
  BY StartRunIs
<1>2. UNCHANGED <<shard, extents, writes, wal, writer, done>>
  BY <1>1 DEF storeVars
<1>3. /\ FromJobs(jobs, jobs') /\ \A k \in jobs' : DOMAIN k.todo \cap run = {}
  BY RunTaken
<1>4. /\ RunOfVolume(n, run) /\ run \subseteq DOMAIN j.todo
      /\ \A b \in run : SeqNumAt(n, b) = j.todo[b]
  BY <1>1, TakenIs
<1> HIDE DEF run, n
<1>5. InOrder /\ Waiting /\ MarkMapped /\ Agreed
  BY DEF OInv
<1>6. CASE UNCHANGED <<lookup, mark>>
  <2>1. Agreed' /\ MarkGoesOn
    BY <1>2, <1>5, <1>6, AgreedKept DEF MarkGoesOn
  <2>2. QED BY <1>2, <1>3, <1>6, <2>1, OrderKept
<1>7. CASE /\ lookup' = Insert(lookup, n)
           /\ mark' = [at |-> "sample", n |-> n, left |-> run, ok |-> {}]
  <2>1. InOrder' /\ \A b, s : Waits(b, s)' => Waits(b, s)
    BY <1>2, <1>3, <1>5, FewerWait
  <2>2. mark'.at = "sample" /\ mark'.n = n
    BY <1>7
  <2>3. IsExtent(n) /\ \A b \in Blocks : b \in Nat /\ (Covers(n, b) <=> b \in run)
    BY <1>4, BlockNumbers DEF RunOfVolume
  <2>4. ASSUME NEW b \in run
        PROVE  /\ b \in Blocks /\ b \in DOMAIN j.todo /\ j.todo[b] \in Nat
               /\ SeqNumAt(n, b) = j.todo[b] /\ Waits(b, j.todo[b])
               /\ Known(b, j.todo[b]) /\ (b \notin DOMAIN shard => done[b] < j.todo[b])
    <3>1. b \in Blocks /\ b \in DOMAIN j.todo /\ SeqNumAt(n, b) = j.todo[b]
      BY <1>4 DEF RunOfVolume
    <3>2. j.todo[b] \in Nat
      BY <3>1, JobIs, RecordMapIs
    <3>3. Waits(b, j.todo[b])
      BY <3>1 DEF Waits
    <3>4. QED BY <1>5, <3>1, <3>2, <3>3 DEF Waiting
  <2>5. ASSUME NEW b \in run, NEW s \in Nat, Waits(b, s)' PROVE j.todo[b] < s
    <3>1. ~\E k \in jobs' : b \in DOMAIN k.todo
      BY <1>3
    <3>2. \/ \E i \in DOMAIN writes : writes[i] = <<b, s>>
          \/ b \in DOMAIN wal /\ s = wal[b]
      BY <1>2, <2>5, <3>1 DEF Waits
    <3>3. b \in DOMAIN j.todo
      BY <2>4
    <3>4. CASE b \in DOMAIN wal /\ s = wal[b]
      BY <1>5, <3>3, <3>4 DEF InOrder
    <3>5. CASE \E i \in DOMAIN writes : writes[i] = <<b, s>>
      <4>1. PICK i \in DOMAIN writes : writes[i] = <<b, s>>
        BY <3>5
      <4>2. writes[i][1] = b /\ writes[i][2] = s
        BY <4>1
      <4>3. QED BY <1>5, <3>3, <4>2 DEF InOrder
    <3>6. QED BY <3>2, <3>4, <3>5
  <2>6. Waiting'
    <3> SUFFICES ASSUME NEW b \in Blocks, NEW s \in Nat, Waits(b, s)'
                 PROVE  /\ Known(b, s)'
                        /\ b \notin DOMAIN shard' => done'[b] < s
                        /\ mark'.at # "idle" /\ Covers(mark'.n, b) => SeqNumAt(mark'.n, b) < s
      BY DEF Waiting
    <3>1. Waits(b, s)
      BY <2>1
    <3>2. Known(b, s) /\ (b \notin DOMAIN shard => done[b] < s)
      BY <1>5, <3>1 DEF Waiting
    <3>3. Covers(n, b) => SeqNumAt(n, b) < s
      BY <2>3, <2>4, <2>5
    <3>4. QED BY <1>2, <2>2, <3>2, <3>3 DEF Known
  <2>7. IsMap(lookup)
    BY DEF IInv, MapsOK, MapIn
  <2>8. MarkMapped'
    <3> SUFFICES ASSUME NEW b \in Blocks, Covers(n, b)
                 PROVE  Installed(lookup', n, b) /\ Known(b, SeqNumAt(mark.n, b))'
      BY <2>2 DEF MarkMapped
    <3>1. b \in run
      BY <2>3
    <3>2. Installed(Insert(lookup, n), n, b)
      BY <2>3, <2>7, InsertLocation
    <3>3. PICK s : s = j.todo[b]
      OBVIOUS
    <3>4. Known(b, s) /\ SeqNumAt(mark'.n, b) = s
      BY <2>2, <2>4, <3>1, <3>3
    <3>5. Known(b, SeqNumAt(mark.n, b))'
      BY <1>2, <3>4 DEF Known
    <3>6. QED BY <1>7, <3>2, <3>5
  <2>9. Agreed'
    <3>1. ASSUME NEW b \in Blocks \ DOMAIN shard, writer[b].at # "publish"
          PROVE  /\ Mapped(extents, b) <=> Mapped(lookup', b)
                 /\ Mapped(extents, b) => Location(extents, b) = Location(lookup', b)
      <4>1. b \notin run
        <5> SUFFICES ASSUME b \in run PROVE FALSE
          OBVIOUS
        <5>1. /\ j.todo[b] \in Nat /\ done[b] < j.todo[b] /\ Known(b, j.todo[b])
          BY <2>4, <3>1
        <5>2. j.todo[b] <= done[b]
          BY <3>1, <5>1 DEF Known
        <5>3. done[b] \in Nat
          BY DEF IInv, Types
        <5>4. QED BY <5>1, <5>2, <5>3
      <4>2. ~Covers(n, b) /\ b \in Nat
        BY <2>3, <4>1
      <4>3. /\ Mapped(Insert(lookup, n), b) <=> Mapped(lookup, b)
            /\ Mapped(lookup, b) => Location(Insert(lookup, n), b) = Location(lookup, b)
        BY <2>3, <2>7, <4>2, InsertLocation
      <4>4. /\ Mapped(extents, b) <=> Mapped(lookup, b)
            /\ Mapped(extents, b) => Location(extents, b) = Location(lookup, b)
        BY <1>5, <3>1 DEF Agreed
      <4>5. QED BY <1>7, <4>3, <4>4
    <3>2. QED BY <1>2, <3>1 DEF Agreed
  <2>10. QED BY <2>1, <2>6, <2>8, <2>9 DEF OInv
<1>8. QED BY <1>1, <1>6, <1>7

\* Pass 1 changes neither index.
LEMMA SampleKeepsOrder ==
    ASSUME IInv, OInv, NEW b \in mark.left, Sample(b)
    PROVE  OInv'
<1>1. UNCHANGED <<storeVars, mapVars, drainVars, writer, reader, done>> /\ mark.at = "sample"
  BY DEF Sample
<1>2. UNCHANGED <<shard, extents, lookup, writes, wal, jobs, writer, done>>
  BY <1>1 DEF storeVars, mapVars, drainVars
<1>3. mark \in Mark
  BY DEF IInv, Types, Mark
<1>4. MarkGoesOn
  <2>1. \/ mark' = NoMark
        \/ \E l, o : mark' = [mark EXCEPT !.left = l, !.ok = o]
        \/ \E l, o : mark' = [mark EXCEPT !.at = "extents", !.left = l, !.ok = o]
    BY DEF Sample
  <2>2. QED BY <1>1, <1>3, <2>1, NoMarkIs DEF MarkGoesOn, Mark
<1>5. Agreed' /\ FromJobs(jobs, jobs')
  BY <1>2, AgreedKept, SameJobs DEF OInv
<1>6. QED BY <1>2, <1>4, <1>5, OrderKept

\* Pass 2 moves no block without an entry.
LEMMA InstallKeepsOrder ==
    ASSUME IInv, OInv, InstallExtent
    PROVE  OInv'
<1>1. PICK run \in SUBSET Blocks, e \in Run :
          /\ mark.at = "extents" /\ RunOfVolume(e, run) /\ run \subseteq mark.left
          /\ extents' = Insert(extents, e)
          /\ \A b \in run : PlaceIn(e, b) = PlaceIn(mark.n, b)
          /\ \/ /\ mark.left \ run # {}
                /\ mark' = [mark EXCEPT !.left = mark.left \ run]
             \/ /\ mark.left \ run = {}
                /\ mark' = [mark EXCEPT !.at = "remove", !.left = mark.ok]
          /\ UNCHANGED <<shard, mapVars, drainVars, writer, reader, done>>
  BY InstallIs
<1>2. UNCHANGED <<shard, lookup, writes, wal, jobs, writer, done>>
  BY <1>1 DEF mapVars, drainVars
<1>3. mark \in Mark
  BY DEF IInv, Types, Mark
<1>4. MarkGoesOn
  BY <1>1, <1>3 DEF MarkGoesOn, Mark
<1>5. run \subseteq DOMAIN shard /\ IsMap(extents)
  BY <1>1 DEF IInv, MarkOK, MapsOK, MapIn
<1>6. IsExtent(e) /\ \A b \in Blocks : b \in Nat /\ (Covers(e, b) <=> b \in run)
  BY <1>1, BlockNumbers DEF RunOfVolume
<1>7. Agreed'
  <2>1. ASSUME NEW b \in Blocks \ DOMAIN shard, writer[b].at # "publish"
        PROVE  /\ Mapped(extents', b) <=> Mapped(lookup, b)
               /\ Mapped(extents', b) => Location(extents', b) = Location(lookup, b)
    <3>1. b \in Nat /\ ~Covers(e, b)
      BY <1>5, <1>6, <2>1
    <3>2. /\ Mapped(Insert(extents, e), b) <=> Mapped(extents, b)
          /\ Mapped(extents, b) => Location(Insert(extents, e), b) = Location(extents, b)
      BY <1>5, <1>6, <3>1, InsertLocation
    <3>3. /\ Mapped(extents, b) <=> Mapped(lookup, b)
          /\ Mapped(extents, b) => Location(extents, b) = Location(lookup, b)
      BY <2>1 DEF OInv, Agreed
    <3>4. QED BY <1>1, <3>2, <3>3
  <2>2. QED BY <1>2, <2>1 DEF Agreed
<1>8. FromJobs(jobs, jobs')
  BY <1>2, SameJobs
<1>9. QED BY <1>2, <1>4, <1>7, <1>8, OrderKept

\* Pass 3 removes an entry: both indexes have the block where the run has it,
\* and what waits for it is newer.
LEMMA RemoveKeepsOrder ==
    ASSUME IInv, OInv, NEW b \in mark.left, Remove(b)
    PROVE  OInv'
<1>1. /\ mark.at = "remove" /\ b \in Blocks
      /\ mark' = IF mark.left = {b} THEN NoMark ELSE [mark EXCEPT !.left = mark.left \ {b}]
      /\ UNCHANGED <<extents, mapVars, drainVars, writer, reader, done>>
      /\ \/ UNCHANGED shard
         \/ /\ b \in DOMAIN shard /\ shard' = [c \in DOMAIN shard \ {b} |-> shard[c]]
            /\ SeqNumAt(mark.n, b) = done[b] /\ ExtSeq(extents, b) = done[b]
  BY RemoveIs
<1>2. UNCHANGED <<extents, lookup, writes, wal, jobs, writer, done>>
  BY <1>1 DEF mapVars, drainVars
<1>3. mark \in Mark
  BY DEF IInv, Types, Mark
<1>4. MarkGoesOn
  BY <1>1, <1>3, NoMarkIs DEF MarkGoesOn, Mark
<1>5. FromJobs(jobs, jobs')
  BY <1>2, SameJobs
<1>6. InOrder /\ Waiting /\ MarkMapped /\ Agreed
  BY DEF OInv
<1>7. Covers(mark.n, b)
  BY <1>1, MarkFacts
<1>8. DOMAIN shard \ {b} \subseteq DOMAIN shard'
  BY <1>1
<1>9. ASSUME NEW c \in Blocks, c \in DOMAIN shard, c \notin DOMAIN shard', NEW s \in Nat, Waits(c, s)
      PROVE  done[c] < s
  <2>1. c = b /\ SeqNumAt(mark.n, b) = done[b]
    BY <1>1, <1>8, <1>9
  <2>2. SeqNumAt(mark.n, b) < s
    BY <1>1, <1>6, <1>7, <1>9, <2>1 DEF Waiting
  <2>3. QED BY <2>1, <2>2
<1>10. Agreed'
  <2>1. Installed(extents, mark.n, b) /\ Installed(lookup, mark.n, b)
    BY <1>1, <1>6, <1>7 DEF IInv, MarkOK, MarkMapped
  <2>2. ASSUME NEW c \in Blocks \ DOMAIN shard', writer[c].at # "publish"
        PROVE  /\ Mapped(extents, c) <=> Mapped(lookup, c)
               /\ Mapped(extents, c) => Location(extents, c) = Location(lookup, c)
    <3>1. CASE c = b
      BY <2>1, <3>1 DEF Installed
    <3>2. CASE c # b
      BY <1>6, <1>8, <2>2, <3>2 DEF Agreed
    <3>3. QED BY <3>1, <3>2
  <2>3. QED BY <1>2, <2>2 DEF Agreed
<1>11. QED BY <1>2, <1>4, <1>5, <1>9, <1>10, OrderKept

\* The initial states.
LEMMA InitOInv == Init => OInv
<1> SUFFICES ASSUME Init PROVE OInv
  OBVIOUS
<1>1. /\ extents = lookup /\ writes = <<>> /\ wal = Nothing /\ jobs = {} /\ mark = NoMark
  BY InitIs
<1>2. DOMAIN writes = {} /\ DOMAIN wal = {} /\ mark.at = "idle"
  BY <1>1, NothingIs, NoMarkIs
<1>3. InOrder /\ MarkMapped
  BY <1>1, <1>2 DEF InOrder, MarkMapped
<1>4. Waiting
  BY <1>1, <1>2 DEF Waiting, Waits
<1>5. Agreed
  BY <1>1 DEF Agreed
<1>6. QED BY <1>3, <1>4, <1>5 DEF OInv

\* Every step keeps the records in order and the indexes in agreement.
LEMMA StepOInv == IInv /\ OInv /\ [Next]_vars => OInv'
<1> SUFFICES ASSUME IInv, OInv, [Next]_vars PROVE OInv'
  OBVIOUS
<1>1. CASE StartRead \/ ReadShard \/ ReadExtent \/ ReadFetch \/ ReadReturns
  BY <1>1, ReadsKeepOrder
<1>2. ASSUME NEW b \in Blocks, \/ WriteReadShard(b) \/ WriteReadExtent(b) \/ WriteReserve(b)
                               \/ WriteAppend(b) \/ WritePublish(b)
      PROVE  OInv'
  BY <1>2, WritesKeepOrder, WriteAppendKeepsOrder, WritePublishKeepsOrder
<1>3. CASE FlushRecord \/ StartDrain
  BY <1>3, FlushRecordKeepsOrder, StartDrainKeepsOrder
<1>4. ASSUME NEW j \in jobs, PutChunk(j) \/ StartRun(j) PROVE OInv'
  BY <1>4, PutChunkKeepsOrder, StartRunKeepsOrder
<1>5. ASSUME NEW b \in mark.left, Sample(b) \/ Remove(b) PROVE OInv'
  BY <1>5, SampleKeepsOrder, RemoveKeepsOrder
<1>6. CASE InstallExtent
  BY <1>6, InstallKeepsOrder
<1>7. CASE UNCHANGED vars
  <2>1. UNCHANGED <<shard, extents, lookup, writes, wal, jobs, mark, done, writer>>
    BY <1>7 DEF vars, storeVars, mapVars, drainVars
  <2>2. QED BY <2>1, QuietKeepsOrder
<1>8. QED BY <1>1, <1>2, <1>3, <1>4, <1>5, <1>6, <1>7 DEF Next

\* The order holds always.
LEMMA Order == Spec => []OInv
<1>1. Init => OInv
  BY InitOInv
<1>2. IInv /\ OInv /\ [Next]_vars => OInv'
  BY StepOInv
<1>3. QED BY <1>1, <1>2, Invariance, PTL DEF Spec

\* A block with no entry in its shard, no write and no mark in progress is at
\* the same place in the extents and in BlocksToObject: the three passes of
\* MarkPersistedRange lose no update of either index (createChunkFile).
THEOREM IndexesDoAgree == Spec => []IndexesAgree
<1>1. OInv => IndexesAgree
  BY DEF OInv, Agreed, IndexesAgree, At
<1>2. QED BY <1>1, Order, PTL

=============================================================================
