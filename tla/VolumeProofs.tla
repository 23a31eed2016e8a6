---------------------------- MODULE VolumeProofs ----------------------------
(***************************************************************************)
(* Proofs about the durability of guest writes (Volume), for every volume  *)
(* size, chunk size and number of writes, faults and opens.                *)
(*                                                                         *)
(* The argument: a record is in Writes.Blocks, in the WAL or in the        *)
(* checkpoint the next open would load, and goes from one to the next; so  *)
(* what an open would bring back of a block (Recoverable) never goes back, *)
(* whatever step a crash, a failure or another open comes after.  A        *)
(* serving volume's map is between that checkpoint and Recoverable         *)
(* (MapBetween), and Hot has what is newer (HotKept).                      *)
(*                                                                         *)
(* Some paths of the code do not keep this: each of them is named in the  *)
(* history (lost) with the blocks it drops or displaces a record of, and   *)
(* the results are about the other blocks.                                 *)
(***************************************************************************)
EXTENDS Volume, ExtentsProofs

-----------------------------------------------------------------------------
(* Finite sets.                                                            *)

\* Among subsets of a finite set one has no other below it.
LEMMA Smallest ==
    ASSUME NEW D, IsFiniteSet(D)
    PROVE  \A T \in SUBSET (SUBSET D) :
               T # {} => \E s \in T : \A t \in T : t \subseteq s => t = s
<1> SUFFICES ASSUME NEW T \in SUBSET (SUBSET D), T # {}
             PROVE  \E s \in T : \A t \in T : t \subseteq s => t = s
  OBVIOUS
<1>1. \A t \in T : IsFiniteSet(t) /\ Cardinality(t) \in Nat
  BY FS_Subset, FS_CardinalityType
<1> DEFINE Sizes == {Cardinality(t) : t \in T}
<1>2. Sizes \in SUBSET Nat /\ Sizes # {}
  BY <1>1
<1>3. Min(Sizes) \in Sizes /\ \A n \in Sizes : Min(Sizes) <= n
  BY <1>2, LeastNumber
<1>4. PICK s \in T : \A t \in T : Cardinality(s) <= Cardinality(t)
  BY <1>3
<1>5. ASSUME NEW t \in T, t \subseteq s PROVE t = s
  <2>1. Cardinality(t) <= Cardinality(s) /\ (Cardinality(s) = Cardinality(t) => s = t)
    BY <1>1, <1>5, FS_Subset
  <2>2. QED BY <1>1, <1>4, <2>1
<1>6. QED BY <1>5

\* A finite set of numbers has a bound.
LEMMA FiniteBound ==
    ASSUME NEW S, S \in SUBSET Nat, IsFiniteSet(S)
    PROVE  \E N \in Nat : S \subseteq 0..N
<1> DEFINE T == {s \in SUBSET S : ~\E N \in Nat : s \subseteq 0..N}
<1> SUFFICES ASSUME T # {} PROVE FALSE
  <2>1. S \notin T
    OBVIOUS
  <2>2. QED BY <2>1
<1>1. T \in SUBSET (SUBSET S) /\ T # {} /\ IsFiniteSet(S)
  OBVIOUS
<1>2. PICK s \in T : \A t \in T : t \subseteq s => t = s
  <2> HIDE DEF T
  <2>1. QED BY ONLY <1>1, Smallest
<1>3. s \in SUBSET S /\ ~\E N \in Nat : s \subseteq 0..N
  OBVIOUS
<1>4. s # {}
  BY <1>3
<1>5. PICK x \in s : TRUE
  BY <1>4
<1>6. s \ {x} \notin T /\ s \ {x} \in SUBSET S /\ x \in Nat
  BY <1>2, <1>3, <1>5
<1>7. PICK N \in Nat : s \ {x} \subseteq 0..N
  BY <1>6
<1>8. s \subseteq 0..(N + x)
  <2>1. ASSUME NEW y \in s PROVE y \in 0..(N + x)
    <3>1. CASE y = x
      BY <1>6, <1>7, <3>1
    <3>2. CASE y # x
      <4>1. y \in 0..N
        BY <1>7, <3>2
      <4>2. QED BY <1>6, <4>1
    <3>3. QED BY <3>1, <3>2
  <2>2. QED BY <2>1
<1>9. N + x \in Nat
  BY <1>6
<1>10. QED BY <1>3, <1>8, <1>9

\* Max chooses the greatest of numbers with a bound.
LEMMA MaxIs ==
    ASSUME NEW N \in Nat, NEW S \in SUBSET (0..N), S # {}
    PROVE  Max(S) \in S /\ \A y \in S : y <= Max(S)
<1>1. \A y \in S : y \in Nat
  OBVIOUS
<1>2. PICK z \in S : \A y \in S : y <= z
  BY GreatestNumber
<1>3. \A y \in S : z >= y
  BY <1>1, <1>2
<1>4. Max(S) \in S /\ \A y \in S : Max(S) >= y
  BY <1>3 DEF Max
<1>5. QED BY <1>1, <1>4

\* The greater of two numbers.
LEMMA MaxOfTwo ==
    ASSUME NEW x \in Nat, NEW y \in Nat
    PROVE  /\ Max({x, y}) \in Nat /\ x <= Max({x, y}) /\ y <= Max({x, y})
           /\ Max({x, y}) = x \/ Max({x, y}) = y
<1>1. {x, y} \in SUBSET (0..(x + y)) /\ x + y \in Nat
  OBVIOUS
<1>2. Max({x, y}) \in {x, y} /\ \A z \in {x, y} : z <= Max({x, y})
  BY <1>1, MaxIs
<1> HIDE DEF Max
<1>3. QED BY <1>2

-----------------------------------------------------------------------------
(* ApplyChunk: the runs of a chunk, one after the other.                   *)

\* Its parts: the entry of the run that starts at a block, one run's turn.
ChunkFrom(chunk, a) == [b \in {x \in DOMAIN chunk : x >= a} |-> chunk[b]]
EntryOf(chunk, id, a) == RunEntry(chunk, FirstRun(ChunkFrom(chunk, a)), id)
Turn(n, acc) == IF Stale(acc, n) THEN acc ELSE Insert(acc, n)

\* g[s] is the map after the runs that start in s.
Applies(g, m, chunk, id, D) ==
    g = [s \in SUBSET D |-> IF s = {} THEN m
                            ELSE Turn(EntryOf(chunk, id, Max(s)), g[s \ {Max(s)}])]

\* The fold is that recursion.
LEMMA ApplyChunkIs ==
    ASSUME NEW m, NEW chunk, NEW id
    PROVE  ApplyChunk(m, chunk, id) =
               (CHOOSE g : Applies(g, m, chunk, id, RunStarts(chunk)))[RunStarts(chunk)]
BY Zenon DEF ApplyChunk, MapThenFoldSet, Applies, Turn, EntryOf, ChunkFrom

\* What it says of one set.
LEMMA AppliesAt ==
    ASSUME NEW m, NEW chunk, NEW id, NEW D, NEW g, Applies(g, m, chunk, id, D),
           NEW s \in SUBSET D
    PROVE  /\ s = {} => g[s] = m
           /\ s # {} => g[s] = Turn(EntryOf(chunk, id, Max(s)), g[s \ {Max(s)}])
<1> DEFINE E(t) == IF t = {} THEN m ELSE Turn(EntryOf(chunk, id, Max(t)), g[t \ {Max(t)}])
           R == [t \in SUBSET D |-> E(t)]
<1>1. g = R
  BY DEF Applies
<1> HIDE DEF E
<1>2. R[s] = E(s)
  OBVIOUS
<1> HIDE DEF R
<1>3. g[s] = E(s)
  BY <1>1, <1>2
<1>4. QED BY <1>3 DEF E

\* The recursion has a solution: its greatest start comes last.
LEMMA AppliesExists ==
    ASSUME NEW m, NEW chunk, NEW id, NEW N \in Nat, NEW D, D \in SUBSET (0..N)
    PROVE  \E g : Applies(g, m, chunk, id, D)
<1> DEFINE T == {s \in SUBSET D : ~\E g : Applies(g, m, chunk, id, s)}
<1> SUFFICES ASSUME T # {} PROVE FALSE
  <2>1. D \notin T
    OBVIOUS
  <2>2. QED BY <2>1
<1>1. T \in SUBSET (SUBSET D) /\ T # {} /\ IsFiniteSet(D)
  BY BelowFinite
<1>2. PICK s \in T : \A t \in T : t \subseteq s => t = s
  <2> HIDE DEF T
  <2>1. QED BY ONLY <1>1, Smallest
<1>3. s \in SUBSET D /\ ~\E g : Applies(g, m, chunk, id, s)
  OBVIOUS
<1>4. s # {}
  <2> SUFFICES ASSUME s = {} PROVE FALSE
    OBVIOUS
  <2> DEFINE h == [t \in SUBSET s |-> m]
  <2>1. \A t \in SUBSET s : t = {}
    OBVIOUS
  <2>2. h = [t \in SUBSET s |-> IF t = {} THEN m
                               ELSE Turn(EntryOf(chunk, id, Max(t)), h[t \ {Max(t)}])]
    BY <2>1
  <2> HIDE DEF h
  <2>3. QED BY <1>3, <2>2 DEF Applies
<1> DEFINE x == Max(s)
           r == s \ {x}
<1>5. x \in s /\ \A y \in s : y <= x
  BY <1>3, <1>4, MaxIs
<1> HIDE DEF x
<1>6. r \in SUBSET D /\ r # s /\ r \notin T
  BY <1>2, <1>3, <1>5
<1>7. PICK g : Applies(g, m, chunk, id, r)
  BY <1>6
<1> HIDE DEF T
<1>8. ASSUME NEW t \in SUBSET s, x \in t PROVE Max(t) = x
  <2>1. t \in SUBSET (0..N) /\ t # {}
    BY <1>3, <1>8
  <2>2. Max(t) \in t /\ x <= Max(t) /\ Max(t) <= x
    <3>1. Max(t) \in t /\ \A y \in t : y <= Max(t)
      BY <2>1, MaxIs
    <3>2. QED BY <1>5, <1>8, <3>1
  <2>3. Max(t) \in Nat /\ x \in Nat
    <3>1. \A y \in t : y \in Nat
      BY <2>1
    <3>2. QED BY <1>8, <2>2, <3>1
  <2> HIDE DEF Max
  <2>4. QED BY <2>2, <2>3
<1>9. ASSUME NEW t \in SUBSET s, x \notin t, t # {} PROVE Max(t) \in t
  <2>1. t \in SUBSET (0..N)
    BY <1>3
  <2>2. QED BY <1>9, <2>1, MaxIs
<1> DEFINE h == [t \in SUBSET s |-> IF x \in t THEN Turn(EntryOf(chunk, id, x), g[t \ {x}])
                                    ELSE g[t]]
           E(t) == IF t = {} THEN m ELSE Turn(EntryOf(chunk, id, Max(t)), h[t \ {Max(t)}])
<1>10. \A t \in SUBSET s : h[t] = IF x \in t THEN Turn(EntryOf(chunk, id, x), g[t \ {x}])
                                  ELSE g[t]
  OBVIOUS
<1>11. DOMAIN h = SUBSET s /\ h = [t \in SUBSET s |-> h[t]]
  OBVIOUS
<1> HIDE DEF h
<1>12. ASSUME NEW t \in SUBSET s PROVE h[t] = E(t)
  <2>1. CASE x \in t
    <3>1. t \ {x} \in SUBSET s /\ x \notin t \ {x} /\ t # {}
      BY <2>1
    <3>2. h[t \ {x}] = g[t \ {x}] /\ h[t] = Turn(EntryOf(chunk, id, x), g[t \ {x}])
      BY <1>10, <2>1, <3>1
    <3>3. Max(t) = x
      BY <1>8, <2>1
    <3>4. QED BY <3>1, <3>2, <3>3
  <2>2. CASE x \notin t
    <3>1. t \in SUBSET r /\ h[t] = g[t]
      BY <1>10, <2>2
    <3>2. /\ t = {} => g[t] = m
          /\ t # {} => g[t] = Turn(EntryOf(chunk, id, Max(t)), g[t \ {Max(t)}])
      <4> HIDE DEF r
      <4>1. QED BY <1>7, <3>1, AppliesAt
    <3>3. h[t \ {Max(t)}] = g[t \ {Max(t)}]
      BY <1>10, <2>2
    <3>4. QED BY <3>1, <3>2, <3>3
  <2>3. QED BY <2>1, <2>2
<1>13. h = [t \in SUBSET s |-> E(t)]
  <2> HIDE DEF E
  <2>1. QED BY <1>11, <1>12
<1>14. Applies(h, m, chunk, id, s)
  BY <1>13 DEF Applies
<1>15. QED BY <1>3, <1>14

\* A chunk: some blocks, each with its SeqNum.
ChunkOK(chunk, N) ==
    /\ DOMAIN chunk \in SUBSET (0..N)
    /\ \A b \in DOMAIN chunk : chunk[b] \in Nat

\* The entry of the run that starts at a block.
LEMMA EntryOfIs ==
    ASSUME NEW N \in Nat, NEW chunk, ChunkOK(chunk, N), NEW id \in Nat, NEW a \in DOMAIN chunk,
           NEW n, n = EntryOf(chunk, id, a)
    PROVE  /\ IsExtent(n) /\ n.start = a /\ n.obj = id /\ Covers(n, a) /\ n.seqs[1] = chunk[a]
           /\ \A b \in Nat : Covers(n, b) => b \in DOMAIN chunk /\ SeqNumAt(n, b) = chunk[b]
<1> DEFINE todo == ChunkFrom(chunk, a)
           run == FirstRun(todo)
<1>1. DOMAIN chunk \in SUBSET (0..N) /\ \A b \in DOMAIN chunk : chunk[b] \in Nat
  BY DEF ChunkOK
<1>2. a \in Nat /\ \A b \in DOMAIN chunk : b \in Nat
  BY <1>1
<1>3. DOMAIN todo = {x \in DOMAIN chunk : x >= a}
  BY DEF ChunkFrom
<1>4. a \in DOMAIN todo /\ DOMAIN todo \subseteq DOMAIN chunk /\ DOMAIN todo \in SUBSET (0..N)
  BY <1>1, <1>2, <1>3
<1>5. DOMAIN todo # {}
  BY <1>4
<1> HIDE DEF todo
<1>6. IsEntry(n, run, chunk, todo, id, N)
  <2>1. n = RunEntry(chunk, run, id)
    BY DEF EntryOf, run, todo
  <2> HIDE DEF run
  <2>2. run = FirstRun(todo)
    BY DEF run
  <2>3. QED BY <1>1, <1>4, <1>5, <2>1, <2>2, RunEntryIs
<1>7. Min(run) = Min(DOMAIN todo)
  <2>1. \E x \in Nat, z \in Nat : x = Min(DOMAIN todo) /\ x = Min(FirstRun(todo))
    BY <1>4, <1>5, FirstRunIs
  <2>2. QED BY <2>1
<1>8. Min(DOMAIN todo) = a
  <2>1. DOMAIN todo \in SUBSET Nat
    BY <1>2, <1>4
  <2>2. Min(DOMAIN todo) \in DOMAIN todo /\ \A y \in DOMAIN todo : Min(DOMAIN todo) <= y
    BY <1>5, <2>1, LeastNumber
  <2>3. Min(DOMAIN todo) >= a /\ Min(DOMAIN todo) <= a /\ Min(DOMAIN todo) \in Nat
    BY <1>3, <1>4, <2>1, <2>2
  <2> HIDE DEF Min
  <2>4. QED BY <1>2, <2>3
<1>9. n.start = a
  <2>1. n.start = Min(run)
    BY DEF EntryOf, RunEntry, run, todo
  <2>2. QED BY <1>7, <1>8, <2>1
<1> HIDE DEF run
<1>10. QED BY <1>2, <1>4, <1>6, <1>9 DEF IsEntry

\* What a run's turn may do to a map: m1 has every block of m0, and where it
\* has a block under another record, that is the chunk's.
Grown(m0, m1, chunk, id) ==
    /\ IsMap(m1)
    /\ \A b \in Nat : Mapped(m0, b) => Mapped(m1, b)
    /\ \A e \in m1 : \A b \in Nat : Covers(e, b) =>
          \/ \E f \in m0 : Covers(f, b) /\ e.obj = f.obj /\ SeqNumAt(e, b) = SeqNumAt(f, b)
          \/ b \in DOMAIN chunk /\ e.obj = id /\ SeqNumAt(e, b) = chunk[b]

\* It grows so.
LEMMA TurnGrows ==
    ASSUME NEW N \in Nat, NEW chunk, ChunkOK(chunk, N), NEW id \in Nat, NEW a \in DOMAIN chunk,
           NEW m, IsMap(m)
    PROVE  Grown(m, Turn(EntryOf(chunk, id, a), m), chunk, id)
<1> DEFINE n == EntryOf(chunk, id, a)
<1>1. /\ IsExtent(n) /\ n.obj = id
      /\ \A b \in Nat : Covers(n, b) => b \in DOMAIN chunk /\ SeqNumAt(n, b) = chunk[b]
  BY EntryOfIs
<1> HIDE DEF n
<1>2. Grown(m, m, chunk, id)
  BY DEF Grown
<1>3. Grown(m, Insert(m, n), chunk, id)
  <2>1. IsMap(Insert(m, n))
    BY <1>1, InsertIsMap
  <2>2. ASSUME NEW b \in Nat, Mapped(m, b) PROVE Mapped(Insert(m, n), b)
    BY <1>1, <2>2, InsertResolves
  <2>3. ASSUME NEW e \in Insert(m, n), NEW b \in Nat, Covers(e, b)
        PROVE  \/ \E f \in m : Covers(f, b) /\ e.obj = f.obj /\ SeqNumAt(e, b) = SeqNumAt(f, b)
               \/ b \in DOMAIN chunk /\ e.obj = id /\ SeqNumAt(e, b) = chunk[b]
    <3>1. \A f \in m : IsExtent(f)
      BY DEF IsMap
    <3>2. /\ IsExtent(e)
          /\ e = n \/ \E f \in m : Piece(e, f)
      BY <1>1, <3>1, InsertFrom
    <3>3. CASE e = n
      BY <1>1, <2>3, <3>3
    <3>4. CASE \E f \in m : Piece(e, f)
      <4>1. PICK f \in m : Piece(e, f)
        BY <3>4
      <4>2. Covers(f, b) /\ SeqNumAt(e, b) = SeqNumAt(f, b) /\ e.obj = f.obj
        BY <2>3, <3>1, <3>2, <4>1, PieceFacts
      <4>3. QED BY <4>2
    <3>5. QED BY <3>2, <3>3, <3>4
  <2>4. QED BY <2>1, <2>2, <2>3 DEF Grown
<1>4. QED BY <1>2, <1>3 DEF Turn, n

\* Growing goes on.
LEMMA GrownTwice ==
    ASSUME NEW m0, NEW m1, NEW m2, NEW chunk, NEW id,
           Grown(m0, m1, chunk, id), Grown(m1, m2, chunk, id)
    PROVE  Grown(m0, m2, chunk, id)
<1>1. IsMap(m2) /\ \A b \in Nat : Mapped(m0, b) => Mapped(m2, b)
  BY DEF Grown
<1>2. ASSUME NEW e \in m2, NEW b \in Nat, Covers(e, b)
      PROVE  \/ \E f \in m0 : Covers(f, b) /\ e.obj = f.obj /\ SeqNumAt(e, b) = SeqNumAt(f, b)
             \/ b \in DOMAIN chunk /\ e.obj = id /\ SeqNumAt(e, b) = chunk[b]
  <2>1. \/ \E f \in m1 : Covers(f, b) /\ e.obj = f.obj /\ SeqNumAt(e, b) = SeqNumAt(f, b)
        \/ b \in DOMAIN chunk /\ e.obj = id /\ SeqNumAt(e, b) = chunk[b]
    BY <1>2 DEF Grown
  <2>2. ASSUME NEW f \in m1, Covers(f, b), e.obj = f.obj, SeqNumAt(e, b) = SeqNumAt(f, b)
        PROVE  \/ \E h \in m0 : Covers(h, b) /\ e.obj = h.obj /\ SeqNumAt(e, b) = SeqNumAt(h, b)
               \/ b \in DOMAIN chunk /\ e.obj = id /\ SeqNumAt(e, b) = chunk[b]
    <3>1. \/ \E h \in m0 : Covers(h, b) /\ f.obj = h.obj /\ SeqNumAt(f, b) = SeqNumAt(h, b)
          \/ b \in DOMAIN chunk /\ f.obj = id /\ SeqNumAt(f, b) = chunk[b]
      BY <2>2 DEF Grown
    <3>2. QED BY <2>2, <3>1
  <2>3. QED BY <2>1, <2>2
<1>3. QED BY <1>1, <1>2 DEF Grown

\* The chunk applied: every part of the fold.
LEMMA ApplyGrows ==
    ASSUME NEW N \in Nat, NEW chunk, ChunkOK(chunk, N), NEW id \in Nat, NEW m, IsMap(m)
    PROVE  Grown(m, ApplyChunk(m, chunk, id), chunk, id)
<1> DEFINE D == RunStarts(chunk)
           g == CHOOSE h : Applies(h, m, chunk, id, D)
<1>1. D \in SUBSET (0..N) /\ D \subseteq DOMAIN chunk
  BY DEF ChunkOK, RunStarts
<1> HIDE DEF D
<1>2. Applies(g, m, chunk, id, D)
  <2>1. \E h : Applies(h, m, chunk, id, D)
    BY <1>1, AppliesExists
  <2>2. QED BY <2>1
<1>3. ApplyChunk(m, chunk, id) = g[D]
  BY ApplyChunkIs DEF D
<1> HIDE DEF g
<1> DEFINE T == {s \in SUBSET D : ~Grown(m, g[s], chunk, id)}
<1>4. ASSUME T # {} PROVE FALSE
  <2>1. T \in SUBSET (SUBSET D) /\ T # {} /\ IsFiniteSet(D)
    BY <1>1, <1>4, BelowFinite
  <2>2. PICK s \in T : \A t \in T : t \subseteq s => t = s
    <3> HIDE DEF T
    <3>1. QED BY ONLY <2>1, Smallest
  <2>3. s \in SUBSET D /\ ~Grown(m, g[s], chunk, id)
    OBVIOUS
  <2>4. /\ s = {} => g[s] = m
        /\ s # {} => g[s] = Turn(EntryOf(chunk, id, Max(s)), g[s \ {Max(s)}])
    BY <1>2, <2>3, AppliesAt
  <2>5. Grown(m, m, chunk, id)
    BY DEF Grown
  <2>6. s # {}
    BY <2>3, <2>4, <2>5
  <2>7. s \in SUBSET (0..N)
    BY <1>1, <2>3
  <2>8. Max(s) \in s
    BY <2>6, <2>7, MaxIs
  <2> DEFINE r == s \ {Max(s)}
  <2>9. r \in SUBSET D /\ r \notin T
    BY <2>2, <2>3, <2>8
  <2>10. Grown(m, g[r], chunk, id) /\ IsMap(g[r])
    BY <2>9 DEF Grown
  <2>11. Max(s) \in DOMAIN chunk
    BY <1>1, <2>3, <2>8
  <2> HIDE DEF r
  <2>12. Grown(g[r], Turn(EntryOf(chunk, id, Max(s)), g[r]), chunk, id)
    BY <2>10, <2>11, TurnGrows
  <2>13. g[s] = Turn(EntryOf(chunk, id, Max(s)), g[r])
    BY <2>4, <2>6 DEF r
  <2>14. Grown(m, g[s], chunk, id)
    BY <2>10, <2>12, <2>13, GrownTwice
  <2>15. QED BY <2>3, <2>14
<1>5. D \notin T
  BY <1>4
<1>6. QED BY <1>3, <1>5

\* The SeqNum a map has a block under is that of the entry that covers it.
LEMMA SeqInIs ==
    ASSUME NEW m, IsMap(m), NEW b \in Nat
    PROVE  /\ SeqIn(m, b) \in Nat
           /\ \A e \in m : Covers(e, b) => Mapped(m, b) /\ SeqIn(m, b) = SeqNumAt(e, b)
           /\ Mapped(m, b) => \E e \in m : Covers(e, b) /\ SeqIn(m, b) = SeqNumAt(e, b)
           /\ ~Mapped(m, b) => SeqIn(m, b) = 0
<1>1. ASSUME NEW e \in m, Covers(e, b)
      PROVE  Mapped(m, b) /\ SeqIn(m, b) = SeqNumAt(e, b) /\ SeqNumAt(e, b) \in Nat
  <2>1. Mapped(m, b) /\ Resolve(m, b) = e
    BY <1>1, ResolveIs
  <2>2. IsExtent(e)
    BY DEF IsMap
  <2>3. SeqNumAt(e, b) \in Nat
    BY <1>1, <2>2, ExtentType
  <2>4. QED BY <2>1, <2>3 DEF SeqIn
<1>2. Mapped(m, b) => \E e \in m : Covers(e, b)
  BY DEF Mapped
<1>3. ~Mapped(m, b) => SeqIn(m, b) = 0
  BY DEF SeqIn
<1>4. QED BY <1>1, <1>2, <1>3

\* A block of a grown map has the SeqNum it had or the chunk's.
LEMMA GrownSeq ==
    ASSUME NEW m0, IsMap(m0), NEW m1, NEW chunk, NEW id, Grown(m0, m1, chunk, id),
           NEW b \in Nat
    PROVE  SeqIn(m1, b) = SeqIn(m0, b) \/ (b \in DOMAIN chunk /\ SeqIn(m1, b) = chunk[b])
<1>1. IsMap(m1) /\ (Mapped(m0, b) => Mapped(m1, b))
  BY DEF Grown
<1>2. CASE ~Mapped(m1, b)
  BY <1>1, <1>2 DEF SeqIn
<1>3. CASE Mapped(m1, b)
  <2>1. PICK e \in m1 : Covers(e, b) /\ SeqIn(m1, b) = SeqNumAt(e, b)
    BY <1>1, <1>3, SeqInIs
  <2>2. \/ \E f \in m0 : Covers(f, b) /\ SeqNumAt(e, b) = SeqNumAt(f, b)
        \/ b \in DOMAIN chunk /\ SeqNumAt(e, b) = chunk[b]
    BY <2>1 DEF Grown
  <2>3. \A f \in m0 : Covers(f, b) => SeqIn(m0, b) = SeqNumAt(f, b)
    BY SeqInIs
  <2>4. QED BY <2>1, <2>2, <2>3
<1>4. QED BY <1>2, <1>3

-----------------------------------------------------------------------------
(* The data of a volume: records, chunks, checkpoints and maps.            *)

Rec == Blocks \X (1..MaxSeqNum)
IsCkpt(f) == \E D \in SUBSET Blocks : f \in [D -> [obj : Nat, off : Nat, seq : 1..MaxSeqNum]]
IsChunk(j) == \E D \in SUBSET Blocks : D # {} /\ j \in [D -> 1..MaxSeqNum]

\* The map covers blocks of the volume, in chunks that have an ObjectID.
MapOK(m, id) ==
    /\ IsMap(m)
    /\ \A e \in m : /\ e.obj < id
                    /\ \A b \in Nat : Covers(e, b) =>
                           b \in Blocks /\ SeqNumAt(e, b) \in 1..MaxSeqNum

\* The records of some segments, the map an open loads.
LoggedIn(s) == UNION {s[i] : i \in DOMAIN s}
LoadedFrom(c, n, l) ==
    IF l # {} THEN CHOOSE f \in l : TRUE
    ELSE IF c.wall \in DOMAIN n THEN n[c.wall] ELSE None

\* The model's names for them, in the state before and after a step.
LEMMA Names ==
    /\ Logged = LoggedIn(segments) /\ Logged' = LoggedIn(segments')
    /\ Loaded = LoadedFrom(config, numbered, live)
    /\ Loaded' = LoadedFrom(config', numbered', live')
    /\ \A b : MapSeq(b) = SeqIn(lookup, b) /\ MapSeq(b)' = SeqIn(lookup', b)
BY DEF Logged, LoggedIn, Loaded, LoadedFrom, None, MapSeq, SeqIn

\* The block numbers have a bound.
LEMMA BlockBound ==
    \E N \in Nat : Blocks \subseteq 0..N
BY VolumeAssumption, FiniteBound

\* A record is a block and a SeqNum.
LEMMA RecIs ==
    /\ \A r \in Rec : /\ r[1] \in Blocks /\ r[2] \in 1..MaxSeqNum /\ r[2] \in Nat
                      /\ r = <<r[1], r[2]>>
    /\ \A b \in Blocks, s \in 1..MaxSeqNum : <<b, s>> \in Rec
BY BoundAssumption DEF Rec

\* A checkpoint's records.
LEMMA CkptIs ==
    ASSUME NEW f, IsCkpt(f)
    PROVE  /\ DOMAIN f \subseteq Blocks
           /\ \A b \in DOMAIN f : /\ f[b].obj \in Nat /\ f[b].seq \in 1..MaxSeqNum
                                  /\ f[b].seq \in Nat
           /\ \E N \in Nat : Blocks \subseteq 0..N /\ IsFlat(f, N)
<1>1. PICK D \in SUBSET Blocks : f \in [D -> [obj : Nat, off : Nat, seq : 1..MaxSeqNum]]
  BY DEF IsCkpt
<1>2. DOMAIN f = D /\ \A b \in D : f[b] \in [obj : Nat, off : Nat, seq : 1..MaxSeqNum]
  BY <1>1
<1>3. \A b \in D : f[b].obj \in Nat /\ f[b].seq \in 1..MaxSeqNum /\ f[b].seq \in Nat
  BY <1>2, BoundAssumption
<1>4. PICK N \in Nat : Blocks \subseteq 0..N
  BY BlockBound
<1>5. IsFlat(f, N)
  <2>1. D \in SUBSET (0..N)
    BY <1>4
  <2>2. f \in [D -> [obj : Nat, off : Nat, seq : Nat]]
    <3>1. [obj : Nat, off : Nat, seq : 1..MaxSeqNum] \subseteq [obj : Nat, off : Nat, seq : Nat]
      BY BoundAssumption
    <3>2. QED BY <1>1, <3>1
  <2>3. QED BY <2>1, <2>2 DEF IsFlat
<1>6. QED BY <1>2, <1>3, <1>4, <1>5

\* A chunk's blocks.
LEMMA ChunkIs ==
    ASSUME NEW j, IsChunk(j)
    PROVE  /\ DOMAIN j \subseteq Blocks /\ DOMAIN j # {}
           /\ \A b \in DOMAIN j : j[b] \in 1..MaxSeqNum /\ j[b] \in Nat
           /\ \E N \in Nat : Blocks \subseteq 0..N /\ ChunkOK(j, N)
<1>1. PICK D \in SUBSET Blocks : D # {} /\ j \in [D -> 1..MaxSeqNum]
  BY DEF IsChunk
<1>2. DOMAIN j = D /\ \A b \in D : j[b] \in 1..MaxSeqNum /\ j[b] \in Nat
  BY <1>1, BoundAssumption
<1>3. PICK N \in Nat : Blocks \subseteq 0..N
  BY BlockBound
<1>4. ChunkOK(j, N)
  BY <1>2, <1>3 DEF ChunkOK
<1>5. QED BY <1>1, <1>2, <1>3, <1>4

\* The SeqNums of a map.
LEMMA MapIs ==
    ASSUME NEW m, NEW id, MapOK(m, id)
    PROVE  /\ IsMap(m)
           /\ \A b \in Nat : Mapped(m, b) => b \in Blocks
           /\ \A b \in Blocks : /\ b \in Nat
                                /\ SeqIn(m, b) \in 0..MaxSeqNum /\ SeqIn(m, b) \in Nat
                                /\ Mapped(m, b) <=> SeqIn(m, b) # 0
           /\ \A e \in m, b \in Nat : Covers(e, b) => SeqIn(m, b) = SeqNumAt(e, b)
           /\ \A b \in Nat : Mapped(m, b) => \E e \in m : Covers(e, b)
<1>1. IsMap(m)
  BY DEF MapOK
<1>2. \A b \in Blocks : b \in Nat
  BY VolumeAssumption
<1>3. \A e \in m, b \in Nat : Covers(e, b) => /\ b \in Blocks /\ SeqNumAt(e, b) \in 1..MaxSeqNum
                                              /\ SeqIn(m, b) = SeqNumAt(e, b)
  BY <1>1, SeqInIs DEF MapOK
<1>4. \A b \in Nat : /\ Mapped(m, b) => \E e \in m : Covers(e, b)
                     /\ ~Mapped(m, b) => SeqIn(m, b) = 0
  BY DEF Mapped, SeqIn
<1>5. ASSUME NEW b \in Blocks
      PROVE  /\ SeqIn(m, b) \in 0..MaxSeqNum /\ SeqIn(m, b) \in Nat
             /\ Mapped(m, b) <=> SeqIn(m, b) # 0
  <2>1. CASE Mapped(m, b)
    <3>1. SeqIn(m, b) \in 1..MaxSeqNum
      BY <1>2, <1>3, <1>4, <2>1
    <3>2. QED BY <2>1, <3>1, BoundAssumption
  <2>2. CASE ~Mapped(m, b)
    BY <1>2, <1>4, <2>2, BoundAssumption
  <2>3. QED BY <2>1, <2>2
<1>6. QED BY <1>1, <1>2, <1>3, <1>4, <1>5

\* What a map expands to.
LEMMA ExpandOK ==
    ASSUME NEW m, NEW id \in Nat, MapOK(m, id)
    PROVE  /\ IsCkpt(Expand(m))
           /\ \A b \in Blocks : b \in DOMAIN Expand(m) <=> SeqIn(m, b) # 0
           /\ \A b \in DOMAIN Expand(m) : Expand(m)[b].seq = SeqIn(m, b) /\ Expand(m)[b].obj < id
<1>1. PICK N \in Nat : Blocks \subseteq 0..N
  BY BlockBound
<1>2. IsMap(m) /\ \A b \in Blocks : b \in Nat /\ (Mapped(m, b) <=> SeqIn(m, b) # 0)
  BY MapIs
<1>3. ASSUME NEW e \in m PROVE End(e) <= N + 1
  <2>1. IsExtent(e)
    BY <1>2 DEF IsMap
  <2>2. End(e) \in Nat /\ e.start \in Nat /\ e.start < End(e)
    BY <2>1, ExtentType
  <2>3. End(e) - 1 \in Nat /\ Covers(e, End(e) - 1)
    BY <2>2 DEF Covers
  <2>4. End(e) - 1 \in Blocks
    BY <2>3 DEF MapOK
  <2>5. End(e) - 1 \in 0..N
    BY <1>1, <2>4
  <2>6. QED BY <1>1, <2>2, <2>5
<1>4. /\ IsFlat(Expand(m), N)
      /\ DOMAIN Expand(m) = MappedBlocks(m)
      /\ \A b \in DOMAIN Expand(m) :
             /\ Mapped(m, b) /\ b \in Nat
             /\ Expand(m)[b].obj = Resolve(m, b).obj
             /\ Expand(m)[b].seq = SeqNumAt(Resolve(m, b), b)
             /\ Resolve(m, b) \in m /\ Covers(Resolve(m, b), b)
  BY <1>2, <1>3, ExpandIs
<1>5. MappedBlocks(m) \subseteq Nat /\ \A b \in Nat : b \in MappedBlocks(m) <=> Mapped(m, b)
  BY <1>2, MappedBlocksIs
<1>6. \A b \in Blocks : b \in DOMAIN Expand(m) <=> SeqIn(m, b) # 0
  BY <1>2, <1>4, <1>5
<1>7. ASSUME NEW b \in DOMAIN Expand(m)
      PROVE  /\ b \in Blocks /\ Expand(m)[b].seq = SeqIn(m, b) /\ Expand(m)[b].obj < id
             /\ Expand(m)[b].seq \in 1..MaxSeqNum
  <2>1. Resolve(m, b) \in m /\ Covers(Resolve(m, b), b) /\ b \in Nat /\ Mapped(m, b)
    BY <1>4
  <2>2. b \in Blocks /\ SeqNumAt(Resolve(m, b), b) \in 1..MaxSeqNum /\ Resolve(m, b).obj < id
    BY <2>1 DEF MapOK
  <2>3. SeqIn(m, b) = SeqNumAt(Resolve(m, b), b)
    BY <2>1 DEF SeqIn
  <2>4. QED BY <1>4, <2>2, <2>3
<1>8. IsCkpt(Expand(m))
  <2> DEFINE f == Expand(m)
  <2>1. /\ f = [b \in DOMAIN f |-> f[b]]
        /\ \A b \in DOMAIN f : f[b] \in [obj : Nat, off : Nat, seq : Nat]
    BY <1>4, FlatType
  <2> HIDE DEF f
  <2>2. \A b \in DOMAIN f : f[b].seq \in 1..MaxSeqNum /\ b \in Blocks
    BY <1>7 DEF f
  <2>3. \A b \in DOMAIN f : f[b] \in [obj : Nat, off : Nat, seq : 1..MaxSeqNum]
    <3>1. TAKE b \in DOMAIN f
    <3>2. f[b] \in [obj : Nat, off : Nat, seq : Nat] /\ f[b].seq \in 1..MaxSeqNum
      BY <2>1, <2>2
    <3>3. QED BY <3>2
  <2>4. DOMAIN f \in SUBSET Blocks
    BY <2>2
  <2>5. f \in [DOMAIN f -> [obj : Nat, off : Nat, seq : 1..MaxSeqNum]]
    BY <2>1, <2>3
  <2>6. QED BY <2>4, <2>5 DEF IsCkpt, f
<1>9. QED BY <1>6, <1>7, <1>8

\* What a checkpoint loads as.
LEMMA CoalesceOK ==
    ASSUME NEW f, IsCkpt(f), NEW id \in Nat, \A b \in DOMAIN f : f[b].obj < id
    PROVE  /\ MapOK(Coalesce(f), id)
           /\ \A b \in Blocks : SeqIn(Coalesce(f), b) = IF b \in DOMAIN f THEN f[b].seq ELSE 0
<1> DEFINE m == Coalesce(f)
<1>1. PICK N \in Nat : Blocks \subseteq 0..N /\ IsFlat(f, N)
  BY CkptIs
<1>2. /\ IsMap(m)
      /\ \A e \in m, c \in Nat :
            Covers(e, c) => /\ c \in DOMAIN f /\ e.obj = f[c].obj /\ SeqNumAt(e, c) = f[c].seq
      /\ \A c \in DOMAIN f : Mapped(m, c)
  BY <1>1, CoalesceIsMap
<1> HIDE DEF m
<1>3. DOMAIN f \subseteq Blocks /\ \A b \in DOMAIN f : f[b].seq \in 1..MaxSeqNum
  BY CkptIs
<1>4. ASSUME NEW e \in m PROVE e.obj < id
  <2>1. IsExtent(e)
    BY <1>2 DEF IsMap
  <2>2. e.start \in Nat /\ e.start < End(e)
    BY <2>1, ExtentType
  <2>3. Covers(e, e.start)
    BY <2>2 DEF Covers
  <2>4. QED BY <1>2, <2>2, <2>3
<1>5. MapOK(m, id)
  BY <1>2, <1>3, <1>4 DEF MapOK
<1>6. ASSUME NEW b \in Blocks PROVE SeqIn(m, b) = IF b \in DOMAIN f THEN f[b].seq ELSE 0
  <2>1. b \in Nat
    BY VolumeAssumption
  <2>2. CASE b \in DOMAIN f
    <3>1. PICK e \in m : Covers(e, b)
      BY <1>2, <2>2 DEF Mapped
    <3>2. SeqIn(m, b) = SeqNumAt(e, b)
      BY <1>2, <2>1, <3>1, SeqInIs
    <3>3. QED BY <1>2, <2>1, <2>2, <3>1, <3>2
  <2>3. CASE b \notin DOMAIN f
    <3>1. ~Mapped(m, b)
      BY <1>2, <2>1, <2>3 DEF Mapped
    <3>2. QED BY <2>3, <3>1 DEF SeqIn
  <2>4. QED BY <2>2, <2>3
<1>7. QED BY <1>5, <1>6 DEF m

\* A chunk applied to a map: each block has the SeqNum it had or the chunk's.
LEMMA ApplyOK ==
    ASSUME NEW m, NEW id \in Nat, MapOK(m, id), NEW j, IsChunk(j)
    PROVE  /\ MapOK(ApplyChunk(m, j, id), id + 1)
           /\ \A b \in Blocks : \/ SeqIn(ApplyChunk(m, j, id), b) = SeqIn(m, b)
                                \/ b \in DOMAIN j /\ SeqIn(ApplyChunk(m, j, id), b) = j[b]
<1> DEFINE v == ApplyChunk(m, j, id)
<1>1. PICK N \in Nat : Blocks \subseteq 0..N /\ ChunkOK(j, N)
  BY ChunkIs
<1>2. IsMap(m)
  BY DEF MapOK
<1>3. Grown(m, v, j, id)
  BY <1>1, <1>2, ApplyGrows
<1> HIDE DEF v
<1>4. \A b \in DOMAIN j : b \in Blocks /\ j[b] \in 1..MaxSeqNum
  BY ChunkIs
<1>5. IsMap(v) /\ \A e \in v : IsExtent(e)
  BY <1>3 DEF Grown, IsMap
<1>6. \A f \in m : IsExtent(f)
  BY <1>2 DEF IsMap
<1>7. ASSUME NEW e \in v, NEW b \in Nat, Covers(e, b)
      PROVE  b \in Blocks /\ SeqNumAt(e, b) \in 1..MaxSeqNum /\ e.obj < id + 1
  <2>1. \/ \E f \in m : Covers(f, b) /\ e.obj = f.obj /\ SeqNumAt(e, b) = SeqNumAt(f, b)
        \/ b \in DOMAIN j /\ e.obj = id /\ SeqNumAt(e, b) = j[b]
    BY <1>3, <1>7 DEF Grown
  <2>2. CASE \E f \in m : Covers(f, b) /\ e.obj = f.obj /\ SeqNumAt(e, b) = SeqNumAt(f, b)
    <3>1. PICK f \in m : Covers(f, b) /\ e.obj = f.obj /\ SeqNumAt(e, b) = SeqNumAt(f, b)
      BY <2>2
    <3>2. b \in Blocks /\ SeqNumAt(f, b) \in 1..MaxSeqNum /\ f.obj < id
      BY <3>1 DEF MapOK
    <3>3. f.obj \in Nat
      BY <1>6, ExtentType
    <3>4. QED BY <3>1, <3>2, <3>3
  <2>3. CASE b \in DOMAIN j /\ e.obj = id /\ SeqNumAt(e, b) = j[b]
    BY <1>4, <2>3
  <2>4. QED BY <2>1, <2>2, <2>3
<1>8. ASSUME NEW e \in v PROVE e.obj < id + 1
  <2>1. e.start \in Nat /\ e.start < End(e)
    BY <1>5, ExtentType
  <2>2. Covers(e, e.start)
    BY <2>1 DEF Covers
  <2>3. QED BY <1>7, <2>1, <2>2
<1>9. MapOK(v, id + 1)
  BY <1>5, <1>7, <1>8 DEF MapOK
<1>10. \A b \in Blocks : SeqIn(v, b) = SeqIn(m, b) \/ (b \in DOMAIN j /\ SeqIn(v, b) = j[b])
  <2>1. \A b \in Blocks : b \in Nat
    BY VolumeAssumption
  <2>2. QED BY <1>2, <1>3, <2>1, GrownSeq
<1>11. QED BY <1>9, <1>10 DEF v

\* Deduplication keeps one record of each block, the newest.
LEMMA NewestIs ==
    ASSUME NEW R \in SUBSET Rec, NEW f, f = Newest(R)
    PROVE  /\ DOMAIN f = {r[1] : r \in R} /\ DOMAIN f \subseteq Blocks
           /\ \A b \in DOMAIN f : f[b] \in 1..MaxSeqNum /\ <<b, f[b]>> \in R
           /\ \A r \in R : r[1] \in DOMAIN f /\ r[2] <= f[r[1]]
<1>1. DOMAIN f = {r[1] : r \in R}
  BY DEF Newest
<1>2. \A r \in R : r[1] \in Blocks /\ r[2] \in 1..MaxSeqNum /\ r = <<r[1], r[2]>>
  BY RecIs
<1>3. ASSUME NEW b \in DOMAIN f
      PROVE  /\ f[b] \in 1..MaxSeqNum /\ <<b, f[b]>> \in R
             /\ \A r \in R : r[1] = b => r[2] <= f[b]
  <2> DEFINE S == {r[2] : r \in {x \in R : x[1] = b}}
  <2>1. f[b] = Max(S)
    BY <1>1 DEF Newest
  <2>2. S \in SUBSET (0..MaxSeqNum) /\ S # {}
    BY <1>1, <1>2
  <2>3. \A r \in R : r[1] = b => r[2] \in S
    OBVIOUS
  <2>4. \A s \in S : s \in 1..MaxSeqNum /\ <<b, s>> \in R
    BY <1>2
  <2> HIDE DEF S
  <2>5. Max(S) \in S /\ \A y \in S : y <= Max(S)
    BY <2>2, BoundAssumption, MaxIs
  <2>6. QED BY <2>1, <2>3, <2>4, <2>5
<1>4. QED BY <1>1, <1>2, <1>3

\* The chunks of deduplicated records: each block is in one of them, under the
\* newest of its records.
LEMMA ChunksAre ==
    ASSUME NEW R \in SUBSET Rec, NEW J, J = ChunksOf(Newest(R))
    PROVE  /\ \A j \in J : /\ IsChunk(j)
                           /\ \A b \in DOMAIN j : /\ <<b, j[b]>> \in R
                                                  /\ \A r \in R : r[1] = b => r[2] <= j[b]
           /\ \A j, k \in J : j # k => DOMAIN j \cap DOMAIN k = {}
           /\ \A r \in R : \E j \in J : r[1] \in DOMAIN j
<1> DEFINE f == Newest(R)
           D == DOMAIN f
           pos(b) == Cardinality({x \in D : x < b})
           q(b) == pos(b) \div ChunkBlocks
           part(k) == {b \in D : q(b) = k}
           chunk(c) == [b \in part(q(c)) |-> f[b]]
<1>1. /\ D \subseteq Blocks
      /\ \A b \in D : f[b] \in 1..MaxSeqNum /\ <<b, f[b]>> \in R
      /\ \A r \in R : r[1] \in D /\ r[2] <= f[r[1]]
  BY NewestIs
<1>2. J = {chunk(c) : c \in D}
  BY DEF ChunksOf
<1> HIDE DEF f, q
<1>3. ASSUME NEW c \in D
      PROVE  /\ DOMAIN chunk(c) = part(q(c)) /\ c \in DOMAIN chunk(c)
             /\ \A b \in DOMAIN chunk(c) : b \in D /\ chunk(c)[b] = f[b] /\ q(b) = q(c)
             /\ \A b \in D : b \in DOMAIN chunk(c) <=> q(b) = q(c)
  OBVIOUS
<1>4. \A c, d \in D : q(c) = q(d) => chunk(c) = chunk(d)
  OBVIOUS
<1>5. ASSUME NEW c \in D PROVE IsChunk(chunk(c))
  <2>1. part(q(c)) \in SUBSET Blocks /\ part(q(c)) # {}
    BY <1>1
  <2>2. chunk(c) \in [part(q(c)) -> 1..MaxSeqNum]
    BY <1>1
  <2> HIDE DEF chunk, part
  <2>3. QED BY <2>1, <2>2 DEF IsChunk
<1> HIDE DEF chunk
<1>6. ASSUME NEW j \in J
      PROVE  /\ IsChunk(j)
             /\ \A b \in DOMAIN j : <<b, j[b]>> \in R /\ \A r \in R : r[1] = b => r[2] <= j[b]
  <2>1. PICK c \in D : j = chunk(c)
    BY <1>2
  <2>2. \A b \in DOMAIN j : b \in D /\ j[b] = f[b]
    BY <1>3, <2>1
  <2>3. QED BY <1>1, <1>5, <2>1, <2>2
<1>7. ASSUME NEW j \in J, NEW k \in J, j # k PROVE DOMAIN j \cap DOMAIN k = {}
  <2>1. PICK c \in D, d \in D : j = chunk(c) /\ k = chunk(d)
    BY <1>2
  <2>2. q(c) # q(d)
    BY <1>4, <1>7, <2>1
  <2>3. QED BY <1>3, <2>1, <2>2
<1>8. ASSUME NEW r \in R PROVE \E j \in J : r[1] \in DOMAIN j
  <2>1. r[1] \in D
    BY <1>1
  <2>2. chunk(r[1]) \in J /\ r[1] \in DOMAIN chunk(r[1])
    BY <1>2, <1>3, <2>1
  <2>3. QED BY <2>2
<1>9. QED BY <1>6, <1>7, <1>8

\* The records of the segments.
LEMMA LoggedIs ==
    ASSUME NEW s \in Seq(SUBSET Rec)
    PROVE  /\ LoggedIn(s) \in SUBSET Rec
           /\ s # <<>> => s[Len(s)] \in SUBSET LoggedIn(s)
           /\ \A i \in 1..Len(s) : s[i] \in SUBSET LoggedIn(s) /\ s[i] \in SUBSET Rec
BY DEF LoggedIn

\* Appending to the open segment.
LEMMA AppendIs ==
    ASSUME segments \in Seq(SUBSET Rec), segments # <<>>, NEW R \in SUBSET Rec,
           NEW v, v = AppendToWAL(R)
    PROVE  /\ v \in Seq(SUBSET Rec) /\ Len(v) = Len(segments) /\ v # <<>>
           /\ v[Len(segments)] = segments[Len(segments)] \cup R
           /\ LoggedIn(v) = LoggedIn(segments) \cup R
<1> DEFINE n == Len(segments)
<1>1. n \in Nat /\ n >= 1 /\ n \in 1..n /\ DOMAIN segments = 1..n
  OBVIOUS
<1>2. /\ DOMAIN v = 1..n /\ v = [i \in 1..n |-> v[i]]
      /\ v[n] = segments[n] \cup R /\ \A i \in 1..n : i # n => v[i] = segments[i]
  BY <1>1 DEF AppendToWAL
<1>3. \A i \in 1..n : segments[i] \in SUBSET Rec
  BY <1>1
<1> HIDE DEF n
<1>4. \A i \in 1..n : v[i] \in SUBSET Rec
  BY <1>2, <1>3
<1>5. v \in Seq(SUBSET Rec) /\ Len(v) = n /\ v # <<>>
  <2>1. v \in [1..n -> SUBSET Rec]
    BY <1>2, <1>4
  <2>2. v \in Seq(SUBSET Rec) /\ Len(v) = n
    BY <1>1, <2>1, SeqDef, LenProperties
  <2>3. QED BY <1>1, <2>2
<1>6. LoggedIn(v) = LoggedIn(segments) \cup R
  <2>1. ASSUME NEW x \in LoggedIn(v) PROVE x \in LoggedIn(segments) \cup R
    <3>1. PICK i \in 1..n : x \in v[i]
      BY <1>2 DEF LoggedIn
    <3>2. QED BY <1>1, <1>2, <3>1 DEF LoggedIn
  <2>2. ASSUME NEW x \in LoggedIn(segments) PROVE x \in LoggedIn(v)
    <3>1. PICK i \in 1..n : x \in segments[i]
      BY <1>1 DEF LoggedIn
    <3>2. x \in v[i]
      BY <1>2, <3>1
    <3>3. QED BY <1>2, <3>2 DEF LoggedIn
  <2>3. ASSUME NEW x \in R PROVE x \in LoggedIn(v)
    BY <1>1, <1>2 DEF LoggedIn
  <2>4. QED BY <2>1, <2>2, <2>3
<1>7. QED BY <1>1, <1>2, <1>5, <1>6 DEF n

\* Opening an empty segment.
LEMMA NewSegment ==
    ASSUME NEW s \in Seq(SUBSET Rec), NEW v, v = Append(s, {})
    PROVE  /\ v \in Seq(SUBSET Rec) /\ v # <<>> /\ Len(v) = Len(s) + 1 /\ v[Len(v)] = {}
           /\ LoggedIn(v) = LoggedIn(s)
<1>1. /\ v \in Seq(SUBSET Rec) /\ Len(v) = Len(s) + 1 /\ v[Len(v)] = {}
      /\ \A i \in 1..Len(s) : v[i] = s[i]
      /\ DOMAIN v = 1..(Len(s) + 1) /\ DOMAIN s = 1..Len(s) /\ Len(s) \in Nat
  OBVIOUS
<1>2. \A i \in 1..(Len(s) + 1) : i \in 1..Len(s) \/ v[i] = {}
  BY <1>1
<1>3. LoggedIn(v) = LoggedIn(s)
  BY <1>1, <1>2 DEF LoggedIn
<1>4. QED BY <1>1, <1>3

\* Removing a segment.
LEMMA TailIsLess ==
    ASSUME NEW s \in Seq(SUBSET Rec), s # <<>>
    PROVE  /\ Tail(s) \in Seq(SUBSET Rec) /\ Head(s) \in SUBSET LoggedIn(s)
           /\ LoggedIn(s) = LoggedIn(Tail(s)) \cup Head(s)
<1> DEFINE t == Tail(s)
<1>1. /\ Len(s) \in Nat /\ Len(s) >= 1 /\ DOMAIN s = 1..Len(s)
      /\ t \in Seq(SUBSET Rec) /\ Len(t) = Len(s) - 1 /\ DOMAIN t = 1..Len(t)
      /\ Head(s) = s[1]
      /\ \A i \in 1..Len(t) : t[i] = s[i + 1]
  OBVIOUS
<1> HIDE DEF t
<1>2. \A i \in 1..Len(s) : i = 1 \/ (i - 1 \in 1..Len(t) /\ s[i] = t[i - 1])
  <2>1. TAKE i \in 1..Len(s)
  <2>2. CASE i # 1
    <3>1. i - 1 \in 1..Len(t) /\ (i - 1) + 1 = i
      BY <1>1, <2>2
    <3>2. QED BY <1>1, <3>1
  <2>3. QED BY <2>2
<1>3. \A i \in 1..Len(t) : i + 1 \in 1..Len(s) /\ t[i] = s[i + 1]
  BY <1>1
<1>4. LoggedIn(s) = LoggedIn(t) \cup s[1]
  <2>1. ASSUME NEW x \in LoggedIn(s) PROVE x \in LoggedIn(t) \cup s[1]
    <3>1. PICK i \in 1..Len(s) : x \in s[i]
      BY <1>1 DEF LoggedIn
    <3>2. QED BY <1>1, <1>2, <3>1 DEF LoggedIn
  <2>2. ASSUME NEW x \in LoggedIn(t) PROVE x \in LoggedIn(s)
    <3>1. PICK i \in 1..Len(t) : x \in t[i]
      BY <1>1 DEF LoggedIn
    <3>2. QED BY <1>1, <1>3, <3>1 DEF LoggedIn
  <2>3. s[1] \in SUBSET LoggedIn(s)
    BY <1>1 DEF LoggedIn
  <2>4. QED BY <2>1, <2>2, <2>3
<1>5. QED BY <1>1, <1>4 DEF t

\* Removing any segment.
LEMMA WithoutIsLess ==
    ASSUME segments \in Seq(SUBSET Rec), NEW i \in 1..Len(segments)
    PROVE  /\ Without(i) \in Seq(SUBSET Rec) /\ segments[i] \in SUBSET LoggedIn(segments)
           /\ LoggedIn(segments) = LoggedIn(Without(i)) \cup segments[i]
<1> DEFINE n == Len(segments)
           u == SubSeq(segments, 1, i - 1)
           w == SubSeq(segments, i + 1, n)
           v == u \o w
<1>1. n \in Nat /\ n >= 1 /\ i \in Nat /\ 1 <= i /\ i <= n /\ DOMAIN segments = 1..n
  OBVIOUS
<1>2. /\ u \in Seq(SUBSET Rec) /\ Len(u) = i - 1 /\ \A k \in 1..(i - 1) : u[k] = segments[k]
  BY <1>1
<1>3. /\ w \in Seq(SUBSET Rec) /\ Len(w) = n - i /\ \A k \in 1..(n - i) : w[k] = segments[i + k]
  <2>2. w \in Seq(SUBSET Rec)
    BY <1>1, SubSeqProperties
  <2>3. Len(w) = IF i + 1 <= n THEN (n - (i + 1)) + 1 ELSE 0
    BY <1>1
  <2>5. ASSUME NEW k \in 1..(n - i) PROVE w[k] = segments[i + k]
    <3>1. k \in 1..((n - (i + 1)) + 1) /\ ((i + 1) + k) - 1 = i + k
      BY <1>1
    <3>2. w[k] = segments[((i + 1) + k) - 1]
      BY <1>1, <3>1
    <3>3. QED BY <3>1, <3>2
  <2> HIDE DEF w, n
  <2>4. Len(w) = n - i
    BY <1>1, <2>3
  <2>6. QED BY <2>2, <2>4, <2>5
<1>4. v = Without(i)
  BY DEF Without
<1> HIDE DEF u, w, n
<1>5. /\ v \in Seq(SUBSET Rec) /\ Len(v) = n - 1 /\ DOMAIN v = 1..(n - 1)
      /\ \A k \in 1..(n - 1) : v[k] = IF k <= i - 1 THEN u[k] ELSE w[k - (i - 1)]
  <2>1. Len(u) + Len(w) = n - 1
    BY <1>1, <1>2, <1>3
  <2>2. /\ v \in Seq(SUBSET Rec) /\ Len(v) = Len(u) + Len(w)
        /\ \A k \in 1..(Len(u) + Len(w)) : v[k] = IF k <= Len(u) THEN u[k] ELSE w[k - Len(u)]
    BY <1>2, <1>3, ConcatProperties
  <2>3. DOMAIN v = 1..(n - 1)
    BY <2>1, <2>2
  <2> HIDE DEF v
  <2>4. QED BY <1>2, <2>1, <2>2, <2>3
<1> HIDE DEF v
<1>6. ASSUME NEW k \in 1..(n - 1) PROVE \E l \in 1..n : v[k] = segments[l]
  <2>1. CASE k <= i - 1
    BY <1>1, <1>2, <1>5, <2>1
  <2>2. CASE ~(k <= i - 1)
    <3>1. k - (i - 1) \in 1..(n - i) /\ i + (k - (i - 1)) = k + 1 /\ k + 1 \in 1..n
      BY <1>1, <2>2
    <3>2. v[k] = w[k - (i - 1)]
      BY <1>5, <2>2
    <3>3. w[k - (i - 1)] = segments[i + (k - (i - 1))]
      BY <1>3, <3>1
    <3>4. QED BY <3>1, <3>2, <3>3
  <2>3. QED BY <2>1, <2>2
<1>7. ASSUME NEW l \in 1..n, l # i PROVE \E k \in 1..(n - 1) : v[k] = segments[l]
  <2>1. CASE l < i
    <3>1. l \in 1..(i - 1) /\ l \in 1..(n - 1) /\ l <= i - 1
      BY <1>1, <2>1
    <3>2. QED BY <1>2, <1>5, <3>1
  <2>2. CASE ~(l < i)
    <3> DEFINE k == l - 1
    <3>1. k \in 1..(n - 1) /\ ~(k <= i - 1) /\ k - (i - 1) \in 1..(n - i)
          /\ i + (k - (i - 1)) = l
      BY <1>1, <1>7, <2>2
    <3> HIDE DEF k
    <3>2. v[k] = w[k - (i - 1)] /\ w[k - (i - 1)] = segments[i + (k - (i - 1))]
      BY <1>3, <1>5, <3>1
    <3>3. QED BY <3>1, <3>2
  <2>3. QED BY <2>1, <2>2
<1>8. LoggedIn(segments) = LoggedIn(v) \cup segments[i] /\ segments[i] \in SUBSET LoggedIn(segments)
  <2>1. segments[i] \in SUBSET LoggedIn(segments)
    BY <1>1 DEF LoggedIn
  <2>2. ASSUME NEW x \in LoggedIn(v) PROVE x \in LoggedIn(segments)
    BY <1>1, <1>5, <1>6 DEF LoggedIn
  <2>3. ASSUME NEW x \in LoggedIn(segments), x \notin segments[i] PROVE x \in LoggedIn(v)
    <3>1. PICK l \in 1..n : x \in segments[l]
      BY <1>1 DEF LoggedIn
    <3>2. PICK k \in 1..(n - 1) : v[k] = segments[l]
      BY <1>7, <2>3, <3>1
    <3>3. QED BY <1>5, <3>1, <3>2 DEF LoggedIn
  <2>4. QED BY <2>1, <2>2, <2>3
<1>9. QED BY <1>4, <1>5, <1>8

-----------------------------------------------------------------------------
(* The types of the variables.                                             *)

Steps(p) ==
    CASE p = "down"    -> {"idle"}
      [] p = "serving" -> {"idle", "upload", "live"}
      [] p = "recover" -> {"upload", "config", "numbered", "live", "remove"}
      [] p = "closing" -> {"upload", "config", "numbered", "live", "remove"}

MemTypes ==
    /\ writes \in SUBSET Rec /\ hot \in [Blocks -> 0..MaxSeqNum]
    /\ seqNum \in 0..MaxSeqNum /\ objNum \in Nat /\ wallNum \in Nat /\ dirty \in BOOLEAN
    /\ MapOK(lookup, objNum)

DiskTypes ==
    /\ segments \in Seq(SUBSET Rec)
    /\ config \in [seq : 0..MaxSeqNum, obj : Nat, wall : Nat]
    /\ \A w \in DOMAIN numbered : w \in Nat /\ IsCkpt(numbered[w])
    /\ live # {} => \E f : IsCkpt(f) /\ live = {f}

\* Only a serving volume has records in Writes.Blocks, Hot is empty until it
\* serves, and an open volume has a segment to append to.
CtlTypes ==
    /\ phase \in {"down", "recover", "serving", "closing"} /\ at \in Steps(phase)
    /\ closeErr \in BOOLEAN
    /\ \A j \in jobs : IsChunk(j)
    /\ at # "upload" => jobs = {}
    /\ phase # "serving" => writes = {}
    /\ phase \in {"down", "recover"} => hot = Zero
    /\ phase = "serving" => segments # <<>>

HistTypes ==
    /\ promised \in [Blocks -> 0..MaxSeqNum]
    /\ lost \subseteq Losses \X Blocks
    /\ faults \in Nat /\ opens \in Nat

Types == MemTypes /\ DiskTypes /\ CtlTypes /\ HistTypes

\* What an open loads is a checkpoint.
LEMMA LoadedIs ==
    ASSUME NEW c, NEW n, NEW l,
           \A w \in DOMAIN n : IsCkpt(n[w]), l # {} => \E f : IsCkpt(f) /\ l = {f}
    PROVE  /\ IsCkpt(LoadedFrom(c, n, l))
           /\ \A f : l = {f} => LoadedFrom(c, n, l) = f
           /\ l = {} /\ c.wall \in DOMAIN n => LoadedFrom(c, n, l) = n[c.wall]
           /\ l = {} /\ c.wall \notin DOMAIN n => LoadedFrom(c, n, l) = None
           /\ DOMAIN None = {}
<1>1. DOMAIN None = {} /\ None \in [{} -> [obj : Nat, off : Nat, seq : 1..MaxSeqNum]]
  BY DEF None
<1>2. IsCkpt(None)
  BY <1>1 DEF IsCkpt
<1>3. ASSUME NEW f, l = {f} PROVE LoadedFrom(c, n, l) = f
  <2>1. (CHOOSE g \in {f} : TRUE) = f
    OBVIOUS
  <2>2. QED BY <1>3, <2>1 DEF LoadedFrom
<1>4. CASE l # {}
  BY <1>1, <1>3, <1>4
<1>5. CASE l = {}
  <2>1. LoadedFrom(c, n, l) = IF c.wall \in DOMAIN n THEN n[c.wall] ELSE None
    BY <1>5 DEF LoadedFrom
  <2>2. QED BY <1>1, <1>2, <1>5, <2>1
<1>6. QED BY <1>4, <1>5

\* The version a read returns.
LEMMA ReadableIs ==
    ASSUME Types
    PROVE  \A b \in Blocks : /\ Readable(b) \in 0..MaxSeqNum /\ Readable(b) \in Nat
                             /\ hot[b] <= Readable(b) /\ MapSeq(b) <= Readable(b)
                             /\ Readable(b) = hot[b] \/ Readable(b) = MapSeq(b)
<1>1. TAKE b \in Blocks
<1>2. hot[b] \in 0..MaxSeqNum
  BY DEF Types, MemTypes
<1>3. MapSeq(b) \in 0..MaxSeqNum
  BY MapIs, Names DEF Types, MemTypes
<1>4. hot[b] \in Nat /\ MapSeq(b) \in Nat
  BY <1>2, <1>3, BoundAssumption
<1>5. Readable(b) = Max({hot[b], MapSeq(b)})
  BY DEF Readable
<1>6. /\ Readable(b) \in Nat /\ hot[b] <= Readable(b) /\ MapSeq(b) <= Readable(b)
      /\ Readable(b) = hot[b] \/ Readable(b) = MapSeq(b)
  BY <1>4, <1>5, MaxOfTwo
<1>7. QED BY <1>2, <1>3, <1>6

\* The memory of a process that is gone.
LEMMA GoneTypes ==
    ASSUME Gone
    PROVE  MemTypes' /\ CtlTypes'
<1>1. MapOK({}, 0)
  BY DEF MapOK, IsMap, Apart
<1>2. Zero \in [Blocks -> 0..MaxSeqNum]
  BY BoundAssumption DEF Zero
<1>3. MemTypes'
  <2>1. /\ writes' = {} /\ hot' = Zero /\ seqNum' = 0 /\ lookup' = {} /\ dirty' = FALSE
        /\ objNum' = 0 /\ wallNum' = 0
    BY DEF Gone
  <2>2. MapOK(lookup', objNum')
    BY <1>1, <2>1
  <2>3. writes' \in SUBSET Rec /\ hot' \in [Blocks -> 0..MaxSeqNum] /\ seqNum' \in 0..MaxSeqNum
    BY <1>2, <2>1, BoundAssumption
  <2>4. QED BY <2>1, <2>2, <2>3 DEF MemTypes
<1>4. CtlTypes'
  BY DEF CtlTypes, Gone, Steps
<1>5. QED BY <1>3, <1>4

\* A write.
LEMMA WriteTypes ==
    ASSUME Types, NEW b \in Blocks, Write(b)
    PROVE  Types'
<1>1. seqNum + 1 \in 1..MaxSeqNum /\ seqNum + 1 \in 0..MaxSeqNum
  BY BoundAssumption DEF Types, MemTypes, Write
<1>2. <<b, seqNum + 1>> \in Rec
  BY <1>1, RecIs
<1>3. MemTypes'
  BY <1>1, <1>2 DEF Types, MemTypes, Write
<1>4. DiskTypes'
  BY DEF Types, DiskTypes, Write, diskVars
<1>5. CtlTypes'
  BY DEF Types, CtlTypes, Write, ctlVars
<1>6. HistTypes'
  BY DEF Types, HistTypes, Write, histVars
<1>7. QED BY <1>3, <1>4, <1>5, <1>6 DEF Types

\* A flush.
LEMMA FlushTypes ==
    ASSUME Types, Flush
    PROVE  Types'
<1>1. segments \in Seq(SUBSET Rec) /\ segments # <<>> /\ writes \in SUBSET Rec
  BY DEF Types, DiskTypes, CtlTypes, MemTypes, Flush
<1>2. segments' \in Seq(SUBSET Rec) /\ segments' # <<>>
  BY <1>1, AppendIs DEF Flush
<1>3. MemTypes'
  BY DEF Types, MemTypes, Flush
<1>4. DiskTypes'
  BY <1>2 DEF Types, DiskTypes, Flush, diskVars
<1>5. CtlTypes'
  BY <1>2 DEF Types, CtlTypes, Flush, ctlVars
<1>6. promised' \in [Blocks -> 0..MaxSeqNum]
  BY ReadableIs DEF Flush
<1>7. HistTypes'
  BY <1>6 DEF Types, HistTypes, Flush
<1>8. QED BY <1>3, <1>4, <1>5, <1>7 DEF Types

\* A flush that fails.
LEMMA PartialFlushTypes ==
    ASSUME Types, PartialFlush
    PROVE  Types'
<1>1. segments \in Seq(SUBSET Rec) /\ segments # <<>> /\ writes \in SUBSET Rec
  BY DEF Types, DiskTypes, CtlTypes, MemTypes, PartialFlush
<1>2. PICK r \in writes :
          /\ segments' = AppendToWAL(Before(r))
          /\ writes' = writes \ Flushed(Before(r))
          /\ lost' = lost \cup {<<"flush", x[1]>> : x \in Flushed(Before(r)) \ Before(r)}
  BY DEF PartialFlush
<1>3. Before(r) \in SUBSET Rec /\ Flushed(Before(r)) \in SUBSET Rec
  BY <1>1 DEF Before, Flushed
<1>4. segments' \in Seq(SUBSET Rec) /\ segments' # <<>>
  BY <1>1, <1>2, <1>3, AppendIs
<1>5. writes' \in SUBSET Rec
  BY <1>1, <1>2
<1>6. MemTypes'
  BY <1>5 DEF Types, MemTypes, PartialFlush
<1>7. DiskTypes'
  BY <1>4 DEF Types, DiskTypes, PartialFlush, diskVars
<1>8. CtlTypes'
  BY <1>4 DEF Types, CtlTypes, PartialFlush, ctlVars
<1>9. lost' \subseteq Losses \X Blocks
  <2>1. \A x \in Flushed(Before(r)) : x[1] \in Blocks
    BY <1>3, RecIs
  <2>2. QED BY <1>2, <2>1 DEF Types, HistTypes, Losses
<1>10. HistTypes'
  BY <1>9 DEF Types, HistTypes, PartialFlush, Fault
<1>11. QED BY <1>6, <1>7, <1>8, <1>10 DEF Types

\* The segment rotated.
LEMMA RotateTypes ==
    ASSUME Types, phase = "serving", NEW R \in SUBSET writes, Rotate(R),
           phase' \in {"serving", "closing"}, closeErr' \in BOOLEAN, faults' \in Nat
    PROVE  Types'
<1>1. segments \in Seq(SUBSET Rec) /\ segments # <<>> /\ R \in SUBSET Rec
  BY DEF Types, DiskTypes, CtlTypes, MemTypes
<1> DEFINE v == AppendToWAL(R)
<1>2. v \in Seq(SUBSET Rec) /\ v # <<>> /\ v[Len(segments)] \in SUBSET Rec
  BY <1>1, AppendIs
<1> HIDE DEF v
<1>3. segments' = Append(v, {}) /\ jobs' = ChunksOf(Newest(v[Len(segments)]))
  BY DEF Rotate, v
<1>4. segments' \in Seq(SUBSET Rec) /\ segments' # <<>>
  BY <1>2, <1>3, NewSegment
<1>5. \A j \in jobs' : IsChunk(j)
  BY <1>2, <1>3, ChunksAre
<1>6. MemTypes'
  BY DEF Types, MemTypes, Rotate
<1>7. DiskTypes'
  BY <1>4 DEF Types, DiskTypes, Rotate, diskVars
<1>8. CtlTypes'
  BY <1>4, <1>5 DEF Types, CtlTypes, Rotate, Steps
<1>9. HistTypes'
  BY DEF Types, HistTypes, Rotate, histVars
<1>10. QED BY <1>6, <1>7, <1>8, <1>9 DEF Types

\* DrainToBackend.
LEMMA StartDrainTypes ==
    ASSUME Types, StartDrain
    PROVE  Types'
<1>1. /\ phase = "serving" /\ Rotate(writes) /\ phase' = phase /\ closeErr' = closeErr
      /\ faults' = faults
  BY DEF StartDrain
<1>2. closeErr \in BOOLEAN /\ faults \in Nat
  BY DEF Types, CtlTypes, HistTypes
<1>3. closeErr' \in BOOLEAN /\ faults' \in Nat /\ phase' \in {"serving", "closing"}
  BY <1>1, <1>2
<1>4. QED BY <1>1, <1>3, RotateTypes

\* Close begins.
LEMMA StartCloseTypes ==
    ASSUME Types, StartClose
    PROVE  Types'
<1>1. phase = "serving" /\ phase' = "closing" /\ closeErr' = FALSE
  BY DEF StartClose
<1>2. closeErr' \in BOOLEAN /\ phase' \in {"serving", "closing"}
  BY <1>1
<1>3. CASE Rotate(writes) /\ UNCHANGED faults
  <2>1. faults' \in Nat
    BY <1>3 DEF Types, HistTypes
  <2>2. QED BY <1>1, <1>2, <1>3, <2>1, RotateTypes
<1>4. CASE Fault /\ \E r \in writes : Rotate(Before(r))
  <2>1. faults' \in Nat
    BY <1>4 DEF Types, HistTypes, Fault
  <2>2. PICK r \in writes : Rotate(Before(r))
    BY <1>4
  <2>3. Before(r) \in SUBSET writes
    BY DEF Before
  <2>4. QED BY <1>1, <1>2, <2>1, <2>2, <2>3, RotateTypes
<1>5. QED BY <1>3, <1>4 DEF StartClose

\* A chunk lands.
LEMMA UploadTypes ==
    ASSUME Types, NEW j \in jobs, Upload(j)
    PROVE  Types'
<1>1. objNum \in Nat /\ MapOK(lookup, objNum) /\ IsChunk(j)
  BY DEF Types, MemTypes, CtlTypes
<1>2. MapOK(lookup', objNum') /\ objNum' \in Nat
  BY <1>1, ApplyOK DEF Upload
<1>3. dirty' \in BOOLEAN
  BY DEF Upload
<1>4. MemTypes'
  BY <1>2, <1>3 DEF Types, MemTypes, Upload
<1>5. DiskTypes'
  BY DEF Types, DiskTypes, Upload, diskVars
<1>6. CtlTypes'
  BY DEF Types, CtlTypes, Upload
<1>7. Misjudged(j) \subseteq Blocks
  BY <1>1, ChunkIs DEF Misjudged
<1>8. lost' \subseteq lost \cup ({"replay"} \X Blocks)
  BY <1>7 DEF Upload
<1>9. HistTypes'
  BY <1>8 DEF Types, HistTypes, Upload, Losses
<1>10. QED BY <1>4, <1>5, <1>6, <1>9 DEF Types

\* A PUT that fails.
LEMMA UploadFailsTypes ==
    ASSUME Types, UploadFails
    PROVE  Types'
<1>1. DiskTypes'
  BY DEF Types, DiskTypes, UploadFails, diskVars
<1>2. HistTypes'
  BY DEF Types, HistTypes, UploadFails, histVars, Fault
<1>3. MemTypes' /\ CtlTypes'
  <2>1. CASE Gone
    BY <2>1, GoneTypes
  <2>2. CASE /\ phase \in {"serving", "closing"}
             /\ jobs' = {} /\ at' = (IF phase = "serving" THEN "idle" ELSE "config")
             /\ UNCHANGED <<memVars, phase, closeErr, upVars>>
    <3>1. MemTypes'
      BY <2>2 DEF Types, MemTypes, memVars
    <3>2. segments' = segments
      BY DEF UploadFails
    <3>3. CtlTypes'
      BY <2>2, <3>2 DEF Types, CtlTypes, memVars, Steps
    <3>4. QED BY <3>1, <3>3
  <2>3. QED BY <2>1, <2>2 DEF UploadFails, OpenFails
<1>4. QED BY <1>1, <1>2, <1>3 DEF Types

\* SeqNum after a replay.
TopSeqNum == Max({seqNum} \cup {r[2] : r \in Logged})

\* It is past every record that was replayed, and not further.
LEMMA ReplayedSeqNum ==
    ASSUME Types
    PROVE  /\ TopSeqNum \in 0..MaxSeqNum /\ seqNum <= TopSeqNum
           /\ \A r \in Logged : r[2] <= TopSeqNum
           /\ TopSeqNum = seqNum \/ \E r \in Logged : TopSeqNum = r[2]
<1> DEFINE S == {seqNum} \cup {r[2] : r \in Logged}
<1>1. Logged \in SUBSET Rec
  BY Names, LoggedIs DEF Types, DiskTypes
<1>2. \A r \in Logged : r[2] \in 0..MaxSeqNum
  BY <1>1, RecIs
<1>3. seqNum \in 0..MaxSeqNum
  BY DEF Types, MemTypes
<1>4. S \in SUBSET (0..MaxSeqNum) /\ S # {} /\ seqNum \in S /\ \A r \in Logged : r[2] \in S
  BY <1>2, <1>3
<1>5. \A s \in S : s = seqNum \/ \E r \in Logged : s = r[2]
  OBVIOUS
<1> HIDE DEF S
<1>6. Max(S) \in S /\ \A y \in S : y <= Max(S)
  BY <1>4, BoundAssumption, MaxIs
<1>7. TopSeqNum = Max(S)
  BY DEF S, TopSeqNum
<1>8. QED BY <1>4, <1>5, <1>6, <1>7

\* The uploads are done.
LEMMA UploadsDoneTypes ==
    ASSUME Types, UploadsDone
    PROVE  Types'
<1>1. seqNum' \in 0..MaxSeqNum
  <2>1. CASE phase = "recover"
    <3>1. seqNum' = TopSeqNum
      BY <2>1 DEF UploadsDone, TopSeqNum
    <3>2. QED BY <3>1, ReplayedSeqNum
  <2>2. CASE phase # "recover"
    BY <2>2 DEF UploadsDone, Types, MemTypes
  <2>3. QED BY <2>1, <2>2
<1>2. MemTypes'
  BY <1>1 DEF Types, MemTypes, UploadsDone
<1>3. DiskTypes'
  BY DEF Types, DiskTypes, UploadsDone, diskVars
<1>4. at' \in Steps(phase)
  BY DEF Types, CtlTypes, UploadsDone, Steps
<1>5. CtlTypes'
  BY <1>4 DEF Types, CtlTypes, UploadsDone
<1>6. HistTypes'
  BY DEF Types, HistTypes, UploadsDone, histVars
<1>7. QED BY <1>2, <1>3, <1>5, <1>6 DEF Types

\* The live checkpoint is written, or not.
LEMMA SaveLiveTypes ==
    ASSUME Types, SaveLiveCheckpoint
    PROVE  Types'
<1>1. dirty' \in BOOLEAN
  BY DEF Types, MemTypes, SaveLiveCheckpoint
<1>2. MemTypes'
  BY <1>1 DEF Types, MemTypes, SaveLiveCheckpoint
<1>3. IsCkpt(Expand(lookup))
  BY ExpandOK DEF Types, MemTypes
<1>4. live' = live \/ live' = {Expand(lookup)}
  BY DEF SaveLiveCheckpoint
<1>5. live' # {} => \E f : IsCkpt(f) /\ live' = {f}
  BY <1>3, <1>4 DEF Types, DiskTypes
<1>6. DiskTypes'
  BY <1>5 DEF Types, DiskTypes, SaveLiveCheckpoint
<1>7. at' \in Steps(phase) /\ jobs = {} /\ phase \in {"recover", "serving", "closing"}
  BY DEF Types, CtlTypes, SaveLiveCheckpoint, Steps
<1>8. CtlTypes'
  BY <1>7 DEF Types, CtlTypes, SaveLiveCheckpoint
<1>9. HistTypes'
  BY DEF Types, HistTypes, SaveLiveCheckpoint, histVars, Fault
<1>10. QED BY <1>2, <1>6, <1>8, <1>9 DEF Types

\* A save that is refused.
LEMMA RefusedTypes ==
    ASSUME Types, at # "upload", NEW next \in {"numbered", "live", "remove"}, Refused(next),
           segments' = segments
    PROVE  MemTypes' /\ CtlTypes' /\ faults' \in Nat
<1>1. faults' \in Nat
  BY DEF Types, HistTypes, Refused, Fault
<1>2. CASE Gone
  BY <1>1, <1>2, GoneTypes
<1>3. CASE /\ phase = "closing" /\ at' = next /\ closeErr' = TRUE
           /\ UNCHANGED <<memVars, phase, jobs, upVars>>
  <2>1. MemTypes'
    BY <1>3 DEF Types, MemTypes, memVars
  <2>2. at' \in Steps(phase') /\ jobs' = {} /\ closeErr' \in BOOLEAN
    BY <1>3 DEF Types, CtlTypes, Steps
  <2>3. CtlTypes'
    BY <1>3, <2>2 DEF Types, CtlTypes, memVars
  <2>4. QED BY <1>1, <2>1, <2>3
<1>4. QED BY <1>2, <1>3 DEF Refused, OpenFails

\* The blocks of which an open would load something else are blocks.
LEMMA LoadedBlocks ==
    ASSUME DiskTypes, DiskTypes'
    PROVE  /\ IsCkpt(Loaded) /\ IsCkpt(Loaded')
           /\ Displaced \subseteq Blocks /\ GoneBack \subseteq Blocks
<1>1. IsCkpt(LoadedFrom(config, numbered, live)) /\ IsCkpt(LoadedFrom(config', numbered', live'))
  <2>1. /\ \A w \in DOMAIN numbered : IsCkpt(numbered[w])
        /\ live # {} => \E f : IsCkpt(f) /\ live = {f}
    BY DEF DiskTypes
  <2>2. /\ \A w \in DOMAIN numbered' : IsCkpt(numbered'[w])
        /\ live' # {} => \E f : IsCkpt(f) /\ live' = {f}
    BY DEF DiskTypes
  <2>3. QED BY <2>1, <2>2, LoadedIs
<1>2. IsCkpt(Loaded) /\ IsCkpt(Loaded')
  BY <1>1, Names
<1>3. DOMAIN Loaded \subseteq Blocks /\ DOMAIN Loaded' \subseteq Blocks
  BY <1>2, CkptIs
<1>4. QED BY <1>2, <1>3 DEF Displaced, GoneBack

\* SaveState.
LEMMA SaveStateTypes ==
    ASSUME Types, SaveState
    PROVE  Types'
<1> DEFINE c == [seq |-> seqNum, obj |-> objNum, wall |-> wallNum]
<1>1. c \in [seq : 0..MaxSeqNum, obj : Nat, wall : Nat]
  BY DEF Types, MemTypes
<1>2. /\ config' \in {c, config} /\ at = "config"
      /\ UNCHANGED <<segments, numbered, live, promised, opens>>
  BY DEF SaveState
<1>3. DiskTypes'
  BY <1>1, <1>2 DEF Types, DiskTypes
<1>4. MemTypes' /\ CtlTypes' /\ faults' \in Nat
  <2>1. CASE at' = "numbered" /\ UNCHANGED <<memVars, phase, jobs, closeErr, upVars, faults>>
    <3>1. MemTypes' /\ faults' \in Nat
      BY <2>1 DEF Types, MemTypes, HistTypes, memVars
    <3>2. at' \in Steps(phase') /\ jobs' = {}
      BY <1>2, <2>1 DEF Types, CtlTypes, Steps
    <3>3. CtlTypes'
      BY <1>2, <2>1, <3>2 DEF Types, CtlTypes, memVars
    <3>4. QED BY <3>1, <3>3
  <2>2. CASE Refused("numbered")
    BY <1>2, <2>2, RefusedTypes
  <2>3. QED BY <2>1, <2>2 DEF SaveState
<1>5. lost' \subseteq Losses \X Blocks
  <2>1. Displaced \subseteq Blocks
    BY <1>3, LoadedBlocks DEF Types
  <2>2. lost' \subseteq lost \cup ({"wall"} \X Blocks)
    BY <2>1 DEF SaveState
  <2>3. QED BY <2>2 DEF Types, HistTypes, Losses
<1>6. HistTypes'
  BY <1>2, <1>4, <1>5 DEF Types, HistTypes
<1>7. QED BY <1>3, <1>4, <1>6 DEF Types

\* SaveBlockState.
LEMMA SaveBlockStateTypes ==
    ASSUME Types, SaveBlockState
    PROVE  Types'
<1> DEFINE c == With(numbered, wallNum, Expand(lookup))
           next == IF phase = "recover" THEN "live" ELSE "remove"
<1>1. IsCkpt(Expand(lookup)) /\ wallNum \in Nat
  BY ExpandOK DEF Types, MemTypes
<1>2. \A w \in DOMAIN c : w \in Nat /\ IsCkpt(c[w])
  BY <1>1 DEF Types, DiskTypes, With
<1>3. numbered' \in {c, numbered} /\ at = "numbered"
      /\ UNCHANGED <<segments, config, live, histVars, opens>>
  BY DEF SaveBlockState
<1> HIDE DEF c
<1>4. DiskTypes'
  BY <1>2, <1>3 DEF Types, DiskTypes
<1>5. next \in {"numbered", "live", "remove"}
  OBVIOUS
<1>6. MemTypes' /\ CtlTypes' /\ faults' \in Nat
  <2>1. CASE /\ at' = next /\ wallNum' = wallNum + 1
             /\ UNCHANGED <<writes, hot, seqNum, lookup, dirty, objNum, phase, jobs,
                            closeErr, upVars, faults>>
    <3>1. MemTypes' /\ faults' \in Nat
      BY <2>1 DEF Types, MemTypes, HistTypes
    <3>2. at' \in Steps(phase') /\ jobs' = {}
      BY <1>3, <2>1 DEF Types, CtlTypes, Steps
    <3>3. CtlTypes'
      BY <1>3, <2>1, <3>2 DEF Types, CtlTypes
    <3>4. QED BY <3>1, <3>3
  <2>2. CASE Refused(next)
    BY <1>3, <1>5, <2>2, RefusedTypes
  <2>3. QED BY <2>1, <2>2 DEF SaveBlockState
<1>7. HistTypes'
  BY <1>3, <1>6 DEF Types, HistTypes, histVars
<1>8. QED BY <1>4, <1>6, <1>7 DEF Types

\* The reconciled ObjectNum is past every chunk of the loaded checkpoint.
LEMMA NextObjectIs ==
    ASSUME DiskTypes
    PROVE  /\ IsCkpt(Loaded)
           /\ NextObject \in Nat /\ config.obj <= NextObject
           /\ \A b \in DOMAIN Loaded : Loaded[b].obj < NextObject
<1> DEFINE f == Loaded
           I == {f[b].obj + 1 : b \in DOMAIN f}
           S == {config.obj} \cup I
<1>1. IsCkpt(f)
  BY Names, LoadedIs DEF DiskTypes
<1>2. NextObject = Max(S)
  BY DEF NextObject
<1>3. config.obj \in Nat
  BY DEF DiskTypes
<1> HIDE DEF f
<1>4. DOMAIN f \subseteq Blocks /\ \A b \in DOMAIN f : f[b].obj \in Nat
  BY <1>1, CkptIs
<1>5. IsFiniteSet(DOMAIN f)
  BY <1>4, VolumeAssumption, FS_Subset
<1>6. IsFiniteSet(I)
  <2> DEFINE g == [b \in DOMAIN f |-> f[b].obj + 1]
  <2>1. g \in Surjection(DOMAIN f, I)
    BY DEF Surjection
  <2>2. QED BY <1>5, <2>1, FS_Surjection
<1>7. IsFiniteSet(S)
  BY <1>6, FS_Singleton, FS_Union
<1>8. S \in SUBSET Nat /\ S # {} /\ config.obj \in S /\ \A b \in DOMAIN f : f[b].obj + 1 \in S
  BY <1>3, <1>4
<1> HIDE DEF S
<1>9. PICK N \in Nat : S \subseteq 0..N
  BY <1>7, <1>8, FiniteBound
<1>10. Max(S) \in S /\ \A y \in S : y <= Max(S)
  BY <1>8, <1>9, MaxIs
<1> HIDE DEF Max
<1>11. Max(S) \in Nat /\ config.obj <= Max(S)
  BY <1>8, <1>10
<1>12. ASSUME NEW b \in DOMAIN f PROVE f[b].obj < Max(S)
  <2>1. f[b].obj + 1 <= Max(S) /\ f[b].obj \in Nat
    BY <1>4, <1>8, <1>10
  <2>2. QED BY <1>11, <2>1
<1>13. QED BY <1>1, <1>2, <1>11, <1>12 DEF f

\* Close removes the local files.
LEMMA CloseRemovesTypes ==
    ASSUME Types, CloseRemoves
    PROVE  Types'
<1>1. UNCHANGED <<config, numbered, live, promised, faults, opens>>
  BY DEF CloseRemoves, diskVars
<1>2. CASE Gone /\ UNCHANGED <<segments, lost, orphans>>
  <2>1. DiskTypes' /\ HistTypes'
    BY <1>1, <1>2 DEF Types, DiskTypes, HistTypes
  <2>2. QED BY <1>2, <2>1, GoneTypes DEF Types
<1>3. CASE \E i \in 1..Len(segments) :
              /\ segments' = Without(i)
              /\ lost' = lost \cup {<<"close", r[1]>> : r \in Unsaved(segments[i])}
              /\ UNCHANGED <<memVars, ctlVars, upVars>>
  <2>1. PICK i \in 1..Len(segments) :
              /\ segments' = Without(i)
              /\ lost' = lost \cup {<<"close", r[1]>> : r \in Unsaved(segments[i])}
              /\ UNCHANGED <<memVars, ctlVars, upVars>>
    BY <1>3
  <2>2. segments \in Seq(SUBSET Rec) /\ phase = "closing"
    BY DEF Types, DiskTypes, CloseRemoves
  <2>3. segments' \in Seq(SUBSET Rec) /\ segments[i] \in SUBSET Rec
    BY <2>1, <2>2, WithoutIsLess, LoggedIs
  <2>4. DiskTypes'
    BY <1>1, <2>3 DEF Types, DiskTypes
  <2>5. lost' \subseteq Losses \X Blocks
    <3>1. \A r \in Unsaved(segments[i]) : r[1] \in Blocks
      BY <2>3, RecIs DEF Unsaved
    <3>2. QED BY <2>1, <3>1 DEF Types, HistTypes, Losses
  <2>6. HistTypes'
    BY <1>1, <2>5 DEF Types, HistTypes
  <2>7. MemTypes'
    BY <2>1 DEF Types, MemTypes, memVars
  <2>8. CtlTypes'
    BY <2>1, <2>2 DEF Types, CtlTypes, memVars, ctlVars
  <2>9. QED BY <2>4, <2>6, <2>7, <2>8 DEF Types
<1>4. QED BY <1>2, <1>3 DEF CloseRemoves

\* Recovery removes the segments and opens a new one.
LEMMA RecoveryRemovesTypes ==
    ASSUME Types, RecoveryRemoves
    PROVE  Types'
<1>1. /\ UNCHANGED <<memVars, config, numbered, live, jobs, closeErr, promised, faults, opens>>
      /\ phase = "recover" /\ at = "remove"
  BY DEF RecoveryRemoves, diskVars
<1>2. MemTypes'
  BY <1>1 DEF Types, MemTypes, memVars
<1>3. segments \in Seq(SUBSET Rec) /\ jobs = {} /\ writes = {}
  BY <1>1 DEF Types, DiskTypes, CtlTypes
<1>4. CASE segments = <<>>
  <2>1. phase' = "serving" /\ at' = "idle" /\ segments' = <<{}>> /\ lost' = lost
    BY <1>4 DEF RecoveryRemoves
  <2>2. segments' \in Seq(SUBSET Rec) /\ segments' # <<>>
    BY <2>1
  <2>3. DiskTypes' /\ HistTypes'
    BY <1>1, <2>1, <2>2 DEF Types, DiskTypes, HistTypes
  <2>4. CtlTypes'
    BY <1>1, <1>3, <2>1, <2>2 DEF Types, CtlTypes, Steps, memVars
  <2>5. QED BY <1>2, <2>3, <2>4 DEF Types
<1>5. CASE segments # <<>>
  <2> DEFINE U == {x \in Unsaved(Head(segments)) : MapSeq(x[1]) >= x[2]}
  <2>1. segments' = Tail(segments) /\ lost' = lost \cup {<<"recover", r[1]>> : r \in U}
        /\ UNCHANGED <<phase, at>>
    BY <1>5 DEF RecoveryRemoves
  <2>2. U \subseteq Head(segments)
    BY DEF Unsaved
  <2> HIDE DEF U
  <2>3. segments' \in Seq(SUBSET Rec) /\ Head(segments) \in SUBSET Rec
    BY <1>3, <1>5, <2>1, TailIsLess, LoggedIs
  <2>4. DiskTypes'
    BY <1>1, <2>3 DEF Types, DiskTypes
  <2>5. \A r \in U : r[1] \in Blocks
    BY <2>2, <2>3, RecIs
  <2>6. lost' \subseteq Losses \X Blocks
    BY <2>1, <2>5 DEF Types, HistTypes, Losses
  <2>7. HistTypes'
    BY <1>1, <2>6 DEF Types, HistTypes
  <2>8. CtlTypes'
    BY <1>1, <2>1 DEF Types, CtlTypes, memVars
  <2>9. QED BY <1>2, <2>4, <2>7, <2>8 DEF Types
<1>6. QED BY <1>4, <1>5

\* An open.
LEMMA OpenTypes ==
    ASSUME Types, Open
    PROVE  Types'
<1>1. DiskTypes' /\ opens' \in Nat /\ segments \in Seq(SUBSET Rec) /\ phase = "down"
  BY DEF Types, DiskTypes, HistTypes, Open, diskVars
<1>2. HistTypes'
  <2>1. DOMAIN Loaded \subseteq Blocks
    BY NextObjectIs, CkptIs DEF Types
  <2>2. lost' \subseteq lost \cup ({"unread"} \X Blocks) /\ faults' \in Nat
    BY <2>1 DEF Open, Fault, Types, HistTypes
  <2>3. QED BY <1>1, <2>2 DEF Types, HistTypes, Open, Losses
<1>3. /\ IsCkpt(Loaded) /\ NextObject \in Nat
      /\ \A b \in DOMAIN Loaded : Loaded[b].obj < NextObject
  BY NextObjectIs DEF Types
<1>4. MapOK(lookup', objNum') /\ objNum' \in Nat
  <2>1. CASE lookup' = Coalesce(Loaded) /\ objNum' = NextObject
    BY <1>3, <2>1, CoalesceOK
  <2>2. CASE lookup' = {} /\ objNum' = config.obj
    <3>1. MapOK({}, config.obj) /\ config.obj \in Nat
      BY DEF MapOK, IsMap, Apart, Types, DiskTypes
    <3>2. QED BY <2>2, <3>1
  <2>3. QED BY <2>1, <2>2 DEF Open
<1>5. config.seq \in 0..MaxSeqNum /\ config.wall \in Nat
  BY DEF Types, DiskTypes
<1>6. MemTypes'
  BY <1>4, <1>5 DEF Types, MemTypes, Open
<1>7. Logged \in SUBSET Rec
  BY <1>1, Names, LoggedIs
<1>8. \A j \in jobs' : IsChunk(j)
  BY <1>7, ChunksAre DEF Open
<1>9. Logged = {} => jobs' = {}
  <2>1. ASSUME Logged = {} PROVE jobs' = {}
    <3>1. DOMAIN Newest(Logged) = {}
      BY <2>1 DEF Newest
    <3>2. QED BY <3>1 DEF Open, ChunksOf
  <2>2. QED BY <2>1
<1>10. at' \in Steps("recover") /\ (at' # "upload" => jobs' = {})
  BY <1>9 DEF Open, Steps
<1>11. CtlTypes'
  BY <1>1, <1>8, <1>10 DEF Types, CtlTypes, Open
<1>12. QED BY <1>1, <1>2, <1>6, <1>11 DEF Types

\* A crash.
LEMMA CrashTypes ==
    ASSUME Types, Crash
    PROVE  Types' /\ LoggedIn(segments) \subseteq LoggedIn(segments')
           /\ LoggedIn(segments') \subseteq LoggedIn(segments) \cup writes
<1>1. HistTypes'
  BY DEF Types, HistTypes, Crash, histVars
<1>2. /\ segments' \in Seq(SUBSET Rec) /\ LoggedIn(segments) \subseteq LoggedIn(segments')
      /\ LoggedIn(segments') \subseteq LoggedIn(segments) \cup writes
  <2>1. CASE segments' = segments
    BY <2>1 DEF Types, DiskTypes
  <2>2. CASE \E r \in writes : segments' = AppendToWAL(Before(r) \cup {r})
    <3>1. PICK r \in writes : segments' = AppendToWAL(Before(r) \cup {r})
      BY <2>2
    <3>2. segments \in Seq(SUBSET Rec) /\ segments # <<>> /\ writes \in SUBSET Rec
      BY <2>2 DEF Types, DiskTypes, CtlTypes, MemTypes
    <3>3. Before(r) \cup {r} \in SUBSET writes /\ Before(r) \cup {r} \in SUBSET Rec
      BY <3>2 DEF Before
    <3>4. QED BY <3>1, <3>2, <3>3, AppendIs
  <2>3. QED BY <2>1, <2>2 DEF Crash
<1>3. DiskTypes'
  BY <1>2 DEF Types, DiskTypes, Crash, diskVars
<1>4. QED BY <1>1, <1>2, <1>3, GoneTypes DEF Types, Crash

\* The uploader beside recovery, and that of an abandoned volume: what they
\* have to save are checkpoints.
UpTypes ==
    /\ tick # {} => \E f : IsCkpt(f) /\ tick = {f}
    /\ \A f \in orphans : IsCkpt(f)
    /\ tick # {} => phase \in {"recover", "serving"}

\* A tick.
LEMMA TickReadsMapTypes ==
    ASSUME Types, TickReadsMap
    PROVE  Types'
<1>1. UNCHANGED <<memVars, segments, diskVars, ctlVars, histVars, faults, opens>>
  BY DEF TickReadsMap
<1>2. MemTypes'
  BY <1>1 DEF Types, MemTypes, memVars
<1>3. DiskTypes'
  BY <1>1 DEF Types, DiskTypes, diskVars
<1>4. CtlTypes'
  BY <1>1 DEF Types, CtlTypes, memVars, ctlVars
<1>5. HistTypes'
  BY <1>1 DEF Types, HistTypes, histVars
<1>6. QED BY <1>2, <1>3, <1>4, <1>5 DEF Types

\* Its save.
LEMMA TickSavesTypes ==
    ASSUME Types, UpTypes, TickSaves
    PROVE  Types'
<1>1. dirty' \in BOOLEAN
  BY DEF Types, MemTypes, TickSaves
<1>2. MemTypes'
  BY <1>1 DEF Types, MemTypes, TickSaves
<1>3. live' = live \/ live' = tick
  BY DEF TickSaves
<1>4. live' # {} => \E f : IsCkpt(f) /\ live' = {f}
  BY <1>3 DEF Types, DiskTypes, UpTypes
<1>5. DiskTypes'
  BY <1>4 DEF Types, DiskTypes, TickSaves
<1>6. CtlTypes'
  BY DEF Types, CtlTypes, TickSaves, ctlVars
<1>7. HistTypes'
  <2>1. GoneBack \subseteq Blocks
    BY <1>5, LoadedBlocks DEF Types
  <2>2. lost' \subseteq lost \cup ({"tick"} \X Blocks) /\ faults' \in Nat
    BY <2>1 DEF TickSaves, Fault, Types, HistTypes
  <2>3. QED BY <2>2 DEF Types, HistTypes, TickSaves, Losses
<1>8. QED BY <1>2, <1>5, <1>6, <1>7 DEF Types

\* The save of an abandoned volume.
LEMMA OrphanSavesTypes ==
    ASSUME Types, UpTypes, OrphanSaves
    PROVE  Types'
<1>1. MemTypes'
  BY DEF Types, MemTypes, OrphanSaves, memVars
<1>2. PICK f \in orphans : live' = {f}
  BY DEF OrphanSaves
<1>3. live' # {} => \E g : IsCkpt(g) /\ live' = {g}
  BY <1>2 DEF UpTypes
<1>4. DiskTypes'
  BY <1>3 DEF Types, DiskTypes, OrphanSaves
<1>5. CtlTypes'
  BY DEF Types, CtlTypes, OrphanSaves, memVars, ctlVars
<1>6. HistTypes'
  <2>1. Displaced \subseteq Blocks
    BY <1>4, LoadedBlocks DEF Types
  <2>2. lost' \subseteq lost \cup ({"orphan"} \X Blocks)
    BY <2>1 DEF OrphanSaves
  <2>3. QED BY <2>2 DEF Types, HistTypes, OrphanSaves, Losses
<1>7. QED BY <1>1, <1>4, <1>5, <1>6 DEF Types

\* What they have to save is what they had, or the map; a tick that has read
\* the map is over before the volume closes.
UpKept == tick' \cup orphans' \subseteq tick \cup orphans \cup {Expand(lookup)}
TickKept ==
    \/ tick' = {}
    \/ tick' = {Expand(lookup)} /\ phase = "recover" /\ UNCHANGED <<memVars, ctlVars, lost>>
    \/ tick' = tick /\ tick # {} /\ phase' \in {"recover", "serving"} /\ ~Open

\* Every step is such a step.
LEMMA UpStep ==
    ASSUME Types, UpTypes, [Next]_vars
    PROVE  UpKept /\ TickKept /\ UpTypes'
<1>1. phase \in {"down", "recover", "serving", "closing"} /\ at \in Steps(phase)
  BY DEF Types, CtlTypes
<1>2. tick # {} => phase \in {"recover", "serving"}
  BY DEF UpTypes
<1>3. UpKept /\ TickKept
  <2>1. ASSUME UNCHANGED upVars, phase' = phase PROVE UpKept /\ TickKept
    BY <1>2, <2>1 DEF UpKept, TickKept, upVars, Open
  <2>2. ASSUME NEW b \in Blocks, Write(b) PROVE UpKept /\ TickKept
    BY <2>1, <2>2 DEF Write, ctlVars
  <2>3. CASE Flush \/ PartialFlush
    BY <2>1, <2>3 DEF Flush, PartialFlush, ctlVars
  <2>4. CASE StartDrain
    BY <2>1, <2>4 DEF StartDrain, Rotate
  <2>5. CASE StartClose
    <3>1. tick = {} /\ UNCHANGED upVars
      BY <2>5 DEF StartClose, Rotate
    <3>2. QED BY <3>1 DEF UpKept, TickKept, upVars
  <2>6. ASSUME NEW j \in jobs, Upload(j) PROVE UpKept /\ TickKept
    BY <2>1, <2>6 DEF Upload
  <2>7. CASE OpenFails
    BY <2>7 DEF OpenFails, Gone, UpKept, TickKept
  <2>8. CASE UploadFails
    BY <2>1, <2>7, <2>8 DEF UploadFails
  <2>9. CASE UploadsDone \/ SaveLiveCheckpoint
    BY <2>1, <2>9 DEF UploadsDone, SaveLiveCheckpoint
  <2>10. CASE SaveState \/ SaveBlockState
    BY <2>1, <2>7, <2>10 DEF SaveState, SaveBlockState, Refused
  <2>11. CASE CloseRemoves
    <3>1. CASE Gone /\ UNCHANGED orphans
      BY <3>1 DEF Gone, UpKept, TickKept
    <3>2. CASE UNCHANGED <<memVars, ctlVars, upVars>>
      BY <2>1, <3>2 DEF ctlVars
    <3>3. QED BY <2>11, <3>1, <3>2 DEF CloseRemoves
  <2>12. CASE RecoveryRemoves
    <3>1. UNCHANGED upVars /\ phase' \in {"recover", "serving"} /\ phase = "recover"
      BY <2>12 DEF RecoveryRemoves
    <3>2. QED BY <3>1 DEF UpKept, TickKept, upVars, Open
  <2>13. CASE TickReadsMap
    BY <2>13 DEF TickReadsMap, UpKept, TickKept, histVars
  <2>14. CASE TickSaves
    BY <2>14 DEF TickSaves, UpKept, TickKept
  <2>15. CASE OrphanSaves
    <3>1. tick' = tick /\ phase' = phase /\ orphans' \subseteq orphans
      BY <2>15 DEF OrphanSaves, ctlVars
    <3>2. QED BY <1>2, <3>1 DEF UpKept, TickKept, Open
  <2>16. CASE Open
    <3>1. tick = {} /\ UNCHANGED upVars
      BY <1>2, <2>16 DEF Open
    <3>2. QED BY <3>1 DEF UpKept, TickKept, upVars
  <2>17. CASE Crash
    BY <2>17 DEF Crash, Gone, UpKept, TickKept
  <2>18. CASE UNCHANGED vars
    BY <2>1, <2>18 DEF vars, ctlVars
  <2>19. QED BY <2>2, <2>3, <2>4, <2>5, <2>6, <2>8, <2>9, <2>10, <2>11, <2>12, <2>13, <2>14,
                <2>15, <2>16, <2>17, <2>18 DEF Next
<1>4. IsCkpt(Expand(lookup))
  BY ExpandOK DEF Types, MemTypes
<1>5. \A f \in tick \cup orphans \cup {Expand(lookup)} : IsCkpt(f)
  BY <1>4 DEF UpTypes
<1>6. tick' # {} => \E f : tick' = {f}
  BY <1>3 DEF TickKept, UpTypes
<1>7. tick' # {} => \E f : IsCkpt(f) /\ tick' = {f}
  BY <1>3, <1>5, <1>6 DEF UpKept
<1>8. \A f \in orphans' : IsCkpt(f)
  BY <1>3, <1>5 DEF UpKept
<1>9. tick' # {} => phase' \in {"recover", "serving"}
  BY <1>3 DEF TickKept, ctlVars
<1>10. QED BY <1>3, <1>7, <1>8, <1>9 DEF UpTypes

\* Nothing changes.
LEMMA StutterTypes ==
    ASSUME Types, UNCHANGED vars
    PROVE  Types'
<1>1. MemTypes'
  BY DEF Types, MemTypes, vars, memVars
<1>2. DiskTypes'
  BY DEF Types, DiskTypes, vars, diskVars
<1>3. CtlTypes'
  BY DEF Types, CtlTypes, vars, memVars, ctlVars
<1>4. HistTypes'
  BY DEF Types, HistTypes, vars, histVars
<1>5. QED BY <1>1, <1>2, <1>3, <1>4 DEF Types

\* A new volume.
LEMMA TypesInit ==
    ASSUME Init
    PROVE  Types
<1>1. Zero \in [Blocks -> 0..MaxSeqNum] /\ MapOK({}, 0) /\ DOMAIN None = {}
  BY BoundAssumption DEF Zero, None, MapOK, IsMap, Apart
<1>2. lookup = {} /\ objNum = 0 /\ dirty = FALSE /\ closeErr = FALSE
  BY DEF Init
<1>3. MapOK(lookup, objNum) /\ dirty \in BOOLEAN /\ closeErr \in BOOLEAN
  BY <1>1, <1>2
<1>4. MemTypes
  BY <1>1, <1>3, BoundAssumption DEF Init, MemTypes
<1>5. <<>> \in Seq(SUBSET Rec)
  OBVIOUS
<1>6. [seq |-> 0, obj |-> 0, wall |-> 0] \in [seq : 0..MaxSeqNum, obj : Nat, wall : Nat]
  BY BoundAssumption
<1>7. numbered = None /\ live = {}
  BY DEF Init
<1>8. DiskTypes
  BY <1>1, <1>5, <1>6, <1>7 DEF Init, DiskTypes
<1>9. CtlTypes
  BY <1>3 DEF Init, CtlTypes, Steps
<1>10. HistTypes
  BY <1>1 DEF Init, HistTypes
<1>11. QED BY <1>4, <1>8, <1>9, <1>10 DEF Types

\* Every step keeps the types.
LEMMA TypesStep ==
    ASSUME Types, UpTypes, [Next]_vars
    PROVE  Types'
<1>1. ASSUME NEW b \in Blocks, Write(b) PROVE Types'
  BY <1>1, WriteTypes
<1>2. ASSUME NEW j \in jobs, Upload(j) PROVE Types'
  BY <1>2, UploadTypes
<1>3. QED
  BY <1>1, <1>2, FlushTypes, PartialFlushTypes, StartDrainTypes, StartCloseTypes,
     UploadFailsTypes, UploadsDoneTypes, SaveLiveTypes, SaveStateTypes, SaveBlockStateTypes,
     CloseRemovesTypes, RecoveryRemovesTypes, TickReadsMapTypes, TickSavesTypes,
     OrphanSavesTypes, OpenTypes, CrashTypes, StutterTypes
  DEF Next

\* The SeqNums of memory and disk are numbers.
LEMMA NatTypes ==
    ASSUME Types
    PROVE  /\ \A r \in writes \cup Logged : r[1] \in Blocks /\ r[2] \in Nat
           /\ hot \in [Blocks -> Nat] /\ promised \in [Blocks -> Nat] /\ seqNum \in Nat
<1>1. Logged \in SUBSET Rec /\ writes \in SUBSET Rec
  BY Names, LoggedIs DEF Types, DiskTypes, MemTypes
<1>2. \A r \in writes \cup Logged : r[1] \in Blocks /\ r[2] \in Nat
  BY <1>1, RecIs
<1>3. 0..MaxSeqNum \subseteq Nat
  BY BoundAssumption
<1>4. hot \in [Blocks -> Nat] /\ promised \in [Blocks -> Nat] /\ seqNum \in Nat
  BY <1>3 DEF Types, MemTypes, HistTypes
<1>5. QED BY <1>2, <1>4

\* The types are those the model states.
LEMMA TypesAre ==
    ASSUME Types, UpTypes
    PROVE  TypeOK
BY NatTypes DEF Types, MemTypes, CtlTypes, HistTypes, UpTypes, TypeOK, Steps

\* The variables keep their types, whatever crashes and faults.
THEOREM VolumeTypeCorrect == Spec => []TypeOK
<1>1. Init => Types /\ UpTypes
  BY TypesInit DEF Init, UpTypes
<1>2. Types /\ UpTypes /\ [Next]_vars => Types' /\ UpTypes'
  BY TypesStep, UpStep
<1>3. Types /\ UpTypes => TypeOK
  BY TypesAre
<1>4. QED BY <1>1, <1>2, <1>3, PTL DEF Spec

-----------------------------------------------------------------------------
(* SeqNums.  A volume that serves numbers its writes above every record    *)
(* that the map, a segment or a checkpoint has; what carries that across   *)
(* an open is that each of those numbers is in config.json or in a segment *)
(* that the open replays.                                                  *)

\* A SeqNum an open would number past.
CoveredBy(c, L, s) == s <= c \/ \E r \in L : s <= r[2]
Covered(s) == CoveredBy(config.seq, Logged, s)

\* Every checkpoint, saved or still to be, and the map have covered SeqNums
\* only.
NumbersCovered ==
    /\ \A f \in live \cup tick \cup orphans : \A b \in DOMAIN f : Covered(f[b].seq)
    /\ \A w \in DOMAIN numbered : \A b \in DOMAIN numbered[w] : Covered(numbered[w][b].seq)
    /\ \A b \in Blocks : Covered(MapSeq(b))

\* SeqNum is past everything, but while recovery replays.
Replaying == phase = "recover" /\ at = "upload"
NumbersBelow ==
    /\ phase # "down" /\ ~Replaying =>
          /\ \A r \in writes \cup Logged : r[2] <= seqNum
          /\ \A b \in Blocks : MapSeq(b) <= seqNum
          /\ \A b \in Blocks : hot[b] <= seqNum
          /\ config.seq <= seqNum
    /\ Replaying => seqNum = config.seq

\* Before a segment goes config.json has its SeqNums.
ConfigFirst ==
    /\ phase = "recover" /\ at \in {"numbered", "live", "remove"} =>
          \A r \in Logged : r[2] <= config.seq
    /\ phase = "closing" /\ at \in {"numbered", "remove"} /\ ~closeErr => config.seq = seqNum

\* What is uploaded is in the WAL, and in one chunk.
JobsLogged ==
    /\ \A j \in jobs : \A b \in DOMAIN j : <<b, j[b]>> \in Logged
    /\ \A j, k \in jobs : j # k => DOMAIN j \cap DOMAIN k = {}

NInv == Types /\ NumbersCovered /\ NumbersBelow /\ ConfigFirst /\ JobsLogged

\* Numbers stay covered when config.json does not go back, no segment goes
\* whose numbers it has not, and only the map, or what an uploader has read of
\* it, is written to a checkpoint.
DiskStep ==
    /\ config.seq <= config'.seq
    /\ \A r \in LoggedIn(segments) : r \in LoggedIn(segments') \/ r[2] <= config'.seq
    /\ live' \subseteq live \cup tick \cup orphans \cup {Expand(lookup)}
    /\ \A w \in DOMAIN numbered' : \/ w \in DOMAIN numbered /\ numbered'[w] = numbered[w]
                                   \/ numbered'[w] = Expand(lookup)

\* So they do.
LEMMA CoveredKept ==
    ASSUME Types, Types', NumbersCovered, DiskStep, UpTypes, UpKept
    PROVE  /\ \A s \in Nat : Covered(s) => CoveredBy(config'.seq, LoggedIn(segments'), s)
           /\ \A f \in live' \cup tick' \cup orphans' : \A b \in DOMAIN f :
                  CoveredBy(config'.seq, LoggedIn(segments'), f[b].seq)
           /\ \A w \in DOMAIN numbered' : \A b \in DOMAIN numbered'[w] :
                  CoveredBy(config'.seq, LoggedIn(segments'), numbered'[w][b].seq)
<1> DEFINE Cov(s) == CoveredBy(config'.seq, LoggedIn(segments'), s)
<1>1. config.seq \in Nat /\ config'.seq \in Nat /\ \A r \in LoggedIn(segments) : r[2] \in Nat
  <2>1. config.seq \in 0..MaxSeqNum /\ config'.seq \in 0..MaxSeqNum
    BY DEF Types, DiskTypes
  <2>2. LoggedIn(segments) \in SUBSET Rec
    BY LoggedIs DEF Types, DiskTypes
  <2>3. QED BY <2>1, <2>2, RecIs, BoundAssumption
<1>2. ASSUME NEW s \in Nat, Covered(s) PROVE Cov(s)
  <2>1. s <= config.seq \/ \E r \in LoggedIn(segments) : s <= r[2]
    BY <1>2, Names DEF Covered, CoveredBy
  <2>2. CASE s <= config.seq
    BY <1>1, <2>2 DEF DiskStep, CoveredBy
  <2>3. CASE \E r \in LoggedIn(segments) : s <= r[2]
    <3>1. PICK r \in LoggedIn(segments) : s <= r[2]
      BY <2>3
    <3>2. CASE r \in LoggedIn(segments')
      BY <3>1, <3>2 DEF CoveredBy
    <3>3. CASE r[2] <= config'.seq
      <4>1. s <= config'.seq
        BY <1>1, <3>1, <3>3
      <4>2. QED BY <4>1 DEF CoveredBy
    <3>4. QED BY <3>2, <3>3 DEF DiskStep
  <2>4. QED BY <2>1, <2>2, <2>3
<1> HIDE DEF Cov
<1>3. IsCkpt(Expand(lookup)) /\ \A b \in DOMAIN Expand(lookup) :
          Expand(lookup)[b].seq = SeqIn(lookup, b)
  BY ExpandOK DEF Types, MemTypes
<1>4. ASSUME NEW b \in DOMAIN Expand(lookup) PROVE Cov(Expand(lookup)[b].seq)
  <2>1. b \in Blocks /\ Expand(lookup)[b].seq \in Nat
    BY <1>3, CkptIs
  <2>2. Covered(Expand(lookup)[b].seq)
    BY <1>3, <2>1, Names DEF NumbersCovered
  <2>3. QED BY <1>2, <2>1, <2>2
<1>5. ASSUME NEW f \in live' \cup tick' \cup orphans', NEW b \in DOMAIN f PROVE Cov(f[b].seq)
  <2>1. CASE f = Expand(lookup)
    BY <1>4, <2>1
  <2>2. CASE f \in live \cup tick \cup orphans
    <3>1. IsCkpt(f)
      BY <2>2 DEF Types, DiskTypes, UpTypes
    <3>2. f[b].seq \in Nat
      BY <3>1, CkptIs
    <3>3. QED BY <1>2, <2>2, <3>2 DEF NumbersCovered
  <2>3. QED BY <2>1, <2>2 DEF DiskStep, UpKept
<1>6. ASSUME NEW w \in DOMAIN numbered', NEW b \in DOMAIN numbered'[w]
      PROVE  Cov(numbered'[w][b].seq)
  <2>1. CASE numbered'[w] = Expand(lookup)
    BY <1>4, <2>1
  <2>2. CASE w \in DOMAIN numbered /\ numbered'[w] = numbered[w]
    <3>1. IsCkpt(numbered[w])
      BY <2>2 DEF Types, DiskTypes
    <3>2. numbered[w][b].seq \in Nat
      BY <2>2, <3>1, CkptIs
    <3>3. Covered(numbered[w][b].seq)
      BY <2>2 DEF NumbersCovered
    <3>4. QED BY <1>2, <2>2, <3>2, <3>3
  <2>3. QED BY <2>1, <2>2 DEF DiskStep
<1>7. QED BY <1>2, <1>5, <1>6 DEF Cov

\* The map's numbers too, when it takes no other.
LEMMA CoveredStep ==
    ASSUME Types, Types', NumbersCovered, DiskStep, UpTypes, UpKept,
           \A b \in Blocks : SeqIn(lookup', b) = 0 \/ Covered(SeqIn(lookup', b))
    PROVE  NumbersCovered'
<1> DEFINE Cov(s) == CoveredBy(config'.seq, LoggedIn(segments'), s)
<1>1. /\ \A s \in Nat : Covered(s) => Cov(s)
      /\ \A f \in live' \cup tick' \cup orphans' : \A b \in DOMAIN f : Cov(f[b].seq)
      /\ \A w \in DOMAIN numbered' : \A b \in DOMAIN numbered'[w] : Cov(numbered'[w][b].seq)
  BY CoveredKept
<1>2. \A s : Covered(s)' = Cov(s)
  BY Names DEF Covered
<1> HIDE DEF Cov
<1>3. MapOK(lookup', objNum') /\ config'.seq \in Nat
  BY BoundAssumption DEF Types, MemTypes, DiskTypes
<1>4. Cov(0)
  BY <1>3 DEF Cov, CoveredBy
<1>5. \A b \in Blocks : SeqIn(lookup', b) \in Nat
  BY <1>3, MapIs
<1>6. \A b \in Blocks : Cov(SeqIn(lookup', b))
  BY <1>1, <1>4, <1>5
<1>7. QED BY <1>1, <1>2, <1>6, Names DEF NumbersCovered

\* Most steps leave the map alone or forget it.
LEMMA MapKept ==
    ASSUME NumbersCovered, lookup' = lookup \/ lookup' = {}
    PROVE  \A b \in Blocks : SeqIn(lookup', b) = 0 \/ Covered(SeqIn(lookup', b))
<1>1. CASE lookup' = lookup
  BY <1>1, Names DEF NumbersCovered
<1>2. CASE lookup' = {}
  BY <1>2 DEF SeqIn, Mapped
<1>3. QED BY <1>1, <1>2

\* A volume that is down has no numbers of its own.
LEMMA DownNumbers ==
    ASSUME Gone
    PROVE  NumbersBelow' /\ ConfigFirst' /\ JobsLogged'
BY DEF Gone, NumbersBelow, ConfigFirst, JobsLogged, Replaying

\* Steps that leave the disk alone, or add records to the last segment.
LEMMA QuietDisk ==
    ASSUME Types, UNCHANGED diskVars, LoggedIn(segments) \subseteq LoggedIn(segments')
    PROVE  DiskStep
<1>1. config.seq \in Nat
  BY BoundAssumption DEF Types, DiskTypes
<1>2. QED BY <1>1 DEF DiskStep, diskVars

\* A write.
LEMMA WriteNumbers ==
    ASSUME NInv, UpTypes, UpKept, NEW b \in Blocks, Write(b)
    PROVE  NInv'
<1>1. Types /\ Types' /\ phase = "serving" /\ NumbersCovered
  BY WriteTypes DEF NInv, Write
<1>2. NumbersCovered'
  BY <1>1, QuietDisk, CoveredStep, MapKept DEF Write
<1>3. /\ seqNum \in Nat /\ hot \in [Blocks -> Nat]
      /\ \A r \in writes \cup Logged : r[2] \in Nat
      /\ \A c \in Blocks : MapSeq(c) \in Nat
      /\ config.seq \in Nat
  <2>1. /\ seqNum \in Nat /\ hot \in [Blocks -> Nat]
        /\ \A r \in writes \cup Logged : r[2] \in Nat
    BY <1>1, NatTypes
  <2>2. \A c \in Blocks : MapSeq(c) \in Nat
    BY <1>1, MapIs, Names DEF Types, MemTypes
  <2>3. config.seq \in Nat
    BY <1>1, BoundAssumption DEF Types, DiskTypes
  <2>4. QED BY <2>1, <2>2, <2>3
<1>4. Logged' = Logged /\ \A c : MapSeq(c)' = MapSeq(c)
  BY Names DEF Write
<1>5. NumbersBelow'
  <2>1. /\ \A r \in writes \cup Logged : r[2] <= seqNum
        /\ \A c \in Blocks : MapSeq(c) <= seqNum
        /\ \A c \in Blocks : hot[c] <= seqNum
        /\ config.seq <= seqNum
    BY <1>1 DEF NInv, NumbersBelow, Replaying
  <2>2. /\ seqNum' = seqNum + 1 /\ writes' = writes \cup {<<b, seqNum + 1>>} /\ config' = config
        /\ hot' = [hot EXCEPT ![b] = seqNum + 1] /\ phase' = "serving"
    BY <1>1 DEF Write, diskVars, ctlVars
  <2>3. \A r \in writes' \cup Logged' : r[2] <= seqNum'
    BY <1>3, <1>4, <2>1, <2>2
  <2>4. \A c \in Blocks : hot'[c] <= seqNum'
    BY <1>3, <2>1, <2>2
  <2>5. \A c \in Blocks : MapSeq(c)' <= seqNum'
    BY <1>3, <1>4, <2>1, <2>2
  <2>6. config'.seq <= seqNum'
    BY <1>3, <2>1, <2>2
  <2>7. QED BY <2>2, <2>3, <2>4, <2>5, <2>6 DEF NumbersBelow, Replaying
<1>6. ConfigFirst' /\ JobsLogged'
  BY <1>1, <1>4 DEF NInv, ConfigFirst, JobsLogged, Write, ctlVars, diskVars
<1>7. QED BY <1>1, <1>2, <1>5, <1>6 DEF NInv

\* The numbers of a volume that serves, and their types.
LEMMA ServingNumbers ==
    ASSUME NInv, phase # "down", ~Replaying
    PROVE  /\ \A r \in writes \cup Logged : r[2] <= seqNum /\ r[2] \in Nat /\ r[1] \in Blocks
           /\ \A b \in Blocks : MapSeq(b) <= seqNum /\ MapSeq(b) \in Nat
           /\ \A b \in Blocks : hot[b] <= seqNum /\ hot[b] \in Nat
           /\ config.seq <= seqNum /\ config.seq \in Nat /\ seqNum \in Nat
<1>1. Types
  BY DEF NInv
<1>2. \A c \in Blocks : MapSeq(c) \in Nat
  BY <1>1, MapIs, Names DEF Types, MemTypes
<1>3. config.seq \in Nat
  BY <1>1, BoundAssumption DEF Types, DiskTypes
<1>4. QED BY <1>1, <1>2, <1>3, NatTypes DEF NInv, NumbersBelow

\* Steps of a serving volume that move records of Writes.Blocks to a segment.
LEMMA MovesNumbers ==
    ASSUME NInv, UpTypes, UpKept, Types', phase = "serving", UNCHANGED <<lookup, hot, seqNum, diskVars>>,
           phase' = "serving" \/ (phase' = "closing" /\ at' = "upload"),
           LoggedIn(segments) \subseteq LoggedIn(segments'),
           writes' \cup LoggedIn(segments') \subseteq writes \cup LoggedIn(segments)
    PROVE  NumbersCovered' /\ NumbersBelow' /\ ConfigFirst'
<1>1. Types /\ NumbersCovered
  BY DEF NInv
<1>2. NumbersCovered'
  BY <1>1, QuietDisk, CoveredStep, MapKept
<1>3. /\ \A r \in writes \cup Logged : r[2] <= seqNum
      /\ \A b \in Blocks : MapSeq(b) <= seqNum
      /\ \A b \in Blocks : hot[b] <= seqNum
      /\ config.seq <= seqNum
  BY ServingNumbers DEF Replaying
<1>4. writes' \cup Logged' \subseteq writes \cup Logged /\ \A b : MapSeq(b)' = MapSeq(b)
  BY Names
<1>5. NumbersBelow'
  BY <1>3, <1>4 DEF NumbersBelow, diskVars, Replaying
<1>6. ConfigFirst'
  BY DEF ConfigFirst
<1>7. QED BY <1>2, <1>5, <1>6

\* What a flush logs.
LEMMA FlushLogs ==
    ASSUME Types, Flush
    PROVE  LoggedIn(segments') = LoggedIn(segments) \cup writes
<1>1. segments \in Seq(SUBSET Rec) /\ segments # <<>> /\ writes \in SUBSET Rec
  BY DEF Types, DiskTypes, CtlTypes, MemTypes, Flush
<1>2. QED BY <1>1, AppendIs DEF Flush

\* A flush.
LEMMA FlushNumbers ==
    ASSUME NInv, UpTypes, UpKept, Flush
    PROVE  NInv'
<1>1. Types /\ Types' /\ phase = "serving"
  BY FlushTypes DEF NInv, Flush
<1>3. LoggedIn(segments') = LoggedIn(segments) \cup writes
  BY <1>1, FlushLogs
<1>4. NumbersCovered' /\ NumbersBelow' /\ ConfigFirst'
  BY <1>1, <1>3, MovesNumbers DEF Flush, ctlVars
<1>5. JobsLogged'
  BY <1>3, Names DEF NInv, JobsLogged, Flush, ctlVars
<1>6. QED BY <1>1, <1>3, <1>4, <1>5 DEF NInv

\* A flush that fails.
LEMMA PartialFlushNumbers ==
    ASSUME NInv, UpTypes, UpKept, PartialFlush
    PROVE  NInv'
<1>1. Types /\ Types' /\ phase = "serving"
  BY PartialFlushTypes DEF NInv, PartialFlush
<1>2. segments \in Seq(SUBSET Rec) /\ segments # <<>> /\ writes \in SUBSET Rec
  BY <1>1 DEF Types, DiskTypes, CtlTypes, MemTypes
<1>3. PICK r \in writes :
          segments' = AppendToWAL(Before(r)) /\ writes' = writes \ Flushed(Before(r))
  BY DEF PartialFlush
<1>4. Before(r) \in SUBSET writes /\ Before(r) \in SUBSET Rec
  BY <1>2 DEF Before
<1>5. LoggedIn(segments') = LoggedIn(segments) \cup Before(r)
  BY <1>2, <1>3, <1>4, AppendIs
<1>6. NumbersCovered' /\ NumbersBelow' /\ ConfigFirst'
  BY <1>1, <1>3, <1>4, <1>5, MovesNumbers DEF PartialFlush, ctlVars
<1>7. JobsLogged'
  BY <1>5, Names DEF NInv, JobsLogged, PartialFlush, ctlVars
<1>8. QED BY <1>1, <1>6, <1>7 DEF NInv

\* The segment rotated: its records become chunks.
LEMMA RotateIs ==
    ASSUME Types, phase = "serving", NEW R \in SUBSET writes, Rotate(R)
    PROVE  /\ LoggedIn(segments') = LoggedIn(segments) \cup R
           /\ segments' \in Seq(SUBSET Rec) /\ segments'[Len(segments')] = {} /\ writes' = {}
           /\ \A j \in jobs' : \A b \in DOMAIN j : /\ <<b, j[b]>> \in R \cup segments[Len(segments)]
                                                   /\ <<b, j[b]>> \in Logged'
           /\ \A j, k \in jobs' : j # k => DOMAIN j \cap DOMAIN k = {}
<1>1. segments \in Seq(SUBSET Rec) /\ segments # <<>> /\ R \in SUBSET Rec
  BY DEF Types, DiskTypes, CtlTypes, MemTypes
<1> DEFINE v == AppendToWAL(R)
           S == v[Len(segments)]
<1>2. /\ v \in Seq(SUBSET Rec) /\ v # <<>> /\ Len(v) = Len(segments)
      /\ S = R \cup segments[Len(segments)] /\ LoggedIn(v) = LoggedIn(segments) \cup R
  BY <1>1, AppendIs
<1> HIDE DEF v
<1>3. S \in SUBSET Rec /\ S \subseteq LoggedIn(v)
  BY <1>2, LoggedIs
<1> HIDE DEF S
<1>4. segments' = Append(v, {}) /\ jobs' = ChunksOf(Newest(S)) /\ writes' = {}
  BY DEF Rotate, v, S
<1>5. /\ segments' \in Seq(SUBSET Rec) /\ segments'[Len(segments')] = {}
      /\ LoggedIn(segments') = LoggedIn(v)
  BY <1>2, <1>4, NewSegment
<1>6. /\ \A j \in jobs' : \A b \in DOMAIN j : <<b, j[b]>> \in S
      /\ \A j, k \in jobs' : j # k => DOMAIN j \cap DOMAIN k = {}
  BY <1>3, <1>4, ChunksAre
<1>7. QED BY <1>2, <1>3, <1>4, <1>5, <1>6, Names

\* The beginning of a drain or of Close.
LEMMA RotateNumbers ==
    ASSUME NInv, UpTypes, UpKept, Types', phase = "serving", NEW R \in SUBSET writes, Rotate(R),
           phase' \in {"serving", "closing"}
    PROVE  NInv'
<1>1. Types
  BY DEF NInv
<1>2. /\ LoggedIn(segments') = LoggedIn(segments) \cup R /\ writes' = {} /\ at' = "upload"
      /\ UNCHANGED <<lookup, hot, seqNum, diskVars>>
  BY <1>1, RotateIs DEF Rotate
<1>3. NumbersCovered' /\ NumbersBelow' /\ ConfigFirst'
  BY <1>2, MovesNumbers
<1>4. JobsLogged'
  BY <1>1, RotateIs DEF JobsLogged
<1>5. QED BY <1>3, <1>4 DEF NInv

\* DrainToBackend.
LEMMA StartDrainNumbers ==
    ASSUME NInv, UpTypes, UpKept, StartDrain
    PROVE  NInv'
<1>1. Types' /\ phase = "serving" /\ Rotate(writes) /\ phase' \in {"serving", "closing"}
  BY StartDrainTypes DEF NInv, StartDrain
<1>2. QED BY <1>1, RotateNumbers

\* Close begins.
LEMMA StartCloseRotates ==
    ASSUME StartClose
    PROVE  \E R \in SUBSET writes : Rotate(R)
<1>1. CASE Rotate(writes)
  BY <1>1
<1>2. CASE \E r \in writes : Rotate(Before(r))
  <2>1. PICK r \in writes : Rotate(Before(r))
    BY <1>2
  <2>2. Before(r) \in SUBSET writes
    BY DEF Before
  <2>3. QED BY <2>1, <2>2
<1>3. QED BY <1>1, <1>2 DEF StartClose

\* Its numbers.
LEMMA StartCloseNumbers ==
    ASSUME NInv, UpTypes, UpKept, StartClose
    PROVE  NInv'
<1>1. Types' /\ phase = "serving" /\ phase' \in {"serving", "closing"}
  BY StartCloseTypes DEF NInv, StartClose
<1>2. PICK R \in SUBSET writes : Rotate(R)
  BY StartCloseRotates
<1>3. QED BY <1>1, <1>2, RotateNumbers

\* What the map has of a block after a chunk of the WAL landed.
LEMMA UploadIs ==
    ASSUME Types, JobsLogged, NEW j \in jobs, Upload(j)
    PROVE  /\ \A b \in Blocks : \/ MapSeq(b)' = MapSeq(b)
                                \/ /\ b \in DOMAIN j /\ MapSeq(b)' = j[b]
                                   /\ <<b, j[b]>> \in Logged
           /\ \A b \in Blocks : MapSeq(b)' \in Nat /\ MapSeq(b) \in Nat
           /\ Logged' = Logged /\ Loaded' = Loaded
<1>1. objNum \in Nat /\ MapOK(lookup, objNum) /\ IsChunk(j)
  BY DEF Types, MemTypes, CtlTypes
<1>2. lookup' = ApplyChunk(lookup, j, objNum)
  BY DEF Upload
<1>3. MapOK(lookup', objNum + 1)
  BY <1>1, <1>2, ApplyOK
<1>4. \A b \in Blocks : SeqIn(lookup', b) = SeqIn(lookup, b)
                        \/ (b \in DOMAIN j /\ SeqIn(lookup', b) = j[b])
  BY <1>1, <1>2, ApplyOK
<1>5. \A b \in Blocks : SeqIn(lookup', b) \in Nat /\ SeqIn(lookup, b) \in Nat
  BY <1>1, <1>3, MapIs
<1>6. Logged' = Logged /\ Loaded' = Loaded
  BY Names DEF Upload, diskVars
<1>7. QED BY <1>4, <1>5, <1>6, Names DEF JobsLogged

\* A chunk lands.
LEMMA UploadNumbers ==
    ASSUME NInv, UpTypes, UpKept, NEW j \in jobs, Upload(j)
    PROVE  NInv'
<1>1. Types /\ Types' /\ NumbersCovered /\ JobsLogged
  BY UploadTypes DEF NInv
<1>2. /\ \A b \in Blocks : MapSeq(b)' = MapSeq(b) \/ <<b, MapSeq(b)'>> \in Logged
      /\ \A b \in Blocks : MapSeq(b)' \in Nat
      /\ Logged' = Logged
  BY <1>1, UploadIs
<1>3. ASSUME NEW b \in Blocks PROVE SeqIn(lookup', b) = 0 \/ Covered(SeqIn(lookup', b))
  <2>1. CASE MapSeq(b)' = MapSeq(b)
    BY <1>1, <2>1, Names DEF NumbersCovered
  <2>2. CASE <<b, MapSeq(b)'>> \in Logged
    <3>1. <<b, MapSeq(b)'>>[2] = MapSeq(b)' /\ MapSeq(b)' <= MapSeq(b)'
      BY <1>2
    <3>2. Covered(MapSeq(b)')
      BY <2>2, <3>1 DEF Covered, CoveredBy
    <3>3. QED BY <3>2, Names
  <2>3. QED BY <1>2, <2>1, <2>2
<1>4. NumbersCovered'
  BY <1>1, <1>3, QuietDisk, CoveredStep DEF Upload
<1>5. NumbersBelow'
  <2>1. CASE Replaying
    BY <2>1 DEF NInv, NumbersBelow, Replaying, Upload, diskVars
  <2>2. CASE ~Replaying
    <3>1. phase # "down"
      BY <1>1 DEF Types, CtlTypes, Steps, Upload
    <3>2. /\ \A r \in writes \cup Logged : r[2] <= seqNum
          /\ \A b \in Blocks : MapSeq(b) <= seqNum /\ hot[b] <= seqNum
          /\ config.seq <= seqNum
      BY <2>2, <3>1, ServingNumbers
    <3>3. ASSUME NEW b \in Blocks PROVE MapSeq(b)' <= seqNum
      <4>1. CASE MapSeq(b)' = MapSeq(b)
        BY <3>2, <4>1
      <4>2. CASE <<b, MapSeq(b)'>> \in Logged
        <5>1. <<b, MapSeq(b)'>>[2] <= seqNum
          BY <3>2, <4>2
        <5>2. QED BY <5>1
      <4>3. QED BY <1>2, <4>1, <4>2
    <3>4. QED BY <1>2, <2>2, <3>1, <3>2, <3>3 DEF NumbersBelow, Replaying, Upload, diskVars
  <2>3. QED BY <2>1, <2>2
<1>6. ConfigFirst'
  BY DEF ConfigFirst, Upload
<1>7. JobsLogged'
  BY <1>1, <1>2 DEF JobsLogged, Upload
<1>8. QED BY <1>1, <1>4, <1>5, <1>6, <1>7 DEF NInv

\* A PUT that fails.
LEMMA UploadFailsNumbers ==
    ASSUME NInv, UpTypes, UpKept, UploadFails
    PROVE  NInv'
<1>1. Types /\ Types' /\ NumbersCovered
  BY UploadFailsTypes DEF NInv
<1>2. UNCHANGED <<segments, diskVars>> /\ at = "upload" /\ (lookup' = lookup \/ lookup' = {})
  BY DEF UploadFails, OpenFails, Gone, memVars
<1>3. NumbersCovered'
  BY <1>1, <1>2, QuietDisk, CoveredStep, MapKept
<1>4. CASE Gone
  BY <1>1, <1>3, <1>4, DownNumbers DEF NInv
<1>5. CASE /\ phase \in {"serving", "closing"}
           /\ jobs' = {} /\ at' = (IF phase = "serving" THEN "idle" ELSE "config")
           /\ UNCHANGED <<memVars, phase, closeErr, upVars>>
  <2>1. Logged' = Logged /\ \A b : MapSeq(b)' = MapSeq(b)
    BY <1>2, <1>5, Names DEF memVars
  <2>2. NumbersBelow'
    BY <1>2, <1>5, <2>1 DEF NInv, NumbersBelow, Replaying, memVars, diskVars
  <2>3. ConfigFirst' /\ JobsLogged'
    BY <1>5 DEF ConfigFirst, JobsLogged
  <2>4. QED BY <1>1, <1>3, <2>2, <2>3 DEF NInv
<1>6. QED BY <1>4, <1>5 DEF UploadFails, OpenFails

\* The uploads are done.
LEMMA UploadsDoneNumbers ==
    ASSUME NInv, UpTypes, UpKept, UploadsDone
    PROVE  NInv'
<1>1. Types /\ Types' /\ NumbersCovered /\ phase # "down"
  BY UploadsDoneTypes DEF NInv, UploadsDone, Types, CtlTypes, Steps
<1>2. NumbersCovered'
  BY <1>1, QuietDisk, CoveredStep, MapKept DEF UploadsDone
<1>3. Logged' = Logged /\ \A b : MapSeq(b)' = MapSeq(b)
  BY Names DEF UploadsDone
<1>4. NumbersBelow'
  <2>1. CASE phase = "recover"
    <3>1. seqNum' = TopSeqNum /\ at' = "config" /\ phase' = "recover" /\ at = "upload"
          /\ UNCHANGED <<writes, hot, config>>
      BY <2>1 DEF UploadsDone, TopSeqNum, diskVars
    <3>2. seqNum = config.seq /\ writes = {} /\ hot = Zero
      BY <1>1, <2>1, <3>1 DEF NInv, NumbersBelow, Replaying, Types, CtlTypes
    <3>3. TopSeqNum \in Nat /\ seqNum <= TopSeqNum /\ (\A r \in Logged : r[2] <= TopSeqNum)
          /\ config.seq \in Nat /\ \A r \in Logged : r[2] \in Nat
      <4>1. TopSeqNum \in 0..MaxSeqNum /\ config.seq \in 0..MaxSeqNum
        BY <1>1, ReplayedSeqNum DEF Types, DiskTypes
      <4>2. Logged \in SUBSET Rec
        BY <1>1, Names, LoggedIs DEF Types, DiskTypes
      <4>3. \A r \in Logged : r[2] \in Nat
        BY <4>2, RecIs
      <4>4. QED BY <1>1, <4>1, <4>3, ReplayedSeqNum, BoundAssumption
    <3>4. ASSUME NEW b \in Blocks PROVE MapSeq(b) <= TopSeqNum
      <4>1. MapSeq(b) \in Nat
        BY <1>1, MapIs, Names DEF Types, MemTypes
      <4>2. MapSeq(b) <= config.seq \/ \E r \in Logged : MapSeq(b) <= r[2]
        BY <1>1 DEF NumbersCovered, Covered, CoveredBy
      <4>3. QED BY <3>2, <3>3, <4>1, <4>2
    <3>5. \A b \in Blocks : Zero[b] <= TopSeqNum
      BY <3>3 DEF Zero
    <3>6. QED BY <1>3, <3>1, <3>2, <3>3, <3>4, <3>5 DEF NumbersBelow, Replaying
  <2>2. CASE phase # "recover"
    BY <1>1, <1>3, <2>2 DEF NInv, NumbersBelow, Replaying, UploadsDone, diskVars
  <2>3. QED BY <2>1, <2>2
<1>5. ConfigFirst' /\ JobsLogged'
  BY DEF ConfigFirst, JobsLogged, UploadsDone
<1>6. QED BY <1>1, <1>2, <1>4, <1>5 DEF NInv

\* The live checkpoint is written, or not.
LEMMA SaveLiveNumbers ==
    ASSUME NInv, UpTypes, UpKept, SaveLiveCheckpoint
    PROVE  NInv'
<1>1. Types /\ Types' /\ NumbersCovered /\ at = "live"
  BY SaveLiveTypes DEF NInv, SaveLiveCheckpoint
<1>2. live' \subseteq live \cup {Expand(lookup)} /\ UNCHANGED <<segments, config, numbered>>
  BY DEF SaveLiveCheckpoint
<1>3. DiskStep
  <2>1. config.seq \in Nat
    BY <1>1, BoundAssumption DEF Types, DiskTypes
  <2>2. QED BY <1>2, <2>1 DEF DiskStep
<1>4. NumbersCovered'
  BY <1>1, <1>3, CoveredStep, MapKept DEF SaveLiveCheckpoint
<1>5. Logged' = Logged /\ \A b : MapSeq(b)' = MapSeq(b)
  BY Names DEF SaveLiveCheckpoint
<1>6. NumbersBelow'
  BY <1>1, <1>5 DEF NInv, NumbersBelow, Replaying, SaveLiveCheckpoint, Types, CtlTypes, Steps
<1>7. ConfigFirst'
  BY <1>1, <1>5 DEF NInv, ConfigFirst, SaveLiveCheckpoint, Types, CtlTypes, Steps
<1>8. JobsLogged'
  BY <1>5 DEF NInv, JobsLogged, SaveLiveCheckpoint
<1>9. QED BY <1>1, <1>4, <1>6, <1>7, <1>8 DEF NInv

\* SaveState.
LEMMA SaveStateNumbers ==
    ASSUME NInv, UpTypes, UpKept, SaveState
    PROVE  NInv'
<1> DEFINE c == [seq |-> seqNum, obj |-> objNum, wall |-> wallNum]
<1>1. /\ Types /\ Types' /\ NumbersCovered /\ at = "config" /\ phase # "down" /\ ~Replaying
      /\ phase \in {"recover", "closing"}
  BY SaveStateTypes DEF NInv, SaveState, Types, CtlTypes, Steps, Replaying
<1>2. /\ config' = c \/ config' = config
      /\ UNCHANGED <<segments, numbered, live>>
      /\ lookup' = lookup \/ lookup' = {}
  BY DEF SaveState, Refused, OpenFails, Gone, memVars
<1>3. /\ \A r \in writes \cup Logged : r[2] <= seqNum
      /\ \A b \in Blocks : MapSeq(b) <= seqNum /\ hot[b] <= seqNum
      /\ config.seq <= seqNum /\ config.seq \in Nat /\ seqNum \in Nat
  BY <1>1, ServingNumbers
<1>4. config'.seq <= seqNum /\ config.seq <= config'.seq
  BY <1>2, <1>3
<1>5. DiskStep
  BY <1>2, <1>4 DEF DiskStep
<1>6. NumbersCovered'
  BY <1>1, <1>2, <1>5, CoveredStep, MapKept
<1>7. CASE Gone
  BY <1>1, <1>6, <1>7, DownNumbers DEF NInv
<1>8. CASE /\ at' = "numbered" /\ UNCHANGED <<memVars, phase, jobs>>
           /\ config' = c \/ (phase = "closing" /\ closeErr' = TRUE)
  <2>1. Logged' = Logged /\ \A b : MapSeq(b)' = MapSeq(b)
    BY <1>2, <1>8, Names DEF memVars
  <2>2. NumbersBelow'
    BY <1>1, <1>3, <1>4, <1>8, <2>1 DEF NumbersBelow, Replaying, memVars
  <2>3. ConfigFirst'
    BY <1>1, <1>3, <1>8, <2>1 DEF ConfigFirst, memVars
  <2>4. JobsLogged'
    BY <1>8, <2>1 DEF NInv, JobsLogged
  <2>5. QED BY <1>1, <1>6, <2>2, <2>3, <2>4 DEF NInv
<1>9. QED BY <1>7, <1>8 DEF SaveState, Refused, OpenFails

\* SaveBlockState.
LEMMA SaveBlockStateNumbers ==
    ASSUME NInv, UpTypes, UpKept, SaveBlockState
    PROVE  NInv'
<1> DEFINE c == With(numbered, wallNum, Expand(lookup))
<1>1. /\ Types /\ Types' /\ NumbersCovered /\ at = "numbered" /\ phase # "down" /\ ~Replaying
      /\ phase \in {"recover", "closing"}
  BY SaveBlockStateTypes DEF NInv, SaveBlockState, Types, CtlTypes, Steps, Replaying
<1>2. /\ numbered' = c \/ numbered' = numbered
      /\ UNCHANGED <<segments, config, live>>
      /\ lookup' = lookup \/ lookup' = {}
  BY DEF SaveBlockState, Refused, OpenFails, Gone, memVars
<1>3. \A w \in DOMAIN c : (w \in DOMAIN numbered /\ c[w] = numbered[w]) \/ c[w] = Expand(lookup)
  BY DEF With
<1> HIDE DEF c
<1>4. DiskStep
  <2>1. config.seq \in Nat
    BY <1>1, BoundAssumption DEF Types, DiskTypes
  <2>2. \A w \in DOMAIN numbered' : \/ w \in DOMAIN numbered /\ numbered'[w] = numbered[w]
                                    \/ numbered'[w] = Expand(lookup)
    BY <1>2, <1>3
  <2>3. QED BY <1>2, <2>1, <2>2 DEF DiskStep
<1>5. NumbersCovered'
  BY <1>1, <1>2, <1>4, CoveredStep, MapKept
<1>6. CASE Gone
  BY <1>1, <1>5, <1>6, DownNumbers DEF NInv
<1>7. CASE /\ at' = (IF phase = "recover" THEN "live" ELSE "remove")
           /\ UNCHANGED <<writes, hot, seqNum, lookup, phase, jobs>>
           /\ closeErr' = closeErr \/ (phase = "closing" /\ closeErr' = TRUE)
  <2>1. Logged' = Logged /\ \A b : MapSeq(b)' = MapSeq(b)
    BY <1>2, <1>7, Names
  <2>2. NumbersBelow'
    BY <1>1, <1>2, <1>7, <2>1 DEF NInv, NumbersBelow, Replaying
  <2>3. ConfigFirst'
    BY <1>1, <1>2, <1>7, <2>1 DEF NInv, ConfigFirst
  <2>4. JobsLogged'
    BY <1>7, <2>1 DEF NInv, JobsLogged
  <2>5. QED BY <1>1, <1>5, <2>2, <2>3, <2>4 DEF NInv
<1>8. QED BY <1>6, <1>7 DEF SaveBlockState, Refused, OpenFails, memVars

\* A removed segment's records are in config.json's SeqNum.
LEMMA RemovedCovered ==
    ASSUME Types, UNCHANGED diskVars, NEW s, s \in SUBSET LoggedIn(segments),
           LoggedIn(segments) = LoggedIn(segments') \cup s,
           \A r \in Logged : r[2] <= config.seq
    PROVE  DiskStep
<1>1. config.seq \in Nat
  BY BoundAssumption DEF Types, DiskTypes
<1>2. \A r \in s : r[2] <= config'.seq
  BY Names DEF diskVars
<1>3. \A r \in LoggedIn(segments) : r \in LoggedIn(segments') \/ r[2] <= config'.seq
  BY <1>2
<1>4. QED BY <1>1, <1>3 DEF DiskStep, diskVars

\* Close removes the local files.
LEMMA CloseRemovesNumbers ==
    ASSUME NInv, UpTypes, UpKept, CloseRemoves
    PROVE  NInv'
<1>1. /\ Types /\ Types' /\ NumbersCovered /\ phase = "closing" /\ at = "remove"
      /\ UNCHANGED diskVars
  BY CloseRemovesTypes DEF NInv, CloseRemoves
<1>2. CASE Gone /\ UNCHANGED segments
  <2>1. NumbersCovered'
    BY <1>1, <1>2, QuietDisk, CoveredStep, MapKept DEF Gone
  <2>2. QED BY <1>1, <1>2, <2>1, DownNumbers DEF NInv
<1>3. CASE ~closeErr /\ \E i \in 1..Len(segments) :
              segments' = Without(i) /\ UNCHANGED <<memVars, ctlVars>>
  <2>1. PICK i \in 1..Len(segments) : segments' = Without(i) /\ UNCHANGED <<memVars, ctlVars>>
    BY <1>3
  <2>2. segments[i] \in SUBSET LoggedIn(segments)
        /\ LoggedIn(segments) = LoggedIn(segments') \cup segments[i]
    BY <1>1, <2>1, WithoutIsLess DEF Types, DiskTypes
  <2>3. /\ \A r \in writes \cup Logged : r[2] <= seqNum
        /\ \A b \in Blocks : MapSeq(b) <= seqNum /\ hot[b] <= seqNum
        /\ config.seq <= seqNum
    BY <1>1, ServingNumbers DEF Replaying
  <2>4. config.seq = seqNum
    BY <1>1, <1>3 DEF NInv, ConfigFirst
  <2>5. DiskStep
    BY <1>1, <2>2, <2>3, <2>4, RemovedCovered
  <2>6. NumbersCovered'
    BY <1>1, <2>1, <2>5, CoveredStep, MapKept DEF memVars
  <2>7. Logged' \subseteq Logged /\ \A b : MapSeq(b)' = MapSeq(b)
    BY <2>1, <2>2, Names DEF memVars
  <2>8. NumbersBelow'
    BY <1>1, <2>1, <2>3, <2>7 DEF NumbersBelow, Replaying, memVars, diskVars, ctlVars
  <2>9. ConfigFirst'
    BY <1>1, <2>1, <2>4 DEF ConfigFirst, memVars, diskVars, ctlVars
  <2>10. JobsLogged'
    BY <1>1, <2>1 DEF Types, CtlTypes, JobsLogged, ctlVars
  <2>11. QED BY <1>1, <2>6, <2>8, <2>9, <2>10 DEF NInv
<1>4. QED BY <1>2, <1>3 DEF CloseRemoves

\* A new segment is empty.
LEMMA EmptySegment ==
    /\ LoggedIn(<<>>) = {} /\ LoggedIn(<<{}>>) = {}
    /\ <<{}>>[Len(<<{}>>)] = {}
<1>1. DOMAIN <<>> = {} /\ DOMAIN <<{}>> = {1} /\ <<{}>>[1] = {} /\ Len(<<{}>>) = 1
  OBVIOUS
<1>2. LoggedIn(<<>>) = {}
  BY <1>1 DEF LoggedIn
<1>3. LoggedIn(<<{}>>) = {}
  <2>1. \A i \in DOMAIN <<{}>> : <<{}>>[i] = {}
    BY <1>1
  <2>2. QED BY <2>1 DEF LoggedIn
<1>4. QED BY <1>1, <1>2, <1>3

\* Recovery removes the segments and opens a new one.
LEMMA RecoveryRemovesNumbers ==
    ASSUME NInv, UpTypes, UpKept, RecoveryRemoves
    PROVE  NInv'
<1>1. /\ Types /\ Types' /\ NumbersCovered /\ phase = "recover" /\ at = "remove"
      /\ UNCHANGED <<memVars, diskVars, jobs>> /\ jobs = {}
  BY RecoveryRemovesTypes DEF NInv, RecoveryRemoves, Types, CtlTypes
<1>2. PICK s : /\ s \in SUBSET LoggedIn(segments)
               /\ LoggedIn(segments) = LoggedIn(segments') \cup s
  <2>1. CASE segments = <<>>
    <3>1. segments' = <<{}>>
      BY <2>1 DEF RecoveryRemoves
    <3>2. LoggedIn(segments) = {} /\ LoggedIn(segments') = {}
      BY <2>1, <3>1, EmptySegment
    <3>3. QED BY <3>2
  <2>2. CASE segments # <<>>
    BY <1>1, <2>2, TailIsLess DEF RecoveryRemoves, Types, DiskTypes
  <2>3. QED BY <2>1, <2>2
<1>3. /\ \A r \in writes \cup Logged : r[2] <= seqNum
      /\ \A b \in Blocks : MapSeq(b) <= seqNum /\ hot[b] <= seqNum
      /\ config.seq <= seqNum
  BY <1>1, ServingNumbers DEF Replaying
<1>4. \A r \in Logged : r[2] <= config.seq
  BY <1>1 DEF NInv, ConfigFirst
<1>5. DiskStep
  BY <1>1, <1>2, <1>4, RemovedCovered
<1>6. NumbersCovered'
  BY <1>1, <1>5, CoveredStep, MapKept DEF memVars
<1>7. Logged' \subseteq Logged /\ \A b : MapSeq(b)' = MapSeq(b)
  BY <1>1, <1>2, Names DEF memVars
<1>8. phase' = "serving" \/ (phase' = "recover" /\ at' = "remove")
  BY <1>1 DEF RecoveryRemoves
<1>9. NumbersBelow'
  BY <1>1, <1>3, <1>7, <1>8 DEF NumbersBelow, Replaying, memVars, diskVars
<1>10. ConfigFirst'
  BY <1>1, <1>4, <1>7, <1>8 DEF ConfigFirst, diskVars
<1>11. JobsLogged'
  BY <1>1 DEF JobsLogged
<1>12. QED BY <1>1, <1>6, <1>9, <1>10, <1>11 DEF NInv

\* What an open starts from.
LEMMA OpenIs ==
    ASSUME Types, Open
    PROVE  /\ IsCkpt(Loaded)
           /\ \A b \in Blocks : \/ MapSeq(b)' = IF b \in DOMAIN Loaded THEN Loaded[b].seq ELSE 0
                                \/ MapSeq(b)' = 0 /\ <<"unread", b>> \in lost'
           /\ Logged' = Logged /\ Loaded' = Loaded
           /\ \A j \in jobs' : \A b \in DOMAIN j : <<b, j[b]>> \in Logged
           /\ \A j, k \in jobs' : j # k => DOMAIN j \cap DOMAIN k = {}
           /\ \A r \in Logged : \E j \in jobs' : r[1] \in DOMAIN j /\ r[2] <= j[r[1]]
<1>1. /\ IsCkpt(Loaded) /\ NextObject \in Nat
      /\ \A b \in DOMAIN Loaded : Loaded[b].obj < NextObject
  BY NextObjectIs DEF Types
<1>2. jobs' = ChunksOf(Newest(Logged))
  BY DEF Open
<1>3. ASSUME NEW b \in Blocks
      PROVE  \/ SeqIn(lookup', b) = IF b \in DOMAIN Loaded THEN Loaded[b].seq ELSE 0
             \/ SeqIn(lookup', b) = 0 /\ <<"unread", b>> \in lost'
  <2>1. CASE lookup' = Coalesce(Loaded)
    BY <1>1, <2>1, CoalesceOK
  <2>2. CASE lookup' = {} /\ lost' = lost \cup ({"unread"} \X DOMAIN Loaded)
    <3>1. SeqIn(lookup', b) = 0
      BY <2>2 DEF SeqIn, Mapped
    <3>2. b \in DOMAIN Loaded => <<"unread", b>> \in lost'
      BY <2>2
    <3>3. QED BY <3>1, <3>2
  <2>3. QED BY <2>1, <2>2 DEF Open
<1>4. Logged' = Logged /\ Loaded' = Loaded
  BY Names DEF Open, diskVars
<1>5. Logged \in SUBSET Rec
  BY Names, LoggedIs DEF Types, DiskTypes
<1>6. /\ \A j \in jobs' : \A b \in DOMAIN j : /\ <<b, j[b]>> \in Logged
                                              /\ \A r \in Logged : r[1] = b => r[2] <= j[b]
      /\ \A j, k \in jobs' : j # k => DOMAIN j \cap DOMAIN k = {}
      /\ \A r \in Logged : \E j \in jobs' : r[1] \in DOMAIN j
  BY <1>2, <1>5, ChunksAre
<1>7. QED BY <1>1, <1>3, <1>4, <1>6, Names

\* The SeqNums of what an open loads are covered.
LEMMA LoadedCovered ==
    ASSUME Types, NumbersCovered
    PROVE  \A b \in DOMAIN Loaded : Covered(Loaded[b].seq)
<1>1. CASE live # {}
  <2>1. PICK f : live = {f}
    BY <1>1 DEF Types, DiskTypes
  <2>2. Loaded = f
    <3>1. (\A w \in DOMAIN numbered : IsCkpt(numbered[w])) /\ \E g : IsCkpt(g) /\ live = {g}
      BY <1>1 DEF Types, DiskTypes
    <3>2. LoadedFrom(config, numbered, live) = f
      BY <2>1, <3>1, LoadedIs
    <3>3. QED BY <3>2, Names
  <2>3. QED BY <2>1, <2>2 DEF NumbersCovered
<1>2. CASE live = {} /\ config.wall \in DOMAIN numbered
  <2>1. Loaded = numbered[config.wall]
    BY <1>2, Names, LoadedIs DEF Types, DiskTypes
  <2>2. QED BY <1>2, <2>1 DEF NumbersCovered
<1>3. CASE live = {} /\ config.wall \notin DOMAIN numbered
  <2>1. DOMAIN Loaded = {}
    BY <1>3, Names, LoadedIs DEF Types, DiskTypes
  <2>2. QED BY <2>1
<1>4. QED BY <1>1, <1>2, <1>3

\* An open.
LEMMA OpenNumbers ==
    ASSUME NInv, UpTypes, UpKept, Open
    PROVE  NInv'
<1>1. Types /\ Types' /\ NumbersCovered /\ phase = "down" /\ phase' = "recover"
  BY OpenTypes DEF NInv, Open
<1>2. /\ \A b \in Blocks : \/ MapSeq(b)' = IF b \in DOMAIN Loaded THEN Loaded[b].seq ELSE 0
                           \/ MapSeq(b)' = 0
      /\ Logged' = Logged
  BY <1>1, OpenIs
<1>3. \A b \in DOMAIN Loaded : Covered(Loaded[b].seq)
  BY <1>1, LoadedCovered
<1>4. \A b \in Blocks : SeqIn(lookup', b) = 0 \/ Covered(SeqIn(lookup', b))
  BY <1>2, <1>3, Names
<1>5. NumbersCovered'
  BY <1>1, <1>4, QuietDisk, CoveredStep DEF Open
<1>6. NumbersBelow'
  <2>1. seqNum' = config.seq /\ config' = config /\ writes' = writes /\ hot' = hot
    BY DEF Open, diskVars
  <2>2. writes = {} /\ hot = Zero /\ config.seq \in Nat
    BY <1>1, BoundAssumption DEF Types, CtlTypes, DiskTypes
  <2>3. CASE at' = "upload"
    BY <1>1, <2>1, <2>3 DEF NumbersBelow, Replaying
  <2>4. CASE Logged = {} /\ at' = "remove"
    <3>1. \A b \in DOMAIN Loaded : Loaded[b].seq <= config.seq
      BY <1>3, <2>4 DEF Covered, CoveredBy
    <3>2. \A b \in Blocks : MapSeq(b)' <= config.seq /\ Zero[b] <= config.seq
      BY <1>2, <2>2, <3>1 DEF Zero
    <3>3. QED BY <1>1, <1>2, <2>1, <2>2, <2>4, <3>2 DEF NumbersBelow, Replaying
  <2>5. QED BY <2>3, <2>4 DEF Open
<1>7. ConfigFirst'
  <2>1. at' = "upload" \/ (at' = "remove" /\ Logged' = {})
    BY <1>2 DEF Open
  <2>2. QED BY <1>1, <2>1 DEF ConfigFirst
<1>8. JobsLogged'
  BY <1>1, OpenIs DEF JobsLogged
<1>9. QED BY <1>1, <1>5, <1>6, <1>7, <1>8 DEF NInv

\* A crash.
LEMMA CrashNumbers ==
    ASSUME NInv, UpTypes, UpKept, Crash
    PROVE  NInv'
<1>1. Types /\ Types' /\ NumbersCovered /\ Gone
  BY CrashTypes DEF NInv, Crash
<1>2. LoggedIn(segments) \subseteq LoggedIn(segments')
  BY <1>1, CrashTypes
<1>3. NumbersCovered'
  BY <1>1, <1>2, QuietDisk, CoveredStep, MapKept DEF Crash, Gone
<1>4. QED BY <1>1, <1>3, DownNumbers DEF NInv

\* The uploader beside recovery.
LEMMA TickReadsMapNumbers ==
    ASSUME NInv, UpTypes, UpKept, TickReadsMap
    PROVE  NInv'
<1>1. /\ Types /\ Types' /\ NumbersCovered
      /\ UNCHANGED <<memVars, segments, diskVars, ctlVars>>
  BY TickReadsMapTypes DEF NInv, TickReadsMap
<1>2. NumbersCovered'
  BY <1>1, QuietDisk, CoveredStep, MapKept DEF memVars
<1>3. Logged' = Logged /\ \A b : MapSeq(b)' = MapSeq(b)
  BY <1>1, Names DEF memVars
<1>4. NumbersBelow'
  BY <1>1, <1>3 DEF NInv, NumbersBelow, Replaying, memVars, diskVars, ctlVars
<1>5. ConfigFirst' /\ JobsLogged'
  BY <1>1, <1>3 DEF NInv, ConfigFirst, JobsLogged, memVars, diskVars, ctlVars
<1>6. QED BY <1>1, <1>2, <1>4, <1>5 DEF NInv

\* Its save, and that of an abandoned volume.
LEMMA UpSavesNumbers ==
    ASSUME NInv, UpTypes, UpKept, TickSaves \/ OrphanSaves
    PROVE  NInv'
<1>1. /\ Types /\ Types' /\ NumbersCovered
      /\ UNCHANGED <<writes, hot, seqNum, lookup, objNum, wallNum, segments, config, numbered,
                     ctlVars>>
  BY TickSavesTypes, OrphanSavesTypes DEF NInv, TickSaves, OrphanSaves, memVars
<1>2. live' \subseteq live \cup tick \cup orphans
  BY DEF TickSaves, OrphanSaves
<1>3. DiskStep
  <2>1. config.seq \in Nat
    BY <1>1, BoundAssumption DEF Types, DiskTypes
  <2>2. QED BY <1>1, <1>2, <2>1 DEF DiskStep
<1>4. NumbersCovered'
  BY <1>1, <1>3, CoveredStep, MapKept
<1>5. Logged' = Logged /\ \A b : MapSeq(b)' = MapSeq(b)
  BY <1>1, Names
<1>6. NumbersBelow'
  BY <1>1, <1>5 DEF NInv, NumbersBelow, Replaying, ctlVars
<1>7. ConfigFirst' /\ JobsLogged'
  BY <1>1, <1>5 DEF NInv, ConfigFirst, JobsLogged, ctlVars
<1>8. QED BY <1>1, <1>4, <1>6, <1>7 DEF NInv

\* Nothing changes.
LEMMA StutterNumbers ==
    ASSUME NInv, UpTypes, UpKept, UNCHANGED vars
    PROVE  NInv'
<1>1. Types /\ Types' /\ NumbersCovered
  BY StutterTypes DEF NInv
<1>2. NumbersCovered'
  BY <1>1, QuietDisk, CoveredStep, MapKept DEF vars, memVars
<1>3. Logged' = Logged /\ \A b : MapSeq(b)' = MapSeq(b)
  BY Names DEF vars, memVars
<1>4. NumbersBelow'
  BY <1>3 DEF NInv, NumbersBelow, Replaying, vars, memVars, diskVars, ctlVars
<1>5. ConfigFirst' /\ JobsLogged'
  BY <1>3 DEF NInv, ConfigFirst, JobsLogged, vars, memVars, diskVars, ctlVars
<1>6. QED BY <1>1, <1>2, <1>4, <1>5 DEF NInv

\* A new volume.
LEMMA NumbersInit ==
    ASSUME Init
    PROVE  NInv
<1>1. Types
  BY TypesInit
<1>2. live = {} /\ DOMAIN numbered = {} /\ lookup = {} /\ config.seq = 0 /\ jobs = {}
      /\ phase = "down" /\ tick = {} /\ orphans = {}
  BY DEF Init, None
<1>3. \A b : MapSeq(b) = 0
  BY <1>2, Names DEF SeqIn, Mapped
<1>4. NumbersCovered
  BY <1>2, <1>3 DEF NumbersCovered, Covered, CoveredBy
<1>5. NumbersBelow /\ ConfigFirst /\ JobsLogged
  BY <1>2 DEF NumbersBelow, ConfigFirst, JobsLogged, Replaying
<1>6. QED BY <1>1, <1>4, <1>5 DEF NInv

\* Every step keeps it.
LEMMA NumbersStep ==
    ASSUME NInv, UpTypes, [Next]_vars
    PROVE  NInv' /\ UpTypes'
<1>1. UpKept /\ UpTypes'
  BY UpStep DEF NInv
<1>2. ASSUME NEW b \in Blocks, Write(b) PROVE NInv'
  BY <1>1, <1>2, WriteNumbers
<1>3. ASSUME NEW j \in jobs, Upload(j) PROVE NInv'
  BY <1>1, <1>3, UploadNumbers
<1>4. QED
  BY <1>1, <1>2, <1>3, FlushNumbers, PartialFlushNumbers, StartDrainNumbers, StartCloseNumbers,
     UploadFailsNumbers, UploadsDoneNumbers, SaveLiveNumbers, SaveStateNumbers,
     SaveBlockStateNumbers, CloseRemovesNumbers, RecoveryRemovesNumbers, TickReadsMapNumbers,
     UpSavesNumbers, OpenNumbers, CrashNumbers, StutterNumbers
  DEF Next

\* The invariant says what the model states about a serving volume.
LEMMA NumbersAre ==
    ASSUME NInv
    PROVE  SeqNumCoversMap
<1> SUFFICES ASSUME phase = "serving", NEW e \in lookup, NEW b \in e.start..(End(e) - 1)
             PROVE  SeqNumAt(e, b) <= seqNum
  BY DEF SeqNumCoversMap
<1>1. MapOK(lookup, objNum)
  BY DEF NInv, Types, MemTypes
<1>2. IsExtent(e)
  BY <1>1 DEF MapOK, IsMap
<1>3. b \in Nat /\ Covers(e, b)
  <2>1. e.start \in Nat /\ End(e) \in Nat
    BY <1>2, ExtentType
  <2>2. QED BY <2>1 DEF Covers
<1>4. b \in Blocks /\ SeqIn(lookup, b) = SeqNumAt(e, b)
  BY <1>1, <1>3, MapIs DEF MapOK
<1>5. MapSeq(b) <= seqNum
  BY <1>4, ServingNumbers DEF Replaying
<1>6. QED BY <1>4, <1>5, Names

\* A volume that serves numbers its next write above every record its map
\* names (LoadState, RecoverLocalWALs), through any crashes and faults.
THEOREM NumbersCoverTheMap == Spec => []SeqNumCoversMap
<1>1. Init => NInv /\ UpTypes
  BY NumbersInit DEF Init, UpTypes
<1>2. NInv /\ UpTypes /\ [Next]_vars => NInv' /\ UpTypes'
  BY NumbersStep
<1>3. NInv => SeqNumCoversMap
  BY NumbersAre
<1>4. QED BY <1>1, <1>2, <1>3, PTL DEF Spec

-----------------------------------------------------------------------------
(* Which checkpoint an open would load, and its chunks.                    *)

\* What was dropped or displaced stays on record.
LEMMA LostGrows ==
    ASSUME [Next]_vars
    PROVE  lost \subseteq lost'
<1>1. CASE Next
  BY <1>1 DEF Next, Write, Flush, PartialFlush, StartDrain, StartClose, Rotate, Upload,
     UploadFails, UploadsDone, SaveLiveCheckpoint, SaveState, SaveBlockState, CloseRemoves,
     RecoveryRemoves, TickReadsMap, TickSaves, OrphanSaves, Open, Crash, histVars
<1>2. CASE UNCHANGED vars
  BY <1>2 DEF vars, histVars
<1>3. QED BY <1>1, <1>2

\* The blocks whose record no abandoned volume, move of WallNum or unread
\* checkpoint has displaced.
Named == {b \in Blocks : lost \cap ({"orphan", "wall", "unread"} \X {b}) = {}}

\* The chunks of the checkpoint an open would load, and of the map a tick has
\* read, have been numbered.
LoadedIDs ==
    phase # "down" => \A b \in DOMAIN Loaded : b \in Named => Loaded[b].obj < objNum
TickIDs == \A f \in tick : \A b \in DOMAIN f : f[b].obj < objNum

\* What an open would load is left alone by every step but the saves.
LEMMA LoadedStays ==
    ASSUME [Next]_vars, ~SaveLiveCheckpoint, ~SaveState, ~SaveBlockState, ~TickSaves, ~OrphanSaves
    PROVE  UNCHANGED diskVars
<1>1. CASE UNCHANGED vars
  BY <1>1 DEF vars
<1>2. CASE Next
  BY <1>2 DEF Next, Write, Flush, PartialFlush, StartDrain, StartClose, Rotate, Upload,
     UploadFails, UploadsDone, CloseRemoves, RecoveryRemoves, TickReadsMap, Open, Crash
<1>3. QED BY <1>1, <1>2

\* The same record of a block, or none.
SameAt(b) ==
    /\ b \in DOMAIN Loaded' <=> b \in DOMAIN Loaded
    /\ b \in DOMAIN Loaded => Loaded'[b] = Loaded[b]

\* They replace it by the map, or by the map a tick has read, or leave it;
\* otherwise the block is on record.
LEMMA LoadedStep ==
    ASSUME Types, Types', UpTypes, [Next]_vars, NEW b \in Blocks
    PROVE  \/ SameAt(b)
           \/ Loaded' = Expand(lookup) /\ phase # "down"
           \/ /\ Loaded' \in tick /\ phase # "down"
              /\ b \in GoneBack => \E l \in lost' : l[2] = b
           \/ b \notin Named'
<1> USE Names
<1>1. /\ \A w \in DOMAIN numbered : IsCkpt(numbered[w])
      /\ live # {} => \E f : IsCkpt(f) /\ live = {f}
      /\ \A w \in DOMAIN numbered' : IsCkpt(numbered'[w])
      /\ live' # {} => \E f : IsCkpt(f) /\ live' = {f}
  BY DEF Types, DiskTypes
<1>2. ASSUME LoadedFrom(config', numbered', live') = LoadedFrom(config, numbered, live)
      PROVE  SameAt(b)
  <2>1. Loaded' = Loaded
    BY <1>2
  <2>2. QED BY <2>1 DEF SameAt
<1>3. CASE UNCHANGED diskVars
  BY <1>2, <1>3 DEF diskVars
<1>4. CASE SaveLiveCheckpoint
  <2>1. phase # "down"
    BY <1>4 DEF SaveLiveCheckpoint, Types, CtlTypes, Steps
  <2>2. CASE live' = {Expand(lookup)}
    <3>1. LoadedFrom(config', numbered', live') = Expand(lookup)
      BY <1>1, <2>2, LoadedIs
    <3>2. QED BY <2>1, <3>1
  <2>3. CASE live' = live
    BY <1>2, <1>4, <2>3 DEF SaveLiveCheckpoint
  <2>4. QED BY <1>4, <2>2, <2>3 DEF SaveLiveCheckpoint
<1>5. CASE b \in Displaced /\ (SaveState \/ OrphanSaves)
  <2>1. <<"wall", b>> \in lost' \/ <<"orphan", b>> \in lost'
    BY <1>5 DEF SaveState, OrphanSaves
  <2>2. QED BY <2>1 DEF Named
<1>6. CASE b \notin Displaced
  BY <1>6 DEF Displaced, SameAt
<1>7. CASE SaveBlockState
  <2>1. config' = config /\ live' = live /\ at = "numbered"
    BY <1>7 DEF SaveBlockState
  <2>2. CASE live # {} \/ numbered' = numbered
    <3>1. LoadedFrom(config, numbered', live) = LoadedFrom(config, numbered, live)
      BY <2>2 DEF LoadedFrom
    <3>2. QED BY <1>2, <2>1, <3>1
  <2>3. CASE live = {} /\ numbered' = With(numbered, wallNum, Expand(lookup)) /\ wallNum = config.wall
    <3>1. phase # "down"
      BY <2>1 DEF Types, CtlTypes, Steps
    <3>2. config.wall \in DOMAIN numbered' /\ numbered'[config.wall] = Expand(lookup)
      BY <2>3 DEF With
    <3>3. LoadedFrom(config', numbered', live') = Expand(lookup)
      BY <1>1, <2>1, <2>3, <3>2, LoadedIs
    <3>4. QED BY <3>1, <3>3
  <2>4. CASE live = {} /\ numbered' = With(numbered, wallNum, Expand(lookup)) /\ wallNum # config.wall
    <3>1. /\ config.wall \in DOMAIN numbered' <=> config.wall \in DOMAIN numbered
          /\ config.wall \in DOMAIN numbered => numbered'[config.wall] = numbered[config.wall]
      BY <2>4 DEF With
    <3>2. LoadedFrom(config, numbered', live) = LoadedFrom(config, numbered, live)
      BY <3>1 DEF LoadedFrom
    <3>3. QED BY <1>2, <2>1, <3>2
  <2>5. QED BY <1>7, <2>2, <2>3, <2>4 DEF SaveBlockState
<1>8. CASE TickSaves
  <2>1. tick # {} /\ config' = config /\ numbered' = numbered
    BY <1>8 DEF TickSaves
  <2>2. PICK f : IsCkpt(f) /\ tick = {f}
    BY <2>1 DEF UpTypes
  <2>3. CASE live' = live
    BY <1>2, <2>1, <2>3
  <2>4. CASE live' = tick
    <3>1. LoadedFrom(config', numbered', live') = f
      BY <1>1, <2>2, <2>4, LoadedIs
    <3>2. Loaded' \in tick /\ phase # "down"
      BY <2>1, <2>2, <3>1 DEF UpTypes
    <3>3. b \in GoneBack => <<"tick", b>> \in lost'
      BY <1>8 DEF TickSaves
    <3>4. <<"tick", b>>[2] = b
      OBVIOUS
    <3>5. QED BY <3>2, <3>3, <3>4
  <2>5. QED BY <1>8, <2>3, <2>4 DEF TickSaves
<1>9. QED BY <1>3, <1>4, <1>5, <1>6, <1>7, <1>8, LoadedStays

\* ObjectNum goes back only with the process.
LEMMA ObjNumStep ==
    ASSUME Types, [Next]_vars
    PROVE  phase' = "down" \/ Open \/ objNum' = objNum \/ objNum' = objNum + 1
<1>1. ASSUME NEW b \in Blocks, Write(b) PROVE objNum' = objNum
  BY <1>1 DEF Write
<1>2. CASE Flush \/ PartialFlush \/ StartDrain \/ StartClose
  BY <1>2 DEF Flush, PartialFlush, StartDrain, StartClose, Rotate
<1>3. ASSUME NEW j \in jobs, Upload(j) PROVE objNum' = objNum + 1
  BY <1>3 DEF Upload
<1>4. CASE UploadFails \/ UploadsDone \/ SaveLiveCheckpoint
  BY <1>4 DEF UploadFails, UploadsDone, SaveLiveCheckpoint, OpenFails, Gone, memVars
<1>5. CASE SaveState \/ SaveBlockState
  BY <1>5 DEF SaveState, SaveBlockState, Refused, OpenFails, Gone, memVars
<1>6. CASE CloseRemoves \/ RecoveryRemoves \/ Crash
  BY <1>6 DEF CloseRemoves, RecoveryRemoves, Crash, Gone, memVars
<1>7. CASE TickReadsMap \/ TickSaves \/ OrphanSaves
  BY <1>7 DEF TickReadsMap, TickSaves, OrphanSaves, memVars
<1>8. CASE UNCHANGED vars
  BY <1>8 DEF vars, memVars
<1>9. QED BY <1>1, <1>2, <1>3, <1>4, <1>5, <1>6, <1>7, <1>8 DEF Next

\* A volume that is down stays so until the next open.
LEMMA DownStays ==
    ASSUME Types, UpTypes, [Next]_vars, phase = "down", ~Open
    PROVE  phase' = "down"
BY DEF Next, Write, Flush, PartialFlush, StartDrain, StartClose, Upload, UploadFails,
   UploadsDone, SaveLiveCheckpoint, SaveState, SaveBlockState, CloseRemoves, RecoveryRemoves,
   TickReadsMap, TickSaves, OrphanSaves, Crash, Gone, vars, ctlVars, Types, CtlTypes, Steps,
   UpTypes

\* The chunks of the map a tick has read.
LEMMA TickIDsStep ==
    ASSUME Types, UpTypes, TickIDs, [Next]_vars
    PROVE  TickIDs'
<1>1. objNum \in Nat /\ MapOK(lookup, objNum)
  BY DEF Types, MemTypes
<1>2. CASE tick' = {}
  BY <1>2 DEF TickIDs
<1>3. CASE tick' = {Expand(lookup)} /\ UNCHANGED memVars
  <2>1. \A b \in DOMAIN Expand(lookup) : Expand(lookup)[b].obj < objNum
    BY <1>1, ExpandOK
  <2>2. QED BY <1>3, <2>1 DEF TickIDs, memVars
<1>4. CASE tick' = tick /\ tick # {} /\ phase' \in {"recover", "serving"} /\ ~Open
  <2>1. objNum' = objNum \/ objNum' = objNum + 1
    BY <1>4, ObjNumStep
  <2>2. ASSUME NEW f \in tick, NEW b \in DOMAIN f PROVE f[b].obj < objNum'
    <3>1. f[b].obj \in Nat /\ f[b].obj < objNum
      BY CkptIs DEF UpTypes, TickIDs
    <3>2. QED BY <1>1, <2>1, <3>1
  <2>3. QED BY <1>4, <2>2 DEF TickIDs
<1>5. QED BY <1>2, <1>3, <1>4, UpStep DEF TickKept

\* The chunks of the checkpoint an open would load.
LEMMA LoadedIDsStep ==
    ASSUME Types, Types', UpTypes, LoadedIDs, TickIDs, [Next]_vars
    PROVE  LoadedIDs'
<1>1. objNum \in Nat /\ MapOK(lookup, objNum)
  BY DEF Types, MemTypes
<1>2. Named' \subseteq Named /\ Named' \subseteq Blocks
  BY LostGrows DEF Named
<1>3. CASE Open
  <2>1. Loaded' = Loaded
    BY <1>3, OpenIs
  <2>2. \A b \in DOMAIN Loaded : Loaded[b].obj < NextObject
    BY NextObjectIs DEF Types
  <2>3. CASE objNum' = NextObject
    BY <2>1, <2>2, <2>3 DEF LoadedIDs
  <2>4. CASE lost' = lost \cup ({"unread"} \X DOMAIN Loaded)
    <3>1. \A b \in DOMAIN Loaded : <<"unread", b>> \in lost'
      BY <2>4
    <3>2. ASSUME NEW b \in DOMAIN Loaded PROVE b \notin Named'
      <4>1. <<"unread", b>> \in {"orphan", "wall", "unread"} \X {b}
        OBVIOUS
      <4>2. <<"unread", b>> \in lost' \cap ({"orphan", "wall", "unread"} \X {b})
        BY <3>1, <4>1
      <4>3. QED BY <4>2 DEF Named
    <3>3. QED BY <2>1, <3>2 DEF LoadedIDs
  <2>5. QED BY <1>3, <2>3, <2>4 DEF Open
<1>4. CASE phase' # "down" /\ ~Open
  <2>1. objNum' = objNum \/ objNum' = objNum + 1
    BY <1>4, ObjNumStep
  <2>2. phase # "down"
    BY <1>4, DownStays
  <2>3. IsCkpt(Loaded) /\ IsCkpt(Loaded')
    BY LoadedBlocks DEF Types
  <2>4. \A b \in DOMAIN Expand(lookup) : Expand(lookup)[b].obj < objNum
    BY <1>1, ExpandOK
  <2>5. ASSUME NEW b \in DOMAIN Loaded', b \in Named' PROVE Loaded'[b].obj < objNum
    <3>1. b \in Blocks /\ b \in Named
      BY <1>2, <2>5
    <3>2. CASE SameAt(b)
      BY <2>2, <2>5, <3>1, <3>2 DEF SameAt, LoadedIDs
    <3>3. CASE Loaded' = Expand(lookup)
      BY <2>4, <2>5, <3>3
    <3>4. CASE Loaded' \in tick
      BY <2>5, <3>4 DEF TickIDs
    <3>5. QED BY <2>5, <3>1, <3>2, <3>3, <3>4, LoadedStep
  <2>6. \A b \in DOMAIN Loaded' : Loaded'[b].obj \in Nat
    BY <2>3, CkptIs
  <2>7. \A b \in DOMAIN Loaded' : b \in Named' => Loaded'[b].obj < objNum'
    BY <1>1, <2>1, <2>5, <2>6
  <2>8. QED BY <2>7 DEF LoadedIDs
<1>5. CASE phase' = "down"
  BY <1>5 DEF LoadedIDs
<1>6. QED BY <1>3, <1>4, <1>5

\* A volume that is up never hands out an ObjectID that its map or the
\* checkpoint an open would load refers to (parseBlockCheckpoint), but for the
\* blocks of a checkpoint it was not opened from.
THEOREM ObjectIDsAreFresh == Spec => []ChunkIDsFresh
<1> DEFINE I == NInv /\ UpTypes /\ LoadedIDs /\ TickIDs
<1>1. Init => I
  BY NumbersInit DEF Init, UpTypes, LoadedIDs, TickIDs
<1>2. I /\ [Next]_vars => I'
  <2> SUFFICES ASSUME I, [Next]_vars PROVE I'
    OBVIOUS
  <2>1. NInv' /\ UpTypes' /\ Types /\ Types'
    BY NumbersStep DEF NInv
  <2>2. QED BY <2>1, LoadedIDsStep, TickIDsStep
<1>3. I => ChunkIDsFresh
  <2> SUFFICES ASSUME I PROVE ChunkIDsFresh
    OBVIOUS
  <2>1. DOMAIN Loaded \subseteq Blocks
    BY NextObjectIs, CkptIs DEF NInv, Types
  <2>2. \A e \in lookup : e.obj < objNum
    BY DEF NInv, Types, MemTypes, MapOK
  <2>3. QED BY <2>1, <2>2 DEF LoadedIDs, ChunkIDsFresh, Named
<1>4. QED BY <1>1, <1>2, <1>3, PTL DEF Spec

-----------------------------------------------------------------------------
(* Durability.  The blocks of which no path has dropped or displaced a     *)
(* record are sound.  What an open would bring back of a sound block never *)
(* goes back: a record leaves the WAL only when a checkpoint has it, and   *)
(* no checkpoint is replaced by an older one.  That a path which does drop *)
(* or displace a record is one the model names is what the proof shows.    *)

SavedIn(f, b) == IF b \in DOMAIN f THEN f[b].seq ELSE 0
Saved(b) == SavedIn(Loaded, b)
Sound == {b \in Blocks : \A l \in lost : l[2] # b}

\* The map is not behind the checkpoint an open would load, and not ahead of
\* what the open would bring back.
MapBetween ==
    phase # "down" => \A b \in Sound : Saved(b) <= MapSeq(b) /\ MapSeq(b) <= Recoverable(b)

\* Nor is it behind the map that a tick of the uploader has read.
TickBehind == \A f \in tick : \A b \in Sound : SavedIn(f, b) <= MapSeq(b)

\* Recovery has replayed a record, or still has to.
Replayed ==
    phase = "recover" =>
        \A r \in Logged : r[1] \in Sound =>
            \/ r[2] <= MapSeq(r[1])
            \/ \E j \in jobs : r[1] \in DOMAIN j /\ r[2] <= j[r[1]]

\* The newest record of a block written since the open is in Writes.Blocks or
\* in the WAL, and every other one is older.
HotKept ==
    phase = "serving" =>
        /\ \A r \in writes \cup Logged : r[2] <= hot[r[1]]
        /\ \A b \in Sound : hot[b] # 0 => <<b, hot[b]>> \in writes \cup Logged

\* What was promised would be brought back.
PromisesKept == \A b \in Sound : promised[b] <= Recoverable(b)

\* A drain's records are newer than the map, and older than those that wait.
DrainsInOrder ==
    /\ phase \in {"serving", "closing"} =>
          \A j \in jobs : \A b \in DOMAIN j : MapSeq(b) < j[b]
    /\ phase = "serving" =>
          \A r \in writes \cup segments[Len(segments)] :
              /\ MapSeq(r[1]) < r[2]
              /\ \A j \in jobs : r[1] \in DOMAIN j => j[r[1]] < r[2]

DInv == MapBetween /\ TickBehind /\ Replayed /\ HotKept /\ PromisesKept /\ DrainsInOrder

\* The newest of a block's records in some segments and a checkpoint.
NewestIn(L, f, b) ==
    Max({0} \cup {r[2] : r \in {x \in L : x[1] = b}} \cup {f[c].seq : c \in DOMAIN f \cap {b}})

\* The model's name for it.
LEMMA RecoverableName ==
    /\ \A b : Recoverable(b) = NewestIn(Logged, Loaded, b)
    /\ \A b : Recoverable(b)' = NewestIn(Logged', Loaded', b)
    /\ \A b : Saved(b) = SavedIn(Loaded, b) /\ Saved(b)' = SavedIn(Loaded', b)
BY DEF Recoverable, NewestIn, Saved

\* It is one of them and none is newer.
LEMMA NewestInIs ==
    ASSUME NEW L, L \in SUBSET Rec, NEW f, IsCkpt(f), NEW b \in Blocks
    PROVE  /\ NewestIn(L, f, b) \in Nat /\ SavedIn(f, b) \in Nat
           /\ SavedIn(f, b) <= NewestIn(L, f, b)
           /\ \A r \in L : r[1] = b => r[2] <= NewestIn(L, f, b)
           /\ \/ NewestIn(L, f, b) = SavedIn(f, b)
              \/ \E r \in L : r[1] = b /\ r[2] = NewestIn(L, f, b)
<1> DEFINE A == {r[2] : r \in {x \in L : x[1] = b}}
           B == {f[c].seq : c \in DOMAIN f \cap {b}}
           S == {0} \cup A \cup B
           M == NewestIn(L, f, b)
<1>1. M = Max(S)
  BY DEF NewestIn
<1>2. \A s \in A : s \in 0..MaxSeqNum /\ \E r \in L : r[1] = b /\ r[2] = s
  BY RecIs
<1>3. \A s \in B : s \in 0..MaxSeqNum /\ s = SavedIn(f, b)
  BY CkptIs DEF SavedIn
<1>4. \A r \in L : r[1] = b => r[2] \in A
  OBVIOUS
<1>5. SavedIn(f, b) \in {0} \cup B
  BY DEF SavedIn
<1> HIDE DEF A, B
<1>6. S \in SUBSET (0..MaxSeqNum) /\ S # {}
  BY <1>2, <1>3, BoundAssumption
<1>7. SavedIn(f, b) \in S /\ 0 \in S
  BY <1>5
<1>8. Max(S) \in S /\ \A y \in S : y <= Max(S)
  BY <1>6, BoundAssumption, MaxIs
<1> HIDE DEF Max
<1>9. Max(S) \in Nat /\ SavedIn(f, b) \in Nat
  BY <1>6, <1>7, <1>8, BoundAssumption
<1>10. \A r \in L : r[1] = b => r[2] <= Max(S)
  BY <1>4, <1>8
<1>11. SavedIn(f, b) <= Max(S)
  BY <1>7, <1>8
<1>12. Max(S) = SavedIn(f, b) \/ \E r \in L : r[1] = b /\ r[2] = Max(S)
  <2>1. CASE Max(S) = 0
    BY <1>9, <1>11, <2>1
  <2>2. CASE Max(S) \in A
    BY <1>2, <2>2
  <2>3. CASE Max(S) \in B
    BY <1>3, <2>3
  <2>4. QED BY <1>8, <2>1, <2>2, <2>3
<1> HIDE DEF S, M
<1>13. QED BY <1>1, <1>9, <1>10, <1>11, <1>12 DEF M

\* In the state before and after a step.
LEMMA RecoverableIs ==
    ASSUME Types
    PROVE  \A b \in Blocks :
               /\ Recoverable(b) \in Nat /\ Saved(b) \in Nat /\ MapSeq(b) \in Nat
               /\ Saved(b) <= Recoverable(b)
               /\ \A r \in Logged : r[1] = b => r[2] <= Recoverable(b)
               /\ \/ Recoverable(b) = Saved(b)
                  \/ \E r \in Logged : r[1] = b /\ r[2] = Recoverable(b)
<1>1. Logged \in SUBSET Rec /\ IsCkpt(Loaded)
  BY Names, LoggedIs, NextObjectIs DEF Types, DiskTypes
<1>2. \A b \in Blocks : MapSeq(b) \in Nat
  BY MapIs, Names DEF Types, MemTypes
<1>3. QED BY <1>1, <1>2, NewestInIs, RecoverableName

\* The same of the state after a step.
LEMMA RecoverableIsNext ==
    ASSUME Types'
    PROVE  \A b \in Blocks :
               /\ Recoverable(b)' \in Nat /\ Saved(b)' \in Nat /\ MapSeq(b)' \in Nat
               /\ Saved(b)' <= Recoverable(b)'
               /\ \A r \in Logged' : r[1] = b => r[2] <= Recoverable(b)'
               /\ \/ Recoverable(b)' = Saved(b)'
                  \/ \E r \in Logged' : r[1] = b /\ r[2] = Recoverable(b)'
<1>1. Logged' \in SUBSET Rec
  BY Names, LoggedIs DEF Types, DiskTypes
<1>2. (\A w \in DOMAIN numbered' : IsCkpt(numbered'[w]))
      /\ (live' # {} => \E f : IsCkpt(f) /\ live' = {f})
  BY DEF Types, DiskTypes
<1>3. IsCkpt(LoadedFrom(config', numbered', live'))
  BY <1>2, LoadedIs
<1>4. IsCkpt(Loaded')
  BY <1>3, Names
<1>5. \A b \in Blocks : MapSeq(b)' \in Nat
  BY MapIs, Names DEF Types, MemTypes
<1>6. QED BY <1>1, <1>4, <1>5, NewestInIs, RecoverableName

\* A record that leaves the WAL is in a checkpoint, or its block is lost.
WALStep ==
    /\ lost \subseteq lost'
    /\ \A r \in Logged : r \in Logged' \/ r[1] \notin Sound' \/ r[2] <= Saved(r[1])
    /\ Logged' \subseteq Logged \cup writes

\* The records of a removed segment.
LEMMA RemovedSaved ==
    ASSUME Types, NEW s, s \in SUBSET Logged, Logged = Logged' \cup s, lost \subseteq lost',
           \A r \in Unsaved(s) : \E l \in lost' : l[2] = r[1]
    PROVE  WALStep
<1>1. ASSUME NEW r \in Logged
      PROVE  r \in Logged' \/ r[1] \notin Sound' \/ r[2] <= Saved(r[1])
  <2>1. CASE r \in Logged'
    BY <2>1
  <2>2. CASE r \in s /\ r \in Unsaved(s)
    BY <2>2 DEF Sound
  <2>3. CASE r \in s /\ r \notin Unsaved(s)
    <3>1. r[1] \in DOMAIN Loaded /\ ~(Loaded[r[1]].seq < r[2])
      BY <2>3 DEF Unsaved
    <3>2. IsCkpt(Loaded) /\ Logged \in SUBSET Rec
      BY Names, LoggedIs, NextObjectIs DEF Types, DiskTypes
    <3>3. Loaded[r[1]].seq \in Nat /\ r[2] \in Nat
      BY <3>1, <3>2, CkptIs, RecIs
    <3>4. QED BY <3>1, <3>3 DEF Saved, SavedIn
  <2>4. QED BY <2>1, <2>2, <2>3
<1>2. QED BY <1>1 DEF WALStep

\* Every step is such a step.
LEMMA LoggedStep ==
    ASSUME Types, Types', Replayed, [Next]_vars
    PROVE  WALStep
<1>1. segments \in Seq(SUBSET Rec) /\ writes \in SUBSET Rec
  BY DEF Types, DiskTypes, MemTypes
<1>2. CASE segments' = segments
  <2>1. Logged' = Logged
    BY <1>2, Names
  <2>2. QED BY <2>1, LostGrows DEF WALStep
<1>3. ASSUME lost \subseteq lost', LoggedIn(segments) \subseteq LoggedIn(segments'),
             LoggedIn(segments') \subseteq LoggedIn(segments) \cup writes
      PROVE  WALStep
  BY <1>3, Names DEF WALStep
<1>4. ASSUME NEW b \in Blocks, Write(b) PROVE WALStep
  BY <1>2, <1>4 DEF Write
<1>5. CASE Flush
  <2>1. segments # <<>> /\ lost' = lost
    BY <1>5 DEF Flush, Types, CtlTypes
  <2>2. LoggedIn(segments') = LoggedIn(segments) \cup writes
    BY <1>1, <1>5, <2>1, AppendIs DEF Flush
  <2>3. QED BY <1>3, <2>1, <2>2
<1>6. CASE PartialFlush
  <2>1. segments # <<>> /\ lost \subseteq lost'
    BY <1>6 DEF PartialFlush, Types, CtlTypes
  <2>2. PICK r \in writes : segments' = AppendToWAL(Before(r))
    BY <1>6 DEF PartialFlush
  <2>3. Before(r) \in SUBSET writes /\ Before(r) \in SUBSET Rec
    BY <1>1 DEF Before
  <2>4. LoggedIn(segments') = LoggedIn(segments) \cup Before(r)
    BY <1>1, <2>1, <2>2, <2>3, AppendIs
  <2>5. QED BY <1>3, <2>1, <2>3, <2>4
<1>7. CASE StartDrain \/ StartClose
  <2>1. PICK R \in SUBSET writes : Rotate(R)
    BY <1>7, StartCloseRotates DEF StartDrain
  <2>2. phase = "serving" /\ lost' = lost
    BY <1>7, <2>1 DEF StartDrain, StartClose, Rotate, histVars
  <2>3. LoggedIn(segments') = LoggedIn(segments) \cup R
    BY <2>1, <2>2, RotateIs
  <2>4. QED BY <1>3, <2>2, <2>3
<1>8. ASSUME NEW j \in jobs, Upload(j) PROVE WALStep
  BY <1>2, <1>8 DEF Upload
<1>9. CASE \/ UploadFails \/ UploadsDone \/ SaveLiveCheckpoint \/ SaveState \/ SaveBlockState
           \/ Open \/ TickReadsMap \/ TickSaves \/ OrphanSaves
  BY <1>2, <1>9 DEF UploadFails, UploadsDone, SaveLiveCheckpoint, SaveState, SaveBlockState,
     Open, TickReadsMap, TickSaves, OrphanSaves
<1>10. CASE CloseRemoves
  <2>1. CASE UNCHANGED segments
    BY <1>2, <2>1
  <2>2. CASE \E i \in 1..Len(segments) :
                /\ segments' = Without(i)
                /\ lost' = lost \cup {<<"close", r[1]>> : r \in Unsaved(segments[i])}
    <3>1. PICK i \in 1..Len(segments) :
                /\ segments' = Without(i)
                /\ lost' = lost \cup {<<"close", r[1]>> : r \in Unsaved(segments[i])}
      BY <2>2
    <3> DEFINE s == segments[i]
    <3>2. s \in SUBSET Logged /\ Logged = Logged' \cup s
      BY <1>1, <3>1, WithoutIsLess, Names
    <3>3. lost \subseteq lost' /\ \A r \in Unsaved(s) : <<"close", r[1]>> \in lost'
      BY <3>1
    <3> HIDE DEF s
    <3>4. \A r \in Unsaved(s) : \E l \in lost' : l[2] = r[1]
      <4>1. TAKE r \in Unsaved(s)
      <4>2. <<"close", r[1]>>[2] = r[1]
        OBVIOUS
      <4>3. QED BY <3>3, <4>2
    <3>5. QED BY <3>2, <3>3, <3>4, RemovedSaved
  <2>3. QED BY <1>10, <2>1, <2>2 DEF CloseRemoves
<1>11. CASE RecoveryRemoves
  <2>1. phase = "recover" /\ at = "remove" /\ jobs = {}
    BY <1>11 DEF RecoveryRemoves, Types, CtlTypes
  <2>2. CASE segments = <<>>
    <3>1. segments' = <<{}>> /\ lost' = lost
      BY <1>11, <2>2 DEF RecoveryRemoves
    <3>2. LoggedIn(segments) = {} /\ LoggedIn(segments') = {}
      BY <2>2, <3>1, EmptySegment
    <3>3. QED BY <1>3, <3>1, <3>2
  <2>3. CASE segments # <<>>
    <3> DEFINE s == Head(segments)
               U == {x \in Unsaved(s) : MapSeq(x[1]) >= x[2]}
    <3>1. segments' = Tail(segments) /\ lost' = lost \cup {<<"recover", r[1]>> : r \in U}
      BY <1>11, <2>3 DEF RecoveryRemoves
    <3>2. s \in SUBSET Logged /\ Logged = Logged' \cup s
      BY <1>1, <2>3, <3>1, TailIsLess, Names
    <3>3. ASSUME NEW r \in Unsaved(s), r[1] \in Sound PROVE r \in U
      <4>1. r \in Logged
        BY <3>2 DEF Unsaved
      <4>2. r[2] <= MapSeq(r[1])
        BY <2>1, <3>3, <4>1 DEF Replayed
      <4>3. Logged \in SUBSET Rec
        BY <1>1, Names, LoggedIs
      <4>4. r[1] \in Blocks /\ r[2] \in Nat
        BY <4>1, <4>3, RecIs
      <4>5. MapSeq(r[1]) \in Nat
        BY <4>4, RecoverableIs
      <4>6. QED BY <4>2, <4>4, <4>5
    <3>4. lost \subseteq lost'
          /\ \A r \in Unsaved(s) : r[1] \in Sound => <<"recover", r[1]>> \in lost'
      BY <3>1, <3>3
    <3> HIDE DEF s
    <3>5. \A r \in Unsaved(s) : \E l \in lost' : l[2] = r[1]
      <4>1. TAKE r \in Unsaved(s)
      <4>2. CASE r[1] \in Sound
        <5>1. <<"recover", r[1]>>[2] = r[1]
          OBVIOUS
        <5>2. QED BY <3>4, <4>2, <5>1
      <4>3. CASE r[1] \notin Sound
        <5>1. r \in Logged /\ Logged \in SUBSET Rec
          BY <1>1, <3>2, Names, LoggedIs DEF Unsaved
        <5>2. r[1] \in Blocks
          BY <5>1, RecIs
        <5>3. PICK l \in lost : l[2] = r[1]
          BY <4>3, <5>2 DEF Sound
        <5>4. QED BY <3>4, <5>3
      <4>4. QED BY <4>2, <4>3
    <3>6. QED BY <3>2, <3>4, <3>5, RemovedSaved
  <2>4. QED BY <2>2, <2>3
<1>12. CASE Crash
  BY <1>3, <1>12, CrashTypes DEF Crash, histVars
<1>13. CASE UNCHANGED vars
  BY <1>2, <1>13 DEF vars
<1>14. QED BY <1>4, <1>5, <1>6, <1>7, <1>8, <1>9, <1>10, <1>11, <1>12, <1>13 DEF Next

\* So what an open would bring back of a sound block never goes back, and
\* moves on only to a record of Writes.Blocks.
RecoverableKept ==
    /\ Sound' \subseteq Sound
    /\ \A b \in Sound' :
           /\ Saved(b) <= Saved(b)'
           /\ phase # "down" => Saved(b)' <= MapSeq(b)
           /\ Recoverable(b) <= Recoverable(b)'
           /\ \/ Recoverable(b)' = Recoverable(b)
              \/ \E r \in writes : r[1] = b /\ r[2] = Recoverable(b)'

\* Every step keeps it.
LEMMA RecoverableStep ==
    ASSUME Types, Types', UpTypes, MapBetween, TickBehind, Replayed, [Next]_vars
    PROVE  RecoverableKept
<1>1. WALStep
  BY LoggedStep
<1>2. Sound' \subseteq Sound /\ Sound \subseteq Blocks /\ Sound' \subseteq Named'
  <2>1. Sound' \subseteq Sound /\ Sound \subseteq Blocks
    BY <1>1 DEF WALStep, Sound
  <2>2. ASSUME NEW b \in Sound' PROVE b \in Named'
    <3>1. b \in Blocks /\ \A l \in lost' : l[2] # b
      BY DEF Sound
    <3>2. \A l \in {"orphan", "wall", "unread"} \X {b} : l[2] = b
      OBVIOUS
    <3>3. lost' \cap ({"orphan", "wall", "unread"} \X {b}) = {}
      BY <3>1, <3>2
    <3>4. QED BY <3>1, <3>3 DEF Named
  <2>3. QED BY <2>1, <2>2
<1>3. \A b \in Blocks : /\ Saved(b) \in Nat /\ Saved(b)' \in Nat /\ MapSeq(b) \in Nat
                        /\ Recoverable(b) \in Nat /\ Recoverable(b)' \in Nat
  BY RecoverableIs, RecoverableIsNext
<1>4. ASSUME NEW b \in Sound'
      PROVE  \/ Saved(b)' = Saved(b)
             \/ phase # "down" /\ Saved(b) <= Saved(b)' /\ Saved(b)' <= MapSeq(b)
  <2>1. b \in Blocks /\ b \in Sound /\ b \in Named'
    BY <1>2
  <2>2. CASE SameAt(b)
    BY <2>2, RecoverableName DEF SameAt, SavedIn
  <2>3. CASE Loaded' = Expand(lookup) /\ phase # "down"
    <3>1. /\ b \in DOMAIN Expand(lookup) <=> SeqIn(lookup, b) # 0
          /\ b \in DOMAIN Expand(lookup) => Expand(lookup)[b].seq = SeqIn(lookup, b)
      BY <2>1, ExpandOK DEF Types, MemTypes
    <3>2. SavedIn(Expand(lookup), b) = SeqIn(lookup, b)
      BY <3>1 DEF SavedIn
    <3>3. Saved(b)' = MapSeq(b)
      BY <2>3, <3>2, RecoverableName, Names
    <3>4. Saved(b) <= MapSeq(b)
      BY <2>1, <2>3 DEF MapBetween
    <3>5. QED BY <1>3, <2>1, <2>3, <3>3, <3>4
  <2>4. CASE /\ Loaded' \in tick /\ phase # "down"
             /\ b \in GoneBack => \E l \in lost' : l[2] = b
    <3>1. SavedIn(Loaded', b) <= MapSeq(b)
      BY <2>1, <2>4 DEF TickBehind
    <3>2. Saved(b)' <= MapSeq(b)
      BY <3>1, RecoverableName
    <3>3. b \notin GoneBack
      BY <2>4 DEF Sound
    <3>4. CASE b \in DOMAIN Loaded
      <4>1. b \in DOMAIN Loaded' /\ Loaded'[b].seq >= Loaded[b].seq
        BY <3>3, <3>4 DEF GoneBack
      <4>2. Saved(b)' = Loaded'[b].seq /\ Saved(b) = Loaded[b].seq
        BY <3>4, <4>1, RecoverableName DEF SavedIn
      <4>3. QED BY <1>3, <2>1, <2>4, <3>2, <4>1, <4>2
    <3>5. CASE b \notin DOMAIN Loaded
      <4>1. Saved(b) = 0
        BY <3>5 DEF Saved, SavedIn
      <4>2. QED BY <1>3, <2>1, <2>4, <3>2, <4>1
    <3>6. QED BY <3>4, <3>5
  <2>5. QED BY <2>1, <2>2, <2>3, <2>4, LoadedStep
<1>5. ASSUME NEW b \in Sound', phase # "down" PROVE Saved(b) <= MapSeq(b)
  BY <1>2, <1>5 DEF MapBetween
<1>6. ASSUME NEW b \in Sound' PROVE Saved(b) <= Saved(b)'
  BY <1>2, <1>3, <1>4
<1>7. ASSUME NEW b \in Sound', phase # "down" PROVE Saved(b)' <= MapSeq(b)
  BY <1>3, <1>4, <1>5, <1>7
<1>8. ASSUME NEW b \in Sound' PROVE Recoverable(b) <= Recoverable(b)'
  <2>1. b \in Blocks
    BY <1>2
  <2>2. Saved(b)' <= Recoverable(b)' /\ \A r \in Logged' : r[1] = b => r[2] <= Recoverable(b)'
    BY <2>1, RecoverableIsNext
  <2>3. CASE Recoverable(b) = Saved(b)
    BY <1>3, <1>6, <2>1, <2>2, <2>3
  <2>4. CASE \E r \in Logged : r[1] = b /\ r[2] = Recoverable(b)
    <3>1. PICK r \in Logged : r[1] = b /\ r[2] = Recoverable(b)
      BY <2>4
    <3>2. CASE r \in Logged'
      BY <2>2, <3>1, <3>2
    <3>3. CASE r[2] <= Saved(b)
      BY <1>3, <1>6, <2>1, <2>2, <3>1, <3>3
    <3>4. QED BY <1>1, <3>1, <3>2, <3>3 DEF WALStep
  <2>5. QED BY <2>1, <2>3, <2>4, RecoverableIs
<1>9. ASSUME NEW b \in Sound'
      PROVE  \/ Recoverable(b)' = Recoverable(b)
             \/ \E r \in writes : r[1] = b /\ r[2] = Recoverable(b)'
  <2>1. b \in Blocks /\ b \in Sound
    BY <1>2
  <2>2. Saved(b) <= Recoverable(b) /\ \A r \in Logged : r[1] = b => r[2] <= Recoverable(b)
    BY <2>1, RecoverableIs
  <2>3. Recoverable(b) <= Recoverable(b)'
    BY <1>8
  <2>4. CASE Recoverable(b)' = Saved(b)'
    <3>1. Saved(b)' <= Recoverable(b)
      <4>1. CASE Saved(b)' = Saved(b)
        BY <2>2, <4>1
      <4>2. CASE Saved(b)' <= MapSeq(b) /\ phase # "down"
        <5>1. MapSeq(b) <= Recoverable(b)
          BY <2>1, <4>2 DEF MapBetween
        <5>2. QED BY <1>3, <2>1, <4>2, <5>1
      <4>3. QED BY <1>4, <4>1, <4>2
    <3>2. QED BY <1>3, <2>1, <2>3, <2>4, <3>1
  <2>5. CASE \E r \in Logged' : r[1] = b /\ r[2] = Recoverable(b)'
    <3>1. PICK r \in Logged' : r[1] = b /\ r[2] = Recoverable(b)'
      BY <2>5
    <3>2. CASE r \in writes
      BY <3>1, <3>2
    <3>3. CASE r \in Logged
      BY <1>3, <2>1, <2>2, <2>3, <3>1, <3>3
    <3>4. QED BY <1>1, <3>1, <3>2, <3>3 DEF WALStep
  <2>6. QED BY <2>1, <2>4, <2>5, RecoverableIsNext
<1>10. QED BY <1>2, <1>6, <1>7, <1>8, <1>9 DEF RecoverableKept

\* A chunk that lands takes no block back: a drain's because its records are
\* newer than the map, a replayed one unless the block is lost by it.
LEMMA UploadMoves ==
    ASSUME Types, JobsLogged, DrainsInOrder, NEW j \in jobs, Upload(j)
    PROVE  /\ \A b \in Blocks :
                  /\ MapSeq(b) \in Nat /\ MapSeq(b)' \in Nat
                  /\ \/ MapSeq(b)' = MapSeq(b)
                     \/ /\ b \in DOMAIN j /\ MapSeq(b)' = j[b]
                        /\ <<b, j[b]>> \in Logged
                  /\ phase # "recover" \/ b \in Sound' => MapSeq(b) <= MapSeq(b)'
                  /\ phase = "recover" /\ b \in Sound' /\ b \in DOMAIN j => j[b] <= MapSeq(b)'
           /\ Logged' = Logged /\ Loaded' = Loaded
           /\ phase \in {"recover", "serving", "closing"} /\ IsChunk(j)
<1>1. phase \in {"recover", "serving", "closing"} /\ IsChunk(j)
  BY DEF Upload, Types, CtlTypes, Steps
<1>2. \A b \in DOMAIN j : j[b] \in Nat
  BY <1>1, ChunkIs
<1>3. /\ \A b \in Blocks : /\ MapSeq(b)' \in Nat /\ MapSeq(b) \in Nat
                           /\ \/ MapSeq(b)' = MapSeq(b)
                              \/ /\ b \in DOMAIN j /\ MapSeq(b)' = j[b]
                                 /\ <<b, j[b]>> \in Logged
      /\ Logged' = Logged /\ Loaded' = Loaded
  BY UploadIs
<1>4. CASE phase = "recover"
  <2>1. lost' = lost \cup ({"replay"} \X Misjudged(j))
    BY <1>4 DEF Upload
  <2>2. ASSUME NEW b \in Sound', b \in DOMAIN j
        PROVE  MapSeq(b) <= MapSeq(b)' /\ j[b] <= MapSeq(b)'
    <3>1. b \in Blocks /\ \A l \in lost' : l[2] # b
      BY DEF Sound
    <3>2. b \notin Misjudged(j)
      <4>1. SUFFICES ASSUME b \in Misjudged(j) PROVE FALSE
        OBVIOUS
      <4>2. <<"replay", b>> \in lost' /\ <<"replay", b>>[2] = b
        BY <2>1, <4>1
      <4>3. QED BY <3>1, <4>2
    <3>3. ~(SeqIn(lookup', b) < MapSeq(b)) /\ ~(SeqIn(lookup', b) < j[b])
      BY <2>2, <3>2 DEF Misjudged
    <3>4. SeqIn(lookup', b) = MapSeq(b)'
      BY Names
    <3>5. MapSeq(b) \in Nat /\ MapSeq(b)' \in Nat /\ j[b] \in Nat
      BY <1>2, <1>3, <2>2, <3>1
    <3>6. QED BY <3>3, <3>4, <3>5
  <2>3. ASSUME NEW b \in Sound' PROVE b \in Blocks /\ MapSeq(b) <= MapSeq(b)'
    <3>1. b \in Blocks
      BY DEF Sound
    <3>2. CASE b \in DOMAIN j
      BY <2>2, <3>1, <3>2
    <3>3. CASE b \notin DOMAIN j
      <4>1. MapSeq(b)' = MapSeq(b) /\ MapSeq(b) \in Nat
        BY <1>3, <3>1, <3>3
      <4>2. QED BY <3>1, <4>1
    <3>4. QED BY <3>2, <3>3
  <2>4. QED BY <1>1, <1>3, <1>4, <2>2, <2>3
<1>5. CASE phase \in {"serving", "closing"}
  <2>1. \A b \in DOMAIN j : MapSeq(b) < j[b]
    BY <1>5 DEF DrainsInOrder
  <2>2. QED BY <1>1, <1>2, <1>3, <1>5, <2>1
<1>6. QED BY <1>1, <1>4, <1>5

\* Which steps touch the map.
LEMMA MapSteps ==
    ASSUME Types, [Next]_vars, phase' # "down", ~Open, \A j \in jobs : ~Upload(j)
    PROVE  lookup' = lookup /\ phase # "down"
<1>1. CASE Next
  BY <1>1 DEF Next, Write, Flush, PartialFlush, StartDrain, StartClose, Rotate, UploadFails,
     UploadsDone, SaveLiveCheckpoint, SaveState, SaveBlockState, Refused, Gone, CloseRemoves,
     RecoveryRemoves, OpenFails, TickReadsMap, TickSaves, OrphanSaves, Crash, memVars, ctlVars,
     Types, CtlTypes, Steps
<1>2. CASE UNCHANGED vars
  BY <1>2 DEF vars, memVars, ctlVars
<1>3. QED BY <1>1, <1>2

\* The map stays between the two.
LEMMA MapBetweenStep ==
    ASSUME NInv, NInv', UpTypes, DInv, [Next]_vars
    PROVE  MapBetween'
<1>1. /\ Types /\ Types' /\ JobsLogged /\ MapBetween /\ TickBehind /\ Replayed
      /\ DrainsInOrder
  BY DEF NInv, DInv
<1>2. RecoverableKept
  BY <1>1, RecoverableStep
<1>3. \A b \in Blocks : /\ Saved(b) \in Nat /\ Saved(b)' \in Nat /\ MapSeq(b) \in Nat
                        /\ Recoverable(b) \in Nat /\ Recoverable(b)' \in Nat /\ MapSeq(b)' \in Nat
                        /\ Saved(b)' <= Recoverable(b)'
                        /\ \A r \in Logged' : r[1] = b => r[2] <= Recoverable(b)'
  BY <1>1, RecoverableIs, RecoverableIsNext
<1>4. Sound' \subseteq Sound /\ Sound \subseteq Blocks
  BY <1>2 DEF RecoverableKept, Sound
<1>5. CASE phase' = "down"
  BY <1>5 DEF MapBetween
<1>6. CASE Open
  <2>1. ASSUME NEW b \in Sound' PROVE MapSeq(b)' = Saved(b)'
    <3>1. b \in Blocks /\ \A l \in lost' : l[2] # b
      BY DEF Sound
    <3>2. <<"unread", b>>[2] = b
      OBVIOUS
    <3>3. MapSeq(b)' = IF b \in DOMAIN Loaded THEN Loaded[b].seq ELSE 0
      BY <1>1, <1>6, <3>1, <3>2, OpenIs
    <3>4. QED BY <1>1, <1>6, <3>3, OpenIs, RecoverableName DEF SavedIn
  <2>2. \A b \in Sound' : Saved(b)' <= MapSeq(b)' /\ MapSeq(b)' <= Recoverable(b)'
    BY <1>3, <1>4, <2>1
  <2>3. QED BY <2>2 DEF MapBetween
<1>7. ASSUME NEW j \in jobs, Upload(j) PROVE MapBetween'
  <2>1. phase # "down" /\ Logged' = Logged
    BY <1>1, <1>7, UploadMoves
  <2>2. ASSUME NEW b \in Sound' PROVE Saved(b)' <= MapSeq(b)'
    <3>1. b \in Blocks /\ Saved(b)' <= MapSeq(b)
      BY <1>2, <1>4, <2>1 DEF RecoverableKept
    <3>2. MapSeq(b) <= MapSeq(b)'
      BY <1>1, <1>7, <3>1, UploadMoves
    <3>3. QED BY <1>3, <3>1, <3>2
  <2>3. ASSUME NEW b \in Sound' PROVE MapSeq(b)' <= Recoverable(b)'
    <3>1. b \in Blocks /\ b \in Sound
      BY <1>4
    <3>2. CASE MapSeq(b)' = MapSeq(b)
      <4>1. MapSeq(b) <= Recoverable(b) /\ Recoverable(b) <= Recoverable(b)'
        BY <1>1, <1>2, <2>1, <3>1 DEF MapBetween, RecoverableKept
      <4>2. QED BY <1>3, <3>1, <3>2, <4>1
    <3>3. CASE b \in DOMAIN j /\ MapSeq(b)' = j[b] /\ <<b, j[b]>> \in Logged
      <4>1. <<b, j[b]>>[2] <= Recoverable(b)'
        BY <1>3, <2>1, <3>1, <3>3
      <4>2. QED BY <3>3, <4>1
    <3>4. QED BY <1>1, <1>7, <3>1, <3>2, <3>3, UploadMoves
  <2>4. QED BY <2>2, <2>3 DEF MapBetween
<1>8. CASE phase' # "down" /\ ~Open /\ \A j \in jobs : ~Upload(j)
  <2>1. lookup' = lookup /\ phase # "down"
    BY <1>1, <1>8, MapSteps
  <2>2. \A b : MapSeq(b)' = MapSeq(b)
    BY <2>1, Names
  <2>3. \A b \in Sound' : Saved(b)' <= MapSeq(b)
    BY <1>2, <2>1 DEF RecoverableKept
  <2>4. ASSUME NEW b \in Sound' PROVE MapSeq(b) <= Recoverable(b)'
    <3>1. b \in Blocks /\ MapSeq(b) <= Recoverable(b) /\ Recoverable(b) <= Recoverable(b)'
      BY <1>1, <1>2, <1>4, <2>1 DEF MapBetween, RecoverableKept
    <3>2. QED BY <1>3, <3>1
  <2>5. QED BY <2>2, <2>3, <2>4 DEF MapBetween
<1>9. QED BY <1>5, <1>6, <1>7, <1>8

\* Nor does it fall behind what a tick has read.
LEMMA TickBehindStep ==
    ASSUME NInv, NInv', UpTypes, DInv, [Next]_vars
    PROVE  TickBehind'
<1>1. Types /\ Types' /\ JobsLogged /\ TickBehind /\ DrainsInOrder
  BY DEF NInv, DInv
<1>2. TickKept
  BY <1>1, UpStep
<1>3. Sound' \subseteq Sound /\ Sound \subseteq Blocks
  BY LostGrows DEF Sound
<1>4. CASE tick' = {}
  BY <1>4 DEF TickBehind
<1>5. CASE tick' = {Expand(lookup)} /\ phase = "recover" /\ UNCHANGED <<memVars, ctlVars, lost>>
  <2>1. \A b : MapSeq(b)' = MapSeq(b)
    BY <1>5, Names DEF memVars
  <2>2. ASSUME NEW b \in Sound' PROVE SavedIn(Expand(lookup), b) <= MapSeq(b)
    <3>1. b \in Blocks
      BY <1>3
    <3>2. /\ b \in DOMAIN Expand(lookup) <=> SeqIn(lookup, b) # 0
          /\ b \in DOMAIN Expand(lookup) => Expand(lookup)[b].seq = SeqIn(lookup, b)
      BY <1>1, <3>1, ExpandOK DEF Types, MemTypes
    <3>3. SavedIn(Expand(lookup), b) = MapSeq(b)
      BY <3>2, Names DEF SavedIn
    <3>4. MapSeq(b) \in Nat
      BY <1>1, <3>1, RecoverableIs
    <3>5. QED BY <3>3, <3>4
  <2>3. QED BY <1>5, <2>1, <2>2 DEF TickBehind
<1>6. CASE tick' = tick /\ tick # {} /\ phase' \in {"recover", "serving"} /\ ~Open
  <2>1. PICK f : IsCkpt(f) /\ tick = {f}
    BY <1>6 DEF UpTypes
  <2>2. ASSUME NEW b \in Sound' PROVE SavedIn(f, b) <= MapSeq(b)'
    <3>1. b \in Blocks /\ SavedIn(f, b) <= MapSeq(b)
      BY <1>1, <1>3, <2>1 DEF TickBehind
    <3>2. SavedIn(f, b) \in Nat /\ MapSeq(b) \in Nat /\ MapSeq(b)' \in Nat
      BY <1>1, <2>1, <3>1, CkptIs, RecoverableIs, RecoverableIsNext DEF SavedIn
    <3>3. CASE \E j \in jobs : Upload(j)
      <4>1. PICK j \in jobs : Upload(j)
        BY <3>3
      <4>2. MapSeq(b) <= MapSeq(b)'
        BY <1>1, <3>1, <4>1, UploadMoves
      <4>3. QED BY <3>1, <3>2, <4>2
    <3>4. CASE ~(\E j \in jobs : Upload(j))
      <4>1. lookup' = lookup
        BY <1>1, <1>6, <3>4, MapSteps
      <4>2. QED BY <3>1, <4>1, Names
    <3>5. QED BY <3>3, <3>4
  <2>3. QED BY <1>6, <2>1, <2>2 DEF TickBehind
<1>7. QED BY <1>2, <1>4, <1>5, <1>6 DEF TickKept

\* Which steps a recovery takes besides.
LEMMA RecoverySteps ==
    ASSUME Types, [Next]_vars, phase' = "recover", ~Open, \A j \in jobs : ~Upload(j)
    PROVE  phase = "recover" /\ lookup' = lookup /\ jobs' = jobs
<1>1. CASE Next
  BY <1>1 DEF Next, Write, Flush, PartialFlush, StartDrain, StartClose, Rotate, UploadFails,
     UploadsDone, SaveLiveCheckpoint, SaveState, SaveBlockState, Refused, Gone, CloseRemoves,
     RecoveryRemoves, OpenFails, TickReadsMap, TickSaves, OrphanSaves, Crash, memVars, ctlVars,
     Types, CtlTypes, Steps
<1>2. CASE UNCHANGED vars
  BY <1>2 DEF vars, memVars, ctlVars
<1>3. QED BY <1>1, <1>2

\* Recovery replays every record.
LEMMA ReplayedStep ==
    ASSUME NInv, NInv', DInv, [Next]_vars
    PROVE  Replayed'
<1>1. Types /\ Types' /\ JobsLogged /\ Replayed /\ DrainsInOrder
  BY DEF NInv, DInv
<1>2. CASE phase' # "recover"
  BY <1>2 DEF Replayed
<1>3. CASE Open
  BY <1>1, <1>3, OpenIs DEF Replayed
<1>4. ASSUME NEW j \in jobs, Upload(j), phase' = "recover" PROVE Replayed'
  <2>1. phase = "recover" /\ jobs' = jobs \ {j}
    BY <1>4 DEF Upload
  <2>2. Logged' = Logged /\ Logged \in SUBSET Rec /\ \A k \in jobs : IsChunk(k)
    BY <1>1, <1>4, UploadMoves, Names, LoggedIs DEF Types, DiskTypes, CtlTypes
  <2>3. ASSUME NEW r \in Logged, r[1] \in Sound'
        PROVE  \/ r[2] <= MapSeq(r[1])'
               \/ \E k \in jobs' : r[1] \in DOMAIN k /\ r[2] <= k[r[1]]
    <3> DEFINE b == r[1]
    <3>1. b \in Blocks /\ r[2] \in Nat /\ b \in Sound' /\ b \in Sound
      BY <2>2, <2>3, RecIs, LostGrows DEF Sound
    <3>2. /\ MapSeq(b) \in Nat /\ MapSeq(b)' \in Nat /\ MapSeq(b) <= MapSeq(b)'
          /\ b \in DOMAIN j => j[b] <= MapSeq(b)' /\ j[b] \in Nat
      BY <1>1, <1>4, <2>1, <2>2, <3>1, UploadMoves, ChunkIs
    <3>3. CASE r[2] <= MapSeq(b)
      BY <3>1, <3>2, <3>3
    <3>4. CASE \E k \in jobs : b \in DOMAIN k /\ r[2] <= k[b]
      <4>1. PICK k \in jobs : b \in DOMAIN k /\ r[2] <= k[b]
        BY <3>4
      <4>2. CASE k = j
        BY <3>1, <3>2, <4>1, <4>2
      <4>3. CASE k # j
        BY <2>1, <4>1, <4>3
      <4>4. QED BY <4>2, <4>3
    <3>5. QED BY <1>1, <2>1, <3>1, <3>3, <3>4 DEF Replayed
  <2>4. QED BY <2>2, <2>3 DEF Replayed
<1>5. CASE phase' = "recover" /\ ~Open /\ \A j \in jobs : ~Upload(j)
  <2>1. phase = "recover" /\ lookup' = lookup /\ jobs' = jobs
    BY <1>1, <1>5, RecoverySteps
  <2>2. Logged' \subseteq Logged
    <3>1. WALStep
      BY <1>1, LoggedStep
    <3>2. writes = {}
      BY <1>1, <2>1 DEF Types, CtlTypes
    <3>3. QED BY <3>1, <3>2 DEF WALStep
  <2>3. \A b : MapSeq(b)' = MapSeq(b)
    BY <2>1, Names
  <2>4. Sound' \subseteq Sound
    BY LostGrows DEF Sound
  <2>5. QED BY <1>1, <2>1, <2>2, <2>3, <2>4 DEF Replayed
<1>6. QED BY <1>2, <1>3, <1>4, <1>5

\* What a failed flush moves, and what it drops.
LEMMA PartialFlushIs ==
    ASSUME Types, PartialFlush
    PROVE  /\ segments # <<>> /\ phase = "serving"
           /\ writes' \cup Logged' \subseteq writes \cup Logged
           /\ \A r \in writes \cup Logged : r \in writes' \cup Logged' \/ r[1] \notin Sound'
           /\ writes' \cup segments'[Len(segments')] \subseteq writes \cup segments[Len(segments)]
           /\ lost \subseteq lost'
<1>1. /\ segments \in Seq(SUBSET Rec) /\ segments # <<>> /\ writes \in SUBSET Rec
      /\ phase = "serving"
  BY DEF Types, DiskTypes, CtlTypes, MemTypes, PartialFlush
<1>2. PICK r \in writes :
          /\ segments' = AppendToWAL(Before(r))
          /\ writes' = writes \ Flushed(Before(r))
          /\ lost' = lost \cup {<<"flush", x[1]>> : x \in Flushed(Before(r)) \ Before(r)}
  BY DEF PartialFlush
<1>3. Before(r) \in SUBSET writes /\ Before(r) \in SUBSET Rec
  BY <1>1 DEF Before
<1>4. /\ LoggedIn(segments') = LoggedIn(segments) \cup Before(r) /\ Len(segments') = Len(segments)
      /\ segments'[Len(segments)] = segments[Len(segments)] \cup Before(r)
  BY <1>1, <1>2, <1>3, AppendIs
<1>5. ASSUME NEW x \in writes \cup Logged, x \notin writes' \cup Logged'
      PROVE  x[1] \notin Sound'
  <2>1. x \in Flushed(Before(r)) \ Before(r)
    BY <1>2, <1>4, <1>5, Names
  <2>2. <<"flush", x[1]>> \in lost'
    BY <1>2, <2>1
  <2>3. <<"flush", x[1]>>[2] = x[1]
    OBVIOUS
  <2>4. QED BY <2>2, <2>3 DEF Sound
<1>6. QED BY <1>1, <1>2, <1>3, <1>4, <1>5, Names

\* Which steps a serving volume takes besides.
LEMMA ServingSteps ==
    ASSUME Types, [Next]_vars, phase' = "serving", ~RecoveryRemoves, ~StartDrain,
           \A b \in Blocks : ~Write(b), ~Flush, ~PartialFlush
    PROVE  /\ phase = "serving" /\ UNCHANGED <<writes, hot, segments>>
           /\ jobs' \subseteq jobs
           /\ (\E j \in jobs : Upload(j)) \/ lookup' = lookup
<1>1. CASE Next
  BY <1>1 DEF Next, StartClose, Upload, UploadFails, UploadsDone, SaveLiveCheckpoint, SaveState,
     SaveBlockState, Refused, Gone, OpenFails, CloseRemoves, TickReadsMap, TickSaves,
     OrphanSaves, Open, Crash, memVars, ctlVars, Types, CtlTypes, Steps
<1>2. CASE UNCHANGED vars
  BY <1>2 DEF vars, memVars, ctlVars
<1>3. QED BY <1>1, <1>2

\* A volume that begins to serve.
LEMMA BeginsToServe ==
    ASSUME Types, RecoveryRemoves, phase' = "serving"
    PROVE  /\ writes' = {} /\ Logged' = {} /\ segments'[Len(segments')] = {} /\ jobs' = {}
           /\ hot' = Zero /\ segments = <<>> /\ Logged = {}
           /\ UNCHANGED <<memVars, diskVars, histVars>> /\ phase = "recover"
<1>1. /\ segments = <<>> /\ segments' = <<{}>> /\ phase = "recover" /\ at = "remove"
      /\ UNCHANGED <<memVars, diskVars, histVars, jobs>>
  BY DEF RecoveryRemoves, histVars
<1>2. writes = {} /\ hot = Zero /\ jobs = {}
  BY <1>1 DEF Types, CtlTypes
<1>3. LoggedIn(segments) = {} /\ LoggedIn(segments') = {} /\ segments'[Len(segments')] = {}
  BY <1>1, EmptySegment
<1>4. QED BY <1>1, <1>2, <1>3, Names DEF memVars

\* Hot records are kept.
LEMMA HotKeptStep ==
    ASSUME NInv, NInv', DInv, [Next]_vars
    PROVE  HotKept'
<1>1. Types /\ Types' /\ HotKept /\ Replayed
  BY DEF NInv, DInv
<1>2. CASE phase' # "serving"
  BY <1>2 DEF HotKept
<1>3. CASE RecoveryRemoves /\ phase' = "serving"
  <2>1. writes' = {} /\ Logged' = {} /\ hot' = Zero
    BY <1>1, <1>3, BeginsToServe
  <2>2. \A b \in Sound' : hot'[b] = 0
    BY <2>1 DEF Sound, Zero
  <2>3. QED BY <2>1, <2>2 DEF HotKept
<1>4. ASSUME NEW c \in Blocks, Write(c) PROVE HotKept'
  <2>1. /\ phase = "serving" /\ writes' = writes \cup {<<c, seqNum + 1>>}
        /\ hot' = [hot EXCEPT ![c] = seqNum + 1] /\ lost' = lost
    BY <1>4 DEF Write, histVars
  <2>2. Logged' = Logged /\ Sound' = Sound
    BY <1>4, <2>1, Names DEF Write, Sound
  <2>3. /\ \A r \in writes \cup Logged : r[2] <= seqNum /\ r[2] \in Nat /\ r[1] \in Blocks
        /\ seqNum \in Nat
    BY <2>1, ServingNumbers DEF Replaying
  <2>4. hot \in [Blocks -> Nat]
    BY <1>1, NatTypes
  <2>5. hot'[c] = seqNum + 1 /\ \A b \in Blocks : b # c => hot'[b] = hot[b]
    BY <2>1, <2>4
  <2>6. ASSUME NEW r \in writes' \cup Logged' PROVE r[2] <= hot'[r[1]]
    <3>1. CASE r = <<c, seqNum + 1>>
      <4>1. r[1] = c /\ r[2] = seqNum + 1
        BY <3>1
      <4>2. QED BY <2>3, <2>5, <4>1
    <3>2. CASE r \in writes \cup Logged /\ r[1] = c
      BY <2>3, <2>5, <3>2
    <3>3. CASE r \in writes \cup Logged /\ r[1] # c
      BY <1>1, <2>1, <2>3, <2>5, <3>3 DEF HotKept
    <3>4. QED BY <2>1, <2>2, <3>1, <3>2, <3>3
  <2>7. ASSUME NEW b \in Sound', hot'[b] # 0 PROVE <<b, hot'[b]>> \in writes' \cup Logged'
    <3>1. CASE b = c
      BY <2>1, <2>5, <3>1
    <3>2. CASE b # c
      <4>1. hot'[b] = hot[b] /\ b \in Sound
        BY <2>2, <2>5, <3>2 DEF Sound
      <4>2. <<b, hot[b]>> \in writes \cup Logged
        BY <1>1, <2>1, <2>7, <4>1 DEF HotKept
      <4>3. QED BY <2>1, <2>2, <4>1, <4>2
    <3>3. QED BY <3>1, <3>2
  <2>8. QED BY <2>6, <2>7 DEF HotKept
<1>5. ASSUME phase = "serving", hot' = hot, writes' \cup Logged' \subseteq writes \cup Logged,
             lost \subseteq lost',
             \A r \in writes \cup Logged : r \in writes' \cup Logged' \/ r[1] \notin Sound'
      PROVE  HotKept'
  <2>1. Sound' \subseteq Sound
    BY <1>5 DEF Sound
  <2>2. \A r \in writes' \cup Logged' : r[2] <= hot'[r[1]]
    BY <1>1, <1>5 DEF HotKept
  <2>3. ASSUME NEW b \in Sound', hot'[b] # 0 PROVE <<b, hot'[b]>> \in writes' \cup Logged'
    <3>1. <<b, hot[b]>> \in writes \cup Logged
      BY <1>1, <1>5, <2>1, <2>3 DEF HotKept
    <3>2. <<b, hot[b]>>[1] = b
      OBVIOUS
    <3>3. QED BY <1>5, <3>1, <3>2
  <2>4. QED BY <2>2, <2>3 DEF HotKept
<1>6. CASE Flush
  <2>1. Logged' = Logged \cup writes /\ writes' = {} /\ phase = "serving" /\ hot' = hot
        /\ lost' = lost
    BY <1>1, <1>6, FlushLogs, Names DEF Flush
  <2>2. QED BY <1>5, <2>1
<1>7. CASE PartialFlush
  BY <1>1, <1>5, <1>7, PartialFlushIs DEF PartialFlush
<1>8. CASE StartDrain
  <2>1. phase = "serving" /\ Rotate(writes) /\ hot' = hot /\ lost' = lost
    BY <1>8 DEF StartDrain, Rotate, histVars
  <2>2. Logged' = Logged \cup writes /\ writes' = {}
    BY <1>1, <2>1, RotateIs, Names
  <2>3. QED BY <1>5, <2>1, <2>2
<1>9. CASE /\ phase' = "serving" /\ ~RecoveryRemoves /\ ~StartDrain
           /\ ~(\E b \in Blocks : Write(b)) /\ ~Flush /\ ~PartialFlush
  <2>1. phase = "serving" /\ UNCHANGED <<writes, hot, segments>>
    BY <1>1, <1>9, ServingSteps
  <2>2. Logged' = Logged
    BY <2>1, Names
  <2>3. QED BY <1>5, <2>1, <2>2, LostGrows
<1>10. QED BY <1>2, <1>3, <1>4, <1>6, <1>7, <1>8, <1>9

\* What was promised is kept.
LEMMA PromisesStep ==
    ASSUME NInv, NInv', UpTypes, DInv, [Next]_vars
    PROVE  PromisesKept'
<1>1. Types /\ Types' /\ MapBetween /\ TickBehind /\ Replayed /\ PromisesKept /\ HotKept
  BY DEF NInv, DInv
<1>2. RecoverableKept
  BY <1>1, RecoverableStep
<1>3. \A b \in Blocks : /\ Recoverable(b) \in Nat /\ Recoverable(b)' \in Nat /\ MapSeq(b) \in Nat
                        /\ \A r \in Logged' : r[1] = b => r[2] <= Recoverable(b)'
  BY <1>1, RecoverableIs, RecoverableIsNext
<1>4. Sound' \subseteq Sound /\ Sound \subseteq Blocks
  BY <1>2 DEF RecoverableKept, Sound
<1>5. CASE promised' = promised
  <2>1. ASSUME NEW b \in Sound' PROVE promised[b] <= Recoverable(b)'
    <3>1. b \in Blocks /\ promised[b] <= Recoverable(b) /\ Recoverable(b) <= Recoverable(b)'
      BY <1>1, <1>2, <1>4 DEF PromisesKept, RecoverableKept
    <3>2. promised[b] \in Nat
      BY <1>1, <3>1, NatTypes
    <3>3. QED BY <1>3, <3>1, <3>2
  <2>2. QED BY <1>5, <2>1 DEF PromisesKept
<1>6. CASE Flush
  <2>1. phase = "serving" /\ Logged' = Logged \cup writes
    BY <1>1, <1>6, FlushLogs, Names DEF Flush
  <2>2. ASSUME NEW b \in Sound' PROVE promised'[b] <= Recoverable(b)'
    <3>1. b \in Blocks /\ b \in Sound /\ promised'[b] = Readable(b)
      BY <1>4, <1>6 DEF Flush
    <3>2. hot[b] \in Nat /\ (Readable(b) = hot[b] \/ Readable(b) = MapSeq(b))
      BY <1>1, <3>1, ReadableIs, NatTypes
    <3>3. MapSeq(b) <= Recoverable(b)'
      <4>1. MapSeq(b) <= Recoverable(b) /\ Recoverable(b) <= Recoverable(b)'
        BY <1>1, <1>2, <2>1, <3>1 DEF MapBetween, RecoverableKept
      <4>2. QED BY <1>3, <3>1, <4>1
    <3>4. hot[b] <= Recoverable(b)'
      <4>1. CASE hot[b] = 0
        BY <1>3, <3>1, <4>1
      <4>2. CASE hot[b] # 0
        <5>1. <<b, hot[b]>> \in Logged'
          BY <1>1, <2>1, <3>1, <4>2 DEF HotKept
        <5>2. <<b, hot[b]>>[1] = b /\ <<b, hot[b]>>[2] = hot[b]
          OBVIOUS
        <5>3. QED BY <1>3, <3>1, <5>1, <5>2
      <4>3. QED BY <4>1, <4>2
    <3>5. QED BY <3>1, <3>2, <3>3, <3>4
  <2>3. QED BY <2>2 DEF PromisesKept
<1>7. Flush \/ promised' = promised
  BY DEF Next, Write, PartialFlush, StartDrain, StartClose, Rotate, Upload, UploadFails,
     UploadsDone, SaveLiveCheckpoint, SaveState, SaveBlockState, CloseRemoves, RecoveryRemoves,
     TickReadsMap, TickSaves, OrphanSaves, Open, Crash, vars, histVars
<1>8. QED BY <1>5, <1>6, <1>7

\* Which steps a volume takes while it serves or closes besides.
LEMMA UpSteps ==
    ASSUME Types, [Next]_vars, phase' \in {"serving", "closing"}, ~RecoveryRemoves, ~StartDrain,
           ~StartClose, \A b \in Blocks : ~Write(b), ~Flush, ~PartialFlush,
           \A j \in jobs : ~Upload(j)
    PROVE  /\ phase' = phase /\ jobs' \subseteq jobs /\ lookup' = lookup
           /\ phase = "serving" => UNCHANGED <<writes, segments>>
<1>1. CASE Next
  BY <1>1 DEF Next, UploadFails, UploadsDone, SaveLiveCheckpoint, SaveState,
     SaveBlockState, Refused, Gone, OpenFails, CloseRemoves, TickReadsMap, TickSaves,
     OrphanSaves, Open, Crash, memVars, ctlVars, Types, CtlTypes, Steps
<1>2. CASE UNCHANGED vars
  BY <1>2 DEF vars, memVars, ctlVars
<1>3. QED BY <1>1, <1>2

\* Drains stay in order.
LEMMA DrainsStep ==
    ASSUME NInv, NInv', DInv, [Next]_vars
    PROVE  DrainsInOrder'
<1>1. Types /\ Types' /\ JobsLogged /\ DrainsInOrder
  BY DEF NInv, DInv
<1>2. CASE phase' \notin {"serving", "closing"}
  BY <1>2 DEF DrainsInOrder
<1>3. CASE RecoveryRemoves /\ phase' = "serving"
  <2>1. writes' = {} /\ jobs' = {} /\ segments'[Len(segments')] = {}
    BY <1>1, <1>3, BeginsToServe
  <2>2. QED BY <2>1 DEF DrainsInOrder
<1>4. RecoveryRemoves => phase' # "closing"
  BY DEF RecoveryRemoves
<1>5. ASSUME NEW c \in Blocks, Write(c) PROVE DrainsInOrder'
  <2>1. /\ phase = "serving" /\ writes' = writes \cup {<<c, seqNum + 1>>} /\ phase' = phase
        /\ jobs' = jobs /\ segments' = segments
    BY <1>5 DEF Write, ctlVars
  <2>2. \A b : MapSeq(b)' = MapSeq(b)
    BY <1>5, Names DEF Write
  <2>3. /\ \A r \in writes \cup Logged : r[2] <= seqNum /\ r[2] \in Nat /\ r[1] \in Blocks
        /\ \A b \in Blocks : MapSeq(b) <= seqNum /\ MapSeq(b) \in Nat
        /\ seqNum \in Nat
    BY <2>1, ServingNumbers DEF Replaying
  <2>4. \A j \in jobs : c \in DOMAIN j => j[c] < seqNum + 1
    <3>1. TAKE j \in jobs
    <3>2. HAVE c \in DOMAIN j
    <3>3. <<c, j[c]>>[2] <= seqNum /\ <<c, j[c]>>[2] \in Nat
      BY <1>1, <2>3, <3>2 DEF JobsLogged
    <3>4. QED BY <2>3, <3>3
  <2>5. ASSUME NEW r \in writes' \cup segments'[Len(segments')]
        PROVE  /\ MapSeq(r[1])' < r[2]
               /\ \A j \in jobs' : r[1] \in DOMAIN j => j[r[1]] < r[2]
    <3>1. CASE r = <<c, seqNum + 1>>
      <4>1. r[1] = c /\ r[2] = seqNum + 1
        BY <3>1
      <4>2. QED BY <2>1, <2>2, <2>3, <2>4, <4>1
    <3>2. CASE r \in writes \cup segments[Len(segments)]
      BY <1>1, <2>1, <2>2, <3>2 DEF DrainsInOrder
    <3>3. QED BY <2>1, <3>1, <3>2
  <2>6. QED BY <1>1, <2>1, <2>2, <2>5 DEF DrainsInOrder
<1>6. ASSUME phase' = phase, jobs' \subseteq jobs, lookup' = lookup,
             phase = "serving" =>
                writes' \cup segments'[Len(segments')] \subseteq writes \cup segments[Len(segments)]
      PROVE  DrainsInOrder'
  <2>1. \A b : MapSeq(b)' = MapSeq(b)
    BY <1>6, Names
  <2>2. QED BY <1>1, <1>6, <2>1 DEF DrainsInOrder
<1>7. CASE Flush
  <2>1. /\ segments \in Seq(SUBSET Rec) /\ segments # <<>> /\ writes \in SUBSET Rec
        /\ segments' = AppendToWAL(writes) /\ writes' = {}
    BY <1>1, <1>7 DEF Flush, Types, DiskTypes, MemTypes, CtlTypes
  <2>2. Len(segments') = Len(segments)
        /\ segments'[Len(segments)] = segments[Len(segments)] \cup writes
    BY <2>1, AppendIs
  <2>3. QED BY <1>6, <1>7, <2>1, <2>2 DEF Flush, ctlVars
<1>8. CASE PartialFlush
  BY <1>1, <1>6, <1>8, PartialFlushIs DEF PartialFlush, ctlVars
<1>9. CASE StartDrain \/ StartClose
  <2>1. PICK R \in SUBSET writes : Rotate(R)
    BY <1>9, StartCloseRotates DEF StartDrain
  <2>2. phase = "serving" /\ lookup' = lookup
    BY <1>9, <2>1 DEF StartDrain, StartClose, Rotate
  <2>3. /\ segments'[Len(segments')] = {} /\ writes' = {}
        /\ \A j \in jobs' : \A b \in DOMAIN j : <<b, j[b]>> \in R \cup segments[Len(segments)]
    BY <1>1, <2>1, <2>2, RotateIs
  <2>4. \A b : MapSeq(b)' = MapSeq(b)
    BY <2>2, Names
  <2>5. ASSUME NEW j \in jobs', NEW b \in DOMAIN j PROVE MapSeq(b)' < j[b]
    <3>1. <<b, j[b]>> \in writes \cup segments[Len(segments)]
      BY <2>3
    <3>2. MapSeq(<<b, j[b]>>[1]) < <<b, j[b]>>[2]
      BY <1>1, <2>2, <3>1 DEF DrainsInOrder
    <3>3. QED BY <2>4, <3>2
  <2>6. QED BY <2>3, <2>5 DEF DrainsInOrder
<1>10. ASSUME NEW j \in jobs, Upload(j) PROVE DrainsInOrder'
  <2>1. jobs' = jobs \ {j} /\ phase' = phase /\ UNCHANGED <<writes, segments>>
    BY <1>10 DEF Upload
  <2>2. \A b \in Blocks : MapSeq(b)' = MapSeq(b) \/ (b \in DOMAIN j /\ MapSeq(b)' = j[b])
    BY <1>1, <1>10, UploadMoves
  <2>3. ASSUME NEW k \in jobs', NEW b \in DOMAIN k, phase \in {"serving", "closing"}
        PROVE  MapSeq(b)' < k[b]
    <3>1. k \in jobs /\ k # j /\ IsChunk(k)
      BY <1>1, <2>1 DEF Types, CtlTypes
    <3>2. b \in Blocks /\ b \notin DOMAIN j
      BY <1>1, <3>1, ChunkIs DEF JobsLogged
    <3>3. QED BY <1>1, <2>2, <2>3, <3>1, <3>2 DEF DrainsInOrder
  <2>4. ASSUME NEW r \in writes \cup segments[Len(segments)], phase = "serving"
        PROVE  /\ MapSeq(r[1])' < r[2]
               /\ \A k \in jobs' : r[1] \in DOMAIN k => k[r[1]] < r[2]
    <3>1. /\ MapSeq(r[1]) < r[2]
          /\ \A k \in jobs : r[1] \in DOMAIN k => k[r[1]] < r[2]
      BY <1>1, <2>4 DEF DrainsInOrder
    <3>2. r[1] \in Blocks
      <4>1. segments \in Seq(SUBSET Rec) /\ segments # <<>> /\ writes \in SUBSET Rec
        BY <1>1, <2>4 DEF Types, DiskTypes, MemTypes, CtlTypes
      <4>2. segments[Len(segments)] \in SUBSET Rec
        BY <4>1
      <4>3. QED BY <4>1, <4>2, RecIs
    <3>3. MapSeq(r[1])' < r[2]
      BY <2>2, <3>1, <3>2
    <3>4. QED BY <2>1, <3>1, <3>3
  <2>5. QED BY <2>1, <2>3, <2>4 DEF DrainsInOrder
<1>11. CASE /\ phase' \in {"serving", "closing"} /\ ~RecoveryRemoves /\ ~StartDrain /\ ~StartClose
            /\ ~(\E b \in Blocks : Write(b)) /\ ~Flush /\ ~PartialFlush
            /\ ~(\E j \in jobs : Upload(j))
  <2>1. /\ phase' = phase /\ jobs' \subseteq jobs /\ lookup' = lookup
        /\ phase = "serving" => UNCHANGED <<writes, segments>>
    BY <1>1, <1>11, UpSteps
  <2>2. QED BY <1>6, <2>1
<1>12. QED BY <1>2, <1>3, <1>4, <1>5, <1>7, <1>8, <1>9, <1>10, <1>11

\* The whole invariant.
VInv == NInv /\ UpTypes /\ DInv

\* It holds of a new volume.
LEMMA VolumeInit ==
    ASSUME Init
    PROVE  VInv
<1>1. NInv /\ Types
  BY NumbersInit DEF NInv
<1>2. UpTypes /\ MapBetween /\ TickBehind /\ Replayed /\ HotKept /\ DrainsInOrder
  BY DEF Init, UpTypes, MapBetween, TickBehind, Replayed, HotKept, DrainsInOrder
<1>3. PromisesKept
  <2>1. promised = Zero
    BY DEF Init
  <2>2. \A b \in Blocks : Zero[b] = 0 /\ Recoverable(b) \in Nat
    BY <1>1, RecoverableIs DEF Zero
  <2>3. QED BY <2>1, <2>2 DEF PromisesKept, Sound
<1>4. QED BY <1>1, <1>2, <1>3 DEF VInv, DInv

\* Every step keeps it.
LEMMA VolumeStep ==
    ASSUME VInv, [Next]_vars
    PROVE  VInv'
<1>1. NInv /\ NInv' /\ UpTypes /\ UpTypes' /\ DInv
  BY NumbersStep DEF VInv
<1>2. MapBetween' /\ TickBehind' /\ Replayed'
  BY <1>1, MapBetweenStep, TickBehindStep, ReplayedStep
<1>3. HotKept' /\ PromisesKept' /\ DrainsInOrder'
  BY <1>1, HotKeptStep, PromisesStep, DrainsStep
<1>4. QED BY <1>1, <1>2, <1>3 DEF VInv, DInv

\* A serving volume reads at least what an open would bring back.
LEMMA ReadsRecoverable ==
    ASSUME VInv, phase = "serving"
    PROVE  \A b \in Sound : /\ Recoverable(b) <= Readable(b)
                            /\ Recoverable(b) \in Nat /\ Readable(b) \in Nat
<1>1. TAKE b \in Sound
<1>2. Types /\ HotKept /\ MapBetween /\ b \in Blocks
  BY DEF VInv, NInv, DInv, Sound
<1>3. /\ Recoverable(b) \in Nat /\ Saved(b) \in Nat /\ MapSeq(b) \in Nat
      /\ \/ Recoverable(b) = Saved(b)
         \/ \E r \in Logged : r[1] = b /\ r[2] = Recoverable(b)
  BY <1>2, RecoverableIs
<1>4. Readable(b) \in Nat /\ hot[b] <= Readable(b) /\ MapSeq(b) <= Readable(b) /\ hot[b] \in Nat
  BY <1>2, ReadableIs, NatTypes
<1>5. Recoverable(b) <= hot[b] \/ Recoverable(b) <= MapSeq(b)
  BY <1>2, <1>3 DEF HotKept, MapBetween
<1>6. QED BY <1>3, <1>4, <1>5

\* What was promised is read.
LEMMA PromisesRead ==
    ASSUME VInv
    PROVE  FlushedSurvives
<1> SUFFICES ASSUME phase = "serving", NEW b \in Blocks, \A l \in lost : l[2] # b
             PROVE  Readable(b) >= promised[b]
  BY DEF FlushedSurvives
<1>1. promised[b] <= Recoverable(b) /\ promised[b] \in Nat /\ b \in Sound
  BY NatTypes DEF VInv, NInv, DInv, PromisesKept, Sound
<1>2. Recoverable(b) <= Readable(b) /\ Recoverable(b) \in Nat /\ Readable(b) \in Nat
  BY <1>1, ReadsRecoverable
<1>3. QED BY <1>1, <1>2

\* The checkpoint an open would load goes forward.
LEMMA LoadedGoesOn ==
    ASSUME VInv, [Next]_vars
    PROVE  \A b \in DOMAIN Loaded : (\A l \in lost' : l[2] # b) =>
               b \in DOMAIN Loaded' /\ Loaded'[b].seq >= Loaded[b].seq
<1>1. TAKE b \in DOMAIN Loaded
<1>2. HAVE \A l \in lost' : l[2] # b
<1>3. Types /\ Types' /\ UpTypes /\ MapBetween /\ TickBehind /\ Replayed
  BY NumbersStep DEF VInv, NInv, DInv
<1>4. b \in Blocks /\ Loaded[b].seq \in 1..MaxSeqNum /\ Loaded[b].seq \in Nat
  BY <1>3, NextObjectIs, CkptIs DEF Types
<1>5. b \in Sound'
  BY <1>2, <1>4 DEF Sound
<1>6. Saved(b) <= Saved(b)' /\ Saved(b)' \in Nat
  BY <1>3, <1>4, <1>5, RecoverableStep, RecoverableIsNext DEF RecoverableKept
<1>7. Saved(b) = Loaded[b].seq /\ Saved(b)' = SavedIn(Loaded', b)
  BY RecoverableName DEF SavedIn
<1>8. SavedIn(Loaded', b) # 0
  BY <1>4, <1>6, <1>7
<1>9. b \in DOMAIN Loaded' /\ SavedIn(Loaded', b) = Loaded'[b].seq
  BY <1>8 DEF SavedIn
<1>10. QED BY <1>4, <1>6, <1>7, <1>9

\* What a successful Flush promised survives crashes, faults, closes and
\* failed opens at any step, for every volume, but for the blocks of which one
\* of the named paths has dropped or displaced a record.
THEOREM PromisesSurvive == Spec => []FlushedSurvives
<1>1. Init => VInv
  BY VolumeInit
<1>2. VInv /\ [Next]_vars => VInv'
  BY VolumeStep
<1>3. VInv => FlushedSurvives
  BY PromisesRead
<1>4. QED BY <1>1, <1>2, <1>3, PTL DEF Spec

\* What the next open loads never goes back to an older record of such a
\* block, whichever save of the live checkpoint, config.json or a numbered
\* checkpoint was the last one, and whoever made it.
THEOREM CheckpointsAdvance == Spec => LoadedAdvances
<1>1. Init => VInv
  BY VolumeInit
<1>2. VInv /\ [Next]_vars => VInv'
  BY VolumeStep
<1>3. VInv /\ [Next]_vars =>
          [\A b \in DOMAIN Loaded : (\A l \in lost' : l[2] # b) =>
               b \in DOMAIN Loaded' /\ Loaded'[b].seq >= Loaded[b].seq]_diskVars
  BY LoadedGoesOn
<1>4. QED BY <1>1, <1>2, <1>3, PTL DEF Spec, LoadedAdvances

-----------------------------------------------------------------------------
(* The volume is a disk with a volatile write cache.  While it serves, the *)
(* disk holds what a read returns, otherwise what an open would bring back *)
(* (the mapping of Disk in module Volume).                                 *)

\* The blocks that are not damaged.
LEMMA SoundIs ==
    /\ Sound = Blocks \ {l[2] : l \in lost}
    /\ Sound' = Blocks \ {l[2] : l \in lost'}
BY DEF Sound

\* While the volume serves, no step changes what is read but a write.
LEMMA ReadsStay ==
    ASSUME VInv, [Next]_vars, phase = "serving", phase' = "serving",
           \A c \in Blocks : ~Write(c)
    PROVE  \A b \in Blocks : Readable(b)' = Readable(b)
<1>1. Types /\ HotKept /\ JobsLogged /\ DrainsInOrder /\ hot \in [Blocks -> Nat]
  BY NatTypes DEF VInv, NInv, DInv
<1>2. CASE hot' = hot /\ lookup' = lookup
  BY <1>2, Names DEF Readable
<1>3. ASSUME NEW j \in jobs, Upload(j) PROVE \A b \in Blocks : Readable(b)' = Readable(b)
  <2>1. TAKE b \in Blocks
  <2>2. hot' = hot /\ hot[b] \in Nat
    BY <1>1, <1>3 DEF Upload
  <2>3. MapSeq(b) \in Nat /\ MapSeq(b)' \in Nat /\ MapSeq(b) <= MapSeq(b)'
    BY <1>1, <1>3, UploadMoves
  <2>4. /\ Readable(b) = Max({hot[b], MapSeq(b)})
        /\ Readable(b)' = Max({hot[b], MapSeq(b)'})
    BY <2>2 DEF Readable
  <2>5. CASE MapSeq(b)' = MapSeq(b)
    BY <2>4, <2>5
  <2>6. CASE b \in DOMAIN j /\ MapSeq(b)' = j[b] /\ <<b, j[b]>> \in Logged
    <3>1. <<b, j[b]>>[2] <= hot[<<b, j[b]>>[1]]
      BY <1>1, <2>6 DEF HotKept
    <3>2. MapSeq(b)' <= hot[b]
      BY <2>6, <3>1
    <3>3. Max({hot[b], MapSeq(b)}) = hot[b] /\ Max({hot[b], MapSeq(b)'}) = hot[b]
      BY <2>2, <2>3, <3>2, MaxOfTwo
    <3>4. QED BY <2>4, <3>3
  <2>7. QED BY <1>1, <1>3, <2>5, <2>6, UploadMoves
<1>4. (\E j \in jobs : Upload(j)) \/ (hot' = hot /\ lookup' = lookup)
  <2>1. CASE Flush \/ PartialFlush \/ StartDrain
    BY <2>1 DEF Flush, PartialFlush, StartDrain, Rotate
  <2>2. ~RecoveryRemoves
    BY DEF RecoveryRemoves
  <2>3. CASE ~Flush /\ ~PartialFlush /\ ~StartDrain
    BY <1>1, <2>2, <2>3, ServingSteps
  <2>4. QED BY <2>1, <2>3
<1>5. QED BY <1>2, <1>3, <1>4

\* A write gives its block the newest version of all.
LEMMA WriteReads ==
    ASSUME VInv, NEW c \in Blocks, Write(c)
    PROVE  /\ \A b \in Blocks : Readable(c)' > Readable(b)
           /\ \A b \in Blocks \ {c} : Readable(b)' = Readable(b)
<1>1. Types /\ hot \in [Blocks -> Nat]
  BY NatTypes DEF VInv, NInv
<1>2. phase = "serving" /\ hot' = [hot EXCEPT ![c] = seqNum + 1] /\ lookup' = lookup
  BY DEF Write
<1>3. /\ \A b \in Blocks : MapSeq(b) <= seqNum /\ MapSeq(b) \in Nat
      /\ \A b \in Blocks : hot[b] <= seqNum
      /\ seqNum \in Nat
  BY <1>2, ServingNumbers DEF Replaying, VInv, NInv, NumbersBelow
<1>4. \A b : MapSeq(b)' = MapSeq(b)
  BY <1>2, Names
<1>5. hot'[c] = seqNum + 1 /\ \A b \in Blocks : b # c => hot'[b] = hot[b]
  BY <1>1, <1>2
<1>6. Readable(c)' = seqNum + 1
  <2>1. Readable(c)' = Max({seqNum + 1, MapSeq(c)})
    BY <1>4, <1>5 DEF Readable
  <2>2. Max({seqNum + 1, MapSeq(c)}) = seqNum + 1
    BY <1>3, MaxOfTwo
  <2>3. QED BY <2>1, <2>2
<1>7. \A b \in Blocks : Readable(b) \in Nat /\ Readable(b) <= seqNum
  BY <1>1, <1>3, ReadableIs
<1>8. \A b \in Blocks \ {c} : Readable(b)' = Readable(b)
  BY <1>4, <1>5 DEF Readable
<1>9. QED BY <1>3, <1>6, <1>7, <1>8

\* What a volume that goes down keeps of a block is what was promised of it,
\* what was read of it, or something between.
LEMMA KeptGoingDown ==
    ASSUME VInv, VInv', [Next]_vars, phase = "serving", phase' # "serving"
    PROVE  \A b \in Sound' : promised'[b] <= Recoverable(b)' /\ Recoverable(b)' <= Readable(b)
<1>1. TAKE b \in Sound'
<1>2. Types /\ Types' /\ UpTypes /\ MapBetween /\ TickBehind /\ Replayed /\ HotKept
  BY DEF VInv, NInv, DInv
<1>3. RecoverableKept /\ b \in Blocks /\ b \in Sound
  BY <1>2, RecoverableStep DEF Sound, RecoverableKept
<1>4. promised'[b] <= Recoverable(b)'
  BY DEF VInv, DInv, PromisesKept
<1>5. Recoverable(b) <= Readable(b)
  BY <1>3, ReadsRecoverable
<1>6. CASE Recoverable(b)' = Recoverable(b)
  BY <1>4, <1>5, <1>6
<1>7. CASE \E r \in writes : r[1] = b /\ r[2] = Recoverable(b)'
  <2>1. PICK r \in writes : r[1] = b /\ r[2] = Recoverable(b)'
    BY <1>7
  <2>2. r[2] <= hot[b]
    BY <1>2, <2>1 DEF HotKept
  <2>3. hot[b] \in Nat /\ Readable(b) \in Nat /\ hot[b] <= Readable(b) /\ Recoverable(b)' \in Nat
    BY <1>2, <1>3, ReadableIs, RecoverableIsNext, NatTypes
  <2>4. QED BY <1>4, <2>1, <2>2, <2>3
<1>8. QED BY <1>3, <1>6, <1>7 DEF RecoverableKept

\* A volume that begins to serve reads what the open brought back.
LEMMA ReadsComingUp ==
    ASSUME VInv, RecoveryRemoves, phase' = "serving"
    PROVE  \A b \in Sound : Readable(b)' = Recoverable(b)
<1>1. TAKE b \in Sound
<1>2. Types /\ MapBetween
  BY DEF VInv, NInv, DInv
<1>3. hot' = Zero /\ Logged = {} /\ lookup' = lookup /\ phase = "recover" /\ b \in Blocks
  BY <1>2, BeginsToServe DEF memVars, Sound
<1>4. /\ Recoverable(b) = Saved(b) /\ Saved(b) \in Nat /\ MapSeq(b) \in Nat
  BY <1>2, <1>3, RecoverableIs
<1>5. Saved(b) <= MapSeq(b) /\ MapSeq(b) <= Recoverable(b)
  BY <1>2, <1>3 DEF MapBetween
<1>6. Readable(b)' = Max({0, MapSeq(b)})
  BY <1>3, Names DEF Readable, Zero
<1>7. Max({0, MapSeq(b)}) = MapSeq(b)
  BY <1>4, MaxOfTwo
<1>8. QED BY <1>4, <1>5, <1>6, <1>7

\* Which steps a volume goes down and comes up by, and what the history keeps.
LEMMA PhaseSteps ==
    ASSUME Types, [Next]_vars
    PROVE  /\ phase # "serving" /\ phase' = "serving" => RecoveryRemoves
           /\ phase = "serving" /\ phase' # "serving" => UNCHANGED <<promised, lost>>
           /\ Flush \/ promised' = promised
           /\ (\E b \in Blocks : Write(b)) => UNCHANGED <<promised, lost, phase>>
<1>1. CASE Next
  BY <1>1 DEF Next, Write, Flush, PartialFlush, StartDrain, StartClose, Rotate, Upload,
     UploadFails, UploadsDone, SaveLiveCheckpoint, SaveState, SaveBlockState, Refused, Gone,
     OpenFails, CloseRemoves, RecoveryRemoves, TickReadsMap, TickSaves, OrphanSaves, Open, Crash,
     histVars, ctlVars, Types, CtlTypes, Steps
<1>2. CASE UNCHANGED vars
  <2>1. UNCHANGED <<promised, lost, phase>>
    BY <1>2 DEF vars, histVars, ctlVars
  <2>2. QED BY <2>1
<1>3. QED BY <1>1, <1>2

\* A new volume is a new disk.
LEMMA DiskInit ==
    ASSUME Init
    PROVE  Disk!Init
<1>1. /\ phase = "down" /\ promised = Zero /\ lost = {} /\ Types /\ segments = <<>>
      /\ live = {} /\ numbered = None
  BY VolumeInit DEF Init, VInv, NInv
<1>2. Logged = {}
  BY <1>1, EmptySegment, Names
<1>3. DOMAIN Loaded = {}
  <2>1. DOMAIN None = {}
    BY DEF None
  <2>2. QED BY <1>1, <2>1 DEF Loaded
<1>4. \A b \in Blocks : Recoverable(b) = 0
  <2>1. TAKE b \in Blocks
  <2>2. Recoverable(b) = Saved(b)
    BY <1>1, <1>2, RecoverableIs
  <2>3. QED BY <1>3, <2>2 DEF Saved, SavedIn
<1>5. QED BY <1>1, <1>4 DEF Disk!Init, Disk!Zero, Zero

\* Every step of the volume is a step of the disk.
LEMMA StepsAreDiskSteps ==
    ASSUME VInv, VInv', [Next]_vars
    PROVE  Disk!Next
<1>1. Types /\ Types' /\ UpTypes /\ MapBetween /\ TickBehind /\ Replayed
  BY DEF VInv, NInv, DInv
<1>2. RecoverableKept /\ WALStep
  BY <1>1, RecoverableStep, LoggedStep
<1>3. {l[2] : l \in lost} \subseteq {l[2] : l \in lost'} /\ {l[2] : l \in lost'} \subseteq Blocks
  <2>1. lost \subseteq lost'
    BY <1>2 DEF WALStep
  <2>2. lost' \subseteq Losses \X Blocks
    BY <1>1 DEF Types, HistTypes
  <2>3. QED BY <2>1, <2>2
<1>4. Sound = Blocks \ {l[2] : l \in lost} /\ Sound' = Blocks \ {l[2] : l \in lost'}
  BY SoundIs
<1>5. CASE phase = "serving" /\ phase' = "serving"
  <2>1. ASSUME NEW c \in Blocks, Write(c) PROVE Disk!Next
    <3>1. UNCHANGED <<promised, lost>>
      BY <1>1, <2>1, PhaseSteps
    <3>2. /\ \A b \in Blocks : Readable(c)' > Readable(b)
          /\ \A b \in Blocks \ {c} : Readable(b)' = Readable(b)
      BY <2>1, WriteReads
    <3>3. Disk!Write(c)
      BY <1>5, <3>1, <3>2 DEF Disk!Write, Disk!Same
    <3>4. QED BY <3>3 DEF Disk!Next
  <2>2. CASE \A c \in Blocks : ~Write(c)
    <3>1. \A b \in Blocks : Readable(b)' = Readable(b)
      BY <1>5, <2>2, ReadsStay
    <3>2. CASE Flush
      <4>1. promised' = [b \in Blocks |-> Readable(b)] /\ lost' = lost
        BY <3>2 DEF Flush
      <4>2. Disk!Flush
        BY <1>5, <3>1, <4>1 DEF Disk!Flush, Disk!Same
      <4>3. QED BY <4>2 DEF Disk!Next
    <3>3. CASE promised' = promised
      <4>1. Disk!Damage
        BY <1>3, <1>5, <3>1, <3>3 DEF Disk!Damage
      <4>2. QED BY <4>1 DEF Disk!Next
    <3>4. QED BY <1>1, <3>2, <3>3, PhaseSteps
  <2>3. QED BY <2>1, <2>2
<1>6. CASE phase = "serving" /\ phase' # "serving"
  <2>1. UNCHANGED <<promised, lost>>
    BY <1>1, <1>6, PhaseSteps
  <2>2. \A b \in Sound' : promised[b] <= Recoverable(b)' /\ Recoverable(b)' <= Readable(b)
    BY <1>6, <2>1, KeptGoingDown
  <2>3. Disk!GoDown
    BY <1>4, <1>6, <2>1, <2>2 DEF Disk!GoDown
  <2>4. QED BY <2>3 DEF Disk!Next
<1>7. CASE phase # "serving" /\ phase' = "serving"
  <2>1. RecoveryRemoves
    BY <1>1, <1>7, PhaseSteps
  <2>2. UNCHANGED <<promised, lost>>
    BY <1>1, <1>7, <2>1, BeginsToServe DEF histVars
  <2>3. \A b \in Sound : Readable(b)' = Recoverable(b)
    BY <1>7, <2>1, ReadsComingUp
  <2>4. Disk!ComeUp
    BY <1>4, <1>7, <2>2, <2>3 DEF Disk!ComeUp, Disk!Same
  <2>5. QED BY <2>4 DEF Disk!Next
<1>8. CASE phase # "serving" /\ phase' # "serving"
  <2>1. writes = {} /\ promised' = promised
    BY <1>1, <1>8, PhaseSteps DEF Types, CtlTypes, Flush
  <2>2. \A b \in Sound' : Recoverable(b)' = Recoverable(b)
    BY <1>2, <2>1 DEF RecoverableKept
  <2>3. Disk!Damage
    BY <1>3, <1>4, <1>8, <2>1, <2>2 DEF Disk!Damage
  <2>4. QED BY <2>3 DEF Disk!Next
<1>9. QED BY <1>5, <1>6, <1>7, <1>8

\* A volume is a disk with a volatile write cache: a guest reads its own
\* writes, a flush makes them safe, and what a crash or a close leaves of them
\* is settled there and then, whatever the drains, checkpoints, failed saves
\* and failed opens in between do.
THEOREM VolumeRefinesDisk == Spec => VolumeIsDisk
<1>1. Init => VInv /\ Disk!Init
  BY VolumeInit, DiskInit
<1>2. VInv /\ [Next]_vars => VInv'
  BY VolumeStep
<1>3. VInv /\ VInv' /\ [Next]_vars => [Disk!Next]_(Disk!diskVars)
  BY StepsAreDiskSteps
<1>4. QED BY <1>1, <1>2, <1>3, PTL DEF Spec, VolumeIsDisk, Disk!Spec

=============================================================================
