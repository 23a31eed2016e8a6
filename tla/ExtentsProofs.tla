--------------------------- MODULE ExtentsProofs ---------------------------
(***************************************************************************)
(* What the extent operators do for every map, run and checkpoint: an      *)
(* insertion keeps extents apart and moves no block outside the inserted   *)
(* run (insertCoalescedLocked), reference counts follow it, and a          *)
(* checkpoint that is loaded gives the map that was saved                  *)
(* (coalesceBlockLookup).                                                  *)
(***************************************************************************)
EXTENDS Extents, FiniteSetTheorems, SequenceTheorems, WellFoundedInduction, TLAPS

\* A set of natural numbers has a least element, which Min chooses.
LEMMA LeastNumber ==
    ASSUME NEW S \in SUBSET Nat, S # {}
    PROVE  Min(S) \in S /\ \A y \in S : Min(S) <= y
<1>1. PICK x \in S : \A y \in S : ~(<<y, x>> \in OpToRel(<, Nat))
  BY NatLessThanWellFounded, WFMin
<1>2. \A y \in S : ~(y < x)
  BY <1>1 DEF OpToRel
<1>3. \E m \in S : \A y \in S : m =< y
  BY <1>2
<1>4. QED BY <1>3 DEF Min

-----------------------------------------------------------------------------
(* Extents and maps of them.                                               *)

\* An entry of the map has at least one block.
IsExtent(e) ==
    /\ e \in [start : Nat, obj : Nat, off : Nat, seqs : Seq(Nat)]
    /\ Len(e.seqs) > 0
Apart(m) == \A e, f \in m : e # f => ~Overlaps(e, f)
IsMap(m) == (\A e \in m : IsExtent(e)) /\ Apart(m)

\* f is a piece of e: every block it has is where e has it.
Piece(f, e) ==
    /\ e.start <= f.start /\ End(f) <= End(e)
    /\ f.obj = e.obj /\ f.off = OffsetAt(e, f.start)
    /\ \A b \in Nat : Covers(f, b) => SeqNumAt(f, b) = SeqNumAt(e, b)

\* The numbers of an extent.
LEMMA ExtentType ==
    ASSUME NEW e, IsExtent(e)
    PROVE  /\ e.start \in Nat /\ e.obj \in Nat /\ e.off \in Nat /\ e.seqs \in Seq(Nat)
           /\ Len(e.seqs) \in Nat /\ End(e) \in Nat /\ e.start < End(e)
           /\ End(e) = e.start + Len(e.seqs)
           /\ \A b \in Nat : Covers(e, b) => SeqNumAt(e, b) \in Nat /\ OffsetAt(e, b) \in Nat
<1>1. /\ e.start \in Nat /\ e.obj \in Nat /\ e.off \in Nat /\ e.seqs \in Seq(Nat)
      /\ Len(e.seqs) \in Nat /\ Len(e.seqs) > 0
  BY DEF IsExtent
<1>2. \A i \in 1..Len(e.seqs) : e.seqs[i] \in Nat
  BY <1>1
<1>3. ASSUME NEW b \in Nat, Covers(e, b) PROVE SeqNumAt(e, b) \in Nat /\ OffsetAt(e, b) \in Nat
  <2>1. (b - e.start) + 1 \in 1..Len(e.seqs)
    BY <1>1, <1>3 DEF Covers, End
  <2>2. SeqNumAt(e, b) \in Nat
    BY <1>2, <2>1 DEF SeqNumAt
  <2>3. e.start <= b
    BY <1>3 DEF Covers
  <2>4. OffsetAt(e, b) \in Nat
    BY <1>1, <2>3 DEF OffsetAt
  <2>5. QED BY <2>2, <2>4
<1>4. QED BY <1>1, <1>3 DEF End

\* Two extents overlap iff they have a block in common.
LEMMA OverlapsIff ==
    ASSUME NEW e, NEW n, IsExtent(e), IsExtent(n)
    PROVE  /\ Overlaps(e, n) <=> \E b \in Nat : Covers(e, b) /\ Covers(n, b)
           /\ Overlaps(e, n) <=> Overlaps(n, e)
<1>1. /\ e.start \in Nat /\ n.start \in Nat /\ End(e) \in Nat /\ End(n) \in Nat
      /\ e.start < End(e) /\ n.start < End(n)
  BY ExtentType
<1>2. Overlaps(e, n) <=> Overlaps(n, e)
  BY <1>1 DEF Overlaps
<1>3. ASSUME Overlaps(e, n) PROVE \E b \in Nat : Covers(e, b) /\ Covers(n, b)
  <2>1. CASE e.start <= n.start
    BY <1>1, <1>3, <2>1 DEF Overlaps, Covers
  <2>2. CASE n.start < e.start
    BY <1>1, <1>3, <2>2 DEF Overlaps, Covers
  <2>3. QED BY <1>1, <2>1, <2>2
<1>4. ASSUME NEW b \in Nat, Covers(e, b), Covers(n, b) PROVE Overlaps(e, n)
  BY <1>1, <1>4 DEF Overlaps, Covers
<1>5. QED BY <1>2, <1>3, <1>4

\* A piece covers no more than its extent, and has each block where that has it.
LEMMA PieceFacts ==
    ASSUME NEW e, NEW f, IsExtent(e), IsExtent(f), Piece(f, e)
    PROVE  \A b \in Nat : Covers(f, b) => /\ Covers(e, b)
                                          /\ SeqNumAt(f, b) = SeqNumAt(e, b)
                                          /\ OffsetAt(f, b) = OffsetAt(e, b)
                                          /\ f.obj = e.obj
<1>1. /\ e.start \in Nat /\ f.start \in Nat /\ End(e) \in Nat /\ End(f) \in Nat
      /\ e.off \in Nat /\ f.off \in Nat
  BY ExtentType
<1>2. TAKE b \in Nat
<1>3. HAVE Covers(f, b)
<1>4. Covers(e, b)
  BY <1>1, <1>3 DEF Piece, Covers
<1>5. SeqNumAt(f, b) = SeqNumAt(e, b) /\ f.obj = e.obj
  BY <1>3 DEF Piece
<1>6. OffsetAt(f, b) = OffsetAt(e, b)
  BY <1>1 DEF Piece, OffsetAt
<1>7. QED BY <1>4, <1>5, <1>6

\* An extent is a piece of itself: insertCoalescedLocked leaves it as it is.
LEMMA PieceOfItself ==
    ASSUME NEW e, IsExtent(e)
    PROVE  Piece(e, e)
BY ExtentType DEF Piece, OffsetAt

\* In a map that keeps its extents apart a block has one entry.
LEMMA ResolveIs ==
    ASSUME NEW m, IsMap(m), NEW b \in Nat, NEW e \in m, Covers(e, b)
    PROVE  Mapped(m, b) /\ Resolve(m, b) = e
<1>1. \A f \in m : Covers(f, b) => f = e
  BY OverlapsIff DEF IsMap, Apart
<1>2. QED BY <1>1 DEF Mapped, Resolve

-----------------------------------------------------------------------------
(* insertCoalescedLocked.                                                  *)

\* What is left before the inserted run.
LEMMA HeadIs ==
    ASSUME NEW e, NEW n, IsExtent(e), IsExtent(n), Overlaps(e, n), NEW h \in HeadOf(e, n)
    PROVE  /\ IsExtent(h) /\ Piece(h, e) /\ End(h) = n.start /\ h.start = e.start
           /\ e.start < n.start
<1>1. /\ e.start \in Nat /\ n.start \in Nat /\ End(e) \in Nat /\ End(n) \in Nat
      /\ e.seqs \in Seq(Nat) /\ End(e) = e.start + Len(e.seqs) /\ Len(e.seqs) \in Nat
      /\ e.off \in Nat /\ e.obj \in Nat
  BY ExtentType
<1>2. /\ e.start < n.start
      /\ h = [e EXCEPT !.seqs = SubSeq(e.seqs, 1, n.start - e.start)]
  BY DEF HeadOf
<1>3. n.start < End(e)
  BY DEF Overlaps
<1> DEFINE k == n.start - e.start
           q == SubSeq(e.seqs, 1, k)
<1>4. k \in 1..Len(e.seqs)
  BY <1>1, <1>2, <1>3
<1> HIDE DEF k
<1>5. q \in Seq(Nat) /\ Len(q) = k /\ \A i \in 1..k : q[i] = e.seqs[i]
  BY <1>1, <1>4
<1>6. h.start = e.start /\ h.obj = e.obj /\ h.off = e.off /\ h.seqs = q
      /\ h \in [start : Nat, obj : Nat, off : Nat, seqs : Seq(Nat)]
  BY <1>1, <1>2, <1>5 DEF IsExtent, k
<1> HIDE DEF q
<1>7. IsExtent(h) /\ End(h) = n.start
  <2>1. End(h) = h.start + Len(h.seqs)
    BY DEF End
  <2>2. Len(h.seqs) = k
    BY <1>5, <1>6
  <2>3. n.start = e.start + k
    BY <1>1 DEF k
  <2>4. k > 0
    BY <1>4
  <2>5. QED BY <1>6, <2>1, <2>2, <2>3, <2>4 DEF IsExtent
<1>8. ASSUME NEW b \in Nat, Covers(h, b) PROVE SeqNumAt(h, b) = SeqNumAt(e, b)
  <2>1. (b - e.start) + 1 \in 1..k
    <3>1. e.start <= b /\ b < n.start
      BY <1>6, <1>7, <1>8 DEF Covers
    <3>2. QED BY <1>1, <3>1 DEF k
  <2>2. QED BY <1>5, <1>6, <2>1 DEF SeqNumAt
<1>9. Piece(h, e)
  BY <1>1, <1>3, <1>6, <1>7, <1>8 DEF Piece, OffsetAt
<1>10. QED BY <1>2, <1>6, <1>7, <1>9

\* What is left behind it.
LEMMA TailIs ==
    ASSUME NEW e, NEW n, IsExtent(e), IsExtent(n), Overlaps(e, n), NEW t \in TailOf(e, n)
    PROVE  /\ IsExtent(t) /\ Piece(t, e) /\ t.start = End(n) /\ End(t) = End(e)
           /\ End(n) < End(e)
<1>1. /\ e.start \in Nat /\ n.start \in Nat /\ End(e) \in Nat /\ End(n) \in Nat
      /\ e.seqs \in Seq(Nat) /\ End(e) = e.start + Len(e.seqs) /\ Len(e.seqs) \in Nat
      /\ e.off \in Nat /\ e.obj \in Nat
  BY ExtentType
<1>2. /\ End(n) < End(e)
      /\ t = [start |-> End(n), obj |-> e.obj, off |-> OffsetAt(e, End(n)),
              seqs  |-> SubSeq(e.seqs, (End(n) - e.start) + 1, Len(e.seqs))]
  BY DEF TailOf
<1>3. e.start < End(n)
  BY DEF Overlaps
<1> DEFINE k == End(n) - e.start
           q == SubSeq(e.seqs, k + 1, Len(e.seqs))
<1>4. k \in Nat /\ k > 0 /\ k < Len(e.seqs)
  <2>1. End(n) < e.start + Len(e.seqs)
    BY <1>1, <1>2
  <2>2. QED BY <1>1, <1>3, <2>1
<1>5. /\ t.start = End(n) /\ t.obj = e.obj /\ t.off = OffsetAt(e, End(n)) /\ t.seqs = q
      /\ t = [start |-> End(n), obj |-> e.obj, off |-> OffsetAt(e, End(n)), seqs |-> q]
  BY <1>2
<1>6. End(n) = e.start + k
  BY <1>1
<1> HIDE DEF k
<1>7. /\ q \in Seq(Nat) /\ Len(q) = Len(e.seqs) - k
      /\ \A i \in 1..(Len(e.seqs) - k) : q[i] = e.seqs[k + i]
  <2> DEFINE w == e.seqs
             l == Len(w)
  <2>1. w \in Seq(Nat) /\ l \in Nat /\ k \in Nat /\ k > 0 /\ k < l /\ l = Len(w)
    BY <1>1, <1>4
  <2> HIDE DEF w, l
  <2>2. /\ SubSeq(w, k + 1, l) \in Seq(Nat) /\ Len(SubSeq(w, k + 1, l)) = l - k
        /\ \A i \in 1..(l - k) : SubSeq(w, k + 1, l)[i] = w[k + i]
    <3>1. \A i \in (k + 1)..l : w[i] \in Nat
      BY <2>1
    <3> DEFINE a == k + 1
    <3>2. a \in Int /\ l \in Int /\ a <= l /\ (l - a) + 1 = l - k
      BY <2>1
    <3> HIDE DEF a
    <3>3. /\ SubSeq(w, a, l) \in Seq(Nat)
          /\ Len(SubSeq(w, a, l)) = IF a <= l THEN l - a + 1 ELSE 0
          /\ \A i \in 1..(l - a + 1) : SubSeq(w, a, l)[i] = w[a + i - 1]
      BY <3>1, <3>2, SubSeqProperties DEF a
    <3>4. \A i \in 1..(l - k) : a + i - 1 = k + i
      BY <2>1 DEF a
    <3>5. SubSeq(w, a, l) \in Seq(Nat) /\ Len(SubSeq(w, a, l)) = l - k
      BY <3>2, <3>3
    <3>6. \A i \in 1..(l - k) : SubSeq(w, a, l)[i] = w[k + i]
      BY <3>2, <3>3, <3>4
    <3>7. QED BY <3>5, <3>6 DEF a
  <2>3. QED BY <2>2 DEF w, l
<1> HIDE DEF q
<1>8. OffsetAt(e, End(n)) \in Nat
  BY <1>1, <1>4, <1>6 DEF OffsetAt
<1>9. t \in [start : Nat, obj : Nat, off : Nat, seqs : Seq(Nat)]
  BY <1>1, <1>5, <1>7, <1>8
<1>10. IsExtent(t) /\ End(t) = End(e)
  <2>1. End(t) = t.start + Len(t.seqs)
    BY DEF End
  <2>2. Len(t.seqs) = Len(e.seqs) - k /\ t.start = e.start + k
    BY <1>5, <1>6, <1>7
  <2> DEFINE l == Len(e.seqs)
             s == e.start
  <2>3. l \in Nat /\ s \in Nat /\ End(e) = s + l /\ k < l /\ k \in Nat
    BY <1>1, <1>4
  <2>4. Len(t.seqs) = l - k /\ End(t) = (s + k) + Len(t.seqs)
    BY <2>1, <2>2
  <2> HIDE DEF l, s
  <2>5. Len(t.seqs) > 0 /\ End(t) = End(e)
    BY <2>3, <2>4
  <2>6. QED BY <1>9, <2>5 DEF IsExtent
<1>11. ASSUME NEW b \in Nat, Covers(t, b) PROVE SeqNumAt(t, b) = SeqNumAt(e, b)
  <2>1. b >= End(n) /\ b < End(e)
    BY <1>5, <1>10, <1>11 DEF Covers
  <2>2. (b - End(n)) + 1 \in 1..(Len(e.seqs) - k)
    <3>1. b < e.start + Len(e.seqs) /\ b >= e.start + k
      BY <1>1, <1>6, <2>1
    <3> DEFINE l == Len(e.seqs)
               s == e.start
    <3>2. l \in Nat /\ s \in Nat /\ b < s + l /\ b >= s + k /\ k \in Nat /\ End(n) = s + k
      BY <1>1, <1>4, <1>6, <3>1
    <3> HIDE DEF l, s
    <3>3. (b - End(n)) + 1 \in 1..(l - k)
      BY <3>2
    <3>4. QED BY <3>3 DEF l
  <2>3. q[(b - End(n)) + 1] = e.seqs[k + ((b - End(n)) + 1)]
    BY <1>7, <2>2
  <2>4. k + ((b - End(n)) + 1) = (b - e.start) + 1
    BY <1>1, <1>4, <1>6
  <2>5. QED BY <1>5, <2>3, <2>4 DEF SeqNumAt
<1>12. Piece(t, e)
  BY <1>1, <1>3, <1>5, <1>10, <1>11 DEF Piece
<1>13. QED BY <1>2, <1>5, <1>10, <1>12

\* Every fragment is a piece of an entry the run overlaps, outside the run.
LEMMA FragmentIs ==
    ASSUME NEW m, \A e \in m : IsExtent(e), NEW n, IsExtent(n), NEW f \in Fragments(m, n)
    PROVE  /\ IsExtent(f) /\ ~Overlaps(f, n)
           /\ \E e \in m : /\ Overlaps(e, n) /\ Piece(f, e)
                           /\ \/ f \in HeadOf(e, n)
                              \/ f \in TailOf(e, n)
<1>1. PICK e \in m : Overlaps(e, n) /\ (f \in HeadOf(e, n) \/ f \in TailOf(e, n))
  BY DEF Fragments
<1>2. IsExtent(e)
  OBVIOUS
<1>3. n.start \in Nat /\ End(n) \in Nat
  BY ExtentType
<1>4. CASE f \in HeadOf(e, n)
  <2>1. IsExtent(f) /\ Piece(f, e) /\ End(f) = n.start
    BY <1>1, <1>2, <1>4, HeadIs
  <2>2. ~Overlaps(f, n)
    BY <1>3, <2>1 DEF Overlaps
  <2>3. QED BY <1>1, <2>1, <2>2
<1>5. CASE f \in TailOf(e, n)
  <2>1. IsExtent(f) /\ Piece(f, e) /\ f.start = End(n)
    BY <1>1, <1>2, <1>5, TailIs
  <2>2. ~Overlaps(f, n)
    BY <1>3, <2>1 DEF Overlaps
  <2>3. QED BY <1>1, <2>1, <2>2
<1>6. QED BY <1>1, <1>4, <1>5

\* A block of an overlapped entry outside the run is in a fragment.
LEMMA FragmentsCover ==
    ASSUME NEW m, \A e \in m : IsExtent(e), NEW n, IsExtent(n), NEW e \in m, Overlaps(e, n),
           NEW b \in Nat, Covers(e, b), ~Covers(n, b)
    PROVE  \E f \in Fragments(m, n) : Covers(f, b)
<1>1. IsExtent(e)
  OBVIOUS
<1>2. /\ e.start \in Nat /\ n.start \in Nat /\ End(e) \in Nat /\ End(n) \in Nat
  BY <1>1, ExtentType
<1>3. e.start <= b /\ b < End(e) /\ (b < n.start \/ b >= End(n))
  BY <1>2 DEF Covers
<1>4. CASE b < n.start
  <2>1. e.start < n.start
    BY <1>2, <1>3, <1>4
  <2>2. PICK h : h \in HeadOf(e, n)
    BY <2>1 DEF HeadOf
  <2>3. h.start = e.start /\ End(h) = n.start
    BY <1>1, <2>2, HeadIs
  <2>4. Covers(h, b)
    BY <1>3, <1>4, <2>3 DEF Covers
  <2>5. h \in Fragments(m, n)
    BY <2>2 DEF Fragments
  <2>6. QED BY <2>4, <2>5
<1>5. CASE b >= End(n)
  <2>1. End(n) < End(e)
    BY <1>2, <1>3, <1>5
  <2>2. PICK t : t \in TailOf(e, n)
    BY <2>1 DEF TailOf
  <2>3. t.start = End(n) /\ End(t) = End(e)
    BY <1>1, <2>2, TailIs
  <2>4. Covers(t, b)
    BY <1>2, <1>3, <1>5, <2>3 DEF Covers
  <2>5. t \in Fragments(m, n)
    BY <2>2 DEF Fragments
  <2>6. QED BY <2>4, <2>5
<1>6. QED BY <1>3, <1>4, <1>5

\* Where an entry of the map comes from after an insertion.
LEMMA InsertFrom ==
    ASSUME NEW m, \A e \in m : IsExtent(e), NEW n, IsExtent(n), NEW f \in Insert(m, n)
    PROVE  /\ IsExtent(f)
           /\ \/ f = n
              \/ ~Overlaps(f, n) /\ \E e \in m : Piece(f, e)
<1>1. CASE f \in m /\ ~Overlaps(f, n)
  BY <1>1, PieceOfItself
<1>2. CASE f \in Fragments(m, n)
  BY <1>2, FragmentIs
<1>3. CASE f = n
  BY <1>3
<1>4. QED BY <1>1, <1>2, <1>3 DEF Insert

\* Pieces of different entries do not overlap, nor do the two of one entry.
LEMMA FragmentsApart ==
    ASSUME NEW m, IsMap(m), NEW n, IsExtent(n), NEW f \in Fragments(m, n),
           NEW g \in Insert(m, n), g # n, f # g
    PROVE  ~Overlaps(f, g)
<1>0. \A e \in m : IsExtent(e)
  BY DEF IsMap
<1>1. /\ IsExtent(f) /\ ~Overlaps(f, n)
      /\ \E e \in m : Overlaps(e, n) /\ Piece(f, e) /\ (f \in HeadOf(e, n) \/ f \in TailOf(e, n))
  BY <1>0, FragmentIs
<1>2. PICK e \in m : Overlaps(e, n) /\ Piece(f, e) /\ (f \in HeadOf(e, n) \/ f \in TailOf(e, n))
  BY <1>1
<1>3. CASE g \in m /\ ~Overlaps(g, n)
  <2>1. e # g /\ IsExtent(e) /\ IsExtent(g)
    BY <1>0, <1>2, <1>3
  <2>2. ~Overlaps(e, g)
    BY <1>3, <2>1 DEF IsMap, Apart
  <2>3. QED BY <1>1, <1>2, <2>1, <2>2, OverlapsIff, PieceFacts
<1>4. CASE g \in Fragments(m, n)
  <2>1. IsExtent(g)
    BY <1>0, <1>4, FragmentIs
  <2>2. PICK d \in m : Overlaps(d, n) /\ Piece(g, d) /\ (g \in HeadOf(d, n) \/ g \in TailOf(d, n))
    BY <1>0, <1>4, FragmentIs
  <2>3. IsExtent(d) /\ IsExtent(e)
    BY <1>0
  <2>4. CASE d # e
    <3>1. ~Overlaps(e, d)
      BY <2>4 DEF IsMap, Apart
    <3>2. QED BY <1>1, <1>2, <2>1, <2>2, <2>3, <3>1, OverlapsIff, PieceFacts
  <2>5. CASE d = e
    <3>1. \A x, y : x \in HeadOf(e, n) /\ y \in HeadOf(e, n) => x = y
      BY DEF HeadOf
    <3>2. \A x, y : x \in TailOf(e, n) /\ y \in TailOf(e, n) => x = y
      BY DEF TailOf
    <3>3. \/ f \in HeadOf(e, n) /\ g \in TailOf(e, n)
          \/ f \in TailOf(e, n) /\ g \in HeadOf(e, n)
      BY <1>2, <2>2, <2>5, <3>1, <3>2
    <3>4. n.start \in Nat /\ End(n) \in Nat /\ n.start < End(n)
      BY ExtentType
    <3>5. CASE f \in HeadOf(e, n) /\ g \in TailOf(e, n)
      <4>1. End(f) = n.start /\ g.start = End(n)
        BY <1>2, <2>3, <3>5, HeadIs, TailIs
      <4>2. QED BY <3>4, <4>1 DEF Overlaps
    <3>6. CASE f \in TailOf(e, n) /\ g \in HeadOf(e, n)
      <4>1. f.start = End(n) /\ End(g) = n.start
        BY <1>2, <2>3, <3>6, HeadIs, TailIs
      <4>2. QED BY <3>4, <4>1 DEF Overlaps
    <3>7. QED BY <3>3, <3>5, <3>6
  <2>6. QED BY <2>4, <2>5
<1>5. QED BY <1>3, <1>4 DEF Insert

\* An insertion gives a map whose extents are apart.
LEMMA InsertIsMap ==
    ASSUME NEW m, IsMap(m), NEW n, IsExtent(n)
    PROVE  IsMap(Insert(m, n))
<1>0. \A e \in m : IsExtent(e)
  BY DEF IsMap
<1>1. \A f \in Insert(m, n) : IsExtent(f)
  BY <1>0, InsertFrom
<1>2. ASSUME NEW f \in Insert(m, n), NEW g \in Insert(m, n), f # g PROVE ~Overlaps(f, g)
  <2>1. IsExtent(f) /\ IsExtent(g)
    BY <1>1
  <2>2. CASE f = n \/ g = n
    <3>1. f # n => ~Overlaps(f, n)
      BY <1>0, InsertFrom
    <3>2. g # n => ~Overlaps(g, n)
      BY <1>0, InsertFrom
    <3>3. QED BY <1>2, <2>1, <2>2, <3>1, <3>2, OverlapsIff
  <2>3. CASE f # n /\ g # n /\ f \in Fragments(m, n)
    BY <1>2, <2>3, FragmentsApart
  <2>4. CASE f # n /\ g # n /\ g \in Fragments(m, n)
    <3>1. ~Overlaps(g, f)
      BY <1>2, <2>4, FragmentsApart
    <3>2. QED BY <2>1, <3>1, OverlapsIff
  <2>5. CASE f \in m /\ g \in m
    BY <1>2, <2>5 DEF IsMap, Apart
  <2>6. QED BY <2>2, <2>3, <2>4, <2>5 DEF Insert
<1>3. QED BY <1>1, <1>2 DEF IsMap, Apart

\* Inside the run a block resolves to the run, outside to a piece of what it
\* resolved to: its chunk, offset and SeqNum stay (insertCoalescedLocked).
LEMMA InsertResolves ==
    ASSUME NEW m, IsMap(m), NEW n, IsExtent(n), NEW b \in Nat
    PROVE  /\ Covers(n, b) => Mapped(Insert(m, n), b) /\ Resolve(Insert(m, n), b) = n
           /\ ~Covers(n, b) /\ Mapped(m, b) =>
                  /\ Mapped(Insert(m, n), b) /\ IsExtent(Resolve(m, b))
                  /\ IsExtent(Resolve(Insert(m, n), b))
                  /\ Piece(Resolve(Insert(m, n), b), Resolve(m, b))
                  /\ Covers(Resolve(Insert(m, n), b), b) /\ Covers(Resolve(m, b), b)
           /\ Mapped(Insert(m, n), b) => Covers(n, b) \/ Mapped(m, b)
<1>0. \A e \in m : IsExtent(e)
  BY DEF IsMap
<1> DEFINE I == Insert(m, n)
<1>1. IsMap(I) /\ n \in I
  BY InsertIsMap DEF Insert
<1>2. \A f \in I : IsExtent(f) /\ (f = n \/ \E e \in m : Piece(f, e))
  BY <1>0, InsertFrom
<1>3. ASSUME NEW e \in m, Covers(e, b), ~Covers(n, b)
      PROVE \E f \in I : Covers(f, b)
  <2>1. CASE Overlaps(e, n)
    BY <1>0, <1>3, <2>1, FragmentsCover DEF Insert
  <2>2. CASE ~Overlaps(e, n)
    BY <1>3, <2>2 DEF Insert
  <2>3. QED BY <2>1, <2>2
<1> HIDE DEF I
<1>4. ASSUME Covers(n, b) PROVE Mapped(I, b) /\ Resolve(I, b) = n
  BY <1>1, <1>4, ResolveIs
<1>5. ASSUME ~Covers(n, b), Mapped(m, b)
      PROVE  /\ Mapped(I, b) /\ IsExtent(Resolve(m, b)) /\ IsExtent(Resolve(I, b))
             /\ Piece(Resolve(I, b), Resolve(m, b))
             /\ Covers(Resolve(I, b), b) /\ Covers(Resolve(m, b), b)
  <2>1. PICK e \in m : Covers(e, b)
    BY <1>5 DEF Mapped
  <2>2. Resolve(m, b) = e /\ IsExtent(e)
    BY <1>0, <2>1, ResolveIs
  <2>3. PICK f \in I : Covers(f, b)
    BY <1>3, <1>5, <2>1
  <2>4. Mapped(I, b) /\ Resolve(I, b) = f /\ IsExtent(f)
    BY <1>1, <1>2, <2>3, ResolveIs
  <2>5. PICK d \in m : Piece(f, d)
    BY <1>2, <1>5, <2>3
  <2>6. Covers(d, b)
    BY <1>0, <2>3, <2>4, <2>5, PieceFacts
  <2>7. d = e
    BY <2>2, <2>6, ResolveIs
  <2>8. QED BY <2>1, <2>2, <2>3, <2>4, <2>5, <2>7
<1>6. ASSUME Mapped(I, b), ~Covers(n, b) PROVE Mapped(m, b)
  <2>1. PICK f \in I : Covers(f, b)
    BY <1>6 DEF Mapped
  <2>2. PICK d \in m : Piece(f, d)
    BY <1>2, <1>6, <2>1
  <2>3. Covers(d, b)
    BY <1>0, <1>2, <2>1, <2>2, PieceFacts
  <2>4. QED BY <2>3 DEF Mapped
<1>7. QED BY <1>4, <1>5, <1>6 DEF I

-----------------------------------------------------------------------------
(* The reference counts.                                                   *)

\* A map inside the volume is finite: its entries have different first blocks.
LEMMA MapFinite ==
    ASSUME NEW m, IsMap(m), NEW N \in Nat, \A e \in m : End(e) <= N
    PROVE  IsFiniteSet(m)
<1>1. \A e \in m : /\ IsExtent(e) /\ e.start \in Nat /\ End(e) \in Nat
                   /\ e.start < End(e) /\ e.start \in 0..N
  <2> TAKE e \in m
  <2>1. IsExtent(e)
    BY DEF IsMap
  <2>2. e.start \in Nat /\ End(e) \in Nat /\ e.start < End(e)
    BY <2>1, ExtentType
  <2>3. QED BY <2>1, <2>2
<1> DEFINE f == [e \in m |-> e.start]
<1>2. f \in [m -> 0..N]
  BY <1>1
<1>3. \A d, e \in m : f[d] = f[e] => d = e
  <2> TAKE d \in m, e \in m
  <2> HAVE f[d] = f[e]
  <2>1. d.start = e.start
    OBVIOUS
  <2>2. Overlaps(d, e)
    BY <1>1, <2>1 DEF Overlaps
  <2>3. QED BY <2>2 DEF IsMap, Apart
<1> HIDE DEF f
<1>4. f \in Injection(m, 0..N)
  BY <1>2, <1>3 DEF Injection, IsInjective
<1>5. IsFiniteSet(0..N)
  BY FS_Interval
<1>6. QED BY <1>4, <1>5, FS_Injection

\* What an insertion adds is not among what it keeps.
LEMMA InsertSplits ==
    ASSUME NEW m, IsMap(m), NEW n, IsExtent(n)
    PROVE  \A f \in Fragments(m, n) \cup {n} : ~(f \in m /\ ~Overlaps(f, n))
<1>0. \A e \in m : IsExtent(e)
  BY DEF IsMap
<1>1. Overlaps(n, n)
  <2>1. n.start \in Nat /\ End(n) \in Nat /\ n.start < End(n)
    BY ExtentType
  <2>2. QED BY <2>1 DEF Overlaps
<1>2. ASSUME NEW f \in Fragments(m, n), f \in m, ~Overlaps(f, n) PROVE FALSE
  <2>1. PICK e \in m : Overlaps(e, n) /\ Piece(f, e)
    BY <1>0, <1>2, FragmentIs
  <2>2. e # f /\ IsExtent(e) /\ IsExtent(f)
    BY <1>0, <1>2, <2>1
  <2>3. f.start \in Nat /\ End(f) \in Nat /\ f.start < End(f) /\ e.start \in Nat /\ End(e) \in Nat
    BY <2>2, ExtentType
  <2>4. e.start <= f.start /\ End(f) <= End(e)
    BY <2>1 DEF Piece
  <2>5. Overlaps(e, f)
    BY <2>3, <2>4 DEF Overlaps
  <2>6. QED BY <1>2, <2>2, <2>5 DEF IsMap, Apart
<1>3. QED BY <1>1, <1>2

\* The entries of an insertion stay inside the volume.
LEMMA InsertBounded ==
    ASSUME NEW m, IsMap(m), NEW n, IsExtent(n), NEW N \in Nat,
           \A e \in m : End(e) <= N, End(n) <= N
    PROVE  \A e \in Insert(m, n) : End(e) <= N
<1>0. \A e \in m : IsExtent(e)
  BY DEF IsMap
<1> TAKE f \in Insert(m, n)
<1>1. IsExtent(f) /\ (f = n \/ \E e \in m : Piece(f, e))
  BY <1>0, InsertFrom
<1>2. CASE f = n
  BY <1>2
<1>3. ASSUME NEW e \in m, Piece(f, e) PROVE End(f) <= N
  <2>1. End(f) <= End(e) /\ End(e) <= N
    BY <1>3 DEF Piece
  <2>2. End(f) \in Nat /\ End(e) \in Nat
    BY <1>0, <1>1, ExtentType
  <2>3. QED BY <2>1, <2>2
<1>4. QED BY <1>1, <1>2, <1>3

\* The entries a run overlaps.
Hit(m, n) == {e \in m : Overlaps(e, n)}

\* The counts after an insertion: those of the overlapped entries go, those of
\* the fragments and the run come.
LEMMA InsertCounts ==
    ASSUME NEW m, IsMap(m), NEW n, IsExtent(n), NEW N \in Nat,
           \A e \in m : End(e) <= N, End(n) <= N, NEW o
    PROVE  /\ CountOf(Hit(m, n), o) \in Nat /\ CountOf(m, o) \in Nat
           /\ CountOf(Hit(m, n), o) <= CountOf(m, o)
           /\ CountOf(Fragments(m, n) \cup {n}, o) \in Nat
           /\ CountOf(Insert(m, n), o) =
                  (CountOf(m, o) - CountOf(Hit(m, n), o)) + CountOf(Fragments(m, n) \cup {n}, o)
<1> DEFINE K == {e \in {x \in m : ~Overlaps(x, n)} : e.obj = o}
           G == {e \in {x \in m : Overlaps(x, n)} : e.obj = o}
           A == {e \in Fragments(m, n) \cup {n} : e.obj = o}
           M == {e \in m : e.obj = o}
           I == {e \in Insert(m, n) : e.obj = o}
<1>1. IsFiniteSet(m)
  BY MapFinite
<1>2. IsFiniteSet(Insert(m, n))
  BY InsertIsMap, InsertBounded, MapFinite
<1>3. M \subseteq m /\ K \subseteq m /\ G \subseteq m /\ I \subseteq Insert(m, n)
  OBVIOUS
<1>4. A \subseteq Insert(m, n)
  BY DEF Insert
<1>5. M = K \cup G /\ K \cap G = {}
  OBVIOUS
<1>6. I = K \cup A
  BY DEF Insert
<1>7. K \cap A = {}
  BY InsertSplits
<1>8. CountOf(Hit(m, n), o) = Cardinality(G) /\ CountOf(m, o) = Cardinality(M)
      /\ CountOf(Fragments(m, n) \cup {n}, o) = Cardinality(A)
      /\ CountOf(Insert(m, n), o) = Cardinality(I)
  BY DEF CountOf, Hit
<1> HIDE DEF K, G, A, M, I
<1>9. IsFiniteSet(K) /\ IsFiniteSet(G) /\ IsFiniteSet(A)
  BY <1>1, <1>2, <1>3, <1>4, FS_Subset
<1>10. Cardinality(K) \in Nat /\ Cardinality(G) \in Nat /\ Cardinality(A) \in Nat
  BY <1>9, FS_CardinalityType
<1>11. Cardinality({}) = 0
  BY FS_EmptySet
<1>12. Cardinality(M) = Cardinality(K) + Cardinality(G)
  <2>1. Cardinality(K \cup G) = Cardinality(K) + Cardinality(G) - Cardinality(K \cap G)
    BY <1>9, FS_Union
  <2>2. Cardinality(M) = Cardinality(K \cup G) /\ Cardinality(K \cap G) = 0
    BY <1>5, <1>11
  <2> DEFINE k == Cardinality(K)
             g == Cardinality(G)
  <2>3. k \in Nat /\ g \in Nat /\ Cardinality(M) = k + g - 0
    BY <1>10, <2>1, <2>2
  <2> HIDE DEF k, g
  <2>4. Cardinality(M) = k + g
    BY <2>3
  <2>5. QED BY <2>4 DEF k, g
<1>13. Cardinality(I) = Cardinality(K) + Cardinality(A)
  <2>1. Cardinality(K \cup A) = Cardinality(K) + Cardinality(A) - Cardinality(K \cap A)
    BY <1>9, FS_Union
  <2>2. Cardinality(I) = Cardinality(K \cup A) /\ Cardinality(K \cap A) = 0
    BY <1>6, <1>7, <1>11
  <2> DEFINE k == Cardinality(K)
             a == Cardinality(A)
  <2>3. k \in Nat /\ a \in Nat /\ Cardinality(I) = k + a - 0
    BY <1>10, <2>1, <2>2
  <2> HIDE DEF k, a
  <2>4. Cardinality(I) = k + a
    BY <2>3
  <2>5. QED BY <2>4 DEF k, a
<1> DEFINE k == Cardinality(K)
           g == Cardinality(G)
           a == Cardinality(A)
           c == Cardinality(M)
           i == Cardinality(I)
<1>14. k \in Nat /\ g \in Nat /\ a \in Nat /\ c = k + g /\ i = k + a
  BY <1>10, <1>12, <1>13
<1> HIDE DEF k, g, a, c, i
<1>15. g <= c /\ c \in Nat /\ i = (c - g) + a
  BY <1>14
<1>16. QED BY <1>8, <1>14, <1>15 DEF k, g, a, c, i

\* Exact counts stay exact: no count is clamped and none is forgotten
\* (insertCoalescedLocked's gcRefcount updates).
LEMMA InsertRefsExact ==
    ASSUME NEW m, IsMap(m), NEW n, IsExtent(n), NEW N \in Nat,
           \A e \in m : End(e) <= N, End(n) <= N,
           NEW refs, \A o \in Nat : RefCount(refs, o) = CountOf(m, o)
    PROVE  \A o \in Nat : RefCount(InsertRefs(refs, m, n), o) = CountOf(Insert(m, n), o)
<1> TAKE o \in Nat
<1> DEFINE gone == CountOf(Hit(m, n), o)
           new  == CountOf(Fragments(m, n) \cup {n}, o)
           old  == CountOf(m, o)
<1>1. gone \in Nat /\ old \in Nat /\ gone <= old /\ new \in Nat
      /\ CountOf(Insert(m, n), o) = (old - gone) + new
  <2>1. CountOf(Hit(m, n), o) \in Nat
    BY InsertCounts
  <2>2. CountOf(m, o) \in Nat
    BY InsertCounts
  <2>3. CountOf(Hit(m, n), o) <= CountOf(m, o)
    BY InsertCounts
  <2>4. CountOf(Fragments(m, n) \cup {n}, o) \in Nat
    BY InsertCounts
  <2>5. CountOf(Insert(m, n), o) =
          (CountOf(m, o) - CountOf(Hit(m, n), o)) + CountOf(Fragments(m, n) \cup {n}, o)
    BY InsertCounts
  <2>6. QED BY <2>1, <2>2, <2>3, <2>4, <2>5
<1>2. RefCount(refs, o) = old
  OBVIOUS
<1> DEFINE D == DOMAIN refs \cup {n.obj} \cup {e.obj : e \in Fragments(m, n)}
<1>3. CASE o \in D
  <2>1. o \in DOMAIN InsertRefs(refs, m, n)
    BY <1>3 DEF InsertRefs
  <2>2. InsertRefs(refs, m, n)[o] =
          (IF RefCount(refs, o) > gone THEN RefCount(refs, o) - gone ELSE 0) + new
    BY <1>3 DEF InsertRefs, Hit
  <2>3. RefCount(InsertRefs(refs, m, n), o) = (IF old > gone THEN old - gone ELSE 0) + new
    BY <1>2, <2>1, <2>2 DEF RefCount
  <2> HIDE DEF gone, new, old
  <2>4. QED BY <1>1, <2>3
<1>4. CASE o \notin D
  <2>1. RefCount(InsertRefs(refs, m, n), o) = 0
    BY <1>4 DEF InsertRefs, RefCount
  <2>2. old = 0
    BY <1>2, <1>4 DEF RefCount
  <2>3. {e \in Fragments(m, n) \cup {n} : e.obj = o} = {}
    BY <1>4
  <2>4. new = 0
    BY <2>3, FS_EmptySet DEF CountOf
  <2> HIDE DEF gone, new, old
  <2>5. QED BY <1>1, <2>1, <2>2, <2>4
<1>5. QED BY <1>3, <1>4

-----------------------------------------------------------------------------
(* coalesceBlockLookup.                                                    *)

\* A checkpoint: one record for each of finitely many blocks.
IsFlat(flat, N) ==
    \E D \in SUBSET (0..N) : flat \in [D -> [obj : Nat, off : Nat, seq : Nat]]

\* A non-empty set of numbers with a bound has a greatest element.
LEMMA GreatestNumber ==
    ASSUME NEW N \in Nat, NEW S \in SUBSET (0..N), S # {}
    PROVE  \E z \in S : \A y \in S : y <= z
<1> DEFINE U == {u \in 0..N : \A y \in S : y <= u}
           u == Min(U)
<1>1. N \in U
  BY DEF U
<1>2. u \in U /\ \A y \in U : u <= y
  <2> DEFINE T == U
  <2>1. T \in SUBSET Nat /\ T # {}
    BY <1>1
  <2> HIDE DEF T
  <2>2. Min(T) \in T /\ \A y \in T : Min(T) <= y
    BY <2>1, LeastNumber
  <2>3. QED BY <2>2 DEF T
<1> HIDE DEF u
<1>3. u \in S
  <2> SUFFICES ASSUME u \notin S PROVE FALSE
    OBVIOUS
  <2>1. PICK x \in S : TRUE
    OBVIOUS
  <2>2. x < u
    BY <1>2, <2>1
  <2>3. u - 1 \in U
    BY <1>2, <2>1, <2>2
  <2>4. QED BY <1>2, <2>3
<1>4. QED BY <1>2, <1>3

\* The parts of Coalesce: the blocks that end and start runs, the end of a
\* block's run, and the entry of a run.
EndsRun(flat, c) == ~\E d \in DOMAIN flat : Continues(flat, c, d)
StartsRun(flat, b) == ~\E a \in DOMAIN flat : Continues(flat, a, b)
LastOf(flat, b) == Min({c \in DOMAIN flat : c >= b /\ EndsRun(flat, c)})
RunOf(flat, b) ==
    [start |-> b, obj |-> flat[b].obj, off |-> flat[b].off,
     seqs  |-> [i \in 1..((LastOf(flat, b) - b) + 1) |-> flat[(b + i) - 1].seq]]

\* Coalesce in those terms.
LEMMA CoalesceIs ==
    ASSUME NEW flat
    PROVE  Coalesce(flat) = {RunOf(flat, b) : b \in {x \in DOMAIN flat : StartsRun(flat, x)}}
BY DEF Coalesce, RunOf, StartsRun, LastOf, EndsRun

\* The types of a checkpoint's records.
LEMMA FlatType ==
    ASSUME NEW flat, NEW N \in Nat, IsFlat(flat, N)
    PROVE  /\ DOMAIN flat \in SUBSET (0..N) /\ DOMAIN flat \in SUBSET Nat
           /\ flat = [b \in DOMAIN flat |-> flat[b]]
           /\ \A b \in DOMAIN flat : /\ flat[b] \in [obj : Nat, off : Nat, seq : Nat]
                                     /\ flat[b].obj \in Nat /\ flat[b].off \in Nat
                                     /\ flat[b].seq \in Nat
<1>1. PICK D \in SUBSET (0..N) : flat \in [D -> [obj : Nat, off : Nat, seq : Nat]]
  BY DEF IsFlat
<1>2. DOMAIN flat = D
  BY <1>1
<1>3. \A b \in D : flat[b] \in [obj : Nat, off : Nat, seq : Nat]
  BY <1>1
<1>4. QED BY <1>1, <1>2, <1>3

\* Where the run of a block ends, and that it goes on until there.
LEMMA LastIs ==
    ASSUME NEW flat, NEW N \in Nat, IsFlat(flat, N), NEW b \in DOMAIN flat
    PROVE  /\ LastOf(flat, b) \in DOMAIN flat /\ b <= LastOf(flat, b)
           /\ EndsRun(flat, LastOf(flat, b))
           /\ \A c \in DOMAIN flat :
                  b <= c /\ c < LastOf(flat, b) =>
                      c + 1 \in DOMAIN flat /\ Continues(flat, c, c + 1)
<1> DEFINE D == DOMAIN flat
           S == {c \in D : c >= b /\ EndsRun(flat, c)}
<1>1. D \in SUBSET (0..N) /\ D \in SUBSET Nat /\ b \in D
  BY FlatType
<1>2. PICK z \in D : \A y \in D : y <= z
  BY <1>1, GreatestNumber
<1>3. EndsRun(flat, z)
  BY <1>1, <1>2 DEF EndsRun, Continues
<1>4. z \in S
  BY <1>1, <1>2, <1>3
<1>5. S \in SUBSET Nat /\ S # {}
  BY <1>1, <1>4
<1>6. Min(S) \in S /\ \A y \in S : Min(S) <= y
  <2> HIDE DEF S
  <2>1. QED BY <1>5, LeastNumber
<1>7. LastOf(flat, b) = Min(S)
  BY DEF LastOf
<1> DEFINE l == LastOf(flat, b)
<1>8. l \in D /\ b <= l /\ EndsRun(flat, l) /\ \A y \in S : l <= y
  BY <1>1, <1>6, <1>7
<1> HIDE DEF l
<1>9. ASSUME NEW c \in D, b <= c, c < l PROVE c + 1 \in D /\ Continues(flat, c, c + 1)
  <2>1. ~EndsRun(flat, c)
    BY <1>1, <1>8, <1>9
  <2>2. PICK d \in D : Continues(flat, c, d)
    BY <2>1 DEF EndsRun
  <2>3. d = c + 1
    BY <2>2 DEF Continues
  <2>4. QED BY <2>2, <2>3
<1>10. QED BY <1>8, <1>9 DEF l

\* Along a run the chunk is the same and the offsets are consecutive.
LEMMA RunGoesOn ==
    ASSUME NEW flat, NEW N \in Nat, IsFlat(flat, N), NEW b \in DOMAIN flat
    PROVE  \A c \in b..LastOf(flat, b) : /\ c \in DOMAIN flat
                                         /\ flat[c].obj = flat[b].obj
                                         /\ flat[c].off = flat[b].off + (c - b)
<1> DEFINE D == DOMAIN flat
           l == LastOf(flat, b)
           Good(c) == c \in D /\ flat[c].obj = flat[b].obj /\ flat[c].off = flat[b].off + (c - b)
           Bad == {c \in b..l : ~Good(c)}
<1>1. D \in SUBSET Nat /\ b \in D /\ \A c \in D : flat[c].off \in Nat
  BY FlatType
<1>2. /\ l \in D /\ b <= l
      /\ \A c \in D : b <= c /\ c < l => c + 1 \in D /\ Continues(flat, c, c + 1)
  BY LastIs
<1>3. b \in Nat /\ l \in Nat
  BY <1>1, <1>2
<1> HIDE DEF l
<1>4. SUFFICES ASSUME Bad # {} PROVE FALSE
  BY DEF l
<1>5. Bad \in SUBSET Nat
  BY <1>3
<1> DEFINE c == Min(Bad)
<1>6. c \in Bad /\ \A y \in Bad : c <= y
  <2> HIDE DEF Bad
  <2>1. QED BY <1>4, <1>5, LeastNumber
<1> HIDE DEF c
<1>7. c \in Nat /\ b <= c /\ c <= l /\ ~Good(c)
  BY <1>3, <1>6
<1>8. Good(b)
  BY <1>1, <1>3
<1>9. c # b
  BY <1>7, <1>8
<1> DEFINE p == c - 1
<1>10. p \in Nat /\ b <= p /\ p < l /\ c = p + 1 /\ p < c
  BY <1>3, <1>7, <1>9
<1> HIDE DEF p
<1>11. Good(p)
  <2>1. p \notin Bad
    BY <1>3, <1>6, <1>7, <1>10
  <2>2. p \in b..l
    BY <1>3, <1>10
  <2>3. QED BY <2>1, <2>2
<1>12. c \in D /\ Continues(flat, p, c)
  BY <1>2, <1>10, <1>11
<1>13. flat[c].obj = flat[p].obj /\ flat[c].off = flat[p].off + 1
  BY <1>12 DEF Continues
<1>14. flat[c].off = flat[b].off + (c - b)
  <2>1. flat[p].off = flat[b].off + (p - b)
    BY <1>11
  <2> DEFINE x == flat[b].off
  <2>2. x \in Nat /\ flat[c].off = (x + (p - b)) + 1
    BY <1>1, <1>13, <2>1
  <2> HIDE DEF x
  <2>3. flat[c].off = x + (c - b)
    BY <1>3, <1>10, <2>2
  <2>4. QED BY <2>3 DEF x
<1>15. QED BY <1>7, <1>11, <1>12, <1>13, <1>14

\* Every block of the checkpoint is in a run that starts at or before it.
LEMMA InSomeRun ==
    ASSUME NEW flat, NEW N \in Nat, IsFlat(flat, N), NEW c \in DOMAIN flat
    PROVE  \E b \in DOMAIN flat : StartsRun(flat, b) /\ b <= c /\ c <= LastOf(flat, b)
<1> DEFINE D == DOMAIN flat
           S == {b \in D : b <= c /\ \A x \in b..c :
                               x \in D /\ (x < c => Continues(flat, x, x + 1))}
           b == Min(S)
<1>1. D \in SUBSET Nat /\ c \in D /\ c \in Nat
  BY FlatType
<1>2. c \in S
  BY <1>1
<1>3. S \in SUBSET Nat /\ S # {}
  BY <1>1, <1>2
<1>4. b \in S /\ \A y \in S : b <= y
  <2> HIDE DEF S
  <2>1. QED BY <1>3, LeastNumber
<1> HIDE DEF b
<1>5. b \in D /\ b \in Nat /\ b <= c
      /\ \A x \in b..c : x \in D /\ (x < c => Continues(flat, x, x + 1))
  BY <1>1, <1>4
<1>6. StartsRun(flat, b)
  <2> SUFFICES ASSUME NEW a \in D, Continues(flat, a, b) PROVE FALSE
    BY DEF StartsRun
  <2>1. b = a + 1 /\ a \in Nat
    BY <1>1 DEF Continues
  <2>2. ASSUME NEW x \in a..c PROVE x \in D /\ (x < c => Continues(flat, x, x + 1))
    <3>1. CASE x = a
      BY <2>1, <3>1
    <3>2. CASE x # a
      <4>1. x \in b..c
        BY <1>1, <1>5, <2>1, <2>2, <3>2
      <4>2. QED BY <1>5, <4>1
    <3>3. QED BY <3>1, <3>2
  <2>3. a \in S
    BY <1>1, <1>5, <2>1, <2>2
  <2>4. QED BY <1>4, <2>1, <2>3
<1>7. c <= LastOf(flat, b)
  <2> DEFINE l == LastOf(flat, b)
  <2>1. l \in D /\ b <= l /\ EndsRun(flat, l)
    BY <1>5, LastIs
  <2>2. l \in Nat
    BY <1>1, <2>1
  <2> HIDE DEF l
  <2>3. SUFFICES ASSUME l < c PROVE FALSE
    BY <1>1, <2>2 DEF l
  <2>4. l \in b..c /\ l + 1 \in b..c
    BY <1>1, <1>5, <2>1, <2>2, <2>3
  <2>5. Continues(flat, l, l + 1) /\ l + 1 \in D
    BY <1>5, <2>3, <2>4
  <2>6. QED BY <2>1, <2>5 DEF EndsRun
<1>8. QED BY <1>5, <1>6, <1>7

\* The runs of two starts do not meet.
LEMMA RunsApart ==
    ASSUME NEW flat, NEW N \in Nat, IsFlat(flat, N), NEW a \in DOMAIN flat, NEW b \in DOMAIN flat,
           a < b, StartsRun(flat, b)
    PROVE  LastOf(flat, a) < b
<1> DEFINE D == DOMAIN flat
           l == LastOf(flat, a)
<1>1. D \in SUBSET Nat
  BY FlatType
<1>2. l \in D /\ a <= l
  BY LastIs
<1>3. \A c \in D : a <= c /\ c < l => Continues(flat, c, c + 1)
  BY LastIs
<1>4. \A c \in a..l : c \in D
  BY RunGoesOn
<1> HIDE DEF l
<1>5. SUFFICES ASSUME b <= l PROVE FALSE
  BY <1>1, <1>2 DEF l
<1> DEFINE p == b - 1
<1>6. p \in a..l /\ p < l /\ a <= p /\ p + 1 = b
  BY <1>1, <1>2, <1>5
<1>7. Continues(flat, p, b) /\ p \in D
  BY <1>3, <1>4, <1>6
<1>8. QED BY <1>7 DEF StartsRun

\* A sequence written out by position.
LEMMA SequenceOf ==
    ASSUME NEW k \in Nat, NEW f \in [1..k -> Nat]
    PROVE  f \in Seq(Nat) /\ Len(f) = k
<1>1. f \in Seq(Nat)
  BY SeqDef
<1>2. DOMAIN f = 1..k
  OBVIOUS
<1>3. QED BY <1>1, <1>2, LenProperties

\* The entry of a run: it covers the run, and has each block's record.
LEMMA RunIs ==
    ASSUME NEW flat, NEW N \in Nat, IsFlat(flat, N), NEW b \in DOMAIN flat
    PROVE  LET r == RunOf(flat, b)
           IN  /\ IsExtent(r) /\ r.start = b /\ End(r) = LastOf(flat, b) + 1
               /\ \A c \in b..LastOf(flat, b) :
                      /\ c \in DOMAIN flat /\ r.obj = flat[c].obj
                      /\ OffsetAt(r, c) = flat[c].off /\ SeqNumAt(r, c) = flat[c].seq
<1> DEFINE D == DOMAIN flat
           l == LastOf(flat, b)
           k == (l - b) + 1
           q == [i \in 1..k |-> flat[(b + i) - 1].seq]
           r == RunOf(flat, b)
<1>1. /\ D \in SUBSET Nat /\ D \in SUBSET (0..N)
      /\ \A c \in D : flat[c].obj \in Nat /\ flat[c].off \in Nat /\ flat[c].seq \in Nat
  BY FlatType
<1>2. l \in D /\ b <= l
  BY LastIs
<1>3. \A c \in b..l : c \in D /\ flat[c].obj = flat[b].obj /\ flat[c].off = flat[b].off + (c - b)
  BY RunGoesOn
<1>4. r = [start |-> b, obj |-> flat[b].obj, off |-> flat[b].off, seqs |-> q]
  BY DEF RunOf
<1> HIDE DEF l, r
<1>5. l \in Nat /\ b \in Nat /\ k \in Nat /\ k > 0 /\ b + k = l + 1
  BY <1>1, <1>2
<1>6. \A i \in 1..k : (b + i) - 1 \in b..l
  BY <1>5
<1>7. q \in [1..k -> Nat]
  BY <1>1, <1>3, <1>6
<1>8. q \in Seq(Nat) /\ Len(q) = k
  <2> HIDE DEF q, k
  <2>1. QED BY <1>5, <1>7, SequenceOf
<1>9. \A i \in 1..k : q[i] = flat[(b + i) - 1].seq
  OBVIOUS
<1> HIDE DEF q
<1>10. r.start = b /\ r.obj = flat[b].obj /\ r.off = flat[b].off /\ r.seqs = q
  BY <1>4
<1>11. r \in [start : Nat, obj : Nat, off : Nat, seqs : Seq(Nat)]
  BY <1>1, <1>4, <1>5, <1>8
<1>12. IsExtent(r)
  BY <1>5, <1>8, <1>10, <1>11 DEF IsExtent
<1>13. End(r) = l + 1
  BY <1>5, <1>8, <1>10 DEF End
<1>14. ASSUME NEW c \in b..l
       PROVE  c \in D /\ r.obj = flat[c].obj /\ OffsetAt(r, c) = flat[c].off
              /\ SeqNumAt(r, c) = flat[c].seq
  <2>1. c \in D /\ r.obj = flat[c].obj /\ OffsetAt(r, c) = flat[c].off
    BY <1>3, <1>10, <1>14 DEF OffsetAt
  <2>2. (c - b) + 1 \in 1..k /\ (b + ((c - b) + 1)) - 1 = c
    BY <1>5, <1>14
  <2>3. SeqNumAt(r, c) = flat[c].seq
    BY <1>9, <1>10, <2>2 DEF SeqNumAt
  <2>4. QED BY <2>1, <2>3
<1>15. QED BY <1>10, <1>12, <1>13, <1>14 DEF r, l

\* A loaded map is a map, has the saved blocks and no others, inside the
\* volume, and every one of them where it was (coalesceBlockLookup).
LEMMA CoalesceIsMap ==
    ASSUME NEW flat, NEW N \in Nat, IsFlat(flat, N)
    PROVE  /\ IsMap(Coalesce(flat))
           /\ \A e \in Coalesce(flat) : End(e) <= N + 1
           /\ \A e \in Coalesce(flat), c \in Nat :
                  Covers(e, c) => /\ c \in DOMAIN flat /\ e.obj = flat[c].obj
                                  /\ OffsetAt(e, c) = flat[c].off /\ SeqNumAt(e, c) = flat[c].seq
           /\ \A c \in DOMAIN flat : Mapped(Coalesce(flat), c)
<1> DEFINE D == DOMAIN flat
           S == {x \in D : StartsRun(flat, x)}
           m == Coalesce(flat)
<1>1. D \in SUBSET Nat /\ D \in SUBSET (0..N)
  BY FlatType
<1>2. m = {RunOf(flat, b) : b \in S}
  BY CoalesceIs
<1> HIDE DEF m
<1>3. \A b \in D : LastOf(flat, b) \in D /\ b <= LastOf(flat, b)
  BY LastIs
<1>4. \A b \in D :
         /\ IsExtent(RunOf(flat, b)) /\ RunOf(flat, b).start = b
         /\ End(RunOf(flat, b)) = LastOf(flat, b) + 1
         /\ \A c \in b..LastOf(flat, b) :
               /\ c \in D /\ RunOf(flat, b).obj = flat[c].obj
               /\ OffsetAt(RunOf(flat, b), c) = flat[c].off
               /\ SeqNumAt(RunOf(flat, b), c) = flat[c].seq
  BY RunIs
<1>5. \A e \in m : IsExtent(e)
  BY <1>2, <1>4
<1>6. ASSUME NEW e \in m, NEW f \in m, e # f PROVE ~Overlaps(e, f)
  <2>1. PICK a \in S : e = RunOf(flat, a)
    BY <1>2
  <2>2. PICK b \in S : f = RunOf(flat, b)
    BY <1>2
  <2>3. e.start = a /\ f.start = b /\ End(e) = LastOf(flat, a) + 1 /\ End(f) = LastOf(flat, b) + 1
    BY <1>4, <2>1, <2>2
  <2>4. a # b
    BY <1>6, <2>1, <2>2
  <2>5. a \in Nat /\ b \in Nat /\ LastOf(flat, a) \in Nat /\ LastOf(flat, b) \in Nat
    BY <1>1, <1>3
  <2>6. CASE a < b
    <3>1. LastOf(flat, a) < b
      BY <2>6, RunsApart
    <3>2. QED BY <2>3, <2>5, <3>1 DEF Overlaps
  <2>7. CASE b < a
    <3>1. LastOf(flat, b) < a
      BY <2>7, RunsApart
    <3>2. QED BY <2>3, <2>5, <3>1 DEF Overlaps
  <2>8. QED BY <2>4, <2>5, <2>6, <2>7
<1>7. IsMap(m)
  BY <1>5, <1>6 DEF IsMap, Apart
<1>8. \A e \in m : End(e) <= N + 1
  <2> TAKE e \in m
  <2>1. PICK a \in S : e = RunOf(flat, a)
    BY <1>2
  <2>2. End(e) = LastOf(flat, a) + 1 /\ LastOf(flat, a) \in 0..N
    BY <1>1, <1>3, <1>4, <2>1
  <2>3. QED BY <2>2
<1>9. ASSUME NEW e \in m, NEW c \in Nat, Covers(e, c)
      PROVE  /\ c \in D /\ e.obj = flat[c].obj
             /\ OffsetAt(e, c) = flat[c].off /\ SeqNumAt(e, c) = flat[c].seq
  <2>1. PICK a \in S : e = RunOf(flat, a)
    BY <1>2
  <2>2. e.start = a /\ End(e) = LastOf(flat, a) + 1
    BY <1>4, <2>1
  <2>3. a \in Nat /\ LastOf(flat, a) \in Nat
    BY <1>1, <1>3
  <2>4. c \in a..LastOf(flat, a)
    BY <1>9, <2>2, <2>3 DEF Covers
  <2>5. QED BY <1>4, <2>1, <2>4
<1>10. ASSUME NEW c \in D PROVE Mapped(m, c)
  <2>1. PICK b \in D : StartsRun(flat, b) /\ b <= c /\ c <= LastOf(flat, b)
    BY InSomeRun
  <2>2. b \in S /\ RunOf(flat, b) \in m
    BY <1>2, <2>1
  <2>3. b \in Nat /\ c \in Nat /\ LastOf(flat, b) \in Nat
    BY <1>1, <1>3
  <2>4. Covers(RunOf(flat, b), c)
    BY <1>4, <2>1, <2>3 DEF Covers
  <2>5. QED BY <2>2, <2>4 DEF Mapped
<1>11. QED BY <1>7, <1>8, <1>9, <1>10 DEF m

\* The blocks a map expands to are those its entries cover.
LEMMA MappedBlocksIs ==
    ASSUME NEW m, IsMap(m)
    PROVE  /\ MappedBlocks(m) \subseteq Nat
           /\ \A b \in Nat : b \in MappedBlocks(m) <=> Mapped(m, b)
<1>1. \A e \in m : IsExtent(e) /\ e.start \in Nat /\ End(e) \in Nat
  BY ExtentType DEF IsMap
<1>2. \A e \in m : e.start..(End(e) - 1) \subseteq Nat
  BY <1>1
<1>3. \A e \in m, b \in Nat : b \in e.start..(End(e) - 1) <=> Covers(e, b)
  BY <1>1 DEF Covers
<1>4. MappedBlocks(m) \subseteq Nat
  BY <1>2 DEF MappedBlocks
<1>5. QED BY <1>3, <1>4 DEF MappedBlocks, Mapped

\* Loading a checkpoint gives back what was saved (expandBlockLookup after
\* coalesceBlockLookup is the identity).
LEMMA RoundTrip ==
    ASSUME NEW flat, NEW N \in Nat, IsFlat(flat, N)
    PROVE  Expand(Coalesce(flat)) = flat
<1> DEFINE D == DOMAIN flat
           m == Coalesce(flat)
<1>1. /\ D \in SUBSET Nat /\ flat = [b \in D |-> flat[b]]
      /\ \A b \in D : flat[b] \in [obj : Nat, off : Nat, seq : Nat]
  BY FlatType
<1>2. IsMap(m)
  BY CoalesceIsMap
<1>3. \A e \in m, c \in Nat :
         Covers(e, c) => /\ c \in D /\ e.obj = flat[c].obj
                         /\ OffsetAt(e, c) = flat[c].off /\ SeqNumAt(e, c) = flat[c].seq
  BY CoalesceIsMap
<1>4. \A c \in D : Mapped(m, c)
  BY CoalesceIsMap
<1> HIDE DEF m
<1>5. MappedBlocks(m) = D
  <2>1. \A c \in Nat : Mapped(m, c) => c \in D
    BY <1>3 DEF Mapped
  <2>2. MappedBlocks(m) \subseteq Nat /\ \A c \in Nat : c \in MappedBlocks(m) <=> Mapped(m, c)
    BY <1>2, MappedBlocksIs
  <2>3. QED BY <1>1, <1>4, <2>1, <2>2
<1>6. ASSUME NEW c \in D
      PROVE  [obj |-> Resolve(m, c).obj, off |-> OffsetAt(Resolve(m, c), c),
              seq |-> SeqNumAt(Resolve(m, c), c)] = flat[c]
  <2>1. PICK e \in m : Covers(e, c)
    BY <1>4 DEF Mapped
  <2>2. c \in Nat
    BY <1>1
  <2>3. Resolve(m, c) = e
    BY <1>2, <2>1, <2>2, ResolveIs
  <2>4. e.obj = flat[c].obj /\ OffsetAt(e, c) = flat[c].off /\ SeqNumAt(e, c) = flat[c].seq
    BY <1>3, <2>1, <2>2
  <2>5. flat[c] = [obj |-> flat[c].obj, off |-> flat[c].off, seq |-> flat[c].seq]
    BY <1>1
  <2>6. QED BY <2>3, <2>4, <2>5
<1>7. Expand(m) = [b \in D |-> [obj |-> Resolve(m, b).obj, off |-> OffsetAt(Resolve(m, b), b),
                                seq |-> SeqNumAt(Resolve(m, b), b)]]
  BY <1>5 DEF Expand
<1>8. QED BY <1>1, <1>6, <1>7 DEF m

\* What a map expands to is a checkpoint with each block's record.
LEMMA ExpandIs ==
    ASSUME NEW m, IsMap(m), NEW N \in Nat, \A e \in m : End(e) <= N + 1
    PROVE  /\ IsFlat(Expand(m), N)
           /\ DOMAIN Expand(m) = MappedBlocks(m)
           /\ \A b \in DOMAIN Expand(m) :
                  /\ Mapped(m, b) /\ b \in Nat
                  /\ Expand(m)[b].obj = Resolve(m, b).obj
                  /\ Expand(m)[b].off = OffsetAt(Resolve(m, b), b)
                  /\ Expand(m)[b].seq = SeqNumAt(Resolve(m, b), b)
                  /\ Resolve(m, b) \in m /\ Covers(Resolve(m, b), b)
<1> DEFINE D == MappedBlocks(m)
           rec(b) == [obj |-> Resolve(m, b).obj, off |-> OffsetAt(Resolve(m, b), b),
                      seq |-> SeqNumAt(Resolve(m, b), b)]
<1>1. D \subseteq Nat /\ \A b \in D : Mapped(m, b)
  <2>1. D \subseteq Nat /\ \A b \in Nat : b \in D <=> Mapped(m, b)
    BY MappedBlocksIs
  <2>2. QED BY <2>1
<1>2. \A b \in D : Resolve(m, b) \in m /\ Covers(Resolve(m, b), b)
  BY <1>1 DEF Mapped, Resolve
<1>3. ASSUME NEW b \in D PROVE rec(b) \in [obj : Nat, off : Nat, seq : Nat] /\ b \in 0..N
  <2> DEFINE e == Resolve(m, b)
  <2>1. e \in m /\ Covers(e, b) /\ b \in Nat
    BY <1>1, <1>2
  <2> HIDE DEF e
  <2>2. IsExtent(e)
    BY <2>1 DEF IsMap
  <2>3. e.obj \in Nat /\ End(e) \in Nat /\ SeqNumAt(e, b) \in Nat /\ OffsetAt(e, b) \in Nat
    BY <2>1, <2>2, ExtentType
  <2>4. b < End(e) /\ End(e) <= N + 1
    BY <2>1 DEF Covers
  <2>5. rec(b) \in [obj : Nat, off : Nat, seq : Nat]
    BY <2>3 DEF e
  <2>6. QED BY <2>1, <2>3, <2>4, <2>5
<1>4. Expand(m) = [b \in D |-> rec(b)]
  BY DEF Expand
<1>5. D \in SUBSET (0..N)
  BY <1>3
<1> HIDE DEF D
<1>6. Expand(m) \in [D -> [obj : Nat, off : Nat, seq : Nat]]
  BY <1>3, <1>4
<1>7. IsFlat(Expand(m), N)
  BY <1>5, <1>6 DEF IsFlat
<1>8. DOMAIN Expand(m) = D
  BY <1>4
<1>9. \A b \in D : /\ Expand(m)[b].obj = Resolve(m, b).obj
                   /\ Expand(m)[b].off = OffsetAt(Resolve(m, b), b)
                   /\ Expand(m)[b].seq = SeqNumAt(Resolve(m, b), b)
  BY <1>4
<1>10. QED BY <1>1, <1>2, <1>7, <1>8, <1>9 DEF D

-----------------------------------------------------------------------------
(* Chunks.                                                                 *)

\* A set of numbers is finite, and below each of them there are so many.
LEMMA BelowFinite ==
    ASSUME NEW N \in Nat, NEW D \in SUBSET (0..N), NEW b
    PROVE  /\ IsFiniteSet(D) /\ IsFiniteSet({x \in D : x < b})
           /\ Cardinality(D) \in Nat /\ Cardinality({x \in D : x < b}) \in Nat
<1>1. IsFiniteSet(0..N)
  BY FS_Interval
<1>2. IsFiniteSet(D)
  BY <1>1, FS_Subset
<1>3. IsFiniteSet({x \in D : x < b})
  BY <1>2, FS_Subset
<1>4. QED BY <1>2, <1>3, FS_CardinalityType

\* Counting on from one number over a stretch without gaps.
LEMMA BelowAdds ==
    ASSUME NEW N \in Nat, NEW D \in SUBSET (0..N), NEW a \in Nat, NEW b \in Nat, a <= b,
           \A x \in a..b : x < b => x \in D
    PROVE  Cardinality({x \in D : x < b}) = Cardinality({x \in D : x < a}) + (b - a)
<1> DEFINE A == {x \in D : x < a}
           I == a..(b - 1)
           B == {x \in D : x < b}
<1>1. D \subseteq Nat
  OBVIOUS
<1>2. B = A \cup I /\ A \cap I = {}
  <2>1. \A x \in Nat : x \in I <=> a <= x /\ x < b
    OBVIOUS
  <2>2. I \subseteq Nat
    OBVIOUS
  <2>3. \A x \in I : x \in D
    BY <2>1, <2>2
  <2>4. ASSUME NEW x \in D PROVE x < b <=> x < a \/ x \in I
    <3>1. x \in Nat
      BY <1>1
    <3>2. QED BY <2>1, <3>1
  <2>5. \A x \in I : x < b /\ ~(x < a)
    BY <2>1, <2>2
  <2>6. A \cap I = {}
    BY <2>5
  <2>7. B \subseteq A \cup I
    BY <2>4
  <2>8. A \cup I \subseteq B
    BY <2>3, <2>4
  <2>9. QED BY <2>6, <2>7, <2>8
<1>3. IsFiniteSet(A) /\ Cardinality(A) \in Nat
  BY BelowFinite
<1>4. IsFiniteSet(I) /\ Cardinality(I) = b - a
  <2>1. a \in Int /\ b - 1 \in Int
    OBVIOUS
  <2>2. IsFiniteSet(I) /\ Cardinality(I) = IF a > b - 1 THEN 0 ELSE (b - 1) - a + 1
    BY <2>1, FS_Interval
  <2>3. QED BY <2>2
<1> HIDE DEF A, I, B
<1>5. Cardinality(A \cup I) = Cardinality(A) + Cardinality(I) - Cardinality(A \cap I)
  BY <1>3, <1>4, FS_Union
<1>6. Cardinality(A \cap I) = 0
  BY <1>2, FS_EmptySet
<1> DEFINE k == Cardinality(A)
<1>7. k \in Nat /\ Cardinality(B) = k + (b - a) - 0
  BY <1>2, <1>3, <1>4, <1>5, <1>6
<1> HIDE DEF k
<1>8. Cardinality(B) = k + (b - a)
  BY <1>7
<1>9. QED BY <1>8 DEF k, A, B

\* Below an element of a set there are fewer than the set has.
LEMMA BelowLess ==
    ASSUME NEW N \in Nat, NEW D \in SUBSET (0..N), NEW b \in D
    PROVE  Cardinality({x \in D : x < b}) < Cardinality(D)
<1> DEFINE B == {x \in D : x < b}
<1>1. B \in SUBSET D /\ B # D
  OBVIOUS
<1>2. IsFiniteSet(D) /\ Cardinality(D) \in Nat /\ Cardinality(B) \in Nat
  BY BelowFinite
<1> HIDE DEF B
<1>3. Cardinality(B) <= Cardinality(D) /\ (Cardinality(D) = Cardinality(B) => D = B)
  BY <1>1, <1>2, FS_Subset
<1>4. Cardinality(B) < Cardinality(D)
  BY <1>1, <1>2, <1>3
<1>5. QED BY <1>4 DEF B

\* Every position of a set is taken.
LEMMA Positions ==
    ASSUME NEW N \in Nat, NEW D \in SUBSET (0..N), NEW p \in Nat, p < Cardinality(D)
    PROVE  \E b \in D : Cardinality({x \in D : x < b}) = p
<1> DEFINE pos(b) == Cardinality({x \in D : x < b})
           Bad == {q \in Nat : q < Cardinality(D) /\ ~\E b \in D : pos(b) = q}
           q == Min(Bad)
<1>0. D \subseteq Nat /\ IsFiniteSet(D) /\ Cardinality(D) \in Nat
  <2>1. D \subseteq Nat
    OBVIOUS
  <2>2. IsFiniteSet(D) /\ Cardinality(D) \in Nat
    BY BelowFinite
  <2>3. QED BY <2>1, <2>2
<1>1. SUFFICES ASSUME Bad # {} PROVE FALSE
  OBVIOUS
<1>2. q \in Bad /\ \A y \in Bad : q <= y
  <2>1. Bad \in SUBSET Nat
    OBVIOUS
  <2> HIDE DEF Bad
  <2>2. QED BY <1>1, <2>1, LeastNumber
<1> HIDE DEF q
<1>3. q \in Nat /\ q < Cardinality(D) /\ \A b \in D : pos(b) # q
  BY <1>2
<1>4. D # {}
  BY <1>0, <1>3, FS_EmptySet
<1>5. CASE q = 0
  <2>1. Min(D) \in D /\ \A y \in D : Min(D) <= y
    BY <1>0, <1>4, LeastNumber
  <2>2. {x \in D : x < Min(D)} = {}
    <3>1. ASSUME NEW x \in D, x < Min(D) PROVE FALSE
      <4> DEFINE z == Min(D)
      <4>1. z \in Nat /\ x \in Nat /\ z <= x /\ x < z
        BY <1>0, <2>1, <3>1
      <4> HIDE DEF z
      <4>2. QED BY <4>1
    <3>2. QED BY <3>1
  <2>3. pos(Min(D)) = 0
    BY <2>2, FS_EmptySet
  <2>4. QED BY <1>3, <1>5, <2>1, <2>3
<1>6. CASE q > 0
  <2>1. q - 1 \in Nat /\ q - 1 < Cardinality(D) /\ ~(q <= q - 1)
    BY <1>0, <1>3, <1>6
  <2>2. PICK b \in D : pos(b) = q - 1
    BY <1>2, <2>1
  <2> DEFINE B == {x \in D : x < b}
             H == {x \in D : x > b}
             c == Min(H)
  <2>3. IsFiniteSet(B) /\ b \notin B /\ Cardinality(B) = q - 1
    <3>1. IsFiniteSet(B)
      BY BelowFinite
    <3>2. QED BY <1>0, <2>2, <3>1
  <2>4. Cardinality(B \cup {b}) = q
    <3> HIDE DEF B
    <3>1. Cardinality(B \cup {b}) = IF b \in B THEN Cardinality(B) ELSE Cardinality(B) + 1
      BY <2>3, FS_AddElement
    <3>2. QED BY <1>3, <2>3, <3>1
  <2>5. H # {}
    <3>1. \A x \in D : x \in B \/ x = b \/ x \in H
      BY <1>0
    <3>2. B \cup {b} \subseteq D
      OBVIOUS
    <3>3. H = {} => D = B \cup {b}
      BY <3>1, <3>2
    <3>4. QED BY <1>0, <1>3, <2>4, <3>3
  <2>6. c \in H /\ \A y \in H : c <= y
    <3>1. H \in SUBSET Nat
      BY <1>0
    <3> HIDE DEF H
    <3>2. QED BY <2>5, <3>1, LeastNumber
  <2> HIDE DEF c
  <2>7. c \in D /\ c > b
    BY <2>6
  <2>8. {x \in D : x < c} = B \cup {b}
    <3>1. ASSUME NEW x \in D, x < c PROVE x \in B \cup {b}
      <4>1. x \notin H
        BY <1>0, <2>6, <2>7, <3>1
      <4>2. QED BY <1>0, <4>1
    <3>2. ASSUME NEW x \in B \cup {b} PROVE x \in D /\ x < c
      BY <1>0, <2>7, <3>2
    <3> HIDE DEF B
    <3>3. QED BY <3>1, <3>2
  <2>9. pos(c) = q
    BY <2>4, <2>8
  <2>10. QED BY <1>3, <2>7, <2>9
<1>7. QED BY <1>3, <1>5, <1>6

\* The first run of what is left of a chunk: blocks without a gap.
LEMMA FirstRunIs ==
    ASSUME NEW N \in Nat, NEW todo, DOMAIN todo \in SUBSET (0..N), DOMAIN todo # {}
    PROVE  \E a \in Nat, z \in Nat :
              /\ a <= z /\ FirstRun(todo) = a..z /\ a..z \subseteq DOMAIN todo
              /\ a = Min(DOMAIN todo) /\ a = Min(FirstRun(todo))
              /\ Cardinality(FirstRun(todo)) = (z - a) + 1
<1> DEFINE D == DOMAIN todo
           a == Min(D)
           R == {b \in D : a..b \subseteq D}
<1>1. D \in SUBSET Nat /\ D # {}
  OBVIOUS
<1>2. a \in D /\ \A y \in D : a <= y
  <2> HIDE DEF D
  <2>1. QED BY <1>1, LeastNumber
<1>3. FirstRun(todo) = R
  BY DEF FirstRun
<1> HIDE DEF a
<1>4. a \in Nat
  BY <1>1, <1>2
<1>5. a..a \subseteq D
  BY <1>2, <1>4
<1>6. a \in R /\ R \in SUBSET (0..N)
  BY <1>2, <1>5
<1>7. PICK z \in R : \A y \in R : y <= z
  <2> HIDE DEF R
  <2>1. QED BY <1>6, GreatestNumber
<1>8. z \in Nat /\ a <= z /\ a..z \subseteq D
  BY <1>1, <1>2, <1>7
<1>9. R = a..z
  <2>1. ASSUME NEW x \in a..z PROVE x \in R
    <3>1. x \in D
      BY <1>8
    <3>2. a..x \subseteq a..z
      BY <1>4, <1>8, <2>1
    <3>3. QED BY <1>8, <3>1, <3>2
  <2>2. ASSUME NEW x \in R PROVE x \in a..z
    BY <1>1, <1>2, <1>4, <1>7, <1>8, <2>2
  <2> HIDE DEF R
  <2>3. QED BY <2>1, <2>2
<1>10. Min(R) = a
  <2>1. R \in SUBSET Nat /\ R # {} /\ a \in R /\ \A y \in R : a <= y
    BY <1>4, <1>6, <1>8, <1>9
  <2> HIDE DEF R
  <2> DEFINE x == Min(R)
  <2>2. x \in R /\ \A y \in R : x <= y
    BY <2>1, LeastNumber
  <2> HIDE DEF x
  <2>3. x = a
    BY <1>4, <2>1, <2>2
  <2>4. QED BY <2>3 DEF x
<1>11. Cardinality(R) = (z - a) + 1
  <2>1. a \in Int /\ z \in Int
    BY <1>4, <1>8
  <2>2. Cardinality(a..z) = IF a > z THEN 0 ELSE z - a + 1
    BY <2>1, FS_Interval
  <2> DEFINE k == Cardinality(a..z)
  <2>3. k = IF a > z THEN 0 ELSE z - a + 1
    BY <2>2
  <2> HIDE DEF k
  <2>4. k = (z - a) + 1
    BY <1>4, <1>8, <2>3
  <2>5. QED BY <1>9, <2>4 DEF k
<1>12. QED BY <1>3, <1>4, <1>8, <1>9, <1>10, <1>11 DEF a

\* How many blocks of a chunk come before a block.
Position(D, b) == Cardinality({x \in D : x < b})

\* n is an entry for a run of what is left of a chunk: it covers the run, and
\* each block has the SeqNum and the position the chunk has it under.
IsEntry(n, run, chunk, todo, id, N) ==
    /\ IsExtent(n) /\ End(n) <= N + 1 /\ n.obj = id
    /\ run \subseteq DOMAIN todo /\ n.start \in run
    /\ n.seqs[1] = chunk[n.start]
    /\ \A b \in Nat : Covers(n, b) <=> b \in run
    /\ \A b \in run : /\ SeqNumAt(n, b) = chunk[b]
                      /\ OffsetAt(n, b) = Position(DOMAIN chunk, b)

\* The entry createChunkFile builds for a run is one.
LEMMA RunEntryIs ==
    ASSUME NEW N \in Nat, NEW chunk, DOMAIN chunk \in SUBSET (0..N),
           \A b \in DOMAIN chunk : chunk[b] \in Nat,
           NEW todo, DOMAIN todo \subseteq DOMAIN chunk, DOMAIN todo # {}, NEW id \in Nat,
           NEW run, run = FirstRun(todo), NEW n, n = RunEntry(chunk, run, id)
    PROVE  IsEntry(n, run, chunk, todo, id, N)
<1> DEFINE D == DOMAIN chunk
<1>1. D \subseteq Nat
  OBVIOUS
<1>2. PICK a \in Nat, z \in Nat :
              /\ a <= z /\ run = a..z /\ a..z \subseteq DOMAIN todo
              /\ a = Min(run) /\ Cardinality(run) = (z - a) + 1
  <2>1. DOMAIN todo \in SUBSET (0..N)
    OBVIOUS
  <2>2. QED BY <2>1, FirstRunIs
<1> DEFINE k == (z - a) + 1
           q == [i \in 1..k |-> chunk[(a + i) - 1]]
           off == Cardinality({b \in D : b < a})
<1>3. n = [start |-> a, obj |-> id, off |-> off, seqs |-> q]
  BY <1>2 DEF RunEntry
<1>4. k \in Nat /\ k > 0 /\ a + k = z + 1
  BY <1>2
<1>5. \A i \in 1..k : (a + i) - 1 \in a..z
  BY <1>2
<1>6. q \in [1..k -> Nat]
  BY <1>2, <1>5
<1>7. q \in Seq(Nat) /\ Len(q) = k
  <2> HIDE DEF q, k
  <2>1. QED BY <1>4, <1>6, SequenceOf
<1>8. \A i \in 1..k : q[i] = chunk[(a + i) - 1]
  OBVIOUS
<1>9. off \in Nat
  BY BelowFinite
<1> HIDE DEF q, k, off
<1>10. n.start = a /\ n.obj = id /\ n.off = off /\ n.seqs = q
  BY <1>3
<1>11. n \in [start : Nat, obj : Nat, off : Nat, seqs : Seq(Nat)]
  BY <1>3, <1>7, <1>9
<1>12. IsExtent(n)
  BY <1>4, <1>7, <1>10, <1>11 DEF IsExtent
<1>13. End(n) = z + 1
  BY <1>4, <1>7, <1>10 DEF End
<1>14. z <= N
  <2>1. z \in DOMAIN todo
    BY <1>2
  <2>2. QED BY <2>1
<1>15. \A b \in Nat : Covers(n, b) <=> b \in run
  BY <1>2, <1>10, <1>13 DEF Covers
<1>16. ASSUME NEW b \in run
       PROVE  SeqNumAt(n, b) = chunk[b] /\ OffsetAt(n, b) = Position(D, b)
  <2>1. b \in Nat /\ a <= b /\ b <= z
    BY <1>2
  <2>2. (b - a) + 1 \in 1..k /\ (a + ((b - a) + 1)) - 1 = b
    BY <1>2, <2>1 DEF k
  <2>3. SeqNumAt(n, b) = chunk[b]
    BY <1>8, <1>10, <2>2 DEF SeqNumAt
  <2>4. \A x \in a..b : x < b => x \in D
    BY <1>2, <2>1
  <2>5. Position(D, b) = off + (b - a)
    BY <2>1, <2>4, BelowAdds DEF off, Position
  <2>6. QED BY <1>10, <2>3, <2>5 DEF OffsetAt
<1>17. n.seqs[1] = chunk[n.start]
  <2>1. 1 \in 1..k /\ (a + 1) - 1 = a
    BY <1>4
  <2>2. QED BY <1>8, <1>10, <2>1
<1>18. run \subseteq DOMAIN todo /\ n.start \in run /\ End(n) <= N + 1
  BY <1>2, <1>10, <1>13, <1>14
<1>19. QED BY <1>10, <1>12, <1>15, <1>16, <1>17, <1>18 DEF IsEntry

\* The counts taken over a loaded map are exact (parseBlockCheckpoint).
LEMMA TallyExact ==
    ASSUME NEW m
    PROVE  \A o \in Nat : RefCount(Tally(m), o) = CountOf(m, o)
<1> TAKE o \in Nat
<1>1. CASE o \in {e.obj : e \in m}
  BY <1>1 DEF RefCount, Tally
<1>2. CASE o \notin {e.obj : e \in m}
  <2>1. {e \in m : e.obj = o} = {}
    BY <1>2
  <2>2. CountOf(m, o) = 0
    BY <2>1, FS_EmptySet DEF CountOf
  <2>3. QED BY <1>2, <2>2 DEF RefCount, Tally
<1>3. QED BY <1>1, <1>2

=============================================================================
