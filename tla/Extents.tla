------------------------------ MODULE Extents ------------------------------
(***************************************************************************)
(* The extent arithmetic behind BlocksToObject: a run of consecutive       *)
(* blocks that lie one after another in one chunk object is one entry.     *)
(* An extent is [start, seqs, obj, off]: the run's first block, one SeqNum *)
(* per block (the entry's own SeqNum is seqs[1]), the chunk's ObjectID and *)
(* the position of the first block in the chunk, counted in strides.  The  *)
(* Go map keyed by StartBlock is the set of its entries.                   *)
(***************************************************************************)
EXTENDS Naturals, Sequences, FiniteSets, FiniteSetsExt

\* A Go map after m[x] = v.
With(m, x, v) == [y \in DOMAIN m \cup {x} |-> IF y = x THEN v ELSE m[y]]

End(e) == e.start + Len(e.seqs)
Covers(e, b) == e.start <= b /\ b < End(e)
SeqNumAt(e, b) == e.seqs[(b - e.start) + 1]
OffsetAt(e, b) == e.off + (b - e.start)

\* resolveBlockLookup: the entry that covers a block, if any.
Mapped(m, b) == \E e \in m : Covers(e, b)
Resolve(m, b) == CHOOSE e \in m : Covers(e, b)

Overlaps(e, n) == e.start < End(n) /\ n.start < End(e)

\* What is left of e once n has been written over part of it.
HeadOf(e, n) ==
    IF e.start < n.start
    THEN {[e EXCEPT !.seqs = SubSeq(e.seqs, 1, n.start - e.start)]}
    ELSE {}

\* Mutant: the tail keeps the offset of the entry it was cut from.
TailKeepsOffset(e, n) ==
    IF End(n) < End(e)
    THEN {[start |-> End(n), obj |-> e.obj, off |-> e.off,
           seqs  |-> SubSeq(e.seqs, (End(n) - e.start) + 1, Len(e.seqs))]}
    ELSE {}

TailOf(e, n) ==
    IF End(n) < End(e)
    THEN {[start |-> End(n), obj |-> e.obj, off |-> OffsetAt(e, End(n)),
           seqs  |-> SubSeq(e.seqs, (End(n) - e.start) + 1, Len(e.seqs))]}
    ELSE {}

Fragments(m, n) ==
    UNION {HeadOf(e, n) \cup TailOf(e, n) : e \in {x \in m : Overlaps(x, n)}}

\* Mutant: the entry replaces the one with its key and no other.
InsertByKey(m, n) == {e \in m : e.start # n.start} \cup {n}

\* insertCoalescedLocked: the map ...
Insert(m, n) == {e \in m : ~Overlaps(e, n)} \cup Fragments(m, n) \cup {n}

\* ... and the reference counts of the chunks, one per entry.  A count that
\* is missing reads as zero and one that is zero stays zero.
CountOf(s, o) == Cardinality({e \in s : e.obj = o})
RefCount(refs, o) == IF o \in DOMAIN refs THEN refs[o] ELSE 0

\* Mutant: a fractured entry drops its chunk's count by exactly one.
InsertRefsDropOne(refs, m, n) ==
    [o \in DOMAIN refs \cup {n.obj} |->
        LET gone == CountOf({e \in m : Overlaps(e, n)}, o)
            kept == IF RefCount(refs, o) > gone THEN RefCount(refs, o) - gone ELSE 0
        IN  kept + CountOf({n}, o)]

InsertRefs(refs, m, n) ==
    [o \in DOMAIN refs \cup {n.obj} \cup {e.obj : e \in Fragments(m, n)} |->
        LET gone == CountOf({e \in m : Overlaps(e, n)}, o)
            kept == IF RefCount(refs, o) > gone THEN RefCount(refs, o) - gone ELSE 0
        IN  kept + CountOf(Fragments(m, n) \cup {n}, o)]

-----------------------------------------------------------------------------
(* The wire format of a checkpoint: one record per block.                  *)

MappedBlocks(m) == UNION {e.start .. (End(e) - 1) : e \in m}

\* expandBlockLookup over the whole map.
Expand(m) ==
    [b \in MappedBlocks(m) |->
        LET e == Resolve(m, b)
        IN  [obj |-> e.obj, off |-> OffsetAt(e, b), seq |-> SeqNumAt(e, b)]]

\* Mutant: two records are joined although they lie in different chunks.
ContinuesAcrossChunks(flat, a, b) == b = a + 1 /\ flat[b].off = flat[a].off + 1

\* The adjacency test of coalesceBlockLookup.
Continues(flat, a, b) ==
    b = a + 1 /\ flat[b].obj = flat[a].obj /\ flat[b].off = flat[a].off + 1

\* coalesceBlockLookup: one entry per maximal run of records.
Coalesce(flat) ==
    LET D       == DOMAIN flat
        Starts  == {b \in D : ~\E a \in D : Continues(flat, a, b)}
        Last(b) == Min({c \in D : c >= b /\ ~\E d \in D : Continues(flat, c, d)})
        Run(b)  == [start |-> b, obj |-> flat[b].obj, off |-> flat[b].off,
                    seqs  |-> [i \in 1..((Last(b) - b) + 1) |-> flat[(b + i) - 1].seq]]
    IN  {Run(b) : b \in Starts}

\* The counts parseBlockCheckpoint tallies over the coalesced entries.
Tally(m) == [o \in {e.obj : e \in m} |-> CountOf(m, o)]

-----------------------------------------------------------------------------
(* A chunk object: matchedBlocks, sorted by block, as a function from      *)
(* block number to SeqNum.                                                 *)

\* The blocks of `todo' from its first one up to the first gap.
FirstRun(todo) ==
    LET a == Min(DOMAIN todo)
    IN  {b \in DOMAIN todo : a..b \subseteq DOMAIN todo}

\* The entry createChunkFile builds for a run of the chunk.
RunEntry(chunk, run, id) ==
    LET a == Min(run)
    IN  [start |-> a, obj |-> id,
         off   |-> Cardinality({b \in DOMAIN chunk : b < a}),
         seqs  |-> [i \in 1..Cardinality(run) |-> chunk[(a + i) - 1]]]

\* Mutant: no stale-drain guard.
StaleNever(m, n) == FALSE

\* The stale-drain guard, as the code has it: the run's first SeqNum against
\* the first SeqNum of the entry that covers the run's first block.
Stale(m, n) == Mapped(m, n.start) /\ Resolve(m, n.start).seqs[1] >= n.seqs[1]

\* The runs of a chunk applied to the map in ascending order, for a caller
\* that lets nobody look at the map in between.
RunStarts(chunk) == {b \in DOMAIN chunk : ~\E a \in DOMAIN chunk : b = a + 1}
ApplyChunk(m, chunk, id) ==
    LET entry(a) == RunEntry(chunk, FirstRun([b \in {x \in DOMAIN chunk : x >= a} |-> chunk[b]]), id)
        apply(n, acc) == IF Stale(acc, n) THEN acc ELSE Insert(acc, n)
    IN  MapThenFoldSet(apply, m, entry, Max, RunStarts(chunk))
=============================================================================
