--------------------------- MODULE ChunkGCProofs ---------------------------
(***************************************************************************)
(* The sweep of module ChunkGC, for every set of blocks and every bound:   *)
(* it spares what the map, the checkpoint the next open loads, the         *)
(* fallback checkpoint and the snapshots refer to, and no ObjectID they    *)
(* refer to is handed out again.                                           *)
(*                                                                         *)
(* The argument for the candidates: they have no entry when they are       *)
(* collected, and an entry made later names an older candidate only if its *)
(* insert was pending then (raced).  The live checkpoint the sweep began   *)
(* with differs from the map by what was replaced since (beside).          *)
(***************************************************************************)
EXTENDS ChunkGC, FiniteSetTheorems, WellFoundedInduction, TLAPS

EntryMap == [Blocks -> Nat]
SnapRec  == [map : EntryMap, gap : BOOLEAN, saved : BOOLEAN]
Pending  == [id : Nat, blocks : SUBSET Blocks]

\* The last ObjectID that can be in use, plus one.
Limit == MaxObj + Cardinality(Blocks) + 1

BackendTypes ==
    /\ objects \subseteq Nat /\ live \subseteq EntryMap
    /\ DOMAIN numbered \subseteq Nat /\ \A w \in DOMAIN numbered : numbered[w] \in EntryMap
    /\ config \in [wall : Nat, obj : Nat \ {0}] /\ marker \in Nat /\ snaps \subseteq SnapRec
EngineTypes ==
    /\ phase \in {"down", "recover", "serving", "closing"}
    /\ lookup \in EntryMap /\ todo \subseteq Blocks /\ wal \subseteq Blocks
    /\ objNum \in Nat \ {0} /\ wall \in Nat /\ counted \subseteq Nat /\ dirty \in BOOLEAN
    /\ drain \in {"free", "bg", "gc", "snap", "close", "recover"}
    /\ jobs \subseteq SUBSET Blocks /\ inflight \subseteq Pending /\ failed \in BOOLEAN
SweepTypes ==
    /\ gc \in {"idle", "drain", "check", "scan", "list", "merge", "floor", "collect",
               "marker", "delete"}
    /\ seen \in Nat /\ listed \subseteq Nat /\ cand \subseteq Nat /\ mark \in Nat
    /\ latched \in BOOLEAN /\ scan \in {"unknown", "safe", "unsafe"} /\ baseline \in Nat
    /\ reconciled \in BOOLEAN /\ floor \in 0..NotReady
SnapTypes ==
    /\ sp \in {"idle", "loaded", "marked", "draining", "drained", "frozen"}
    /\ skind \in {"own", "daemon"} /\ smap \in EntryMap
    /\ sgap \in BOOLEAN /\ ssaved \in BOOLEAN

\* Who holds drainMu, what a sweep and a snapshot of the engine wait for, and
\* what an engine that does not serve remembers.
Phases ==
    /\ drain = "free" => jobs = {} /\ inflight = {}
    /\ drain = "gc" <=> gc = "drain"
    /\ drain = "close" => gc = "idle" /\ phase = "closing"
    /\ drain \in {"bg", "gc", "snap"} => phase = "serving"
    /\ drain = "recover" <=> phase = "recover"
    /\ phase = "down" => drain = "free" /\ todo = {}
    /\ phase \in {"down", "recover"} =>
          gc = "idle" /\ floor = NotReady /\ scan = "unknown" /\ baseline = 0
    /\ drain = "snap" <=> sp = "draining"
    /\ sp \in {"marked", "draining", "drained"} => skind = "own"
    /\ sp = "loaded" => skind = "daemon"
    /\ sp # "idle" /\ skind = "own" => phase = "serving" /\ latched

\* The chunks of a drain are disjoint.
Disjoint ==
    /\ \A j \in jobs : j # {}
    /\ \A j, k \in jobs : j # k => j \cap k = {}
    /\ \A c \in inflight : \A j \in jobs : c.blocks \cap j = {}
    /\ \A c, d \in inflight : c # d => c.blocks \cap d.blocks = {}

\* There is an ObjectID for every chunk that is left.
Counts == objNum + Cardinality(todo) + Cardinality(UNION jobs) <= Limit

\* The ids of the checkpoints are in use.
InBounds ==
    /\ \A w \in DOMAIN numbered : \A b \in Blocks : numbered[w][b] < Limit
    /\ \A m \in live : \A b \in Blocks : m[b] < Limit

\* The ids of the map and of pending inserts are below ObjectNum, an insert
\* replaces older ids, and the map is never behind the checkpoint.
Ids ==
    phase # "down" =>
        /\ config.obj <= objNum
        /\ \A b \in Blocks : lookup[b] < objNum /\ Loaded[b] <= lookup[b]
        /\ \A c \in inflight : /\ 0 < c.id /\ c.id < objNum
                               /\ \A b \in c.blocks : lookup[b] < c.id

\* The next open's ObjectNum is above an id.
Below(id) == id < config.obj \/ \E b \in Blocks : id <= Loaded[b]

SavedBelow ==
    /\ \A s \in snaps : s.saved => \A b \in Blocks : Below(s.map[b])
    /\ sp \in {"loaded", "frozen"} /\ ssaved => \A b \in Blocks : Below(smap[b])

\* A map that is not dirty is the checkpoint's; what a sweep finds replaced in
\* it since its own drain is in beside.
Clean ==
    /\ phase # "down" /\ ~dirty => Loaded = lookup
    /\ gc \notin {"idle", "drain"} => Named(Loaded) \subseteq Named(lookup) \cup beside

\* The floor as the backend has it.
FloorNow == IF wall \in DOMAIN numbered THEN FloorOf(numbered[wall]) ELSE 0

PendingIds == {c.id : c \in inflight}

Candidates ==
    /\ gc \notin {"marker", "delete"} => cand = {}
    /\ floor # NotReady => floor = FloorNow
    /\ gc = "collect" => mark <= objNum /\ (mark # 0 => floor = FloorNow)
    /\ \A id \in cand : FloorNow <= id /\ id < objNum
    /\ cand \cap (Named(lookup) \cup PendingIds) \subseteq raced

\* A sweep past its snapshot check, with the marker where it was, beside no
\* snapshot but those in the window sgap marks.
Markers ==
    /\ gc = "scan" => seen <= marker
    /\ baseline <= marker
    /\ gc = "scan" /\ marker = seen =>
          sp \in {"idle", "loaded", "frozen"} /\ (sp = "frozen" => skind = "daemon")
    /\ gc \in {"list", "merge", "floor", "collect", "marker"} => scan = "safe"
    /\ scan = "safe" /\ marker = baseline =>
          /\ \A s \in snaps : s.gap
          /\ sp \in {"idle", "loaded", "frozen"} /\ (sp = "frozen" => sgap)

\* What is being deleted is in no snapshot.
DeleteSafe ==
    gc = "delete" =>
        /\ \A s \in snaps : ~s.gap => cand \cap Named(s.map) \subseteq raced \cup beside
        /\ sp \in {"loaded", "frozen"} /\ ~sgap => cand \cap Named(smap) \subseteq raced \cup beside

IInv ==
    /\ BackendTypes /\ EngineTypes /\ SweepTypes /\ SnapTypes
    /\ Phases /\ Disjoint /\ Counts /\ InBounds
    /\ Ids /\ SavedBelow /\ Clean /\ Candidates /\ Markers /\ DeleteSafe

\* What exists, or is accounted for.
Kept == objects \cup raced \cup beside

LiveKept == Named(lookup) \cup PendingIds \cup Named(Loaded) \subseteq Kept

SnapsKept ==
    /\ \A s \in snaps : ~s.gap => Named(s.map) \subseteq Kept
    /\ sp \in {"loaded", "frozen"} /\ ~sgap => Named(smap) \subseteq Kept

-----------------------------------------------------------------------------
(* The operators of the model.                                             *)

\* A bounded non-empty set of naturals has a greatest element, and Max is it:
\* the least of its upper bounds.
LEMMA MaxIsGreatest ==
    ASSUME NEW S \in SUBSET Nat, S # {}, NEW n \in Nat, \A x \in S : x <= n
    PROVE  Max(S) \in S /\ \A y \in S : y <= Max(S)
<1> DEFINE Upper == {u \in Nat : \A x \in S : x <= u}
<1>1. n \in Upper /\ Upper \in SUBSET Nat
  OBVIOUS
<1>2. PICK u \in Upper : \A y \in Upper : ~(<<y, u>> \in OpToRel(<, Nat))
  BY <1>1, NatLessThanWellFounded, WFMin
<1>3. \A y \in Upper : ~(y < u)
  BY <1>2 DEF OpToRel
<1>4. u \in S
  <2>1. SUFFICES ASSUME u \notin S PROVE FALSE
    OBVIOUS
  <2>2. PICK x \in S : TRUE
    OBVIOUS
  <2>3. u \in Nat /\ \A y \in S : y \in Nat /\ y <= u /\ y # u
    BY <2>1, <1>2
  <2>4. \A y \in S : y <= u - 1
    BY <2>3
  <2>5. u - 1 \in Upper /\ u - 1 < u
    BY <2>2, <2>3, <2>4
  <2>6. QED BY <2>5, <1>3
<1>5. \E m \in S : \A y \in S : m >= y
  BY <1>4, <1>2
<1>6. QED BY <1>5 DEF Max

\* The bounds are numbers.
LEMMA LimitType ==
    /\ IsFiniteSet(Blocks) /\ Cardinality(Blocks) \in Nat
    /\ Limit \in Nat /\ NotReady = Limit + 1 /\ MaxObj + Cardinality(Blocks) < Limit
BY GCAssumption, GCBoundAssumption, FS_CardinalityType DEF Limit, NotReady

\* The floor of a checkpoint is past every id it names, and a number the
\* floor "not ready" is not.
LEMMA FloorType ==
    ASSUME NEW m \in EntryMap, \A b \in Blocks : m[b] < Limit
    PROVE  /\ FloorOf(m) \in Nat /\ FloorOf(m) <= Limit
           /\ \A id \in Named(m) : id < FloorOf(m)
<1>1. Named(m) \in SUBSET Nat /\ \A id \in Named(m) : id < Limit
  BY DEF Named, EntryMap
<1>2. CASE Named(m) = {}
  BY <1>2, LimitType DEF FloorOf
<1>3. CASE Named(m) # {}
  <2>1. \A id \in Named(m) : id <= Limit
    BY <1>1, LimitType
  <2>2. Max(Named(m)) \in Named(m) /\ \A id \in Named(m) : id <= Max(Named(m))
    BY <1>1, <1>3, <2>1, LimitType, MaxIsGreatest
  <2>3. FloorOf(m) = Max(Named(m)) + 1
    BY <1>3 DEF FloorOf
  <2> HIDE DEF FloorOf
  <2>4. QED BY <1>1, <2>2, <2>3, LimitType
<1>4. QED BY <1>2, <1>3

\* The map an open finds is a map.
LEMMA LoadedType == BackendTypes => Loaded \in EntryMap
<1> SUFFICES ASSUME BackendTypes PROVE Loaded \in EntryMap
  OBVIOUS
<1>1. CASE live # {}
  BY <1>1 DEF BackendTypes, Loaded
<1>2. CASE live = {}
  BY <1>2 DEF BackendTypes, Loaded, EntryMap, Empty
<1>3. QED BY <1>1, <1>2

\* The ids of the map an open finds are in bounds.
LEMMA LoadedBound ==
    ASSUME BackendTypes, InBounds, NEW b \in Blocks
    PROVE  Loaded[b] <= Limit
<1>1. CASE live # {}
  <2>1. PICK m \in live : Loaded = m
    BY <1>1 DEF Loaded
  <2>2. m \in EntryMap /\ m[b] < Limit
    BY <2>1 DEF BackendTypes, InBounds
  <2>3. QED BY <2>1, <2>2, LimitType DEF EntryMap
<1>2. CASE live = {} /\ config.wall \in DOMAIN numbered
  <2>1. Loaded = numbered[config.wall]
    BY <1>2 DEF Loaded
  <2>2. numbered[config.wall] \in EntryMap /\ numbered[config.wall][b] < Limit
    BY <1>2 DEF BackendTypes, InBounds
  <2>3. QED BY <2>1, <2>2, LimitType DEF EntryMap
<1>3. CASE live = {} /\ config.wall \notin DOMAIN numbered
  BY <1>3, LimitType DEF Loaded, Empty
<1>4. QED BY <1>1, <1>2, <1>3

\* ObjectNum at an open is past config.json's and past every id of the map.
LEMMA NextObjectType ==
    ASSUME BackendTypes, InBounds
    PROVE  /\ NextObject \in Nat \ {0} /\ config.obj <= NextObject
           /\ \A b \in Blocks : Loaded[b] < NextObject
<1> DEFINE S == {config.obj} \cup {id + 1 : id \in Named(Loaded)}
           n == config.obj + Limit + 1
<1>1. Loaded \in EntryMap /\ config.obj \in Nat \ {0} /\ n \in Nat
  BY LoadedType, LimitType DEF BackendTypes
<1>2. \A b \in Blocks : Loaded[b] \in Nat /\ Loaded[b] <= Limit
  BY <1>1, LoadedBound DEF EntryMap
<1>3. \A id \in Named(Loaded) : id \in Nat /\ id <= Limit
  BY <1>2 DEF Named
<1>4. S \in SUBSET Nat /\ \A x \in S : x <= n
  BY <1>1, <1>3, LimitType
<1>5. config.obj \in S
  OBVIOUS
<1> HIDE DEF S, n
<1>6. Max(S) \in S /\ \A y \in S : y <= Max(S)
  BY <1>1, <1>4, <1>5, MaxIsGreatest
<1>7. NextObject = Max(S)
  BY DEF NextObject, S
<1>8. \A b \in Blocks : Loaded[b] # 0 => Loaded[b] + 1 \in S
  BY DEF S, Named
<1>9. NextObject \in Nat \ {0} /\ config.obj <= NextObject
  <2>1. config.obj <= NextObject
    BY <1>5, <1>6, <1>7
  <2>2. NextObject \in Nat
    BY <1>4, <1>6, <1>7
  <2>3. config.obj \in Nat /\ config.obj # 0
    BY <1>1
  <2> HIDE DEF NextObject
  <2>4. QED BY <2>1, <2>2, <2>3
<1>10. \A b \in Blocks : Loaded[b] # 0 => Loaded[b] + 1 <= NextObject
  BY <1>6, <1>7, <1>8
<1>11. QED BY <1>2, <1>9, <1>10

\* The chunks of a segment are not empty, disjoint, and hold its blocks.
LEMMA ChunkingsType ==
    ASSUME NEW D \in SUBSET Blocks, NEW J \in Chunkings(D)
    PROVE  /\ J \subseteq SUBSET Blocks /\ UNION J = D
           /\ \A j \in J : j # {}
           /\ \A j, k \in J : j # k => j \cap k = {}
<1>1. CASE D = {}
  BY <1>1 DEF Chunkings
<1>2. CASE D # {} /\ J = {D}
  BY <1>2
<1>3. CASE D # {} /\ J = {{b} : b \in D}
  <2>1. \A j \in J : \E b \in D : j = {b}
    BY <1>3
  <2>2. \A b \in D : {b} \in J
    BY <1>3
  <2>3. UNION J = D
    BY <2>1, <2>2
  <2>4. QED BY <2>1, <2>3
<1>4. QED BY <1>1, <1>2, <1>3 DEF Chunkings

\* The checkpoints SaveBlockState leaves.
LEMMA SavedNumberedIs ==
    /\ DOMAIN SavedNumbered = DOMAIN numbered \cup {wall}
    /\ SavedNumbered[wall] = lookup
    /\ \A w \in DOMAIN numbered : w # wall => SavedNumbered[w] = numbered[w]
BY DEF SavedNumbered

\* What a set of blocks has of its size when a part of it is gone.
LEMMA CardLess ==
    ASSUME NEW S \in SUBSET Blocks, NEW T \in SUBSET S, T # S
    PROVE  /\ Cardinality(S) \in Nat /\ Cardinality(T) \in Nat
           /\ Cardinality(T) + 1 <= Cardinality(S)
<1>1. IsFiniteSet(S)
  BY GCAssumption, FS_Subset
<1>2. IsFiniteSet(T) /\ Cardinality(T) <= Cardinality(S)
      /\ (Cardinality(S) = Cardinality(T) => S = T)
  BY <1>1, FS_Subset
<1>3. Cardinality(S) \in Nat /\ Cardinality(T) \in Nat
  BY <1>1, <1>2, FS_CardinalityType
<1>4. QED BY <1>2, <1>3

\* A set of blocks has a size, at most that of Blocks.
LEMMA CardType ==
    ASSUME NEW S \in SUBSET Blocks
    PROVE  Cardinality(S) \in Nat /\ Cardinality(S) <= Cardinality(Blocks)
           /\ Cardinality({}) = 0
<1>1. IsFiniteSet(S) /\ Cardinality(S) <= Cardinality(Blocks)
  BY GCAssumption, FS_Subset
<1>2. QED BY <1>1, FS_CardinalityType, FS_EmptySet

-----------------------------------------------------------------------------
(* Types.                                                                  *)

\* The backend keeps its types.
LEMMA BackendStep == IInv /\ [Next]_vars => BackendTypes'
<1> SUFFICES ASSUME IInv, [Next]_vars PROVE BackendTypes'
  OBVIOUS
<1>0. BackendTypes /\ EngineTypes /\ SnapTypes
  BY DEF IInv
<1> USE <1>0
<1>q. ASSUME UNCHANGED backendVars PROVE BackendTypes'
  BY <1>q DEF BackendTypes, backendVars
<1>c. SavedConfig \in [wall : Nat, obj : Nat \ {0}]
  BY DEF SavedConfig, EngineTypes
<1>n. DOMAIN SavedNumbered \subseteq Nat /\ \A w \in DOMAIN SavedNumbered : SavedNumbered[w] \in EntryMap
  BY SavedNumberedIs DEF BackendTypes, EngineTypes
<1>l. live \subseteq EntryMap /\ {lookup} \subseteq EntryMap
  BY DEF BackendTypes, EngineTypes
<1>1. ASSUME NEW b \in Blocks, Write(b) PROVE BackendTypes'
  BY <1>1, <1>q DEF Write, backendVars
<1>2. CASE StartDrain
  BY <1>2, <1>q DEF StartDrain, backendVars
<1>3. ASSUME NEW j \in jobs, Put(j) PROVE BackendTypes'
  BY <1>3 DEF Put, BackendTypes, EngineTypes
<1>4. CASE PutFails
  BY <1>4 DEF PutFails, BackendTypes, EngineTypes
<1>5. ASSUME NEW c \in inflight, InsertEntries(c) PROVE BackendTypes'
  BY <1>5, <1>q DEF InsertEntries, backendVars
<1>6. CASE EndDrain
  <2>1. live' \subseteq EntryMap
    BY <1>6, <1>l DEF EndDrain
  <2>2. QED BY <1>6, <2>1 DEF EndDrain, BackendTypes
<1>7. CASE GCTick
  BY <1>7, <1>q DEF GCTick, backendVars
<1>8. CASE SnapshotSafe
  BY <1>8, <1>q DEF SnapshotSafe, SweepOnly, backendVars
<1>9. CASE ScanForOwnSnapshots
  BY <1>9, <1>q DEF ScanForOwnSnapshots, backendVars
<1>10. CASE ListChunks
  BY <1>10, <1>q DEF ListChunks, SweepOnly, backendVars
<1>11. CASE MergeListed
  BY <1>11, <1>q DEF MergeListed, backendVars
<1>12. CASE EnsureGCFloor
  BY <1>12, <1>q DEF EnsureGCFloor, SweepOnly, backendVars
<1>13. CASE Collect
  BY <1>13, <1>q DEF Collect, backendVars
<1>14. CASE MarkerMoved
  BY <1>14, <1>q DEF MarkerMoved, backendVars
<1>15. CASE DeleteChunkObjects
  <2>1. objects' \subseteq objects
    BY <1>15 DEF DeleteChunkObjects
  <2>2. QED BY <1>15, <2>1 DEF DeleteChunkObjects, BackendTypes
<1>16. CASE BeginOwn
  BY <1>16 DEF BeginOwn, PutMarker, SnapOnly, BackendTypes
<1>17. CASE DrainForSnapshot
  BY <1>17, <1>q DEF DrainForSnapshot, backendVars
<1>18. CASE Freeze
  BY <1>18, <1>q DEF Freeze, SnapOnly, backendVars
<1>19. CASE DaemonLoads
  BY <1>19, <1>q DEF DaemonLoads, SnapOnly, backendVars
<1>20. CASE DaemonMarks
  BY <1>20 DEF DaemonMarks, PutMarker, SnapOnly, BackendTypes
<1>21. CASE FinishSnapshot
  <2>1. [map |-> smap, gap |-> sgap, saved |-> ssaved] \in SnapRec
    BY DEF SnapTypes, SnapRec
  <2>2. snaps' \subseteq SnapRec
    BY <1>21, <2>1 DEF FinishSnapshot, BackendTypes
  <2>3. QED BY <1>21, <2>2 DEF FinishSnapshot, SnapOnly, BackendTypes
<1>22. CASE Open
  BY <1>22, <1>q DEF Open, backendVars
<1>23. CASE EndRecovery
  <2>1. live' \subseteq EntryMap /\ config' \in {config, SavedConfig}
        /\ numbered' \in {numbered, SavedNumbered}
    BY <1>23, <1>l DEF EndRecovery, SaveFails
  <2>2. QED BY <1>23, <2>1, <1>c, <1>n DEF EndRecovery, BackendTypes
<1>24. CASE StartClose
  BY <1>24, <1>q DEF StartClose, backendVars
<1>25. CASE EndClose
  <2>1. live' \subseteq EntryMap /\ config' \in {config, SavedConfig}
        /\ numbered' \in {numbered, SavedNumbered}
    BY <1>25, <1>l DEF EndClose, SaveFails
  <2>2. QED BY <1>25, <2>1, <1>c, <1>n DEF EndClose, BackendTypes
<1>26. CASE Crash
  BY <1>26, <1>q DEF Crash, backendVars
<1>27. CASE UNCHANGED vars
  BY <1>27, <1>q DEF vars, backendVars
<1>28. QED BY <1>1, <1>2, <1>3, <1>4, <1>5, <1>6, <1>7, <1>8, <1>9, <1>10, <1>11, <1>12,
    <1>13, <1>14, <1>15, <1>16, <1>17, <1>18, <1>19, <1>20, <1>21, <1>22, <1>23, <1>24,
    <1>25, <1>26, <1>27 DEF Next, Drain, Sweep, Snapshot, Lifecycle

\* The engine and its drain keep their types.
LEMMA EngineStep == IInv /\ [Next]_vars => EngineTypes'
<1> SUFFICES ASSUME IInv, [Next]_vars PROVE EngineTypes'
  OBVIOUS
<1>0. BackendTypes /\ EngineTypes /\ InBounds
  BY DEF IInv
<1> USE <1>0
<1>q. ASSUME UNCHANGED <<engineVars, drainVars>> PROVE EngineTypes'
  BY <1>q DEF EngineTypes, engineVars, drainVars
<1>e. Empty \in EntryMap
  BY DEF Empty, EntryMap
<1>f. ASSUME Forget, phase' = "down", wal' \subseteq Blocks PROVE EngineTypes'
  <2>1. dirty' \in BOOLEAN /\ failed' \in BOOLEAN
    BY <1>f DEF Forget
  <2>2. QED BY <1>e, <1>f, <2>1 DEF Forget, EngineTypes
<1>r. ASSUME NEW who \in {"bg", "gc", "snap", "close"}, Rotate(who),
             phase' \in {phase, "closing"}
      PROVE  EngineTypes'
  <2>1. jobs' \subseteq SUBSET Blocks
    BY <1>r, ChunkingsType DEF Rotate, EngineTypes
  <2>2. QED BY <1>r, <2>1 DEF Rotate, EngineTypes
<1>1. ASSUME NEW b \in Blocks, Write(b) PROVE EngineTypes'
  BY <1>1 DEF Write, EngineTypes, drainVars
<1>2. CASE StartDrain
  BY <1>2, <1>r DEF StartDrain
<1>3. ASSUME NEW j \in jobs, Put(j) PROVE EngineTypes'
  <2>1. [id |-> objNum, blocks |-> j] \in Pending
    BY <1>3 DEF Put, EngineTypes, Pending
  <2>2. inflight' \subseteq Pending /\ jobs' \subseteq SUBSET Blocks /\ objNum' \in Nat \ {0}
    BY <1>3, <2>1 DEF Put, EngineTypes
  <2>3. QED BY <1>3, <2>2 DEF Put, EngineTypes
<1>4. CASE PutFails
  <2>1. CASE drain = "recover"
    BY <1>4, <2>1, <1>f DEF PutFails, EngineTypes
  <2>2. CASE drain # "recover"
    <3>1. dirty' \in BOOLEAN /\ failed' \in BOOLEAN
      BY <1>4, <2>2 DEF PutFails, EngineTypes
    <3>2. objNum' \in Nat \ {0} /\ jobs' = {}
      BY <1>4, <2>2 DEF PutFails, EngineTypes
    <3>3. UNCHANGED <<phase, lookup, todo, wal, wall, counted, drain, inflight>>
      BY <1>4, <2>2 DEF PutFails
    <3>4. QED BY <3>1, <3>2, <3>3 DEF EngineTypes
  <2>3. QED BY <2>1, <2>2
<1>5. ASSUME NEW c \in inflight, InsertEntries(c) PROVE EngineTypes'
  <2>1. c \in Pending /\ c.id \in Nat
    BY <1>5 DEF EngineTypes, Pending
  <2>2. lookup' \in EntryMap
    BY <1>5, <2>1 DEF InsertEntries, EngineTypes, EntryMap
  <2>3. QED BY <1>5, <2>1, <2>2 DEF InsertEntries, EngineTypes
<1>6. CASE EndDrain
  <2>1. dirty' \in BOOLEAN
    BY <1>6 DEF EndDrain, EngineTypes
  <2>2. QED BY <1>6, <2>1 DEF EndDrain, EngineTypes
<1>7. CASE GCTick
  BY <1>7, <1>r DEF GCTick
<1>8. CASE SnapshotSafe
  BY <1>8, <1>q DEF SnapshotSafe, SweepOnly, engineVars, drainVars
<1>9. CASE ScanForOwnSnapshots
  BY <1>9, <1>q DEF ScanForOwnSnapshots, engineVars, drainVars
<1>10. CASE ListChunks
  BY <1>10, <1>q DEF ListChunks, SweepOnly, engineVars, drainVars
<1>11. CASE MergeListed
  <2>1. listed \subseteq Nat
    BY DEF IInv, SweepTypes
  <2>2. QED BY <1>11, <2>1 DEF MergeListed, EngineTypes, drainVars
<1>12. CASE EnsureGCFloor
  BY <1>12, <1>q DEF EnsureGCFloor, SweepOnly, engineVars, drainVars
<1>13. CASE Collect
  BY <1>13, <1>q DEF Collect, engineVars, drainVars
<1>14. CASE MarkerMoved
  BY <1>14, <1>q DEF MarkerMoved, engineVars, drainVars
<1>15. CASE DeleteChunkObjects
  <2>1. counted' \subseteq counted
    BY <1>15 DEF DeleteChunkObjects
  <2>2. QED BY <1>15, <2>1 DEF DeleteChunkObjects, EngineTypes, drainVars
<1>16. CASE BeginOwn
  BY <1>16, <1>q DEF BeginOwn, SnapOnly, engineVars, drainVars
<1>17. CASE DrainForSnapshot
  BY <1>17, <1>r DEF DrainForSnapshot
<1>18. CASE Freeze
  BY <1>18, <1>q DEF Freeze, SnapOnly, engineVars, drainVars
<1>19. CASE DaemonLoads
  BY <1>19, <1>q DEF DaemonLoads, SnapOnly, engineVars, drainVars
<1>20. CASE DaemonMarks
  BY <1>20, <1>q DEF DaemonMarks, SnapOnly, engineVars, drainVars
<1>21. CASE FinishSnapshot
  BY <1>21, <1>q DEF FinishSnapshot, SnapOnly, engineVars, drainVars
<1>22. CASE Open
  <2>1. lookup' \in EntryMap /\ objNum' \in Nat \ {0}
    BY <1>22, LoadedType, NextObjectType DEF Open
  <2>2. counted' \subseteq Nat
    BY <1>22, LoadedType DEF Open, Named, EntryMap
  <2>3. wall' \in Nat
    BY <1>22 DEF Open, BackendTypes
  <2>4. jobs' \subseteq SUBSET Blocks
    BY <1>22, ChunkingsType DEF Open, EngineTypes
  <2>5. QED BY <1>22, <2>1, <2>2, <2>3, <2>4 DEF Open, EngineTypes
<1>23. CASE EndRecovery
  <2>1. CASE SaveFails
    BY <2>1, <1>f DEF SaveFails, EngineTypes
  <2>2. CASE ~SaveFails
    <3>1. dirty' \in BOOLEAN
      BY <1>23, <2>2 DEF EndRecovery, EngineTypes
    <3>2. wall' \in Nat
      BY <1>23, <2>2 DEF EndRecovery, EngineTypes
    <3>3. QED BY <1>23, <2>2, <3>1, <3>2 DEF EndRecovery, EngineTypes
  <2>3. QED BY <2>1, <2>2
<1>24. CASE StartClose
  BY <1>24, <1>r DEF StartClose
<1>25. CASE EndClose
  BY <1>25, <1>f DEF EndClose, SaveFails, EngineTypes
<1>26. CASE Crash
  BY <1>26, <1>f DEF Crash, EngineTypes
<1>27. CASE UNCHANGED vars
  BY <1>27, <1>q DEF vars, engineVars, drainVars
<1>28. QED BY <1>1, <1>2, <1>3, <1>4, <1>5, <1>6, <1>7, <1>8, <1>9, <1>10, <1>11, <1>12,
    <1>13, <1>14, <1>15, <1>16, <1>17, <1>18, <1>19, <1>20, <1>21, <1>22, <1>23, <1>24,
    <1>25, <1>26, <1>27 DEF Next, Drain, Sweep, Snapshot, Lifecycle

\* The sweep keeps its types.
LEMMA SweepStep == IInv /\ [Next]_vars => SweepTypes'
<1> SUFFICES ASSUME IInv, [Next]_vars PROVE SweepTypes'
  OBVIOUS
<1>0. BackendTypes /\ EngineTypes /\ SweepTypes /\ InBounds
  BY DEF IInv
<1> USE <1>0
<1>q. ASSUME UNCHANGED <<sweepVars, cacheVars>> PROVE SweepTypes'
  BY <1>q DEF SweepTypes, sweepVars, cacheVars
<1>f. ASSUME Forget PROVE SweepTypes'
  <2>1. latched' \in BOOLEAN /\ reconciled' \in BOOLEAN
    BY <1>f DEF Forget
  <2>2. floor' \in 0..NotReady
    BY <1>f, LimitType DEF Forget
  <2>3. QED BY <1>f, <2>1, <2>2 DEF Forget, SweepTypes
<1>g. ASSUME gc' \in {gc, "idle", "drain", "check"}, UNCHANGED <<seen, listed, cand, mark, cacheVars>>
      PROVE  SweepTypes'
  BY <1>g DEF SweepTypes, cacheVars
<1>1. ASSUME NEW b \in Blocks, Write(b) PROVE SweepTypes'
  BY <1>1, <1>q DEF Write, sweepVars, cacheVars
<1>2. CASE StartDrain
  BY <1>2, <1>q DEF StartDrain, sweepVars, cacheVars
<1>3. ASSUME NEW j \in jobs, Put(j) PROVE SweepTypes'
  BY <1>3, <1>q DEF Put, sweepVars, cacheVars
<1>4. CASE PutFails
  BY <1>4, <1>f, <1>q DEF PutFails
<1>5. ASSUME NEW c \in inflight, InsertEntries(c) PROVE SweepTypes'
  BY <1>5, <1>q DEF InsertEntries, sweepVars, cacheVars
<1>6. CASE EndDrain
  BY <1>6, <1>g DEF EndDrain, AfterDrain
<1>7. CASE GCTick
  BY <1>7, <1>g DEF GCTick
<1>8. CASE SnapshotSafe
  <2>1. gc' \in {"idle", "list", "scan"}
    BY <1>8 DEF SnapshotSafe, SweepTypes
  <2>2. seen' \in Nat
    BY <1>8 DEF SnapshotSafe, SweepTypes, BackendTypes
  <2>3. QED BY <1>8, <2>1, <2>2 DEF SnapshotSafe, SweepTypes, cacheVars
<1>9. CASE ScanForOwnSnapshots
  BY <1>9 DEF ScanForOwnSnapshots, SweepTypes
<1>10. CASE ListChunks
  BY <1>10 DEF ListChunks, SweepTypes, BackendTypes, cacheVars
<1>11. CASE MergeListed
  BY <1>11 DEF MergeListed, SweepTypes
<1>12. CASE EnsureGCFloor
  <2>1. FloorNow \in 0..NotReady
    <3>1. CASE wall \in DOMAIN numbered
      <4>1. numbered[wall] \in EntryMap /\ \A b \in Blocks : numbered[wall][b] < Limit
        BY <3>1 DEF BackendTypes, InBounds
      <4>2. QED BY <4>1, <3>1, FloorType, LimitType DEF FloorNow
    <3>2. QED BY <3>1, LimitType DEF FloorNow
  <2>2. floor' \in {floor, FloorNow} /\ mark' \in {0, objNum}
    BY <1>12 DEF EnsureGCFloor, FloorNow
  <2>3. floor' \in 0..NotReady /\ mark' \in Nat
    BY <2>1, <2>2 DEF SweepTypes, EngineTypes
  <2>4. QED BY <1>12, <2>3 DEF EnsureGCFloor, SweepTypes
<1>13. CASE Collect
  <2>1. cand' \subseteq Nat
    BY <1>13 DEF Collect, EngineTypes
  <2>2. QED BY <1>13, <2>1 DEF Collect, SweepTypes, cacheVars
<1>14. CASE MarkerMoved
  BY <1>14 DEF MarkerMoved, SweepTypes
<1>15. CASE DeleteChunkObjects
  <2>1. cand' \subseteq cand /\ gc' \in {gc, "idle"}
    BY <1>15 DEF DeleteChunkObjects
  <2>2. QED BY <1>15, <2>1 DEF DeleteChunkObjects, SweepTypes, cacheVars
<1>16. CASE BeginOwn
  BY <1>16 DEF BeginOwn, SnapOnly, SweepTypes, sweepVars
<1>17. CASE DrainForSnapshot
  BY <1>17, <1>q DEF DrainForSnapshot, sweepVars, cacheVars
<1>18. CASE Freeze
  BY <1>18, <1>q DEF Freeze, SnapOnly, sweepVars, cacheVars
<1>19. CASE DaemonLoads
  BY <1>19, <1>q DEF DaemonLoads, SnapOnly, sweepVars, cacheVars
<1>20. CASE DaemonMarks
  BY <1>20, <1>q DEF DaemonMarks, SnapOnly, sweepVars, cacheVars
<1>21. CASE FinishSnapshot
  BY <1>21, <1>q DEF FinishSnapshot, SnapOnly, sweepVars, cacheVars
<1>22. CASE Open
  BY <1>22, <1>q DEF Open, sweepVars, cacheVars
<1>23. CASE EndRecovery
  BY <1>23, <1>f, <1>q DEF EndRecovery, SaveFails
<1>24. CASE StartClose
  BY <1>24, <1>q DEF StartClose, sweepVars, cacheVars
<1>25. CASE EndClose
  BY <1>25, <1>f DEF EndClose, SaveFails
<1>26. CASE Crash
  BY <1>26, <1>f DEF Crash
<1>27. CASE UNCHANGED vars
  BY <1>27, <1>q DEF vars, sweepVars, cacheVars
<1>28. QED BY <1>1, <1>2, <1>3, <1>4, <1>5, <1>6, <1>7, <1>8, <1>9, <1>10, <1>11, <1>12,
    <1>13, <1>14, <1>15, <1>16, <1>17, <1>18, <1>19, <1>20, <1>21, <1>22, <1>23, <1>24,
    <1>25, <1>26, <1>27 DEF Next, Drain, Sweep, Snapshot, Lifecycle

\* The snapshot call keeps its types.
LEMMA SnapStep == IInv /\ [Next]_vars => SnapTypes'
<1> SUFFICES ASSUME IInv, [Next]_vars PROVE SnapTypes'
  OBVIOUS
<1>0. BackendTypes /\ EngineTypes /\ SnapTypes
  BY DEF IInv
<1> USE <1>0
<1>q. ASSUME UNCHANGED snapVars PROVE SnapTypes'
  BY <1>q DEF SnapTypes, snapVars
<1>1. ASSUME NEW b \in Blocks, Write(b) PROVE SnapTypes'
  BY <1>1, <1>q DEF Write, snapVars
<1>2. CASE StartDrain
  BY <1>2, <1>q DEF StartDrain, snapVars
<1>3. ASSUME NEW j \in jobs, Put(j) PROVE SnapTypes'
  BY <1>3, <1>q DEF Put, snapVars
<1>4. CASE PutFails
  BY <1>4, <1>q DEF PutFails, snapVars
<1>5. ASSUME NEW c \in inflight, InsertEntries(c) PROVE SnapTypes'
  BY <1>5, <1>q DEF InsertEntries, snapVars
<1>6. CASE EndDrain
  BY <1>6 DEF EndDrain, AfterDrain, SnapTypes
<1>7. CASE GCTick
  BY <1>7, <1>q DEF GCTick, snapVars
<1>8. CASE SnapshotSafe
  BY <1>8, <1>q DEF SnapshotSafe, SweepOnly, snapVars
<1>9. CASE ScanForOwnSnapshots
  <2>1. sgap' \in BOOLEAN
    BY <1>9 DEF ScanForOwnSnapshots, SnapTypes
  <2>2. QED BY <1>9, <2>1 DEF ScanForOwnSnapshots, SnapTypes
<1>10. CASE ListChunks
  BY <1>10, <1>q DEF ListChunks, SweepOnly, snapVars
<1>11. CASE MergeListed
  BY <1>11, <1>q DEF MergeListed, snapVars
<1>12. CASE EnsureGCFloor
  BY <1>12, <1>q DEF EnsureGCFloor, SweepOnly, snapVars
<1>13. CASE Collect
  BY <1>13, <1>q DEF Collect, snapVars
<1>14. CASE MarkerMoved
  <2>1. sgap' \in BOOLEAN
    BY <1>14 DEF MarkerMoved, SnapTypes
  <2>2. QED BY <1>14, <2>1 DEF MarkerMoved, SnapTypes
<1>15. CASE DeleteChunkObjects
  BY <1>15, <1>q DEF DeleteChunkObjects, snapVars
<1>16. CASE BeginOwn
  BY <1>16 DEF BeginOwn, PutMarker, SnapTypes
<1>17. CASE DrainForSnapshot
  BY <1>17 DEF DrainForSnapshot, SnapTypes
<1>18. CASE Freeze
  <2>1. ssaved' \in BOOLEAN
    BY <1>18 DEF Freeze
  <2>2. QED BY <1>18, <2>1 DEF Freeze, SnapTypes, EngineTypes
<1>19. CASE DaemonLoads
  <2>1. sgap' \in BOOLEAN /\ ssaved' \in BOOLEAN
    BY <1>19 DEF DaemonLoads
  <2>2. QED BY <1>19, <2>1, LoadedType DEF DaemonLoads, SnapTypes
<1>20. CASE DaemonMarks
  BY <1>20 DEF DaemonMarks, PutMarker, SnapTypes
<1>21. CASE FinishSnapshot
  <2>1. Empty \in EntryMap
    BY DEF Empty, EntryMap
  <2>2. QED BY <1>21, <2>1 DEF FinishSnapshot, SnapTypes
<1>22. CASE Open
  BY <1>22, <1>q DEF Open, snapVars
<1>23. CASE EndRecovery
  BY <1>23, <1>q DEF EndRecovery, snapVars
<1>24. CASE StartClose
  BY <1>24, <1>q DEF StartClose, snapVars
<1>25. CASE EndClose
  BY <1>25, <1>q DEF EndClose, snapVars
<1>26. CASE Crash
  BY <1>26 DEF Crash, SnapTypes
<1>27. CASE UNCHANGED vars
  BY <1>27, <1>q DEF vars, snapVars
<1>28. QED BY <1>1, <1>2, <1>3, <1>4, <1>5, <1>6, <1>7, <1>8, <1>9, <1>10, <1>11, <1>12,
    <1>13, <1>14, <1>15, <1>16, <1>17, <1>18, <1>19, <1>20, <1>21, <1>22, <1>23, <1>24,
    <1>25, <1>26, <1>27 DEF Next, Drain, Sweep, Snapshot, Lifecycle

\* Who holds what stays as it should be.
LEMMA PhasesStep == IInv /\ [Next]_vars => Phases'
<1> SUFFICES ASSUME IInv, [Next]_vars PROVE Phases'
  OBVIOUS
<1>0. EngineTypes /\ SweepTypes /\ SnapTypes /\ Phases
  BY DEF IInv
<1>t. /\ phase \in {"down", "recover", "serving", "closing"}
      /\ drain \in {"free", "bg", "gc", "snap", "close", "recover"}
      /\ gc \in {"idle", "drain", "check", "scan", "list", "merge", "floor", "collect",
                 "marker", "delete"}
      /\ sp \in {"idle", "loaded", "marked", "draining", "drained", "frozen"}
      /\ skind \in {"own", "daemon"} /\ baseline \in Nat
  BY <1>0 DEF EngineTypes, SweepTypes, SnapTypes
<1> USE <1>0, <1>t
<1>q. ASSUME UNCHANGED <<phase, todo, drain, jobs, inflight, gc, floor, scan, baseline, sp,
                         skind, latched>>
      PROVE  Phases'
  BY <1>q DEF Phases
<1>1. ASSUME NEW b \in Blocks, Write(b) PROVE Phases'
  BY <1>1 DEF Write, Phases, backendVars, drainVars, sweepVars, cacheVars, snapVars,
    histVars
<1>2. CASE StartDrain
  BY <1>2 DEF StartDrain, Rotate, Phases, backendVars, sweepVars, cacheVars, snapVars,
    histVars
<1>3. ASSUME NEW j \in jobs, Put(j) PROVE Phases'
  BY <1>3 DEF Put, Phases, sweepVars, cacheVars, snapVars, histVars
<1>4. CASE PutFails
  BY <1>4 DEF PutFails, Forget, Phases, sweepVars, cacheVars, snapVars, histVars
<1>5. ASSUME NEW c \in inflight, InsertEntries(c) PROVE Phases'
  BY <1>5 DEF InsertEntries, Phases, backendVars, sweepVars, cacheVars, snapVars
<1>6. CASE EndDrain
  BY <1>6 DEF EndDrain, AfterDrain, Phases, cacheVars, histVars
<1>7. CASE GCTick
  BY <1>7 DEF GCTick, Rotate, Phases, backendVars, cacheVars, snapVars, histVars
<1>8. CASE SnapshotSafe
  <2>1. gc' \in {"idle", "list", "scan"} /\ gc = "check"
    BY <1>8 DEF SnapshotSafe, SweepTypes
  <2>2. UNCHANGED <<phase, todo, drain, jobs, inflight, floor, scan, baseline, sp, skind, latched>>
    BY <1>8 DEF SnapshotSafe, SweepOnly, engineVars, drainVars, cacheVars, snapVars
  <2>3. QED BY <2>1, <2>2 DEF Phases
<1>9. CASE ScanForOwnSnapshots
  BY <1>9 DEF ScanForOwnSnapshots, Phases, backendVars, engineVars, drainVars, histVars
<1>10. CASE ListChunks
  BY <1>10 DEF ListChunks, SweepOnly, Phases, backendVars, engineVars, drainVars,
    cacheVars, snapVars, histVars
<1>11. CASE MergeListed
  BY <1>11 DEF MergeListed, Phases, backendVars, drainVars, snapVars, histVars
<1>12. CASE EnsureGCFloor
  BY <1>12 DEF EnsureGCFloor, SweepOnly, Phases, backendVars, engineVars, drainVars,
    snapVars, histVars
<1>13. CASE Collect
  BY <1>13 DEF Collect, Phases, backendVars, engineVars, drainVars, cacheVars, snapVars
<1>14. CASE MarkerMoved
  BY <1>14 DEF MarkerMoved, Phases, backendVars, engineVars, drainVars, histVars
<1>15. CASE DeleteChunkObjects
  BY <1>15 DEF DeleteChunkObjects, Phases, drainVars, cacheVars, snapVars, histVars
<1>16. CASE BeginOwn
  BY <1>16 DEF BeginOwn, SnapOnly, PutMarker, Phases, engineVars, drainVars, sweepVars,
    histVars
<1>17. CASE DrainForSnapshot
  BY <1>17 DEF DrainForSnapshot, Rotate, Phases, backendVars, sweepVars, cacheVars,
    histVars
<1>18. CASE Freeze
  BY <1>18 DEF Freeze, SnapOnly, Phases, engineVars, drainVars, sweepVars, histVars
<1>19. CASE DaemonLoads
  BY <1>19 DEF DaemonLoads, SnapOnly, Phases, engineVars, drainVars, sweepVars, histVars
<1>20. CASE DaemonMarks
  BY <1>20 DEF DaemonMarks, SnapOnly, PutMarker, Phases, engineVars, drainVars, sweepVars,
    histVars
<1>21. CASE FinishSnapshot
  BY <1>21 DEF FinishSnapshot, SnapOnly, Phases, engineVars, drainVars, sweepVars, histVars
<1>22. CASE Open
  BY <1>22 DEF Open, Phases, backendVars, sweepVars, cacheVars, snapVars, histVars
<1>23. CASE EndRecovery
  BY <1>23 DEF EndRecovery, SaveFails, Forget, Phases, sweepVars, cacheVars, snapVars,
    histVars
<1>24. CASE StartClose
  BY <1>24 DEF StartClose, Rotate, Phases, backendVars, sweepVars, cacheVars, snapVars,
    histVars
<1>25. CASE EndClose
  BY <1>25 DEF EndClose, SaveFails, Forget, Phases, snapVars, histVars
<1>26. CASE Crash
  BY <1>26 DEF Crash, Forget, Phases, backendVars, histVars
<1>27. CASE UNCHANGED vars
  BY <1>27, <1>q DEF vars, backendVars, engineVars, drainVars, sweepVars, cacheVars,
    snapVars, histVars
<1>28. QED BY <1>1, <1>2, <1>3, <1>4, <1>5, <1>6, <1>7, <1>8, <1>9, <1>10, <1>11, <1>12,
    <1>13, <1>14, <1>15, <1>16, <1>17, <1>18, <1>19, <1>20, <1>21, <1>22, <1>23, <1>24,
    <1>25, <1>26, <1>27 DEF Next, Drain, Sweep, Snapshot, Lifecycle

-----------------------------------------------------------------------------
(* ObjectIDs.                                                              *)

\* The chunks of a drain stay disjoint.
LEMMA DisjointStep == IInv /\ [Next]_vars => Disjoint'
<1> SUFFICES ASSUME IInv, [Next]_vars PROVE Disjoint'
  OBVIOUS
<1>0. EngineTypes /\ Phases /\ Disjoint
  BY DEF IInv
<1> USE <1>0
<1>q. ASSUME UNCHANGED <<jobs, inflight>> PROVE Disjoint'
  BY <1>q DEF Disjoint
<1>f. ASSUME Forget PROVE Disjoint'
  BY <1>f DEF Forget, Disjoint
<1>r. ASSUME NEW who, Rotate(who) PROVE Disjoint'
  <2>1. inflight' = {}
    BY <1>r DEF Rotate, Phases
  <2>2. /\ \A j \in jobs' : j # {}
        /\ \A j, k \in jobs' : j # k => j \cap k = {}
    BY <1>r, ChunkingsType DEF Rotate, EngineTypes
  <2>3. QED BY <2>1, <2>2 DEF Disjoint
<1>1. ASSUME NEW b \in Blocks, Write(b) PROVE Disjoint'
  BY <1>1, <1>q DEF Write, drainVars
<1>2. CASE StartDrain
  BY <1>2, <1>r DEF StartDrain
<1>3. ASSUME NEW j \in jobs, Put(j) PROVE Disjoint'
  <2>1. DEFINE n == [id |-> objNum, blocks |-> j]
  <2>2. n.blocks = j /\ inflight' = inflight \cup {n} /\ jobs' = jobs \ {j}
    BY <1>3 DEF Put
  <2> HIDE DEF n
  <2>3. QED BY <2>2 DEF Disjoint
<1>4. CASE PutFails
  BY <1>4, <1>f DEF PutFails, Disjoint
<1>5. ASSUME NEW c \in inflight, InsertEntries(c) PROVE Disjoint'
  BY <1>5 DEF InsertEntries, Disjoint
<1>6. CASE EndDrain
  BY <1>6, <1>q DEF EndDrain, drainVars
<1>7. CASE GCTick
  BY <1>7, <1>r DEF GCTick
<1>8. CASE SnapshotSafe
  BY <1>8, <1>q DEF SnapshotSafe, SweepOnly, drainVars
<1>9. CASE ScanForOwnSnapshots
  BY <1>9, <1>q DEF ScanForOwnSnapshots, drainVars
<1>10. CASE ListChunks
  BY <1>10, <1>q DEF ListChunks, SweepOnly, drainVars
<1>11. CASE MergeListed
  BY <1>11, <1>q DEF MergeListed, drainVars
<1>12. CASE EnsureGCFloor
  BY <1>12, <1>q DEF EnsureGCFloor, SweepOnly, drainVars
<1>13. CASE Collect
  BY <1>13, <1>q DEF Collect, drainVars
<1>14. CASE MarkerMoved
  BY <1>14, <1>q DEF MarkerMoved, drainVars
<1>15. CASE DeleteChunkObjects
  BY <1>15, <1>q DEF DeleteChunkObjects, drainVars
<1>16. CASE BeginOwn
  BY <1>16, <1>q DEF BeginOwn, SnapOnly, drainVars
<1>17. CASE DrainForSnapshot
  BY <1>17, <1>r DEF DrainForSnapshot
<1>18. CASE Freeze
  BY <1>18, <1>q DEF Freeze, SnapOnly, drainVars
<1>19. CASE DaemonLoads
  BY <1>19, <1>q DEF DaemonLoads, SnapOnly, drainVars
<1>20. CASE DaemonMarks
  BY <1>20, <1>q DEF DaemonMarks, SnapOnly, drainVars
<1>21. CASE FinishSnapshot
  BY <1>21, <1>q DEF FinishSnapshot, SnapOnly, drainVars
<1>22. CASE Open
  <2>1. inflight' = {}
    BY <1>22 DEF Open, Phases
  <2>2. /\ \A j \in jobs' : j # {}
        /\ \A j, k \in jobs' : j # k => j \cap k = {}
    <3>1. CASE wal = {}
      BY <1>22, <3>1 DEF Open, Phases
    <3>2. CASE wal # {}
      BY <1>22, <3>2, ChunkingsType DEF Open, EngineTypes
    <3>3. QED BY <3>1, <3>2
  <2>3. QED BY <2>1, <2>2 DEF Disjoint
<1>23. CASE EndRecovery
  BY <1>23, <1>f, <1>q DEF EndRecovery, SaveFails
<1>24. CASE StartClose
  BY <1>24, <1>r DEF StartClose
<1>25. CASE EndClose
  BY <1>25, <1>f DEF EndClose, SaveFails
<1>26. CASE Crash
  BY <1>26, <1>f DEF Crash
<1>27. CASE UNCHANGED vars
  BY <1>27, <1>q DEF vars, drainVars
<1>28. QED BY <1>1, <1>2, <1>3, <1>4, <1>5, <1>6, <1>7, <1>8, <1>9, <1>10, <1>11, <1>12,
    <1>13, <1>14, <1>15, <1>16, <1>17, <1>18, <1>19, <1>20, <1>21, <1>22, <1>23, <1>24,
    <1>25, <1>26, <1>27 DEF Next, Drain, Sweep, Snapshot, Lifecycle

\* There stays an ObjectID for every chunk that is left.
LEMMA CountsStep == IInv /\ [Next]_vars => Counts'
<1> SUFFICES ASSUME IInv, [Next]_vars PROVE Counts'
  OBVIOUS
<1>0. EngineTypes /\ Phases /\ Disjoint /\ Counts
  BY DEF IInv
<1> USE <1>0
<1>q. ASSUME UNCHANGED <<objNum, todo, jobs>> PROVE Counts'
  BY <1>q DEF Counts
<1>j. todo \subseteq Blocks /\ UNION jobs \subseteq Blocks /\ objNum \in Nat
  BY DEF EngineTypes
<1>t. Cardinality(todo) \in Nat /\ Cardinality(UNION jobs) \in Nat /\ Limit \in Nat
      /\ Cardinality({}) = 0 /\ UNION {} = {}
  BY <1>j, CardType, LimitType
<1>f. ASSUME Forget PROVE Counts'
  <2>1. objNum' = 1 /\ todo' = {} /\ jobs' = {}
    BY <1>f DEF Forget
  <2>2. QED BY <2>1, <1>t, LimitType, GCBoundAssumption DEF Counts, Limit
<1>r. ASSUME NEW who, Rotate(who) PROVE Counts'
  <2>1. jobs = {} /\ todo' = {} /\ objNum' = objNum
    BY <1>r DEF Rotate, Phases
  <2>2. UNION jobs' = todo
    BY <1>r, <1>j, ChunkingsType DEF Rotate
  <2>3. Cardinality(UNION jobs') = Cardinality(todo) /\ Cardinality(todo') = 0
    BY <2>1, <2>2, <1>t
  <2>4. objNum + Cardinality(todo) <= Limit
    BY <2>1, <1>j, <1>t DEF Counts
  <2>5. QED BY <2>1, <2>3, <2>4, <1>j, <1>t DEF Counts
<1>g. ASSUME objNum' = objNum + 1, UNCHANGED todo, UNION jobs' \subseteq UNION jobs,
             UNION jobs' # UNION jobs
      PROVE  Counts'
  <2>1. Cardinality(UNION jobs') \in Nat /\ Cardinality(UNION jobs') + 1 <= Cardinality(UNION jobs)
    <3> DEFINE S == UNION jobs
               T == UNION jobs'
    <3>1. S \in SUBSET Blocks /\ T \in SUBSET S /\ T # S
      BY <1>g, <1>j
    <3> HIDE DEF S, T
    <3>2. Cardinality(T) \in Nat /\ Cardinality(T) + 1 <= Cardinality(S)
      BY <3>1, CardLess
    <3>3. QED BY <3>2 DEF S, T
  <2>2. QED BY <2>1, <1>g, <1>j, <1>t DEF Counts
<1>1. ASSUME NEW b \in Blocks, Write(b) PROVE Counts'
  <2>1. Cardinality(todo') = Cardinality(todo) + 1
    <3>1. IsFiniteSet(todo)
      BY <1>j, GCAssumption, FS_Subset
    <3>2. QED BY <1>1, <3>1, FS_AddElement DEF Write
  <2>2. UNCHANGED <<objNum, jobs>> /\ objNum + Cardinality(todo) + Cardinality(UNION jobs) < MaxObj
    BY <1>1 DEF Write, drainVars
  <2>3. MaxObj \in Nat /\ MaxObj < Limit
    BY LimitType, GCBoundAssumption
  <2>4. QED BY <2>1, <2>2, <2>3, <1>j, <1>t DEF Counts
<1>2. CASE StartDrain
  BY <1>2, <1>r DEF StartDrain
<1>3. ASSUME NEW j \in jobs, Put(j) PROVE Counts'
  <2>1. jobs' = jobs \ {j} /\ objNum' = objNum + 1 /\ UNCHANGED todo /\ j \in jobs
    BY <1>3 DEF Put
  <2>2. PICK b : b \in j
    BY <2>1 DEF Disjoint
  <2>3. b \in UNION jobs /\ b \notin UNION jobs'
    BY <2>1, <2>2 DEF Disjoint
  <2>4. QED BY <2>1, <2>3, <1>g
<1>4. CASE PutFails
  <2>1. CASE drain = "recover"
    BY <1>4, <2>1, <1>f DEF PutFails
  <2>2. CASE drain # "recover"
    <3>1. objNum' = objNum + 1 /\ jobs' = {} /\ UNCHANGED todo /\ jobs # {}
      BY <1>4, <2>2 DEF PutFails
    <3>2. UNION jobs # {}
      BY <3>1 DEF Disjoint
    <3>3. QED BY <3>1, <3>2, <1>g
  <2>3. QED BY <2>1, <2>2
<1>5. ASSUME NEW c \in inflight, InsertEntries(c) PROVE Counts'
  BY <1>5, <1>q DEF InsertEntries, engineVars, drainVars
<1>6. CASE EndDrain
  BY <1>6, <1>q DEF EndDrain, engineVars, drainVars
<1>7. CASE GCTick
  BY <1>7, <1>r DEF GCTick
<1>8. CASE SnapshotSafe
  BY <1>8, <1>q DEF SnapshotSafe, SweepOnly, engineVars, drainVars
<1>9. CASE ScanForOwnSnapshots
  BY <1>9, <1>q DEF ScanForOwnSnapshots, engineVars, drainVars
<1>10. CASE ListChunks
  BY <1>10, <1>q DEF ListChunks, SweepOnly, engineVars, drainVars
<1>11. CASE MergeListed
  BY <1>11, <1>q DEF MergeListed, engineVars, drainVars
<1>12. CASE EnsureGCFloor
  BY <1>12, <1>q DEF EnsureGCFloor, SweepOnly, engineVars, drainVars
<1>13. CASE Collect
  BY <1>13, <1>q DEF Collect, engineVars, drainVars
<1>14. CASE MarkerMoved
  BY <1>14, <1>q DEF MarkerMoved, engineVars, drainVars
<1>15. CASE DeleteChunkObjects
  BY <1>15, <1>q DEF DeleteChunkObjects, engineVars, drainVars
<1>16. CASE BeginOwn
  BY <1>16, <1>q DEF BeginOwn, SnapOnly, engineVars, drainVars
<1>17. CASE DrainForSnapshot
  BY <1>17, <1>r DEF DrainForSnapshot
<1>18. CASE Freeze
  BY <1>18, <1>q DEF Freeze, SnapOnly, engineVars, drainVars
<1>19. CASE DaemonLoads
  BY <1>19, <1>q DEF DaemonLoads, SnapOnly, engineVars, drainVars
<1>20. CASE DaemonMarks
  BY <1>20, <1>q DEF DaemonMarks, SnapOnly, engineVars, drainVars
<1>21. CASE FinishSnapshot
  BY <1>21, <1>q DEF FinishSnapshot, SnapOnly, engineVars, drainVars
<1>22. CASE Open
  <2>1. todo' = {} /\ objNum' = NextObject /\ NextObject <= MaxObj
    BY <1>22 DEF Open, Phases
  <2>2. UNION jobs' \subseteq Blocks
    <3>1. CASE wal = {}
      BY <1>22, <3>1, <1>j DEF Open
    <3>2. CASE wal # {}
      BY <1>22, <3>2, ChunkingsType DEF Open, EngineTypes
    <3>3. QED BY <3>1, <3>2
  <2>3. Cardinality(UNION jobs') \in Nat /\ Cardinality(UNION jobs') <= Cardinality(Blocks)
    BY <2>2, CardType
  <2>4. NextObject \in Nat
    BY NextObjectType DEF IInv
  <2>5. QED BY <2>1, <2>3, <2>4, <1>t, LimitType, GCBoundAssumption DEF Counts
<1>23. CASE EndRecovery
  BY <1>23, <1>f, <1>q DEF EndRecovery, SaveFails
<1>24. CASE StartClose
  BY <1>24, <1>r DEF StartClose
<1>25. CASE EndClose
  BY <1>25, <1>f DEF EndClose, SaveFails
<1>26. CASE Crash
  BY <1>26, <1>f DEF Crash
<1>27. CASE UNCHANGED vars
  BY <1>27, <1>q DEF vars, engineVars, drainVars
<1>28. QED BY <1>1, <1>2, <1>3, <1>4, <1>5, <1>6, <1>7, <1>8, <1>9, <1>10, <1>11, <1>12,
    <1>13, <1>14, <1>15, <1>16, <1>17, <1>18, <1>19, <1>20, <1>21, <1>22, <1>23, <1>24,
    <1>25, <1>26, <1>27 DEF Next, Drain, Sweep, Snapshot, Lifecycle

\* The checkpoints keep naming ids in use.
LEMMA InBoundsStep == IInv /\ [Next]_vars => InBounds'
<1> SUFFICES ASSUME IInv, [Next]_vars PROVE InBounds'
  OBVIOUS
<1>0. EngineTypes /\ Phases /\ Counts /\ InBounds /\ Ids
  BY DEF IInv
<1> USE <1>0
<1>q. ASSUME UNCHANGED <<live, numbered>> PROVE InBounds'
  BY <1>q DEF InBounds
<1>l. ASSUME phase # "down" PROVE \A b \in Blocks : lookup[b] < Limit
  <2>1. todo \subseteq Blocks /\ UNION jobs \subseteq Blocks /\ objNum \in Nat
    BY DEF EngineTypes
  <2>2. Cardinality(todo) \in Nat /\ Cardinality(UNION jobs) \in Nat /\ Limit \in Nat
    BY <2>1, CardType, LimitType
  <2>3. objNum <= Limit
    BY <2>1, <2>2 DEF Counts
  <2>4. \A b \in Blocks : lookup[b] \in Nat /\ lookup[b] < objNum
    BY <1>l DEF Ids, EngineTypes, EntryMap
  <2>5. QED BY <2>1, <2>2, <2>3, <2>4
<1>s. ASSUME phase # "down", live' \subseteq live \cup {lookup},
             numbered' \in {numbered, SavedNumbered}
      PROVE  InBounds'
  <2>1. \A w \in DOMAIN SavedNumbered : \A b \in Blocks : SavedNumbered[w][b] < Limit
    BY <1>s, <1>l, SavedNumberedIs DEF InBounds
  <2>2. QED BY <1>s, <1>l, <2>1 DEF InBounds
<1>1. ASSUME NEW b \in Blocks, Write(b) PROVE InBounds'
  BY <1>1, <1>q DEF Write, backendVars
<1>2. CASE StartDrain
  BY <1>2, <1>q DEF StartDrain, backendVars
<1>3. ASSUME NEW j \in jobs, Put(j) PROVE InBounds'
  BY <1>3, <1>q DEF Put, backendVars
<1>4. CASE PutFails
  BY <1>4, <1>q DEF PutFails, backendVars
<1>5. ASSUME NEW c \in inflight, InsertEntries(c) PROVE InBounds'
  BY <1>5, <1>q DEF InsertEntries, backendVars
<1>6. CASE EndDrain
  <2>1. live' \subseteq live \cup {lookup} /\ UNCHANGED numbered
    BY <1>6 DEF EndDrain
  <2>2. phase # "down"
    BY <1>6 DEF EndDrain, Phases
  <2>3. QED BY <2>1, <2>2, <1>s
<1>7. CASE GCTick
  BY <1>7, <1>q DEF GCTick, backendVars
<1>8. CASE SnapshotSafe
  BY <1>8, <1>q DEF SnapshotSafe, SweepOnly, backendVars
<1>9. CASE ScanForOwnSnapshots
  BY <1>9, <1>q DEF ScanForOwnSnapshots, backendVars
<1>10. CASE ListChunks
  BY <1>10, <1>q DEF ListChunks, SweepOnly, backendVars
<1>11. CASE MergeListed
  BY <1>11, <1>q DEF MergeListed, backendVars
<1>12. CASE EnsureGCFloor
  BY <1>12, <1>q DEF EnsureGCFloor, SweepOnly, backendVars
<1>13. CASE Collect
  BY <1>13, <1>q DEF Collect, backendVars
<1>14. CASE MarkerMoved
  BY <1>14, <1>q DEF MarkerMoved, backendVars
<1>15. CASE DeleteChunkObjects
  BY <1>15, <1>q DEF DeleteChunkObjects, backendVars
<1>16. CASE BeginOwn
  BY <1>16, <1>q DEF BeginOwn, SnapOnly, backendVars
<1>17. CASE DrainForSnapshot
  BY <1>17, <1>q DEF DrainForSnapshot, backendVars
<1>18. CASE Freeze
  BY <1>18, <1>q DEF Freeze, SnapOnly, backendVars
<1>19. CASE DaemonLoads
  BY <1>19, <1>q DEF DaemonLoads, SnapOnly, backendVars
<1>20. CASE DaemonMarks
  BY <1>20, <1>q DEF DaemonMarks, SnapOnly, backendVars
<1>21. CASE FinishSnapshot
  BY <1>21, <1>q DEF FinishSnapshot, SnapOnly, backendVars
<1>22. CASE Open
  BY <1>22, <1>q DEF Open, backendVars
<1>23. CASE EndRecovery
  <2>1. live' \subseteq live \cup {lookup} /\ numbered' \in {numbered, SavedNumbered}
    BY <1>23 DEF EndRecovery, SaveFails
  <2>2. phase # "down"
    BY <1>23 DEF EndRecovery
  <2>3. QED BY <2>1, <2>2, <1>s
<1>24. CASE StartClose
  BY <1>24, <1>q DEF StartClose, backendVars
<1>25. CASE EndClose
  <2>1. live' \subseteq live \cup {lookup} /\ numbered' \in {numbered, SavedNumbered}
    BY <1>25 DEF EndClose, SaveFails
  <2>2. phase # "down"
    BY <1>25 DEF EndClose
  <2>3. QED BY <2>1, <2>2, <1>s
<1>26. CASE Crash
  BY <1>26, <1>q DEF Crash, backendVars
<1>27. CASE UNCHANGED vars
  BY <1>27, <1>q DEF vars, backendVars
<1>28. QED BY <1>1, <1>2, <1>3, <1>4, <1>5, <1>6, <1>7, <1>8, <1>9, <1>10, <1>11, <1>12,
    <1>13, <1>14, <1>15, <1>16, <1>17, <1>18, <1>19, <1>20, <1>21, <1>22, <1>23, <1>24,
    <1>25, <1>26, <1>27 DEF Next, Drain, Sweep, Snapshot, Lifecycle

\* What an open finds after the live checkpoint is written, after SaveState and
\* SaveBlockState, and after nothing of the sort.
LEMMA LoadedAfter ==
    /\ UNCHANGED <<live, numbered, config>> => Loaded' = Loaded
    /\ live' = {lookup} => Loaded' = lookup
    /\ live' = live /\ live # {} => Loaded' = Loaded
    /\ live' = live /\ config' = SavedConfig /\ numbered' = SavedNumbered =>
          Loaded' \in {Loaded, lookup}
    /\ live' = live /\ config' = config /\ numbered' = SavedNumbered =>
          Loaded' \in {Loaded, lookup}
    /\ live' = live /\ config' = config /\ numbered' = numbered => Loaded' = Loaded
<1>1. SavedConfig.wall = wall
  BY DEF SavedConfig
<1>2. ASSUME live' = {lookup} PROVE Loaded' = lookup
  BY <1>2 DEF Loaded
<1>3. ASSUME live' = live, live # {} PROVE Loaded' = Loaded
  BY <1>3 DEF Loaded
<1>4. ASSUME live' = live, config' = SavedConfig, numbered' = SavedNumbered
      PROVE  Loaded' \in {Loaded, lookup}
  <2>1. CASE live # {}
    BY <1>3, <1>4, <2>1
  <2>2. CASE live = {}
    <3>1. config'.wall = wall /\ wall \in DOMAIN numbered' /\ numbered'[wall] = lookup
      BY <1>1, <1>4, SavedNumberedIs
    <3>2. QED BY <1>4, <2>2, <3>1 DEF Loaded
  <2>3. QED BY <2>1, <2>2
<1>5. ASSUME live' = live, config' = config, numbered' = SavedNumbered
      PROVE  Loaded' \in {Loaded, lookup}
  <2>1. CASE live # {}
    BY <1>3, <1>5, <2>1
  <2>2. CASE live = {} /\ config.wall = wall
    <3>1. config'.wall = wall /\ wall \in DOMAIN numbered' /\ numbered'[wall] = lookup
      BY <1>5, <2>2, SavedNumberedIs
    <3>2. QED BY <1>5, <2>2, <3>1 DEF Loaded
  <2>3. CASE live = {} /\ config.wall # wall
    BY <1>5, <2>3, SavedNumberedIs DEF Loaded
  <2>4. QED BY <2>1, <2>2, <2>3
<1>6. (live' = live /\ config' = config /\ numbered' = numbered) => Loaded' = Loaded
  BY DEF Loaded
<1>7. QED BY <1>2, <1>3, <1>4, <1>5, <1>6

\* The checkpoints of a drain and of a recovery that is done are the map or
\* what was there.
LEMMA LoadedSaved ==
    /\ EndDrain => UNCHANGED <<numbered, config>> /\ Loaded' \in {Loaded, lookup}
    /\ EndRecovery /\ phase' # "down" =>
          /\ config' = SavedConfig /\ numbered' = SavedNumbered
          /\ Loaded' \in {Loaded, lookup}
<1>1. ASSUME EndDrain PROVE UNCHANGED <<numbered, config>> /\ Loaded' \in {Loaded, lookup}
  <2>1. UNCHANGED <<numbered, config>> /\ (live' = live \/ live' = {lookup})
    BY <1>1 DEF EndDrain
  <2>2. QED BY <2>1, LoadedAfter
<1>2. ASSUME EndRecovery, phase' # "down"
      PROVE  /\ config' = SavedConfig /\ numbered' = SavedNumbered
             /\ Loaded' \in {Loaded, lookup}
  <2>1. config' = SavedConfig /\ numbered' = SavedNumbered /\ (live' = live \/ live' = {lookup})
    BY <1>2 DEF EndRecovery, SaveFails
  <2>2. QED BY <2>1, LoadedAfter
<1>3. QED BY <1>1, <1>2

\* ObjectNum stays above what is in use.
LEMMA IdsStep == IInv /\ [Next]_vars => Ids'
<1> SUFFICES ASSUME IInv, [Next]_vars PROVE Ids'
  OBVIOUS
<1>0. BackendTypes /\ EngineTypes /\ Phases /\ Disjoint /\ InBounds /\ Ids
  BY DEF IInv
<1>t. /\ objNum \in Nat \ {0} /\ config.obj \in Nat /\ \A b \in Blocks : lookup[b] \in Nat
      /\ \A b \in Blocks : Loaded[b] \in Nat
      /\ \A c \in inflight : c.id \in Nat /\ c.blocks \subseteq Blocks
  BY <1>0, LoadedType DEF BackendTypes, EngineTypes, EntryMap, Pending
<1> USE <1>0, <1>t
<1>q. ASSUME UNCHANGED <<live, numbered, config, phase, lookup, objNum, inflight>> PROVE Ids'
  <2>1. Loaded' = Loaded
    BY <1>q, LoadedAfter
  <2>2. QED BY <1>q, <2>1 DEF Ids
<1>d. ASSUME phase' = "down" PROVE Ids'
  BY <1>d DEF Ids
<1>s. ASSUME phase # "down", inflight = {}, inflight' = {}, UNCHANGED <<lookup, objNum>>,
             config'.obj <= objNum, Loaded' \in {Loaded, lookup}
      PROVE  Ids'
  BY <1>s DEF Ids
<1>1. ASSUME NEW b \in Blocks, Write(b) PROVE Ids'
  BY <1>1, <1>q DEF Write, backendVars, engineVars, drainVars
<1>2. CASE StartDrain
  BY <1>2, <1>q DEF StartDrain, Rotate, backendVars, engineVars, drainVars
<1>3. ASSUME NEW j \in jobs, Put(j) PROVE Ids'
  <2> DEFINE n == [id |-> objNum, blocks |-> j]
  <2>1. /\ n.id = objNum /\ n.blocks = j /\ inflight' = inflight \cup {n} /\ objNum' = objNum + 1
        /\ UNCHANGED <<live, numbered, config, phase, lookup>> /\ j \subseteq Blocks
    BY <1>3 DEF Put, EngineTypes
  <2>2. Loaded' = Loaded
    BY <2>1, LoadedAfter
  <2> HIDE DEF n
  <2>3. QED BY <2>1, <2>2 DEF Ids
<1>4. CASE PutFails
  <2>1. CASE drain = "recover"
    BY <1>4, <2>1, <1>d DEF PutFails
  <2>2. CASE drain # "recover"
    <3>1. objNum' = objNum + 1 /\ UNCHANGED <<live, numbered, config, phase, lookup, inflight>>
      BY <1>4, <2>2 DEF PutFails
    <3>2. Loaded' = Loaded
      BY <3>1, LoadedAfter
    <3>3. QED BY <3>1, <3>2 DEF Ids
  <2>3. QED BY <2>1, <2>2
<1>5. ASSUME NEW c \in inflight, InsertEntries(c) PROVE Ids'
  <2>1. PICK moved \in SUBSET c.blocks :
            lookup' = [b \in Blocks |-> IF b \in moved THEN c.id ELSE lookup[b]]
    BY <1>5 DEF InsertEntries
  <2>2. c \in inflight /\ inflight' = inflight \ {c}
        /\ UNCHANGED <<live, numbered, config, phase, objNum>>
    BY <1>5 DEF InsertEntries, backendVars
  <2>3. Loaded' = Loaded
    BY <2>2, LoadedAfter
  <2>4. SUFFICES ASSUME phase # "down" PROVE Ids'
    BY <2>2 DEF Ids
  <2>5. \A b \in Blocks : lookup'[b] < objNum /\ Loaded[b] <= lookup'[b]
    BY <2>1, <2>2, <2>4 DEF Ids
  <2>6. ASSUME NEW d \in inflight', NEW b \in d.blocks PROVE lookup'[b] < d.id
    <3>1. d \in inflight /\ b \notin c.blocks /\ b \in Blocks
      BY <2>2, <2>6 DEF Disjoint
    <3>2. QED BY <2>1, <2>4, <3>1 DEF Ids
  <2>7. QED BY <2>2, <2>3, <2>4, <2>5, <2>6 DEF Ids
<1>6. CASE EndDrain
  <2>1. phase # "down" /\ inflight = {} /\ UNCHANGED <<inflight, lookup, objNum>>
    BY <1>6 DEF EndDrain, Phases
  <2>2. QED BY <1>6, <2>1, <1>s, LoadedSaved DEF Ids
<1>7. CASE GCTick
  BY <1>7, <1>q DEF GCTick, Rotate, backendVars, engineVars, drainVars
<1>8. CASE SnapshotSafe
  BY <1>8, <1>q DEF SnapshotSafe, SweepOnly, backendVars, engineVars, drainVars
<1>9. CASE ScanForOwnSnapshots
  BY <1>9, <1>q DEF ScanForOwnSnapshots, backendVars, engineVars, drainVars
<1>10. CASE ListChunks
  BY <1>10, <1>q DEF ListChunks, SweepOnly, backendVars, engineVars, drainVars
<1>11. CASE MergeListed
  BY <1>11, <1>q DEF MergeListed, backendVars, engineVars, drainVars
<1>12. CASE EnsureGCFloor
  BY <1>12, <1>q DEF EnsureGCFloor, SweepOnly, backendVars, engineVars, drainVars
<1>13. CASE Collect
  BY <1>13, <1>q DEF Collect, backendVars, engineVars, drainVars
<1>14. CASE MarkerMoved
  BY <1>14, <1>q DEF MarkerMoved, backendVars, engineVars, drainVars
<1>15. CASE DeleteChunkObjects
  BY <1>15, <1>q DEF DeleteChunkObjects, backendVars, engineVars, drainVars
<1>16. CASE BeginOwn
  BY <1>16, <1>q DEF BeginOwn, SnapOnly, backendVars, engineVars, drainVars
<1>17. CASE DrainForSnapshot
  BY <1>17, <1>q DEF DrainForSnapshot, Rotate, backendVars, engineVars, drainVars
<1>18. CASE Freeze
  BY <1>18, <1>q DEF Freeze, SnapOnly, backendVars, engineVars, drainVars
<1>19. CASE DaemonLoads
  BY <1>19, <1>q DEF DaemonLoads, SnapOnly, backendVars, engineVars, drainVars
<1>20. CASE DaemonMarks
  BY <1>20, <1>q DEF DaemonMarks, SnapOnly, backendVars, engineVars, drainVars
<1>21. CASE FinishSnapshot
  BY <1>21, <1>q DEF FinishSnapshot, SnapOnly, backendVars, engineVars, drainVars
<1>22. CASE Open
  <2>1. /\ inflight' = {} /\ lookup' = Loaded /\ objNum' = NextObject
        /\ UNCHANGED <<live, numbered, config>>
    BY <1>22 DEF Open, Phases, backendVars
  <2>2. Loaded' = Loaded
    BY <2>1, LoadedAfter
  <2>3. QED BY <2>1, <2>2, NextObjectType DEF Ids
<1>23. CASE EndRecovery
  <2>1. CASE phase' = "down"
    BY <2>1, <1>d
  <2>2. CASE phase' # "down"
    <3>1. /\ phase # "down" /\ inflight = {} /\ UNCHANGED <<inflight, lookup, objNum>>
      BY <1>23, <2>2 DEF EndRecovery, SaveFails
    <3>2. config'.obj = objNum /\ Loaded' \in {Loaded, lookup}
      BY <1>23, <2>2, LoadedSaved DEF SavedConfig
    <3>3. QED BY <3>1, <3>2, <1>s
  <2>3. QED BY <2>1, <2>2
<1>24. CASE StartClose
  <2>1. UNCHANGED <<live, numbered, config, lookup, objNum, inflight>> /\ phase # "down"
    BY <1>24 DEF StartClose, Rotate, backendVars
  <2>2. Loaded' = Loaded
    BY <2>1, LoadedAfter
  <2>3. QED BY <2>1, <2>2 DEF Ids
<1>25. CASE EndClose
  BY <1>25, <1>d DEF EndClose, SaveFails
<1>26. CASE Crash
  BY <1>26, <1>d DEF Crash
<1>27. CASE UNCHANGED vars
  BY <1>27, <1>q DEF vars, backendVars, engineVars, drainVars
<1>28. QED BY <1>1, <1>2, <1>3, <1>4, <1>5, <1>6, <1>7, <1>8, <1>9, <1>10, <1>11, <1>12,
    <1>13, <1>14, <1>15, <1>16, <1>17, <1>18, <1>19, <1>20, <1>21, <1>22, <1>23, <1>24,
    <1>25, <1>26, <1>27 DEF Next, Drain, Sweep, Snapshot, Lifecycle

\* ObjectNum and the ids of the maps are numbers.
LEMMA IdTypes ==
    ASSUME BackendTypes, EngineTypes
    PROVE  /\ objNum \in Nat \ {0} /\ config.obj \in Nat
           /\ \A b \in Blocks : lookup[b] \in Nat /\ Loaded[b] \in Nat
BY LoadedType DEF BackendTypes, EngineTypes, EntryMap

\* The next open's ObjectNum never goes below an id it was above: not when one
\* of SaveState and SaveBlockState fails either.
LEMMA BelowKept ==
    ASSUME IInv, [Next]_vars, NEW id \in Nat, Below(id)
    PROVE  Below(id)'
<1>0. BackendTypes /\ EngineTypes /\ Phases /\ Ids
  BY DEF IInv
<1>t. /\ objNum \in Nat \ {0} /\ config.obj \in Nat
      /\ \A b \in Blocks : lookup[b] \in Nat /\ Loaded[b] \in Nat
  BY <1>0, IdTypes
<1> USE <1>0, <1>t
<1>q. ASSUME UNCHANGED <<live, numbered, config>> PROVE Below(id)'
  BY <1>q, LoadedAfter DEF Below
<1>l. ASSUME phase # "down", Loaded' \in {Loaded, lookup}, config' = config
      PROVE  Below(id)'
  <2>1. CASE id < config.obj
    BY <1>l, <2>1 DEF Below
  <2>2. CASE \E b \in Blocks : id <= Loaded[b]
    <3>1. PICK b \in Blocks : id <= Loaded[b]
      BY <2>2
    <3>2. Loaded[b] <= lookup[b]
      BY <1>l DEF Ids
    <3>3. id <= Loaded'[b]
      BY <1>l, <3>1, <3>2
    <3>4. QED BY <3>3 DEF Below
  <2>3. QED BY <2>1, <2>2 DEF Below
<1>c. ASSUME phase # "down", config' = SavedConfig PROVE Below(id)'
  <2>1. id < objNum
    BY <1>c DEF Below, Ids
  <2>2. QED BY <1>c, <2>1 DEF Below, SavedConfig
<1>1. CASE EndDrain
  <2>1. phase # "down"
    BY <1>1 DEF EndDrain, Phases
  <2>2. QED BY <1>1, <2>1, <1>l, LoadedSaved
<1>2. ASSUME EndRecovery \/ EndClose PROVE Below(id)'
  <2>1. phase # "down"
    BY <1>2 DEF EndRecovery, EndClose
  <2>2. /\ config' \in {config, SavedConfig} /\ numbered' \in {numbered, SavedNumbered}
        /\ live' = live \/ config' = SavedConfig
    BY <1>2 DEF EndRecovery, EndClose, SaveFails
  <2>3. CASE config' = SavedConfig
    BY <2>1, <2>3, <1>c
  <2>4. CASE config' # SavedConfig
    <3>1. config' = config /\ live' = live /\ numbered' \in {numbered, SavedNumbered}
      BY <2>2, <2>4
    <3>2. Loaded' \in {Loaded, lookup}
      BY <3>1, LoadedAfter
    <3>3. QED BY <2>1, <3>1, <3>2, <1>l
  <2>5. QED BY <2>3, <2>4
<1>3. ASSUME NEW b \in Blocks, Write(b) PROVE Below(id)'
  BY <1>3, <1>q DEF Write, backendVars
<1>4. CASE StartDrain
  BY <1>4, <1>q DEF StartDrain, backendVars
<1>5. ASSUME NEW j \in jobs, Put(j) PROVE Below(id)'
  BY <1>5, <1>q DEF Put, backendVars
<1>6. CASE PutFails
  BY <1>6, <1>q DEF PutFails, backendVars
<1>7. ASSUME NEW c \in inflight, InsertEntries(c) PROVE Below(id)'
  BY <1>7, <1>q DEF InsertEntries, backendVars
<1>8. CASE GCTick
  BY <1>8, <1>q DEF GCTick, backendVars
<1>9. CASE SnapshotSafe
  BY <1>9, <1>q DEF SnapshotSafe, SweepOnly, backendVars
<1>10. CASE ScanForOwnSnapshots
  BY <1>10, <1>q DEF ScanForOwnSnapshots, backendVars
<1>11. CASE ListChunks
  BY <1>11, <1>q DEF ListChunks, SweepOnly, backendVars
<1>12. CASE MergeListed
  BY <1>12, <1>q DEF MergeListed, backendVars
<1>13. CASE EnsureGCFloor
  BY <1>13, <1>q DEF EnsureGCFloor, SweepOnly, backendVars
<1>14. CASE Collect
  BY <1>14, <1>q DEF Collect, backendVars
<1>15. CASE MarkerMoved
  BY <1>15, <1>q DEF MarkerMoved, backendVars
<1>16. CASE DeleteChunkObjects
  BY <1>16, <1>q DEF DeleteChunkObjects, backendVars
<1>17. CASE BeginOwn
  BY <1>17, <1>q DEF BeginOwn, SnapOnly, backendVars
<1>18. CASE DrainForSnapshot
  BY <1>18, <1>q DEF DrainForSnapshot, backendVars
<1>19. CASE Freeze
  BY <1>19, <1>q DEF Freeze, SnapOnly, backendVars
<1>20. CASE DaemonLoads
  BY <1>20, <1>q DEF DaemonLoads, SnapOnly, backendVars
<1>21. CASE DaemonMarks
  BY <1>21, <1>q DEF DaemonMarks, SnapOnly, backendVars
<1>22. CASE FinishSnapshot
  BY <1>22, <1>q DEF FinishSnapshot, SnapOnly, backendVars
<1>23. CASE Open
  BY <1>23, <1>q DEF Open, backendVars
<1>24. CASE StartClose
  BY <1>24, <1>q DEF StartClose, backendVars
<1>25. CASE Crash
  BY <1>25, <1>q DEF Crash, backendVars
<1>26. CASE UNCHANGED vars
  BY <1>26, <1>q DEF vars, backendVars
<1>27. QED BY <1>1, <1>2, <1>3, <1>4, <1>5, <1>6, <1>7, <1>8, <1>9, <1>10, <1>11, <1>12,
    <1>13, <1>14, <1>15, <1>16, <1>17, <1>18, <1>19, <1>20, <1>21, <1>22, <1>23, <1>24,
    <1>25, <1>26 DEF Next, Drain, Sweep, Snapshot, Lifecycle

\* The next open's ObjectNum stays above what the snapshots froze.
LEMMA SavedBelowStep == IInv /\ [Next]_vars => SavedBelow'
<1> SUFFICES ASSUME IInv, [Next]_vars PROVE SavedBelow'
  OBVIOUS
<1>0. BackendTypes /\ EngineTypes /\ SnapTypes /\ Phases /\ SavedBelow
  BY DEF IInv
<1>t. /\ \A s \in snaps : s.map \in EntryMap
      /\ sp \in {"idle", "loaded", "marked", "draining", "drained", "frozen"}
  BY <1>0 DEF BackendTypes, SnapTypes, SnapRec
<1>k. \A id \in Nat : Below(id) => Below(id)'
  BY BelowKept
<1>s. \A s \in snaps : s.saved => \A b \in Blocks : Below(s.map[b])'
  BY <1>0, <1>t, <1>k DEF SavedBelow, EntryMap
<1>m. sp \in {"loaded", "frozen"} /\ ssaved =>
          \A b \in Blocks, id \in Nat : id = smap[b] => Below(id)'
  BY <1>0, <1>k DEF SavedBelow
<1>n. \A b \in Blocks : smap[b] \in Nat
  BY <1>0 DEF SnapTypes, EntryMap
<1>q. ASSUME UNCHANGED <<snaps, smap, ssaved>>,
             sp' \in {"loaded", "frozen"} => sp \in {"loaded", "frozen"}
      PROVE  SavedBelow'
  BY <1>q, <1>s, <1>m, <1>n DEF SavedBelow
<1>i. ASSUME UNCHANGED snaps, sp' \notin {"loaded", "frozen"} PROVE SavedBelow'
  BY <1>i, <1>s DEF SavedBelow
<1>1. ASSUME NEW b \in Blocks, Write(b) PROVE SavedBelow'
  BY <1>1, <1>q DEF Write, backendVars, snapVars
<1>2. CASE StartDrain
  BY <1>2, <1>q DEF StartDrain, backendVars, snapVars
<1>3. ASSUME NEW j \in jobs, Put(j) PROVE SavedBelow'
  BY <1>3, <1>q DEF Put, backendVars, snapVars
<1>4. CASE PutFails
  BY <1>4, <1>q DEF PutFails, backendVars, snapVars
<1>5. ASSUME NEW c \in inflight, InsertEntries(c) PROVE SavedBelow'
  BY <1>5, <1>q DEF InsertEntries, backendVars, snapVars
<1>6. CASE EndDrain
  <2>1. sp' \in {"loaded", "frozen"} => sp \in {"loaded", "frozen"}
    BY <1>6 DEF EndDrain, AfterDrain
  <2>2. QED BY <1>6, <2>1, <1>q DEF EndDrain
<1>7. CASE GCTick
  BY <1>7, <1>q DEF GCTick, backendVars, snapVars
<1>8. CASE SnapshotSafe
  BY <1>8, <1>q DEF SnapshotSafe, SweepOnly, backendVars, snapVars
<1>9. CASE ScanForOwnSnapshots
  BY <1>9, <1>q DEF ScanForOwnSnapshots, backendVars
<1>10. CASE ListChunks
  BY <1>10, <1>q DEF ListChunks, SweepOnly, backendVars, snapVars
<1>11. CASE MergeListed
  BY <1>11, <1>q DEF MergeListed, backendVars, snapVars
<1>12. CASE EnsureGCFloor
  BY <1>12, <1>q DEF EnsureGCFloor, SweepOnly, backendVars, snapVars
<1>13. CASE Collect
  BY <1>13, <1>q DEF Collect, backendVars, snapVars
<1>14. CASE MarkerMoved
  BY <1>14, <1>q DEF MarkerMoved, backendVars
<1>15. CASE DeleteChunkObjects
  BY <1>15, <1>q DEF DeleteChunkObjects, backendVars, snapVars
<1>16. CASE BeginOwn
  BY <1>16, <1>i DEF BeginOwn, PutMarker
<1>17. CASE DrainForSnapshot
  BY <1>17, <1>i DEF DrainForSnapshot, backendVars
<1>18. CASE Freeze
  <2>1. UNCHANGED <<snaps, live, numbered, config>> /\ smap' = lookup /\ ssaved' = (live = {lookup})
    BY <1>18 DEF Freeze, SnapOnly
  <2>2. Loaded' = Loaded
    BY <2>1, LoadedAfter
  <2>3. ASSUME ssaved', NEW b \in Blocks PROVE Below(smap[b])'
    <3>1. live = {lookup}
      BY <2>1, <2>3
    <3>2. Loaded' = lookup
      BY <2>1, <2>2, <3>1 DEF Loaded
    <3>3. lookup[b] <= Loaded'[b] /\ smap'[b] = lookup[b]
      BY <1>0, <2>1, <3>2, IdTypes
    <3>4. QED BY <3>3 DEF Below
  <2>4. QED BY <2>1, <2>3, <1>s DEF SavedBelow
<1>19. CASE DaemonLoads
  <2>1. UNCHANGED <<snaps, live, numbered, config>> /\ smap' = Loaded
    BY <1>19 DEF DaemonLoads, SnapOnly
  <2>2. Loaded' = Loaded
    BY <2>1, LoadedAfter
  <2>3. ASSUME NEW b \in Blocks PROVE Below(smap[b])'
    <3>1. smap'[b] <= Loaded'[b]
      BY <1>0, <2>1, <2>2, IdTypes
    <3>2. QED BY <3>1 DEF Below
  <2>4. QED BY <2>1, <2>3, <1>s DEF SavedBelow
<1>20. CASE DaemonMarks
  <2>1. sp = "loaded"
    BY <1>20 DEF DaemonMarks
  <2>2. QED BY <1>20, <2>1, <1>q DEF DaemonMarks
<1>21. CASE FinishSnapshot
  <2> DEFINE r == [map |-> smap, gap |-> sgap, saved |-> ssaved]
  <2>1. r.map = smap /\ r.saved = ssaved
    OBVIOUS
  <2>2. sp = "frozen" /\ sp' = "idle" /\ snaps' \subseteq snaps \cup {r}
    BY <1>21 DEF FinishSnapshot
  <2> HIDE DEF r
  <2>3. ASSUME NEW s \in snaps', s.saved, NEW b \in Blocks PROVE Below(s.map[b])'
    <3>1. CASE s \in snaps
      BY <2>3, <3>1, <1>s
    <3>2. CASE s = r
      BY <2>1, <2>2, <2>3, <3>2, <1>m, <1>n
    <3>3. QED BY <2>2, <2>3, <3>1, <3>2
  <2>4. QED BY <2>2, <2>3 DEF SavedBelow
<1>22. CASE Open
  BY <1>22, <1>q DEF Open, backendVars, snapVars
<1>23. CASE EndRecovery
  BY <1>23, <1>q DEF EndRecovery, snapVars
<1>24. CASE StartClose
  BY <1>24, <1>q DEF StartClose, backendVars, snapVars
<1>25. CASE EndClose
  BY <1>25, <1>q DEF EndClose, snapVars
<1>26. CASE Crash
  BY <1>26, <1>q DEF Crash, backendVars
<1>27. CASE UNCHANGED vars
  BY <1>27, <1>q DEF vars, backendVars, snapVars
<1>28. QED BY <1>1, <1>2, <1>3, <1>4, <1>5, <1>6, <1>7, <1>8, <1>9, <1>10, <1>11, <1>12,
    <1>13, <1>14, <1>15, <1>16, <1>17, <1>18, <1>19, <1>20, <1>21, <1>22, <1>23, <1>24,
    <1>25, <1>26, <1>27 DEF Next, Drain, Sweep, Snapshot, Lifecycle

-----------------------------------------------------------------------------
(* The sweep beside drains and snapshots.                                  *)

\* The map and the checkpoint stay related.
LEMMA CleanStep == IInv /\ [Next]_vars => Clean'
<1> SUFFICES ASSUME IInv, [Next]_vars PROVE Clean'
  OBVIOUS
<1>0. EngineTypes /\ SweepTypes /\ Phases /\ Clean
  BY DEF IInv
<1> USE <1>0
<1>q. ASSUME UNCHANGED <<live, numbered, config, lookup, beside, dirty>>,
             phase' # "down" => phase # "down",
             gc' \notin {"idle", "drain"} => gc \notin {"idle", "drain"}
      PROVE  Clean'
  BY <1>q, LoadedAfter DEF Clean
<1>d. ASSUME phase' = "down", gc' = "idle" PROVE Clean'
  BY <1>d DEF Clean
<1>g. ASSUME UNCHANGED <<live, numbered, config, lookup, beside, dirty, phase, gc>> PROVE Clean'
  BY <1>g, <1>q
<1>1. ASSUME NEW b \in Blocks, Write(b) PROVE Clean'
  BY <1>1, <1>g DEF Write, backendVars, engineVars, sweepVars, histVars
<1>2. CASE StartDrain
  BY <1>2, <1>g DEF StartDrain, Rotate, backendVars, engineVars, sweepVars, histVars
<1>3. ASSUME NEW j \in jobs, Put(j) PROVE Clean'
  BY <1>3, <1>g DEF Put, backendVars, engineVars, sweepVars, histVars
<1>4. CASE PutFails
  <2>1. CASE drain = "recover"
    BY <1>4, <2>1, <1>d DEF PutFails, Forget
  <2>2. CASE drain # "recover"
    BY <1>4, <2>2, <1>g DEF PutFails, sweepVars, histVars
  <2>3. QED BY <2>1, <2>2
<1>5. ASSUME NEW c \in inflight, InsertEntries(c) PROVE Clean'
  <2>1. Loaded' = Loaded /\ dirty' /\ gc' = gc
    BY <1>5, LoadedAfter DEF InsertEntries, backendVars, sweepVars
  <2>2. gc \notin {"idle", "drain"} => beside' = beside \cup (Named(lookup) \ Named(lookup'))
    BY <1>5 DEF InsertEntries
  <2>3. Named(lookup)' = Named(lookup')
    BY DEF Named
  <2>4. QED BY <2>1, <2>2, <2>3 DEF Clean
<1>6. CASE EndDrain
  <2>1. phase # "down" /\ UNCHANGED <<lookup, phase, beside, numbered, config>>
    BY <1>6 DEF EndDrain, Phases, histVars
  <2>2. CASE failed
    <3>1. UNCHANGED <<live, dirty>>
      BY <1>6, <2>2 DEF EndDrain
    <3>2. gc' \in {gc, "idle"}
      BY <1>6, <2>2 DEF EndDrain, AfterDrain
    <3>3. QED BY <2>1, <3>1, <3>2, <1>q
  <2>3. CASE ~failed /\ ~dirty'
    <3>1. live' = {lookup} \/ (live' = live /\ ~dirty)
      BY <1>6, <2>3 DEF EndDrain
    <3>2. Loaded' = lookup
      BY <2>1, <3>1, LoadedAfter DEF Clean
    <3>3. QED BY <2>1, <3>2 DEF Clean
  <2>4. CASE ~failed /\ dirty'
    <3>1. gc' \in {gc, "idle"}
      BY <1>6, <2>4 DEF EndDrain, AfterDrain
    <3>2. Loaded' \in {Loaded, lookup}
      BY <1>6, LoadedSaved
    <3>3. QED BY <2>1, <2>4, <3>1, <3>2 DEF Clean
  <2>5. QED BY <2>2, <2>3, <2>4
<1>7. CASE GCTick
  BY <1>7, <1>q DEF GCTick, Rotate, backendVars, histVars
<1>8. CASE SnapshotSafe
  BY <1>8, <1>q DEF SnapshotSafe, SweepOnly, backendVars, engineVars, drainVars,
    cacheVars, snapVars, histVars
<1>9. CASE ScanForOwnSnapshots
  BY <1>9, <1>q DEF ScanForOwnSnapshots, backendVars, engineVars, drainVars, histVars
<1>10. CASE ListChunks
  BY <1>10, <1>q DEF ListChunks, SweepOnly, backendVars, engineVars, drainVars, cacheVars,
    snapVars, histVars
<1>11. CASE MergeListed
  BY <1>11, <1>q DEF MergeListed, backendVars, drainVars, snapVars, histVars
<1>12. CASE EnsureGCFloor
  BY <1>12, <1>q DEF EnsureGCFloor, SweepOnly, backendVars, engineVars, drainVars,
    snapVars, histVars
<1>13. CASE Collect
  BY <1>13, <1>q DEF Collect, backendVars, engineVars, drainVars, cacheVars, snapVars
<1>14. CASE MarkerMoved
  BY <1>14, <1>q DEF MarkerMoved, backendVars, engineVars, drainVars, histVars
<1>15. CASE DeleteChunkObjects
  BY <1>15, <1>q DEF DeleteChunkObjects, drainVars, cacheVars, snapVars, histVars
<1>16. CASE BeginOwn
  BY <1>16, <1>g DEF BeginOwn, SnapOnly, backendVars, engineVars, sweepVars, histVars
<1>17. CASE DrainForSnapshot
  BY <1>17, <1>g DEF DrainForSnapshot, Rotate, backendVars, engineVars, sweepVars,
    histVars
<1>18. CASE Freeze
  BY <1>18, <1>g DEF Freeze, SnapOnly, backendVars, engineVars, sweepVars, histVars
<1>19. CASE DaemonLoads
  BY <1>19, <1>g DEF DaemonLoads, SnapOnly, backendVars, engineVars, sweepVars, histVars
<1>20. CASE DaemonMarks
  BY <1>20, <1>g DEF DaemonMarks, SnapOnly, backendVars, engineVars, sweepVars, histVars
<1>21. CASE FinishSnapshot
  BY <1>21, <1>g DEF FinishSnapshot, SnapOnly, backendVars, engineVars, sweepVars,
    histVars
<1>22. CASE Open
  <2>1. Loaded' = Loaded /\ lookup' = Loaded /\ gc' = "idle"
    BY <1>22, LoadedAfter DEF Open, Phases, backendVars, sweepVars
  <2>2. QED BY <2>1 DEF Clean
<1>23. CASE EndRecovery
  <2>1. CASE SaveFails
    BY <2>1, <1>d DEF SaveFails, Forget
  <2>2. CASE ~SaveFails
    <3>1. /\ gc' = "idle" /\ lookup' = lookup /\ phase # "down" /\ phase' # "down"
          /\ live' = {lookup} \/ dirty' = dirty
      BY <1>23, <2>2 DEF EndRecovery, Phases, sweepVars
    <3>2. Loaded' \in {Loaded, lookup} /\ (live' = {lookup} => Loaded' = lookup)
      BY <1>23, <3>1, LoadedSaved, LoadedAfter
    <3>3. QED BY <3>1, <3>2 DEF Clean
  <2>3. QED BY <2>1, <2>2
<1>24. CASE StartClose
  BY <1>24, <1>q DEF StartClose, Rotate, backendVars, sweepVars, histVars
<1>25. CASE EndClose
  BY <1>25, <1>d DEF EndClose, SaveFails, Forget
<1>26. CASE Crash
  BY <1>26, <1>d DEF Crash, Forget
<1>27. CASE UNCHANGED vars
  BY <1>27, <1>g DEF vars, backendVars, engineVars, sweepVars, histVars
<1>28. QED BY <1>1, <1>2, <1>3, <1>4, <1>5, <1>6, <1>7, <1>8, <1>9, <1>10, <1>11, <1>12,
    <1>13, <1>14, <1>15, <1>16, <1>17, <1>18, <1>19, <1>20, <1>21, <1>22, <1>23, <1>24,
    <1>25, <1>26, <1>27 DEF Next, Drain, Sweep, Snapshot, Lifecycle

\* The candidates stay above the floor and apart from the map.
LEMMA CandidatesStep == IInv /\ [Next]_vars => Candidates'
<1> SUFFICES ASSUME IInv, [Next]_vars PROVE Candidates'
  OBVIOUS
<1>0. BackendTypes /\ EngineTypes /\ SweepTypes /\ Phases /\ Candidates
  BY DEF IInv
<1>t. objNum \in Nat /\ cand \subseteq Nat /\ mark \in Nat /\ counted \subseteq Nat
  BY <1>0 DEF EngineTypes, SweepTypes
<1> USE <1>0, <1>t
<1>n. ASSUME UNCHANGED <<wall, numbered>> PROVE FloorNow' = FloorNow
  BY <1>n DEF FloorNow, FloorOf, Named
<1>p. /\ (lookup' = lookup => Named(lookup)' = Named(lookup))
      /\ (inflight' = inflight => PendingIds' = PendingIds)
  BY DEF Named, PendingIds
<1>q. ASSUME UNCHANGED <<wall, numbered, lookup, inflight, floor, cand, mark, raced>>,
             objNum' \in {objNum, objNum + 1},
             gc' \in {"collect", "marker", "delete"} => gc' = gc,
             gc' \notin {"marker", "delete"} => cand = {}
      PROVE  Candidates'
  BY <1>q, <1>n, <1>p DEF Candidates
<1>i. ASSUME cand' = {}, floor' = NotReady, gc' = "idle" PROVE Candidates'
  BY <1>i DEF Candidates
<1>g. ASSUME UNCHANGED <<wall, numbered, lookup, inflight, floor, cand, mark, raced, objNum, gc>>
      PROVE  Candidates'
  BY <1>g, <1>q DEF Candidates
<1>1. ASSUME NEW b \in Blocks, Write(b) PROVE Candidates'
  BY <1>1, <1>g DEF Write, backendVars, engineVars, drainVars, sweepVars, cacheVars,
    histVars
<1>2. CASE StartDrain
  BY <1>2, <1>g DEF StartDrain, Rotate, backendVars, engineVars, drainVars, sweepVars,
    cacheVars, histVars
<1>3. ASSUME NEW j \in jobs, Put(j) PROVE Candidates'
  <2> DEFINE n == [id |-> objNum, blocks |-> j]
  <2>1. /\ n.id = objNum /\ inflight' = inflight \cup {n} /\ objNum' = objNum + 1
        /\ UNCHANGED <<wall, numbered, lookup, floor, cand, mark, raced, gc>>
    BY <1>3 DEF Put, sweepVars, cacheVars, histVars
  <2> HIDE DEF n
  <2>2. PendingIds' = PendingIds \cup {objNum} /\ objNum \notin cand
    BY <2>1 DEF PendingIds, Candidates
  <2>3. QED BY <2>1, <2>2, <1>n, <1>p DEF Candidates
<1>4. CASE PutFails
  <2>1. CASE drain = "recover"
    BY <1>4, <2>1, <1>i DEF PutFails, Forget
  <2>2. CASE drain # "recover"
    BY <1>4, <2>2, <1>q DEF PutFails, Candidates, sweepVars, cacheVars, histVars
  <2>3. QED BY <2>1, <2>2
<1>5. ASSUME NEW c \in inflight, InsertEntries(c) PROVE Candidates'
  <2>1. PICK moved \in SUBSET c.blocks :
            lookup' = [b \in Blocks |-> IF b \in moved THEN c.id ELSE lookup[b]]
    BY <1>5 DEF InsertEntries
  <2>2. c \in inflight /\ inflight' = inflight \ {c}
        /\ UNCHANGED <<wall, numbered, floor, cand, mark, raced, gc, objNum>>
    BY <1>5 DEF InsertEntries, backendVars, sweepVars, cacheVars
  <2>3. Named(lookup)' \subseteq Named(lookup) \cup {c.id}
    BY <2>1 DEF Named
  <2>4. PendingIds' \subseteq PendingIds /\ c.id \in PendingIds
    BY <2>2 DEF PendingIds
  <2>5. QED BY <2>2, <2>3, <2>4, <1>n DEF Candidates
<1>6. CASE EndDrain
  <2>1. /\ UNCHANGED <<wall, numbered, lookup, inflight, floor, cand, mark, raced, objNum>>
        /\ gc' \in {gc, "check", "idle"} /\ (gc' # gc => gc \in {"idle", "drain"})
    BY <1>6 DEF EndDrain, AfterDrain, Phases, cacheVars, histVars
  <2>2. QED BY <2>1, <1>q DEF Candidates
<1>7. CASE GCTick
  BY <1>7, <1>q DEF GCTick, Rotate, Candidates, backendVars, cacheVars, histVars
<1>8. CASE SnapshotSafe
  <2>1. gc = "check" /\ gc' \in {"idle", "list", "scan"}
    BY <1>8 DEF SnapshotSafe, SweepTypes
  <2>2. QED BY <1>8, <2>1, <1>q DEF SnapshotSafe, SweepOnly, Candidates, backendVars, engineVars,
              drainVars, cacheVars, histVars
<1>9. CASE ScanForOwnSnapshots
  BY <1>9, <1>q DEF ScanForOwnSnapshots, Candidates, backendVars, engineVars, drainVars,
    histVars
<1>10. CASE ListChunks
  BY <1>10, <1>q DEF ListChunks, SweepOnly, Candidates, backendVars, engineVars, drainVars,
    cacheVars, snapVars, histVars
<1>11. CASE MergeListed
  BY <1>11, <1>q DEF MergeListed, Candidates, backendVars, drainVars, snapVars, histVars
<1>12. CASE EnsureGCFloor
  <2>1. /\ UNCHANGED <<wall, numbered, lookup, inflight, cand, raced, objNum>>
        /\ gc = "floor" /\ gc' = "collect"
    BY <1>12 DEF EnsureGCFloor, SweepOnly, backendVars, engineVars, drainVars, histVars
  <2>2. \/ floor' = (IF floor # NotReady THEN floor ELSE FloorNow) /\ mark' = objNum
        \/ floor' = floor /\ mark' = 0
    BY <1>12 DEF EnsureGCFloor, FloorNow
  <2>3. QED BY <2>1, <2>2, <1>n, <1>p DEF Candidates
<1>13. CASE Collect
  <2>1. /\ UNCHANGED <<wall, numbered, lookup, inflight, floor, objNum>>
        /\ gc = "collect" /\ gc' = "marker"
        /\ cand' = {id \in counted \ Named(lookup) : floor <= id /\ id < mark}
        /\ raced' = raced \cup (cand' \cap PendingIds)
    BY <1>13 DEF Collect, PendingIds, backendVars, engineVars, drainVars, cacheVars
  <2>2. ASSUME NEW id \in cand' PROVE FloorNow <= id /\ id < objNum /\ id \notin Named(lookup)
    <3>1. id \in Nat /\ floor <= id /\ id < mark /\ id \notin Named(lookup)
      BY <2>1
    <3>2. mark # 0 /\ mark <= objNum
      BY <2>1, <3>1 DEF Candidates
    <3>3. QED BY <2>1, <3>1, <3>2 DEF Candidates
  <2>3. QED BY <2>1, <2>2, <1>n, <1>p DEF Candidates
<1>14. CASE MarkerMoved
  <2>1. /\ UNCHANGED <<wall, numbered, lookup, inflight, floor, mark, raced, objNum>>
        /\ gc = "marker" /\ ((gc' = "idle" /\ cand' = {}) \/ (gc' = "delete" /\ cand' = cand))
    BY <1>14 DEF MarkerMoved, backendVars, engineVars, drainVars, histVars
  <2>2. QED BY <2>1, <1>n, <1>p DEF Candidates
<1>15. CASE DeleteChunkObjects
  <2>1. /\ UNCHANGED <<wall, numbered, lookup, inflight, floor, mark, raced, objNum>>
        /\ gc = "delete" /\ cand' \subseteq cand
        /\ gc' = "delete" \/ (gc' = "idle" /\ cand' = {})
    BY <1>15 DEF DeleteChunkObjects, drainVars, cacheVars, histVars
  <2>2. QED BY <2>1, <1>n, <1>p DEF Candidates
<1>16. CASE BeginOwn
  BY <1>16, <1>g DEF BeginOwn, SnapOnly, backendVars, engineVars, drainVars, sweepVars,
    cacheVars, histVars
<1>17. CASE DrainForSnapshot
  BY <1>17, <1>g DEF DrainForSnapshot, Rotate, backendVars, engineVars, drainVars,
    sweepVars, cacheVars, histVars
<1>18. CASE Freeze
  BY <1>18, <1>g DEF Freeze, SnapOnly, backendVars, engineVars, drainVars, sweepVars,
    cacheVars, histVars
<1>19. CASE DaemonLoads
  BY <1>19, <1>g DEF DaemonLoads, SnapOnly, backendVars, engineVars, drainVars,
    sweepVars, cacheVars, histVars
<1>20. CASE DaemonMarks
  BY <1>20, <1>g DEF DaemonMarks, SnapOnly, backendVars, engineVars, drainVars,
    sweepVars, cacheVars, histVars
<1>21. CASE FinishSnapshot
  BY <1>21, <1>g DEF FinishSnapshot, SnapOnly, backendVars, engineVars, drainVars,
    sweepVars, cacheVars, histVars
<1>22. CASE Open
  <2>1. cand' = {} /\ floor' = NotReady /\ gc' = "idle"
    BY <1>22 DEF Open, Phases, Candidates, sweepVars, cacheVars
  <2>2. QED BY <2>1, <1>i
<1>23. CASE EndRecovery
  <2>1. cand' = {} /\ floor' = NotReady /\ gc' = "idle"
    BY <1>23 DEF EndRecovery, SaveFails, Forget, Phases, Candidates, sweepVars, cacheVars
  <2>2. QED BY <2>1, <1>i
<1>24. CASE StartClose
  BY <1>24, <1>g DEF StartClose, Rotate, backendVars, engineVars, drainVars, sweepVars,
    cacheVars, histVars
<1>25. CASE EndClose
  BY <1>25, <1>i DEF EndClose, SaveFails, Forget
<1>26. CASE Crash
  BY <1>26, <1>i DEF Crash, Forget
<1>27. CASE UNCHANGED vars
  BY <1>27, <1>g DEF vars, backendVars, engineVars, drainVars, sweepVars, cacheVars,
    histVars
<1>28. QED BY <1>1, <1>2, <1>3, <1>4, <1>5, <1>6, <1>7, <1>8, <1>9, <1>10, <1>11, <1>12,
    <1>13, <1>14, <1>15, <1>16, <1>17, <1>18, <1>19, <1>20, <1>21, <1>22, <1>23, <1>24,
    <1>25, <1>26, <1>27 DEF Next, Drain, Sweep, Snapshot, Lifecycle

\* The marker keeps telling a sweep of the snapshots it has not scanned.
LEMMA MarkersStep == IInv /\ [Next]_vars => Markers'
<1> SUFFICES ASSUME IInv, [Next]_vars PROVE Markers'
  OBVIOUS
<1>0. BackendTypes /\ EngineTypes /\ SweepTypes /\ SnapTypes /\ Phases /\ Markers
  BY DEF IInv
<1>t. /\ marker \in Nat /\ baseline \in Nat /\ seen \in Nat
      /\ gc \in {"idle", "drain", "check", "scan", "list", "merge", "floor", "collect",
                "marker", "delete"}
      /\ sp \in {"idle", "loaded", "marked", "draining", "drained", "frozen"}
      /\ skind \in {"own", "daemon"} /\ scan \in {"unknown", "safe", "unsafe"}
  BY <1>0 DEF BackendTypes, SweepTypes, SnapTypes
<1> USE <1>0, <1>t
<1>g. ASSUME UNCHANGED <<gc, seen, marker, baseline, scan, snaps, sp, skind, sgap>> PROVE Markers'
  BY <1>g DEF Markers
<1>1. ASSUME NEW b \in Blocks, Write(b) PROVE Markers'
  BY <1>1, <1>g DEF Write, backendVars, sweepVars, cacheVars, snapVars
<1>2. CASE StartDrain
  BY <1>2, <1>g DEF StartDrain, backendVars, sweepVars, cacheVars, snapVars
<1>3. ASSUME NEW j \in jobs, Put(j) PROVE Markers'
  BY <1>3, <1>g DEF Put, backendVars, sweepVars, cacheVars, snapVars
<1>4. CASE PutFails
  BY <1>4 DEF PutFails, Forget, Markers, sweepVars, cacheVars, snapVars, histVars
<1>5. ASSUME NEW c \in inflight, InsertEntries(c) PROVE Markers'
  BY <1>5, <1>g DEF InsertEntries, backendVars, sweepVars, cacheVars, snapVars
<1>6. CASE EndDrain
  BY <1>6 DEF EndDrain, AfterDrain, Markers, Phases, cacheVars, histVars
<1>7. CASE GCTick
  BY <1>7 DEF GCTick, Rotate, Markers, backendVars, cacheVars, snapVars, histVars
<1>8. CASE SnapshotSafe
  <2>1. /\ UNCHANGED <<baseline, marker, scan, snaps, sp, skind, sgap>> /\ gc = "check"
        /\ \/ gc' = "idle"
           \/ gc' = "list" /\ scan = "safe"
           \/ gc' = "scan" /\ ~latched /\ seen' = marker
    BY <1>8 DEF SnapshotSafe, SweepOnly, SweepTypes, backendVars, cacheVars, snapVars
  <2>2. QED BY <2>1 DEF Markers, Phases
<1>9. CASE ScanForOwnSnapshots
  <2>1. CASE gc' = "idle"
    <3>1. gc = "scan" /\ baseline' \in {baseline, seen} /\ UNCHANGED <<marker, snaps, sp, skind>>
      BY <1>9, <2>1 DEF ScanForOwnSnapshots, backendVars
    <3>2. scan' = "safe" => UNCHANGED <<scan, baseline, sgap>>
      BY <1>9, <2>1 DEF ScanForOwnSnapshots
    <3>3. QED BY <2>1, <3>1, <3>2 DEF Markers
  <2>2. CASE gc' # "idle"
    <3>1. /\ snaps = {} /\ gc = "scan" /\ gc' = "list" /\ scan' = "safe" /\ baseline' = seen
          /\ UNCHANGED <<marker, snaps, sp, skind>>
      BY <1>9, <2>2 DEF ScanForOwnSnapshots, backendVars
    <3>2. (sp = "frozen" /\ marker = seen) => sgap'
      BY <1>9, <2>2 DEF ScanForOwnSnapshots
    <3>3. QED BY <3>1, <3>2 DEF Markers
  <2>3. QED BY <2>1, <2>2
<1>10. CASE ListChunks
  BY <1>10 DEF ListChunks, SweepOnly, Markers, backendVars, engineVars, drainVars,
    cacheVars, snapVars, histVars
<1>11. CASE MergeListed
  BY <1>11 DEF MergeListed, Markers, backendVars, drainVars, snapVars, histVars
<1>12. CASE EnsureGCFloor
  BY <1>12 DEF EnsureGCFloor, SweepOnly, Markers, backendVars, engineVars, drainVars,
    snapVars, histVars
<1>13. CASE Collect
  BY <1>13 DEF Collect, Markers, backendVars, engineVars, drainVars, cacheVars, snapVars
<1>14. CASE MarkerMoved
  <2>1. /\ UNCHANGED <<seen, marker, baseline, scan, snaps, sp, skind>>
        /\ gc = "marker" /\ gc' \in {"idle", "delete"}
    BY <1>14 DEF MarkerMoved, backendVars
  <2>2. sgap => sgap'
    BY <1>14 DEF MarkerMoved
  <2>3. QED BY <2>1, <2>2 DEF Markers
<1>15. CASE DeleteChunkObjects
  BY <1>15 DEF DeleteChunkObjects, Markers, drainVars, cacheVars, snapVars, histVars
<1>16. CASE BeginOwn
  BY <1>16 DEF BeginOwn, SnapOnly, PutMarker, Markers, engineVars, drainVars, sweepVars,
    histVars
<1>17. CASE DrainForSnapshot
  BY <1>17 DEF DrainForSnapshot, Rotate, Markers, Phases, backendVars, sweepVars,
    cacheVars, histVars
<1>18. CASE Freeze
  BY <1>18 DEF Freeze, SnapOnly, Markers, Phases, engineVars, drainVars, sweepVars,
    histVars
<1>19. CASE DaemonLoads
  BY <1>19 DEF DaemonLoads, SnapOnly, Markers, engineVars, drainVars, sweepVars, histVars
<1>20. CASE DaemonMarks
  BY <1>20 DEF DaemonMarks, SnapOnly, PutMarker, Markers, engineVars, drainVars, sweepVars,
    histVars
<1>21. CASE FinishSnapshot
  <2> DEFINE r == [map |-> smap, gap |-> sgap, saved |-> ssaved]
  <2>1. r.gap = sgap
    OBVIOUS
  <2>2. /\ sp = "frozen" /\ sp' = "idle" /\ snaps' \subseteq snaps \cup {r}
        /\ UNCHANGED <<gc, seen, marker, baseline, scan>>
    BY <1>21 DEF FinishSnapshot, SnapOnly, sweepVars
  <2> HIDE DEF r
  <2>3. QED BY <2>1, <2>2 DEF Markers
<1>22. CASE Open
  BY <1>22 DEF Open, Markers, Phases, backendVars, sweepVars, cacheVars, snapVars, histVars
<1>23. CASE EndRecovery
  BY <1>23 DEF EndRecovery, SaveFails, Forget, Markers, Phases, sweepVars, cacheVars,
    snapVars, histVars
<1>24. CASE StartClose
  BY <1>24, <1>g DEF StartClose, backendVars, sweepVars, cacheVars, snapVars
<1>25. CASE EndClose
  BY <1>25 DEF EndClose, SaveFails, Forget, Markers, snapVars, histVars
<1>26. CASE Crash
  BY <1>26 DEF Crash, Forget, Markers, backendVars, histVars
<1>27. CASE UNCHANGED vars
  BY <1>27, <1>g DEF vars, backendVars, sweepVars, cacheVars, snapVars
<1>28. QED BY <1>1, <1>2, <1>3, <1>4, <1>5, <1>6, <1>7, <1>8, <1>9, <1>10, <1>11, <1>12,
    <1>13, <1>14, <1>15, <1>16, <1>17, <1>18, <1>19, <1>20, <1>21, <1>22, <1>23, <1>24,
    <1>25, <1>26, <1>27 DEF Next, Drain, Sweep, Snapshot, Lifecycle

\* What is being deleted stays out of the snapshots.
LEMMA DeleteSafeStep == IInv /\ [Next]_vars => DeleteSafe'
<1> SUFFICES ASSUME IInv, [Next]_vars PROVE DeleteSafe'
  OBVIOUS
<1>0. EngineTypes /\ SweepTypes /\ SnapTypes /\ Phases /\ Clean /\ Candidates /\ Markers
      /\ DeleteSafe
  BY DEF IInv
<1>t. sp \in {"idle", "loaded", "marked", "draining", "drained", "frozen"}
  BY <1>0 DEF SnapTypes
<1> USE <1>0, <1>t
<1>m. smap' = smap => Named(smap)' = Named(smap)
  BY DEF Named
<1>n. ASSUME gc' # "delete" PROVE DeleteSafe'
  BY <1>n DEF DeleteSafe
<1>g. ASSUME UNCHANGED <<gc, cand, snaps, sp, smap, sgap, raced, beside>> PROVE DeleteSafe'
  BY <1>g, <1>m DEF DeleteSafe
<1>1. ASSUME NEW b \in Blocks, Write(b) PROVE DeleteSafe'
  BY <1>1, <1>g DEF Write, backendVars, sweepVars, snapVars, histVars
<1>2. CASE StartDrain
  BY <1>2, <1>g DEF StartDrain, backendVars, sweepVars, snapVars, histVars
<1>3. ASSUME NEW j \in jobs, Put(j) PROVE DeleteSafe'
  BY <1>3, <1>g DEF Put, backendVars, sweepVars, snapVars, histVars
<1>4. CASE PutFails
  <2>1. CASE drain = "recover"
    BY <1>4, <2>1, <1>n DEF PutFails, Forget
  <2>2. CASE drain # "recover"
    BY <1>4, <2>2, <1>g DEF PutFails, sweepVars, snapVars, histVars
  <2>3. QED BY <2>1, <2>2
<1>5. ASSUME NEW c \in inflight, InsertEntries(c) PROVE DeleteSafe'
  <2>1. UNCHANGED <<gc, cand, snaps, sp, smap, sgap, raced>> /\ beside \subseteq beside'
    BY <1>5 DEF InsertEntries, backendVars, sweepVars, snapVars
  <2>2. QED BY <2>1, <1>m DEF DeleteSafe
<1>6. CASE EndDrain
  <2>1. /\ UNCHANGED <<cand, snaps, smap, sgap, raced, beside>> /\ (gc' = "delete" => gc = "delete")
        /\ sp' \in {"loaded", "frozen"} => sp' = sp
    BY <1>6 DEF EndDrain, AfterDrain, histVars
  <2>2. QED BY <2>1, <1>m DEF DeleteSafe
<1>7. CASE GCTick
  BY <1>7, <1>n DEF GCTick
<1>8. CASE SnapshotSafe
  BY <1>8, <1>n DEF SnapshotSafe, SweepTypes
<1>9. CASE ScanForOwnSnapshots
  BY <1>9, <1>n DEF ScanForOwnSnapshots
<1>10. CASE ListChunks
  BY <1>10, <1>n DEF ListChunks
<1>11. CASE MergeListed
  BY <1>11, <1>n DEF MergeListed
<1>12. CASE EnsureGCFloor
  BY <1>12, <1>n DEF EnsureGCFloor
<1>13. CASE Collect
  BY <1>13, <1>n DEF Collect
<1>14. CASE MarkerMoved
  <2>1. CASE gc' # "delete"
    BY <2>1, <1>n
  <2>2. CASE gc' = "delete"
    <3>1. /\ marker = baseline /\ scan = "safe" /\ UNCHANGED <<cand, snaps, sp, smap, raced, beside>>
          /\ sgap' = (sgap \/ (sp = "loaded" /\ cand \cap Named(smap) # {}))
      BY <1>14, <2>2 DEF MarkerMoved, Markers, backendVars, histVars
    <3>2. /\ \A s \in snaps : s.gap
          /\ sp \in {"loaded", "frozen"} /\ ~sgap' => cand \cap Named(smap) = {}
      BY <3>1 DEF Markers
    <3>3. QED BY <3>1, <3>2, <1>m DEF DeleteSafe
  <2>3. QED BY <2>1, <2>2
<1>15. CASE DeleteChunkObjects
  <2>1. UNCHANGED <<snaps, sp, smap, sgap, raced, beside>> /\ cand' \subseteq cand /\ gc = "delete"
    BY <1>15 DEF DeleteChunkObjects, snapVars, histVars
  <2>2. QED BY <2>1, <1>m DEF DeleteSafe
<1>16. CASE BeginOwn
  BY <1>16 DEF BeginOwn, PutMarker, SnapOnly, DeleteSafe, sweepVars, histVars
<1>17. CASE DrainForSnapshot
  BY <1>17 DEF DrainForSnapshot, DeleteSafe, backendVars, sweepVars, histVars
<1>18. CASE Freeze
  <2>1. UNCHANGED <<gc, cand, snaps, raced, beside>> /\ smap' = lookup
    BY <1>18 DEF Freeze, SnapOnly, sweepVars, histVars
  <2>2. Named(smap)' = Named(lookup)
    BY <2>1 DEF Named
  <2>3. cand \cap Named(lookup) \subseteq raced
    BY DEF Candidates
  <2>4. QED BY <2>1, <2>2, <2>3 DEF DeleteSafe
<1>19. CASE DaemonLoads
  <2>1. UNCHANGED <<gc, cand, snaps, raced, beside>> /\ smap' = Loaded
    BY <1>19 DEF DaemonLoads, SnapOnly, sweepVars, histVars
  <2>2. Named(smap)' = Named(Loaded)
    BY <2>1 DEF Named
  <2>3. gc = "delete" => cand \cap Named(Loaded) \subseteq raced \cup beside
    BY DEF Candidates, Clean
  <2>4. QED BY <2>1, <2>2, <2>3 DEF DeleteSafe
<1>20. CASE DaemonMarks
  <2>1. UNCHANGED <<gc, cand, snaps, smap, sgap, raced, beside>> /\ sp = "loaded"
    BY <1>20 DEF DaemonMarks, SnapOnly, sweepVars, histVars
  <2>2. QED BY <2>1, <1>m DEF DeleteSafe
<1>21. CASE FinishSnapshot
  <2> DEFINE r == [map |-> smap, gap |-> sgap, saved |-> ssaved]
  <2>1. r.gap = sgap /\ r.map = smap
    OBVIOUS
  <2>2. /\ sp = "frozen" /\ sp' = "idle" /\ snaps' \subseteq snaps \cup {r}
        /\ UNCHANGED <<gc, cand, raced, beside>>
    BY <1>21 DEF FinishSnapshot, SnapOnly, sweepVars, histVars
  <2> HIDE DEF r
  <2>3. QED BY <2>1, <2>2 DEF DeleteSafe
<1>22. CASE Open
  <2>1. gc' # "delete"
    BY <1>22 DEF Open, Phases, sweepVars
  <2>2. QED BY <2>1, <1>n
<1>23. CASE EndRecovery
  <2>1. gc' # "delete"
    BY <1>23 DEF EndRecovery, SaveFails, Forget, Phases, sweepVars
  <2>2. QED BY <2>1, <1>n
<1>24. CASE StartClose
  BY <1>24, <1>g DEF StartClose, backendVars, sweepVars, snapVars, histVars
<1>25. CASE EndClose
  BY <1>25, <1>n DEF EndClose, SaveFails, Forget
<1>26. CASE Crash
  BY <1>26, <1>n DEF Crash, Forget
<1>27. CASE UNCHANGED vars
  BY <1>27, <1>g DEF vars, backendVars, sweepVars, snapVars, histVars
<1>28. QED BY <1>1, <1>2, <1>3, <1>4, <1>5, <1>6, <1>7, <1>8, <1>9, <1>10, <1>11, <1>12,
    <1>13, <1>14, <1>15, <1>16, <1>17, <1>18, <1>19, <1>20, <1>21, <1>22, <1>23, <1>24,
    <1>25, <1>26, <1>27 DEF Next, Drain, Sweep, Snapshot, Lifecycle

\* The invariant is inductive.
LEMMA IInvStep == IInv /\ [Next]_vars => IInv'
BY BackendStep, EngineStep, SweepStep, SnapStep, PhasesStep, DisjointStep, CountsStep,
   InBoundsStep, IdsStep, SavedBelowStep, CleanStep, CandidatesStep, MarkersStep,
   DeleteSafeStep DEF IInv

\* The invariant holds at the start.
LEMMA IInvInit == Init => IInv
<1> SUFFICES ASSUME Init PROVE IInv
  OBVIOUS
<1>e. Empty \in EntryMap /\ \A b \in Blocks : Empty[b] = 0
  BY DEF Empty, EntryMap
<1>1. BackendTypes
  <2>1. config \in [wall : Nat, obj : Nat \ {0}]
    BY DEF Init
  <2>2. DOMAIN numbered = {}
    BY DEF Init
  <2>3. QED BY <2>1, <2>2 DEF Init, BackendTypes
<1>2. EngineTypes
  <2>1. dirty \in BOOLEAN /\ failed \in BOOLEAN
    BY DEF Init
  <2>2. lookup \in EntryMap /\ objNum \in Nat \ {0} /\ wall \in Nat
    BY <1>e DEF Init
  <2>3. QED BY <2>1, <2>2 DEF Init, EngineTypes
<1>3. SweepTypes
  <2>1. floor \in 0..NotReady
    BY LimitType DEF Init
  <2>2. QED BY <2>1 DEF Init, SweepTypes
<1>4. SnapTypes
  BY <1>e DEF Init, SnapTypes
<1>5. Phases /\ Disjoint /\ InBounds
  BY DEF Init, Phases, Disjoint, InBounds
<1>6. Counts
  <2>1. objNum = 1 /\ todo = {} /\ UNION jobs = {}
    BY DEF Init
  <2>2. QED BY <2>1, CardType, LimitType, GCBoundAssumption DEF Counts, Limit
<1>7. Ids /\ SavedBelow /\ Clean
  BY DEF Init, Ids, SavedBelow, Clean
<1>8. Candidates /\ Markers /\ DeleteSafe
  BY DEF Init, Candidates, Markers, DeleteSafe
<1>9. QED BY <1>1, <1>2, <1>3, <1>4, <1>5, <1>6, <1>7, <1>8 DEF IInv

-----------------------------------------------------------------------------
(* The theorems.                                                           *)

\* Every behaviour keeps the invariant.
LEMMA Inductive == Spec => []IInv
<1>1. Init => IInv
  BY IInvInit
<1>2. IInv /\ [Next]_vars => IInv'
  BY IInvStep
<1>3. QED BY <1>1, <1>2, PTL DEF Spec

\* The backend, the engine, the sweep and the snapshot call keep their types,
\* whatever fails: drainMu has one holder, a sweep's drain is its own, and the
\* floor of a sweep is a number below "not ready".
THEOREM GCTypeCorrect == Spec => []TypeOK
<1>1. IInv => TypeOK
  BY DEF IInv, BackendTypes, EngineTypes, SweepTypes, SnapTypes, Phases, TypeOK, EntryMap
<1>2. QED BY <1>1, Inductive, PTL

\* An engine that is up never hands out an ObjectID that its map, a checkpoint
\* or a snapshot refers to (parseBlockCheckpoint, createChunkFile): through
\* failed PUTs, crashes at any step and a Close or recovery one of whose saves
\* failed, because ObjectNum at the next open is above every such id.
THEOREM ObjectIDsNotReissued == Spec => []IDsNotReissued
<1>1. IInv => IDsNotReissued
  <2> SUFFICES ASSUME IInv, phase # "down"
               PROVE  /\ \A id \in Named(lookup) \cup Named(Loaded) : id < objNum
                      /\ \A s \in snaps : s.saved => \A id \in Named(s.map) : id < objNum
    BY DEF IDsNotReissued
  <2>0. BackendTypes /\ EngineTypes /\ Ids /\ SavedBelow
    BY DEF IInv
  <2>1. /\ objNum \in Nat \ {0} /\ config.obj \in Nat
        /\ \A b \in Blocks : lookup[b] \in Nat /\ Loaded[b] \in Nat
    BY <2>0, IdTypes
  <2>2. config.obj <= objNum /\ \A b \in Blocks : lookup[b] < objNum /\ Loaded[b] <= lookup[b]
    BY <2>0 DEF Ids
  <2>3. \A b \in Blocks : Loaded[b] < objNum
    BY <2>1, <2>2
  <2>4. \A id \in Nat : Below(id) => id < objNum
    BY <2>1, <2>2, <2>3 DEF Below
  <2>5. \A id \in Named(lookup) \cup Named(Loaded) : id < objNum
    BY <2>2, <2>3 DEF Named
  <2>6. \A s \in snaps : \A b \in Blocks : s.map[b] \in Nat
    BY <2>0 DEF BackendTypes, SnapRec, EntryMap
  <2>7. \A s \in snaps : s.saved => \A id \in Named(s.map) : id < objNum
    BY <2>0, <2>4, <2>6 DEF SavedBelow, Named
  <2>8. QED BY <2>5, <2>7
<1>2. QED BY <1>1, Inductive, PTL

\* An object that a step takes away is one of the sweep's candidates.
LEMMA OnlyCandidatesGo ==
    ASSUME IInv, [Next]_vars
    PROVE  objects \ objects' \subseteq cand
<1>1. ASSUME NEW b \in Blocks, Write(b) PROVE objects \ objects' \subseteq cand
  BY <1>1 DEF Write, backendVars
<1>2. CASE StartDrain
  BY <1>2 DEF StartDrain, backendVars
<1>3. ASSUME NEW j \in jobs, Put(j) PROVE objects \ objects' \subseteq cand
  BY <1>3 DEF Put
<1>4. CASE PutFails
  BY <1>4 DEF PutFails
<1>5. ASSUME NEW c \in inflight, InsertEntries(c) PROVE objects \ objects' \subseteq cand
  BY <1>5 DEF InsertEntries, backendVars
<1>6. CASE EndDrain
  BY <1>6 DEF EndDrain
<1>7. CASE GCTick
  BY <1>7 DEF GCTick, backendVars
<1>8. CASE SnapshotSafe
  BY <1>8 DEF SnapshotSafe, SweepOnly, backendVars
<1>9. CASE ScanForOwnSnapshots
  BY <1>9 DEF ScanForOwnSnapshots, backendVars
<1>10. CASE ListChunks
  BY <1>10 DEF ListChunks, SweepOnly, backendVars
<1>11. CASE MergeListed
  BY <1>11 DEF MergeListed, backendVars
<1>12. CASE EnsureGCFloor
  BY <1>12 DEF EnsureGCFloor, SweepOnly, backendVars
<1>13. CASE Collect
  BY <1>13 DEF Collect, backendVars
<1>14. CASE MarkerMoved
  BY <1>14 DEF MarkerMoved, backendVars
<1>15. CASE DeleteChunkObjects
  BY <1>15 DEF DeleteChunkObjects
<1>16. CASE BeginOwn
  BY <1>16 DEF BeginOwn, SnapOnly
<1>17. CASE DrainForSnapshot
  BY <1>17 DEF DrainForSnapshot, backendVars
<1>18. CASE Freeze
  BY <1>18 DEF Freeze, SnapOnly
<1>19. CASE DaemonLoads
  BY <1>19 DEF DaemonLoads, SnapOnly
<1>20. CASE DaemonMarks
  BY <1>20 DEF DaemonMarks, SnapOnly
<1>21. CASE FinishSnapshot
  BY <1>21 DEF FinishSnapshot, SnapOnly
<1>22. CASE Open
  BY <1>22 DEF Open, backendVars
<1>23. CASE EndRecovery
  BY <1>23 DEF EndRecovery
<1>24. CASE StartClose
  BY <1>24 DEF StartClose, backendVars
<1>25. CASE EndClose
  BY <1>25 DEF EndClose
<1>26. CASE Crash
  BY <1>26 DEF Crash, backendVars
<1>27. CASE UNCHANGED vars
  BY <1>27 DEF vars, backendVars
<1>28. QED BY <1>1, <1>2, <1>3, <1>4, <1>5, <1>6, <1>7, <1>8, <1>9, <1>10, <1>11, <1>12,
    <1>13, <1>14, <1>15, <1>16, <1>17, <1>18, <1>19, <1>20, <1>21, <1>22, <1>23, <1>24,
    <1>25, <1>26, <1>27 DEF Next, Drain, Sweep, Snapshot, Lifecycle

\* A sweep deletes nothing that the numbered checkpoint of config.json's
\* WallNum refers to, as long as recovery has not moved WallNum past it
\* (ensureGCFloor): the candidates are at or above the floor, and the floor is
\* past every id of that checkpoint.
THEOREM FallbackIsSpared == Spec => FallbackSpared
<1>1. ASSUME IInv, [Next]_vars, wall \in DOMAIN numbered
      PROVE  (objects \ objects') \cap Named(numbered[wall]) = {}
  <2>0. BackendTypes /\ InBounds /\ Candidates /\ SweepTypes
    BY <1>1 DEF IInv
  <2>1. numbered[wall] \in EntryMap /\ \A b \in Blocks : numbered[wall][b] < Limit
    BY <1>1, <2>0 DEF BackendTypes, InBounds
  <2>2. FloorNow = FloorOf(numbered[wall])
    BY <1>1 DEF FloorNow
  <2>3. FloorNow \in Nat /\ \A id \in Named(numbered[wall]) : id \in Nat /\ id < FloorNow
    BY <2>1, <2>2, FloorType DEF Named, EntryMap
  <2>4. \A id \in cand : id \in Nat /\ FloorNow <= id
    BY <2>0 DEF Candidates, SweepTypes
  <2>5. objects \ objects' \subseteq cand
    BY <1>1, OnlyCandidatesGo
  <2>6. QED BY <2>3, <2>4, <2>5
<1>2. IInv /\ [Next]_vars =>
          [wall = config.wall /\ wall \in DOMAIN numbered =>
              (objects \ objects') \cap Named(numbered[wall]) = {}]_objects
  BY <1>1
<1>3. QED BY <1>2, Inductive, PTL DEF Spec, FallbackSpared

-----------------------------------------------------------------------------
(* The chunks of the map, the checkpoint and the snapshots.                *)

\* SaveState stores WallNum before SaveBlockState writes the checkpoint of that
\* number.  With no live checkpoint to go by, the next open trusts the pair; if
\* only the first took effect it finds no checkpoint, or an older one of the
\* same number.  The step that does not do that.
PairedStep == (live = {} /\ config'.wall # config.wall) => numbered' = SavedNumbered

\* A volume that has no live checkpoint yet never stores a new WallNum without
\* the checkpoint of that number.
PairedSave == [][PairedStep]_vars

\* With that, what an open finds is what it would have found, or the map.
LEMMA LoadedPaired ==
    ASSUME IInv, [Next]_vars, PairedStep
    PROVE  Loaded' = Loaded \/ (phase # "down" /\ Loaded' = lookup)
<1>0. Phases
  BY DEF IInv
<1>q. ASSUME UNCHANGED <<live, numbered, config>> PROVE Loaded' = Loaded
  BY <1>q, LoadedAfter
<1>1. CASE EndDrain
  BY <1>0, <1>1, LoadedSaved DEF EndDrain, Phases
<1>2. ASSUME EndRecovery \/ EndClose
      PROVE  Loaded' = Loaded \/ (phase # "down" /\ Loaded' = lookup)
  <2>1. phase # "down"
    BY <1>2 DEF EndRecovery, EndClose
  <2>2. /\ config' \in {config, SavedConfig} /\ numbered' \in {numbered, SavedNumbered}
        /\ live' = live \/ live' = {lookup}
    BY <1>2 DEF EndRecovery, EndClose, SaveFails
  <2>3. CASE live' = {lookup}
    BY <2>1, <2>3, LoadedAfter
  <2>4. CASE live' = live /\ (config' = config \/ numbered' = SavedNumbered)
    BY <2>1, <2>2, <2>4, LoadedAfter
  <2>5. CASE live' = live /\ config' = SavedConfig /\ numbered' = numbered /\ live = {}
    <3>1. CASE config'.wall = config.wall
      BY <2>5, <3>1 DEF Loaded
    <3>2. CASE config'.wall # config.wall
      <4>1. numbered' = SavedNumbered
        BY <2>5, <3>2 DEF PairedStep
      <4>2. QED BY <2>1, <2>5, <4>1, LoadedAfter
    <3>3. QED BY <3>1, <3>2
  <2>6. CASE live' = live /\ live # {}
    BY <2>6, LoadedAfter
  <2>7. QED BY <2>2, <2>3, <2>4, <2>5, <2>6
<1>3. ASSUME NEW b \in Blocks, Write(b) PROVE Loaded' = Loaded
  BY <1>3, <1>q DEF Write, backendVars
<1>4. CASE StartDrain
  BY <1>4, <1>q DEF StartDrain, backendVars
<1>5. ASSUME NEW j \in jobs, Put(j) PROVE Loaded' = Loaded
  BY <1>5, <1>q DEF Put, backendVars
<1>6. CASE PutFails
  BY <1>6, <1>q DEF PutFails, backendVars
<1>7. ASSUME NEW c \in inflight, InsertEntries(c) PROVE Loaded' = Loaded
  BY <1>7, <1>q DEF InsertEntries, backendVars
<1>8. CASE GCTick
  BY <1>8, <1>q DEF GCTick, backendVars
<1>9. CASE SnapshotSafe
  BY <1>9, <1>q DEF SnapshotSafe, SweepOnly, backendVars
<1>10. CASE ScanForOwnSnapshots
  BY <1>10, <1>q DEF ScanForOwnSnapshots, backendVars
<1>11. CASE ListChunks
  BY <1>11, <1>q DEF ListChunks, SweepOnly, backendVars
<1>12. CASE MergeListed
  BY <1>12, <1>q DEF MergeListed, backendVars
<1>13. CASE EnsureGCFloor
  BY <1>13, <1>q DEF EnsureGCFloor, SweepOnly, backendVars
<1>14. CASE Collect
  BY <1>14, <1>q DEF Collect, backendVars
<1>15. CASE MarkerMoved
  BY <1>15, <1>q DEF MarkerMoved, backendVars
<1>16. CASE DeleteChunkObjects
  BY <1>16, <1>q DEF DeleteChunkObjects, backendVars
<1>17. CASE BeginOwn
  BY <1>17, <1>q DEF BeginOwn, SnapOnly, backendVars
<1>18. CASE DrainForSnapshot
  BY <1>18, <1>q DEF DrainForSnapshot, backendVars
<1>19. CASE Freeze
  BY <1>19, <1>q DEF Freeze, SnapOnly, backendVars
<1>20. CASE DaemonLoads
  BY <1>20, <1>q DEF DaemonLoads, SnapOnly, backendVars
<1>21. CASE DaemonMarks
  BY <1>21, <1>q DEF DaemonMarks, SnapOnly, backendVars
<1>22. CASE FinishSnapshot
  BY <1>22, <1>q DEF FinishSnapshot, SnapOnly, backendVars
<1>23. CASE Open
  BY <1>23, <1>q DEF Open, backendVars
<1>24. CASE StartClose
  BY <1>24, <1>q DEF StartClose, backendVars
<1>25. CASE Crash
  BY <1>25, <1>q DEF Crash, backendVars
<1>26. CASE UNCHANGED vars
  BY <1>26, <1>q DEF vars, backendVars
<1>27. QED BY <1>1, <1>2, <1>3, <1>4, <1>5, <1>6, <1>7, <1>8, <1>9, <1>10, <1>11, <1>12,
    <1>13, <1>14, <1>15, <1>16, <1>17, <1>18, <1>19, <1>20, <1>21, <1>22, <1>23, <1>24,
    <1>25, <1>26 DEF Next, Drain, Sweep, Snapshot, Lifecycle

\* What a step may do to the objects, the map and the pending inserts: only a
\* sweep's delete takes anything away, and an entry names what was pending, was
\* in the checkpoint, or has just been written.
Footprint ==
    /\ raced \subseteq raced' /\ beside \subseteq beside'
    /\ objects \subseteq objects' \/ (gc = "delete" /\ objects \ objects' \subseteq cand)
    /\ Named(lookup)' \cup PendingIds' \subseteq
          Named(lookup) \cup PendingIds \cup Named(Loaded) \cup objects'

\* Every step keeps to that.
LEMMA FootprintStep == IInv /\ [Next]_vars => Footprint
<1> SUFFICES ASSUME IInv, [Next]_vars PROVE Footprint
  OBVIOUS
<1>0. Phases
  BY DEF IInv
<1>q. ASSUME UNCHANGED <<lookup, inflight, raced, beside>>, objects \subseteq objects' PROVE Footprint
  BY <1>q DEF Footprint, Named, PendingIds
<1>f. ASSUME Forget, UNCHANGED <<raced, beside>>, objects \subseteq objects' PROVE Footprint
  BY <1>f DEF Forget, Footprint, Named, PendingIds, Empty
<1>1. ASSUME NEW b \in Blocks, Write(b) PROVE Footprint
  BY <1>1, <1>q DEF Write, backendVars, engineVars, drainVars, histVars
<1>2. CASE StartDrain
  BY <1>2, <1>q DEF StartDrain, Rotate, backendVars, engineVars, drainVars, histVars
<1>3. ASSUME NEW j \in jobs, Put(j) PROVE Footprint
  <2> DEFINE n == [id |-> objNum, blocks |-> j]
  <2>1. /\ n.id = objNum /\ inflight' = inflight \cup {n} /\ objects' = objects \cup {objNum}
        /\ UNCHANGED <<lookup, raced, beside>>
    BY <1>3 DEF Put, histVars
  <2> HIDE DEF n
  <2>2. PendingIds' = PendingIds \cup {objNum} /\ Named(lookup)' = Named(lookup)
    BY <2>1 DEF PendingIds, Named
  <2>3. QED BY <2>1, <2>2 DEF Footprint
<1>4. CASE PutFails
  <2>1. CASE drain = "recover"
    BY <1>4, <2>1, <1>f DEF PutFails, histVars
  <2>2. CASE drain # "recover"
    BY <1>4, <2>2, <1>q DEF PutFails, histVars
  <2>3. QED BY <2>1, <2>2
<1>5. ASSUME NEW c \in inflight, InsertEntries(c) PROVE Footprint
  <2>1. PICK moved \in SUBSET c.blocks :
            lookup' = [b \in Blocks |-> IF b \in moved THEN c.id ELSE lookup[b]]
    BY <1>5 DEF InsertEntries
  <2>2. c \in inflight /\ inflight' = inflight \ {c} /\ UNCHANGED <<objects, raced>>
        /\ beside \subseteq beside'
    BY <1>5 DEF InsertEntries, backendVars
  <2>3. Named(lookup)' \subseteq Named(lookup) \cup {c.id}
    BY <2>1 DEF Named
  <2>4. PendingIds' \subseteq PendingIds /\ c.id \in PendingIds
    BY <2>2 DEF PendingIds
  <2>5. QED BY <2>2, <2>3, <2>4 DEF Footprint
<1>6. CASE EndDrain
  BY <1>6, <1>q DEF EndDrain, histVars
<1>7. CASE GCTick
  BY <1>7, <1>q DEF GCTick, Rotate, backendVars, engineVars, drainVars, histVars
<1>8. CASE SnapshotSafe
  BY <1>8, <1>q DEF SnapshotSafe, SweepOnly, backendVars, engineVars, drainVars,
    histVars
<1>9. CASE ScanForOwnSnapshots
  BY <1>9, <1>q DEF ScanForOwnSnapshots, backendVars, engineVars, drainVars, histVars
<1>10. CASE ListChunks
  BY <1>10, <1>q DEF ListChunks, SweepOnly, backendVars, engineVars, drainVars, histVars
<1>11. CASE MergeListed
  BY <1>11, <1>q DEF MergeListed, backendVars, engineVars, drainVars, histVars
<1>12. CASE EnsureGCFloor
  BY <1>12, <1>q DEF EnsureGCFloor, SweepOnly, backendVars, engineVars, drainVars,
    histVars
<1>13. CASE Collect
  <2>1. UNCHANGED <<objects, lookup, inflight, beside>> /\ raced \subseteq raced'
    BY <1>13 DEF Collect, backendVars, engineVars, drainVars
  <2>2. QED BY <2>1 DEF Footprint, Named, PendingIds
<1>14. CASE MarkerMoved
  BY <1>14, <1>q DEF MarkerMoved, backendVars, engineVars, drainVars, histVars
<1>15. CASE DeleteChunkObjects
  <2>1. /\ UNCHANGED <<lookup, inflight, raced, beside>> /\ gc = "delete"
        /\ objects \ objects' \subseteq cand
    BY <1>15 DEF DeleteChunkObjects, drainVars, histVars
  <2>2. QED BY <2>1 DEF Footprint, Named, PendingIds
<1>16. CASE BeginOwn
  BY <1>16, <1>q DEF BeginOwn, SnapOnly, backendVars, engineVars, drainVars, histVars
<1>17. CASE DrainForSnapshot
  BY <1>17, <1>q DEF DrainForSnapshot, Rotate, backendVars, engineVars, drainVars,
    histVars
<1>18. CASE Freeze
  BY <1>18, <1>q DEF Freeze, SnapOnly, backendVars, engineVars, drainVars, histVars
<1>19. CASE DaemonLoads
  BY <1>19, <1>q DEF DaemonLoads, SnapOnly, backendVars, engineVars, drainVars, histVars
<1>20. CASE DaemonMarks
  BY <1>20, <1>q DEF DaemonMarks, SnapOnly, backendVars, engineVars, drainVars, histVars
<1>21. CASE FinishSnapshot
  BY <1>21, <1>q DEF FinishSnapshot, SnapOnly, backendVars, engineVars, drainVars,
    histVars
<1>22. CASE Open
  <2>1. /\ lookup' = Loaded /\ UNCHANGED <<objects, inflight, raced, beside>>
    BY <1>22 DEF Open, backendVars, histVars
  <2>2. QED BY <2>1 DEF Footprint, Named, PendingIds
<1>23. CASE EndRecovery
  BY <1>23, <1>q, <1>f DEF EndRecovery, SaveFails, histVars
<1>24. CASE StartClose
  BY <1>24, <1>q DEF StartClose, Rotate, backendVars, engineVars, drainVars, histVars
<1>25. CASE EndClose
  BY <1>25, <1>f DEF EndClose, SaveFails, histVars
<1>26. CASE Crash
  BY <1>26, <1>f DEF Crash, backendVars, histVars
<1>27. CASE UNCHANGED vars
  BY <1>27, <1>q DEF vars, backendVars, engineVars, drainVars, histVars
<1>28. QED BY <1>1, <1>2, <1>3, <1>4, <1>5, <1>6, <1>7, <1>8, <1>9, <1>10, <1>11, <1>12,
    <1>13, <1>14, <1>15, <1>16, <1>17, <1>18, <1>19, <1>20, <1>21, <1>22, <1>23, <1>24,
    <1>25, <1>26, <1>27 DEF Next, Drain, Sweep, Snapshot, Lifecycle

\* What the map, the pending inserts and the checkpoint refer to stays.
LEMMA LiveKeptStep == IInv /\ LiveKept /\ [Next]_vars /\ PairedStep => LiveKept'
<1> SUFFICES ASSUME IInv, LiveKept, [Next]_vars, PairedStep PROVE LiveKept'
  OBVIOUS
<1>0. Clean /\ Candidates
  BY DEF IInv
<1>1. Footprint
  BY FootprintStep
<1>2. Named(Loaded)' \subseteq Named(Loaded) \cup Named(lookup)
  BY LoadedPaired DEF Named
<1> DEFINE old == Named(lookup) \cup PendingIds \cup Named(Loaded)
<1>3. old \subseteq Kept'
  <2>1. old \subseteq Kept
    BY DEF LiveKept
  <2>2. CASE objects \subseteq objects'
    BY <1>1, <2>1, <2>2 DEF Footprint, Kept
  <2>3. CASE gc = "delete" /\ objects \ objects' \subseteq cand
    <3>1. old \cap cand \subseteq raced \cup beside
      BY <1>0, <2>3 DEF Clean, Candidates
    <3> HIDE DEF old
    <3>2. QED BY <1>1, <2>1, <2>3, <3>1 DEF Footprint, Kept
  <2>4. QED BY <1>1, <2>2, <2>3 DEF Footprint
<1>4. Named(lookup)' \cup PendingIds' \subseteq old \cup Kept'
  BY <1>1 DEF Footprint, Kept
<1>5. QED BY <1>2, <1>3, <1>4 DEF LiveKept

\* What a snapshot, or one in the making, froze outside the windows of sgap
\* stays.
LEMMA SnapsKeptStep ==
    IInv /\ LiveKept /\ SnapsKept /\ [Next]_vars => SnapsKept'
<1> SUFFICES ASSUME IInv, LiveKept, SnapsKept, [Next]_vars PROVE SnapsKept'
  OBVIOUS
<1>0. EngineTypes /\ SnapTypes /\ Phases /\ Candidates /\ Clean /\ DeleteSafe
  BY DEF IInv
<1>t. sp \in {"idle", "loaded", "marked", "draining", "drained", "frozen"}
  BY <1>0 DEF SnapTypes
<1> USE <1>0, <1>t
<1>1. Footprint
  BY FootprintStep
<1>2. ASSUME NEW m, Named(m) \subseteq Kept,
             gc = "delete" => cand \cap Named(m) \subseteq raced \cup beside
      PROVE  Named(m) \subseteq Kept'
  BY <1>1, <1>2 DEF Footprint, Kept
<1>s. \A s \in snaps : ~s.gap => Named(s.map) \subseteq Kept'
  <2> SUFFICES ASSUME NEW s \in snaps, ~s.gap PROVE Named(s.map) \subseteq Kept'
    OBVIOUS
  <2>1. Named(s.map) \subseteq Kept
    BY DEF SnapsKept
  <2>2. gc = "delete" => cand \cap Named(s.map) \subseteq raced \cup beside
    BY DEF DeleteSafe
  <2>3. QED BY <2>1, <2>2, <1>2
<1>m. (sp \in {"loaded", "frozen"} /\ ~sgap) => Named(smap) \subseteq Kept'
  <2> SUFFICES ASSUME sp \in {"loaded", "frozen"}, ~sgap PROVE Named(smap) \subseteq Kept'
    OBVIOUS
  <2>1. Named(smap) \subseteq Kept
    BY DEF SnapsKept
  <2>2. gc = "delete" => cand \cap Named(smap) \subseteq raced \cup beside
    BY DEF DeleteSafe
  <2>3. QED BY <2>1, <2>2, <1>1 DEF Footprint, Kept
<1>n. smap' = smap => Named(smap)' = Named(smap)
  BY DEF Named
<1>q. ASSUME UNCHANGED <<snaps, smap>>, sgap => sgap',
             sp' \in {"loaded", "frozen"} => sp \in {"loaded", "frozen"}
      PROVE  SnapsKept'
  BY <1>q, <1>s, <1>m, <1>n DEF SnapsKept
<1>i. ASSUME UNCHANGED snaps, sp' \notin {"loaded", "frozen"} PROVE SnapsKept'
  BY <1>i, <1>s DEF SnapsKept
<1>3. ASSUME NEW b \in Blocks, Write(b) PROVE SnapsKept'
  BY <1>3, <1>q DEF Write, backendVars, snapVars
<1>4. CASE StartDrain
  BY <1>4, <1>q DEF StartDrain, backendVars, snapVars
<1>5. ASSUME NEW j \in jobs, Put(j) PROVE SnapsKept'
  BY <1>5, <1>q DEF Put, backendVars, snapVars
<1>6. CASE PutFails
  BY <1>6, <1>q DEF PutFails, backendVars, snapVars
<1>7. ASSUME NEW c \in inflight, InsertEntries(c) PROVE SnapsKept'
  BY <1>7, <1>q DEF InsertEntries, backendVars, snapVars
<1>8. CASE EndDrain
  <2>1. sp' \in {"loaded", "frozen"} => sp \in {"loaded", "frozen"}
    BY <1>8 DEF EndDrain, AfterDrain
  <2>2. QED BY <1>8, <2>1, <1>q DEF EndDrain
<1>9. CASE GCTick
  BY <1>9, <1>q DEF GCTick, backendVars, snapVars
<1>10. CASE SnapshotSafe
  BY <1>10, <1>q DEF SnapshotSafe, SweepOnly, backendVars, snapVars
<1>11. CASE ScanForOwnSnapshots
  <2>1. sgap => sgap'
    BY <1>11 DEF ScanForOwnSnapshots
  <2>2. UNCHANGED <<snaps, smap, sp>>
    BY <1>11 DEF ScanForOwnSnapshots, backendVars
  <2>3. QED BY <2>1, <2>2, <1>q
<1>12. CASE ListChunks
  BY <1>12, <1>q DEF ListChunks, SweepOnly, backendVars, snapVars
<1>13. CASE MergeListed
  BY <1>13, <1>q DEF MergeListed, backendVars, snapVars
<1>14. CASE EnsureGCFloor
  BY <1>14, <1>q DEF EnsureGCFloor, SweepOnly, backendVars, snapVars
<1>15. CASE Collect
  BY <1>15, <1>q DEF Collect, backendVars, snapVars
<1>16. CASE MarkerMoved
  <2>1. sgap => sgap'
    BY <1>16 DEF MarkerMoved
  <2>2. UNCHANGED <<snaps, smap, sp>>
    BY <1>16 DEF MarkerMoved, backendVars
  <2>3. QED BY <2>1, <2>2, <1>q
<1>17. CASE DeleteChunkObjects
  BY <1>17, <1>q DEF DeleteChunkObjects, backendVars, snapVars
<1>18. CASE BeginOwn
  BY <1>18, <1>i DEF BeginOwn, PutMarker
<1>19. CASE DrainForSnapshot
  BY <1>19, <1>i DEF DrainForSnapshot, backendVars
<1>20. CASE Freeze
  <2>1. UNCHANGED <<snaps, objects, raced, beside>> /\ smap' = lookup
    BY <1>20 DEF Freeze, SnapOnly, histVars
  <2>2. Named(smap)' = Named(lookup) /\ Kept' = Kept
    BY <2>1 DEF Named, Kept
  <2>3. QED BY <2>1, <2>2, <1>s DEF SnapsKept, LiveKept
<1>21. CASE DaemonLoads
  <2>1. UNCHANGED <<snaps, objects, raced, beside>> /\ smap' = Loaded
    BY <1>21 DEF DaemonLoads, SnapOnly, histVars
  <2>2. Named(smap)' = Named(Loaded) /\ Kept' = Kept
    BY <2>1 DEF Named, Kept
  <2>3. QED BY <2>1, <2>2, <1>s DEF SnapsKept, LiveKept
<1>22. CASE DaemonMarks
  <2>1. sp = "loaded"
    BY <1>22 DEF DaemonMarks
  <2>2. QED BY <1>22, <2>1, <1>q DEF DaemonMarks
<1>23. CASE FinishSnapshot
  <2> DEFINE r == [map |-> smap, gap |-> sgap, saved |-> ssaved]
  <2>1. r.map = smap /\ r.gap = sgap
    OBVIOUS
  <2>2. sp = "frozen" /\ sp' = "idle" /\ snaps' \subseteq snaps \cup {r}
    BY <1>23 DEF FinishSnapshot
  <2> HIDE DEF r
  <2>3. QED BY <2>1, <2>2, <1>s, <1>m DEF SnapsKept
<1>24. CASE Open
  BY <1>24, <1>q DEF Open, backendVars, snapVars
<1>25. CASE EndRecovery
  BY <1>25, <1>q DEF EndRecovery, snapVars
<1>26. CASE StartClose
  BY <1>26, <1>q DEF StartClose, backendVars, snapVars
<1>27. CASE EndClose
  BY <1>27, <1>q DEF EndClose, snapVars
<1>28. CASE Crash
  BY <1>28, <1>q DEF Crash, backendVars
<1>29. CASE UNCHANGED vars
  BY <1>29, <1>q DEF vars, backendVars, snapVars
<1>30. QED BY <1>3, <1>4, <1>5, <1>6, <1>7, <1>8, <1>9, <1>10, <1>11, <1>12, <1>13,
    <1>14, <1>15, <1>16, <1>17, <1>18, <1>19, <1>20, <1>21, <1>22, <1>23, <1>24, <1>25,
    <1>26, <1>27, <1>28, <1>29 DEF Next, Drain, Sweep, Snapshot, Lifecycle

\* Both stay, as long as the saves are paired.
LEMMA KeptInductive == Spec /\ PairedSave => [](IInv /\ LiveKept /\ SnapsKept)
<1>1. Init => IInv /\ LiveKept /\ SnapsKept
  <2>1. Init => LiveKept /\ SnapsKept
    BY DEF Init, LiveKept, SnapsKept, Named, PendingIds, Kept, Loaded, Empty
  <2>2. QED BY <2>1, IInvInit
<1>2. IInv /\ LiveKept /\ SnapsKept /\ [Next]_vars /\ [PairedStep]_vars
      => (IInv /\ LiveKept /\ SnapsKept)'
  <2> SUFFICES ASSUME IInv, LiveKept, SnapsKept, [Next]_vars, [PairedStep]_vars
               PROVE  (IInv /\ LiveKept /\ SnapsKept)'
    OBVIOUS
  <2>1. PairedStep
    <3>1. CASE UNCHANGED vars
      BY <3>1 DEF PairedStep, vars, backendVars
    <3>2. QED BY <3>1
  <2>2. QED BY <2>1, IInvStep, LiveKeptStep, SnapsKeptStep
<1>3. QED BY <1>1, <1>2, PTL DEF Spec, PairedSave

\* No sweep deletes a chunk that the running engine's map or the checkpoint the
\* next open loads refers to, but for the two windows raced and beside record:
\* beside drains, after failed PUTs, checkpoints and deletes, and through a crash
\* at any step (sweepChunks).  Assumed is that SaveState and SaveBlockState are
\* not torn apart on a volume without a live checkpoint.
THEOREM LiveChunksAreKept == Spec /\ PairedSave => []LiveChunksExist
<1>1. LiveKept => LiveChunksExist
  BY DEF LiveKept, LiveChunksExist, Kept
<1>2. QED BY <1>1, KeptInductive, PTL

\* The chunks a snapshot froze stay as long as the snapshot, but for the same
\* windows and the two of sgap (ensureGCSnapshotSafe, gcSnapshotMarkerMoved).
THEOREM SnapshotChunksAreKept == Spec /\ PairedSave => []SnapshotChunksExist
<1>1. SnapsKept => SnapshotChunksExist
  BY DEF SnapsKept, SnapshotChunksExist, Kept
<1>2. QED BY <1>1, KeptInductive, PTL

-----------------------------------------------------------------------------
(* A single fault.                                                         *)

\* WallNum is ahead of config.json's, with no live checkpoint, only after the
\* live checkpoint of a recovery failed.
FirstFault ==
    /\ faults \in Nat
    /\ phase # "down" /\ live = {} /\ wall # config.wall => faults # 0

\* That stays so.
LEMMA FirstFaultStep == IInv /\ FirstFault /\ [Next]_vars => FirstFault'
<1> SUFFICES ASSUME IInv, FirstFault, [Next]_vars PROVE FirstFault'
  OBVIOUS
<1>0. FirstFault /\ Phases
  BY DEF IInv
<1>q. ASSUME UNCHANGED <<live, wall, config>>, phase' # "down" => phase # "down",
             faults' \in {faults, faults + 1}
      PROVE  FirstFault'
  BY <1>0, <1>q DEF FirstFault
<1>1. ASSUME NEW b \in Blocks, Write(b) PROVE FirstFault'
  BY <1>1, <1>q DEF Write, backendVars
<1>2. CASE StartDrain
  BY <1>2, <1>q DEF StartDrain, Rotate, backendVars
<1>3. ASSUME NEW j \in jobs, Put(j) PROVE FirstFault'
  BY <1>3, <1>q DEF Put
<1>4. CASE PutFails
  <2>1. UNCHANGED <<live, config>> /\ faults' = faults + 1
    BY <1>4 DEF PutFails, Fault
  <2>2. QED BY <2>1, <1>0 DEF FirstFault
<1>5. ASSUME NEW c \in inflight, InsertEntries(c) PROVE FirstFault'
  BY <1>5, <1>q DEF InsertEntries, backendVars
<1>6. CASE EndDrain
  <2>1. live' = live \/ live' = {lookup}
    BY <1>6 DEF EndDrain
  <2>2. UNCHANGED <<phase, wall, config>> /\ faults' \in {faults, faults + 1}
    BY <1>6 DEF EndDrain, Fault
  <2>3. QED BY <2>1, <2>2, <1>0 DEF FirstFault
<1>7. CASE GCTick
  BY <1>7, <1>q DEF GCTick, Rotate, backendVars
<1>8. CASE SnapshotSafe
  BY <1>8, <1>q DEF SnapshotSafe, SweepOnly, Fault, backendVars, engineVars
<1>9. CASE ScanForOwnSnapshots
  BY <1>9, <1>q DEF ScanForOwnSnapshots, Fault, backendVars, engineVars
<1>10. CASE ListChunks
  BY <1>10, <1>q DEF ListChunks, SweepOnly, Fault, backendVars, engineVars
<1>11. CASE MergeListed
  BY <1>11, <1>q DEF MergeListed, backendVars
<1>12. CASE EnsureGCFloor
  BY <1>12, <1>q DEF EnsureGCFloor, SweepOnly, Fault, backendVars, engineVars
<1>13. CASE Collect
  BY <1>13, <1>q DEF Collect, backendVars, engineVars
<1>14. CASE MarkerMoved
  BY <1>14, <1>q DEF MarkerMoved, Fault, backendVars, engineVars
<1>15. CASE DeleteChunkObjects
  BY <1>15, <1>q DEF DeleteChunkObjects, Fault
<1>16. CASE BeginOwn
  BY <1>16, <1>q DEF BeginOwn, SnapOnly, PutMarker, Fault, engineVars
<1>17. CASE DrainForSnapshot
  BY <1>17, <1>q DEF DrainForSnapshot, Rotate, backendVars
<1>18. CASE Freeze
  BY <1>18, <1>q DEF Freeze, SnapOnly, engineVars
<1>19. CASE DaemonLoads
  BY <1>19, <1>q DEF DaemonLoads, SnapOnly, engineVars
<1>20. CASE DaemonMarks
  BY <1>20, <1>q DEF DaemonMarks, SnapOnly, PutMarker, Fault, engineVars
<1>21. CASE FinishSnapshot
  BY <1>21, <1>q DEF FinishSnapshot, SnapOnly, Fault, engineVars
<1>22. CASE Open
  <2>1. wall' = config.wall /\ UNCHANGED <<config, faults>>
    BY <1>22 DEF Open, backendVars
  <2>2. QED BY <2>1, <1>0 DEF FirstFault
<1>23. CASE EndRecovery
  <2>1. CASE SaveFails
    BY <2>1, <1>0 DEF SaveFails, Fault, FirstFault
  <2>2. CASE ~SaveFails
    <3>1. (live' = {lookup} /\ faults' = faults) \/ faults' = faults + 1
      BY <1>23, <2>2 DEF EndRecovery, Fault
    <3>2. QED BY <3>1, <1>0 DEF FirstFault
  <2>3. QED BY <2>1, <2>2
<1>24. CASE StartClose
  BY <1>24, <1>q DEF StartClose, Rotate, backendVars
<1>25. CASE EndClose
  <2>1. phase' = "down" /\ faults' \in {faults, faults + 1}
    BY <1>25 DEF EndClose, SaveFails, Fault
  <2>2. QED BY <2>1, <1>0 DEF FirstFault
<1>26. CASE Crash
  BY <1>26, <1>0 DEF Crash, FirstFault
<1>27. CASE UNCHANGED vars
  BY <1>27, <1>q DEF vars, backendVars, engineVars
<1>28. QED BY <1>1, <1>2, <1>3, <1>4, <1>5, <1>6, <1>7, <1>8, <1>9, <1>10, <1>11, <1>12,
    <1>13, <1>14, <1>15, <1>16, <1>17, <1>18, <1>19, <1>20, <1>21, <1>22, <1>23, <1>24,
    <1>25, <1>26, <1>27 DEF Next, Drain, Sweep, Snapshot, Lifecycle

\* With at most one fault the saves are never torn apart in the way that matters.
LEMMA OneFaultPairs ==
    ASSUME MaxFaults <= 1, IInv, FirstFault, [Next]_vars
    PROVE  PairedStep
<1> SUFFICES ASSUME live = {}, config'.wall # config.wall PROVE numbered' = SavedNumbered
  BY DEF PairedStep
<1>0. MaxFaults \in Nat
  BY GCBoundAssumption
<1>q. ASSUME UNCHANGED config PROVE FALSE
  BY <1>q
<1>1. ASSUME EndRecovery \/ EndClose PROVE numbered' = SavedNumbered
  <2>1. phase # "down"
    BY <1>1 DEF EndRecovery, EndClose
  <2>2. CASE SaveFails
    <3>1. config' = SavedConfig
      BY <2>2, <1>q DEF SaveFails
    <3>2. wall # config.wall
      BY <3>1 DEF SavedConfig
    <3>3. faults \in Nat /\ faults # 0 /\ faults < MaxFaults
      BY <2>1, <2>2, <3>2 DEF FirstFault, SaveFails, Fault
    <3>4. QED BY <3>3, <1>0
  <2>3. CASE ~SaveFails
    BY <1>1, <2>3 DEF EndRecovery, EndClose
  <2>4. QED BY <2>2, <2>3
<1>2. ASSUME NEW b \in Blocks, Write(b) PROVE FALSE
  BY <1>2, <1>q DEF Write, backendVars
<1>3. CASE StartDrain
  BY <1>3, <1>q DEF StartDrain, backendVars
<1>4. ASSUME NEW j \in jobs, Put(j) PROVE FALSE
  BY <1>4, <1>q DEF Put
<1>5. CASE PutFails
  BY <1>5, <1>q DEF PutFails
<1>6. ASSUME NEW c \in inflight, InsertEntries(c) PROVE FALSE
  BY <1>6, <1>q DEF InsertEntries, backendVars
<1>7. CASE EndDrain
  BY <1>7, <1>q DEF EndDrain
<1>8. CASE GCTick
  BY <1>8, <1>q DEF GCTick, backendVars
<1>9. CASE SnapshotSafe
  BY <1>9, <1>q DEF SnapshotSafe, SweepOnly, backendVars
<1>10. CASE ScanForOwnSnapshots
  BY <1>10, <1>q DEF ScanForOwnSnapshots, backendVars
<1>11. CASE ListChunks
  BY <1>11, <1>q DEF ListChunks, SweepOnly, backendVars
<1>12. CASE MergeListed
  BY <1>12, <1>q DEF MergeListed, backendVars
<1>13. CASE EnsureGCFloor
  BY <1>13, <1>q DEF EnsureGCFloor, SweepOnly, backendVars
<1>14. CASE Collect
  BY <1>14, <1>q DEF Collect, backendVars
<1>15. CASE MarkerMoved
  BY <1>15, <1>q DEF MarkerMoved, backendVars
<1>16. CASE DeleteChunkObjects
  BY <1>16, <1>q DEF DeleteChunkObjects
<1>17. CASE BeginOwn
  BY <1>17, <1>q DEF BeginOwn, SnapOnly
<1>18. CASE DrainForSnapshot
  BY <1>18, <1>q DEF DrainForSnapshot, backendVars
<1>19. CASE Freeze
  BY <1>19, <1>q DEF Freeze, SnapOnly
<1>20. CASE DaemonLoads
  BY <1>20, <1>q DEF DaemonLoads, SnapOnly
<1>21. CASE DaemonMarks
  BY <1>21, <1>q DEF DaemonMarks, SnapOnly
<1>22. CASE FinishSnapshot
  BY <1>22, <1>q DEF FinishSnapshot, SnapOnly
<1>23. CASE Open
  BY <1>23, <1>q DEF Open, backendVars
<1>24. CASE StartClose
  BY <1>24, <1>q DEF StartClose, backendVars
<1>25. CASE Crash
  BY <1>25, <1>q DEF Crash, backendVars
<1>26. CASE UNCHANGED vars
  BY <1>26, <1>q DEF vars, backendVars
<1>27. QED BY <1>1, <1>2, <1>3, <1>4, <1>5, <1>6, <1>7, <1>8, <1>9, <1>10, <1>11, <1>12,
    <1>13, <1>14, <1>15, <1>16, <1>17, <1>18, <1>19, <1>20, <1>21, <1>22, <1>23, <1>24,
    <1>25, <1>26 DEF Next, Drain, Sweep, Snapshot, Lifecycle

\* No single failed backend call, wherever it falls and whatever crashes follow,
\* loses a chunk of the map, of the checkpoint or of a snapshot: with at most one
\* the saves need not be assumed paired.
THEOREM OneFaultKeepsChunks ==
    ASSUME MaxFaults <= 1
    PROVE  Spec => []LiveChunksExist /\ []SnapshotChunksExist
<1>1. Init => FirstFault
  BY DEF Init, FirstFault
<1>2. IInv /\ FirstFault /\ [Next]_vars => FirstFault'
  BY FirstFaultStep
<1>3. IInv /\ FirstFault /\ [Next]_vars => [PairedStep]_vars
  BY OneFaultPairs
<1>4. Spec => PairedSave
  BY <1>1, <1>2, <1>3, Inductive, PTL DEF Spec, PairedSave
<1>5. QED BY <1>4, LiveChunksAreKept, SnapshotChunksAreKept, PTL
=============================================================================
