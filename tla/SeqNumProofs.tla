---------------------------- MODULE SeqNumProofs ----------------------------
(***************************************************************************)
(* Nonce uniqueness of the NBD engine (SeqNum!Spec) for every number of    *)
(* writers, window size, batch size and bound.                             *)
(***************************************************************************)
EXTENDS SeqNum, TLAPS

\* Rounding a mark up in whole windows reaches the reserved range and never
\* lowers the mark (the loop of reserveSeqNum and of EnsureVolumeUUID).
LEMMA CoveringBounds ==
    ASSUME NEW base \in Nat, NEW s \in Nat
    PROVE  /\ Covering(base, s) \in Nat
           /\ base <= Covering(base, s)
           /\ s <= Covering(base, s)
<1>1. CASE s <= base
  BY <1>1 DEF Covering
<1>2. CASE ~(s <= base)
  <2> DEFINE d == (s - base) + (Window - 1)
             q == d \div Window
  <2>1. d \in Nat /\ s - base \in Nat
    BY <1>2, WindowAssumption
  <2>2. q \in Nat /\ d = Window * q + (d % Window) /\ d % Window < Window
        /\ d % Window \in Nat
    BY <2>1, WindowAssumption
  <2>3. Window * q \in Nat
    BY <2>2, WindowAssumption
  <2>4. s - base <= Window * q
    BY <2>1, <2>2, <2>3, WindowAssumption
  <2>5. Covering(base, s) = base + Window * q
    BY <1>2 DEF Covering
  <2> HIDE DEF q
  <2>6. QED
    BY <2>1, <2>3, <2>4, <2>5
<1>3. QED BY <1>1, <1>2

-----------------------------------------------------------------------------
\* Every step keeps the types.  Only the marks need an argument: a rounded
\* mark is a natural number.
LEMMA TypeStep == TypeOK /\ [Next]_vars => TypeOK'
<1> SUFFICES ASSUME TypeOK, [Next]_vars PROVE TypeOK'
  OBVIOUS
<1> USE WriterAssumption, WindowAssumption, BoundAssumption
    DEF TypeOK, Phases, WriterPCs, diskVars, memVars, writerVars, snapVars,
        nonceVars
<1>d. Durable \in Config /\ NoConfig \in Config
  BY DEF Durable, Authoritative, Config, NoConfig
<1>1. CASE LoadState
  BY <1>1, <1>d DEF LoadState, Config
<1>2. CASE ImportFresh
  BY <1>2, <1>d DEF ImportFresh, Down, Config
<1>3. CASE EnsureVolumeUUID
  <2> DEFINE floor == IF highWater >= Window THEN highWater ELSE Window
  <2>1. floor \in Nat /\ Covering(floor, seqNum) \in Nat
    BY CoveringBounds
  <2>2. QED
    BY <1>3, <1>d, <2>1 DEF EnsureVolumeUUID, NextConfig, Down, Config
<1>4. CASE RecoverLocalWALs
  BY <1>4, <1>d DEF RecoverLocalWALs, NextConfig, Down, Config
<1>5. ASSUME NEW w \in Writers, Reserve(w) PROVE TypeOK'
  <2>n. DataNonces(uuid, lo[w], hi[w]) \in SUBSET Nonce
    BY DEF DataNonces, Nonce
  <2>s. ASSUME Seal(DataNonces(uuid, lo[w], hi[w])) 
        PROVE  used' \in SUBSET Nonce /\ reused' \in SUBSET Nonce
    BY <2>n, <2>s DEF Seal
  <2>r. ASSUME Return(w)
        PROVE  /\ pc' \in [Writers -> WriterPCs]
               /\ lo' \in [Writers -> Nat] /\ hi' \in [Writers -> Nat]
               /\ want' \in [Writers -> Nat] /\ img' \in [Writers -> Config]
    BY <2>r, <1>d DEF Return
  <2>1. ASSUME NEW n \in 1..MaxBatch, ReserveAdd(w, n) PROVE TypeOK'
    <3>1. seqNum + n \in Nat
      OBVIOUS
    <3>2. CASE seqNum + n > MaxSeqNum
      BY <2>1, <3>1, <3>2 DEF ReserveAdd
    <3>3. CASE ~(seqNum + n > MaxSeqNum)
      <4>1. /\ pc' \in [Writers -> WriterPCs]
            /\ lo' \in [Writers -> Nat] /\ hi' \in [Writers -> Nat]
        BY <2>1, <3>1, <3>3 DEF ReserveAdd
      <4>2. QED
        BY <2>1, <3>1, <3>3, <4>1 DEF ReserveAdd
    <3>4. QED BY <3>2, <3>3
  <2>2. CASE ReserveCheck(w)
    BY <2>2, <2>s, <2>r DEF ReserveCheck
  <2>3. CASE ReserveLock(w)
    <3>1. Covering(highWater, hi[w]) \in Nat
      BY CoveringBounds
    <3>2. CASE hi[w] <= highWater
      BY <2>3, <2>s, <2>r, <3>2 DEF ReserveLock
    <3>3. CASE ~(hi[w] <= highWater)
      <4>1. pc' \in [Writers -> WriterPCs] /\ want' \in [Writers -> Nat]
        BY <2>3, <3>1, <3>3 DEF ReserveLock
      <4>2. QED
        BY <2>3, <3>3, <4>1 DEF ReserveLock
    <3>4. QED BY <3>2, <3>3
  <2>4. CASE ReservePersist(w)
    <3> DEFINE c == NextConfig(want[w], uuid)
    <3>1. c \in Config
      BY DEF Config, NextConfig
    <3> HIDE DEF c
    <3>2. CASE /\ local' = c /\ UNCHANGED <<mu, lo, hi, want>>
               /\ img' = [img EXCEPT ![w] = c]
               /\ pc' = [pc EXCEPT ![w] = "publish"]
      <4>1. img' \in [Writers -> Config] /\ pc' \in [Writers -> WriterPCs]
        BY <3>1, <3>2
      <4>2. QED
        BY <2>4, <3>1, <3>2, <4>1 DEF ReservePersist
    <3>3. CASE local' \in {c, local} /\ Return(w) /\ mu' = Nobody
      BY <2>4, <2>r, <3>1, <3>3 DEF ReservePersist
    <3>4. QED
      BY <2>4, <3>2, <3>3 DEF ReservePersist, c
  <2>5. CASE ReservePublish(w)
    BY <2>5 DEF ReservePublish
  <2>6. CASE ReservePush(w)
    BY <2>6, <2>s, <2>r DEF ReservePush
  <2>7. QED
    BY <1>5, <2>1, <2>2, <2>3, <2>4, <2>5, <2>6 DEF Reserve
<1>6. CASE Close
  BY <1>6, <1>d DEF Close, NextConfig, Down, Config
<1>7. CASE Crash
  BY <1>7, <1>d DEF Crash, Down
<1>8. CASE UNCHANGED vars
  BY <1>8 DEF vars
<1>9. QED
  BY <1>1, <1>2, <1>3, <1>4, <1>5, <1>6, <1>7, <1>8 DEF Next, Engine

\* The initial configuration is well typed.
LEMMA TypeInit == Init => TypeOK
BY WriterAssumption, WindowAssumption
   DEF Init, TypeOK, Config, NoConfig, Phases, WriterPCs, Nonce

\* Every variable keeps its type in every behaviour of the engine.
THEOREM TypeCorrect == Spec => []TypeOK
BY TypeInit, TypeStep, PTL DEF Spec

-----------------------------------------------------------------------------
\* The copy LoadState selects is one of the two and as new as either.
LEMMA DurableFacts ==
    ASSUME TypeOK
    PROVE  /\ Durable \in Config
           /\ Durable.gen \in Nat /\ Durable.hw \in Nat /\ Durable.uuid \in Nat
           /\ local.gen \in Nat /\ local.hw \in Nat /\ local.uuid \in Nat
           /\ backend.gen \in Nat /\ backend.hw \in Nat /\ backend.uuid \in Nat
           /\ local.gen <= Durable.gen /\ backend.gen <= Durable.gen
           /\ local.gen > 0 /\ backend.gen <= local.gen => Durable = local
           /\ local.gen = 0 => Durable = backend
           /\ Durable \in {local, backend}
BY DEF TypeOK, Config, Durable, Authoritative

\* Once the local copy is the newer one, it is the one an open selects.
LEMMA DurableAfter ==
    ASSUME TypeOK', local'.gen > 0, backend'.gen <= local'.gen
    PROVE  Durable' = local'
BY DEF TypeOK, Config, Durable, Authoritative

\* The typing facts the arithmetic below rests on.
LEMMA Numbers ==
    ASSUME TypeOK
    PROVE  /\ \A v \in Writers : /\ lo[v] \in Nat /\ hi[v] \in Nat
                                 /\ want[v] \in Nat /\ img[v].gen \in Nat
           /\ highWater \in Nat /\ seqNum \in Nat /\ stateSeq \in Nat
           /\ local.gen \in Nat /\ local.hw \in Nat /\ backend.gen \in Nat
           /\ \A x \in used : x.n \in Nat
BY DEF TypeOK, Nonce, Config

\* Nothing is in flight and nothing is used when the volume is created.
LEMMA InitIInv == Init => IInv
<1> SUFFICES ASSUME Init PROVE IInv
  OBVIOUS
<1>1. TypeOK
  BY TypeInit
<1>2. ConfigInv
  BY WindowAssumption DEF Init, ConfigInv, NoConfig
<1>3. OpenInv /\ CallInv /\ RangeInv
  BY DEF Init, OpenInv, CallInv, RangeInv, Up, NoConfig
<1>4. UsedInv /\ NonceUnique
  BY DEF Init, UsedInv, NonceUnique
<1>5. QED BY <1>1, <1>2, <1>3, <1>4 DEF IInv

\* A process that goes away leaves no call in flight; what is left to show is
\* that the copy on disk still covers everything that was used.
LEMMA DownStep ==
    ASSUME IInv, TypeOK', Down, UNCHANGED nonceVars, ConfigInv',
           \A x \in used : x.uuid = Durable'.uuid /\ x.n <= Durable'.hw
    PROVE  IInv'
<1>1. OpenInv' /\ CallInv' /\ RangeInv'
  <2>1. local'.gen \in Nat
    BY DEF TypeOK, Config
  <2>2. QED
    BY <2>1 DEF Down, OpenInv, CallInv, RangeInv, Up, NoConfig
<1>2. UsedInv' /\ NonceUnique'
  BY DEF IInv, UsedInv, NonceUnique, Down, Up, nonceVars
<1>3. QED BY <1>1, <1>2 DEF IInv

\* While the volume is open, replacing the local copy by the next generation
\* keeps it the selected one.
LEMMA UpFacts ==
    ASSUME IInv, Up
    PROVE  /\ Durable = local
           /\ local.gen > 0 /\ backend.gen <= local.gen /\ local.gen <= stateSeq
           /\ local.uuid = uuid /\ highWater <= local.hw
           /\ \A x \in used : /\ x.dom = "data" /\ x.uuid # 0 /\ x.uuid = uuid
                              /\ x.n <= highWater /\ x.n <= seqNum
BY DurableFacts DEF IInv, OpenInv, UsedInv, Up

\* The open sequence (LoadState, EnsureVolumeUUID, RecoverLocalWALs) and the
\* import of a fresh volume keep the invariant.
LEMMA OpeningStep ==
    ASSUME IInv, TypeOK',
           LoadState \/ ImportFresh \/ EnsureVolumeUUID \/ RecoverLocalWALs
    PROVE  IInv'
<1> USE WriterAssumption, WindowAssumption, BoundAssumption
    DEF diskVars, memVars, writerVars, snapVars, nonceVars
<1>t. TypeOK
  BY DEF IInv
<1>q. phase \notin {"importing", "serving"} =>
         spc = "idle" /\ \A w \in Writers : pc[w] = "idle"
  BY DEF IInv, OpenInv
<1>1. CASE LoadState
  <2>1. /\ local'.gen = Durable.gen + 1 /\ local'.hw = Durable.hw + Window
        /\ local'.uuid = Durable.uuid
        /\ backend'.gen <= local'.gen /\ local'.gen > 0
        /\ backend'.gen = 0 => backend'.uuid = 0
    BY <1>1, <1>t, DurableFacts DEF LoadState, IInv, ConfigInv
  <2>2. Durable' = local'
    BY <2>1, DurableAfter
  <2>3. ConfigInv' /\ OpenInv'
    BY <1>1, <1>t, <1>q, <2>1, DurableFacts DEF LoadState, ConfigInv, OpenInv, Up
  <2>4. CallInv' /\ RangeInv'
    BY <1>1, <1>q, <1>t, <2>1, Numbers, DurableFacts
       DEF LoadState, CallInv, RangeInv, IInv
  <2>5. UsedInv' /\ NonceUnique'
    <3> SUFFICES ASSUME NEW x \in used
                 PROVE  /\ x.dom = "data" /\ x.uuid # 0
                        /\ x.uuid = Durable'.uuid /\ x.n <= Durable'.hw
                        /\ x.n <= highWater' /\ x.n <= seqNum'
      BY <1>1, <1>q DEF LoadState, UsedInv, IInv, NonceUnique
    <3>1. x.dom = "data" /\ x.uuid # 0 /\ x.uuid = Durable.uuid /\ x.n <= Durable.hw
      BY DEF IInv, UsedInv
    <3>2. x.n \in Nat
      BY <1>t DEF TypeOK, Nonce
    <3>3. highWater' = Durable.hw + Window /\ seqNum' = Durable.hw
      BY <1>1 DEF LoadState
    <3>4. QED
      BY <1>t, <2>1, <2>2, <3>1, <3>2, <3>3, DurableFacts
  <2>6. QED BY <2>3, <2>4, <2>5 DEF IInv
<1>2. CASE ImportFresh
  <2>1. used = {}
    BY <1>2, <1>t, DurableFacts DEF ImportFresh, IInv, UsedInv, ConfigInv
  <2>2. local'.gen = 1 /\ local'.hw = Window /\ local'.uuid = mints + 1
        /\ mints \in Nat /\ ConfigInv'
    BY <1>2, <1>t DEF ImportFresh, ConfigInv, IInv, TypeOK
  <2>3. CASE Down
    BY <1>2, <2>1, <2>2, <2>3, DownStep DEF ImportFresh
  <2>4. CASE ~Down
    <3>1. /\ backend' = local' /\ phase' = "importing"
          /\ stateSeq' = 1 /\ highWater' = Window /\ uuid' = mints + 1
          /\ UNCHANGED <<seqNum, mu, writerVars, snapVars, nonceVars>>
      BY <1>2, <2>4 DEF ImportFresh
    <3>2. OpenInv'
      BY <1>2, <1>q, <2>2, <3>1 DEF OpenInv, Up, ImportFresh
    <3>3. CallInv' /\ RangeInv' /\ UsedInv' /\ NonceUnique'
      BY <1>2, <1>q, <1>t, <2>1, <2>2, <3>1, Numbers, DurableFacts
         DEF ImportFresh, CallInv, RangeInv, UsedInv, NonceUnique, IInv
    <3>4. QED BY <2>2, <3>2, <3>3 DEF IInv
  <2>5. QED BY <2>3, <2>4
<1>3. CASE EnsureVolumeUUID
  <2>1. Up /\ phase = "loaded"
    BY <1>3 DEF EnsureVolumeUUID, Up
  <2>2. CASE uuid # 0
    <3>1. /\ phase' = "recovering"
          /\ UNCHANGED <<diskVars, seqNum, highWater, stateSeq, uuid, mu,
                         writerVars, snapVars, nonceVars>>
      BY <1>3, <2>2 DEF EnsureVolumeUUID
    <3>2. ConfigInv' /\ OpenInv' /\ CallInv' /\ RangeInv' /\ NonceUnique'
      BY <1>q, <2>1, <2>2, <3>1
         DEF IInv, ConfigInv, OpenInv, CallInv, RangeInv, NonceUnique, Up
    <3>3. UsedInv'
      BY <2>1, <3>1 DEF IInv, UsedInv, Up, Durable
    <3>4. QED BY <3>2, <3>3 DEF IInv
  <2>3. CASE uuid = 0
    <3> DEFINE floor == IF highWater >= Window THEN highWater ELSE Window
               hw    == Covering(floor, seqNum)
               c     == NextConfig(hw, mints + 1)
    <3>1. used = {}
      BY <2>1, <2>3, UpFacts
    <3>2. hw \in Nat /\ stateSeq \in Nat /\ mints \in Nat
      BY <1>t, CoveringBounds DEF TypeOK
    <3>3. c.gen = stateSeq + 1 /\ c.hw = hw /\ c.uuid = mints + 1
      BY DEF NextConfig
    <3> HIDE DEF hw, c
    <3>4. CASE local' \in {c, local} /\ UNCHANGED backend /\ Down
      <4>1. ConfigInv'
        BY <3>2, <3>3, <3>4 DEF IInv, ConfigInv
      <4>2. QED
        BY <1>3, <3>1, <3>4, <4>1, DownStep DEF EnsureVolumeUUID
    <3>5. CASE /\ local' = c /\ backend' = c /\ phase' = "recovering"
               /\ highWater' = hw /\ uuid' = c.uuid /\ stateSeq' = c.gen
               /\ UNCHANGED <<seqNum, mu, writerVars, snapVars>>
      <4>1. ConfigInv' /\ OpenInv'
        BY <1>q, <2>1, <3>2, <3>3, <3>5 DEF ConfigInv, OpenInv, Up
      <4>2. CallInv' /\ RangeInv' /\ UsedInv' /\ NonceUnique'
        BY <1>3, <1>q, <1>t, <2>1, <3>1, <3>3, <3>5, Numbers, UpFacts
           DEF EnsureVolumeUUID, CallInv, RangeInv, UsedInv, NonceUnique, IInv
      <4>3. QED BY <4>1, <4>2 DEF IInv
    <3>6. QED
      BY <1>3, <2>3, <3>4, <3>5 DEF EnsureVolumeUUID, c, hw
  <2>4. QED BY <2>2, <2>3
<1>4. CASE RecoverLocalWALs
  <2> DEFINE c == NextConfig(highWater, uuid)
  <2>1. Up /\ phase = "recovering"
    BY <1>4 DEF RecoverLocalWALs, Up
  <2>2. c.gen = stateSeq + 1 /\ c.hw = highWater /\ c.uuid = uuid
        /\ stateSeq \in Nat /\ highWater \in Nat
    BY <1>t DEF NextConfig, TypeOK
  <2> HIDE DEF c
  <2>3. CASE local' \in {c, local} /\ UNCHANGED backend /\ Down
    <3>1. ConfigInv'
      BY <2>1, <2>2, <2>3 DEF IInv, ConfigInv
    <3>2. Durable' = local'
      BY <1>t, <2>1, <2>2, <2>3, UpFacts, DurableFacts, DurableAfter
    <3>3. \A x \in used : x.uuid = Durable'.uuid /\ x.n <= Durable'.hw
      BY <1>t, <2>1, <2>2, <2>3, <3>2, UpFacts, DurableFacts DEF IInv, UsedInv
    <3>4. QED
      BY <1>4, <2>3, <3>1, <3>3, DownStep DEF RecoverLocalWALs
  <2>4. CASE /\ phase' = "serving"
             /\ \/ local' = c /\ backend' = c /\ stateSeq' = c.gen
                \/ UNCHANGED <<diskVars, stateSeq>>
             /\ UNCHANGED <<seqNum, highWater, uuid, mu, writerVars, snapVars>>
    <3>1. ConfigInv' /\ OpenInv'
      BY <1>q, <2>1, <2>2, <2>4, UpFacts DEF IInv, ConfigInv, OpenInv, Up
    <3>2. CallInv' /\ RangeInv' /\ NonceUnique'
      BY <1>4, <1>q, <1>t, <2>1, <2>2, <2>4, Numbers, UpFacts
         DEF RecoverLocalWALs, CallInv, RangeInv, NonceUnique, IInv
    <3>3. UsedInv'
      <4>1. Durable' = local' /\ local'.uuid = uuid /\ local'.hw >= highWater
        BY <1>t, <2>1, <2>2, <2>4, UpFacts, DurableFacts, DurableAfter
      <4>2. \A x \in used : x.n \in Nat
        BY <1>t DEF TypeOK, Nonce
      <4>3. local'.hw \in Nat
        BY DEF TypeOK, Config
      <4>4. QED
        BY <1>4, <1>t, <1>q, <2>1, <2>2, <2>4, <4>1, <4>2, <4>3, UpFacts
           DEF RecoverLocalWALs, UsedInv
    <3>4. QED BY <3>1, <3>2, <3>3 DEF IInv
  <2>5. QED
    BY <1>4, <2>3, <2>4 DEF RecoverLocalWALs, c
<1>5. QED BY <1>1, <1>2, <1>3, <1>4

-----------------------------------------------------------------------------
\* A call that returns its numbers uses them for the first time: its range is
\* apart from everything used before and at most the published mark.
LEMMA SealStep ==
    ASSUME IInv, TypeOK', NEW w \in Writers, phase \in {"importing", "serving"},
           pc[w] # "idle", hi[w] <= highWater,
           Return(w), Seal(DataNonces(uuid, lo[w], hi[w])),
           UNCHANGED <<memVars, spc, local>>,
           backend' \in {img[w], backend}
    PROVE  IInv'
<1> USE DEF Return, memVars
<1>t. TypeOK
  BY DEF IInv
<1>u. Up /\ Up' /\ Durable = local /\ Durable' = local
  <2>1. Up /\ Up'
    BY DEF Up
  <2>2. /\ local'.gen > 0 /\ local' = local
        /\ backend'.gen <= local'.gen
    BY <2>1, UpFacts DEF IInv, CallInv
  <2>3. QED BY <2>1, <2>2, UpFacts, DurableAfter
<1>n. /\ \A v \in Writers : lo[v] \in Nat /\ hi[v] \in Nat
      /\ highWater \in Nat /\ seqNum \in Nat
      /\ \A x \in used : x.n \in Nat
  BY <1>t DEF TypeOK, Nonce
<1>o. \A v \in Writers : /\ v # w => /\ pc'[v] = pc[v] /\ lo'[v] = lo[v]
                                     /\ hi'[v] = hi[v] /\ want'[v] = want[v]
                                     /\ img'[v] = img[v]
                         /\ pc'[w] = "idle" /\ img'[w] = NoConfig
  BY <1>t DEF TypeOK
<1>1. ConfigInv' /\ OpenInv'
  <2>1. ConfigInv'
    BY <1>u, UpFacts DEF IInv, ConfigInv, CallInv
  <2>2. OpenInv'
    BY <1>u, <1>t, UpFacts DEF IInv, OpenInv, CallInv, Up
  <2>3. QED BY <2>1, <2>2
<1>2. CallInv' /\ RangeInv'
  <2>1. CallInv'
    BY <1>o, <1>t, Numbers DEF IInv, CallInv, NoConfig
  <2>2. RangeInv'
    BY <1>o DEF IInv, RangeInv
  <2>3. QED BY <2>1, <2>2
<1>3. UsedInv'
  <2> SUFFICES ASSUME NEW x \in used'
               PROVE  /\ x.dom = "data" /\ x.uuid # 0 /\ x.uuid = uuid
                      /\ x.n <= local.hw /\ x.n <= highWater /\ x.n <= seqNum
                      /\ \A v \in Writers : pc'[v] # "idle" =>
                             x.n <= lo'[v] \/ x.n > hi'[v]
    BY <1>u, UpFacts DEF UsedInv
  <2>1. CASE x \in used
    <3>1. x.n <= highWater /\ highWater <= local.hw /\ local.hw \in Nat
      BY <1>t, <1>u, <2>1, UpFacts, DurableFacts
    <3>2. QED
      BY <1>n, <1>o, <1>u, <2>1, <3>1, UpFacts DEF IInv, UsedInv
  <2>2. CASE x \in DataNonces(uuid, lo[w], hi[w])
    <3>1. /\ x.dom = "data" /\ x.uuid = uuid /\ x.n \in Nat
          /\ lo[w] < x.n /\ x.n <= hi[w]
      BY <1>n, <2>2 DEF DataNonces
    <3>2. uuid # 0 /\ hi[w] <= seqNum
      BY DEF IInv, OpenInv, CallInv
    <3>3. highWater <= local.hw /\ local.hw \in Nat
      BY <1>t, <1>u, UpFacts, DurableFacts
    <3>4. ASSUME NEW v \in Writers, pc'[v] # "idle"
          PROVE  x.n <= lo'[v] \/ x.n > hi'[v]
      <4>1. v # w /\ pc[v] # "idle" /\ lo'[v] = lo[v] /\ hi'[v] = hi[v]
        BY <1>o, <3>4
      <4>2. hi[v] <= lo[w] \/ hi[w] <= lo[v]
        BY <4>1 DEF IInv, RangeInv
      <4>3. QED BY <1>n, <3>1, <4>1, <4>2
    <3>5. QED
      BY <1>n, <3>1, <3>2, <3>3, <3>4
  <2>3. QED BY <2>1, <2>2 DEF Seal
<1>4. NonceUnique'
  <2>1. ASSUME NEW x \in DataNonces(uuid, lo[w], hi[w]), x \in used
        PROVE  FALSE
    <3>1. x.n \in Nat /\ lo[w] < x.n /\ x.n <= hi[w]
      BY <1>n, <2>1 DEF DataNonces
    <3>2. x.n <= lo[w] \/ x.n > hi[w]
      BY <2>1 DEF IInv, UsedInv
    <3>3. QED BY <1>n, <3>1, <3>2
  <2>2. QED BY <2>1 DEF Seal, NonceUnique, IInv
<1>5. QED BY <1>1, <1>2, <1>3, <1>4 DEF IInv

\* Each step of reserveSeqNum keeps the invariant.
LEMMA ReserveStep ==
    ASSUME IInv, TypeOK', NEW w \in Writers, Reserve(w)
    PROVE  IInv'
<1> USE WriterAssumption, BoundAssumption
    DEF diskVars, memVars, writerVars, snapVars, nonceVars
<1>t. TypeOK
  BY DEF IInv
<1> USE <1>t, Numbers
<1>p. pc[w] # "idle" => phase \in {"importing", "serving"} /\ Up
  BY DEF IInv, OpenInv, Up
<1>1. ASSUME NEW n \in 1..MaxBatch, ReserveAdd(w, n)
      PROVE  IInv'
  <2>1. phase \in {"importing", "serving"} /\ Up /\ pc[w] = "idle"
        /\ seqNum' = seqNum + n /\ n \in Nat /\ n > 0
    BY <1>1 DEF ReserveAdd, MayCall, Up
  <2>2. ConfigInv' /\ OpenInv' /\ NonceUnique'
    <3>1. \A v \in Writers : pc[v] = "idle" \/ phase \in {"importing", "serving"}
      BY <2>1
    <3>2. QED
      BY <1>1, <2>1, <3>1
         DEF ReserveAdd, IInv, ConfigInv, OpenInv, NonceUnique, Up
  <2>3. CASE seqNum + n > MaxSeqNum
    <3>1. CallInv' /\ RangeInv'
      BY <1>1, <2>1, <2>3 DEF ReserveAdd, IInv, CallInv, RangeInv
    <3>2. UsedInv'
      BY <1>1, <2>1, <2>3 DEF ReserveAdd, IInv, UsedInv, Up, Durable
    <3>3. QED BY <2>2, <3>1, <3>2 DEF IInv
  <2>4. CASE ~(seqNum + n > MaxSeqNum)
    <3>1. /\ \A v \in Writers : v # w => /\ pc'[v] = pc[v] /\ lo'[v] = lo[v]
                                         /\ hi'[v] = hi[v]
          /\ pc'[w] = "check" /\ lo'[w] = seqNum /\ hi'[w] = seqNum + n
          /\ UNCHANGED <<want, img, local, backend, highWater, mu, used, phase>>
      BY <1>1, <1>t, <2>4 DEF ReserveAdd, TypeOK
    <3>2. CallInv'
      <4> SUFFICES ASSUME NEW v \in Writers PROVE CallInv!(v)'
        BY DEF CallInv
      <4>0. CallInv!(v)
        BY DEF IInv, CallInv
      <4>1. CASE v # w
        BY <2>1, <3>1, <4>0, <4>1
      <4>2. CASE v = w
        BY <2>1, <3>1, <4>0, <4>2
      <4>3. QED BY <4>1, <4>2
    <3>3. RangeInv'
      BY <2>1, <3>1 DEF IInv, RangeInv, CallInv
    <3>4. UsedInv'
      BY <2>1, <3>1, UpFacts DEF IInv, UsedInv, Up, Durable
    <3>5. QED BY <2>2, <3>2, <3>3, <3>4 DEF IInv
  <2>5. QED BY <2>3, <2>4
<1>2. CASE ReserveCheck(w)
  <2>1. CASE hi[w] <= highWater
    BY <1>2, <1>p, <2>1, SealStep DEF ReserveCheck
  <2>2. CASE ~(hi[w] <= highWater)
    <3>1. /\ pc[w] = "check" /\ pc' = [pc EXCEPT ![w] = "lock"]
          /\ UNCHANGED <<diskVars, memVars, lo, hi, want, img, snapVars, nonceVars>>
      BY <1>2, <2>2 DEF ReserveCheck
    <3>2. \A v \in Writers : pc'[v] = IF v = w THEN "lock" ELSE pc[v]
      BY <3>1 DEF TypeOK
    <3>3. ConfigInv' /\ OpenInv' /\ NonceUnique'
      BY <1>p, <3>1, <3>2 DEF IInv, ConfigInv, OpenInv, NonceUnique, Up
    <3>4. CallInv' /\ RangeInv'
      BY <3>1, <3>2 DEF IInv, CallInv, RangeInv
    <3>5. UsedInv'
      BY <3>1, <3>2 DEF IInv, UsedInv, Up, Durable
    <3>6. QED BY <3>3, <3>4, <3>5 DEF IInv
  <2>3. QED BY <2>1, <2>2
<1>3. CASE ReserveLock(w)
  <2>1. CASE hi[w] <= highWater
    BY <1>3, <1>p, <2>1, SealStep DEF ReserveLock
  <2>2. CASE ~(hi[w] <= highWater)
    <3>1. /\ pc[w] = "lock" /\ mu = Nobody /\ mu' = w
          /\ pc' = [pc EXCEPT ![w] = "persist"]
          /\ want' = [want EXCEPT ![w] = Covering(highWater, hi[w])]
          /\ UNCHANGED <<diskVars, phase, seqNum, highWater, stateSeq, uuid, lo,
                         hi, img, snapVars, nonceVars>>
      BY <1>3, <2>2 DEF ReserveLock
    <3>2. /\ \A v \in Writers : pc'[v] = IF v = w THEN "persist" ELSE pc[v]
          /\ \A v \in Writers : v # w => want'[v] = want[v]
          /\ highWater <= want'[w] /\ hi[w] <= want'[w]
      BY <3>1, CoveringBounds DEF TypeOK
    <3>3. ConfigInv' /\ OpenInv' /\ NonceUnique'
      BY <1>p, <3>1, <3>2 DEF IInv, ConfigInv, OpenInv, NonceUnique, Up
    <3>4. CallInv'
      <4>1. \A v \in Writers : pc[v] \notin {"persist", "publish"}
        BY <3>1 DEF IInv, CallInv
      <4>2. QED
        BY <3>1, <3>2, <4>1 DEF IInv, CallInv
    <3>5. RangeInv'
      BY <3>1, <3>2 DEF IInv, RangeInv
    <3>6. UsedInv'
      BY <3>1, <3>2 DEF IInv, UsedInv, Up, Durable
    <3>7. QED BY <3>3, <3>4, <3>5, <3>6 DEF IInv
  <2>3. QED BY <2>1, <2>2
<1>4. CASE ReservePersist(w)
  <2> DEFINE c == NextConfig(want[w], uuid)
  <2>1. c.gen = stateSeq + 1 /\ c.hw = want[w] /\ c.uuid = uuid
    BY DEF NextConfig
  <2> HIDE DEF c
  <2>2. /\ Up /\ pc[w] = "persist" /\ mu = w /\ stateSeq' = stateSeq + 1
        /\ highWater <= want[w] /\ hi[w] <= want[w]
        /\ UNCHANGED <<backend, phase, seqNum, highWater, uuid, snapVars, nonceVars>>
    BY <1>4, <1>p DEF ReservePersist, IInv, CallInv
  <2>3. local' \in {c, local}
    BY <1>4 DEF ReservePersist, c
  <2>4. /\ local'.gen > 0 /\ backend'.gen <= local'.gen /\ local'.gen <= stateSeq'
        /\ local'.uuid = uuid /\ highWater <= local'.hw
        /\ local.gen <= local'.gen
    BY <2>1, <2>2, <2>3, UpFacts
  <2>5. Durable' = local'
    BY <2>4, DurableAfter
  <2>6. ConfigInv' /\ NonceUnique'
    BY <2>2, <2>4 DEF IInv, ConfigInv, NonceUnique
  <2>7. \A v \in Writers : v # w => /\ pc'[v] = pc[v] /\ lo'[v] = lo[v]
                                   /\ hi'[v] = hi[v] /\ want'[v] = want[v]
                                   /\ img'[v] = img[v]
    BY <1>4 DEF ReservePersist, Return, TypeOK
  <2>8. \A v \in Writers : v # w => pc[v] \notin {"persist", "publish"}
    BY <2>2 DEF IInv, CallInv
  <2>9. \/ /\ pc'[w] = "publish" /\ local' = c /\ mu' = w /\ lo'[w] = lo[w]
           /\ hi'[w] = hi[w] /\ want'[w] = want[w] /\ img'[w] = c
        \/ pc'[w] = "idle" /\ img'[w] = NoConfig
    BY <1>4, <2>2 DEF ReservePersist, Return, TypeOK, c
  <2>10. OpenInv'
    BY <1>p, <2>2, <2>4, <2>7 DEF IInv, OpenInv, Up
  <2>11. CallInv'
    <3> SUFFICES ASSUME NEW v \in Writers PROVE CallInv!(v)'
      BY DEF CallInv
    <3>0. CallInv!(v) /\ CallInv!(w) /\ local'.gen \in Nat
      BY DEF IInv, CallInv, TypeOK, Config
    <3>1. CASE v # w
      BY <2>2, <2>4, <2>7, <2>8, <3>0, <3>1
    <3>2. CASE v = w
      BY <2>1, <2>2, <2>4, <2>9, <3>0, <3>2 DEF NoConfig
    <3>3. QED BY <3>1, <3>2
  <2>12. RangeInv'
    BY <2>2, <2>7, <2>9 DEF IInv, RangeInv
  <2>13. UsedInv'
    <3>1. local'.hw \in Nat
      BY DEF TypeOK, Config
    <3>2. QED
      BY <2>2, <2>4, <2>5, <2>7, <2>9, <3>1, UpFacts DEF IInv, UsedInv, Up
  <2>14. QED BY <2>6, <2>10, <2>11, <2>12, <2>13 DEF IInv
<1>5. CASE ReservePublish(w)
  <2>1. /\ Up /\ pc[w] = "publish" /\ mu = w /\ highWater' = want[w] /\ mu' = Nobody
        /\ highWater <= want[w] /\ hi[w] <= want[w] /\ want[w] <= local.hw
        /\ UNCHANGED <<diskVars, phase, seqNum, stateSeq, uuid, lo, hi, want, img,
                       snapVars, nonceVars>>
    BY <1>5, <1>p DEF ReservePublish, IInv, CallInv
  <2>2. \A v \in Writers : pc'[v] = IF v = w THEN "push" ELSE pc[v]
    BY <1>5 DEF ReservePublish, TypeOK
  <2>3. \A v \in Writers : v # w => pc[v] \notin {"persist", "publish"}
    BY <2>1 DEF IInv, CallInv
  <2>4. ConfigInv' /\ OpenInv' /\ NonceUnique'
    BY <1>p, <2>1, <2>2 DEF IInv, ConfigInv, OpenInv, NonceUnique, Up
  <2>5. CallInv' /\ RangeInv'
    BY <2>1, <2>2, <2>3 DEF IInv, CallInv, RangeInv
  <2>6. UsedInv'
    BY <2>1, <2>2, UpFacts DEF IInv, UsedInv, Up, Durable
  <2>7. QED BY <2>4, <2>5, <2>6 DEF IInv
<1>6. CASE ReservePush(w)
  <2>1. pc[w] = "push" /\ hi[w] <= highWater
    BY <1>6 DEF ReservePush, IInv, CallInv
  <2>2. QED
    BY <1>6, <1>p, <2>1, SealStep DEF ReservePush
<1>7. QED
  BY <1>1, <1>2, <1>3, <1>4, <1>5, <1>6 DEF Reserve

\* Close and kill -9 leave a copy on disk that covers everything used.
LEMMA StopStep ==
    ASSUME IInv, TypeOK', Close \/ Crash
    PROVE  IInv'
<1> USE DEF diskVars, nonceVars
<1>t. TypeOK
  BY DEF IInv
<1> USE <1>t, Numbers
<1>1. CASE Close
  <2> DEFINE c == NextConfig(highWater, uuid)
  <2>1. c.gen = stateSeq + 1 /\ c.hw = highWater /\ c.uuid = uuid
    BY DEF NextConfig
  <2> HIDE DEF c
  <2>2. Up /\ Down /\ UNCHANGED nonceVars
    BY <1>1 DEF Close, Up
  <2>3. CASE local' = NoConfig /\ backend' = c
    <3>1. ConfigInv' /\ Durable' = c
      BY <2>1, <2>3 DEF ConfigInv, NoConfig, Durable, Authoritative
    <3>2. QED BY <2>1, <2>2, <3>1, UpFacts, DownStep
  <2>4. CASE local' \in {c, local} /\ UNCHANGED backend
    <3>1. /\ ConfigInv' /\ local'.gen > 0 /\ backend'.gen <= local'.gen
          /\ local'.uuid = uuid /\ highWater <= local'.hw /\ local'.hw \in Nat
      BY <2>1, <2>2, <2>4, UpFacts DEF IInv, ConfigInv
    <3>2. Durable' = local'
      BY <3>1, DurableAfter
    <3>3. QED BY <2>2, <3>1, <3>2, UpFacts, DownStep
  <2>5. QED BY <1>1, <2>3, <2>4 DEF Close, c
<1>2. CASE Crash
  <2>1. ConfigInv' /\ Down /\ UNCHANGED nonceVars /\ Durable' = Durable
    BY <1>2 DEF Crash, IInv, ConfigInv, Durable
  <2>2. QED BY <2>1, DownStep DEF IInv, UsedInv
<1>3. QED BY <1>1, <1>2

\* IInv holds of the engine: the inductive core of every safety claim below.
THEOREM Inductive == Spec => []IInv
<1>1. IInv /\ [Next]_vars => IInv'
  <2> SUFFICES ASSUME IInv, [Next]_vars PROVE IInv'
    OBVIOUS
  <2>0. TypeOK'
    BY TypeStep DEF IInv
  <2>1. CASE LoadState \/ ImportFresh \/ EnsureVolumeUUID \/ RecoverLocalWALs
    BY <2>0, <2>1, OpeningStep
  <2>2. ASSUME NEW w \in Writers, Reserve(w) PROVE IInv'
    BY <2>0, <2>2, ReserveStep
  <2>3. CASE Close \/ Crash
    BY <2>0, <2>3, StopStep
  <2>4. CASE UNCHANGED vars
    BY <2>4 DEF vars, diskVars, memVars, writerVars, snapVars, nonceVars, IInv,
                TypeOK, ConfigInv, OpenInv, CallInv, RangeInv, UsedInv,
                NonceUnique, Up, Durable
  <2>5. QED BY <2>1, <2>2, <2>3, <2>4 DEF Next, Engine
<1>2. QED BY <1>1, InitIInv, PTL DEF Spec

\* No nonce of a block record or a snapshot is used twice, for every number of writers, window and batch size
\* (reserveSeqNum, LoadState, EnsureVolumeUUID, Close).
THEOREM NoncesUnique == Spec => []NonceUnique
BY Inductive, PTL DEF IInv

\* Every SeqNum in use is covered by the mark an open would load.
THEOREM IssuedCovered == Spec => []IssuedBelowDurable
<1>1. IInv => IssuedBelowDurable
  BY DEF IInv, UsedInv, IssuedBelowDurable
<1>2. QED BY <1>1, Inductive, PTL

\* Every block is sealed under the UUID an open would load.
THEOREM UuidDurable == Spec => []SealedUuidIsDurable
<1>1. IInv => SealedUuidIsDurable
  BY DEF IInv, UsedInv, SealedUuidIsDurable
<1>2. QED BY <1>1, Inductive, PTL

\* The generation an open selects never goes back, although pushes are
\* reordered and Close removes the local copy.
THEOREM NeverRegresses == Spec => DurableNeverRegresses
<1>1. IInv /\ TypeOK' /\ [Next]_vars => [Durable'.gen >= Durable.gen]_diskVars
  <2> SUFFICES ASSUME IInv, TypeOK', Next
               PROVE  Durable'.gen >= Durable.gen \/ UNCHANGED diskVars
    BY DEF vars
  <2>t. TypeOK
    BY DEF IInv
  <2> USE <2>t, Numbers, DurableFacts
  <2>a. /\ local'.gen \in Nat /\ backend'.gen \in Nat /\ Durable'.gen \in Nat
        /\ local'.gen <= Durable'.gen /\ backend'.gen <= Durable'.gen
    BY DEF TypeOK, Config, Durable, Authoritative
  <2>u. Up => Durable.gen <= stateSeq /\ Durable.gen = local.gen
    BY UpFacts
  <2>1. CASE LoadState
    <3>1. local'.gen = Durable.gen + 1
      BY <2>1 DEF LoadState
    <3>2. QED BY <2>a, <3>1
  <2>2. CASE ImportFresh
    BY <2>2, <2>a DEF ImportFresh
  <2>3. CASE EnsureVolumeUUID
    BY <2>3, <2>a, <2>u DEF EnsureVolumeUUID, NextConfig, diskVars, Up
  <2>4. CASE RecoverLocalWALs
    BY <2>4, <2>a, <2>u DEF RecoverLocalWALs, NextConfig, diskVars, Up
  <2>5. ASSUME NEW w \in Writers, Reserve(w)
        PROVE  Durable'.gen >= Durable.gen \/ UNCHANGED diskVars
    <3>p. pc[w] # "idle" => Up
      BY DEF IInv, OpenInv, Up
    <3>1. CASE ReservePersist(w)
      BY <2>a, <2>u, <3>p, <3>1 DEF ReservePersist, NextConfig
    <3>2. CASE ReservePush(w)
      BY <2>a, <2>u, <3>p, <3>2 DEF ReservePush
    <3>3. CASE ~ReservePersist(w) /\ ~ReservePush(w)
      BY <2>5, <3>3
         DEF Reserve, ReserveAdd, ReserveCheck, ReserveLock, ReservePublish
    <3>4. QED BY <3>1, <3>2, <3>3
  <2>6. CASE Close
    BY <2>6, <2>a, <2>u DEF Close, NextConfig, diskVars, Up
  <2>7. CASE Crash
    BY <2>7 DEF Crash
  <2>8. QED
    BY <2>1, <2>2, <2>3, <2>4, <2>5, <2>6, <2>7 DEF Next, Engine
<1>2. IInv => TypeOK
  BY DEF IInv
<1>3. QED
  BY <1>1, <1>2, Inductive, PTL DEF Spec, DurableNeverRegresses

-----------------------------------------------------------------------------
(* Snapshots beside the writers (SeqNum!SnapSpec).  The nonce of a         *)
(* snapshot's metadata is its StateSeqNum, and the argument is about       *)
(* generations alone: the generation an open selects is above every        *)
(* StateSeqNum that was sealed under, and never goes down.                 *)

\* Every snapshot so far was sealed under a StateSeqNum below n.
SnapGens(n) == \A x \in used : x.dom = "snap" => x.n < n

\* While the volume is open the local copy is the newest, and what is to be
\* pushed is no newer; nobody is in a call while the volume is being opened.
GenInv ==
    /\ Up => local.gen > 0 /\ backend.gen <= local.gen /\ local.gen <= stateSeq
    /\ simg.gen <= local.gen /\ \A w \in Writers : img[w].gen <= local.gen
    /\ phase \notin {"importing", "serving"} =>
          spc = "idle" /\ \A w \in Writers : pc[w] = "idle"

\* A snapshot in progress has a StateSeqNum of its own, and SaveState has made
\* a higher one durable before it seals.
SnapInv ==
    /\ SnapGens(Durable.gen)
    /\ spc # "idle" => SnapGens(sgen) /\ sgen <= stateSeq
    /\ spc = "push" => sgen < simg.gen

SInv == TypeOK /\ GenInv /\ SnapInv /\ SnapNonceUnique

\* Every step keeps the types, CreateSnapshot's too.
LEMMA SnapTypeStep == TypeOK /\ [SnapNext]_vars => TypeOK'
<1> SUFFICES ASSUME TypeOK, [SnapNext]_vars PROVE TypeOK'
  OBVIOUS
<1> USE DEF diskVars, memVars, writerVars, snapVars, nonceVars
<1>1. CASE SnapBump
  BY <1>1 DEF SnapBump, TypeOK
<1>2. CASE SnapLoadHighWater
  BY <1>2 DEF SnapLoadHighWater, TypeOK
<1>3. CASE SnapPersist
  <2>1. NextConfig(shw, uuid) \in Config
    BY DEF NextConfig, Config, TypeOK
  <2>2. QED BY <1>3, <2>1 DEF SnapPersist, TypeOK
<1>4. CASE SnapPush
  <2>1. SnapNonces(uuid, sgen) \in SUBSET Nonce
    BY DEF SnapNonces, Nonce, TypeOK
  <2>2. used' \in SUBSET Nonce /\ reused' \in SUBSET Nonce
    BY <1>4, <2>1 DEF SnapPush, Seal, TypeOK
  <2>3. QED BY <1>4, <2>2 DEF SnapPush, TypeOK
<1>5. CASE [Next]_vars
  BY <1>5, TypeStep
<1>6. QED
  BY <1>1, <1>2, <1>3, <1>4, <1>5 DEF SnapNext, Next, CreateSnapshot

\* Of an open volume the local copy is what an open selects.
LEMMA GenFacts ==
    ASSUME TypeOK, GenInv
    PROVE  /\ Durable.gen \in Nat /\ local.gen \in Nat /\ backend.gen \in Nat /\ stateSeq \in Nat
           /\ simg.gen \in Nat /\ \A w \in Writers : img[w].gen \in Nat
           /\ local.gen <= Durable.gen /\ backend.gen <= Durable.gen
           /\ Up => Durable.gen = local.gen
BY DEF TypeOK, Config, Durable, Authoritative, GenInv

\* Every step keeps the generations in order, and the one an open selects never
\* goes down: a late push is no newer than the local copy, and Close removes
\* that one only after a push with a higher generation.
LEMMA GenStep ==
    ASSUME TypeOK, TypeOK', GenInv, [SnapNext]_vars
    PROVE  GenInv' /\ Durable'.gen >= Durable.gen
<1> DEFINE Goal == GenInv' /\ Durable'.gen >= Durable.gen
<1>0. /\ Durable.gen \in Nat /\ local.gen \in Nat /\ backend.gen \in Nat /\ stateSeq \in Nat
      /\ simg.gen \in Nat /\ \A w \in Writers : img[w].gen \in Nat
      /\ local.gen <= Durable.gen /\ backend.gen <= Durable.gen
      /\ Up => Durable.gen = local.gen
  BY GenFacts
<1>1. /\ Durable'.gen \in Nat /\ local'.gen \in Nat /\ backend'.gen \in Nat
      /\ local'.gen <= Durable'.gen /\ backend'.gen <= Durable'.gen
  BY DEF TypeOK, Config, Durable, Authoritative
<1>2. NoConfig.gen = 0 /\ \A h, u : NextConfig(h, u).gen = stateSeq + 1
  BY DEF NoConfig, NextConfig
<1> USE <1>0, <1>1, <1>2 DEF Up
<1> SUFFICES Goal
  BY DEF Goal
<1> HIDE DEF Goal
<1>d. ASSUME Down, Durable'.gen >= Durable.gen PROVE Goal
  BY <1>d DEF Down, GenInv, Goal
<1>s. ASSUME UNCHANGED diskVars PROVE Durable'.gen = Durable.gen
  BY <1>s DEF Durable, diskVars
<1>o. ASSUME Up, local'.gen = stateSeq + 1, stateSeq' = stateSeq + 1,
             backend'.gen \in {backend.gen, stateSeq + 1},
             UNCHANGED <<img, simg, pc, spc>>,
             phase' \in {phase, "recovering", "serving"},
             phase \notin {"importing", "serving"} \/ phase' = phase
      PROVE  Goal
  BY <1>o DEF GenInv, Goal
<1>3. CASE LoadState
  <2>1. /\ phase = "down" /\ phase' = "loaded" /\ local'.gen = Durable.gen + 1
        /\ stateSeq' = Durable.gen + 1 /\ backend'.gen \in {Durable.gen + 1, backend.gen}
        /\ UNCHANGED <<img, simg, pc, spc>>
    BY <1>3 DEF LoadState, writerVars, snapVars
  <2>2. QED BY <2>1 DEF GenInv, Goal
<1>4. CASE ImportFresh
  <2>1. Durable.gen = 0 /\ phase = "down"
    BY <1>4 DEF ImportFresh
  <2>2. CASE Down
    BY <2>1, <2>2, <1>d
  <2>3. CASE ~Down
    <3>1. /\ local'.gen = 1 /\ backend'.gen = 1 /\ stateSeq' = 1 /\ phase' = "importing"
          /\ UNCHANGED <<img, simg, pc, spc>>
      BY <1>4, <2>3 DEF ImportFresh, writerVars, snapVars
    <3>2. QED BY <2>1, <3>1 DEF GenInv, Goal
  <2>4. QED BY <2>2, <2>3
<1>5. CASE EnsureVolumeUUID
  <2>1. Up
    BY <1>5 DEF EnsureVolumeUUID
  <2>2. CASE uuid # 0
    BY <1>5, <1>s, <2>2 DEF EnsureVolumeUUID, diskVars, writerVars, snapVars, GenInv, Goal
  <2>3. CASE uuid = 0 /\ Down
    <3>1. local'.gen \in {stateSeq + 1, local.gen}
      BY <1>5, <2>3 DEF EnsureVolumeUUID
    <3>2. Durable'.gen >= Durable.gen
      BY <2>1, <3>1 DEF GenInv
    <3>3. QED BY <2>3, <3>2, <1>d
  <2>4. CASE uuid = 0 /\ ~Down
    <3>1. /\ local'.gen = stateSeq + 1 /\ stateSeq' = stateSeq + 1 /\ phase = "loaded"
          /\ backend'.gen = stateSeq + 1 /\ phase' = "recovering" /\ UNCHANGED <<img, simg, pc, spc>>
      BY <1>5, <2>4 DEF EnsureVolumeUUID, writerVars, snapVars
    <3>2. QED BY <2>1, <3>1, <1>o
  <2>5. QED BY <2>2, <2>3, <2>4
<1>6. CASE RecoverLocalWALs
  <2>1. Up
    BY <1>6 DEF RecoverLocalWALs
  <2>2. CASE Down
    <3>1. local'.gen \in {stateSeq + 1, local.gen} \/ phase' = "serving"
      BY <1>6, <2>2 DEF RecoverLocalWALs
    <3>2. Durable'.gen >= Durable.gen
      BY <2>1, <2>2, <3>1 DEF GenInv, Down
    <3>3. QED BY <2>2, <3>2, <1>d
  <2>3. CASE ~Down /\ UNCHANGED <<diskVars, stateSeq>>
    BY <1>6, <1>s, <2>3 DEF RecoverLocalWALs, diskVars, writerVars, snapVars, GenInv, Goal
  <2>4. CASE ~Down /\ ~UNCHANGED <<diskVars, stateSeq>>
    <3>1. /\ local'.gen = stateSeq + 1 /\ stateSeq' = stateSeq + 1 /\ phase = "recovering"
          /\ backend'.gen = stateSeq + 1 /\ phase' = "serving" /\ UNCHANGED <<img, simg, pc, spc>>
      BY <1>6, <2>4 DEF RecoverLocalWALs, writerVars, snapVars
    <3>2. QED BY <2>1, <3>1, <1>o
  <2>5. QED BY <2>2, <2>3, <2>4
<1>7. ASSUME NEW w \in Writers, Reserve(w) PROVE Goal
  <2>t. img \in [Writers -> Config] /\ pc \in [Writers -> WriterPCs]
    BY DEF TypeOK
  <2>u. pc[w] # "idle" => Up /\ phase \in {"importing", "serving"}
    BY DEF GenInv
  <2>r. ASSUME Return(w) PROVE \A v \in Writers : img'[v].gen \in {0, img[v].gen}
    BY <2>r, <2>t DEF Return
  <2>1. ASSUME NEW n \in 1..MaxBatch, ReserveAdd(w, n) PROVE Goal
    <3>1. phase \in {"importing", "serving"} /\ UNCHANGED <<diskVars, phase, stateSeq, img, simg, spc>>
      BY <2>1 DEF ReserveAdd, MayCall, snapVars, writerVars
    <3>2. QED BY <3>1, <1>s DEF GenInv, Goal, diskVars
  <2>2. CASE ReserveCheck(w)
    <3>1. /\ UNCHANGED <<diskVars, phase, stateSeq, simg, spc>> /\ pc[w] # "idle"
          /\ UNCHANGED img \/ Return(w)
      BY <2>2 DEF ReserveCheck, snapVars, memVars
    <3>2. QED BY <2>r, <2>u, <3>1, <1>s DEF GenInv, Goal, diskVars
  <2>3. CASE ReserveLock(w)
    <3>1. /\ UNCHANGED <<diskVars, phase, stateSeq, simg, spc>> /\ pc[w] # "idle"
          /\ UNCHANGED img \/ Return(w)
      BY <2>3 DEF ReserveLock, snapVars
    <3>2. QED BY <2>r, <2>u, <3>1, <1>s DEF GenInv, Goal, diskVars
  <2>4. CASE ReservePersist(w)
    <3>1. /\ stateSeq' = stateSeq + 1 /\ UNCHANGED <<backend, phase, simg, spc>> /\ pc[w] # "idle"
          /\ local'.gen \in {local.gen, stateSeq + 1}
      BY <2>4 DEF ReservePersist, snapVars
    <3>2. \A v \in Writers : img'[v].gen <= local'.gen
      <4>1. CASE Return(w)
        BY <2>r, <2>u, <3>1, <4>1 DEF GenInv
      <4>2. CASE ~Return(w)
        BY <2>4, <2>t, <2>u, <3>1, <4>2 DEF ReservePersist, GenInv
      <4>3. QED BY <4>1, <4>2
    <3>3. QED BY <2>u, <3>1, <3>2 DEF GenInv, Goal
  <2>5. CASE ReservePublish(w)
    <3>1. UNCHANGED <<diskVars, phase, stateSeq, simg, spc, img>> /\ pc[w] # "idle"
      BY <2>5 DEF ReservePublish, snapVars
    <3>2. QED BY <2>u, <3>1, <1>s DEF GenInv, Goal, diskVars
  <2>6. CASE ReservePush(w)
    <3>1. /\ UNCHANGED <<local, phase, stateSeq, simg, spc>> /\ pc[w] # "idle" /\ Return(w)
          /\ backend'.gen \in {img[w].gen, backend.gen}
      BY <2>6 DEF ReservePush, snapVars, memVars
    <3>2. QED BY <2>r, <2>u, <3>1 DEF GenInv, Goal
  <2>7. QED BY <1>7, <2>1, <2>2, <2>3, <2>4, <2>5, <2>6 DEF Reserve
<1>8. CASE Close
  <2>1. Up /\ Down
    BY <1>8 DEF Close
  <2>2. local'.gen \in {stateSeq + 1, local.gen} \/ backend'.gen = stateSeq + 1
    BY <1>8 DEF Close
  <2>3. Durable'.gen >= Durable.gen
    BY <2>1, <2>2 DEF GenInv
  <2>4. QED BY <2>1, <2>3, <1>d
<1>9. CASE Crash
  BY <1>9, <1>d, <1>s DEF Crash
<1>10. CASE SnapBump
  <2>1. UNCHANGED <<diskVars, phase, img, simg, pc>> /\ stateSeq' = stateSeq + 1
        /\ phase \in {"importing", "serving"}
    BY <1>10 DEF SnapBump, MayCall, writerVars
  <2>2. QED BY <2>1, <1>s DEF GenInv, Goal, diskVars
<1>11. CASE SnapLoadHighWater
  <2>1. UNCHANGED <<diskVars, phase, stateSeq, img, simg, pc>> /\ spc # "idle"
    BY <1>11 DEF SnapLoadHighWater, writerVars, memVars
  <2>2. QED BY <2>1, <1>s DEF GenInv, Goal, diskVars
<1>12. CASE SnapPersist
  <2>1. /\ UNCHANGED <<backend, phase, img, pc>> /\ stateSeq' = stateSeq + 1 /\ spc # "idle"
        /\ \/ local'.gen = stateSeq + 1 /\ simg'.gen = stateSeq + 1
           \/ local'.gen \in {stateSeq + 1, local.gen} /\ simg' = simg
    BY <1>12 DEF SnapPersist, writerVars
  <2>2. QED BY <2>1 DEF GenInv, Goal
<1>13. CASE SnapPush
  <2>1. /\ UNCHANGED <<local, phase, stateSeq, img, simg, pc>> /\ spc # "idle"
        /\ backend'.gen \in {simg.gen, backend.gen}
    BY <1>13 DEF SnapPush, writerVars, memVars
  <2>2. QED BY <2>1 DEF GenInv, Goal
<1>14. CASE UNCHANGED vars
  BY <1>14, <1>s DEF vars, diskVars, memVars, writerVars, snapVars, GenInv, Goal
<1>15. QED
  BY <1>3, <1>4, <1>5, <1>6, <1>7, <1>8, <1>9, <1>10, <1>11, <1>12, <1>13, <1>14
     DEF SnapNext, Engine, CreateSnapshot

\* The nonces of blocks are none of a snapshot's: what the engine seals leaves
\* the snapshots' nonces alone.
LEMMA EngineNonces ==
    ASSUME Engine
    PROVE  /\ \A x \in used' : x.dom = "snap" => x \in used
           /\ \A x \in reused' : x.dom = "snap" => x \in reused
           /\ spc' = "idle" \/ UNCHANGED <<spc, sgen, simg>>
<1> DEFINE Goal == /\ \A x \in used' : x.dom = "snap" => x \in used
                   /\ \A x \in reused' : x.dom = "snap" => x \in reused
                   /\ spc' = "idle" \/ UNCHANGED <<spc, sgen, simg>>
<1> SUFFICES Goal
  OBVIOUS
<1>q. ASSUME UNCHANGED nonceVars, UNCHANGED snapVars \/ Down PROVE Goal
  BY <1>q DEF nonceVars, snapVars, Down
<1>s. ASSUME NEW u, NEW a, NEW b, Seal(DataNonces(u, a, b)), UNCHANGED snapVars PROVE Goal
  <2>1. \A x \in DataNonces(u, a, b) : x.dom = "data"
    BY DEF DataNonces
  <2>2. QED BY <1>s, <2>1 DEF Seal, snapVars
<1> HIDE DEF Goal
<1>1. CASE LoadState
  BY <1>1, <1>q DEF LoadState
<1>2. CASE ImportFresh
  BY <1>2, <1>q DEF ImportFresh
<1>3. CASE EnsureVolumeUUID
  BY <1>3, <1>q DEF EnsureVolumeUUID
<1>4. CASE RecoverLocalWALs
  BY <1>4, <1>q DEF RecoverLocalWALs
<1>5. ASSUME NEW w \in Writers, Reserve(w) PROVE Goal
  <2>1. ASSUME NEW n \in 1..MaxBatch, ReserveAdd(w, n) PROVE Goal
    BY <2>1, <1>q DEF ReserveAdd
  <2>2. CASE ReserveCheck(w)
    BY <2>2, <1>q, <1>s DEF ReserveCheck, nonceVars
  <2>3. CASE ReserveLock(w)
    BY <2>3, <1>q, <1>s DEF ReserveLock, nonceVars
  <2>4. CASE ReservePersist(w)
    BY <2>4, <1>q DEF ReservePersist
  <2>5. CASE ReservePublish(w)
    BY <2>5, <1>q DEF ReservePublish
  <2>6. CASE ReservePush(w)
    BY <2>6, <1>s DEF ReservePush
  <2>7. QED BY <1>5, <2>1, <2>2, <2>3, <2>4, <2>5, <2>6 DEF Reserve
<1>6. CASE Close
  BY <1>6, <1>q DEF Close
<1>7. CASE Crash
  BY <1>7, <1>q DEF Crash
<1>8. QED BY <1>1, <1>2, <1>3, <1>4, <1>5, <1>6, <1>7 DEF Engine

\* The engine never lowers its generation counter while a snapshot is under way.
LEMMA EngineStateSeq ==
    ASSUME TypeOK, GenInv, Engine, spc' # "idle"
    PROVE  stateSeq' \in {stateSeq, stateSeq + 1}
<1>1. spc = spc' /\ phase \in {"importing", "serving"}
  BY EngineNonces DEF GenInv
<1>2. ~Down
  BY DEF Down
<1>3. PICK w \in Writers : Reserve(w)
  BY <1>1, <1>2 DEF Engine, LoadState, ImportFresh, EnsureVolumeUUID, RecoverLocalWALs,
                    Close, Crash
<1>4. QED
  BY <1>3 DEF Reserve, ReserveAdd, ReserveCheck, ReserveLock, ReservePersist, ReservePublish,
              ReservePush, memVars

\* A snapshot's StateSeqNum stays above those before it and below the durable
\* generation, and no two snapshots share one.
LEMMA SnapStep ==
    ASSUME SInv, [SnapNext]_vars
    PROVE  SInv'
<1>0. TypeOK /\ GenInv /\ SnapInv /\ SnapNonceUnique
  BY DEF SInv
<1>1. TypeOK'
  BY <1>0, SnapTypeStep
<1>2. GenInv' /\ Durable'.gen >= Durable.gen
  BY <1>0, <1>1, GenStep
<1>3. /\ Durable.gen \in Nat /\ Durable'.gen \in Nat /\ sgen \in Nat /\ stateSeq \in Nat
      /\ simg.gen \in Nat /\ local.gen \in Nat /\ \A x \in used : x.n \in Nat
  <2>1. Durable'.gen \in Nat
    BY <1>1 DEF TypeOK, Config, Durable, Authoritative
  <2>2. QED BY <1>0, <2>1, GenFacts DEF TypeOK, Nonce
<1> USE <1>0, <1>3
<1>k. SnapGens(Durable.gen) /\ \A x \in used : x.dom = "snap" => x.n < Durable'.gen
  <2>1. SnapGens(Durable.gen)
    BY DEF SnapInv
  <2>2. QED BY <2>1, <1>2 DEF SnapGens
<1> DEFINE Goal == SnapInv' /\ SnapNonceUnique'
<1> SUFFICES Goal
  BY <1>1, <1>2 DEF SInv
<1>q. ASSUME UNCHANGED nonceVars PROVE SnapNonceUnique' /\ SnapGens(Durable.gen)'
  BY <1>q, <1>k DEF nonceVars, SnapNonceUnique, SnapGens
<1>4. CASE Engine
  <2>1. /\ \A x \in used' : x.dom = "snap" => x \in used
        /\ \A x \in reused' : x.dom = "snap" => x \in reused
        /\ spc' = "idle" \/ UNCHANGED <<spc, sgen, simg>>
    BY <1>4, EngineNonces
  <2>2. SnapNonceUnique' /\ SnapGens(Durable.gen)'
    BY <2>1, <1>k DEF SnapNonceUnique, SnapGens
  <2>3. CASE spc' = "idle"
    BY <2>2, <2>3 DEF SnapInv
  <2>4. CASE spc' # "idle"
    <3>1. stateSeq' \in {stateSeq, stateSeq + 1} /\ UNCHANGED <<spc, sgen, simg>>
      BY <1>4, <2>1, <2>4, EngineStateSeq
    <3>2. SnapGens(sgen) /\ sgen <= stateSeq /\ (spc = "push" => sgen < simg.gen)
      BY <2>4, <3>1 DEF SnapInv
    <3>3. SnapGens(sgen)'
      BY <2>1, <3>1, <3>2 DEF SnapGens
    <3>4. QED BY <2>2, <3>1, <3>2, <3>3 DEF SnapInv
  <2>5. QED BY <2>3, <2>4
<1>5. CASE SnapBump
  <2>1. /\ UNCHANGED nonceVars /\ spc' = "load" /\ sgen' = stateSeq + 1
        /\ stateSeq' = stateSeq + 1 /\ Up
    BY <1>5 DEF SnapBump, MayCall, Up
  <2>2. Durable.gen <= stateSeq
    BY <2>1, GenFacts DEF GenInv
  <2>3. SnapGens(sgen)'
    BY <2>1, <2>2, <1>k DEF SnapGens, nonceVars
  <2>4. QED BY <2>1, <2>3, <1>q DEF SnapInv
<1>6. CASE SnapLoadHighWater
  <2>1. UNCHANGED <<nonceVars, sgen, stateSeq>> /\ spc = "load" /\ spc' = "persist"
    BY <1>6 DEF SnapLoadHighWater, memVars
  <2>2. SnapGens(sgen)'
    BY <2>1 DEF SnapInv, SnapGens, nonceVars
  <2>3. QED BY <2>1, <2>2, <1>q DEF SnapInv
<1>7. CASE SnapPersist
  <2>1. /\ UNCHANGED <<nonceVars, sgen>> /\ spc = "persist" /\ stateSeq' = stateSeq + 1
        /\ (spc' = "push" /\ simg'.gen = stateSeq + 1) \/ spc' = "idle"
    BY <1>7 DEF SnapPersist, NextConfig
  <2>2. SnapGens(sgen)' /\ sgen <= stateSeq
    BY <2>1 DEF SnapInv, SnapGens, nonceVars
  <2>3. QED BY <2>1, <2>2, <1>q DEF SnapInv
<1>8. CASE SnapPush
  <2>1. spc = "push" /\ spc' = "idle" /\ UNCHANGED local
    BY <1>8 DEF SnapPush
  <2>2. SnapGens(sgen) /\ sgen < simg.gen /\ simg.gen <= local.gen /\ local.gen <= Durable.gen
    BY <2>1, GenFacts DEF SnapInv, GenInv
  <2>3. CASE UNCHANGED nonceVars
    BY <2>1, <2>3, <1>q DEF SnapInv
  <2>4. CASE Seal(SnapNonces(uuid, sgen))
    <3>1. \A x \in SnapNonces(uuid, sgen) : x.dom = "snap" /\ x.n = sgen
      BY DEF SnapNonces
    <3>2. \A x \in SnapNonces(uuid, sgen) : x \notin used
      BY <3>1, <2>2 DEF SnapGens
    <3>3. reused' = reused
      BY <2>4, <3>2 DEF Seal
    <3>4. SnapGens(Durable.gen)'
      BY <2>2, <2>4, <3>1, <1>2, <1>k DEF Seal, SnapGens
    <3>5. QED BY <2>1, <3>3, <3>4 DEF SnapInv, SnapNonceUnique
  <2>5. QED BY <1>8, <2>3, <2>4 DEF SnapPush
<1>9. CASE UNCHANGED vars
  <2>1. UNCHANGED <<nonceVars, sgen, stateSeq, spc, simg>>
    BY <1>9 DEF vars, memVars, snapVars
  <2>2. spc # "idle" => SnapGens(sgen)'
    BY <2>1 DEF SnapInv, SnapGens, nonceVars
  <2>3. QED BY <2>1, <2>2, <1>q DEF SnapInv
<1>10. QED BY <1>4, <1>5, <1>6, <1>7, <1>8, <1>9 DEF SnapNext, CreateSnapshot

\* Both hold in every behaviour with snapshots beside the writers.
LEMMA SnapInductive == SnapSpec => []SInv
<1>1. Init => SInv
  <2> SUFFICES ASSUME Init PROVE SInv
    OBVIOUS
  <2>1. TypeOK
    BY TypeInit
  <2>2. NoConfig.gen = 0
    BY DEF NoConfig
  <2>3. GenInv
    BY <2>2 DEF Init, GenInv, Up
  <2>4. SnapInv /\ SnapNonceUnique
    BY DEF Init, SnapInv, SnapGens, SnapNonceUnique
  <2>5. QED BY <2>1, <2>3, <2>4 DEF SInv
<1>2. SInv /\ [SnapNext]_vars => SInv'
  BY SnapStep
<1>3. QED BY <1>1, <1>2, PTL DEF SnapSpec

\* Two snapshots are never sealed under one StateSeqNum, whatever crash falls
\* between the counter's Add and the SaveState that makes it durable, and with
\* CreateSnapshot's SaveState racing the writers' (CreateSnapshot).
THEOREM SnapshotNoncesUnique == SnapSpec => []SnapNonceUnique
BY SnapInductive, PTL DEF SInv

\* With snapshots, too, the state an open selects never goes back to an older
\* generation (LoadState, pushStateToBackend, Close).
THEOREM NeverRegressesWithSnapshots == SnapSpec => DurableNeverRegresses
<1>1. SInv /\ SInv' /\ [SnapNext]_vars => [Durable'.gen >= Durable.gen]_diskVars
  BY GenStep DEF SInv
<1>2. QED BY <1>1, SnapInductive, PTL DEF SnapSpec, DurableNeverRegresses
=============================================================================
