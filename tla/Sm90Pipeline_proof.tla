------------------------ MODULE Sm90Pipeline_proof ------------------------
(* Proofs about Sm90Pipeline, for every number of stages, warp groups and   *)
(* block range.                                                             *)
EXTENDS Sm90PipelineInv, FiniteSetTheorems, TLAPS

\* Pipeline states are closed under advance.
LEMMA StateType == State0 \in States /\ \A s \in States : Advance(s) \in States
BY ConstAssumption DEF State0, States, Advance, Slots

\* The initial states are well typed.
LEMMA TypeInit == Init => TypeOK
<1>1. SUFFICES ASSUME Init PROVE TypeOK
  OBVIOUS
<1>2. PICK r \in Ranges : nBlockMin = r[1] /\ nBlockMax = r[2]
  BY <1>1 DEF Init
<1>3. nBlockMin \in Nat /\ nBlockMax \in Int
  BY <1>2, ConstAssumption
<1> QED
  BY <1>1, <1>3, StateType, ConstAssumption
  DEF Init, TypeOK, TileTyped, PipesTyped, ProducerTyped, ConsumersTyped,
      ResultsTyped, WGPCs, FirstBlock, WG, Slots, Regs, None, HasWork

\* The operations on a pipeline keep its variables typed.
LEMMA IssueType ==
  ASSUME PipesTyped, NEW p \in Pipes, NEW s \in States, NEW b \in Int, Issue(p, s, b)
  PROVE  PipesTyped'
<1>1. s.index \in Slots
  BY DEF States
<1> QED
  BY <1>1 DEF PipesTyped, Issue

\* Setting one slot of one pipe keeps the type of a barrier's table.
LEMMA UpdateType ==
  ASSUME NEW D, NEW f \in [Pipes -> [Slots -> D]], NEW p \in Pipes, NEW i \in Slots,
         NEW d \in D
  PROVE  [f EXCEPT ![p][i] = d] \in [Pipes -> [Slots -> D]]
OBVIOUS

\* A release keeps the pipeline variables typed: the arrivals stay below NumWG.
LEMMA ReleaseType ==
  ASSUME PipesTyped, NEW p \in Pipes, NEW s \in States, Release(p, s)
  PROVE  PipesTyped'
<1> DEFINE i == s.index
           a == arrived[p][i]
<1>1. i \in Slots
  BY DEF States
<1>2. a \in 0 .. NumWG - 1 /\ a \in Int /\ empty[p][i] \in Nat
  BY <1>1 DEF PipesTyped
<1>3. empty[p][i] + 1 \in Nat /\ 0 \in 0 .. NumWG - 1
      /\ (a + 1 # NumWG => a + 1 \in 0 .. NumWG - 1)
  BY <1>2, ConstAssumption
<1>4. arrived' \in [Pipes -> [Slots -> 0 .. NumWG - 1]]
  <2> HIDE DEF i
  <2>0. arrived \in [Pipes -> [Slots -> 0 .. NumWG - 1]]
    BY DEF PipesTyped
  <2>1. CASE a + 1 = NumWG
    <3>1. arrived' = [arrived EXCEPT ![p][i] = 0]
      BY <2>1 DEF Release, i
    <3> QED
      BY <3>1, <2>0, <1>1, <1>3, UpdateType
  <2>2. CASE a + 1 # NumWG
    <3>1. arrived' = [arrived EXCEPT ![p][i] = a + 1]
      BY <2>2 DEF Release, i
    <3> QED
      BY <3>1, <2>0, <2>2, <1>1, <1>3, UpdateType
  <2> QED
    BY <2>1, <2>2
<1>5. empty' \in [Pipes -> [Slots -> Nat]]
  <2> HIDE DEF i
  <2>1. empty' = empty \/ empty' = [empty EXCEPT ![p][i] = empty[p][i] + 1]
    BY DEF Release, i
  <2>2. empty \in [Pipes -> [Slots -> Nat]]
    BY DEF PipesTyped
  <2>3. [empty EXCEPT ![p][i] = empty[p][i] + 1] \in [Pipes -> [Slots -> Nat]]
    <3> DEFINE e == empty[p][i] + 1
    <3>1. e \in Nat
      BY <1>3 DEF i
    <3> HIDE DEF e
    <3> QED
      BY <3>1, <2>2, <1>1, UpdateType DEF e
  <2> QED
    BY <2>1, <2>2, <2>3
<1> QED
  BY <1>4, <1>5 DEF PipesTyped, Release

\* So does a load that lands.
LEMMA LandType ==
  ASSUME PipesTyped, NEW p \in Pipes, NEW i \in Slots, Land(p, i)
  PROVE  PipesTyped'
BY DEF PipesTyped, Land

\* Every action keeps the variables typed.
LEMMA TypeNext == TypeOK /\ [Next]_vars => TypeOK'
<1> SUFFICES ASSUME TypeOK, [Next]_vars PROVE TypeOK'
  OBVIOUS
<1> USE ConstAssumption
<1>0. /\ TileTyped /\ PipesTyped /\ ProducerTyped /\ ConsumersTyped /\ ResultsTyped
      /\ pkv \in States /\ pprev \in States /\ Advance(pkv) \in States
      /\ pn \in Int /\ pn - 1 \in Int /\ pn + 1 \in Int /\ nBlockMin \in Int
      /\ "K" \in Pipes /\ "V" \in Pipes
  BY StateType DEF TypeOK, TileTyped, ProducerTyped, Pipes
<1>1. ASSUME Producer PROVE TypeOK'
  <2>1. TileTyped' /\ ConsumersTyped' /\ ResultsTyped'
    BY <1>0, <1>1
    DEF Producer, LoadFirstK, LoadQ, LoadV, LoadK, LoadNextK, LoadPrevV, LoadLastV,
        ProducerTail, TileTyped, ConsumersTyped, ResultsTyped, tileVars, wgVars, outVars
  <2>2. ProducerTyped'
    BY <1>0, <1>1
    DEF Producer, LoadFirstK, LoadQ, LoadV, LoadK, LoadNextK, LoadPrevV, LoadLastV,
        ProducerTail, ProducerTyped
  <2>3. PipesTyped'
    <3>1. CASE LoadQ \/ ProducerTail
      BY <3>1, <1>0 DEF LoadQ, ProducerTail, pipeVars, PipesTyped
    <3>2. CASE LoadFirstK \/ LoadV \/ LoadK \/ LoadNextK \/ LoadPrevV \/ LoadLastV
      BY <3>2, <1>0, IssueType
      DEF LoadFirstK, LoadV, LoadK, LoadNextK, LoadPrevV, LoadLastV
    <3> QED
      BY <1>1, <3>1, <3>2 DEF Producer
  <2> QED
    BY <2>1, <2>2, <2>3 DEF TypeOK
<1>2. ASSUME LandQ PROVE TypeOK'
  BY <1>0, <1>2 DEF LandQ, TypeOK, TileTyped, PipesTyped, ProducerTyped, ConsumersTyped,
     ResultsTyped, tileVars, pipeVars, prodVars, wgVars, outVars
<1>3. ASSUME NEW p \in Pipes, NEW i \in Slots, Land(p, i) PROVE TypeOK'
  <2>1. PipesTyped'
    BY <1>0, <1>3, LandType
  <2> QED
    BY <1>0, <1>3, <2>1 DEF Land, TypeOK, TileTyped, ProducerTyped, ConsumersTyped,
       ResultsTyped, tileVars, prodVars, wgVars, outVars
<1>4. ASSUME NEW w \in WG, WarpGroup(w) PROVE TypeOK'
  <2>0. /\ kv[w] \in States /\ kvV[w] \in States /\ Advance(kv[w]) \in States
        /\ n[w] \in Int /\ n[w] - 1 \in Int
    BY <1>0, StateType DEF ConsumersTyped
  <2>1. TileTyped' /\ ProducerTyped'
    BY <1>0, <1>4
    DEF WarpGroup, WaitQ, EmptySplit, ReleaseQ, FirstSync, IssueQK, PassTurn, DrainQK,
        WaitV, IssuePV, DrainPV, FirstQK, DrainFirstQK, WaitNextK, IssueNextQK,
        IssuePrevPV, DrainNextQK, DrainPrevPV, LastPV, DrainLastPV, EpilogueBarrier,
        WriteSmemO, StoreO, TileTyped, ProducerTyped, tileVars, prodVars
  <2>2. PipesTyped'
    BY <1>0, <1>4, <2>0, ReleaseType
    DEF WarpGroup, WaitQ, EmptySplit, ReleaseQ, FirstSync, IssueQK, PassTurn, DrainQK,
        WaitV, IssuePV, DrainPV, FirstQK, DrainFirstQK, WaitNextK, IssueNextQK,
        IssuePrevPV, DrainNextQK, DrainPrevPV, LastPV, DrainLastPV, EpilogueBarrier,
        WriteSmemO, StoreO, pipeVars, PipesTyped
  <2>3. ConsumersTyped'
    BY <1>0, <1>4, <2>0
    DEF WarpGroup, WaitQ, EmptySplit, ReleaseQ, FirstSync, IssueQK, PassTurn, DrainQK,
        WaitV, IssuePV, DrainPV, FirstQK, DrainFirstQK, WaitNextK, IssueNextQK,
        IssuePrevPV, DrainNextQK, DrainPrevPV, LastPV, DrainLastPV, EpilogueBarrier,
        WriteSmemO, StoreO, Goto, NextBlock, ConsumersTyped, WGPCs
  <2>4. ResultsTyped'
    <3>1. \A s \in States : Scores(w, s) \in Regs
      BY <1>0, <2>0 DEF Scores, Regs, States, PipesTyped
    <3>2. \A s \in States : Accumulated(w, s) \in Seq([k : Int, n : Int, v : Int])
      <4> SUFFICES ASSUME NEW s \in States
                   PROVE  Accumulated(w, s) \in Seq([k : Int, n : Int, v : Int])
        OBVIOUS
      <4>1. buf["V"][s.index] \in Int
        BY <1>0 DEF States, PipesTyped
      <4>2. preg[w].k \in Int /\ preg[w].n \in Int
        BY <1>0 DEF ResultsTyped, Regs
      <4>3. acc[w] \in Seq([k : Int, n : Int, v : Int])
        BY <1>0 DEF ResultsTyped
      <4>4. [k |-> preg[w].k, n |-> preg[w].n, v |-> buf["V"][s.index]]
              \in [k : Int, n : Int, v : Int]
        BY <4>1, <4>2
      <4> QED
        BY <4>3, <4>4 DEF Accumulated
    <3>3. SchedSync(w) => turn' \in [WG -> {0, 1}]
      BY <1>0 DEF SchedSync, ResultsTyped
    <3>4. SchedArrive(w) => turn' \in [WG -> {0, 1}]
      <4>1. NextWG(w) \in WG
        <5>1. w \in Int /\ 1 <= w /\ w <= NumWG /\ NumWG \in Int
          BY ConstAssumption DEF WG
        <5> QED
          BY <5>1 DEF NextWG, WG
      <4>2. turn \in [WG -> {0, 1}]
        BY <1>0 DEF ResultsTyped
      <4>3. 1 - turn[NextWG(w)] \in {0, 1}
        <5>1. turn[NextWG(w)] = 0 \/ turn[NextWG(w)] = 1
          BY <4>1, <4>2
        <5> QED
          BY <5>1
      <4> QED
        BY <4>1, <4>2, <4>3 DEF SchedArrive
    <3>5. CASE PassTurn(w) \/ FirstSync(w) \/ IssuePV(w) \/ IssueNextQK(w) \/ ReleaseQ(w)
      BY <1>0, <3>3, <3>4, <3>5
      DEF PassTurn, FirstSync, IssuePV, IssueNextQK, ReleaseQ, ResultsTyped, regVars, outVars
    <3>6. CASE DrainQK(w) \/ DrainFirstQK(w) \/ DrainNextQK(w)
      BY <1>0, <2>0, <3>1, <3>6
      DEF DrainQK, DrainFirstQK, DrainNextQK, ResultsTyped, outVars
    <3>7. CASE DrainPV(w) \/ DrainPrevPV(w) \/ DrainLastPV(w)
      BY <1>0, <2>0, <3>2, <3>7
      DEF DrainPV, DrainPrevPV, DrainLastPV, ResultsTyped, outVars
    <3>8. CASE WriteSmemO(w) \/ StoreO(w)
      BY <1>0, <3>8 DEF WriteSmemO, StoreO, ResultsTyped, regVars
    <3>9. CASE \/ WaitQ(w) \/ EmptySplit(w) \/ IssueQK(w) \/ WaitV(w) \/ FirstQK(w)
               \/ WaitNextK(w) \/ IssuePrevPV(w) \/ LastPV(w) \/ EpilogueBarrier(w)
      BY <1>0, <3>9
      DEF WaitQ, EmptySplit, IssueQK, WaitV, FirstQK, WaitNextK, IssuePrevPV, LastPV,
          EpilogueBarrier, ResultsTyped, regVars, outVars
    <3> QED
      BY <1>4, <3>5, <3>6, <3>7, <3>8, <3>9 DEF WarpGroup
  <2> QED
    BY <2>1, <2>2, <2>3, <2>4 DEF TypeOK
<1>5. CASE UNCHANGED vars
  BY <1>0, <1>5 DEF vars, TypeOK, TileTyped, PipesTyped, ProducerTyped, ConsumersTyped,
     ResultsTyped
<1> QED
  BY <1>1, <1>2, <1>3, <1>4, <1>5 DEF Next, Exited

\* The type invariant, for every value of the constants: slot indices stay in the
\* ring, and an empty mbarrier resets with its NumWG-th arrival.
THEOREM TypeCorrect == Spec => []TypeOK
<1>1. Init => TypeOK
  BY TypeInit
<1>2. TypeOK /\ [Next]_vars => TypeOK'
  BY TypeNext
<1> QED
  BY <1>1, <1>2, PTL DEF Spec

-----------------------------------------------------------------------------
(* One pipeline, apart from the state: its four barrier arrays and the      *)
(* positions of the producer and of the warp groups.                        *)

\* Using a slot counts once, for that slot.
LEMMA UsesAdvance ==
  ASSUME NEW s \in States, NEW i \in Slots
  PROVE  /\ Uses(s, i) \in Nat /\ Uses(s, s.index) = s.lap
         /\ Uses(Advance(s), i) = Uses(s, i) + (IF i = s.index THEN 1 ELSE 0)
<1>1. /\ s.index \in Nat /\ s.lap \in Nat /\ s.index <= NumStages - 1
      /\ i \in Nat /\ i <= NumStages - 1 /\ NumStages \in Nat
  BY ConstAssumption DEF States, Slots
<1>2. CASE s.index = NumStages - 1
  <2>1. Advance(s).index = 0 /\ Advance(s).lap = s.lap + 1
    BY <1>2 DEF Advance
  <2> QED
    BY <1>1, <1>2, <2>1 DEF Uses
<1>3. CASE s.index # NumStages - 1
  <2>1. Advance(s).index = s.index + 1 /\ Advance(s).lap = s.lap
    BY <1>3 DEF Advance
  <2> QED
    BY <1>1, <1>3, <2>1 DEF Uses
<1> QED
  BY <1>2, <1>3

\* There are NumWG warp groups.
LEMMA WGFinite == IsFiniteSet(WG) /\ Cardinality(WG) = NumWG
<1>1. NumWG \in Int /\ 1 \in Int /\ ~(1 > NumWG) /\ NumWG - 1 + 1 = NumWG
  BY ConstAssumption
<1> QED
  BY <1>1, FS_Interval DEF WG

PipeTyped(f, e, a, l, pp, cp) ==
  /\ f \in [Slots -> Nat] /\ e \in [Slots -> Nat]
  /\ a \in [Slots -> 0 .. NumWG - 1] /\ l \in [Slots -> BOOLEAN]
  /\ pp \in States /\ cp \in [WG -> States]

\* The warp groups ahead in a slot can be counted.
LEMMA AheadFinite ==
  ASSUME NEW cp \in [WG -> States], NEW e \in [Slots -> Nat], NEW i \in Slots
  PROVE  /\ IsFiniteSet(Ahead(cp, e, i)) /\ Ahead(cp, e, i) \subseteq WG
         /\ Cardinality(Ahead(cp, e, i)) \in Nat
<1>1. Ahead(cp, e, i) \subseteq WG
  BY DEF Ahead
<1> QED
  BY <1>1, WGFinite, FS_Subset, FS_CardinalityType

\* A warp group that waited for its slot reads a slot with no load in flight.
LEMMA ReadyNotLoading ==
  ASSUME NEW f, NEW e, NEW a, NEW l, NEW pp, NEW cp,
         PipeTyped(f, e, a, l, pp, cp), PipeInv(f, e, a, l, pp, cp),
         NEW w \in WG, Ready(f, cp[w])
  PROVE  ~l[cp[w].index]
<1> DEFINE i == cp[w].index
<1>1. i \in Slots /\ cp[w] \in States
  BY DEF PipeTyped, States
<1>2. Uses(cp[w], i) = cp[w].lap /\ cp[w].lap \in Nat
  BY <1>1, UsesAdvance DEF States
<1>3. SlotInv(f, e, a, l, pp, cp, i) /\ f[i] = cp[w].lap + 1
  BY <1>1 DEF PipeInv, Ready
<1>4. w \in DOMAIN cp /\ f[i] \in Nat /\ e[i] \in Nat /\ l[i] \in BOOLEAN
  BY <1>1 DEF PipeTyped
<1> HIDE DEF i
<1> QED
  BY <1>2, <1>3, <1>4 DEF SlotInv, i

\* The parity a consumer waits for is that of its own slot's next phase.
LEMMA FullMeansReady ==
  ASSUME NEW f, NEW e, NEW a, NEW l, NEW pp, NEW cp,
         PipeTyped(f, e, a, l, pp, cp), PipeInv(f, e, a, l, pp, cp),
         NEW w \in WG, f[cp[w].index] % 2 # cp[w].lap % 2
  PROVE  Ready(f, cp[w])
<1> DEFINE i == cp[w].index
<1>1. i \in Slots /\ cp[w] \in States
  BY DEF PipeTyped, States
<1>2. Uses(cp[w], i) = cp[w].lap /\ cp[w].lap \in Nat
  BY <1>1, UsesAdvance DEF States
<1>3. SlotInv(f, e, a, l, pp, cp, i) /\ f[i] % 2 # cp[w].lap % 2
  BY <1>1 DEF PipeInv
<1>4. w \in DOMAIN cp /\ f[i] \in Nat /\ e[i] \in Nat /\ l[i] \in BOOLEAN
  BY <1>1 DEF PipeTyped
<1>5. f[i] \in {cp[w].lap, cp[w].lap + 1}
  <2> HIDE DEF i
  <2> QED
    BY <1>2, <1>3, <1>4 DEF SlotInv
<1> QED
  BY <1>3, <1>5 DEF Ready

\* An acquired slot is drained: no load is in flight, and the load keeps the
\* invariant.
LEMMA IssueKeeps ==
  ASSUME NEW f, NEW e, NEW a, NEW l, NEW pp, NEW cp,
         PipeTyped(f, e, a, l, pp, cp), PipeInv(f, e, a, l, pp, cp),
         e[pp.index] % 2 # (pp.lap + 1) % 2
  PROVE  PipeInv(f, e, a, [l EXCEPT ![pp.index] = TRUE], Advance(pp), cp)
<1> DEFINE i == pp.index
           m == [l EXCEPT ![i] = TRUE]
<1>1. i \in Slots /\ pp \in States /\ pp.lap \in Nat /\ Uses(pp, i) = pp.lap
  BY UsesAdvance DEF PipeTyped, States
<1>2. 1 \in WG /\ 1 \in DOMAIN cp /\ cp[1] \in States
  BY ConstAssumption DEF PipeTyped, WG
<1>3. e[i] = pp.lap /\ ~l[i] /\ f[i] = pp.lap
  <2>1. SlotInv(f, e, a, l, pp, cp, i)
    BY <1>1 DEF PipeInv
  <2>2. f[i] \in Nat /\ e[i] \in Nat /\ l[i] \in BOOLEAN /\ Uses(cp[1], i) \in Nat
    BY <1>1, <1>2, UsesAdvance DEF PipeTyped
  <2>3. e[i] % 2 # (pp.lap + 1) % 2
    OBVIOUS
  <2> HIDE DEF i
  <2>4. pp.lap = e[i]
    BY <1>1, <2>1, <2>2, <2>3 DEF SlotInv
  <2> QED
    BY <1>1, <1>2, <2>1, <2>2, <2>4 DEF SlotInv
<1>4. ASSUME NEW j \in Slots PROVE SlotInv(f, e, a, m, Advance(pp), cp, j)
  <2>1. SlotInv(f, e, a, l, pp, cp, j)
    BY DEF PipeInv
  <2>2. Uses(Advance(pp), j) = Uses(pp, j) + (IF j = i THEN 1 ELSE 0)
    BY <1>1, UsesAdvance
  <2>3. m[j] = IF j = i THEN TRUE ELSE l[j]
    BY <1>1 DEF PipeTyped
  <2> HIDE DEF i, m
  <2>4. CASE j = i
    BY <1>1, <1>3, <2>1, <2>2, <2>3, <2>4 DEF SlotInv
  <2>5. CASE j # i
    <3>1. Uses(pp, j) \in Nat
      BY <1>1, UsesAdvance
    <3>2. Uses(Advance(pp), j) = Uses(pp, j) /\ m[j] = l[j]
      BY <2>2, <2>3, <2>5, <3>1
    <3> QED
      BY <2>1, <3>2 DEF SlotInv
  <2> QED
    BY <2>4, <2>5
<1> QED
  BY <1>4 DEF PipeInv

\* A load that lands keeps the invariant, and what was ready stays ready.
LEMMA LandKeeps ==
  ASSUME NEW f, NEW e, NEW a, NEW l, NEW pp, NEW cp,
         PipeTyped(f, e, a, l, pp, cp), PipeInv(f, e, a, l, pp, cp),
         NEW i \in Slots, l[i]
  PROVE  /\ PipeInv([f EXCEPT ![i] = @ + 1], e, a, [l EXCEPT ![i] = FALSE], pp, cp)
         /\ \A w \in WG : Ready(f, cp[w]) => Ready([f EXCEPT ![i] = @ + 1], cp[w])
<1> DEFINE g == [f EXCEPT ![i] = @ + 1]
           m == [l EXCEPT ![i] = FALSE]
<1>1. ASSUME NEW j \in Slots PROVE SlotInv(g, e, a, m, pp, cp, j)
  <2>1. SlotInv(f, e, a, l, pp, cp, j)
    BY DEF PipeInv
  <2>2. /\ g[j] = (IF j = i THEN f[j] + 1 ELSE f[j])
        /\ m[j] = (IF j = i THEN FALSE ELSE l[j])
        /\ f[j] \in Nat
    BY DEF PipeTyped
  <2>3. \A w \in DOMAIN cp : Uses(cp[w], j) \in Nat
    BY UsesAdvance DEF PipeTyped
  <2> HIDE DEF g, m
  <2> QED
    BY <2>1, <2>2, <2>3 DEF SlotInv
<1>2. ASSUME NEW w \in WG, Ready(f, cp[w]) PROVE Ready(g, cp[w])
  <2>1. cp[w].index # i
    BY <1>2, ReadyNotLoading
  <2>2. cp[w].index \in Slots
    BY DEF PipeTyped, States
  <2> QED
    BY <1>2, <2>1, <2>2 DEF Ready, PipeTyped
<1> QED
  BY <1>1, <1>2 DEF PipeInv

\* An arrival on the empty barrier of slot i.
Arrival(e, a, i, e2, a2) ==
  IF a[i] + 1 = NumWG
  THEN a2 = [a EXCEPT ![i] = 0] /\ e2 = [e EXCEPT ![i] = @ + 1]
  ELSE a2 = [a EXCEPT ![i] = @ + 1] /\ e2 = e

\* A release of a slot a warp group waited for keeps the invariant, whether it
\* completes the empty barrier's phase or not.
LEMMA ReleaseKeeps ==
  ASSUME NEW f, NEW e, NEW a, NEW l, NEW pp, NEW cp,
         PipeTyped(f, e, a, l, pp, cp), PipeInv(f, e, a, l, pp, cp),
         NEW w \in WG, Ready(f, cp[w]),
         NEW e2, NEW a2,
         Arrival(e, a, cp[w].index, e2, a2)
  PROVE  PipeInv(f, e2, a2, l, pp, [cp EXCEPT ![w] = Advance(cp[w])])
<1> DEFINE i == cp[w].index
           cq == [cp EXCEPT ![w] = Advance(cp[w])]
<1>1. /\ i \in Slots /\ cp[w] \in States /\ cp[w].lap \in Nat
      /\ Uses(cp[w], i) = cp[w].lap
  BY UsesAdvance DEF PipeTyped, States
<1>2. cp \in [WG -> States] /\ cq \in [WG -> States] /\ DOMAIN cp = WG /\ DOMAIN cq = WG
  BY <1>1, StateType DEF PipeTyped
<1>3. \A v \in WG : /\ cp[v] \in States /\ cq[v] \in States
                     /\ cq[v] = IF v = w THEN Advance(cp[w]) ELSE cp[v]
  BY <1>2
<1>4. \A v \in WG, j \in Slots :
        /\ Uses(cp[v], j) \in Nat /\ Uses(cq[v], j) \in Nat
        /\ Uses(cq[v], j) = Uses(cp[v], j) + (IF v = w /\ j = i THEN 1 ELSE 0)
  <2> SUFFICES ASSUME NEW v \in WG, NEW j \in Slots
               PROVE  /\ Uses(cp[v], j) \in Nat /\ Uses(cq[v], j) \in Nat
                      /\ Uses(cq[v], j) = Uses(cp[v], j)
                                           + (IF v = w /\ j = i THEN 1 ELSE 0)
    OBVIOUS
  <2>1. Uses(cp[v], j) \in Nat /\ Uses(cq[v], j) \in Nat
    BY <1>3, UsesAdvance
  <2>2. CASE v = w
    BY <1>3, <2>1, <2>2, UsesAdvance
  <2>3. CASE v # w
    BY <1>3, <2>1, <2>3
  <2> QED
    BY <2>1, <2>2, <2>3
<1>5. \A j \in Slots : f[j] \in Nat /\ e[j] \in Nat /\ a[j] \in 0 .. NumWG - 1
                      /\ l[j] \in BOOLEAN /\ SlotInv(f, e, a, l, pp, cp, j)
  BY DEF PipeTyped, PipeInv
<1>6. e[i] = cp[w].lap /\ f[i] = e[i] + 1 /\ Uses(pp, i) = e[i] + 1
  <2>1. ~l[i] /\ f[i] = cp[w].lap + 1
    BY ReadyNotLoading DEF Ready
  <2>2. SlotInv(f, e, a, l, pp, cp, i) /\ f[i] \in Nat /\ e[i] \in Nat
    BY <1>1, <1>5
  <2> HIDE DEF i, cq
  <2> QED
    BY <1>1, <1>2, <2>1, <2>2 DEF SlotInv
<1>7. /\ Ahead(cq, e, i) = Ahead(cp, e, i) \cup {w} /\ w \notin Ahead(cp, e, i)
      /\ Cardinality(Ahead(cq, e, i)) = a[i] + 1
  <2> HIDE DEF i, cq
  <2>1. w \notin Ahead(cp, e, i)
    BY <1>1, <1>5, <1>6 DEF Ahead
  <2>2. ASSUME NEW v PROVE v \in Ahead(cq, e, i) <=> v \in Ahead(cp, e, i) \cup {w}
    <3>1. CASE v = w
      BY <3>1, <1>1, <1>2, <1>4, <1>6 DEF Ahead
    <3>2. CASE v # w
      BY <3>2, <1>1, <1>2, <1>4 DEF Ahead
    <3> QED
      BY <3>1, <3>2
  <2>3. Ahead(cq, e, i) = Ahead(cp, e, i) \cup {w}
    BY <2>2
  <2>4. IsFiniteSet(Ahead(cp, e, i))
    BY <1>1, <1>2, AheadFinite DEF PipeTyped
  <2>5. Cardinality(Ahead(cp, e, i) \cup {w}) = Cardinality(Ahead(cp, e, i)) + 1
    BY <2>1, <2>4, FS_AddElement
  <2>6. a[i] = Cardinality(Ahead(cp, e, i))
    BY <1>1, <1>5 DEF SlotInv
  <2> QED
    BY <2>1, <2>3, <2>5, <2>6
\* The other slots see no change.
<1>8. ASSUME NEW j \in Slots, j # i, e2[j] = e[j], a2[j] = a[j]
      PROVE  SlotInv(f, e2, a2, l, pp, cq, j)
  <2>1. SlotInv(f, e, a, l, pp, cp, j)
    BY <1>5
  <2>2. \A v \in WG : Uses(cq[v], j) = Uses(cp[v], j)
    BY <1>4, <1>8
  <2> HIDE DEF i, cq
  <2>3. Ahead(cq, e2, j) = Ahead(cp, e, j)
    BY <1>2, <1>8, <2>2 DEF Ahead
  <2> QED
    BY <1>2, <1>8, <2>1, <2>2, <2>3 DEF SlotInv
<1>9. CASE a[i] + 1 = NumWG
  <2>1. a2 = [a EXCEPT ![i] = 0] /\ e2 = [e EXCEPT ![i] = @ + 1]
    BY <1>9 DEF Arrival
  <2>2. /\ a2[i] = 0 /\ e2[i] = e[i] + 1
        /\ \A j \in Slots : j # i => a2[j] = a[j] /\ e2[j] = e[j]
    BY <1>1, <2>1 DEF PipeTyped
  <2>3. Ahead(cq, e, i) = WG
    <3>1. Ahead(cq, e, i) \subseteq WG
      BY <1>2 DEF Ahead
    <3>2. Cardinality(Ahead(cq, e, i)) = Cardinality(WG)
      BY <1>7, <1>9, WGFinite
    <3> QED
      BY <3>1, <3>2, WGFinite, FS_Subset
  <2>4. \A v \in WG : Uses(cq[v], i) = e[i] + 1
    BY <2>3 DEF Ahead
  <2>5. Ahead(cq, e2, i) = {}
    <3> HIDE DEF i, cq
    <3> QED
      BY <1>1, <1>2, <1>5, <2>2, <2>4 DEF Ahead
  <2>6. SlotInv(f, e2, a2, l, pp, cq, i)
    <3>1. Cardinality(Ahead(cq, e2, i)) = 0
      BY <2>5, FS_EmptySet
    <3>2. SlotInv(f, e, a, l, pp, cp, i) /\ f[i] \in Nat /\ e[i] \in Nat
      BY <1>1, <1>5
    <3> HIDE DEF i, cq
    <3> QED
      BY <1>2, <1>6, <2>2, <2>4, <3>1, <3>2 DEF SlotInv
  <2> QED
    BY <1>8, <2>2, <2>6 DEF PipeInv
<1>10. CASE a[i] + 1 # NumWG
  <2>1. a2 = [a EXCEPT ![i] = @ + 1] /\ e2 = e
    BY <1>10 DEF Arrival
  <2>2. a2[i] = a[i] + 1 /\ \A j \in Slots : j # i => a2[j] = a[j]
    BY <1>1, <2>1 DEF PipeTyped
  <2>3. SlotInv(f, e2, a2, l, pp, cq, i)
    <3>1. SlotInv(f, e, a, l, pp, cp, i) /\ f[i] \in Nat /\ e[i] \in Nat
      BY <1>1, <1>5
    <3>2. \A v \in WG : Uses(cq[v], i) = Uses(cp[v], i) + (IF v = w THEN 1 ELSE 0)
      BY <1>1, <1>4
    <3>3. \A v \in WG : Uses(cp[v], i) \in Nat
      BY <1>1, <1>4
    <3>4. Uses(cp[w], i) = e[i]
      BY <1>1, <1>6
    <3> HIDE DEF i, cq
    <3>5. \A v \in WG : Uses(cq[v], i) \in {e[i], e[i] + 1} /\ Uses(cq[v], i) <= f[i]
      <4> SUFFICES ASSUME NEW v \in WG
                   PROVE  Uses(cq[v], i) \in {e[i], e[i] + 1} /\ Uses(cq[v], i) <= f[i]
        OBVIOUS
      <4>1. CASE v = w
        BY <4>1, <1>6, <3>1, <3>2, <3>4
      <4>2. CASE v # w
        BY <4>2, <1>2, <3>1, <3>2, <3>3 DEF SlotInv
      <4> QED
        BY <4>1, <4>2
    <3>6. a2[i] = Cardinality(Ahead(cq, e2, i))
      BY <1>7, <2>1, <2>2
    <3> QED
      BY <1>2, <2>1, <3>1, <3>5, <3>6 DEF SlotInv
  <2> QED
    BY <1>8, <2>1, <2>2, <2>3 DEF PipeInv
<1> QED
  BY <1>9, <1>10


-----------------------------------------------------------------------------
(* The same, on the state of the CTA.                                       *)

\* Every position at which an actor can stand is a pipeline state.
LEMMA PositionType ==
  ASSUME TypeOK, NEW p \in Pipes
  PROVE  /\ PipeTyped(full[p], empty[p], arrived[p], loading[p], NextLoad(p), NextRead(p))
         /\ NextLoad(p) \in States /\ NextRead(p) \in [WG -> States]
<1>1. NextLoad(p) \in States
  BY StateType DEF TypeOK, ProducerTyped, NextLoad
<1>2. NextRead(p) \in [WG -> States]
  BY StateType DEF TypeOK, ConsumersTyped, NextRead
<1> QED
  BY <1>1, <1>2 DEF TypeOK, PipesTyped, PipeTyped

\* Producer steps that issue a load keep the slots in agreement.
LEMMA IssueStep ==
  ASSUME TypeOK, SlotsAgree, WaitsPassed, NEW p \in Pipes, NEW b,
         Issue(p, NextLoad(p), b), NextLoad(p)' = Advance(NextLoad(p)),
         \A q \in Pipes : q # p => NextLoad(q)' = NextLoad(q),
         UNCHANGED <<pc, kv, kvV>>
  PROVE  SlotsAgree' /\ WaitsPassed'
<1>1. \A q \in Pipes : NextRead(q)' = NextRead(q)
  BY DEF NextRead, AfterK, InLoop
<1>2. NextLoad(p).index \in Slots
  BY PositionType DEF States
<1>3. PipeInv(full[p], empty[p], arrived[p],
              [loading[p] EXCEPT ![NextLoad(p).index] = TRUE],
              Advance(NextLoad(p)), NextRead(p))
  BY PositionType, IssueKeeps DEF SlotsAgree, Issue, CanAcquire
<1>4. /\ loading'[p] = [loading[p] EXCEPT ![NextLoad(p).index] = TRUE]
      /\ \A q \in Pipes : q # p => loading'[q] = loading[q]
      /\ full' = full /\ empty' = empty /\ arrived' = arrived
  BY <1>2 DEF Issue, TypeOK, PipesTyped
<1>5. SlotsAgree'
  <2> SUFFICES ASSUME NEW q \in Pipes
               PROVE  PipeInv(full[q], empty[q], arrived[q], loading[q],
                              NextLoad(q), NextRead(q))'
    BY DEF SlotsAgree
  <2>1. CASE q = p
    BY <1>1, <1>3, <1>4, <2>1 DEF PipeInv, SlotInv
  <2>2. CASE q # p
    <3>1. PipeInv(full[q], empty[q], arrived[q], loading[q], NextLoad(q), NextRead(q))
      BY DEF SlotsAgree
    <3> QED
      BY <1>1, <1>4, <2>2, <3>1 DEF PipeInv, SlotInv
  <2> QED
    BY <2>1, <2>2
<1>6. WaitsPassed'
  BY <1>1, <1>4 DEF WaitsPassed, WaitedK, WaitedV, Ready, Pipes
<1> QED
  BY <1>5, <1>6

\* A TMA load that lands keeps the slots in agreement.
LEMMA LandStep ==
  ASSUME TypeOK, SlotsAgree, WaitsPassed, NEW p \in Pipes, NEW i \in Slots, Land(p, i)
  PROVE  SlotsAgree' /\ WaitsPassed'
<1>1. \A q \in Pipes : NextRead(q)' = NextRead(q) /\ NextLoad(q)' = NextLoad(q)
  BY DEF NextRead, AfterK, InLoop, NextLoad, HasWork, Land, prodVars, wgVars, tileVars
<1>2. /\ full'[p] = [full[p] EXCEPT ![i] = @ + 1]
      /\ loading'[p] = [loading[p] EXCEPT ![i] = FALSE]
      /\ \A q \in Pipes : q # p => full'[q] = full[q] /\ loading'[q] = loading[q]
      /\ empty' = empty /\ arrived' = arrived /\ pc' = pc
  BY DEF Land, TypeOK, PipesTyped, wgVars
<1>3. /\ PipeInv(full'[p], empty[p], arrived[p], loading'[p], NextLoad(p), NextRead(p))
      /\ \A w \in WG : Ready(full[p], NextRead(p)[w]) => Ready(full'[p], NextRead(p)[w])
  <2>1. loading[p][i]
    BY DEF Land
  <2>2. PipeTyped(full[p], empty[p], arrived[p], loading[p], NextLoad(p), NextRead(p))
    BY PositionType
  <2>3. PipeInv(full[p], empty[p], arrived[p], loading[p], NextLoad(p), NextRead(p))
    BY DEF SlotsAgree
  <2>4. /\ PipeInv([full[p] EXCEPT ![i] = @ + 1], empty[p], arrived[p],
                   [loading[p] EXCEPT ![i] = FALSE], NextLoad(p), NextRead(p))
        /\ \A w \in WG : Ready(full[p], NextRead(p)[w])
                           => Ready([full[p] EXCEPT ![i] = @ + 1], NextRead(p)[w])
    BY <2>1, <2>2, <2>3, LandKeeps
  <2> QED
    BY <1>2, <2>4
<1>4. SlotsAgree'
  <2> SUFFICES ASSUME NEW q \in Pipes
               PROVE  PipeInv(full[q], empty[q], arrived[q], loading[q],
                              NextLoad(q), NextRead(q))'
    BY DEF SlotsAgree
  <2>1. CASE q = p
    BY <1>1, <1>2, <1>3, <2>1 DEF PipeInv, SlotInv
  <2>2. CASE q # p
    <3>1. PipeInv(full[q], empty[q], arrived[q], loading[q], NextLoad(q), NextRead(q))
      BY DEF SlotsAgree
    <3> QED
      BY <1>1, <1>2, <2>2, <3>1 DEF PipeInv, SlotInv
  <2> QED
    BY <2>1, <2>2
<1>5. WaitsPassed'
  <2>1. \A q \in Pipes, w \in WG :
          Ready(full[q], NextRead(q)[w]) => Ready(full'[q], NextRead(q)'[w])
    BY <1>1, <1>2, <1>3
  <2> QED
    BY <1>2, <2>1 DEF WaitsPassed, WaitedK, WaitedV, Pipes
<1> QED
  BY <1>4, <1>5

\* A warp group's release keeps the slots in agreement when its position
\* advances by one in that pipe and no other position moves.
LEMMA ReleaseStep ==
  ASSUME TypeOK, SlotsAgree, NEW p \in Pipes, NEW w \in WG,
         Ready(full[p], NextRead(p)[w]), Release(p, NextRead(p)[w]),
         NextRead(p)' = [NextRead(p) EXCEPT ![w] = Advance(NextRead(p)[w])],
         \A q \in Pipes : q # p => NextRead(q)' = NextRead(q),
         \A q \in Pipes : NextLoad(q)' = NextLoad(q)
  PROVE  SlotsAgree'
<1> DEFINE i == NextRead(p)[w].index
<1>1. i \in Slots
  BY PositionType DEF States
<1>0. /\ full' = full /\ loading' = loading
      /\ IF arrived[p][i] + 1 = NumWG
         THEN arrived' = [arrived EXCEPT ![p][i] = 0] /\ empty' = [empty EXCEPT ![p][i] = @ + 1]
         ELSE arrived' = [arrived EXCEPT ![p][i] = @ + 1] /\ empty' = empty
  BY DEF Release
<1>2. /\ Arrival(empty[p], arrived[p], i, empty'[p], arrived'[p])
      /\ \A q \in Pipes : q # p => arrived'[q] = arrived[q] /\ empty'[q] = empty[q]
      /\ full' = full /\ loading' = loading
  <2>1. arrived \in [Pipes -> [Slots -> 0 .. NumWG - 1]] /\ empty \in [Pipes -> [Slots -> Nat]]
    BY DEF TypeOK, PipesTyped
  <2> HIDE DEF i
  <2> QED
    BY <1>0, <1>1, <2>1 DEF Arrival
<1>3. PipeInv(full[p], empty'[p], arrived'[p], loading[p], NextLoad(p), NextRead(p)')
  <2>1. PipeTyped(full[p], empty[p], arrived[p], loading[p], NextLoad(p), NextRead(p))
    BY PositionType
  <2>2. PipeInv(full[p], empty[p], arrived[p], loading[p], NextLoad(p), NextRead(p))
    BY DEF SlotsAgree
  <2>3. PipeInv(full[p], empty'[p], arrived'[p], loading[p], NextLoad(p),
                [NextRead(p) EXCEPT ![w] = Advance(NextRead(p)[w])])
    BY <1>2, <2>1, <2>2, ReleaseKeeps
  <2> QED
    BY <2>3
<1> SUFFICES ASSUME NEW q \in Pipes
             PROVE  PipeInv(full[q], empty[q], arrived[q], loading[q],
                            NextLoad(q), NextRead(q))'
  BY DEF SlotsAgree
<1>4. CASE q = p
  BY <1>2, <1>3, <1>4 DEF PipeInv, SlotInv
<1>5. CASE q # p
  <2>1. PipeInv(full[q], empty[q], arrived[q], loading[q], NextLoad(q), NextRead(q))
    BY DEF SlotsAgree
  <2> QED
    BY <1>2, <1>5, <2>1 DEF PipeInv, SlotInv
<1> QED
  BY <1>4, <1>5

\* A step that touches no barrier and moves no position keeps the agreement.
LEMMA QuietStep ==
  ASSUME SlotsAgree, UNCHANGED pipeVars,
         \A q \in Pipes : NextRead(q)' = NextRead(q) /\ NextLoad(q)' = NextLoad(q)
  PROVE  SlotsAgree'
BY DEF SlotsAgree, PipeInv, SlotInv, pipeVars

-----------------------------------------------------------------------------
(* The actions.                                                            *)

\* The slots stay in agreement under every action of the producer warp.
LEMMA ProducerSlots ==
  ASSUME SlotIInv, Producer
  PROVE  SlotsAgree' /\ WaitsPassed'
<1>0. /\ TypeOK /\ SlotsAgree /\ WaitsPassed /\ Control
      /\ "K" \in Pipes /\ "V" \in Pipes /\ \A q \in Pipes : q = "K" \/ q = "V"
  BY DEF SlotIInv, Pipes
<1>1. UNCHANGED <<pc, kv, kvV>> /\ (HasWork' = HasWork)
  BY DEF Producer, LoadFirstK, LoadQ, LoadV, LoadK, LoadNextK, LoadPrevV, LoadLastV,
         ProducerTail, wgVars, tileVars, HasWork
<1>2. CASE LoadFirstK
  <2>1. Issue("K", NextLoad("K"), pn) /\ NextLoad("K")' = Advance(NextLoad("K"))
        /\ NextLoad("V")' = NextLoad("V")
    BY <1>0, <1>1, <1>2 DEF LoadFirstK, NextLoad, Control
  <2> QED
    BY <1>0, <1>1, <2>1, IssueStep
<1>3. CASE LoadV
  <2>1. Issue("V", NextLoad("V"), pn) /\ NextLoad("V")' = Advance(NextLoad("V"))
        /\ NextLoad("K")' = NextLoad("K")
    BY <1>0, <1>1, <1>3 DEF LoadV, NextLoad, Control
  <2> QED
    BY <1>0, <1>1, <2>1, IssueStep
<1>4. CASE LoadK
  <2>1. Issue("K", NextLoad("K"), pn) /\ NextLoad("K")' = Advance(NextLoad("K"))
        /\ NextLoad("V")' = NextLoad("V")
    BY <1>0, <1>1, <1>4 DEF LoadK, NextLoad, Control
  <2> QED
    BY <1>0, <1>1, <2>1, IssueStep
<1>5. CASE LoadNextK
  <2>1. Issue("K", NextLoad("K"), pn - 1) /\ NextLoad("K")' = Advance(NextLoad("K"))
        /\ NextLoad("V")' = NextLoad("V")
    BY <1>0, <1>1, <1>5 DEF LoadNextK, NextLoad, Control
  <2> QED
    BY <1>0, <1>1, <2>1, IssueStep
<1>6. CASE LoadPrevV
  <2>1. Issue("V", NextLoad("V"), pn + 1) /\ NextLoad("V")' = Advance(NextLoad("V"))
        /\ NextLoad("K")' = NextLoad("K")
    BY <1>0, <1>1, <1>6 DEF LoadPrevV, NextLoad, Control
  <2> QED
    BY <1>0, <1>1, <2>1, IssueStep
<1>7. CASE LoadLastV
  <2>1. Issue("V", NextLoad("V"), nBlockMin) /\ NextLoad("V")' = Advance(NextLoad("V"))
        /\ NextLoad("K")' = NextLoad("K")
    BY <1>0, <1>1, <1>7 DEF LoadLastV, NextLoad, Control
  <2> QED
    BY <1>0, <1>1, <2>1, IssueStep
<1>8. CASE LoadQ \/ ProducerTail
  <2>1. \A q \in Pipes : NextLoad(q)' = NextLoad(q) /\ NextRead(q)' = NextRead(q)
    BY <1>0, <1>1, <1>8
    DEF LoadQ, ProducerTail, NextLoad, NextRead, AfterK, InLoop
  <2>2. UNCHANGED pipeVars
    BY <1>8 DEF LoadQ, ProducerTail
  <2>3. SlotsAgree'
    BY <1>0, <2>1, <2>2, QuietStep
  <2>4. WaitsPassed'
    BY <1>0, <1>1, <2>1, <2>2 DEF WaitsPassed, WaitedK, WaitedV, pipeVars
  <2> QED
    BY <2>3, <2>4
<1> QED
  BY <1>2, <1>3, <1>4, <1>5, <1>6, <1>7, <1>8 DEF Producer

\* The producer's program counter stays within its configuration.
LEMMA ProducerControl ==
  ASSUME SlotIInv, Producer
  PROVE  Control'
<1>1. UNCHANGED <<pc, kv, kvV>> /\ (HasWork' = HasWork)
  BY DEF Producer, LoadFirstK, LoadQ, LoadV, LoadK, LoadNextK, LoadPrevV, LoadLastV,
         ProducerTail, wgVars, tileVars, HasWork
<1> QED
  BY <1>1 DEF Producer, LoadFirstK, LoadQ, LoadV, LoadK, LoadNextK, LoadPrevV,
     LoadLastV, ProducerTail, SlotIInv, Control, InLoop

\* A step of a warp group leaves the others where they are.
Alone(w) == /\ \A v \in WG : v # w => pc'[v] = pc[v] /\ kv'[v] = kv[v] /\ kvV'[v] = kvV[v]
            /\ UNCHANGED <<full, loading, nBlockMin, nBlockMax, ppc, pkv, pprev>>

\* A warp group's step leaves the other warp groups and the producer alone.
LEMMA StepAlone ==
  ASSUME TypeOK, NEW w \in WG, WarpGroup(w)
  PROVE  Alone(w)
BY DEF WarpGroup, WaitQ, EmptySplit, ReleaseQ, FirstSync, IssueQK, PassTurn, DrainQK,
   WaitV, IssuePV, DrainPV, FirstQK, DrainFirstQK, WaitNextK, IssueNextQK,
   IssuePrevPV, DrainNextQK, DrainPrevPV, LastPV, DrainLastPV, EpilogueBarrier,
   WriteSmemO, StoreO, Goto, NextBlock, Release, Alone, tileVars, pipeVars, prodVars,
   TypeOK, ConsumersTyped

\* A warp group's program counter stays within its configuration.
LEMMA WGControl ==
  ASSUME SlotIInv, NEW w \in WG, WarpGroup(w)
  PROVE  Control'
<1>1. Alone(w) /\ Control /\ TypeOK
  BY StepAlone DEF SlotIInv
<1>2. /\ ppc' = "prev_v" => pkv' = Advance(pprev') /\ ~InOrder
      /\ ppc' = "last_v" => ~InOrder
      /\ ppc' = "v" => InOrder
      /\ ppc' \notin {"q", "tail", "done"} => HasWork'
  BY <1>1 DEF Alone, Control, HasWork
<1>3. \A v \in WG : v # w =>
        /\ pc'[v] \in {"first_k", "first_qk", "qk_sync", "last_v", "last_pv"}
             => IntraWgOverlap
        /\ pc'[v] \in {"first_sync", "pv_sync"} => ~IntraWgOverlap
        /\ InLoop(v)' => kv'[v] = Advance(kvV'[v])
  BY <1>1 DEF Alone, Control, InLoop
<1>4. /\ pc'[w] \in {"first_k", "first_qk", "qk_sync", "last_v", "last_pv"}
           => IntraWgOverlap
      /\ pc'[w] \in {"first_sync", "pv_sync"} => ~IntraWgOverlap
      /\ InLoop(w)' => kv'[w] = Advance(kvV'[w])
  BY <1>1 DEF Control, InLoop, TypeOK, ConsumersTyped,
     WarpGroup, WaitQ, EmptySplit, ReleaseQ, FirstSync, IssueQK, PassTurn, DrainQK,
     WaitV, IssuePV, DrainPV, FirstQK, DrainFirstQK, WaitNextK, IssueNextQK,
     IssuePrevPV, DrainNextQK, DrainPrevPV, LastPV, DrainLastPV, EpilogueBarrier,
     WriteSmemO, StoreO, Goto, NextBlock
<1> QED
  BY <1>2, <1>3, <1>4 DEF Control

\* Releasing the slot it waited for moves the warp group on in that pipeline.
Releases(w, p, q) ==
  /\ Ready(full[p], NextRead(p)[w])
  /\ Release(p, NextRead(p)[w])
  /\ NextRead(p)'[w] = Advance(NextRead(p)[w])
  /\ NextRead(q)'[w] = NextRead(q)[w]

\* A warp group's step moves no other warp group's position, nor the producer's.
LEMMA OtherReads ==
  ASSUME TypeOK, NEW w \in WG, Alone(w)
  PROVE  /\ \A q \in Pipes, v \in WG : v # w => NextRead(q)'[v] = NextRead(q)[v]
         /\ \A q \in Pipes : NextLoad(q)' = NextLoad(q)
         /\ \A v \in WG : v # w => /\ WaitedK(v)' = WaitedK(v)
                                   /\ WaitedV(v)' = WaitedV(v)
<1>1. \A q \in Pipes, v \in WG : v # w => NextRead(q)'[v] = NextRead(q)[v]
  BY DEF Alone, NextRead, AfterK, InLoop
<1>2. \A q \in Pipes : NextLoad(q)' = NextLoad(q)
  BY DEF Alone, NextLoad, HasWork
<1>3. \A v \in WG : v # w => WaitedK(v)' = WaitedK(v) /\ WaitedV(v)' = WaitedV(v)
  BY DEF Alone, WaitedK, WaitedV
<1> QED
  BY <1>1, <1>2, <1>3

\* The steps of a warp group that release a slot keep the slots in agreement.
LEMMA WGReleases ==
  ASSUME SlotIInv, NEW w \in WG, Alone(w), NEW p \in Pipes, NEW q \in Pipes, p # q,
         Releases(w, p, q)
  PROVE  SlotsAgree'
<1>0. TypeOK /\ SlotsAgree
  BY DEF SlotIInv
<1>1. \A r \in Pipes : r = p \/ r = q
  BY DEF Pipes
<1>2. NextRead(p)' = [NextRead(p) EXCEPT ![w] = Advance(NextRead(p)[w])]
  <2>1. \A v \in WG : NextRead(p)'[v] = IF v = w THEN Advance(NextRead(p)[w])
                                                 ELSE NextRead(p)[v]
    BY <1>0, OtherReads DEF Releases
  <2>2. DOMAIN NextRead(p)' = WG /\ DOMAIN NextRead(p) = WG
        /\ NextRead(p)' = [v \in WG |-> NextRead(p)'[v]]
    BY DEF NextRead
  <2> QED
    BY <2>1, <2>2
<1>3. \A r \in Pipes : r # p => NextRead(r)' = NextRead(r)
  <2>1. \A v \in WG : NextRead(q)'[v] = NextRead(q)[v]
    BY <1>0, OtherReads DEF Releases
  <2>2. NextRead(q)' = [v \in WG |-> NextRead(q)'[v]]
        /\ NextRead(q) = [v \in WG |-> NextRead(q)[v]]
    BY DEF NextRead
  <2> QED
    BY <1>1, <2>1, <2>2
<1> QED
  BY <1>0, <1>2, <1>3, OtherReads, ReleaseStep DEF Releases

\* The steps of a warp group that release nothing keep them too.
LEMMA WGStays ==
  ASSUME SlotIInv, NEW w \in WG, Alone(w), UNCHANGED pipeVars,
         \A q \in Pipes : NextRead(q)'[w] = NextRead(q)[w]
  PROVE  SlotsAgree'
<1>0. TypeOK /\ SlotsAgree
  BY DEF SlotIInv
<1>1. \A q \in Pipes, v \in WG : NextRead(q)'[v] = NextRead(q)[v]
  BY <1>0, OtherReads
<1>2. ASSUME NEW q \in Pipes PROVE NextRead(q)' = NextRead(q)
  <2>1. NextRead(q)' = [v \in WG |-> NextRead(q)'[v]]
        /\ NextRead(q) = [v \in WG |-> NextRead(q)[v]]
    BY DEF NextRead
  <2> QED
    BY <1>1, <2>1
<1> QED
  BY <1>0, <1>2, OtherReads, QuietStep

\* A wait on a full barrier that passes finds the slot ready.
LEMMA WaitPasses ==
  ASSUME SlotIInv, NEW w \in WG, NEW p \in Pipes, IsFull(p, NextRead(p)[w])
  PROVE  Ready(full[p], NextRead(p)[w])
<1>1. PipeTyped(full[p], empty[p], arrived[p], loading[p], NextLoad(p), NextRead(p))
  BY PositionType DEF SlotIInv
<1>2. PipeInv(full[p], empty[p], arrived[p], loading[p], NextLoad(p), NextRead(p))
  BY DEF SlotIInv, SlotsAgree
<1>3. full[p][NextRead(p)[w].index] % 2 # NextRead(p)[w].lap % 2
  BY DEF IsFull
<1> QED
  BY <1>1, <1>2, <1>3, FullMeansReady

\* The slots stay in agreement under every action of a warp group.
LEMMA WGSlots ==
  ASSUME SlotIInv, NEW w \in WG, WarpGroup(w)
  PROVE  /\ SlotsAgree'
         /\ WaitedK(w)' => Ready(full["K"], NextRead("K")'[w])
         /\ WaitedV(w)' => Ready(full["V"], NextRead("V")'[w])
<1>0. /\ TypeOK /\ Control /\ WaitsPassed /\ Alone(w)
      /\ "K" \in Pipes /\ "V" \in Pipes /\ "K" # "V"
      /\ \A q \in Pipes : q = "K" \/ q = "V"
  BY StepAlone DEF SlotIInv, Pipes
<1>t. pc \in [WG -> WGPCs] /\ kv \in [WG -> States] /\ kvV \in [WG -> States]
  BY <1>0 DEF TypeOK, ConsumersTyped
<1>k. NextRead("K")[w] = (IF AfterK(w) THEN Advance(kv[w]) ELSE kv[w])
      /\ NextRead("K")'[w] = (IF AfterK(w)' THEN Advance(kv'[w]) ELSE kv'[w])
  BY DEF NextRead
<1>v. NextRead("V")[w] = (IF InLoop(w) THEN kvV[w] ELSE kv[w])
      /\ NextRead("V")'[w] = (IF InLoop(w)' THEN kvV'[w] ELSE kv'[w])
  BY DEF NextRead
<1>1. CASE DrainQK(w) \/ DrainFirstQK(w) \/ DrainNextQK(w)
  <2>1. Releases(w, "K", "V")
    BY <1>0, <1>t, <1>k, <1>v, <1>1
    DEF DrainQK, DrainFirstQK, DrainNextQK, Releases, Control, WaitsPassed, WaitedK,
        AfterK, InLoop, Goto, NextBlock
  <2>2. ~WaitedK(w)' /\ (WaitedV(w)' => WaitedV(w))
    BY <1>0, <1>t, <1>1
    DEF DrainQK, DrainFirstQK, DrainNextQK, Control, WaitedK, WaitedV, Goto, NextBlock
  <2> QED
    BY <1>0, <2>1, <2>2, WGReleases DEF WaitsPassed, Releases
<1>2. CASE DrainPV(w) \/ DrainPrevPV(w) \/ DrainLastPV(w)
  <2>1. Releases(w, "V", "K")
    BY <1>0, <1>t, <1>k, <1>v, <1>2
    DEF DrainPV, DrainPrevPV, DrainLastPV, Releases, Control, WaitsPassed, WaitedV,
        AfterK, InLoop, Goto, NextBlock
  <2>2. ~WaitedK(w)' /\ ~WaitedV(w)'
    BY <1>0, <1>t, <1>2
    DEF DrainPV, DrainPrevPV, DrainLastPV, Control, WaitedK, WaitedV, Goto, NextBlock
  <2> QED
    BY <1>0, <2>1, <2>2, WGReleases
<1>3. CASE IssueQK(w) \/ FirstQK(w) \/ WaitNextK(w)
  <2>1. UNCHANGED pipeVars /\ IsFull("K", NextRead("K")[w])
        /\ \A q \in Pipes : NextRead(q)'[w] = NextRead(q)[w]
    BY <1>0, <1>t, <1>k, <1>v, <1>3
    DEF IssueQK, FirstQK, WaitNextK, Control, AfterK, InLoop, Goto
  <2>2. ~WaitedV(w)'
    BY <1>0, <1>t, <1>3 DEF IssueQK, FirstQK, WaitNextK, Control, WaitedV, Goto
  <2> QED
    BY <1>0, <2>1, <2>2, WGStays, WaitPasses
<1>4. CASE WaitV(w) \/ IssuePrevPV(w) \/ LastPV(w)
  <2>1. UNCHANGED pipeVars /\ IsFull("V", NextRead("V")[w])
        /\ \A q \in Pipes : NextRead(q)'[w] = NextRead(q)[w]
    BY <1>0, <1>t, <1>k, <1>v, <1>4
    DEF WaitV, IssuePrevPV, LastPV, Control, AfterK, InLoop, Goto
  <2>2. WaitedK(w)' => WaitedK(w)
    BY <1>0, <1>t, <1>4 DEF WaitV, IssuePrevPV, LastPV, Control, WaitedK, Goto
  <2> QED
    BY <1>0, <2>1, <2>2, WGStays, WaitPasses DEF WaitsPassed
<1>5. CASE \/ WaitQ(w) \/ EmptySplit(w) \/ ReleaseQ(w) \/ FirstSync(w) \/ PassTurn(w)
           \/ IssuePV(w) \/ IssueNextQK(w) \/ EpilogueBarrier(w) \/ WriteSmemO(w)
           \/ StoreO(w)
  <2>1. UNCHANGED pipeVars
        /\ \A q \in Pipes : NextRead(q)'[w] = NextRead(q)[w]
    BY <1>0, <1>t, <1>k, <1>v, <1>5
    DEF WaitQ, EmptySplit, ReleaseQ, FirstSync, PassTurn, IssuePV, IssueNextQK,
        EpilogueBarrier, WriteSmemO, StoreO, Control, AfterK, InLoop, Goto
  <2>2. (WaitedK(w)' => WaitedK(w)) /\ (WaitedV(w)' => WaitedV(w))
    BY <1>0, <1>t, <1>5
    DEF WaitQ, EmptySplit, ReleaseQ, FirstSync, PassTurn, IssuePV, IssueNextQK,
        EpilogueBarrier, WriteSmemO, StoreO, Control, WaitedK, WaitedV, Goto
  <2> QED
    BY <1>0, <2>1, <2>2, WGStays DEF WaitsPassed
<1> QED
  BY <1>1, <1>2, <1>3, <1>4, <1>5 DEF WarpGroup

\* What a warp group has waited for stays ready under every warp group's step.
LEMMA WGWaits ==
  ASSUME SlotIInv, NEW w \in WG, WarpGroup(w)
  PROVE  WaitsPassed'
<1>1. Alone(w) /\ TypeOK /\ WaitsPassed
  BY StepAlone DEF SlotIInv
<1>2. full' = full
  BY <1>1 DEF Alone
<1>3. ASSUME NEW v \in WG
      PROVE  /\ WaitedK(v)' => Ready(full'["K"], NextRead("K")'[v])
             /\ WaitedV(v)' => Ready(full'["V"], NextRead("V")'[v])
  <2>1. CASE v = w
    BY <1>2, <2>1, WGSlots
  <2>2. CASE v # w
    BY <1>1, <1>2, <2>2, OtherReads DEF WaitsPassed, Pipes
  <2> QED
    BY <2>1, <2>2
<1> QED
  BY <1>3 DEF WaitsPassed

\* The inductive invariant holds initially.
LEMMA SlotInit == Init => SlotIInv
<1> SUFFICES ASSUME Init PROVE SlotIInv
  OBVIOUS
<1>1. TypeOK
  BY TypeInit
<1>2. Control
  BY DEF Init, Control, InLoop, HasWork
<1>3. WaitsPassed
  BY DEF Init, WaitsPassed, WaitedK, WaitedV
<1>4. ASSUME NEW p \in Pipes, NEW i \in Slots
      PROVE  SlotInv(full[p], empty[p], arrived[p], loading[p], NextLoad(p),
                     NextRead(p), i)
  <2>1. NextLoad(p) = State0
    BY DEF Init, NextLoad, HasWork
  <2>2. \A w \in WG : NextRead(p)[w] = State0
    BY DEF Init, NextRead, AfterK, InLoop
  <2>3. DOMAIN NextRead(p) = WG
    BY DEF NextRead
  <2>4. full[p][i] = 0 /\ empty[p][i] = 0 /\ arrived[p][i] = 0 /\ loading[p][i] = FALSE
    BY DEF Init
  <2>5. Uses(State0, i) = 0
    BY ConstAssumption DEF Uses, State0, Slots
  <2>6. Ahead(NextRead(p), empty[p], i) = {}
    BY <2>2, <2>3, <2>4, <2>5 DEF Ahead
  <2> QED
    BY <2>1, <2>2, <2>3, <2>4, <2>5, <2>6, FS_EmptySet DEF SlotInv
<1> QED
  BY <1>1, <1>2, <1>3, <1>4 DEF SlotIInv, SlotsAgree, PipeInv

\* Every step preserves the inductive invariant.
LEMMA SlotNext == SlotIInv /\ [Next]_vars => SlotIInv'
<1> SUFFICES ASSUME SlotIInv, [Next]_vars PROVE SlotIInv'
  OBVIOUS
<1>0. TypeOK /\ TypeOK' /\ Control /\ SlotsAgree /\ WaitsPassed
  BY TypeNext DEF SlotIInv
<1>1. CASE Producer
  BY <1>0, <1>1, ProducerSlots, ProducerControl DEF SlotIInv
<1>2. CASE LandQ \/ UNCHANGED vars
  <2>1. UNCHANGED <<pipeVars, ppc, pkv, pprev, pc, kv, kvV, nBlockMin, nBlockMax>>
    BY <1>2 DEF LandQ, vars, tileVars, pipeVars, prodVars, wgVars
  <2>2. \A q \in Pipes : NextRead(q)' = NextRead(q) /\ NextLoad(q)' = NextLoad(q)
    BY <2>1 DEF NextRead, AfterK, InLoop, NextLoad, HasWork
  <2>3. SlotsAgree'
    BY <1>0, <2>1, <2>2, QuietStep
  <2>4. WaitsPassed'
    BY <1>0, <2>1, <2>2 DEF WaitsPassed, WaitedK, WaitedV, pipeVars, Pipes
  <2>5. Control'
    BY <1>0, <2>1 DEF Control, InLoop, HasWork
  <2> QED
    BY <1>0, <2>3, <2>4, <2>5 DEF SlotIInv
<1>3. ASSUME NEW p \in Pipes, NEW i \in Slots, Land(p, i) PROVE SlotIInv'
  <2>1. Control'
    BY <1>0, <1>3 DEF Land, prodVars, wgVars, tileVars, Control, InLoop, HasWork
  <2> QED
    BY <1>0, <1>3, <2>1, LandStep DEF SlotIInv
<1>4. ASSUME NEW w \in WG, WarpGroup(w) PROVE SlotIInv'
  BY <1>0, <1>4, WGControl, WGSlots, WGWaits DEF SlotIInv
<1> QED
  BY <1>1, <1>2, <1>3, <1>4 DEF Next, Exited

\* The inductive invariant implies that no load races a wgmma for a slot.
LEMMA SlotImplies == SlotIInv => NoSlotRace
<1> SUFFICES ASSUME SlotIInv, NEW w \in WG, NEW i \in Slots
             PROVE  /\ ReadsK(w, i) => ~loading["K"][i]
                    /\ ReadsV(w, i) => ~loading["V"][i]
  BY DEF NoSlotRace
<1>0. TypeOK /\ Control /\ WaitsPassed /\ "K" \in Pipes /\ "V" \in Pipes
  BY DEF SlotIInv, Pipes
<1>1. \A p \in Pipes : Ready(full[p], NextRead(p)[w]) => ~loading[p][NextRead(p)[w].index]
  <2> SUFFICES ASSUME NEW p \in Pipes, Ready(full[p], NextRead(p)[w])
               PROVE  ~loading[p][NextRead(p)[w].index]
    OBVIOUS
  <2>1. PipeTyped(full[p], empty[p], arrived[p], loading[p], NextLoad(p), NextRead(p))
    BY <1>0, PositionType
  <2>2. PipeInv(full[p], empty[p], arrived[p], loading[p], NextLoad(p), NextRead(p))
    BY DEF SlotIInv, SlotsAgree
  <2> QED
    BY <2>1, <2>2, ReadyNotLoading
<1>2. ReadsK(w, i) => WaitedK(w) /\ i = NextRead("K")[w].index
  BY <1>0 DEF ReadsK, QKInFlight, WaitedK, NextRead, AfterK, Control
<1>3. ReadsV(w, i) => WaitedV(w) /\ i = NextRead("V")[w].index
  BY <1>0 DEF ReadsV, WaitedV, NextRead, InLoop, Control
<1> QED
  BY <1>0, <1>1, <1>2, <1>3 DEF WaitsPassed

\* In every behaviour of the CTA, for any number of stages, any tile and either
\* mainloop, no TMA load is in flight into a K or V slot that a wgmma in flight
\* reads, although waiters only see the parity of a phase.
THEOREM SlotSafety == Spec => []NoSlotRace
<1>1. Init => SlotIInv
  BY SlotInit
<1>2. SlotIInv /\ [Next]_vars => SlotIInv'
  BY SlotNext
<1>3. SlotIInv => NoSlotRace
  BY SlotImplies
<1> QED
  BY <1>1, <1>2, <1>3, PTL DEF Spec

-----------------------------------------------------------------------------
(* What the pipeline computes and how its warps leave.  CtaInv carries the  *)
(* turns, the sQ/sO alias and the exit; StepInv carries the blocks, on top  *)
(* of SlotIInv, which says that a slot that was waited for has landed and   *)
(* stays; both give the refinement of AttentionTile.                        *)

\* The producer, the loads and Q leave the warp groups alone.
OffGroups == UNCHANGED <<nBlockMin, nBlockMax, pc, kv, kvV, n, sreg, preg, acc, turn, sO, stored>>

LEMMA ProducerFrame ==
  ASSUME Producer \/ LandQ \/ \E p \in Pipes, i \in Slots : Land(p, i)
  PROVE  OffGroups
BY DEF Producer, LoadFirstK, LoadQ, LoadV, LoadK, LoadNextK, LoadPrevV, LoadLastV, ProducerTail,
   LandQ, Land, OffGroups, tileVars, wgVars, outVars

-----------------------------------------------------------------------------
(* The turns.                                                              *)

\* With scheduler barriers there are at least two warp groups, so that a turn
\* is handed to somebody else.
LEMMA NextIsOther ==
  ASSUME UseSchedulerBarrier, NEW w \in WG
  PROVE  NextWG(w) \in WG /\ NextWG(w) # w
<1>1. NumWG \in Nat /\ NumWG >= 2 /\ w \in Int /\ 1 <= w /\ w <= NumWG
  BY ConstAssumption DEF UseSchedulerBarrier, WG
<1> QED
  BY <1>1 DEF NextWG, WG

\* A step of a warp group takes the turn, passes it, or leaves it alone.
LEMMA TurnMoves ==
  ASSUME TypeOK, Control, UseSchedulerBarrier, NEW w \in WG, WarpGroup(w)
  PROVE  \/ /\ turn[w] = 1 /\ turn' = [turn EXCEPT ![w] = 0]
            /\ ~HasTurn(w) /\ HasTurn(w)'
         \/ /\ turn' = [turn EXCEPT ![NextWG(w)] = 1 - @]
            /\ HasTurn(w) /\ ~HasTurn(w)'
         \/ turn' = turn /\ HasTurn(w)' = HasTurn(w)
<1>0. pc \in [WG -> WGPCs]
  BY DEF TypeOK, ConsumersTyped
<1>1. CASE FirstSync(w) \/ IssuePV(w) \/ IssueNextQK(w)
  BY <1>0, <1>1 DEF FirstSync, IssuePV, IssueNextQK, SchedSync, HasTurn, Goto, Control
<1>2. CASE PassTurn(w) \/ ReleaseQ(w)
  BY <1>0, <1>2 DEF PassTurn, ReleaseQ, SchedArrive, HasTurn, Goto
<1>3. CASE ~(FirstSync(w) \/ IssuePV(w) \/ IssueNextQK(w) \/ PassTurn(w) \/ ReleaseQ(w))
  BY <1>0, <1>3 DEF WarpGroup, WaitQ, EmptySplit, IssueQK, DrainQK,
     WaitV, DrainPV, FirstQK, DrainFirstQK, WaitNextK, IssuePrevPV, DrainNextQK, DrainPrevPV,
     LastPV, DrainLastPV, EpilogueBarrier, WriteSmemO, StoreO, Goto, NextBlock, HasTurn, Control
<1> QED
  BY <1>1, <1>2, <1>3

\* The one turn stays one.
LEMMA TurnNext == TypeOK /\ Control /\ TurnInv /\ [Next]_vars => TurnInv'
<1> SUFFICES ASSUME TypeOK, Control, TurnInv, [Next]_vars, UseSchedulerBarrier PROVE TurnInv'
  BY DEF TurnInv
<1> DEFINE Turns(u) == \A w \in WG : turn[w] = (IF w = u /\ ~HasTurn(w) THEN 1 ELSE 0)
                                     /\ (HasTurn(w) => w = u)
<1>0. turn \in [WG -> {0, 1}] /\ pc \in [WG -> WGPCs]
  BY DEF TypeOK, ConsumersTyped, ResultsTyped
<1>1. PICK u \in WG : Turns(u)
  BY DEF TurnInv
<1>2. CASE UNCHANGED <<pc, turn>>
  BY <1>1, <1>2 DEF TurnInv, HasTurn
<1>3. ASSUME NEW w \in WG, WarpGroup(w) PROVE TurnInv'
  <2>1. \A v \in WG : v # w => HasTurn(v)' = HasTurn(v)
    BY <1>3, StepAlone DEF Alone, HasTurn
  <2>2. NextWG(w) \in WG /\ NextWG(w) # w
    BY NextIsOther
  <2>3. CASE /\ turn[w] = 1 /\ turn' = [turn EXCEPT ![w] = 0]
             /\ ~HasTurn(w) /\ HasTurn(w)'
    <3>1. w = u
      BY <1>1, <2>3
    <3>2. Turns(u)'
      BY <1>0, <1>1, <2>1, <2>3, <3>1
    <3> QED
      BY <3>2 DEF TurnInv
  <2>4. CASE /\ turn' = [turn EXCEPT ![NextWG(w)] = 1 - @]
             /\ HasTurn(w) /\ ~HasTurn(w)'
    <3>1. w = u /\ \A v \in WG : turn[v] = 0
      BY <1>1, <2>4
    <3>2. \A v \in WG : turn'[v] = IF v = NextWG(w) THEN 1 ELSE 0
      BY <1>0, <2>2, <2>4, <3>1
    <3>3. \A v \in WG : ~HasTurn(v)'
      BY <1>1, <2>1, <2>4, <3>1
    <3>4. Turns(NextWG(w))'
      BY <3>2, <3>3 DEF NextWG
    <3> QED
      BY <2>2, <3>4 DEF TurnInv, NextWG
  <2>5. CASE turn' = turn /\ HasTurn(w)' = HasTurn(w)
    <3>1. Turns(u)'
      BY <1>1, <2>1, <2>5
    <3> QED
      BY <3>1 DEF TurnInv
  <2> QED
    BY <1>3, <2>3, <2>4, <2>5, TurnMoves
<1> QED
  BY <1>2, <1>3, ProducerFrame DEF Next, Exited, vars, OffGroups

-----------------------------------------------------------------------------
(* Q, the epilogue and the exit.                                           *)

\* Q is loaded once.
LEMMA QNext == TypeOK /\ Control /\ QInv /\ [Next]_vars => QInv'
<1> SUFFICES ASSUME TypeOK, Control, QInv, [Next]_vars PROVE QInv'
  OBVIOUS
<1>0. pc \in [WG -> WGPCs]
  BY DEF TypeOK, ConsumersTyped
<1>1. ASSUME Producer PROVE QInv'
  BY <1>1, ProducerFrame DEF OffGroups, QInv, HasWork, Producer, LoadFirstK, LoadQ, LoadV, LoadK,
     LoadNextK, LoadPrevV, LoadLastV, ProducerTail
<1>2. ASSUME LandQ \/ UNCHANGED vars PROVE QInv'
  BY <1>2 DEF QInv, HasWork, LandQ, vars, tileVars, prodVars, wgVars
<1>3. ASSUME NEW p \in Pipes, NEW i \in Slots, Land(p, i) PROVE QInv'
  BY <1>3 DEF QInv, HasWork, Land, tileVars, prodVars, wgVars
<1>4. ASSUME NEW w \in WG, WarpGroup(w) PROVE QInv'
  <2>1. Alone(w) /\ qbuf' = qbuf
    BY <1>4, StepAlone DEF WarpGroup, WaitQ, EmptySplit, ReleaseQ, FirstSync, IssueQK, PassTurn,
       DrainQK, WaitV, IssuePV, DrainPV, FirstQK, DrainFirstQK, WaitNextK, IssueNextQK,
       IssuePrevPV, DrainNextQK, DrainPrevPV, LastPV, DrainLastPV, EpilogueBarrier,
       WriteSmemO, StoreO
  <2>2. /\ qbuf = "q"
        /\ ~HasWork => pc'[w] \in {"wait_q", "empty"} \cup EpiloguePCs
        /\ HasWork => pc'[w] # "empty"
    BY <1>0, <1>4 DEF QInv, EpiloguePCs, WarpGroup, WaitQ, EmptySplit, ReleaseQ, FirstSync, IssueQK,
       PassTurn, DrainQK, WaitV, IssuePV, DrainPV, FirstQK, DrainFirstQK, WaitNextK, IssueNextQK,
       IssuePrevPV, DrainNextQK, DrainPrevPV, LastPV, DrainLastPV, EpilogueBarrier,
       WriteSmemO, StoreO, Goto, NextBlock
  <2> QED
    BY <2>1, <2>2 DEF Alone, QInv, HasWork
<1> QED
  BY <1>1, <1>2, <1>3, <1>4 DEF Next, Exited

\* The two barriers of the epilogue.
LEMMA EpilogueNext == TypeOK /\ EpilogueInv /\ [Next]_vars => EpilogueInv'
<1> SUFFICES ASSUME TypeOK, EpilogueInv, [Next]_vars PROVE EpilogueInv'
  OBVIOUS
<1>0. /\ pc \in [WG -> WGPCs] /\ sO \in [WG -> BOOLEAN] /\ stored \in [WG -> BOOLEAN]
      /\ 1 \in WG
  BY ConstAssumption DEF TypeOK, ConsumersTyped, ResultsTyped, WG
<1>1. ASSUME UNCHANGED <<pc, sO, stored>> PROVE EpilogueInv'
  BY <1>1 DEF EpilogueInv
<1>2. ASSUME NEW w \in WG, EpilogueBarrier(w) PROVE EpilogueInv'
  BY <1>0, <1>2 DEF EpilogueBarrier, Goto, EpilogueInv, EpiloguePCs, outVars
<1>3. ASSUME NEW w \in WG, WriteSmemO(w) PROVE EpilogueInv'
  BY <1>0, <1>3 DEF WriteSmemO, Goto, EpilogueInv, EpiloguePCs
<1>4. ASSUME NEW w \in WG, StoreO(w) PROVE EpilogueInv'
  <2>1. /\ \A v \in WG : pc[v] \in {"store_o", "done"}
        /\ stored' = [v \in WG |-> IF UseTmaO \/ v = w THEN sO = [u \in WG |-> TRUE] ELSE stored[v]]
        /\ pc' = [pc EXCEPT ![w] = "done"] /\ sO' = sO
    BY <1>4 DEF StoreO, Goto
  <2>2. sO = [u \in WG |-> TRUE]
    BY <1>0, <2>1 DEF EpilogueInv
  <2> QED
    BY <1>0, <2>1, <2>2 DEF EpilogueInv, EpiloguePCs
<1>5. ASSUME NEW w \in WG, WarpGroup(w), ~(EpilogueBarrier(w) \/ WriteSmemO(w) \/ StoreO(w))
      PROVE  EpilogueInv'
  <2>1. UNCHANGED <<sO, stored>> /\ pc[w] \notin EpiloguePCs /\ pc'[w] \notin EpiloguePCs \ {"epi"}
        /\ \A v \in WG : v # w => pc'[v] = pc[v]
    BY <1>0, <1>5 DEF WarpGroup, WaitQ, EmptySplit, ReleaseQ, FirstSync, IssueQK,
       PassTurn, DrainQK, WaitV, IssuePV, DrainPV, FirstQK, DrainFirstQK, WaitNextK, IssueNextQK,
       IssuePrevPV, DrainNextQK, DrainPrevPV, LastPV, DrainLastPV, Goto, NextBlock, EpiloguePCs, outVars
  <2> QED
    BY <1>0, <2>1 DEF EpilogueInv, EpiloguePCs
<1> QED
  BY <1>1, <1>2, <1>3, <1>4, <1>5, ProducerFrame DEF Next, Exited, vars, OffGroups

\* An actor has used the slot that it used last as often as LastUsed says.
LEMMA LastUsedFacts ==
  ASSUME NEW s \in States
  PROVE  /\ LastUsed(s).index \in Slots /\ LastUsed(s).lap \in Nat
         /\ Uses(s, LastUsed(s).index) = LastUsed(s).lap
<1>1. s.index \in Nat /\ s.lap \in Nat /\ s.index <= NumStages - 1 /\ NumStages \in Nat
  BY ConstAssumption DEF States, Slots
<1>2. CASE s.index = 0
  <2>1. LastUsed(s).index = NumStages - 1 /\ LastUsed(s).lap = s.lap
    BY <1>2 DEF LastUsed
  <2> QED  BY <1>1, <1>2, <2>1 DEF Uses, Slots
<1>3. CASE s.index # 0
  <2>1. LastUsed(s).index = s.index - 1 /\ LastUsed(s).lap = s.lap + 1
    BY <1>3 DEF LastUsed
  <2> QED  BY <1>1, <1>3, <2>1 DEF Uses, Slots
<1> QED  BY <1>2, <1>3

\* Who has used no slot more often than s, and the last one as often, is at s.
LEMMA CaughtUp ==
  ASSUME NEW s \in States, NEW c \in States,
         \A i \in Slots : Uses(c, i) <= Uses(s, i),
         Uses(c, LastUsed(s).index) = LastUsed(s).lap
  PROVE  c = s
<1>1. /\ s.index \in Nat /\ s.lap \in Nat /\ s.index <= NumStages - 1 /\ NumStages \in Nat
      /\ c.index \in Nat /\ c.lap \in Nat /\ c.index <= NumStages - 1
      /\ s.index \in Slots /\ 0 \in Slots
      /\ s = [index |-> s.index, lap |-> s.lap] /\ c = [index |-> c.index, lap |-> c.lap]
  BY ConstAssumption DEF States, Slots
<1>2. c.index = s.index /\ c.lap = s.lap
  <2>1. CASE s.index = 0
    <3>1. LastUsed(s).index = NumStages - 1 /\ LastUsed(s).lap = s.lap
      BY <2>1 DEF LastUsed
    <3> QED  BY <1>1, <2>1, <3>1 DEF Uses
  <2>2. CASE s.index # 0
    <3>1. LastUsed(s).index = s.index - 1 /\ LastUsed(s).lap = s.lap + 1
      BY <2>2 DEF LastUsed
    <3>2. Uses(c, s.index) <= Uses(s, s.index)
      BY <1>1
    <3> QED  BY <1>1, <2>2, <3>1, <3>2 DEF Uses
  <2> QED  BY <2>1, <2>2
<1> QED  BY <1>1, <1>2

\* Nothing is left in a pipeline where everybody stands at the same place.
LEMMA CleanPipe ==
  ASSUME NEW f, NEW e, NEW a, NEW l, NEW pp, NEW cp,
         PipeTyped(f, e, a, l, pp, cp), PipeInv(f, e, a, l, pp, cp),
         \A w \in WG : cp[w] = pp, NEW i \in Slots
  PROVE  ~l[i] /\ a[i] = 0 /\ e[i] = f[i]
<1>1. /\ SlotInv(f, e, a, l, pp, cp, i) /\ f[i] \in Nat /\ e[i] \in Nat /\ l[i] \in BOOLEAN
      /\ a[i] \in 0 .. NumWG - 1 /\ DOMAIN cp = WG /\ 1 \in WG
  BY ConstAssumption DEF PipeInv, PipeTyped, WG
<1>2. Uses(pp, i) \in Nat
  BY UsesAdvance DEF PipeTyped
<1>3. f[i] = Uses(pp, i) /\ ~l[i]
  BY <1>1, <1>2 DEF SlotInv
<1>4. CASE Uses(pp, i) = e[i]
  <2>1. Ahead(cp, e, i) = {}
    BY <1>1, <1>4 DEF Ahead
  <2> QED  BY <1>1, <1>3, <1>4, <2>1, FS_EmptySet DEF SlotInv
<1>5. CASE Uses(pp, i) = e[i] + 1
  <2>1. Ahead(cp, e, i) = WG
    BY <1>1, <1>5 DEF Ahead
  <2>2. a[i] = NumWG
    BY <1>1, <2>1, WGFinite DEF SlotInv
  <2> QED  BY <1>1, <2>2, ConstAssumption
<1> QED  BY <1>1, <1>4, <1>5 DEF SlotInv

\* The phases of an empty barrier are never taken back.
LEMMA EmptyGrows ==
  ASSUME TypeOK, [Next]_vars, NEW p \in Pipes, NEW i \in Slots
  PROVE  empty'[p][i] \in Nat /\ empty[p][i] \in Nat /\ empty'[p][i] >= empty[p][i]
<1>1. \A q \in Pipes, j \in Slots : empty[q][j] \in Nat
  BY DEF TypeOK, PipesTyped
<1>2. CASE empty' = empty
  BY <1>1, <1>2
<1>3. ASSUME NEW q \in Pipes, NEW s \in States, Release(q, s)
      PROVE  empty'[p][i] \in Nat /\ empty'[p][i] >= empty[p][i]
  <2>1. empty' = empty \/ empty' = [empty EXCEPT ![q][s.index] = @ + 1]
    BY <1>3 DEF Release
  <2>2. empty \in [Pipes -> [Slots -> Nat]] /\ s.index \in Slots
    BY DEF TypeOK, PipesTyped, States
  <2> QED  BY <1>1, <2>1, <2>2
<1>4. ASSUME NEW w \in WG, WarpGroup(w), empty' # empty
      PROVE  \E q \in Pipes, s \in States : Release(q, s)
  <2>1. kv[w] \in States /\ kvV[w] \in States /\ "K" \in Pipes /\ "V" \in Pipes
    BY DEF TypeOK, ConsumersTyped, Pipes
  <2> QED
    BY <1>4, <2>1 DEF WarpGroup, WaitQ, EmptySplit, ReleaseQ, FirstSync, IssueQK, PassTurn, DrainQK,
       WaitV, IssuePV, DrainPV, FirstQK, DrainFirstQK, WaitNextK, IssueNextQK, IssuePrevPV,
       DrainNextQK, DrainPrevPV, LastPV, DrainLastPV, EpilogueBarrier, WriteSmemO, StoreO, pipeVars
<1>5. CASE Producer \/ LandQ \/ \E q \in Pipes, j \in Slots : Land(q, j)
  BY <1>2, <1>5 DEF Producer, LoadFirstK, LoadQ, LoadV, LoadK, LoadNextK, LoadPrevV, LoadLastV,
     ProducerTail, LandQ, Land, Issue, pipeVars
<1> QED
  BY <1>1, <1>2, <1>3, <1>4, <1>5 DEF Next, Exited, vars

\* What the tail waited for stays true.
LEMMA TailNext ==
  ASSUME SlotIInv, SlotIInv', TailInv, [Next]_vars
  PROVE  TailInv'
<1> DEFINE last == LastUsed(pkv)
<1>0. /\ TypeOK /\ TypeOK' /\ pkv \in States /\ pkv' \in States /\ "V" \in Pipes
      /\ pc \in [WG -> WGPCs] /\ kv \in [WG -> States]
  BY DEF SlotIInv, TypeOK, ProducerTyped, ConsumersTyped, Pipes
<1>1. \A w \in WG : pc'[w] = "wait_q" => kv'[w] = State0
  <2>1. ASSUME NEW w \in WG, WarpGroup(w) PROVE pc'[w] # "wait_q"
    BY <1>0, <2>1 DEF WarpGroup, WaitQ, EmptySplit, ReleaseQ, FirstSync, IssueQK, PassTurn, DrainQK,
       WaitV, IssuePV, DrainPV, FirstQK, DrainFirstQK, WaitNextK, IssueNextQK, IssuePrevPV,
       DrainNextQK, DrainPrevPV, LastPV, DrainLastPV, EpilogueBarrier, WriteSmemO, StoreO,
       Goto, NextBlock
  <2>2. ASSUME NEW w \in WG, WarpGroup(w) PROVE \A v \in WG : v # w => pc'[v] = pc[v] /\ kv'[v] = kv[v]
    BY <1>0, <2>2, StepAlone DEF Alone
  <2>3. CASE UNCHANGED <<pc, kv>>
    BY <2>3 DEF TailInv
  <2> QED
    BY <2>1, <2>2, <2>3, ProducerFrame DEF TailInv, Next, Exited, vars, OffGroups
<1>2. /\ last.index \in Slots /\ last.lap \in Nat /\ Uses(pkv, last.index) = last.lap
  BY <1>0, LastUsedFacts
<1>3. ASSUME ppc' \in {"tail", "done"}, HasWork'
      PROVE  pkv' # State0 /\ (ppc' = "done" => empty'["V"][LastUsed(pkv').index] = LastUsed(pkv').lap)
  <2>1. HasWork' = HasWork
    BY ProducerFrame, StepAlone, <1>0 DEF OffGroups, Alone, Next, Exited, vars, HasWork
  <2>2. CASE ppc \notin {"tail", "done"}
    <3>1. ppc' = "tail" /\ pkv' = Advance(pkv)
      <4>1. Producer
        BY <1>0, <1>3, <2>2, StepAlone DEF Next, LandQ, Land, Exited, vars, prodVars, Alone
      <4> QED
        BY <4>1, <1>3, <2>1, <2>2 DEF Producer, LoadFirstK, LoadQ, LoadV, LoadK, LoadNextK, LoadPrevV,
           LoadLastV, ProducerTail
    <3>2. Advance(pkv) # State0
      BY <1>0 DEF Advance, State0, States, Slots
    <3> QED  BY <3>1, <3>2
  <2>3. CASE ppc = "tail" /\ ppc' = "tail"
    <3>1. pkv' = pkv
      BY <1>0, <2>3, StepAlone DEF Next, LandQ, Land, Exited, vars, prodVars, Alone,
         Producer, LoadFirstK, LoadQ, LoadV, LoadK, LoadNextK, LoadPrevV, LoadLastV, ProducerTail
    <3> QED  BY <2>1, <2>3, <3>1, <1>3 DEF TailInv
  <2>4. CASE ppc = "tail" /\ ppc' = "done"
    <3>1. ProducerTail
      BY <1>0, <2>4, StepAlone DEF Next, LandQ, Land, Exited, vars, prodVars, Alone,
         Producer, LoadFirstK, LoadQ, LoadV, LoadK, LoadNextK, LoadPrevV, LoadLastV
    <3>2. /\ empty' = empty /\ pkv' = pkv
          /\ empty["V"][last.index] % 2 # (last.lap + 1) % 2
      BY <3>1 DEF ProducerTail, pipeVars, CanAcquire
    <3>3. NextLoad("V") = pkv
      BY <2>4 DEF NextLoad
    <3>4. SlotInv(full["V"], empty["V"], arrived["V"], loading["V"], pkv, NextRead("V"), last.index)
      BY <1>0, <1>2, <3>3 DEF SlotIInv, SlotsAgree, PipeInv
    <3>5. empty["V"][last.index] \in Nat
      BY <1>0, <1>2 DEF TypeOK, PipesTyped
    <3>6. empty["V"][last.index] = last.lap
      <4> HIDE DEF last
      <4> QED  BY <1>2, <3>2, <3>4, <3>5 DEF SlotInv
    <3> QED  BY <2>1, <2>4, <3>2, <3>6, <1>3 DEF TailInv
  <2>5. CASE ppc = "done"
    <3>1. pkv' = pkv /\ ppc' = ppc
      BY <1>0, <2>5, StepAlone DEF Next, LandQ, Land, Exited, vars, prodVars, Alone,
         Producer, LoadFirstK, LoadQ, LoadV, LoadK, LoadNextK, LoadPrevV, LoadLastV, ProducerTail
    <3>2. NextLoad("V")' = pkv
      BY <2>5, <3>1 DEF NextLoad
    <3>3. SlotInv(full'["V"], empty'["V"], arrived'["V"], loading'["V"], pkv, NextRead("V")', last.index)
      BY <1>0, <1>2, <3>2 DEF SlotIInv, SlotsAgree, PipeInv
    <3>4. empty["V"][last.index] = last.lap /\ pkv # State0
      BY <1>3, <2>1, <2>5 DEF TailInv
    <3>5. /\ empty'["V"][last.index] \in Nat
          /\ empty'["V"][last.index] >= empty["V"][last.index]
      BY <1>0, <1>2, EmptyGrows
    <3>6. empty'["V"][last.index] = last.lap
      <4> HIDE DEF last
      <4> QED  BY <1>2, <3>3, <3>4, <3>5 DEF SlotInv
    <3> QED  BY <3>1, <3>4, <3>6
  <2> QED  BY <1>3, <2>2, <2>3, <2>4, <2>5
<1> QED  BY <1>1, <1>3 DEF TailInv

LEMMA CtaInit == Init => CtaInv
<1> SUFFICES ASSUME Init PROVE CtaInv
  OBVIOUS
<1>1. QInv
  BY DEF Init, QInv, HasWork
<1>2. EpilogueInv
  <2>1. 1 \in WG
    BY ConstAssumption DEF WG
  <2>2. \A w \in WG : pc[w] = "wait_q" /\ sO[w] = FALSE
    BY DEF Init
  <2>3. \A w \in WG : ~(pc[w] \in EpiloguePCs)
    BY <2>2 DEF EpiloguePCs
  <2>4. \A w \in WG : pc[w] # "done" /\ ~(pc[w] \in {"store_o", "done"})
    BY <2>2
  <2>5. \A w \in WG : sO[w] <=> (pc[w] \in {"store_o", "done"})
    BY <2>2, <2>4
  <2> QED  BY <2>1, <2>3, <2>4, <2>5 DEF EpilogueInv
<1>3. TurnInv
  <2>1. 1 \in WG
    BY ConstAssumption DEF WG
  <2>2. ASSUME UseSchedulerBarrier, NEW w \in WG
        PROVE  /\ turn[w] = (IF w = 1 /\ ~HasTurn(w) THEN 1 ELSE 0)
               /\ (HasTurn(w) => w = 1)
    <3>1. pc[w] = "wait_q"
      BY DEF Init
    <3>2. ~HasTurn(w)
      BY <3>1 DEF HasTurn
    <3>3. turn[w] = IF w = 1 THEN 1 ELSE 0
      BY <2>2 DEF Init
    <3> QED  BY <3>2, <3>3
  <2> QED  BY <2>1, <2>2 DEF TurnInv
<1>4. TailInv
  BY DEF Init, TailInv, HasWork
<1> QED  BY <1>1, <1>2, <1>3, <1>4 DEF CtaInv

LEMMA CtaNext == SlotIInv /\ CtaInv /\ [Next]_vars => CtaInv'
BY SlotNext, QNext, EpilogueNext, TurnNext, TailNext DEF SlotIInv, CtaInv

\* Both invariants hold throughout.
LEMMA CtaAlways == Spec => [](SlotIInv /\ CtaInv)
<1>1. Init => SlotIInv /\ CtaInv
  BY SlotInit, CtaInit
<1>2. SlotIInv /\ CtaInv /\ [Next]_vars => (SlotIInv /\ CtaInv)'
  BY SlotNext, CtaNext
<1> QED  BY <1>1, <1>2, PTL DEF Spec

\* For one to three warp groups and any tile: the turn barriers never lose a
\* turn, and two warp groups never have it together.
THEOREM TurnsAreHanded == Spec => []TurnsAlternate
<1>1. SlotIInv /\ CtaInv => TurnsAlternate
  BY NextIsOther DEF CtaInv, TurnInv, TurnsAlternate
<1> QED  BY <1>1, CtaAlways, PTL

\* No output row is written over a Q that is still read or still landing, and a
\* CTA that has exited has stored what was written.
THEOREM EpilogueHasQ == Spec => []EpilogueOwnsQ
<1>1. ASSUME SlotIInv, CtaInv PROVE EpilogueOwnsQ
  <2>0. pc \in [WG -> WGPCs]
    BY <1>1 DEF SlotIInv, TypeOK, ConsumersTyped
  <2>1. ASSUME NEW v \in WG, NEW w \in WG, sO[v] PROVE ~QKInFlight(w) /\ qbuf = "q"
    BY <1>1, <2>0, <2>1 DEF CtaInv, EpilogueInv, QInv, QKInFlight, EpiloguePCs
  <2>2. ASSUME AllDone, NEW w \in WG PROVE stored[w]
    <3>1. 1 \in WG
      BY ConstAssumption DEF WG
    <3> QED  BY <1>1, <2>2, <3>1 DEF AllDone, CtaInv, EpilogueInv
  <2> QED  BY <2>1, <2>2 DEF EpilogueOwnsQ
<1> QED  BY <1>1, CtaAlways, PTL

\* When the slot of V that was loaded last is free, every warp group stands
\* where the producer does, in both pipelines.
LEMMA AllCaughtUp ==
  ASSUME SlotIInv, TailInv, ppc = "done", HasWork, NEW w \in WG
  PROVE  NextRead("V")[w] = pkv /\ NextRead("K")[w] = pkv /\ ~InLoop(w)
<1> DEFINE last == LastUsed(pkv)
<1>0. /\ TypeOK /\ Control /\ pkv \in States /\ "V" \in Pipes /\ "K" \in Pipes
      /\ kv[w] \in States /\ kvV[w] \in States
      /\ NextRead("V")[w] \in States /\ NextRead("K")[w] \in States
      /\ NextLoad("V") = pkv /\ NextLoad("K") = pkv
  BY PositionType DEF SlotIInv, TypeOK, ProducerTyped, ConsumersTyped, Pipes, NextLoad
<1>1. \A p \in Pipes, i \in Slots :
        Uses(NextRead(p)[w], i) <= Uses(pkv, i)
  <2> SUFFICES ASSUME NEW p \in Pipes, NEW i \in Slots
               PROVE  Uses(NextRead(p)[w], i) <= Uses(pkv, i)
    OBVIOUS
  <2>1. /\ SlotInv(full[p], empty[p], arrived[p], loading[p], pkv, NextRead(p), i)
        /\ full[p][i] \in Nat /\ loading[p][i] \in BOOLEAN
        /\ DOMAIN NextRead(p) = WG /\ NextRead(p)[w] \in States
    BY <1>0, PositionType DEF SlotIInv, SlotsAgree, PipeInv, TypeOK, PipesTyped, Pipes, NextLoad
  <2>2. Uses(NextRead(p)[w], i) \in Nat /\ Uses(pkv, i) \in Nat
    BY <1>0, <2>1, UsesAdvance
  <2> QED  BY <2>1, <2>2 DEF SlotInv
<1>2. last.index \in Slots /\ last.lap \in Nat /\ Uses(pkv, last.index) = last.lap
  BY <1>0, LastUsedFacts
<1>3. Uses(NextRead("V")[w], last.index) = last.lap
  <2>1. empty["V"][last.index] = last.lap
    BY DEF TailInv
  <2>2. SlotInv(full["V"], empty["V"], arrived["V"], loading["V"], pkv, NextRead("V"), last.index)
    BY <1>0, <1>2 DEF SlotIInv, SlotsAgree, PipeInv
  <2>3. DOMAIN NextRead("V") = WG /\ Uses(NextRead("V")[w], last.index) \in Nat
    BY <1>0, <1>2, UsesAdvance DEF NextRead
  <2>4. Uses(NextRead("V")[w], last.index) <= last.lap
    BY <1>0, <1>1, <1>2
  <2> HIDE DEF last
  <2> QED  BY <1>2, <2>1, <2>2, <2>3, <2>4 DEF SlotInv
<1>4. NextRead("V")[w] = pkv
  <2>1. \A i \in Slots : Uses(NextRead("V")[w], i) <= Uses(pkv, i)
    BY <1>0, <1>1
  <2> QED  BY <1>0, <1>3, <2>1, CaughtUp
\* A position past the producer's has used one slot too often.
<1>5. NextRead("K")[w] # Advance(pkv) /\ NextRead("K")[w] # Advance(Advance(pkv))
  <2>1. pkv.index \in Slots /\ Advance(pkv) \in States
    BY <1>0, StateType DEF States
  <2>2. /\ Uses(pkv, pkv.index) \in Nat
        /\ Uses(Advance(pkv), pkv.index) = Uses(pkv, pkv.index) + 1
        /\ Uses(Advance(Advance(pkv)), pkv.index) >= Uses(pkv, pkv.index) + 1
    BY <1>0, <2>1, UsesAdvance
  <2>3. Uses(NextRead("K")[w], pkv.index) <= Uses(pkv, pkv.index)
    BY <1>0, <1>1, <2>1
  <2>4. /\ Uses(NextRead("K")[w], pkv.index) # Uses(Advance(pkv), pkv.index)
        /\ Uses(NextRead("K")[w], pkv.index) # Uses(Advance(Advance(pkv)), pkv.index)
    <3>1. Uses(NextRead("K")[w], pkv.index) \in Nat /\ Uses(Advance(Advance(pkv)), pkv.index) \in Nat
      BY <1>0, <2>1, StateType, UsesAdvance
    <3> QED  BY <2>2, <2>3, <3>1
  <2> QED  BY <2>4
<1>6. /\ NextRead("K")[w] = (IF AfterK(w) THEN Advance(kv[w]) ELSE kv[w])
      /\ NextRead("V")[w] = (IF InLoop(w) THEN kvV[w] ELSE kv[w])
  BY DEF NextRead
<1>7. InLoop(w) => kv[w] = Advance(kvV[w])
  BY <1>0 DEF Control
<1> QED  BY <1>4, <1>5, <1>6, <1>7

\* Waiting for V alone, the producer leaves with nothing in flight and no slot
\* unreleased in any pipeline.
THEOREM ProducerExits == Spec => []ProducerExitClean
<1>1. ASSUME SlotIInv, CtaInv, ppc = "done", HasWork
      PROVE  /\ qbuf = "q"
             /\ \A p \in Pipes, i \in Slots :
                  ~loading[p][i] /\ arrived[p][i] = 0 /\ empty[p][i] = full[p][i]
  <2>0. \A w \in WG : NextRead("V")[w] = pkv /\ NextRead("K")[w] = pkv /\ ~InLoop(w)
    BY <1>1, AllCaughtUp DEF CtaInv
  <2>1. qbuf = "q"
    <3>1. 1 \in WG /\ pkv # State0
      BY <1>1, ConstAssumption DEF WG, CtaInv, TailInv
    <3>2. NextRead("V")[1] = kv[1]
      BY <2>0, <3>1 DEF NextRead
    <3> QED  BY <1>1, <2>0, <3>1, <3>2 DEF CtaInv, TailInv, QInv
  <2>2. ASSUME NEW p \in Pipes, NEW i \in Slots
        PROVE  ~loading[p][i] /\ arrived[p][i] = 0 /\ empty[p][i] = full[p][i]
    <3>1. NextLoad(p) = pkv /\ \A w \in WG : NextRead(p)[w] = pkv
      BY <1>1, <2>0 DEF NextLoad, Pipes
    <3>2. /\ PipeTyped(full[p], empty[p], arrived[p], loading[p], NextLoad(p), NextRead(p))
          /\ PipeInv(full[p], empty[p], arrived[p], loading[p], NextLoad(p), NextRead(p))
      BY <1>1, PositionType DEF SlotIInv, SlotsAgree
    <3> QED  BY <3>1, <3>2, CleanPipe
  <2> QED  BY <2>1, <2>2
<1>2. SlotIInv /\ CtaInv => ProducerExitClean
  BY <1>1 DEF ProducerExitClean
<1> QED  BY <1>2, CtaAlways, PTL

-----------------------------------------------------------------------------
(* Positions and blocks.                                                   *)

\* A position counts the advances that led to it.
LEMMA OrdAdvance ==
  ASSUME NEW s \in States
  PROVE  Ord(s) \in Nat /\ Ord(Advance(s)) = Ord(s) + 1 /\ Ord(State0) = 0
<1>1. s.index \in Nat /\ s.lap \in Nat /\ NumStages \in Nat
  BY ConstAssumption DEF States, Slots
<1>2. Ord(s) \in Nat
  BY <1>1 DEF Ord
<1>3. CASE s.index = NumStages - 1
  <2>1. Advance(s).index = 0 /\ Advance(s).lap = s.lap + 1
    BY <1>3 DEF Advance
  <2>2. (s.lap + 1) * NumStages = s.lap * NumStages + NumStages
    BY <1>1
  <2>3. Ord(Advance(s)) = s.lap * NumStages + NumStages
    BY <1>1, <2>1, <2>2 DEF Ord
  <2>4. Ord(s) = s.lap * NumStages + (NumStages - 1)
    BY <1>3 DEF Ord
  <2>5. s.lap * NumStages \in Int
    BY <1>1
  <2>6. Ord(Advance(s)) = Ord(s) + 1
    BY <1>1, <2>3, <2>4, <2>5
  <2> QED  BY <1>1, <1>2, <2>6 DEF Ord, State0
<1>4. CASE s.index # NumStages - 1
  <2>1. Advance(s).index = s.index + 1 /\ Advance(s).lap = s.lap
    BY <1>4 DEF Advance
  <2> QED  BY <1>1, <1>2, <2>1 DEF Ord, State0
<1> QED  BY <1>3, <1>4

\* A slot that a warp group has waited for holds the block of its position.
LEMMA ReadyHolds ==
  ASSUME SlotIInv, BuffersInStep, NEW p \in Pipes, NEW w \in WG,
         Ready(full[p], NextRead(p)[w])
  PROVE  buf[p][NextRead(p)[w].index] = Block(Ord(NextRead(p)[w]))
<1> DEFINE s == NextRead(p)[w]
           i == s.index
<1>0. /\ PipeTyped(full[p], empty[p], arrived[p], loading[p], NextLoad(p), NextRead(p))
      /\ PipeInv(full[p], empty[p], arrived[p], loading[p], NextLoad(p), NextRead(p))
      /\ s \in States /\ i \in Slots /\ s.lap \in Nat
  BY PositionType DEF SlotIInv, SlotsAgree, States
<1>1. ~loading[p][i]
  BY <1>0, ReadyNotLoading
<1>2. full[p][i] = s.lap + 1 /\ full[p][i] \in Nat
  BY <1>0 DEF Ready, PipeTyped
<1>3. Uses(NextLoad(p), i) = s.lap + 1
  <2>1. SlotInv(full[p], empty[p], arrived[p], loading[p], NextLoad(p), NextRead(p), i)
    BY <1>0 DEF PipeInv
  <2> HIDE DEF s, i
  <2> QED  BY <1>0, <1>1, <1>2, <2>1 DEF SlotInv
<1>4. buf[p][i] = Block(Ord([index |-> i, lap |-> s.lap]))
  <2> HIDE DEF s, i
  <2>1. s.lap + 1 > 0 /\ (s.lap + 1) - 1 = s.lap
    BY <1>0
  <2> QED  BY <1>0, <1>3, <2>1 DEF BuffersInStep
<1> QED  BY <1>4 DEF Ord

-----------------------------------------------------------------------------
(* The producer.                                                           *)

\* A load of the block of its position keeps the slots' contents in step.
LEMMA IssueHolds ==
  ASSUME TypeOK, BuffersInStep, NEW p \in Pipes, Issue(p, NextLoad(p), Block(Ord(NextLoad(p)))),
         NextLoad(p)' = Advance(NextLoad(p)),
         \A q \in Pipes : q # p => NextLoad(q)' = NextLoad(q),
         UNCHANGED nBlockMax
  PROVE  BuffersInStep'
<1> DEFINE s == NextLoad(p)
<1>0. /\ s \in States /\ s.index \in Slots /\ s.lap \in Nat
      /\ buf \in [Pipes -> [Slots -> Int]]
  BY PositionType DEF States, TypeOK, PipesTyped
<1>1. \A i : Block(i)' = Block(i)
  BY DEF Block
<1> SUFFICES ASSUME NEW q \in Pipes, NEW i \in Slots, Uses(NextLoad(q), i)' > 0
             PROVE  buf'[q][i] = Block(Ord([index |-> i, lap |-> Uses(NextLoad(q), i)' - 1]))
  BY DEF BuffersInStep, Block
<1>2. buf' = [buf EXCEPT ![p][s.index] = Block(Ord(s))]
  BY DEF Issue
<1>3. CASE q = p /\ i = s.index
  <2>1. Uses(NextLoad(q), i)' = s.lap + 1
    <3>1. Uses(Advance(s), i) = s.lap + 1
      BY <1>0, <1>3, UsesAdvance
    <3> QED  BY <1>3, <3>1 DEF Uses
  <2>2. Uses(NextLoad(q), i)' - 1 = s.lap
    BY <1>0, <2>1
  <2>3. buf'[q][i] = Block(Ord(s))
    BY <1>0, <1>2, <1>3
  <2>4. Ord([index |-> i, lap |-> s.lap]) = Ord(s)
    BY <1>3 DEF Ord
  <2> QED  BY <2>2, <2>3, <2>4
<1>4. CASE ~(q = p /\ i = s.index)
  <2>1. Uses(NextLoad(q), i)' = Uses(NextLoad(q), i)
    <3>1. CASE q = p
      <4>1. Uses(Advance(s), i) = Uses(s, i) /\ Uses(s, i) \in Nat
        BY <1>0, <1>4, <3>1, UsesAdvance
      <4> QED  BY <3>1, <4>1 DEF Uses
    <3>2. CASE q # p
      BY <3>2 DEF Uses
    <3> QED  BY <3>1, <3>2
  <2>2. buf'[q][i] = buf[q][i]
    BY <1>0, <1>2, <1>4
  <2> QED  BY <2>1, <2>2 DEF BuffersInStep
<1> QED  BY <1>3, <1>4

\* A step that loads nothing and moves nobody's load keeps them too.
LEMMA QuietHolds ==
  ASSUME BuffersInStep, UNCHANGED <<buf, nBlockMax>>,
         \A q \in Pipes : NextLoad(q)' = NextLoad(q)
  PROVE  BuffersInStep'
BY DEF BuffersInStep, Block, Uses

\* Every load is of the block of the producer's position, and its n_block
\* follows its state, in either order of K and V.
LEMMA ProducerBlocks ==
  ASSUME SlotIInv, nBlockMin < nBlockMax, LoadsInStep, BuffersInStep, Producer
  PROVE  LoadsInStep' /\ BuffersInStep'
<1>0. /\ TypeOK /\ Control /\ "K" \in Pipes /\ "V" \in Pipes /\ "K" # "V"
      /\ \A q \in Pipes : q = "K" \/ q = "V"
      /\ pkv \in States /\ pprev \in States /\ Advance(pkv) \in States
      /\ pn \in Int /\ nBlockMin \in Int /\ nBlockMax \in Int
  BY StateType DEF SlotIInv, Pipes, TypeOK, TileTyped, ProducerTyped
<1>1. /\ Ord(pkv) \in Nat /\ Ord(pprev) \in Nat
      /\ Ord(Advance(pkv)) = Ord(pkv) + 1 /\ Ord(Advance(pprev)) = Ord(pprev) + 1
  BY <1>0, OrdAdvance
<1>2. HasWork /\ HasWork' /\ UNCHANGED <<nBlockMin, nBlockMax>>
  BY DEF Producer, LoadFirstK, LoadQ, LoadV, LoadK, LoadNextK, LoadPrevV, LoadLastV,
         ProducerTail, HasWork, tileVars
<1>3. nBlockMin <= pn /\ (ppc \notin {"tail", "done"} => pn = nBlockMax - 1 - Ord(pkv))
  BY DEF LoadsInStep, Block
<1>4. CASE LoadFirstK
  <2>1. /\ NextLoad("K") = pkv /\ NextLoad("K")' = Advance(pkv) /\ NextLoad("V")' = NextLoad("V")
        /\ Issue("K", pkv, Block(Ord(pkv)))
    BY <1>0, <1>2, <1>4 DEF LoadFirstK, NextLoad, LoadsInStep
  <2>2. BuffersInStep'
    BY <1>0, <1>2, <2>1, IssueHolds
  <2>3. LoadsInStep'
    BY <1>0, <1>2, <1>3, <1>4 DEF LoadFirstK, LoadsInStep, Block, Ord
  <2> QED  BY <2>2, <2>3
<1>5. CASE LoadQ
  <2>1. NextLoad("K")' = NextLoad("K") /\ NextLoad("V")' = NextLoad("V") /\ buf' = buf
    BY <1>0, <1>2, <1>5 DEF LoadQ, NextLoad, pipeVars
  <2>2. BuffersInStep'
    BY <1>0, <1>2, <2>1, QuietHolds
  <2>3. LoadsInStep'
    BY <1>0, <1>2, <1>3, <1>5 DEF LoadQ, LoadsInStep, Block, Ord
  <2> QED  BY <2>2, <2>3
<1>6. CASE LoadV
  <2>1. /\ NextLoad("V") = pkv /\ NextLoad("V")' = Advance(pkv) /\ NextLoad("K")' = NextLoad("K")
        /\ Issue("V", pkv, Block(Ord(pkv)))
    BY <1>0, <1>2, <1>6 DEF LoadV, NextLoad, Control, LoadsInStep, SlotIInv
  <2>2. BuffersInStep'
    BY <1>0, <1>2, <2>1, IssueHolds
  <2>3. Ord(pkv)' = Ord(pkv) + 1 /\ InOrder
    BY <1>0, <1>1, <1>6 DEF LoadV, Ord, Control
  <2>4. LoadsInStep'
    BY <1>0, <1>2, <1>3, <1>6, <2>3, <1>1 DEF LoadV, LoadsInStep, Block
  <2> QED  BY <2>2, <2>4
<1>7. CASE LoadK
  <2>1. /\ NextLoad("K") = pkv /\ NextLoad("K")' = Advance(pkv) /\ NextLoad("V")' = NextLoad("V")
        /\ Issue("K", pkv, Block(Ord(pkv)))
    BY <1>0, <1>2, <1>7 DEF LoadK, NextLoad, LoadsInStep
  <2>2. BuffersInStep'
    BY <1>0, <1>2, <2>1, IssueHolds
  <2>3. LoadsInStep'
    BY <1>0, <1>2, <1>3, <1>7 DEF LoadK, LoadsInStep, Block, Ord
  <2> QED  BY <2>2, <2>3
<1>8. CASE LoadNextK
  <2>1. /\ NextLoad("K") = Advance(pkv) /\ NextLoad("K")' = Advance(Advance(pkv))
        /\ NextLoad("V")' = NextLoad("V") /\ Issue("K", Advance(pkv), pn - 1)
    BY <1>0, <1>2, <1>8 DEF LoadNextK, NextLoad
  <2>2. pn - 1 = Block(Ord(Advance(pkv))) /\ nBlockMin < pn
    BY <1>0, <1>1, <1>3, <1>8 DEF LoadNextK, Block, LoadsInStep
  <2>3. BuffersInStep'
    BY <1>0, <1>2, <2>1, <2>2, IssueHolds
  <2>4. Ord(pkv)' = Ord(pkv) + 1
    BY <1>1, <1>8 DEF LoadNextK, Ord
  <2>5. LoadsInStep'
    BY <1>0, <1>1, <1>2, <1>3, <1>8, <2>2, <2>4 DEF LoadNextK, LoadsInStep, Block
  <2> QED  BY <2>3, <2>5
<1>9. CASE LoadPrevV
  <2>1. /\ NextLoad("V") = pprev /\ NextLoad("V")' = pkv /\ NextLoad("K")' = NextLoad("K")
        /\ Issue("V", pprev, pn + 1) /\ pkv = Advance(pprev) /\ ~InOrder
    BY <1>0, <1>2, <1>9 DEF LoadPrevV, NextLoad, Control
  <2>2. pn + 1 = Block(Ord(pprev))
    BY <1>0, <1>1, <1>3, <1>9, <2>1 DEF LoadPrevV, Block
  <2>3. BuffersInStep'
    BY <1>0, <1>2, <2>1, <2>2, IssueHolds
  <2>4. LoadsInStep'
    BY <1>0, <1>2, <1>3, <1>9 DEF LoadPrevV, LoadsInStep, Block, Ord
  <2> QED  BY <2>3, <2>4
<1>10. CASE LoadLastV
  <2>1. /\ NextLoad("V") = pkv /\ NextLoad("V")' = Advance(pkv) /\ NextLoad("K")' = NextLoad("K")
        /\ Issue("V", pkv, Block(Ord(pkv)))
    BY <1>0, <1>2, <1>10 DEF LoadLastV, NextLoad, Control, LoadsInStep
  <2>2. BuffersInStep'
    BY <1>0, <1>2, <2>1, IssueHolds
  <2>3. LoadsInStep'
    BY <1>0, <1>2, <1>3, <1>10 DEF LoadLastV, LoadsInStep, Block
  <2> QED  BY <2>2, <2>3
<1>11. CASE ProducerTail
  <2>1. NextLoad("K")' = NextLoad("K") /\ NextLoad("V")' = NextLoad("V") /\ buf' = buf
    BY <1>0, <1>2, <1>11 DEF ProducerTail, NextLoad, pipeVars
  <2>2. BuffersInStep'
    BY <1>0, <1>2, <2>1, QuietHolds
  <2>3. LoadsInStep'
    BY <1>0, <1>2, <1>3, <1>11 DEF ProducerTail, LoadsInStep, Block
  <2> QED  BY <2>2, <2>3
<1> QED  BY <1>4, <1>5, <1>6, <1>7, <1>8, <1>9, <1>10, <1>11 DEF Producer

-----------------------------------------------------------------------------
(* The warp groups.                                                        *)

\* A step of a warp group that drains no P V leaves its results and its place
\* in V alone.
DrainsV(w) == DrainPV(w) \/ DrainPrevPV(w) \/ DrainLastPV(w)
DrainsK(w) == DrainQK(w) \/ DrainFirstQK(w) \/ DrainNextQK(w)

LEMMA VMoves ==
  ASSUME SlotIInv, NEW w \in WG, WarpGroup(w)
  PROVE  NextRead("V")'[w] = IF DrainsV(w) THEN Advance(NextRead("V")[w]) ELSE NextRead("V")[w]
<1>0. TypeOK /\ Control /\ pc \in [WG -> WGPCs] /\ kv \in [WG -> States] /\ kvV \in [WG -> States]
  BY DEF SlotIInv, TypeOK, ConsumersTyped
<1>1. NextRead("V")[w] = (IF InLoop(w) THEN kvV[w] ELSE kv[w])
      /\ NextRead("V")'[w] = (IF InLoop(w)' THEN kvV'[w] ELSE kv'[w])
  BY DEF NextRead
<1>2. CASE DrainsV(w)
  BY <1>0, <1>1, <1>2 DEF DrainsV, DrainPV, DrainPrevPV, DrainLastPV, Control, InLoop, Goto, NextBlock
<1>3. CASE ~DrainsV(w)
  BY <1>0, <1>1, <1>3 DEF WarpGroup, DrainsV, WaitQ, EmptySplit, ReleaseQ, FirstSync, IssueQK,
     PassTurn, DrainQK, WaitV, IssuePV, FirstQK, DrainFirstQK, WaitNextK, IssueNextQK, IssuePrevPV,
     DrainNextQK, LastPV, EpilogueBarrier, WriteSmemO, StoreO, Control, InLoop, Goto, NextBlock
<1> QED  BY <1>2, <1>3

\* Where a Q K product is drained, the slot that is read holds the block of the
\* warp group's n_block.
LEMMA ScoresInStep ==
  ASSUME SlotIInv, nBlockMin < nBlockMax, BuffersInStep, NEW w \in WG, GroupInStep(w), DrainsK(w)
  PROVE  /\ Scores(w, kv[w]) = Of(n[w])
         /\ n[w] = Block(Len(acc[w])) - (IF DrainNextQK(w) THEN 1 ELSE 0)
<1>0. /\ TypeOK /\ Control /\ WaitsPassed /\ "K" \in Pipes
      /\ kv[w] \in States /\ kvV[w] \in States /\ n[w] \in Int /\ nBlockMax \in Int
      /\ acc[w] \in Seq([k : Int, n : Int, v : Int])
  BY DEF SlotIInv, TypeOK, TileTyped, ConsumersTyped, ResultsTyped, Pipes
<1>1. Len(acc[w]) \in Nat
  BY <1>0
<1>2. /\ NextRead("K")[w] = (IF AfterK(w) THEN Advance(kv[w]) ELSE kv[w])
      /\ NextRead("V")[w] = (IF InLoop(w) THEN kvV[w] ELSE kv[w])
  BY DEF NextRead
<1>3. WaitedK(w) /\ ~AfterK(w)
  BY <1>0 DEF DrainsK, DrainQK, DrainFirstQK, DrainNextQK, WaitedK, AfterK, Control
<1>4. buf["K"][kv[w].index] = Block(Ord(kv[w]))
  BY <1>0, <1>2, <1>3, ReadyHolds DEF WaitsPassed
<1>5. n[w] = Block(Ord(kv[w]))
      /\ n[w] = Block(Len(acc[w])) - (IF DrainNextQK(w) THEN 1 ELSE 0)
  <2>1. CASE DrainNextQK(w)
    <3>1. kv[w] = Advance(kvV[w]) /\ NextRead("V")[w] = kvV[w] /\ IntraWgOverlap /\ pc[w] = "qk_drain"
      BY <1>0, <1>2, <2>1 DEF DrainNextQK, InLoop, Control
    <3>2. Ord(kv[w]) = Ord(kvV[w]) + 1 /\ Ord(kvV[w]) = Len(acc[w])
      BY <1>0, <3>1, OrdAdvance DEF GroupInStep
    <3>3. n[w] = Block(Len(acc[w])) - 1
      BY <3>1 DEF GroupInStep
    <3> QED  BY <1>0, <1>1, <2>1, <3>2, <3>3 DEF Block
  <2>2. CASE ~DrainNextQK(w)
    <3>1. ~InLoop(w)
      BY <2>2 DEF DrainsK, DrainQK, DrainFirstQK, InLoop
    <3>2. Ord(kv[w]) = Len(acc[w])
      BY <1>2, <3>1 DEF GroupInStep
    <3>3. n[w] = Block(Len(acc[w]))
      BY <2>2 DEF DrainsK, DrainQK, DrainFirstQK, GroupInStep
    <3> QED  BY <1>0, <1>1, <2>2, <3>2, <3>3 DEF Block
  <2> QED  BY <2>1, <2>2
<1> QED  BY <1>4, <1>5 DEF Scores, Of

\* Where a P V product is drained, what is accumulated is the next block, with
\* its own scores, mask, bias and V.
LEMMA AccumulatesNext ==
  ASSUME SlotIInv, nBlockMin < nBlockMax, BuffersInStep, NEW w \in WG, GroupInStep(w), DrainsV(w)
  PROVE  LET b == Block(Len(acc[w])) IN acc' = [acc EXCEPT ![w] = Append(@, [k |-> b, n |-> b, v |-> b])]
<1> DEFINE b == Block(Len(acc[w]))
           s == NextRead("V")[w]
<1>0. /\ TypeOK /\ Control /\ WaitsPassed /\ "V" \in Pipes
      /\ acc \in [WG -> Seq([k : Int, n : Int, v : Int])]
  BY DEF SlotIInv, TypeOK, ResultsTyped, Pipes
<1>1. s = (IF InLoop(w) THEN kvV[w] ELSE kv[w])
  BY DEF NextRead
<1>2. WaitedV(w) /\ HoldsP(w)
  BY <1>0 DEF DrainsV, DrainPV, DrainPrevPV, DrainLastPV, WaitedV, HoldsP, InLoop, Control
<1>3. buf["V"][s.index] = b
  <2>1. buf["V"][s.index] = Block(Ord(s))
    BY <1>0, <1>2, ReadyHolds DEF WaitsPassed
  <2> QED  BY <2>1 DEF GroupInStep
<1>4. preg[w] = Of(b)
  BY <1>2 DEF GroupInStep
<1>5. Accumulated(w, s) = Append(acc[w], [k |-> b, n |-> b, v |-> b])
  BY <1>3, <1>4 DEF Accumulated, Of
<1>6. acc' = [acc EXCEPT ![w] = Accumulated(w, s)]
  BY <1>0, <1>1 DEF DrainsV, DrainPV, DrainPrevPV, DrainLastPV, InLoop, Control
<1> QED  BY <1>0, <1>5, <1>6

\* A warp group that nothing happens to stays in step.
LEMMA GroupFrame ==
  ASSUME NEW v \in WG, GroupInStep(v), UNCHANGED <<nBlockMin, nBlockMax>>,
         pc'[v] = pc[v], n'[v] = n[v], acc'[v] = acc[v], preg'[v] = preg[v], sreg'[v] = sreg[v],
         NextRead("V")'[v] = NextRead("V")[v]
  PROVE  GroupInStep(v)'
BY DEF GroupInStep, Block, HoldsP, InLoop, Ord

\* A warp group's step leaves the others' blocks and registers alone.
LEMMA StepAloneResults ==
  ASSUME TypeOK, NEW w \in WG, WarpGroup(w), NEW v \in WG, v # w
  PROVE  n'[v] = n[v] /\ acc'[v] = acc[v] /\ preg'[v] = preg[v] /\ sreg'[v] = sreg[v]
BY DEF WarpGroup, WaitQ, EmptySplit, ReleaseQ, FirstSync, IssueQK, PassTurn, DrainQK,
   WaitV, IssuePV, DrainPV, FirstQK, DrainFirstQK, WaitNextK, IssueNextQK,
   IssuePrevPV, DrainNextQK, DrainPrevPV, LastPV, DrainLastPV, EpilogueBarrier,
   WriteSmemO, StoreO, NextBlock, TypeOK, ConsumersTyped, ResultsTyped, regVars

\* A warp group that drains P V goes on to the next block.
LEMMA VDrainInStep ==
  ASSUME SlotIInv, nBlockMin < nBlockMax, BuffersInStep, NEW w \in WG, GroupInStep(w),
         WarpGroup(w), DrainsV(w)
  PROVE  GroupInStep(w)'
<1> DEFINE d == Len(acc[w])
           b == Block(d)
<1>0. /\ TypeOK /\ Control /\ pc \in [WG -> WGPCs] /\ n \in [WG -> Int]
      /\ kv[w] \in States /\ kvV[w] \in States /\ nBlockMax \in Int /\ nBlockMin \in Int
      /\ acc \in [WG -> Seq([k : Int, n : Int, v : Int])] /\ acc[w] \in Seq([k : Int, n : Int, v : Int])
      /\ preg \in [WG -> Regs] /\ sreg \in [WG -> Regs]
      /\ UNCHANGED <<nBlockMin, nBlockMax>> /\ NextRead("V")[w] \in States
  BY StepAlone, PositionType DEF SlotIInv, TypeOK, TileTyped, ConsumersTyped, ResultsTyped, Alone, Pipes
<1>1. d \in Nat /\ b = nBlockMax - 1 - d /\ b \in Int
  BY <1>0 DEF Block
<1>2. acc'[w] = Append(acc[w], [k |-> b, n |-> b, v |-> b])
  BY <1>0, AccumulatesNext
<1>3. Len(acc'[w]) = d + 1
  <2> HIDE DEF b, d
  <2>1. [k |-> b, n |-> b, v |-> b] \in [k : Int, n : Int, v : Int]
    BY <1>1
  <2> QED  BY <1>0, <1>2, <2>1 DEF d
<1>4. \A j \in 1 .. d + 1 :
        acc'[w][j] = [k |-> nBlockMax - j, n |-> nBlockMax - j, v |-> nBlockMax - j]
  <2> SUFFICES ASSUME NEW j \in 1 .. d + 1
               PROVE  acc'[w][j] = [k |-> nBlockMax - j, n |-> nBlockMax - j, v |-> nBlockMax - j]
    OBVIOUS
  <2> HIDE DEF b
  <2>0. [k |-> b, n |-> b, v |-> b] \in [k : Int, n : Int, v : Int] /\ j \in Int
    BY <1>1
  <2>1. CASE j = d + 1
    <3>1. acc'[w][j] = [k |-> b, n |-> b, v |-> b]
      BY <1>0, <1>2, <2>0, <2>1
    <3>2. b = nBlockMax - j
      <4> HIDE DEF d
      <4> QED  BY <1>0, <1>1, <2>1
    <3> QED  BY <3>1, <3>2
  <2>2. CASE j # d + 1
    <3>1. j \in 1 .. d
      BY <1>1, <2>0, <2>2
    <3>2. acc'[w][j] = acc[w][j]
      BY <1>0, <1>2, <2>0, <3>1
    <3> QED  BY <3>1, <3>2 DEF GroupInStep
  <2> QED  BY <2>1, <2>2
<1>5. Ord(NextRead("V")'[w]) = d + 1
  <2>1. NextRead("V")'[w] = Advance(NextRead("V")[w])
    BY VMoves
  <2>2. Ord(NextRead("V")[w]) = d
    BY DEF GroupInStep
  <2> QED  BY <1>0, <2>1, <2>2, OrdAdvance
<1>6. Block(Len(acc[w]))' = b - 1 /\ nBlockMax - (d + 1) = b
  <2>1. Block(Len(acc[w]))' = nBlockMax - 1 - (d + 1)
    BY <1>0, <1>3 DEF Block
  <2>2. nBlockMax - 1 - (d + 1) = b - 1 /\ nBlockMax - (d + 1) = b
    <3> HIDE DEF b, d
    <3> QED  BY <1>0, <1>1
  <2> QED  BY <2>1, <2>2
<1>7. CASE DrainPV(w)
  <2>1. pc[w] = "pv" /\ ~IntraWgOverlap /\ n[w] = b
    BY <1>7 DEF DrainPV, GroupInStep
  <2>2. \/ pc'[w] = "k" /\ n'[w] = b - 1 /\ nBlockMin < b
        \/ pc'[w] = "release_q" /\ n'[w] = b /\ b <= nBlockMin
    <3> HIDE DEF b
    <3> QED  BY <1>0, <1>1, <1>7, <2>1 DEF DrainPV, NextBlock, Goto
  <2>3. nBlockMin <= b
    BY <2>1 DEF GroupInStep
  <2>4. ~HoldsP(w)'
    BY <2>1, <2>2 DEF HoldsP
  <2> HIDE DEF b, d
  <2> QED  BY <1>0, <1>1, <1>3, <1>4, <1>5, <1>6, <2>1, <2>2, <2>3, <2>4 DEF GroupInStep, EpiloguePCs
<1>8. CASE DrainPrevPV(w)
  <2>1. pc[w] = "pv" /\ IntraWgOverlap /\ n[w] = b - 1 /\ sreg[w] = Of(b - 1)
    BY <1>8 DEF DrainPrevPV, GroupInStep
  <2>2. \/ pc'[w] = "k" /\ n'[w] = b - 2 /\ nBlockMin < b - 1
        \/ pc'[w] = "release_q" /\ n'[w] = b - 1 /\ b - 1 <= nBlockMin
    <3> HIDE DEF b
    <3> QED  BY <1>0, <1>1, <1>8, <2>1 DEF DrainPrevPV, NextBlock, Goto
  <2>3. nBlockMin <= b - 1
    BY <2>1 DEF GroupInStep
  <2>4. preg'[w] = Of(b - 1)
    BY <1>0, <1>8, <2>1 DEF DrainPrevPV, Of
  <2> HIDE DEF b, d
  <2> QED  BY <1>0, <1>1, <1>3, <1>4, <1>5, <1>6, <2>1, <2>2, <2>3, <2>4 DEF GroupInStep, EpiloguePCs, Of
<1>9. CASE DrainLastPV(w)
  <2>1. pc[w] = "last_pv" /\ b = nBlockMin /\ nBlockMin <= n[w]
    BY <1>9 DEF DrainLastPV, GroupInStep
  <2>2. pc'[w] = "epi" /\ n'[w] = n[w]
    BY <1>0, <1>9 DEF DrainLastPV, Goto
  <2>3. ~HoldsP(w)'
    BY <2>2 DEF HoldsP, InLoop
  <2> HIDE DEF b, d
  <2>4. d + 1 = nBlockMax' - nBlockMin'
    BY <1>0, <1>1, <2>1
  <2>5. nBlockMin' <= n'[w]
    BY <1>0, <2>1, <2>2
  <2> QED  BY <1>0, <1>3, <1>4, <1>5, <2>2, <2>3, <2>4, <2>5 DEF GroupInStep
<1> QED  BY <1>7, <1>8, <1>9 DEF DrainsV

\* A warp group that drains Q K has the scores of the block it goes on with.
LEMMA KDrainInStep ==
  ASSUME SlotIInv, nBlockMin < nBlockMax, BuffersInStep, NEW w \in WG, GroupInStep(w),
         WarpGroup(w), DrainsK(w)
  PROVE  GroupInStep(w)'
<1> DEFINE d == Len(acc[w])
           b == Block(d)
<1>0. /\ TypeOK /\ Control /\ pc \in [WG -> WGPCs] /\ n \in [WG -> Int]
      /\ nBlockMax \in Int /\ nBlockMin \in Int
      /\ acc[w] \in Seq([k : Int, n : Int, v : Int])
      /\ preg \in [WG -> Regs] /\ sreg \in [WG -> Regs]
      /\ UNCHANGED <<nBlockMin, nBlockMax>>
  BY StepAlone DEF SlotIInv, TypeOK, TileTyped, ConsumersTyped, ResultsTyped, Alone
<1>1. d \in Nat /\ b = nBlockMax - 1 - d /\ b \in Int
  BY <1>0 DEF Block
<1>2. /\ Scores(w, kv[w]) = Of(n[w]) /\ n[w] = b - (IF DrainNextQK(w) THEN 1 ELSE 0)
      /\ nBlockMin <= n[w]
  BY ScoresInStep DEF GroupInStep
<1>3. /\ acc'[w] = acc[w] /\ NextRead("V")'[w] = NextRead("V")[w]
      /\ Ord(NextRead("V")'[w]) = d
      /\ \A j \in 1 .. d : acc'[w][j] = [k |-> nBlockMax - j, n |-> nBlockMax - j, v |-> nBlockMax - j]
  <2>1. acc'[w] = acc[w] /\ ~DrainsV(w)
    BY <1>0 DEF DrainsK, DrainQK, DrainFirstQK, DrainNextQK, DrainsV, DrainPV, DrainPrevPV, DrainLastPV
  <2> QED  BY <2>1, VMoves DEF GroupInStep
<1>7. Len(acc'[w]) = d /\ Block(Len(acc[w]))' = b
  BY <1>0, <1>3 DEF Block
<1>4. CASE DrainQK(w)
  <2>1. /\ ~IntraWgOverlap /\ pc'[w] = "v" /\ n'[w] = n[w] /\ n[w] = b /\ preg'[w] = Of(b)
    <3>1. ~IntraWgOverlap /\ ~DrainNextQK(w)
      BY <1>4 DEF DrainQK, DrainNextQK
    <3>2. n[w] = b
      BY <1>1, <1>2, <3>1
    <3> HIDE DEF b
    <3> QED  BY <1>0, <1>2, <1>4, <3>1, <3>2 DEF DrainQK, Goto
  <2> HIDE DEF b, d
  <2> QED  BY <1>0, <1>1, <1>2, <1>3, <1>7, <2>1 DEF GroupInStep, EpiloguePCs, Of
<1>5. CASE DrainFirstQK(w)
  <2>1. /\ IntraWgOverlap /\ n[w] = b /\ preg'[w] = Of(b)
    <3>1. IntraWgOverlap /\ ~DrainNextQK(w)
      BY <1>0, <1>5 DEF DrainFirstQK, DrainNextQK, Control
    <3>2. n[w] = b
      BY <1>1, <1>2, <3>1
    <3> HIDE DEF b
    <3> QED  BY <1>0, <1>2, <1>5, <3>1, <3>2 DEF DrainFirstQK
  <2>2. \/ pc'[w] = "k" /\ n'[w] = b - 1 /\ nBlockMin < b
        \/ pc'[w] = "release_q" /\ n'[w] = b /\ b <= nBlockMin
    <3> HIDE DEF b
    <3> QED  BY <1>0, <1>1, <1>5, <2>1 DEF DrainFirstQK, NextBlock, Goto
  <2> HIDE DEF b, d
  <2> QED  BY <1>0, <1>1, <1>2, <1>3, <1>7, <2>1, <2>2 DEF GroupInStep, EpiloguePCs, Of
<1>6. CASE DrainNextQK(w)
  <2>1. /\ IntraWgOverlap /\ pc'[w] = "pv" /\ n'[w] = n[w] /\ n[w] = b - 1 /\ sreg'[w] = Of(b - 1)
    BY <1>0, <1>2, <1>6 DEF DrainNextQK, Goto
  <2>2. preg'[w] = Of(b)
    BY <1>6 DEF DrainNextQK, GroupInStep, HoldsP, InLoop
  <2> HIDE DEF b, d
  <2> QED  BY <1>0, <1>1, <1>2, <1>3, <1>7, <2>1, <2>2 DEF GroupInStep, EpiloguePCs, Of
<1> QED  BY <1>4, <1>5, <1>6 DEF DrainsK

\* The other steps of a warp group move its program counter at most.
LEMMA QuietInStep ==
  ASSUME SlotIInv, nBlockMin < nBlockMax, NEW w \in WG, GroupInStep(w), pc[w] # "empty",
         WarpGroup(w), ~DrainsV(w), ~DrainsK(w)
  PROVE  GroupInStep(w)'
<1> DEFINE d == Len(acc[w])
           b == Block(d)
<1>0. /\ TypeOK /\ Control /\ pc \in [WG -> WGPCs] /\ n[w] \in Int
      /\ nBlockMax \in Int /\ nBlockMin \in Int /\ acc[w] \in Seq([k : Int, n : Int, v : Int])
      /\ UNCHANGED <<nBlockMin, nBlockMax>> /\ HasWork
  BY StepAlone DEF SlotIInv, TypeOK, TileTyped, ConsumersTyped, ResultsTyped, Alone, HasWork
<1>1. d \in Nat /\ b = nBlockMax - 1 - d /\ b \in Int
  BY <1>0 DEF Block
<1>2. /\ acc'[w] = acc[w] /\ n'[w] = n[w] /\ preg'[w] = preg[w] /\ sreg'[w] = sreg[w]
  BY <1>0 DEF WarpGroup, DrainsV, DrainsK, WaitQ, EmptySplit, ReleaseQ, FirstSync, IssueQK,
     PassTurn, WaitV, IssuePV, FirstQK, WaitNextK, IssueNextQK, IssuePrevPV, LastPV,
     EpilogueBarrier, WriteSmemO, StoreO, regVars
<1>3. NextRead("V")'[w] = NextRead("V")[w]
  BY VMoves
<1>4. /\ Len(acc'[w]) = d /\ Block(Len(acc[w]))' = b /\ Ord(NextRead("V")'[w]) = d
      /\ nBlockMin' <= n'[w]
      /\ \A j \in 1 .. d : acc'[w][j] = [k |-> nBlockMax - j, n |-> nBlockMax - j, v |-> nBlockMax - j]
  BY <1>0, <1>2, <1>3 DEF Block, GroupInStep
\* The loop's program counters in the order in which they are passed.
<1>5. \/ pc[w] = "wait_q" /\ pc'[w] \in {"first_k", "first_sync"}
      \/ pc[w] = "first_sync" /\ pc'[w] = "k" /\ ~IntraWgOverlap
      \/ pc[w] = "first_k" /\ pc'[w] = "first_qk" /\ IntraWgOverlap
      \/ /\ pc[w] \in {"k", "qk_sync", "v", "qk"} /\ pc'[w] \in {"qk_sync", "v", "qk", "qk_drain"}
         /\ IntraWgOverlap
      \/ pc[w] \in {"k", "qk"} /\ pc'[w] \in {"qk", "qk_drain"} /\ ~IntraWgOverlap
      \/ pc[w] \in {"v", "pv_sync"} /\ pc'[w] \in {"pv_sync", "pv"} /\ ~IntraWgOverlap
      \/ pc[w] \in {"release_q", "last_v"} /\ pc'[w] \in {"last_v", "last_pv"} /\ IntraWgOverlap
      \/ pc[w] = "release_q" /\ pc'[w] = "epi" /\ ~IntraWgOverlap
      \/ pc[w] \in EpiloguePCs /\ pc'[w] \in EpiloguePCs
  BY <1>0 DEF WarpGroup, DrainsV, DrainsK, WaitQ, EmptySplit, ReleaseQ, FirstSync, IssueQK,
     PassTurn, WaitV, IssuePV, FirstQK, WaitNextK, IssueNextQK, IssuePrevPV, LastPV,
     EpilogueBarrier, WriteSmemO, StoreO, Goto, Control, EpiloguePCs
<1>6. HoldsP(w)' => HoldsP(w)
  BY <1>5 DEF HoldsP, InLoop, EpiloguePCs
<1>7. /\ pc'[w] \in {"wait_q", "first_sync", "first_k", "first_qk"} => n[w] = b
      /\ pc'[w] \in {"k", "qk_sync", "v", "qk", "qk_drain", "pv_sync", "pv"} =>
           n[w] = IF IntraWgOverlap THEN b - 1 ELSE b
      /\ pc'[w] = "release_q" /\ ~IntraWgOverlap => d = nBlockMax - nBlockMin
      /\ (pc'[w] = "release_q" /\ IntraWgOverlap) \/ pc'[w] \in {"last_v", "last_pv"} => b = nBlockMin
      /\ pc'[w] \in EpiloguePCs => d = nBlockMax - nBlockMin
      /\ ~(pc'[w] = "pv" /\ IntraWgOverlap)
  <2> HIDE DEF b, d
  <2>1. /\ pc[w] \in {"wait_q", "first_sync", "first_k", "first_qk"} => n[w] = b
        /\ pc[w] \in {"k", "qk_sync", "v", "qk", "qk_drain", "pv_sync", "pv"} =>
             n[w] = IF IntraWgOverlap THEN b - 1 ELSE b
        /\ pc[w] = "release_q" /\ ~IntraWgOverlap => d = nBlockMax - nBlockMin
        /\ (pc[w] = "release_q" /\ IntraWgOverlap) \/ pc[w] \in {"last_v", "last_pv"} => b = nBlockMin
        /\ pc[w] \in EpiloguePCs => d = nBlockMax - nBlockMin
    BY DEF GroupInStep, b, d
  <2> QED  BY <1>5, <2>1 DEF EpiloguePCs
<1>8. HoldsP(w)' => preg'[w] = Of(b)
  BY <1>2, <1>6 DEF GroupInStep
<1> HIDE DEF b, d
<1> QED  BY <1>0, <1>2, <1>4, <1>7, <1>8 DEF GroupInStep, Of

\* Everybody starts in step.
LEMMA StepInit == Init => StepInv
<1> SUFFICES ASSUME Init, nBlockMin < nBlockMax
             PROVE  LoadsInStep /\ BuffersInStep /\ \A w \in WG : GroupInStep(w)
  BY DEF StepInv
<1>0. TypeOK /\ nBlockMin \in Nat /\ nBlockMax \in Int /\ HasWork
  BY TypeInit DEF TypeOK, TileTyped, HasWork
<1>1. Ord(State0) = 0
  BY StateType, OrdAdvance
<1>2. LoadsInStep
  BY <1>0, <1>1 DEF Init, LoadsInStep, FirstBlock, Block
<1>3. BuffersInStep
  <2>1. \A p \in Pipes : NextLoad(p) = State0
    BY <1>0 DEF Init, NextLoad
  <2>2. \A i \in Slots : Uses(State0, i) = 0
    BY ConstAssumption DEF Uses, State0, Slots
  <2> QED  BY <2>1, <2>2 DEF BuffersInStep
<1>4. ASSUME NEW w \in WG PROVE GroupInStep(w)
  <2>1. /\ pc[w] = "wait_q" /\ acc[w] = <<>> /\ Len(acc[w]) = 0 /\ n[w] = nBlockMax - 1
        /\ NextRead("V")[w] = State0
    BY DEF Init, NextRead, InLoop
  <2>2. ~HoldsP(w) /\ pc[w] \notin EpiloguePCs
    BY <2>1 DEF HoldsP, InLoop, EpiloguePCs
  <2> QED  BY <1>0, <1>1, <2>1, <2>2 DEF GroupInStep, Block
<1> QED  BY <1>2, <1>3, <1>4

\* And every step keeps everybody in step.
LEMMA StepNext == SlotIInv /\ QInv /\ StepInv /\ [Next]_vars => StepInv'
<1> SUFFICES ASSUME SlotIInv, QInv, StepInv, [Next]_vars, nBlockMin' < nBlockMax'
             PROVE  (LoadsInStep /\ BuffersInStep /\ \A w \in WG : GroupInStep(w))'
  BY DEF StepInv
<1>0. TypeOK /\ "V" \in Pipes
  BY DEF SlotIInv, Pipes
<1>1. UNCHANGED <<nBlockMin, nBlockMax>>
  <2>1. ASSUME NEW w \in WG, WarpGroup(w) PROVE UNCHANGED <<nBlockMin, nBlockMax>>
    BY <1>0, <2>1, StepAlone DEF Alone
  <2> QED  BY <2>1, ProducerFrame DEF Next, Exited, vars, OffGroups
<1>2. /\ nBlockMin < nBlockMax /\ HasWork
      /\ LoadsInStep /\ BuffersInStep /\ \A w \in WG : GroupInStep(w)
  BY <1>1 DEF StepInv, HasWork
<1>3. ASSUME OffGroups PROVE \A w \in WG : GroupInStep(w)'
  <2>1. NextRead("V")' = NextRead("V")
    BY <1>3 DEF OffGroups, NextRead, InLoop
  <2> QED  BY <1>2, <1>3, <2>1, GroupFrame DEF OffGroups
<1>4. CASE Producer
  <2>1. LoadsInStep' /\ BuffersInStep'
    BY <1>2, <1>4, ProducerBlocks
  <2> QED  BY <1>3, <1>4, <2>1, ProducerFrame
<1>5. CASE LandQ \/ (\E p \in Pipes, i \in Slots : Land(p, i)) \/ UNCHANGED vars
  <2>1. OffGroups
    BY <1>5, ProducerFrame DEF vars, OffGroups
  <2>2. UNCHANGED <<buf, ppc, pkv, pprev, pn>>
    BY <1>5 DEF LandQ, Land, vars, pipeVars, prodVars
  <2>3. \A q \in Pipes : NextLoad(q)' = NextLoad(q)
    BY <1>1, <2>2 DEF NextLoad, HasWork
  <2>4. BuffersInStep'
    BY <1>1, <1>2, <2>2, <2>3, QuietHolds
  <2>5. LoadsInStep'
    BY <1>1, <1>2, <2>2 DEF LoadsInStep, Block, Ord
  <2> QED  BY <1>3, <2>1, <2>4, <2>5
<1>6. ASSUME NEW w \in WG, WarpGroup(w)
      PROVE  (LoadsInStep /\ BuffersInStep /\ \A v \in WG : GroupInStep(v))'
  <2>0. Alone(w)
    BY <1>0, <1>6, StepAlone
  <2>1. UNCHANGED <<buf, ppc, pkv, pprev, pn>>
    BY <1>6 DEF WarpGroup, WaitQ, EmptySplit, ReleaseQ, FirstSync, IssueQK, PassTurn, DrainQK,
       WaitV, IssuePV, DrainPV, FirstQK, DrainFirstQK, WaitNextK, IssueNextQK, IssuePrevPV,
       DrainNextQK, DrainPrevPV, LastPV, DrainLastPV, EpilogueBarrier, WriteSmemO, StoreO,
       Release, pipeVars, prodVars
  <2>2. \A q \in Pipes : NextLoad(q)' = NextLoad(q)
    BY <1>0, <2>0, OtherReads
  <2>3. BuffersInStep'
    BY <1>1, <1>2, <2>1, <2>2, QuietHolds
  <2>4. LoadsInStep'
    BY <1>1, <1>2, <2>1 DEF LoadsInStep, Block, Ord
  <2>5. GroupInStep(w)'
    BY <1>2, <1>6, VDrainInStep, KDrainInStep, QuietInStep DEF QInv
  <2>6. ASSUME NEW v \in WG, v # w PROVE GroupInStep(v)'
    <3>1. NextRead("V")'[v] = NextRead("V")[v] /\ pc'[v] = pc[v]
      BY <1>0, <2>0, <2>6, OtherReads DEF Alone
    <3>2. n'[v] = n[v] /\ acc'[v] = acc[v] /\ preg'[v] = preg[v] /\ sreg'[v] = sreg[v]
      BY <1>0, <1>6, <2>6, StepAloneResults
    <3> QED  BY <1>1, <1>2, <3>1, <3>2, GroupFrame
  <2> QED  BY <2>3, <2>4, <2>5, <2>6
<1> QED  BY <1>4, <1>5, <1>6 DEF Next, Exited

LEMMA StepAlways == Spec => [](SlotIInv /\ CtaInv /\ StepInv)
<1>1. Init => SlotIInv /\ CtaInv /\ StepInv
  BY SlotInit, CtaInit, StepInit
<1>2. SlotIInv /\ CtaInv /\ StepInv /\ [Next]_vars => (SlotIInv /\ CtaInv /\ StepInv)'
  BY SlotNext, CtaNext, StepNext DEF CtaInv
<1> QED  BY <1>1, <1>2, PTL DEF Spec

\* For every number of stages and warp groups and both mainloops: the j-th block
\* a warp group accumulates is n_block_max - j, and the K slot, the n_block of
\* mask and bias, and the V slot it used for it agree.
THEOREM BlocksStayInStep == Spec => []BlocksInStep
<1>1. StepInv => BlocksInStep
  BY DEF StepInv, GroupInStep, BlocksInStep
<1> QED  BY <1>1, StepAlways, PTL

-----------------------------------------------------------------------------
(* The CTA implements AttentionTile.                                        *)

\* The work tiles that have a block, or that the kernel tests for being empty:
\* without split-KV it takes an empty tile for one of a single block.
TilesHaveWork == IsSplitKV \/ \A r \in Ranges : r[1] < r[2]

\* A tile that the CTA works on has blocks.
WorkIsReal == HasWork => nBlockMin < nBlockMax

\* A drained P V product is the next block of the tile.
LEMMA DrainAccumulates ==
  ASSUME SlotIInv, CtaInv, StepInv, WorkIsReal, NEW w \in WG, WarpGroup(w), DrainsV(w)
  PROVE  Tile!Accumulate(w)
<1> DEFINE d == Len(acc[w])
<1>0. /\ TypeOK /\ Control /\ nBlockMin \in Int /\ nBlockMax \in Int /\ n[w] \in Int
      /\ acc[w] \in Seq([k : Int, n : Int, v : Int])
  BY DEF SlotIInv, TypeOK, TileTyped, ConsumersTyped, ResultsTyped
<1>1. nBlockMin < nBlockMax
  <2>1. pc[w] \in {"pv", "last_pv"}
    BY DEF DrainsV, DrainPV, DrainPrevPV, DrainLastPV
  <2> QED  BY <2>1 DEF CtaInv, QInv, EpiloguePCs, WorkIsReal
<1>2. BuffersInStep /\ GroupInStep(w)
  BY <1>1 DEF StepInv
<1>3. /\ nBlockMax - 1 - d = Block(d) /\ d \in Nat
      /\ acc' = [acc EXCEPT ![w] = Append(@, [k |-> Block(d), n |-> Block(d), v |-> Block(d)])]
  <2>1. acc' = [acc EXCEPT ![w] = Append(@, [k |-> Block(d), n |-> Block(d), v |-> Block(d)])]
    BY <1>1, <1>2, AccumulatesNext
  <2>2. nBlockMax - 1 - d = Block(d) /\ d \in Nat
    BY <1>0 DEF Block
  <2> QED  BY <2>1, <2>2
<1>4. ~(d >= nBlockMax - nBlockMin)
  <2>1. nBlockMin <= Block(d)
    <3>1. \/ n[w] = Block(d) \/ n[w] = Block(d) - 1 \/ Block(d) = nBlockMin
      BY <1>2 DEF DrainsV, DrainPV, DrainPrevPV, DrainLastPV, GroupInStep
    <3>2. nBlockMin <= n[w]
      BY <1>2 DEF GroupInStep
    <3> HIDE DEF d
    <3> QED  BY <1>0, <1>3, <3>1, <3>2
  <2> HIDE DEF d
  <2> QED  BY <1>0, <1>3, <2>1
<1>5. UNCHANGED <<nBlockMin, nBlockMax, stored>>
  BY DEF DrainsV, DrainPV, DrainPrevPV, DrainLastPV, tileVars, outVars
<1> QED  BY <1>3, <1>4, <1>5 DEF Tile!Accumulate, Tile!Finished

\* The epilogue's store comes after everybody's last block, and stores what has
\* been written.
LEMMA StoreStores ==
  ASSUME SlotIInv, CtaInv, StepInv, WorkIsReal, NEW w \in WG, StoreO(w)
  PROVE  Tile!Store
<1>0. /\ TypeOK /\ nBlockMin \in Int /\ nBlockMax \in Int
      /\ acc \in [WG -> Seq([k : Int, n : Int, v : Int])]
      /\ sO \in [WG -> BOOLEAN] /\ stored \in [WG -> BOOLEAN]
  BY DEF SlotIInv, TypeOK, TileTyped, ResultsTyped
<1>1. \A v \in WG : pc[v] \in {"store_o", "done"}
  BY DEF StoreO
<1>2. ASSUME NEW v \in WG PROVE Tile!Finished(v)
  <2>1. Len(acc[v]) \in Nat
    BY <1>0
  <2>2. CASE nBlockMin < nBlockMax
    <3>1. Len(acc[v]) = nBlockMax - nBlockMin
      BY <1>1, <2>2 DEF StepInv, GroupInStep, EpiloguePCs
    <3> QED  BY <2>1, <3>1 DEF Tile!Finished
  <2>3. CASE ~(nBlockMin < nBlockMax)
    BY <1>0, <2>1, <2>3 DEF Tile!Finished
  <2> QED  BY <2>2, <2>3
<1>3. sO = [u \in WG |-> TRUE]
  <2>1. \A u \in WG : sO[u]
    BY <1>1 DEF CtaInv, EpilogueInv
  <2>2. \A u \in WG : sO[u] = TRUE
    BY <1>0, <2>1
  <2> QED  BY <1>0, <2>2
<1>4. \E W \in SUBSET WG : stored' = [v \in WG |-> stored[v] \/ v \in W]
  <2> DEFINE W == IF UseTmaO THEN WG ELSE {w}
  <2>1. stored' = [v \in WG |-> IF UseTmaO \/ v = w THEN TRUE ELSE stored[v]]
    BY <1>3 DEF StoreO
  <2>2. \A v \in WG : (IF UseTmaO \/ v = w THEN TRUE ELSE stored[v]) = (stored[v] \/ v \in W)
    BY <1>0, Zenon
  <2>3. stored' = [v \in WG |-> stored[v] \/ v \in W]
    BY <2>1, <2>2, Zenon
  <2>4. W \in SUBSET WG
    OBVIOUS
  <2> QED  BY <2>3, <2>4
<1>5. UNCHANGED <<nBlockMin, nBlockMax, acc>>
  BY DEF StoreO, tileVars, regVars
<1> QED  BY <1>2, <1>4, <1>5 DEF Tile!Store

\* Every other step of a warp group stutters.
LEMMA OthersStutter ==
  ASSUME NEW w \in WG, WarpGroup(w), ~DrainsV(w), ~StoreO(w)
  PROVE  UNCHANGED Tile!vars
BY DEF WarpGroup, DrainsV, WaitQ, EmptySplit, ReleaseQ, FirstSync, IssueQK, PassTurn, DrainQK,
   WaitV, IssuePV, FirstQK, DrainFirstQK, WaitNextK, IssueNextQK, IssuePrevPV, DrainNextQK,
   LastPV, EpilogueBarrier, WriteSmemO, tileVars, regVars, outVars, Tile!vars

\* The CTA is a correct AttentionTile, for every number of stages and of warp
\* groups, either mainloop, either epilogue and every tile with work: each warp
\* group folds in each block once, newest first, with its own scores, mask and
\* V, and only then are rows stored.  That it ends is left to TLC.
THEOREM CtaIsTile == ASSUME TilesHaveWork PROVE Spec => Tile!Safety
<1>1. Init => Tile!Init /\ WorkIsReal
  <2> SUFFICES ASSUME Init PROVE Tile!Init /\ WorkIsReal
    OBVIOUS
  <2>1. nBlockMin \in Nat /\ nBlockMax \in Int
    BY TypeInit DEF TypeOK, TileTyped
  <2> QED  BY <2>1 DEF Init, Tile!Init, WorkIsReal, TilesHaveWork, HasWork
<1>2. SlotIInv /\ CtaInv /\ StepInv /\ WorkIsReal /\ [Next]_vars => [Tile!Next]_(Tile!vars) /\ WorkIsReal'
  <2> SUFFICES ASSUME SlotIInv, CtaInv, StepInv, WorkIsReal, [Next]_vars
               PROVE  [Tile!Next]_(Tile!vars) /\ WorkIsReal'
    OBVIOUS
  <2>1. UNCHANGED <<nBlockMin, nBlockMax>>
    <3>1. ASSUME NEW w \in WG, WarpGroup(w) PROVE UNCHANGED <<nBlockMin, nBlockMax>>
      BY <3>1, StepAlone DEF Alone, SlotIInv
    <3> QED  BY <3>1, ProducerFrame DEF Next, Exited, vars, OffGroups
  <2>2. ASSUME NEW w \in WG, WarpGroup(w) PROVE [Tile!Next]_(Tile!vars)
    BY <2>2, DrainAccumulates, StoreStores, OthersStutter DEF Tile!Next
  <2>3. ASSUME ~(\E w \in WG : WarpGroup(w)) PROVE [Tile!Next]_(Tile!vars)
    BY <2>3, ProducerFrame DEF Next, Exited, vars, OffGroups, Tile!vars
  <2> QED  BY <2>1, <2>2, <2>3 DEF WorkIsReal, HasWork
<1> QED  BY <1>1, <1>2, StepAlways, PTL DEF Spec, Tile!Safety

============================================================================
