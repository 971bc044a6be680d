---------------------------- MODULE Dispatch_proof ----------------------------
(***************************************************************************)
(* Proofs about the dispatch, for any process and any number of calls.     *)
(*                                                                         *)
(* CacheTransparent is an induction on the calls: what the caches hold was *)
(* built for a call of this process, under that call's key (CacheInv), and *)
(* two calls with the same key are built the same kernel.  The last is     *)
(* five lemmas, one per cache.  For the kernels whose keys leave out what  *)
(* they are built for (is_local, the type of the partials, the class, the  *)
(* semaphore) the lemma shows that the rest of the key determines it.      *)
(*                                                                         *)
(* LaunchesAgree then is arithmetic on one call's locals, an invariant on  *)
(* what has run when the next kernel starts (AgreeInv), and what a kernel  *)
(* in the cache was not refused for when it was built.                     *)
(***************************************************************************)
EXTENDS Dispatch, TLAPS

\* No caller in the repository gives a mask_mod with a bias; the key of ShearingBias
\* would not tell its window from one without (interface.py:786).
BiasUnmasked == \A c \in Calls : c.bias = "rel" => ~c.mask

\* What an entry of a cache was built for: a call that gets to that stage.
MadeFor(stage, e, c) ==
  LET p == Locals(c) IN
  CASE stage = "prepare"  -> e.key = PrepareKey(c, p) /\ e.kernel = PrepareKernel(c, p)
    [] stage = "shear"    -> c.bias = "rel" /\ e.key = ShearKey(c, p) /\ e.kernel = ShearKernel(c, p)
    [] stage = "schedule" -> e.key = ScheduleKey(c, p) /\ e.kernel = ScheduleKernel(c, p)
    [] stage = "forward"  -> /\ e.key = ForwardKey(c, p) /\ e.kernel = ForwardKernel(c, p)
                             /\ ~BuildRefused(c, p)
    [] stage = "combine"  -> e.key = CombineKey(c, p) /\ e.kernel = CombineKernel(c, p)

CacheInv == \A s \in Stages : \A e \in cache[s] : \E c \in Calls : MadeFor(s, e, c)

-----------------------------------------------------------------------------
(* The keys determine the kernels.                                         *)

LEMMA LocalIsAWindow ==
  ASSUME NEW causal, NEW left, NEW right, NEW mask \in BOOLEAN
  PROVE  LET w == ResolveWindow(causal, left, right, mask)
         IN  w.local = (~mask /\ (w.left # None \/ w.right # None))
BY DEF ResolveWindow

LEMMA LocalOf ==
  ASSUME NEW c \in Calls
  PROVE  Locals(c).local = (~c.mask /\ (Locals(c).left # None \/ Locals(c).right # None))
<1>1. c.mask \in BOOLEAN
  BY DispatchAssumption DEF IsCall
<1> DEFINE w == ResolveWindow(c.causal, c.left, c.right, c.mask)
<1>2. Locals(c).local = w.local /\ Locals(c).left = w.left /\ Locals(c).right = w.right
  BY DEF Locals
<1>3. w.local = (~c.mask /\ (w.left # None \/ w.right # None))
  BY <1>1, LocalIsAWindow
<1> QED  BY <1>2, <1>3

LEMMA PrepareKeyed ==
  ASSUME NEW c \in Calls, NEW d \in Calls, PrepareKey(c, Locals(c)) = PrepareKey(d, Locals(d))
  PROVE  PrepareKernel(c, Locals(c)) = PrepareKernel(d, Locals(d))
BY DEF PrepareKey, PrepareKernel

LEMMA ShearKeyed ==
  ASSUME NEW c \in Calls, NEW d \in Calls, ~c.mask, ~d.mask,
         ShearKey(c, Locals(c)) = ShearKey(d, Locals(d))
  PROVE  ShearKernel(c, Locals(c)) = ShearKernel(d, Locals(d))
<1> DEFINE p == Locals(c)  q == Locals(d)
<1>1. p.local = (p.left # None \/ p.right # None) /\ q.local = (q.left # None \/ q.right # None)
  BY LocalOf
<1> HIDE DEF p, q
<1>2. /\ p.extent = q.extent /\ p.causal = q.causal /\ (p.left # None) = (q.left # None)
      /\ (p.right # None) = (q.right # None) /\ c.cuQ = d.cuQ /\ c.cuK = d.cuK /\ c.usedK = d.usedK
      /\ p.pack = q.pack /\ c.heads = d.heads /\ p.leOne = q.leOne
      /\ UsesBlockLists(c, p) = UsesBlockLists(d, q)
  BY DEF p, q, ShearKey
<1>3. p.local = q.local
  BY <1>1, <1>2
<1>4. ShearKernel(c, p) = ShearKernel(d, q)
  BY <1>2, <1>3 DEF ShearKernel
<1> QED  BY <1>4 DEF p, q

LEMMA ScheduleKeyed ==
  ASSUME NEW c \in Calls, NEW d \in Calls, ScheduleKey(c, Locals(c)) = ScheduleKey(d, Locals(d))
  PROVE  ScheduleKernel(c, Locals(c)) = ScheduleKernel(d, Locals(d))
<1> DEFINE p == Locals(c)  q == Locals(d)
<1> HIDE DEF p, q
<1>1. ScheduleKey(c, p) = ScheduleKey(d, q)
  BY DEF p, q
<1>2. ScheduleKernel(c, p) = ScheduleKernel(d, q)
  BY <1>1 DEF ScheduleKey, ScheduleKernel
<1> QED  BY <1>2 DEF p, q

LEMMA CombineKeyed ==
  ASSUME NEW c \in Calls, NEW d \in Calls, CombineKey(c, Locals(c)) = CombineKey(d, Locals(d))
  PROVE  CombineKernel(c, Locals(c)) = CombineKernel(d, Locals(d))
<1> DEFINE p == Locals(c)  q == Locals(d)
<1> HIDE DEF p, q
<1>1. CombineKey(c, p) = CombineKey(d, q)
  BY DEF p, q
<1>2. CombineKernel(c, p) = CombineKernel(d, q)
  BY <1>1 DEF CombineKey, CombineKernel
<1> QED  BY <1>2 DEF p, q

\* The class and the type of the partials follow from what is in the key.
LEMMA ForwardKeyed ==
  ASSUME NEW c \in Calls, NEW d \in Calls, ForwardKey(c, Locals(c)) = ForwardKey(d, Locals(d))
  PROVE  /\ ForwardKernel(c, Locals(c)) = ForwardKernel(d, Locals(d))
         /\ Class(c, Locals(c)) = Class(d, Locals(d))
<1> DEFINE p == Locals(c)  q == Locals(d)
<1>1. /\ p.local = (~c.mask /\ (p.left # None \/ p.right # None))
      /\ q.local = (~d.mask /\ (q.left # None \/ q.right # None))
  BY LocalOf
<1>2. /\ p.hd256 = (c.arch = 100 /\ c.dim = <<256, 256>>) /\ q.hd256 = (d.arch = 100 /\ d.dim = <<256, 256>>)
      /\ p.partial = (IF c.arch = 90 THEN "own" ELSE "float32") /\ q.partial = (IF d.arch = 90 THEN "own" ELSE "float32")
  BY DEF Locals
<1> HIDE DEF p, q
<1>3. ForwardKey(c, p) = ForwardKey(d, q)
  BY DEF p, q
<1>4. /\ c.dim = d.dim /\ c.heads = d.heads /\ p.causal = q.causal /\ c.score = d.score /\ c.mask = d.mask
      /\ c.sparse = d.sparse /\ c.lse = d.lse /\ c.max = d.max /\ c.cuQ = d.cuQ /\ c.cuK = d.cuK
      /\ c.usedK = d.usedK /\ (c.page # None) = (d.page # None) /\ (p.left # None) = (q.left # None)
      /\ (p.right # None) = (q.right # None) /\ c.sink = d.sink
  BY <1>3 DEF ForwardKey
<1>5. /\ p.tileM = q.tileM /\ p.tileN = q.tileN /\ p.qStage = q.qStage /\ p.threads = q.threads
      /\ p.split = q.split /\ p.pack = q.pack /\ c.arch = d.arch /\ p.pagedNonTma = q.pagedNonTma
      /\ p.twoCta = q.twoCta /\ p.rs = q.rs /\ p.overlap = q.overlap /\ p.clc = q.clc
      /\ HasBias(c) = HasBias(d) /\ p.tileBias = q.tileBias /\ p.extent = q.extent
      /\ HasMeta(c, p) = HasMeta(d, q) /\ p.persistent = q.persistent
  BY <1>3 DEF ForwardKey
<1>6. p.local = q.local
  BY <1>1, <1>4
<1>7. p.hd256 = q.hd256 /\ p.partial = q.partial
  BY <1>2, <1>4, <1>5
<1>8. Class(c, p) = Class(d, q)
  BY <1>5, <1>7 DEF Class
<1>9. CountsTiles(c, p) = CountsTiles(d, q)
  BY <1>4, <1>5, <1>8 DEF CountsTiles
<1>10. ForwardKernel(c, p) = ForwardKernel(d, q)
  BY <1>4, <1>5, <1>6, <1>7, <1>8, <1>9 DEF ForwardKernel
<1> QED  BY <1>8, <1>10 DEF p, q

-----------------------------------------------------------------------------
(* The caches.                                                             *)

\* The key and the kernel of a stage of the current call.
KeyAt(stage) ==
  CASE stage = "prepare" -> PrepareKey(call, plan) [] stage = "shear" -> ShearKey(call, plan)
    [] stage = "schedule" -> ScheduleKey(call, plan) [] stage = "forward" -> ForwardKey(call, plan)
    [] stage = "combine" -> CombineKey(call, plan)
KernelAt(stage) ==
  CASE stage = "prepare" -> PrepareKernel(call, plan) [] stage = "shear" -> ShearKernel(call, plan)
    [] stage = "schedule" -> ScheduleKernel(call, plan) [] stage = "forward" -> ForwardKernel(call, plan)
    [] stage = "combine" -> CombineKernel(call, plan)

\* What a call has launched is what a fresh process would have built for it.
UsedInv == \A s \in Stages : used[s] # None => used[s] = KernelAt(s)

\* The locals are those of the call, once there has been one.
PlanInv ==
  /\ (call \in Calls /\ plan = Locals(call)) \/ (pc = "idle" /\ used = NoKernel)
  /\ pc \in {"prepare", "shear"} => call.bias = "rel"

TableInv == cache = [s \in Stages |-> cache[s]] /\ used = [s \in Stages |-> used[s]]

DispatchInv == TableInv /\ CacheInv /\ PlanInv /\ UsedInv

\* A cached kernel under the call's key is the one the call would build.
LEMMA FoundIsFresh ==
  ASSUME BiasUnmasked, CacheInv, call \in Calls, plan = Locals(call), NEW s \in Stages,
         s = "shear" => call.bias = "rel", NEW e \in cache[s], e.key = KeyAt(s)
  PROVE  e.kernel = KernelAt(s)
<1>1. PICK c \in Calls : MadeFor(s, e, c)
  BY DEF CacheInv
<1>2. CASE s = "prepare"
  BY <1>1, <1>2, PrepareKeyed DEF MadeFor, KeyAt, KernelAt
<1>3. CASE s = "shear"
  <2>1. c.bias = "rel" /\ e.key = ShearKey(c, Locals(c)) /\ e.kernel = ShearKernel(c, Locals(c))
    BY <1>1, <1>3 DEF MadeFor
  <2>2. ~c.mask /\ ~call.mask
    BY <2>1, <1>3 DEF BiasUnmasked
  <2>3. e.key = ShearKey(call, Locals(call)) /\ KernelAt(s) = ShearKernel(call, Locals(call))
    BY <1>3 DEF KeyAt, KernelAt
  <2> QED  BY <2>1, <2>2, <2>3, ShearKeyed
<1>4. CASE s = "schedule"
  BY <1>1, <1>4, ScheduleKeyed DEF MadeFor, KeyAt, KernelAt
<1>5. CASE s = "forward"
  BY <1>1, <1>5, ForwardKeyed DEF MadeFor, KeyAt, KernelAt
<1>6. CASE s = "combine"
  BY <1>1, <1>6, CombineKeyed DEF MadeFor, KeyAt, KernelAt
<1> QED  BY <1>2, <1>3, <1>4, <1>5, <1>6 DEF Stages

\* A stage launches the call's kernel, found or built, and caches it for its key.
LEMMA LaunchStep ==
  ASSUME BiasUnmasked, TableInv, CacheInv, call \in Calls, plan = Locals(call), NEW s \in Stages,
         s = "shear" => call.bias = "rel", Launch(s, KeyAt(s), KernelAt(s)),
         s = "forward" /\ Entry(s, KeyAt(s)) = {} => ~BuildRefused(call, plan)
  PROVE  /\ TableInv' /\ CacheInv'
         /\ used' = [used EXCEPT ![s] = IF call.fake THEN None ELSE KernelAt(s)]
<1> DEFINE found == Entry(s, KeyAt(s))
           k == IF found = {} THEN KernelAt(s) ELSE (CHOOSE e \in found : TRUE).kernel
           new == [key |-> KeyAt(s), kernel |-> KernelAt(s)]
<1>1. /\ cache' = [cache EXCEPT ![s] = @ \cup {[key |-> KeyAt(s), kernel |-> k]}]
      /\ used' = [used EXCEPT ![s] = IF call.fake THEN None ELSE k]
  BY DEF Launch
<1>2. k = KernelAt(s)
  <2>1. CASE found # {}
    <3>1. PICK e \in found : e = CHOOSE x \in found : TRUE
      BY <2>1
    <3>2. e \in cache[s] /\ e.key = KeyAt(s)
      BY DEF Entry
    <3> QED  BY <2>1, <3>1, <3>2, FoundIsFresh
  <2> QED  BY <2>1
<1>3. \E c \in Calls : MadeFor(s, new, c)
  <2>1. CASE s = "forward" /\ found # {}
    <3>1. PICK e \in cache[s] : e.key = KeyAt(s)
      BY <2>1 DEF Entry
    <3>2. PICK c \in Calls : MadeFor(s, e, c)
      BY <3>1 DEF CacheInv
    <3>3. e.kernel = KernelAt(s)
      BY <3>1, FoundIsFresh
    <3>4. new.key = e.key /\ new.kernel = e.kernel
      BY <3>1, <3>3
    <3> HIDE DEF new
    <3>5. MadeFor(s, new, c)
      BY <2>1, <3>2, <3>4 DEF MadeFor
    <3> QED  BY <3>5
  <2>2. CASE ~(s = "forward" /\ found # {})
    <3>1. new.key = KeyAt(s) /\ new.kernel = KernelAt(s)
      OBVIOUS
    <3>2. s = "forward" => ~BuildRefused(call, plan)
      BY <2>2
    <3> HIDE DEF new
    <3>3. MadeFor(s, new, call)
      BY <3>1, <3>2 DEF MadeFor, KeyAt, KernelAt, Stages
    <3> QED  BY <3>3
  <2> QED  BY <2>1, <2>2
<1> HIDE DEF k, found
<1>4. cache' = [cache EXCEPT ![s] = cache[s] \cup {new}]
  BY <1>1, <1>2
<1>5. TableInv'
  BY <1>1, <1>4 DEF TableInv
<1>6. CacheInv'
  <2> HIDE DEF new
  <2> SUFFICES ASSUME NEW r \in Stages, NEW e \in cache'[r] PROVE \E c \in Calls : MadeFor(r, e, c)
    BY DEF CacheInv, MadeFor
  <2>1. e \in cache[r] \/ (r = s /\ e = new)
    BY <1>4 DEF TableInv
  <2> QED  BY <2>1, <1>3 DEF CacheInv
<1> QED  BY <1>1, <1>2, <1>5, <1>6

\* So a stage of the call keeps the invariant, if it is followed by one that is
\* after it, or by the end.
LEMMA StageStep ==
  ASSUME BiasUnmasked, DispatchInv, pc # "idle", NEW s \in Stages,
         s = "shear" => call.bias = "rel", Launch(s, KeyAt(s), KernelAt(s)),
         s = "forward" /\ Entry(s, KeyAt(s)) = {} => ~BuildRefused(call, plan),
         UNCHANGED <<call, plan>>, pc' \in {"prepare", "shear"} => call.bias = "rel"
  PROVE  DispatchInv'
<1>1. call \in Calls /\ plan = Locals(call)
  BY DEF DispatchInv, PlanInv
<1>2. TableInv' /\ CacheInv' /\ used' = [used EXCEPT ![s] = IF call.fake THEN None ELSE KernelAt(s)]
  BY <1>1, LaunchStep DEF DispatchInv
<1>3. PlanInv'
  BY <1>1 DEF PlanInv
<1>4. \A r \in Stages : KernelAt(r)' = KernelAt(r)
  BY DEF KernelAt
<1>5. UsedInv'
  <2> SUFFICES ASSUME NEW r \in Stages, used'[r] # None PROVE used'[r] = KernelAt(r)
    BY <1>4 DEF UsedInv
  <2>1. CASE r = s
    BY <2>1, <1>2 DEF DispatchInv, TableInv
  <2>2. CASE r # s
    BY <2>2, <1>2 DEF DispatchInv, TableInv, UsedInv
  <2> QED  BY <2>1, <2>2
<1> QED  BY <1>2, <1>3, <1>5 DEF DispatchInv

LEMMA DispatchInit == Init => DispatchInv
<1> SUFFICES ASSUME Init PROVE DispatchInv
  OBVIOUS
<1>1. cache = [s \in Stages |-> {}] /\ used = NoKernel /\ pc = "idle"
  BY DEF Init
<1>2. TableInv
  BY <1>1 DEF TableInv, NoKernel
<1>3. CacheInv
  BY <1>1 DEF CacheInv
<1>4. UsedInv
  BY <1>1 DEF UsedInv, NoKernel
<1> QED  BY <1>1, <1>2, <1>3, <1>4 DEF DispatchInv, PlanInv

LEMMA BeginStep ==
  ASSUME DispatchInv, NEW c \in Calls, Begin(c)
  PROVE  DispatchInv'
<1>1. /\ call' = c /\ plan' = Locals(c) /\ used' = NoKernel /\ cache' = cache
  BY DEF Begin
<1>2. pc' \in {"prepare", "shear"} => c.bias = "rel"
  BY DEF Begin, UsesBlockLists
<1>3. TableInv' /\ CacheInv'
  BY <1>1 DEF DispatchInv, TableInv, CacheInv, NoKernel
<1>4. UsedInv'
  BY <1>1 DEF UsedInv, NoKernel
<1> QED  BY <1>1, <1>2, <1>3, <1>4 DEF DispatchInv, PlanInv

\* A step that launches nothing.
LEMMA NoLaunchStep ==
  ASSUME DispatchInv, UNCHANGED <<cache, used, call, plan>>, pc # "idle",
         pc' \in {"prepare", "shear"} => call.bias = "rel"
  PROVE  DispatchInv'
<1>1. TableInv' /\ CacheInv'
  BY DEF DispatchInv, TableInv, CacheInv
<1>2. UsedInv'
  BY DEF DispatchInv, UsedInv, KernelAt
<1> QED  BY <1>1, <1>2 DEF DispatchInv, PlanInv

LEMMA DispatchNext == BiasUnmasked /\ DispatchInv /\ [Next]_vars => DispatchInv'
<1> SUFFICES ASSUME BiasUnmasked, DispatchInv, [Next]_vars PROVE DispatchInv'
  OBVIOUS
<1>1. CASE UNCHANGED vars
  BY <1>1 DEF vars, DispatchInv, TableInv, CacheInv, PlanInv, UsedInv, KernelAt
<1>2. ASSUME NEW c \in Calls, Begin(c) PROVE DispatchInv'
  BY <1>2, BeginStep
<1>3. CASE Prepare
  <2>1. /\ pc # "idle" /\ UNCHANGED <<call, plan>> /\ Launch("prepare", KeyAt("prepare"), KernelAt("prepare"))
    BY <1>3 DEF Prepare, KeyAt, KernelAt
  <2>2. call.bias = "rel"
    BY <1>3 DEF Prepare, DispatchInv, PlanInv
  <2>3. "prepare" \in Stages
    BY DEF Stages
  <2> QED  BY <2>1, <2>2, <2>3, StageStep
<1>4. CASE Shear
  <2>1. /\ pc # "idle" /\ UNCHANGED <<call, plan>> /\ Launch("shear", KeyAt("shear"), KernelAt("shear"))
    BY <1>4 DEF Shear, KeyAt, KernelAt
  <2>2. call.bias = "rel"
    BY <1>4 DEF Shear, DispatchInv, PlanInv
  <2>3. "shear" \in Stages
    BY DEF Stages
  <2> QED  BY <2>1, <2>2, <2>3, StageStep
<1>5. CASE Schedule
  <2>1. pc # "idle" /\ UNCHANGED <<call, plan>> /\ pc' = "forward"
    BY <1>5 DEF Schedule
  <2>2. CASE NeedsSchedule(call, plan)
    <3>1. Launch("schedule", KeyAt("schedule"), KernelAt("schedule")) /\ "schedule" \in Stages
      BY <1>5, <2>2 DEF Schedule, KeyAt, KernelAt, Stages
    <3> QED  BY <2>1, <3>1, StageStep
  <2>3. CASE ~NeedsSchedule(call, plan)
    BY <1>5, <2>1, <2>3, NoLaunchStep DEF Schedule
  <2> QED  BY <2>2, <2>3
<1>6. CASE Forward
  <2>1. /\ pc # "idle" /\ UNCHANGED <<call, plan>> /\ pc' \notin {"prepare", "shear"}
    BY <1>6 DEF Forward, Leave
  <2>2. CASE Entry("forward", ForwardKey(call, plan)) = {} /\ BuildRefused(call, plan)
    BY <1>6, <2>1, <2>2, NoLaunchStep DEF Forward
  <2>3. CASE ~(Entry("forward", ForwardKey(call, plan)) = {} /\ BuildRefused(call, plan))
    <3>1. /\ Launch("forward", KeyAt("forward"), KernelAt("forward")) /\ "forward" \in Stages
          /\ Entry("forward", KeyAt("forward")) = {} => ~BuildRefused(call, plan)
      BY <1>6, <2>3 DEF Forward, KeyAt, KernelAt, Stages
    <3> QED  BY <2>1, <3>1, StageStep
  <2> QED  BY <2>2, <2>3
<1>7. CASE Combine
  <2>1. /\ pc # "idle" /\ UNCHANGED <<call, plan>> /\ pc' = "idle"
    BY <1>7 DEF Combine, Leave
  <2>2. CASE plan.splits > MaxCombined
    BY <1>7, <2>1, <2>2, NoLaunchStep DEF Combine
  <2>3. CASE ~(plan.splits > MaxCombined)
    <3>1. Launch("combine", KeyAt("combine"), KernelAt("combine")) /\ "combine" \in Stages
      BY <1>7, <2>3 DEF Combine, KeyAt, KernelAt, Stages
    <3> QED  BY <2>1, <3>1, StageStep
  <2> QED  BY <2>2, <2>3
<1> QED  BY <1>1, <1>2, <1>3, <1>4, <1>5, <1>6, <1>7 DEF Next

\* Every kernel that a call launches is the one a fresh process would build for
\* it, after any calls before, if no bias comes with a mask_mod: the keys of the
\* compile caches determine what the kernels are built for.
THEOREM CachesAreTransparent == ASSUME BiasUnmasked PROVE Spec => []CacheTransparent
<1>1. DispatchInv => CacheTransparent
  BY DEF DispatchInv, UsedInv, CacheTransparent, KernelAt, Stages
<1>2. DispatchInv /\ [Next]_vars => DispatchInv'
  BY DispatchNext
<1> QED  BY <1>1, <1>2, DispatchInit, PTL DEF Spec

-----------------------------------------------------------------------------
(* The launches of one call fit each other.                                *)

\* What the serving layers, the harnesses and the API around them keep to, and the
\* code does not check: a bias comes without a mask_mod, without a pattern per head, in tiles
\* that divide 128 and not on head size 256 of sm_100; a bias that is already sheared
\* has a causal window or the one of a layer; with metadata of its own a caller asks for
\* no more splits than the combine kernel takes; head size 256 of sm_100 is not split.
Hd256Call(c) == c.arch = 100 /\ c.dim = <<256, 256>>
BiasAsServed(c) ==
  /\ ~c.mask /\ c.sparse # "perHead" /\ ~Hd256Call(c)
  /\ c.tile # None => 128 % c.tile[2] = 0
  /\ c.bias = "sheared" => IF c.left = None THEN c.causal ELSE c.left \in Nat /\ c.right \in Nat \cup {None}
AsServed ==
  \A c \in Calls : /\ HasBias(c) => BiasAsServed(c)
                   /\ c.meta => c.splits <= MaxCombined
                   /\ Hd256Call(c) => c.splits = 1

LEMMA LeastMost == \A a, b \in Int : /\ Least(a, b) \in {a, b} /\ Least(a, b) <= a /\ Least(a, b) <= b
                                     /\ Most(a, b) \in {a, b} /\ Most(a, b) >= a /\ Most(a, b) >= b
BY DEF Least, Most

LEMMA HeuristicBounded ==
  ASSUME NEW m \in Nat \ {0}, NEW b \in Int
  PROVE  SplitsHeuristic(m, b) \in Int /\ SplitsHeuristic(m, b) <= 128
<1>1. NumSMs \div m \in Int
  BY DispatchAssumption
<1> QED  BY <1>1, LeastMost DEF SplitsHeuristic

\* The tiles of sm_90 for a call without a bias.
LEMMA TileSm90In ==
  ASSUME NEW c, NEW w, IsCall(c)
  PROVE  LET t == TileSm90(c, w)
         IN  t.m \in Nat \ {0} /\ t.n \in Nat \ {0} /\ DOMAIN t = {"m", "n", "rs", "overlap"}
<1> DEFINE t == TileSm90(c, w)
           d == c.dim[1]
<1> SUFFICES t.m \in Nat \ {0} /\ t.n \in Nat \ {0} /\ DOMAIN t = {"m", "n", "rs", "overlap"}
  OBVIOUS
<1>1. d \in Nat
  BY DEF IsCall
<1>2. CASE d <= 64
  <2>1. t = Config(IF c.sparse # "none" THEN 128 ELSE 192, 128, TRUE, TRUE)
    BY <1>1, <1>2 DEF TileSm90, Config
  <2> HIDE DEF t
  <2> QED  BY <2>1 DEF Config
<1>3. CASE d > 64 /\ d <= 96
  <2>1. t = IF c.sparse # "none" THEN Config(128, 128, FALSE, TRUE)
            ELSE Config(192, IF w.causal \/ w.local THEN 128 ELSE 144, FALSE, TRUE)
    BY <1>1, <1>3 DEF TileSm90, Config
  <2> HIDE DEF t
  <2> QED  BY <2>1 DEF Config
<1>4. CASE d > 96 /\ d <= 128
  <2>1. t = Config(128, 128, TRUE, TRUE)
    BY <1>1, <1>4 DEF TileSm90, Config
  <2> HIDE DEF t
  <2> QED  BY <2>1 DEF Config
<1>5. CASE d > 128 /\ d <= 192
  <2>1. t = Config(128, IF w.local THEN 96 ELSE IF c.dim[2] <= 128 THEN 128 ELSE 112, TRUE, TRUE)
    BY <1>1, <1>5 DEF TileSm90, Config
  <2> HIDE DEF t
  <2> QED  BY <2>1 DEF Config
<1>6. CASE d > 192
  <2>1. t = Config(128, IF w.local THEN 64 ELSE 80, TRUE, TRUE)
    BY <1>1, <1>6 DEF TileSm90, Config
  <2> HIDE DEF t
  <2> QED  BY <2>1 DEF Config
<1> QED  BY <1>1, <1>2, <1>3, <1>4, <1>5, <1>6

\* The tiles, as far as the properties need them.
LEMMA TileOf ==
  ASSUME NEW c \in Calls, NEW w, w.local \in BOOLEAN, w.causal \in BOOLEAN
  PROVE  /\ Tile(c, w).m \in Nat \ {0} /\ Tile(c, w).n \in Nat \ {0}
         /\ HasBias(c) /\ (c.tile # None => 128 % c.tile[2] = 0) => 128 % Tile(c, w).n = 0
<1>0. IsCall(c)
  BY DispatchAssumption
<1> DEFINE bias90 == HasBias(c) /\ c.arch = 90
           tile == IF c.tile = None /\ bias90 THEN <<128, 128>> ELSE c.tile
           config == CASE tile # None -> Config(tile[1], tile[2], TRUE, TRUE)
                       [] tile = None /\ c.arch = 120 -> Config(128, IF c.dim[1] <= 64 THEN 128 ELSE 64, TRUE, TRUE)
                       [] tile = None /\ c.arch = 80 -> Config(128, IF c.q <= 32 THEN 32 ELSE 64, TRUE, TRUE)
                       [] tile = None /\ c.arch = 90 -> TileSm90(c, w)
                       [] OTHER -> Config(128, 128, TRUE, TRUE)
<1>1. /\ config.m \in Nat \ {0} /\ config.n \in Nat \ {0}
      /\ (HasBias(c) /\ (c.tile # None => 128 % c.tile[2] = 0)) => 128 % config.n = 0
      /\ DOMAIN config = {"m", "n", "rs", "overlap"}
  <2>0. 128 % 128 = 0 /\ 128 % 64 = 0 /\ 128 % 32 = 0
    OBVIOUS
  <2>1. CASE tile # None
    <3>1. config = Config(tile[1], tile[2], TRUE, TRUE)
      BY <2>1
    <3>2. CASE c.tile = None
      <4>1. tile[1] = 128 /\ tile[2] = 128
        BY <2>1, <3>2
      <4> HIDE DEF tile, config
      <4> QED  BY <2>0, <3>1, <3>2, <4>1 DEF Config
    <3>3. CASE c.tile # None
      <4>1. tile = c.tile /\ c.tile[1] \in Nat \ {0} /\ c.tile[2] \in Nat \ {0}
        BY <1>0, <3>3 DEF IsCall
      <4> HIDE DEF tile, config
      <4> QED  BY <3>1, <3>3, <4>1 DEF Config
    <3> QED  BY <3>2, <3>3
  <2>2. CASE tile = None
    <3>1. c.tile = None /\ ~bias90
      <4>1. <<128, 128>> # None
        BY DispatchAssumption
      <4> QED  BY <2>2, <4>1
    <3>2. CASE c.arch \in {80, 100, 120}
      <4> HIDE DEF tile
      <4> QED  BY <2>0, <2>2, <3>2 DEF Config
    <3>3. CASE c.arch = 90
      <4>1. config = TileSm90(c, w)
        <5>1. c.arch # 120 /\ c.arch # 80
          BY <3>3
        <5> HIDE DEF tile
        <5> QED  BY <2>2, <3>3, <5>1
      <4>2. ~HasBias(c)
        BY <3>1, <3>3
      <4>3. LET t == TileSm90(c, w) IN t.m \in Nat \ {0} /\ t.n \in Nat \ {0} /\ DOMAIN t = {"m", "n", "rs", "overlap"}
        BY <1>0, TileSm90In
      <4> HIDE DEF tile, config
      <4> QED  BY <4>1, <4>2, <4>3 DEF Config
    <3> QED  BY <1>0, <3>2, <3>3 DEF IsCall
  <2> QED  BY <2>1, <2>2
<1>2. Tile(c, w) = [config EXCEPT !.overlap = @ /\ ~bias90]
  BY DEF Tile
<1> HIDE DEF config
<1>3. Tile(c, w).m = config.m /\ Tile(c, w).n = config.n
  BY <1>1, <1>2
<1> QED  BY <1>1, <1>3

LEMMA WindowTyped ==
  ASSUME NEW c \in Calls
  PROVE  LET w == ResolveWindow(c.causal, c.left, c.right, c.mask)
         IN  /\ w.causal \in BOOLEAN /\ w.local \in BOOLEAN
             /\ w.left \in Int \cup {None} /\ w.right \in Int \cup {None}
<1> DEFINE r0 == IF c.causal THEN 0 ELSE c.right
           void == c.left # None /\ r0 # None /\ c.left + r0 < 0
           l == IF void THEN None ELSE c.left
           r == IF void THEN None ELSE r0
           w == ResolveWindow(c.causal, c.left, c.right, c.mask)
<1>1. c.left \in Int \cup {None} /\ c.right \in Int \cup {None} /\ c.causal \in BOOLEAN /\ c.mask \in BOOLEAN
  BY DispatchAssumption DEF IsCall
<1>2. l \in Int \cup {None} /\ r \in Int \cup {None}
  BY <1>1
<1>3. w \in {[causal |-> FALSE, local |-> FALSE, left |-> c.left, right |-> c.right],
              [causal |-> c.causal, local |-> FALSE, left |-> l, right |-> r],
              [causal |-> TRUE, local |-> FALSE, left |-> l, right |-> None],
              [causal |-> FALSE, local |-> TRUE, left |-> l, right |-> r]}
  BY DEF ResolveWindow
<1> HIDE DEF l, r, w
<1>4. w.causal \in BOOLEAN /\ w.local \in BOOLEAN /\ w.left \in Int \cup {None} /\ w.right \in Int \cup {None}
  <2>1. CASE w = [causal |-> FALSE, local |-> FALSE, left |-> c.left, right |-> c.right]
    BY <2>1, <1>1
  <2>2. CASE w = [causal |-> c.causal, local |-> FALSE, left |-> l, right |-> r]
    BY <2>2, <1>1, <1>2
  <2>3. CASE w = [causal |-> TRUE, local |-> FALSE, left |-> l, right |-> None]
    BY <2>3, <1>2
  <2>4. CASE w = [causal |-> FALSE, local |-> TRUE, left |-> l, right |-> r]
    BY <2>4, <1>2
  <2> QED  BY <1>3, <2>1, <2>2, <2>3, <2>4, Zenon
<1> QED  BY <1>4 DEF w

LEMMA SplitsBounded ==
  ASSUME NEW c \in Calls
  PROVE  LET p == Locals(c)
         IN  /\ p.splits \in Int /\ (c.splits <= MaxCombined => p.splits <= MaxCombined)
             /\ p.split <=> p.splits > 1
             /\ Hd256Call(c) /\ c.splits = 1 => ~p.split
<1> DEFINE w == ResolveWindow(c.causal, c.left, c.right, c.mask)
           tile == Tile(c, w)
           s == Splitting(c, w, tile)
<1>0. IsCall(c)
  BY DispatchAssumption
<1>1. tile.m \in Nat \ {0} /\ tile.n \in Nat \ {0} /\ w.local \in BOOLEAN
      /\ w.left \in Int \cup {None} /\ w.right \in Int \cup {None}
  BY TileOf, WindowTyped
<1> HIDE DEF w, tile
<1>2. KeysLoaded(c, w, tile) \in Int
  <2>1. c.k \in Int
    BY <1>0 DEF IsCall
  <2>2. Or(w.right, c.k) \in Int /\ Or(w.left, c.k) \in Int
    BY <1>1, <2>1 DEF Or
  <2> QED  BY <1>1, <2>1, <2>2, LeastMost DEF KeysLoaded
<1> DEFINE m == c.batch * c.kvHeads * CeilDiv(PackedRows(c), QStage(c, tile) * tile.m)
<1>3. m \in Nat \ {0}
  <2>1. PackedRows(c) \in Nat \ {0}
    BY <1>0 DEF IsCall, PackedRows
  <2>2. QStage(c, tile) * tile.m \in Nat \ {0}
    BY <1>1 DEF QStage
  <2>3. \A a, b \in Nat \ {0} : CeilDiv(a, b) \in Nat \ {0}
    BY DEF CeilDiv
  <2>4. c.batch * c.kvHeads \in Nat \ {0}
    BY <1>0 DEF IsCall
  <2>5. \A a, b \in Nat \ {0} : a * b \in Nat \ {0}
    OBVIOUS
  <2>6. CeilDiv(PackedRows(c), QStage(c, tile) * tile.m) \in Nat \ {0}
    BY <2>1, <2>2, <2>3
  <2> QED  BY <2>4, <2>5, <2>6
<1> HIDE DEF m
<1>4. \A n \in Nat \ {0} : CeilDiv(KeysLoaded(c, w, tile), n) \in Int
  BY <1>2 DEF CeilDiv
<1>5. \A n \in Nat \ {0} : LET h == SplitsHeuristic(m, CeilDiv(KeysLoaded(c, w, tile), n)) IN h \in Int /\ h <= 128
  BY <1>3, <1>4, HeuristicBounded
<1>6. /\ s.splits \in Int /\ (c.splits <= 256 => s.splits <= 256)
      /\ Hd256Call(c) /\ c.splits = 1 => s.splits = 1
  <2>1. c.splits \in Nat
    BY <1>0 DEF IsCall
  <2>2. CASE c.splits < 1
    BY <2>1, <2>2, <1>1, <1>5 DEF Splitting, m
  <2>3. CASE ~(c.splits < 1)
    BY <2>1, <2>3, <1>1, <1>5 DEF Splitting, m, Hd256Call
  <2> QED  BY <2>2, <2>3
<1> HIDE DEF s
<1>7. Locals(c).splits = s.splits /\ Locals(c).split = (s.splits > 1)
  BY DEF Locals, s, tile, w
<1>71. Locals(c).split <=> Locals(c).splits > 1
  BY <1>7
<1>8. 256 = MaxCombined
  BY DEF MaxCombined
<1>9. Locals(c).splits \in Int /\ (c.splits <= MaxCombined => Locals(c).splits <= MaxCombined)
  BY <1>6, <1>7, <1>8
<1>10. (Hd256Call(c) /\ c.splits = 1) => ~Locals(c).split
  <2> SUFFICES ASSUME Hd256Call(c), c.splits = 1 PROVE ~Locals(c).split
    OBVIOUS
  <2>1. s.splits = 1
    BY <1>6
  <2>2. Locals(c).splits = 1
    BY <2>1, <1>7
  <2> QED  BY <2>2, <1>71
<1> QED  BY <1>9, <1>71, <1>10

\* The combine kernel has room for every number of splits it takes.
LEMMA RoomForSplits ==
  ASSUME NEW c, NEW p, p.splits \in Int, p.splits > 1, p.splits <= MaxCombined
  PROVE  p.splits <= Power2[LogMaxSplits(c, p)]
<1> DEFINE n == p.splits  k == CeilLog2(n)
<1>1. /\ Power2[0] = 1 /\ Power2[1] = 2 /\ Power2[2] = 4 /\ Power2[3] = 8 /\ Power2[4] = 16
      /\ Power2[5] = 32 /\ Power2[6] = 64 /\ Power2[7] = 128 /\ Power2[8] = 256 /\ Power2[9] = 512
  BY DEF Power2
<1> HIDE DEF n
<1>2. n \in Int /\ n > 1 /\ n <= 256
  BY DEF n, MaxCombined
<1>3. \E j \in 0 .. 9 : Power2[j] >= n /\ (j = 0 \/ Power2[j - 1] < n)
  <2>1. n <= 2 \/ (n > 2 /\ n <= 4) \/ (n > 4 /\ n <= 8) \/ (n > 8 /\ n <= 16) \/ (n > 16 /\ n <= 32)
        \/ (n > 32 /\ n <= 64) \/ (n > 64 /\ n <= 128) \/ n > 128
    BY <1>2
  <2>2. /\ 2 - 1 = 1 /\ 3 - 1 = 2 /\ 4 - 1 = 3 /\ 5 - 1 = 4 /\ 6 - 1 = 5 /\ 7 - 1 = 6 /\ 8 - 1 = 7 /\ 1 - 1 = 0
        /\ {0, 1, 2, 3, 4, 5, 6, 7, 8} \subseteq 0 .. 9
    OBVIOUS
  <2> QED  BY <1>1, <1>2, <2>1, <2>2
<1>4. k \in 0 .. 9 /\ Power2[k] >= n
  BY <1>3 DEF CeilLog2
<1> HIDE DEF k
<1>5. \A j \in 0 .. 9 : /\ j < 4 => Power2[j] <= Power2[4]
                        /\ j < 5 => Power2[j] <= Power2[5]
  BY <1>1
<1>6. LogMaxSplits(c, p) = (IF k >= (IF CombineTile(c) = 8 THEN 5 ELSE 4) THEN k ELSE IF CombineTile(c) = 8 THEN 5 ELSE 4)
  BY DEF LogMaxSplits, Most, k, n
<1>7. \A j \in 0 .. 9 : Power2[j] \in Int
  BY <1>1
<1>8. n <= Power2[LogMaxSplits(c, p)]
  BY <1>1, <1>2, <1>4, <1>5, <1>6, <1>7
<1> QED  BY <1>8 DEF n

\* What happens in a call besides the caches: refused calls launch nothing; ShearingBias
\* runs before the kernel that reads its bias; kernels that cannot split are not
\* launched to split; and the caller's semaphore counts between the two halves of a
\* split only.
Running == pc # "idle" \/ used # NoKernel
ForwardReady == pc = "combine" \/ used["combine"] # None
AgreeInv ==
  /\ pc \in {"idle", "prepare", "shear", "schedule", "forward", "combine"}
  /\ Running => call \in Calls /\ plan = Locals(call) /\ ~Refused(call, plan)
  /\ \A s \in Stages : used[s] # None => ~call.fake
  /\ (pc \in {"schedule", "forward", "combine"} \/ used["forward"] # None) /\ call.bias = "rel" =>
       used["shear"] = IF call.fake THEN None ELSE ShearKernel(call, plan)
  /\ ForwardReady => /\ plan.split /\ Class(call, plan) \notin {"Sm80", "Sm120"}
                     /\ used["forward"] = IF call.fake THEN None ELSE ForwardKernel(call, plan)
  /\ used["combine"] # None => plan.splits <= MaxCombined
  /\ sem \in {"zero", "counted"}
  /\ sem = "counted" => pc = "combine" /\ call.meta /\ HasMeta(call, plan)

\* The kernels agree, given what has been launched.
LEMMA BiasFits ==
  ASSUME NEW c \in Calls, HasBias(c), BiasAsServed(c), ~Refused(c, Locals(c))
  PROVE  LET p == Locals(c)
             k == ForwardKernel(c, p)
         IN  /\ c.bias = "sheared" => FusedGeometry(c) = [pack |-> k.pack, causal |-> k.causal, local |-> k.local, extent |-> k.extent]
             /\ k.pack = p.pack /\ k.causal = p.causal /\ k.local = p.local /\ k.extent = p.extent /\ k.heads = c.heads
             /\ p.packedHeads = IF p.pack THEN c.heads ELSE 1
             /\ k.class # "Sm100" => ~k.pack
             /\ k.m = 128 /\ 128 % k.n = 0
<1> DEFINE p == Locals(c)
           w == ResolveWindow(c.causal, c.left, c.right, c.mask)
           tile == Tile(c, w)
<1>0. IsCall(c) /\ c.bias \in {"rel", "sheared"}
  BY DispatchAssumption DEF IsCall, HasBias
<1>1. /\ p.causal = w.causal /\ p.local = w.local /\ p.left = w.left /\ p.right = w.right
      /\ p.tileM = tile.m /\ p.tileN = Splitting(c, w, tile).n
      /\ p.pack = (PackGqa(c) /\ c.sparse # "perHead") /\ p.packedHeads = (IF PackGqa(c) THEN c.heads ELSE 1)
      /\ p.hd256 = Hd256Call(c) /\ p.extent = c.extent
  BY DEF Locals, Hd256Call
<1>2. 128 % tile.n = 0
  BY TileOf, WindowTyped DEF BiasAsServed
<1>3. p.tileM = 128 /\ (c.arch = 100 => p.tileN = 128) /\ (c.bias = "sheared" => ~p.pack)
  BY DEF Refused, BiasRefused
<1>4. 128 % p.tileN = 0
  <2>1. CASE c.arch = 100
    BY <2>1, <1>3
  <2>2. CASE c.arch # 100
    <3>1. Splitting(c, w, tile).n = tile.n
      BY <2>2 DEF Splitting
    <3> QED  BY <3>1, <1>1, <1>2
  <2> QED  BY <2>1, <2>2
<1>5. Class(c, p) = "Sm100" \/ ~PackGqa(c)
  <2>1. c.arch = 100 => Class(c, p) = "Sm100"
    BY <1>1 DEF Class, BiasAsServed
  <2>2. c.arch # 100 => ~PackGqa(c)
    BY <1>0 DEF PackGqa, IsCall
  <2> QED  BY <2>1, <2>2
<1>6. c.bias = "sheared" => /\ w.causal = (c.left = None) /\ w.local = (c.left # None)
  <2> SUFFICES ASSUME c.bias = "sheared" PROVE w.causal = (c.left = None) /\ w.local = (c.left # None)
    OBVIOUS
  <2>0. ~c.mask /\ None \notin Int /\ c.causal \in BOOLEAN
    BY <1>0, DispatchAssumption DEF BiasAsServed, IsCall
  <2>1. CASE c.left = None
    <3>1. c.causal
      BY <2>1 DEF BiasAsServed
    <3>2. w = [causal |-> TRUE, local |-> FALSE, left |-> None, right |-> None]
      BY <2>0, <2>1, <3>1 DEF ResolveWindow
    <3> HIDE DEF w
    <3> QED  BY <2>1, <3>2
  <2>2. CASE c.left # None
    <3>1. c.left \in Nat /\ c.right \in Nat \cup {None}
      BY <2>2 DEF BiasAsServed
    <3> DEFINE r0 == IF c.causal THEN 0 ELSE c.right
    <3>2. ~(c.left # None /\ r0 # None /\ c.left + r0 < 0)
      BY <2>0, <3>1
    <3>3. w = [causal |-> FALSE, local |-> TRUE, left |-> c.left, right |-> r0]
      BY <2>0, <2>2, <3>2 DEF ResolveWindow
    <3> HIDE DEF w
    <3> QED  BY <2>2, <3>3
  <2> QED  BY <2>1, <2>2
<1> HIDE DEF p, w, tile
<1>7. p.pack = PackGqa(c) /\ PackGqa(c) \in BOOLEAN
  <2>1. PackGqa(c) \in BOOLEAN
    BY DEF PackGqa
  <2>2. p.pack = (PackGqa(c) /\ c.sparse # "perHead")
    BY <1>1
  <2>3. c.sparse # "perHead"
    BY DEF BiasAsServed
  <2> QED  BY <2>1, <2>2, <2>3, Zenon
<1> DEFINE k == ForwardKernel(c, p)
<1>8. /\ k.pack = (p.pack /\ Class(c, p) \in {"Sm90", "Sm100"}) /\ k.causal = p.causal /\ k.local = p.local
      /\ k.extent = p.extent /\ k.heads = c.heads /\ k.class = Class(c, p) /\ k.m = p.tileM /\ k.n = p.tileN
  BY DEF ForwardKernel
<1>9. k.pack = p.pack
  <2>1. k.pack = (p.pack /\ Class(c, p) \in {"Sm90", "Sm100"})
    BY <1>8
  <2>2. Class(c, p) \in {"Sm90", "Sm100"} \/ ~p.pack
    BY <1>5, <1>7
  <2>3. p.pack = TRUE \/ p.pack = FALSE
    BY <1>7
  <2> HIDE DEF k
  <2>4. CASE p.pack = TRUE
    BY <2>1, <2>2, <2>4
  <2>5. CASE p.pack = FALSE
    BY <2>1, <2>5
  <2> QED  BY <2>3, <2>4, <2>5
<1> HIDE DEF k
<1>10. c.bias = "sheared" => FusedGeometry(c) = [pack |-> k.pack, causal |-> k.causal, local |-> k.local, extent |-> k.extent]
  <2> SUFFICES ASSUME c.bias = "sheared"
               PROVE  FusedGeometry(c) = [pack |-> k.pack, causal |-> k.causal, local |-> k.local, extent |-> k.extent]
    OBVIOUS
  <2>1. k.pack = FALSE
    BY <1>3, <1>7, <1>9
  <2>2. k.causal = (c.left = None) /\ k.local = (c.left # None) /\ k.extent = c.extent
    BY <1>1, <1>6, <1>8
  <2> HIDE DEF k
  <2> QED  BY <2>1, <2>2 DEF FusedGeometry
<1>11. p.packedHeads = IF p.pack THEN c.heads ELSE 1
  <2>1. p.packedHeads = IF PackGqa(c) THEN c.heads ELSE 1
    BY <1>1
  <2> QED  BY <2>1, <1>7, Zenon
<1>12. k.class # "Sm100" => ~k.pack
  <2>1. k.class = Class(c, p)
    BY <1>8
  <2> QED  BY <2>1, <1>5, <1>7, <1>9, Zenon
<1> QED  BY <1>3, <1>4, <1>8, <1>9, <1>10, <1>11, <1>12 DEF p, k

LEMMA ServedUnmasked == AsServed => BiasUnmasked
BY DEF AsServed, BiasUnmasked, BiasAsServed, HasBias

LEMMA AgreeInit == Init => AgreeInv
BY DEF Init, AgreeInv, Running, ForwardReady, NoKernel, Stages

LEMMA AgreeBegin ==
  ASSUME DispatchInv, AgreeInv, NEW c \in Calls, Begin(c)
  PROVE  AgreeInv'
<1>1. /\ pc = "idle" /\ call' = c /\ plan' = Locals(c) /\ used' = NoKernel /\ sem' = sem
  BY DEF Begin
<1>2. /\ pc' \in {"idle", "prepare", "shear", "schedule"}
      /\ pc' # "idle" => ~Refused(c, Locals(c))
      /\ pc' = "schedule" => c.bias # "rel"
  BY <1>1 DEF Begin
<1>3. \A s \in Stages : used'[s] = None
  BY <1>1 DEF NoKernel
<1> QED  BY <1>1, <1>2, <1>3 DEF AgreeInv, Running, ForwardReady, Stages

\* The kernels a stage leaves behind.
LEMMA AgreeLaunch ==
  ASSUME AsServed, DispatchInv, AgreeInv, pc # "idle", NEW s \in Stages, s = "shear" => call.bias = "rel",
         Launch(s, KeyAt(s), KernelAt(s)), s = "forward" /\ Entry(s, KeyAt(s)) = {} => ~BuildRefused(call, plan)
  PROVE  /\ call \in Calls /\ plan = Locals(call)
         /\ used'[s] = IF call.fake THEN None ELSE KernelAt(s)
         /\ \A r \in Stages : r # s => used'[r] = used[r]
<1>1. call \in Calls /\ plan = Locals(call)
  BY DEF DispatchInv, PlanInv
<1>2. used' = [used EXCEPT ![s] = IF call.fake THEN None ELSE KernelAt(s)]
  BY <1>1, ServedUnmasked, LaunchStep DEF DispatchInv
<1> QED  BY <1>1, <1>2 DEF DispatchInv, TableInv

\* A kernel in the cache was not refused when it was built.
LEMMA GenericNeverSplits ==
  ASSUME DispatchInv, call \in Calls, plan = Locals(call), plan.split,
         Entry("forward", ForwardKey(call, plan)) # {} \/ ~BuildRefused(call, plan)
  PROVE  Class(call, plan) \notin {"Sm80", "Sm120"}
<1>1. CASE ~BuildRefused(call, plan)
  BY <1>1 DEF BuildRefused
<1>2. CASE Entry("forward", ForwardKey(call, plan)) # {}
  <2>1. PICK e \in cache["forward"] : e.key = ForwardKey(call, plan)
    BY <1>2 DEF Entry
  <2>2. PICK c \in Calls : MadeFor("forward", e, c)
    BY <2>1 DEF DispatchInv, CacheInv, Stages
  <2>3. ForwardKey(c, Locals(c)) = ForwardKey(call, Locals(call)) /\ ~BuildRefused(c, Locals(c))
    BY <2>1, <2>2 DEF MadeFor
  <2>4. Class(c, Locals(c)) = Class(call, plan) /\ Locals(c).split = plan.split
    <3> DEFINE p == Locals(c)
    <3> HIDE DEF p
    <3>1. ForwardKey(c, p) = ForwardKey(call, plan)
      BY <2>3 DEF p
    <3>2. p.split = plan.split
      BY <3>1 DEF ForwardKey
    <3> QED  BY <2>3, <3>2, ForwardKeyed DEF p
  <2>5. ~(Class(c, Locals(c)) \in {"Sm80", "Sm120"} /\ Locals(c).split)
    BY <2>3 DEF BuildRefused
  <2> QED  BY <2>4, <2>5
<1> QED  BY <1>1, <1>2

LEMMA AgreeNext == AsServed /\ DispatchInv /\ AgreeInv /\ [Next]_vars => AgreeInv'
<1> SUFFICES ASSUME AsServed, DispatchInv, AgreeInv, [Next]_vars PROVE AgreeInv'
  OBVIOUS
<1>1. CASE UNCHANGED vars
  BY <1>1 DEF vars, AgreeInv, Running, ForwardReady
<1>2. ASSUME NEW c \in Calls, Begin(c) PROVE AgreeInv'
  BY <1>2, AgreeBegin
<1>3. CASE Prepare
  <2>1. /\ pc = "prepare" /\ pc' = "shear" /\ UNCHANGED <<call, plan, sem>>
        /\ Launch("prepare", KeyAt("prepare"), KernelAt("prepare")) /\ "prepare" \in Stages
    BY <1>3 DEF Prepare, KeyAt, KernelAt, Stages
  <2>2. /\ used'["prepare"] = IF call.fake THEN None ELSE KernelAt("prepare")
        /\ \A r \in Stages : r # "prepare" => used'[r] = used[r]
    BY <2>1, AgreeLaunch
  <2> QED  BY <2>1, <2>2 DEF AgreeInv, Running, ForwardReady, Stages
<1>4. CASE Shear
  <2>1. /\ pc = "shear" /\ pc' = "schedule" /\ UNCHANGED <<call, plan, sem>> /\ call.bias = "rel"
        /\ Launch("shear", KeyAt("shear"), KernelAt("shear")) /\ "shear" \in Stages
        /\ KernelAt("shear") = ShearKernel(call, plan)
    BY <1>4 DEF Shear, KeyAt, KernelAt, Stages, DispatchInv, PlanInv
  <2>2. /\ used'["shear"] = IF call.fake THEN None ELSE KernelAt("shear")
        /\ \A r \in Stages : r # "shear" => used'[r] = used[r]
    BY <2>1, AgreeLaunch
  <2> QED  BY <2>1, <2>2 DEF AgreeInv, Running, ForwardReady, Stages
<1>5. CASE Schedule
  <2>1. pc = "schedule" /\ pc' = "forward" /\ UNCHANGED <<call, plan, sem>>
    BY <1>5 DEF Schedule
  <2>2. CASE NeedsSchedule(call, plan)
    <3>1. Launch("schedule", KeyAt("schedule"), KernelAt("schedule")) /\ "schedule" \in Stages
      BY <1>5, <2>2 DEF Schedule, KeyAt, KernelAt, Stages
    <3>2. /\ used'["schedule"] = IF call.fake THEN None ELSE KernelAt("schedule")
          /\ \A r \in Stages : r # "schedule" => used'[r] = used[r]
      BY <2>1, <3>1, AgreeLaunch
    <3> QED  BY <2>1, <3>2 DEF AgreeInv, Running, ForwardReady, Stages
  <2>3. CASE ~NeedsSchedule(call, plan)
    <3>1. used' = used
      BY <1>5, <2>3 DEF Schedule
    <3> QED  BY <2>1, <3>1 DEF AgreeInv, Running, ForwardReady, Stages
  <2> QED  BY <2>2, <2>3
<1>6. CASE Forward
  <2>1. /\ pc = "forward" /\ UNCHANGED <<call, plan>> /\ call \in Calls /\ plan = Locals(call)
    BY <1>6 DEF Forward, Leave, DispatchInv, PlanInv
  <2>2. CASE Entry("forward", ForwardKey(call, plan)) = {} /\ BuildRefused(call, plan)
    <3>1. pc' = "idle" /\ UNCHANGED <<used, sem>>
      BY <1>6, <2>2 DEF Forward, Leave
    <3> QED  BY <2>1, <3>1 DEF AgreeInv, Running, ForwardReady, Stages
  <2>3. CASE ~(Entry("forward", ForwardKey(call, plan)) = {} /\ BuildRefused(call, plan))
    <3>1. /\ Launch("forward", KeyAt("forward"), KernelAt("forward")) /\ "forward" \in Stages
          /\ Entry("forward", KeyAt("forward")) = {} => ~BuildRefused(call, plan)
          /\ KernelAt("forward") = ForwardKernel(call, plan)
      BY <1>6, <2>3 DEF Forward, KeyAt, KernelAt, Stages
    <3>2. /\ used'["forward"] = IF call.fake THEN None ELSE KernelAt("forward")
          /\ \A r \in Stages : r # "forward" => used'[r] = used[r]
      BY <2>1, <3>1, AgreeLaunch
    <3>3. CASE plan.split
      <4>1. /\ pc' = "combine"
            /\ sem' = IF call.meta /\ CountsTiles(call, plan) /\ ~call.fake THEN "counted" ELSE sem
        BY <1>6, <2>3, <3>3 DEF Forward
      <4>2. Class(call, plan) \notin {"Sm80", "Sm120"}
        BY <2>1, <2>3, <3>3, GenericNeverSplits
      <4>3. CountsTiles(call, plan) => HasMeta(call, plan)
        BY DEF CountsTiles
      <4> QED  BY <2>1, <3>1, <3>2, <3>3, <4>1, <4>2, <4>3 DEF AgreeInv, Running, ForwardReady, Stages
    <3>4. CASE ~plan.split
      <4>1. pc' = "idle" /\ sem' = IF call.meta /\ HasMeta(call, plan) THEN "zero" ELSE sem
        BY <1>6, <2>3, <3>4 DEF Forward, Leave
      <4> QED  BY <2>1, <3>1, <3>2, <3>4, <4>1 DEF AgreeInv, Running, ForwardReady, Stages
    <3> QED  BY <3>3, <3>4
  <2> QED  BY <2>2, <2>3
<1>7. CASE Combine
  <2>1. /\ pc = "combine" /\ pc' = "idle" /\ UNCHANGED <<call, plan>> /\ call \in Calls /\ plan = Locals(call)
    BY <1>7 DEF Combine, Leave, DispatchInv, PlanInv
  <2>2. CASE plan.splits > MaxCombined
    <3>1. UNCHANGED <<used, sem>>
      BY <1>7, <2>2 DEF Combine
    <3>2. ~call.meta
      <4>1. call.splits <= MaxCombined => plan.splits <= MaxCombined /\ plan.splits \in Int
        BY <2>1, SplitsBounded
      <4>2. MaxCombined \in Int
        BY DEF MaxCombined
      <4> QED  BY <2>1, <2>2, <4>1, <4>2 DEF AsServed
    <3> QED  BY <2>1, <3>1, <3>2 DEF AgreeInv, Running, ForwardReady, Stages
  <2>3. CASE ~(plan.splits > MaxCombined)
    <3>1. /\ Launch("combine", KeyAt("combine"), KernelAt("combine")) /\ "combine" \in Stages
          /\ sem' = IF call.meta /\ HasMeta(call, plan) THEN "zero" ELSE sem
      BY <1>7, <2>3 DEF Combine, KeyAt, KernelAt, Stages
    <3>2. /\ used'["combine"] = IF call.fake THEN None ELSE KernelAt("combine")
          /\ \A r \in Stages : r # "combine" => used'[r] = used[r]
      BY <2>1, <3>1, AgreeLaunch
    <3>3. plan.splits <= MaxCombined
      <4>1. plan.splits \in Int /\ MaxCombined \in Int
        BY <2>1, SplitsBounded DEF MaxCombined
      <4> QED  BY <2>3, <4>1
    <3> QED  BY <2>1, <3>1, <3>2, <3>3 DEF AgreeInv, Running, ForwardReady, Stages
  <2> QED  BY <2>2, <2>3
<1> QED  BY <1>1, <1>2, <1>3, <1>4, <1>5, <1>6, <1>7 DEF Next

LEMMA AgreementHolds ==
  ASSUME AsServed, DispatchInv, AgreeInv
  PROVE  LaunchesAgree
<1>0. /\ used["forward"] # None => used["forward"] = ForwardKernel(call, plan)
      /\ used["combine"] # None => used["combine"] = CombineKernel(call, plan)
      /\ used["prepare"] # None => used["prepare"] = PrepareKernel(call, plan)
      /\ \A s \in Stages : used[s] # None => ~call.fake
      /\ {"forward", "combine", "prepare"} \subseteq Stages
  BY DEF DispatchInv, UsedInv, KernelAt, Stages, AgreeInv
<1>01. ASSUME NEW s \in Stages, used[s] # None
       PROVE  call \in Calls /\ plan = Locals(call) /\ ~Refused(call, plan)
  BY <1>01 DEF AgreeInv, Running, NoKernel
<1>1. ASSUME used["forward"] # None, HasBias(call) PROVE BiasAgrees(used["forward"])
  <2> DEFINE k == ForwardKernel(call, plan)
  <2>1. /\ call \in Calls /\ plan = Locals(call) /\ ~Refused(call, plan) /\ BiasAsServed(call)
    BY <1>0, <1>01, <1>1 DEF AsServed
  <2>2. /\ call.bias = "sheared" => FusedGeometry(call) = [pack |-> k.pack, causal |-> k.causal, local |-> k.local, extent |-> k.extent]
        /\ k.pack = plan.pack /\ k.causal = plan.causal /\ k.local = plan.local /\ k.extent = plan.extent /\ k.heads = call.heads
        /\ plan.packedHeads = IF plan.pack THEN call.heads ELSE 1
        /\ k.class # "Sm100" => ~k.pack
        /\ k.m = 128 /\ 128 % k.n = 0
    BY <2>1, <1>1, BiasFits
  <2>3. used["forward"] = k
    BY <1>0, <1>1
  <2> HIDE DEF k
  <2>4. Writer = [pack |-> k.pack, causal |-> k.causal, local |-> k.local, extent |-> k.extent]
    <3>1. CASE call.bias = "sheared"
      BY <2>2, <3>1 DEF Writer
    <3>2. CASE call.bias # "sheared"
      <4>1. call.bias = "rel"
        BY <2>1, <3>2, <1>1, DispatchAssumption DEF IsCall, HasBias
      <4>2. used["shear"] = ShearKernel(call, plan)
        <5>1. ~call.fake
          BY <1>0, <1>1
        <5> QED  BY <4>1, <5>1, <1>1 DEF AgreeInv
      <4>3. /\ used["shear"].pack = plan.pack /\ used["shear"].causal = plan.causal
            /\ used["shear"].local = plan.local /\ used["shear"].extent = plan.extent
        BY <4>2 DEF ShearKernel
      <4> QED  BY <2>2, <3>2, <4>3 DEF Writer
    <3> QED  BY <3>1, <3>2
  <2>5. used["prepare"] # None => used["prepare"].heads = IF k.pack THEN k.heads ELSE 1
    <3>1. PrepareKernel(call, plan).heads = plan.packedHeads
      BY DEF PrepareKernel
    <3>2. plan.packedHeads = IF k.pack THEN k.heads ELSE 1
      BY <2>2, Zenon
    <3> QED  BY <1>0, <3>1, <3>2
  <2> QED  BY <2>2, <2>3, <2>4, <2>5 DEF BiasAgrees
<1>2. ASSUME used["combine"] # None PROVE SplitsAgree(used["forward"], used["combine"])
  <2> DEFINE k == ForwardKernel(call, plan)  m == CombineKernel(call, plan)
  <2>1. call \in Calls /\ plan = Locals(call) /\ ~call.fake
    BY <1>0, <1>01, <1>2
  <2>2. plan.split /\ Class(call, plan) \notin {"Sm80", "Sm120"} /\ used["forward"] = k /\ used["combine"] = m
    BY <1>0, <1>2, <2>1 DEF AgreeInv, ForwardReady
  <2>3. /\ k.split = plan.split /\ k.partial = plan.partial /\ k.meta = HasMeta(call, plan) /\ k.class = Class(call, plan)
        /\ m.partial = plan.partial /\ m.logMax = LogMaxSplits(call, plan) /\ m.dynamic = HasMeta(call, plan)
    BY DEF ForwardKernel, CombineKernel
  <2> HIDE DEF k, m
  <2>4. plan.splits <= Power2[m.logMax]
    <3>1. plan.splits \in Int /\ plan.splits <= MaxCombined /\ plan.splits > 1
      BY <1>2, <2>1, <2>2, SplitsBounded DEF AgreeInv
    <3> QED  BY <2>3, <3>1, RoomForSplits
  <2>5. HasMeta(call, plan) => Class(call, plan) = "Sm100"
    <3>1. plan.noMeta = (call.noMeta \/ (plan.split /\ call.arch = 90)) /\ plan.hd256 = Hd256Call(call)
      BY <2>1 DEF Locals, Hd256Call
    <3>2. HasMeta(call, plan) => call.arch # 90
      BY <2>2, <3>1 DEF HasMeta
    <3>3. ~Hd256Call(call)
      BY <2>1, <2>2, SplitsBounded DEF AsServed
    <3> QED  BY <2>2, <3>1, <3>2, <3>3 DEF Class
  <2> QED  BY <2>2, <2>3, <2>4, <2>5 DEF SplitsAgree
<1>3. pc = "forward" => sem = "zero"
  BY DEF AgreeInv
<1> QED  BY <1>1, <1>2, <1>3 DEF LaunchesAgree

\* The kernels of one call fit each other, if the callers keep to AsServed: the bias is
\* sheared for the rows, the window and the extent the attention kernel reads, the
\* combine kernel has room for the splits, and tiles are drawn from a zero semaphore.
THEOREM LaunchesFit == ASSUME AsServed PROVE Spec => []LaunchesAgree
<1>1. Init => DispatchInv /\ AgreeInv
  BY DispatchInit, AgreeInit
<1>2. DispatchInv /\ AgreeInv /\ [Next]_vars => (DispatchInv /\ AgreeInv)'
  BY DispatchNext, AgreeNext, ServedUnmasked
<1>3. DispatchInv /\ AgreeInv => LaunchesAgree
  BY AgreementHolds
<1> QED  BY <1>1, <1>2, <1>3, PTL DEF Spec

=============================================================================
