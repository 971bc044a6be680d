------------------------------ MODULE Dispatch ------------------------------
(***************************************************************************)
(* _flash_attn_fwd of interface.py, with the hook that u2_shear_fusion     *)
(* installs for a bias that is already sheared: what a call resolves its   *)
(* arguments to, which kernels it compiles or takes from the compile       *)
(* caches, and what it launches: the block lists of a batch, ShearingBias, *)
(* the split scheduler, the attention kernel and the combine kernel.       *)
(* Calls of one process follow each other and share the caches, and may    *)
(* share the scheduler metadata a caller keeps between calls.              *)
(*                                                                         *)
(* Shapes, types and strides are abstracted to what the kernels are built  *)
(* for.  The quantised inputs and the MLA path (qv) are left out.          *)
(***************************************************************************)
EXTENDS Integers, FiniteSets

CONSTANTS
  Calls,     \* the calls a process makes
  MaxCalls,  \* how many of them, one after another
  NumSMs,    \* multi_processor_count
  Generic,   \* U2_SM90_GENERIC=1 in the environment
  None       \* Python's None

IsCall(c) ==
  /\ c.arch \in {80, 90, 100, 120} /\ c.bias \in {"none", "rel", "sheared"}
  /\ {c.heads, c.kvHeads, c.batch, c.q} \subseteq Nat \ {0} /\ {c.k, c.splits, c.extent} \subseteq Nat
  /\ c.dim \in Nat \X Nat
  /\ {c.left, c.right} \subseteq Int \cup {None}
  /\ c.tile # None => {c.tile[1], c.tile[2]} \subseteq Nat \ {0}
  /\ {c.causal, c.mask, c.cuQ, c.cuK, c.usedK, c.meta, c.noMeta, c.fake} \subseteq BOOLEAN
  /\ c.pack \in BOOLEAN \cup {None}

ASSUME DispatchAssumption ==
  /\ MaxCalls \in Nat /\ NumSMs \in Nat \ {0} /\ Generic \in BOOLEAN
  /\ None \notin Int \cup (Nat \X Nat)
  /\ \A c \in Calls : IsCall(c)

VARIABLES
  pc,     \* what the current call does next
  call,   \* its arguments
  plan,   \* its local variables, once resolved
  cache,  \* the compile caches: stage -> set of [key, kernel]
  used,   \* stage -> the kernel this call launched, or None
  sem,    \* tile_count_semaphore of the caller's metadata: "zero", "counted"
  made    \* calls begun

vars == <<pc, call, plan, cache, used, sem, made>>

Stages == {"prepare", "shear", "schedule", "forward", "combine"}
NoKernel == [s \in Stages |-> None]

Least(a, b) == IF a <= b THEN a ELSE b
Most(a, b) == IF a >= b THEN a ELSE b
CeilDiv(a, b) == (a + b - 1) \div b
Or(x, default) == IF x = None \/ x = 0 THEN default ELSE x  \* Python's `or'

-----------------------------------------------------------------------------
(* The arguments, resolved.                                                *)

\* <<causal, local, left, right>>
ResolveWindow(causal, left, right, mask) ==
  LET r0   == IF causal THEN 0 ELSE right
      void == left # None /\ r0 # None /\ left + r0 < 0
      l    == IF void THEN None ELSE left
      r    == IF void THEN None ELSE r0
  IN  CASE mask -> [causal |-> FALSE, local |-> FALSE, left |-> left, right |-> right]
        [] ~mask /\ l = None /\ r = None -> [causal |-> causal, local |-> FALSE, left |-> l, right |-> r]
        [] ~mask /\ l = None /\ r = 0 -> [causal |-> TRUE, local |-> FALSE, left |-> l, right |-> None]
        [] OTHER -> [causal |-> FALSE, local |-> TRUE, left |-> l, right |-> r]

HasBias(c) == c.bias # "none"
IsVarlen(c) == c.cuQ \/ c.cuK \/ c.usedK
IsGeneric(c) == c.arch = 80 \/ c.arch = 120 \/ (c.arch = 90 /\ HasBias(c) /\ Generic)

\* requires_grad is False, so the rule for the backward pass never applies.
PackHeuristic(heads) == 128 % heads = 0 /\ heads > 1

\* Mutant: the packing of the heuristic kept for the generic kernels.
BugPackGqa(c) ==
  /\ IF c.pack = None THEN PackHeuristic(c.heads) ELSE c.pack
  /\ ~(c.arch = 100 /\ 128 % c.heads # 0)
  /\ ~(HasBias(c) /\ c.arch = 90)

PackGqa(c) ==
  /\ IF c.pack = None THEN PackHeuristic(c.heads) ELSE c.pack
  /\ ~(c.arch = 100 /\ 128 % c.heads # 0)
  /\ ~(HasBias(c) /\ c.arch \in {80, 90, 120})

Config(m, n, rs, overlap) == [m |-> m, n |-> n, rs |-> rs, overlap |-> overlap]

\* A block-sparse pattern fixes the query block at 128, which 192 does not divide.
TileSm90(c, w) ==
  LET d == c.dim[1]
  IN  CASE d <= 64 -> Config(IF c.sparse # "none" THEN 128 ELSE 192, 128, TRUE, TRUE)
        [] d > 64 /\ d <= 96 ->
             IF c.sparse # "none" THEN Config(128, 128, FALSE, TRUE)
             ELSE Config(192, IF w.causal \/ w.local THEN 128 ELSE 144, FALSE, TRUE)
        [] d > 96 /\ d <= 128 -> Config(128, 128, TRUE, TRUE)
        [] d > 128 /\ d <= 192 ->
             Config(128, IF w.local THEN 96 ELSE IF c.dim[2] <= 128 THEN 128 ELSE 112, TRUE, TRUE)
        [] OTHER -> Config(128, IF w.local THEN 64 ELSE 80, TRUE, TRUE)

\* On sm_90 a bias fixes the tile and turns the overlap of the warpgroups off.
Tile(c, w) ==
  LET bias90 == HasBias(c) /\ c.arch = 90
      tile   == IF c.tile = None /\ bias90 THEN <<128, 128>> ELSE c.tile
      config == CASE tile # None -> Config(tile[1], tile[2], TRUE, TRUE)
                  [] tile = None /\ c.arch = 120 -> Config(128, IF c.dim[1] <= 64 THEN 128 ELSE 64, TRUE, TRUE)
                  [] tile = None /\ c.arch = 80 -> Config(128, IF c.q <= 32 THEN 32 ELSE 64, TRUE, TRUE)
                  [] tile = None /\ c.arch = 90 -> TileSm90(c, w)
                  [] OTHER -> Config(128, 128, TRUE, TRUE)
  IN  [config EXCEPT !.overlap = @ /\ ~bias90]

SplitsHeuristic(mBlocks, nBlocks) ==
  IF nBlocks <= 4 THEN 1 ELSE Least(Least(NumSMs \div mBlocks, 128), nBlocks)

\* Rows of a query tile when the heads of a KV head are packed, whether they are or not.
PackedRows(c) == c.q * c.heads
QStage(c, tile) == IF c.arch = 100 /\ PackedRows(c) > tile.m THEN 2 ELSE 1

\* Keys a tile loads, for the heuristic; a window bound of 0 counts as no bound.
KeysLoaded(c, w, tile) ==
  IF ~w.local THEN c.k
  ELSE Most(0, Least(c.k, Or(w.right, c.k) + Or(w.left, c.k) + 1 + tile.m))

\* num_splits and tile_n.  Different head sizes on sm_100 leave no room for
\* float32 partials in a tile of 128.
Splitting(c, w, tile) ==
  LET mBlocks   == c.batch * c.kvHeads * CeilDiv(PackedRows(c), QStage(c, tile) * tile.m)
      blocks(n) == CeilDiv(KeysLoaded(c, w, tile), n)
      asked     == IF c.splits < 1 THEN SplitsHeuristic(mBlocks, blocks(tile.n)) ELSE c.splits
  IN  IF c.arch = 100 /\ c.dim[1] # c.dim[2] /\ asked > 1
      THEN IF blocks(tile.n) >= 64 /\ c.dim[2] # 512
           THEN [splits |-> SplitsHeuristic(mBlocks, blocks(64)), n |-> 64]
           ELSE [splits |-> 1, n |-> tile.n]
      ELSE [splits |-> asked, n |-> tile.n]

\* The local variables that the rest of the function reads.
Locals(c) ==
  LET w     == ResolveWindow(c.causal, c.left, c.right, c.mask)
      tile  == Tile(c, w)
      s     == Splitting(c, w, tile)
      split == s.splits > 1
      stage == QStage(c, tile)
      pack  == PackGqa(c)
      leOne == PackedRows(c) <= tile.m * stage
      hd256 == c.arch = 100 /\ c.dim = <<256, 256>>
  IN  [causal |-> w.causal, local |-> w.local, left |-> w.left, right |-> w.right,
       tileM |-> tile.m, tileN |-> s.n, rs |-> tile.rs, overlap |-> tile.overlap,
       splits |-> s.splits, split |-> split, qStage |-> stage, leOne |-> leOne,
       tileBias |-> IF PackedRows(c) < tile.m THEN CeilDiv(PackedRows(c), 8) * 8 ELSE tile.m,
       threads |-> IF IsGeneric(c) THEN 128 ELSE 384,
       \* a pattern per head cannot be packed
       pack |-> pack /\ c.sparse # "perHead",
       packedHeads |-> IF pack THEN c.heads ELSE 1,
       partial |-> IF c.arch = 90 THEN "own" ELSE "float32",
       noMeta |-> c.noMeta \/ (split /\ c.arch = 90),
       clc |-> ~(IsVarlen(c) /\ c.heads = 1) /\ ~(~IsVarlen(c) /\ ~w.causal /\ ~w.local),
       extent |-> IF HasBias(c) THEN c.extent ELSE 0,
       pagedNonTma |-> c.page \notin {None, s.n},
       persistent |-> (~w.causal /\ ~w.local /\ ~c.cuQ /\ ~split) \/ (leOne /\ ~split),
       hd256 |-> hd256,
       twoCta |-> hd256 \/ (/\ c.arch = 100 /\ ~w.causal /\ ~w.local /\ ~split /\ ~c.cuQ
                            /\ c.sparse = "none" /\ c.page \in {None, 128}
                            /\ c.dim \in {<<128, 128>>, <<192, 128>>}
                            /\ PackedRows(c) > 2 * tile.m
                            /\ (tile.m % c.heads = 0 \/ ~pack) /\ ~HasBias(c))]

-----------------------------------------------------------------------------
(* What is refused before anything runs.                                   *)

HeadDims(c) ==
  LET within(hi) == c.dim[1] \in 8 .. hi /\ c.dim[2] \in 8 .. hi
  IN  CASE c.arch \in {80, 120} -> TRUE
        [] c.arch = 90 -> within(256) /\ c.dim[1] % 8 = 0 /\ c.dim[2] % 8 = 0
        [] OTHER -> within(128) \/ c.dim \in {<<192, 128>>, <<64, 512>>, <<256, 256>>}

\* The assertions on a bias, the same for both kinds but for the packing.
BiasRefused(c, p) ==
  \/ p.extent % 128 # 0
  \/ p.tileM # 128
  \/ p.tileN # 128 /\ c.arch = 100
  \/ ~p.causal /\ p.left # None /\ (p.right = None \/ p.left + p.right + 1 # p.extent)
  \/ c.bias = "sheared" /\ p.pack

Refused(c, p) ==
  \/ ~HeadDims(c)
  \/ c.page # None /\ c.cuK
  \/ c.max /\ ~c.lse
  \/ p.split /\ c.arch = 90 /\ (c.sink \/ c.max)
  \/ c.score = "both" \/ (c.score = "user" /\ c.arch = 80)
  \/ c.sparse # "none" /\ p.split
  \/ HasBias(c) /\ BiasRefused(c, p)

-----------------------------------------------------------------------------
(* The kernels: what each is built for, and the key it is cached under.    *)

\* The block lists are made for a batch of up to 1024 requests of several tiles.
UsesBlockLists(c, p) == c.bias = "rel" /\ c.cuQ /\ ~p.leOne /\ c.batch <= 1024

PrepareKernel(c, p) == [tile |-> 128, heads |-> p.packedHeads]
PrepareKey(c, p) == <<128, p.packedHeads>>

ShearKernel(c, p) ==
  [extent |-> p.extent, causal |-> p.causal, local |-> p.local, left |-> p.left # None,
   right |-> p.right # None, cuQ |-> c.cuQ, cuK |-> c.cuK, usedK |-> c.usedK, pack |-> p.pack,
   heads |-> c.heads, leOne |-> p.leOne, lists |-> UsesBlockLists(c, p)]

ShearKey(c, p) ==
  <<p.extent, p.causal, p.left # None, p.right # None, c.cuQ, c.cuK, c.usedK, p.pack, c.heads,
    p.leOne, UsesBlockLists(c, p)>>

NextPower(n) == CHOOSE x \in {2 ^ k : k \in 0 .. 5} : x >= n /\ x < 2 * n

\* get_scheduler_metadata, which the split of a batch of different lengths needs.
NeedsSchedule(c, p) == p.split /\ ~c.meta /\ IsVarlen(c) /\ ~p.noMeta
HasMeta(c, p) == (c.meta \/ NeedsSchedule(c, p)) /\ ~p.noMeta
Warps(c) == NextPower(Least((c.batch + 30) \div 31, 32))
ScheduleKernel(c, p) ==
  [warps |-> Warps(c), m |-> p.tileM, n |-> p.tileN, heads |-> c.heads * c.kvHeads,
   kvHeads |-> c.kvHeads, dim |-> c.dim, causal |-> p.causal, pack |-> p.pack, cuQ |-> c.cuQ,
   cuK |-> c.cuK, usedK |-> c.usedK]
ScheduleKey(c, p) ==
  <<Warps(c), p.tileM, p.tileN, c.heads * c.kvHeads, c.kvHeads, c.dim, p.causal, p.pack,
    c.cuQ, c.cuK, c.usedK>>

Class(c, p) == CASE c.arch = 80 \/ (c.arch = 90 /\ HasBias(c) /\ Generic) -> "Sm80"
                 [] c.arch = 90 /\ ~(HasBias(c) /\ Generic) -> "Sm90"
                 [] c.arch = 120 -> "Sm120"
                 [] OTHER -> IF p.hd256 THEN "Hd256" ELSE "Sm100"

\* Only the sm_100 kernel draws its tiles from the semaphore.
CountsTiles(c, p) == HasMeta(c, p) /\ c.cuQ /\ Class(c, p) = "Sm100"

ForwardKernel(c, p) ==
  [class |-> Class(c, p), dim |-> c.dim, heads |-> c.heads, causal |-> p.causal, local |-> p.local,
   pack |-> p.pack /\ Class(c, p) \in {"Sm90", "Sm100"}, m |-> p.tileM, n |-> p.tileN,
   threads |-> p.threads, overlap |-> p.overlap, rs |-> p.rs, qStage |-> p.qStage,
   mask |-> c.mask, score |-> c.score, sink |-> c.sink, sparse |-> c.sparse,
   page |-> c.page # None, nonTma |-> p.pagedNonTma, split |-> p.split, partial |-> p.partial,
   bias |-> HasBias(c), extent |-> p.extent, tileBias |-> p.tileBias, persistent |-> p.persistent,
   counts |-> CountsTiles(c, p), clc |-> p.clc, twoCta |-> p.twoCta, meta |-> HasMeta(c, p),
   left |-> p.left # None, right |-> p.right # None, cuQ |-> c.cuQ, cuK |-> c.cuK,
   usedK |-> c.usedK, lse |-> c.lse, max |-> c.max]

\* Mutant: the bounds of the window are thought to be arguments only.
BugForwardKey(c, p) ==
  <<c.dim, c.heads, p.causal, c.score, c.mask, c.sparse, c.lse, c.max, c.cuQ, c.cuK, c.usedK,
    c.page # None, c.sink, p.tileM, p.tileN, p.qStage,
    p.threads, p.split, p.pack, c.arch, p.pagedNonTma, p.twoCta, p.rs, p.overlap, p.clc,
    HasBias(c), p.tileBias, p.extent, HasMeta(c, p), p.persistent>>

\* The semaphore comes with the metadata; is_local and the partials' type are not in the key.
ForwardKey(c, p) ==
  <<c.dim, c.heads, p.causal, c.score, c.mask, c.sparse, c.lse, c.max, c.cuQ, c.cuK, c.usedK,
    c.page # None, p.left # None, p.right # None, c.sink, p.tileM, p.tileN, p.qStage,
    p.threads, p.split, p.pack, c.arch, p.pagedNonTma, p.twoCta, p.rs, p.overlap, p.clc,
    HasBias(c), p.tileBias, p.extent, HasMeta(c, p), p.persistent>>

\* The assertions of the branch that builds the kernel: a cached one is not asked again.
BuildRefused(c, p) ==
  CASE Class(c, p) = "Sm80"  -> c.page # None \/ p.split
    [] Class(c, p) = "Sm120" -> c.sparse # "none" \/ c.page # None \/ p.split
    [] Class(c, p) = "Hd256" -> \/ c.score = "softcap" \/ c.sparse # "none" \/ c.sink \/ c.usedK
                                \/ c.page # None /\ c.k % c.page # 0
    [] OTHER -> FALSE

\* _rel_shear_spec: what the fused writer of a layer takes its window to be.
FusedGeometry(c) ==
  [pack |-> FALSE, causal |-> c.left = None, local |-> c.left # None, extent |-> c.extent]

Power2 == [k \in 0 .. 9 |-> <<1, 2, 4, 8, 16, 32, 64, 128, 256, 512>>[k + 1]]
CeilLog2(n) == CHOOSE k \in 0 .. 9 : Power2[k] >= n /\ (k = 0 \/ Power2[k - 1] < n)
MaxCombined == 256  \* assert num_splits <= 256

CombineTile(c) == IF c.dim[2] <= 64 THEN 16 ELSE 8
LogMaxSplits(c, p) == Most(CeilLog2(p.splits), IF CombineTile(c) = 8 THEN 5 ELSE 4)

CombineKernel(c, p) ==
  [partial |-> p.partial, dim |-> c.dim[2], heads |-> c.heads * c.kvHeads, m |-> CombineTile(c),
   logMax |-> LogMaxSplits(c, p), cuQ |-> c.cuQ, lse |-> c.lse, dynamic |-> HasMeta(c, p),
   resets |-> HasMeta(c, p), maxQ |-> c.q, max |-> c.max]
CombineKey(c, p) ==
  <<p.partial, c.dim[2], c.heads * c.kvHeads, CombineTile(c), LogMaxSplits(c, p), c.cuQ, c.lse,
    HasMeta(c, p), c.q, c.max>>

-----------------------------------------------------------------------------
(* A call, stage by stage.                                                 *)

Entry(stage, key) == {e \in cache[stage] : e.key = key}

\* The cached kernel, or the fresh one, which is cached; it runs unless the
\* tensors are fake ones, for compiling alone.
Launch(stage, key, kernel) ==
  LET k == IF Entry(stage, key) = {} THEN kernel ELSE (CHOOSE e \in Entry(stage, key) : TRUE).kernel
  IN  /\ cache' = [cache EXCEPT ![stage] = @ \cup {[key |-> key, kernel |-> k]}]
      /\ used' = [used EXCEPT ![stage] = IF call.fake THEN None ELSE k]

\* The call is over: it returned or raised.
Leave == pc' = "idle" /\ UNCHANGED <<call, plan>>

\* No key at all is an early return, with zeros and an lse of -inf.
Begin(c) ==
  /\ pc = "idle" /\ made < MaxCalls
  /\ made' = made + 1
  /\ used' = NoKernel
  /\ call' = c /\ plan' = Locals(c)
  /\ pc' = CASE c.k = 0 \/ Refused(c, plan') -> "idle"
             [] ~(c.k = 0 \/ Refused(c, plan')) /\ UsesBlockLists(c, plan') -> "prepare"
             [] OTHER -> IF c.bias = "rel" THEN "shear" ELSE "schedule"
  /\ UNCHANGED <<cache, sem>>

Prepare ==
  /\ pc = "prepare"
  /\ Launch("prepare", PrepareKey(call, plan), PrepareKernel(call, plan))
  /\ pc' = "shear"
  /\ UNCHANGED <<call, plan, sem, made>>

Shear ==
  /\ pc = "shear"
  /\ Launch("shear", ShearKey(call, plan), ShearKernel(call, plan))
  /\ pc' = "schedule"
  /\ UNCHANGED <<call, plan, sem, made>>

Schedule ==
  /\ pc = "schedule"
  /\ IF NeedsSchedule(call, plan)
     THEN Launch("schedule", ScheduleKey(call, plan), ScheduleKernel(call, plan))
     ELSE UNCHANGED <<cache, used>>
  /\ pc' = "forward"
  /\ UNCHANGED <<call, plan, sem, made>>

\* A call that does not split has the caller's semaphore set to zero behind it.
Forward ==
  /\ pc = "forward"
  /\ UNCHANGED made
  /\ IF Entry("forward", ForwardKey(call, plan)) = {} /\ BuildRefused(call, plan)
     THEN Leave /\ UNCHANGED <<cache, used, sem>>
     ELSE /\ Launch("forward", ForwardKey(call, plan), ForwardKernel(call, plan))
          /\ IF plan.split
             THEN /\ pc' = "combine" /\ UNCHANGED <<call, plan>>
                  /\ sem' = IF call.meta /\ CountsTiles(call, plan) /\ ~call.fake THEN "counted" ELSE sem
             ELSE /\ Leave
                  /\ sem' = IF call.meta /\ HasMeta(call, plan) THEN "zero" ELSE sem

\* The combine kernel sets the semaphore it is given to zero.
Combine ==
  /\ pc = "combine"
  /\ UNCHANGED made
  /\ Leave
  /\ IF plan.splits > MaxCombined THEN UNCHANGED <<cache, used, sem>>
     ELSE /\ Launch("combine", CombineKey(call, plan), CombineKernel(call, plan))
          /\ sem' = IF call.meta /\ HasMeta(call, plan) THEN "zero" ELSE sem

Init ==
  /\ pc = "idle" /\ call = None /\ plan = None
  /\ cache = [s \in Stages |-> {}] /\ used = NoKernel
  /\ sem = "zero" /\ made = 0

Next == (\E c \in Calls : Begin(c)) \/ Prepare \/ Shear \/ Schedule \/ Forward \/ Combine

Spec == Init /\ [][Next]_vars
-----------------------------------------------------------------------------
(* Properties.                                                             *)

\* What a process did before does not show: a kernel that a call launches is the
\* one a fresh process would build for it, so the keys of the five caches name
\* everything that the kernels are built for and that calls can differ in.
CacheTransparent ==
  /\ used["prepare"] # None => used["prepare"] = PrepareKernel(call, plan)
  /\ used["shear"] # None => used["shear"] = ShearKernel(call, plan)
  /\ used["schedule"] # None => used["schedule"] = ScheduleKernel(call, plan)
  /\ used["forward"] # None => used["forward"] = ForwardKernel(call, plan)
  /\ used["combine"] # None => used["combine"] = CombineKernel(call, plan)

\* The rows and the window the bias was sheared for: by ShearingBias, or by the
\* layer's fused writer, whose rows are never packed.
Writer ==
  IF call.bias = "sheared" THEN FusedGeometry(call)
  ELSE LET k == used["shear"] IN [pack |-> k.pack, causal |-> k.causal, local |-> k.local, extent |-> k.extent]

BiasAgrees(k) ==
  /\ Writer = [pack |-> k.pack, causal |-> k.causal, local |-> k.local, extent |-> k.extent]
  /\ used["prepare"] # None => used["prepare"].heads = IF k.pack THEN k.heads ELSE 1
  /\ k.class # "Sm100" => ~k.pack
  /\ k.m = 128 /\ 128 % k.n = 0

SplitsAgree(k, combine) ==
  /\ k.split /\ combine.partial = k.partial
  /\ plan.splits <= Power2[combine.logMax]
  /\ combine.dynamic = k.meta /\ (combine.dynamic => k.class = "Sm100")

\* The kernels of one call fit each other.  The bias is sheared for the tile rows,
\* the window and the extent that the attention kernel reads it with, in tiles
\* that divide 128 (the measured mis-shear of interface.py:513-524).  The combine
\* kernel counts the live splits the way the forward kernel does (:644-646), has
\* room for all of them and reads the type it wrote.  Tiles are drawn from a
\* semaphore that the calls before have left at zero.
LaunchesAgree ==
  /\ used["forward"] # None /\ HasBias(call) => BiasAgrees(used["forward"])
  /\ used["combine"] # None => SplitsAgree(used["forward"], used["combine"])
  /\ pc = "forward" /\ call.meta /\ CountsTiles(call, plan) => sem = "zero"
=============================================================================
