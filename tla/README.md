# TLA+ verification of inkling-turbo

inkling-turbo speeds up attention with a relative position bias for one model
family: modified CuTe-DSL attention kernels, patches that install them in vLLM,
harnesses that check their parity, and scripts that rent GPUs, run the gates and
the end-to-end benchmark, and keep what they cost under a cap. This directory
holds TLA+ models of its core logic, the TLC runs that check them on small
instances, and TLAPS proofs of the facts that matter most.

`PROJECT.json` is the machine-readable index: components, runs, the mutant that
shows each checked property can fail, the source lines of every definition,
findings, hazards, theorems.

## The system

| Part | State it keeps | Operations | Modules |
|---|---|---|---|
| sm_90 kernel (`kernels/tml_fa4_modified/flash_fwd_sm90.py`, epilogue in `flash_fwd.py`) | per CTA: K, V and Q slots, a full and an empty mbarrier per slot, named barriers, accumulators | the producer warp loads blocks by TMA; one to three warp groups multiply, with or without overlap; the epilogue writes O over sQ | `Sm90Pipeline`, `Sm90PipelineInv`, `AttentionTile` |
| generic kernel (`flash_fwd.py`; sm_80, sm_120) | shared memory by stage, commit groups in flight, one bias buffer | each warp copies its share by cp.async, waits by counting groups, multiplies | `CpAsyncPipeline`, `AttentionTile` |
| relative bias (`u2_shear_fusion.py`, `u2_inkernel_shear.py`, the bias code of both kernels) | the sheared buffer: one row of `rel_extent + 256` columns per query | column programs write it (or ShearingBias does); a kernel adds tiles of it to its scores, or shears itself | `ShearLayout`, `RelBias` |
| interface (`interface.py`) | five compile caches, the caller's scheduler metadata | resolves a call's arguments, builds or finds kernels, launches them | `Dispatch` |
| patch scripts (`kernels/patches/`) | the vLLM tree on disk | anchored text edits that compose in some orders only | `PatchTree`, `ModalDeploy` |
| Modal bench (`scripts/modal_e2e_bench.py`, `run_bench`) | Volume: results, `validity.json`, `ledger.json`; container: deadlines, reserve, server process | budget gate, serve, measure, persist, book, resume | `ModalBench` |
| Modal deployment and `run_validate` | installed tree, source tree, two backups, harness outputs, `progress.json` | back up, restore, overlay, patch, check; run harnesses against a deadline | `ModalDeploy` |
| launchers (`grab_b200.py`, `wait_and_grab.py`, `grab_8x_gates.py`, `aws_8x_gates.py`, `book_user_node.py`) | rented machines | poll, guard, launch, run, terminate | `GpuFleet`, `Rental` |
| gates on a box (`run_gates_full.sh`, `gate_e2e_bench.sh`, `gate_logit_parity.py`, `bootstrap_8x.sh`, `gates_watchdog.sh`) | kernels, router, two backups, a TCP port, run files, marker files | stages; a watchdog that ends the machine | `GatesBox` |
| verdicts (`gate_logit_parity.py`, `summarize_results.py`, `gate_summarize.py`) | none | verdicts and tables from files | `Verdicts` |

The interface launches the kernels; the writer kernel and the attention kernel
meet in the sheared buffer, which both index by rules that must agree without
being shared code; the patches decide which of them runs; the bench deploys
patched and stock builds, its containers meet in the files of one Volume; the
launchers rent the boxes on which the gates run.

What is hard, and what makes each part correct:

* **Pipelines**: actors that see only the parity of a phase or a count of their own
  groups; barriers that order them a block apart; an aliased buffer. Correct when no
  load races a read, every block is folded in once with its own mask, bias and V, and
  every CTA terminates.
* **Bias and dispatch**: writer, reader and host derive the place of a value from
  lengths, tiles and packing, each by itself; a hand-written cache key decides which
  kernel runs. Correct when every visible score gets the bias of its distance, and
  what a call launches does not depend on the calls before it.
* **Bench, deployment**: crashes, kills, hangs, warm containers, concurrent writers of
  one file. Correct when the cap holds, paid results survive, what is measured is what was
  deployed, and a verdict says what it seems to.
* **Launchers and boxes**: check-then-act between processes, lost answers, machines
  nobody owns, leftovers of a killed stage. Correct when every machine that bills is
  held or has a reason, and numbers are filed under what they were measured on.

## The modules

### Sm90Pipeline

A warp group is one actor. A step waits for a barrier and issues what follows;
each TMA load lands, and each wgmma drains, in a step of its own, which is where
interleavings come from. `full`, `empty` and `arrived` are the mbarriers: the
model keeps the number of completed phases, but a waiter tests only the parity, as
`mbarrier.try_wait.parity` does. `pkv`, `kv`, `kvV` are the kernel's
`PipelineState`s and their clones. Actions carry the names of the code: `LoadK`,
`LoadV`, `LoadNextK`, `LoadPrevV`, `ProducerTail` for `load`; `IssueQK`,
`PassTurn`, `DrainQK`, `WaitV`, `IssuePV`, `DrainPV` for `mma_one_n_block`;
`WaitNextK` to `DrainPrevPV` for the overlapping loop; `EpilogueBarrier`,
`WriteSmemO`, `StoreO` for the epilogue. The accumulator is the sequence of blocks
folded in, each with the block its scores, its mask and its V came from.

A tile is chosen in `Init`: the kernel is launched with non-persistent
schedulers, so a CTA has one. Without split-KV `has_work` is the constant True,
as in the code, even for a tile without blocks. `ImplementsTile` is the refinement of
`AttentionTile`, the abstract promise of a CTA, termination included.

### CpAsyncPipeline

A warp is one actor. `mem` is what each warp's share of each area of shared
memory holds; `groups` is the warp's queue of committed copy groups, oldest first,
each the set of areas it writes. A wait keeps the newest `depth` groups and lets
the older ones land; whoever reads an area to which any group is still in flight reads
garbage, and so does whoever reads shares that differ. Actions follow `kernel`
(`LoadPrologue`, `PreprocessQ`, `ReadQ`, `PrefetchRest`) and `compute_one_n_block`
(`Sync`, `LoadVNext`, `GemmQK`, `Drain`, `SyncV`, `LoadKNext`, `ApplyBias`, `GemmPV`),
then the epilogue. A barrier is `Arrive` and `Released`. It implements `AttentionTile`
too: a wrong count of groups or a missing barrier shows as a block that is folded in
with the wrong scores, bias tile or V.

### ShearLayout and RelBias

A bias value is represented by its distance, so that a wrong index is a wrong
value. The rows of all requests lie one behind the other (`start` is a request's
`cu_seqlens_q`; `IsBatch` says what a batch is). The sheared rows are
written by one of the three kernels of the fused writer (`LowLatency`, `Throughput`,
`Small`; programs in every order) or are given (`ShearedRow`: the ShearingBias kernel,
which runs to its end first). The reader walks splits, and in each split the parts
of the mainloop (causal, unmasked, left window), and applies the tile shift of its
kernel. A launch is a record (`IsLaunch`, the assertions of `interface.py` on
`rel_bias`) that `Init` chooses. A request has at least as many keys as queries.

128 (query tile, writer's block, half of the pad) is scaled to 4 and `tile_n` 64
to 2: all rules are arithmetic in multiples of these, and lengths around zero, one
and two blocks with every remainder show each rounding both ways.

### Dispatch

One process makes calls one after another. `Begin` resolves the arguments as
`_flash_attn_fwd` does (`ResolveWindow`, `PackGqa`, `Tile`, `Splitting`, `Locals`,
`Refused`); `Prepare`, `Shear`, `Schedule`, `Forward`, `Combine` are its launches in
order. For each there is the record of what the kernel is built for and the tuple it is
cached under: `Launch` takes whatever the cache holds for the key. `sem` is the tile
counter in metadata that a caller keeps between calls.

### PatchTree and ModalDeploy

A file is the set of what was done to it. A script is a sequence of files with what
its anchors need and what breaks them; it writes file by file and stops at the first
that fails (`Reach`, `Patched`). `ModalDeploy` is a container that Modal keeps warm:
`Backup`, `OpsBackup`, `Restore`, `RestoreNvidia`, `OverlayOurs`, `Patch`,
`CopyPatched`, `Check` are one setup, any of which can fail between two files; then
`Begin`, `End`, `Flush`, `Burn`, `SkipStep`, `Summary` are the loop of
`run_validate`. `Kill` takes the container. With `kind = "hand"` an operator runs the
scripts on a checkout (`RunByHand`). `cut` and `faulted` are history variables.

### ModalBench

One tick costs one unit of money, so a container's elapsed time is its spend.
Actions follow `run_bench` in order: `Start` (gate, deadlines, `burn("start")`),
`StartServer`, `ServerReady` (booking), `Probe` (the greedy probe, taken for the time it
may need, and the validity evidence written after it), `RunSucceeds` / `RunFails`, `Burn`, `EndBuild`, `StopServer`, `Verdict`, `Disarm`, `BookFinal`.
A server that dies raises, stops the server in `finally` and is booked by `atexit`
(`ServerFails`, `Unwind`). `Terminate` is SIGTERM, whose handler books; `Vanish` is
SIGKILL or a lost machine. Either can happen at every point, in a load or a run
either at its start or at its end (`Elapsed`). `OtherReads` / `OtherWrites` split the
other container's `_ledger_upsert` at the point where it is not atomic; `Warm` lets a
call land in a container whose previous call has returned (`alive`). `spent` and
`escaped` are history variables: what has really been spent, and what of it no booking
will ever show. A setting (builds, runs, pools, whether a server's log may show no pool,
money, times) is chosen in `Init`. Time is that of loads, probes, runs and shutdowns:
the last poll of a health check (up to 15 s) and the writing of files are not counted.

### GpuFleet and Rental

`Rental` is the promise about one rented machine: held until it is given back, or
left billing for a reason on record; never held for ever. The record says why a machine
bills unheld, an error before the `try` or a lost answer say; it does not forbid it. `GpuFleet` has one process
per launcher, each with the steps of its script: `WaitPoll`, `Guard`, `Launch`,
`LaunchFails`, `LaunchAnswerLost`, `AwaitIp`, `EnterTry`, `FailBeforeTry`, `Ready`,
`StagesEnd`, `Raise`, `Finally`, `TerminateFails`; `Kill` ends one anywhere. The clouds
boot machines or never do; a watchdog may fire on a gates box. `left` is a history
variable with that reason. `OneMachineEach` speaks of launchers that lost no answer. All waits have deadlines in the code, so giving up is always a
possible step and time is left out.

### GatesBox

Everything the scripts of a box share is a variable: installed kernels (`pkg`, which
is a mixture after a copy that was cut short), router, the two backups, who answers on the port, run
files (absent, torn, or the server they were measured on), markers. `Boot*`, `Logit*`
and `Bench*` are the three scripts step by step; `Start` starts the whole pipeline
or one of them by hand; `KillLogit` is `timeout`, `TermBench` a signal that runs the
trap, `KillJob` SIGKILL. Each copy, backup, deploy and restore can also fail, after any part
of it (`Partly`, `RouteFails`); a failed deploy goes to the restore, a failed restore is
swallowed, as in the code. `Tick` and `Fire` are the watchdog's loop, in its polling
periods. `marked` and `tainted` are history variables; `tainted` has what went wrong for
good: `kill` (a kill left a server, a patched router or half a backup), `backup` (a failed
step left half a backup), `kernels` and `route` (a failed restore left them), and each
property names the causes it depends on. The router is one small file: its copies happen or
do not.

### Verdicts

Three tools, each one step from input to verdict. The operators keep the names of the
functions (`diff_stats`, `aggregate`, `load_artifact`, `Verdict`, `med_best`, `ratio`);
the properties restate what the verdict means over all the data, without the
intermediate results of the code.

`TypeOK` of `ModalBench`, `ModalDeploy`, `GatesBox` and `GpuFleet` says what the variables
hold; it is documentation there and not a property of a run.

## The runs

| Run | Instance | What it shows |
|---|---|---|
| `sm90_serial` | 2 warp groups, no overlap, 2 stages, tiles of 1, 5 and 2 blocks; the setting that every rel_bias launch gets | no slot race, turns alternate, refinement of `AttentionTile` with termination |
| `sm90_overlap` | 3 warp groups with overlap, TMA K and V | type correctness, the ring of three, refinement |
| `sm90_split` | 2 warp groups, overlap, paged K and V, splits that may be empty | blocks in step, the sO/sQ alias in an epilogue without TMA, a clean exit of the producer |
| `generic_pipeline` | 3 warps; 1, 2 and 3 stages, Q in registers; 0 to 5 blocks; bias tiles for all, some or none | nothing in flight at the end (`QuietEpilogue`); refinement of `AttentionTile` with termination |
| `bias_launches` | 8 launches (splits, windows, the three writer kernels, generic with half the writer's block, in-kernel shear) over 76 batches of 1 to 23 keys | every column of a row is written once, in any order of programs; every visible score gets its distance; every visible key once; unpredicated copies stay in the row |
| `dispatch` | every pair of 225 calls: four architectures, windows, head sizes, splits, both writers, kept metadata, fake mode | a cached kernel is the one a fresh process would build; the kernels of a call agree on rows, window, extent, splits and the counter |
| `modal_bench` | setting `Spend`: 3 calls, money for less than two containers, loads, probes and runs that can take long, kills everywhere; setting `Resume`: 2 builds x 2 runs on 2 pool sizes, warm containers, another container booking; setting `Unreadable`: one run per build, logs that may show no pool | the cap up to one shutdown, one overrun of the probe and what kills hide; a container stops no later than these after its deadline; entries only grow; results are final; the verdict on pools is honest for builds of one pool whose pools are on file |
| `modal_deploy` | 3 calls of a warm container, any build or patch set, a fault at any file, a kill at any step; the scripts by hand, interrupted anywhere | what is deployed is what was asked for; a setup fails only on a fault; no artifact is filed under another harness; a kill loses one step |
| `fleet_sessions` | one launcher of each script, the grabber both waiting and parking, 2 machines, 2 polls | no machine bills unheld without a reason; one machine each; refinement of `Rental`, liveness included |
| `gates_box` | 3 jobs of any kind, failures and kills at any step, one run per build, a cap of 3 ticks and a window of 1 | backups stay stock; results are filed under their kernels; no stock kernel behind the patched router and gates leave stock state, but for a restore that fails; the watchdog's bounds, and that it acts |
| `verdicts` | 147,000 inputs: partial, missing, torn and inconsistent data, all options | gates pool over positions; no case disappears; no option clears a loss; cells are measured or null |

Refuted by TLC, against a sentence of the repository (the finding in `PROJECT.json`
quotes it): `modal_mixed_pools`. A build that is resumed on another pool size
overwrites its own entry, and the complete matrix gets "match" although one of its
builds was measured on two pools.

Why the bounds are enough. Five blocks on two stages wrap the slots more than twice, so
each parity recurs, and five on three stages wrap the stages of the generic kernel;
three actors are the first ring in which somebody is neither before nor after. Two
calls are enough for a cache entry to reach another call, and three for a warm
container to find both a backup and a half-done setup. Three calls are one more than
the budget of `Spend` can pay. Two machines let a launcher rent a second one. Three jobs
allow a gate that is killed, one that meets its leftovers, and one more. `MCDispatch`
names the combinations of arguments it leaves out. Deadlock is checked in the runs
of the kernels and of the bias; elsewhere the system may stop (its cfg says why). No
symmetry is used.

Fairness:

* Pipelines: weak fairness of each warp or warp group, and of each load in flight. The
  hardware schedules every warp that no barrier holds and completes every issued
  copy; no actor is preferred over another, and strong fairness is not needed.
* Launchers: weak fairness of each launcher: every call in the scripts has a timeout and
  every wait a deadline, so a process that is not killed goes on. Kills, clouds and the
  watchdog are not obliged to anything. `Rental` asks that a machine does not stay
  held, which is what follows.
* Watchdog: weak fairness of `Tick \/ Fire`, a shell loop with `sleep`.
* No liveness is claimed of the bench, the deployment or the dispatch: nothing obliges
  anybody to call again.

## Known divergences

Where the code does something else than its comments or callers suggest and the
properties are stated around it. Each was met while modelling.

Kernels and interface:

* A tile without blocks loads K of block -1, zero-filled, but V of block 0
  (`flash_fwd_sm90.py:983`; the comment at `:872` has both skipped).
* An explicit `tile_n` below 128 passes the assertions on sm_90, where the kernel
  would read the wrong bias tile for ragged lengths (`flash_fwd_sm90.py:1278`, `:1273`).
* The fused writer with a window to the right leaves columns unwritten
  (`u2_shear_fusion.py:220`, docstring `:41`, `:62`); no layer has such a window.
* The generic kernel with `Q_in_regs` and several stages would read Q before it has landed
  (`flash_fwd.py:1131`); the interface passes one stage. It visits the blocks left of a
  window too ("TODO: local", `:1225`).
* `interface.py`: the shear key lacks the mask_mod and `is_local`; the page assertions of
  head size 256 are skipped on a cache hit (`:1235`); on that head size a bias packs
  the writer's rows only; a block-sparse pattern per head is unpacked (`:709`) after
  the packed heads were counted (`:526`); more than 256 splits are refused by the combine
  (`:1781`) after the forward launch has counted the caller's semaphore; a presheared bias
  with GQA is refused on Blackwell; a window bound of 0 counts as none in the split
  heuristic (`:606`). No caller in the repository combines these arguments.

Bench and deployment (`modal_e2e_bench.py`):

* A warm container takes over the entry of its previous call (`:685`, `:725`, against `:18`).
* A hung run is cut at the container's deadline, not its build's (`:1623`, `:268`).
* A reload makes `_ledger_upsert` (`:710`) read a fresh copy, but does not make its
  read, change and write atomic: with another container booking, a booking can be lost.
* The "HARD CAP" (`:257`) is passed by up to one shutdown of a server and one overrun of the
  greedy probe, because `budget_deadline` (`:1271`) has no margin for the one and a server is
  started without room for the other (`:1497`): hence `+ Overrun + StopTime` in `CapHolds`.
* The same in time: the guard keeps a reserve of 300 s or more after a load, the probe's four
  requests may take 180 s each (`:1038`, 720 s), a shutdown 330 s. A container can so be through
  750 s after its deadline, which is 600 s before Modal's timeout to "leave room to stop the
  server, copy results and commit" (`:293`): 150 s too late. `StopsInTime` has the bound.
* A log that shows no pool (`:963`) makes `_assert_kv_pools_match` return (`:992`), and the
  verdict is True (`:1685`); hence the last premise of `VerdictHonest`.
* With the defaults (deadline 3360 s after the start, guard 600 s + 5400 s at `:1497`)
  no container starts a server; the instances here leave room for one.
* `u3+shear` has nothing that must be absent (`:2375`, comment `:2371`): after a cut backup it
  can keep a router patch. Running u3 again after shear aborts; port or shear on a stock
  checkout aborts with files written.

Boxes and launchers:

* The double-launch guard reads once, and capacity can come days later
  (`grab_b200.py:157`): two launchers can both launch. `book_user_node.py:77` books again
  after an error that follows the booking. The watchdog's one call is not retried.
* `gate_e2e_bench.sh` deploys kernels and never patches the router, so "ours" on eight
  GPUs goes through the stock route. A run file cut short by a kill counts as finished
  when the bench is resumed (`:168`). A `GATES_DONE` of an earlier pipeline starts the
  watchdog's window at once.
* `timeout` kills the logit gate without its `finally`: a server and a patched router
  stay (`kill` in `tainted` of `GatesBox`).
* "Always leave the box in stock state" (`gate_logit_parity.py:577`, `gate_e2e_bench.sh:143`): a
  failing restore is logged by the one (`:580`) and dropped by the other (`|| true`), and the
  pipeline goes on. If the router's half of it
  fails, the bench that follows serves stock kernels behind the patched router, which
  `NoSilentBias` and `StockAtRest` exclude by `route` and `kernels` in `tainted`.
* A backup that fails between two files (`gate_logit_parity.py:307`, `bootstrap_8x.sh:95`) stays,
  and any later run takes it for whole (`backup` in `tainted`).
* `gate_summarize.py:187` counts readable files: a run without one metric leaves no mark at
  the median of that metric.
* The logit gate passes a prompt with no compared position when others have some; and
  after one flipped token later logprobs come from different contexts, so a flip is
  gated in effect although `gate_logit_parity.py:597` says it is not.

## The proofs

Each holds for every value of the constants, from the module's assumptions alone;
`CtaIsTile`, `CachesAreTransparent`, `LaunchesFit` and three theorems about the bias have
hypotheses besides, which are named in the theorem and given below. Every theorem is
`Spec => []P` or a refinement, so it covers runs of any length with any crashes, kills and
faults that the module has.

**`Sm90Pipeline_proof`** (one to three warp groups, any stages and blocks):
`TypeCorrect` (`TypeOK`) and `SlotSafety` (`NoSlotRace`). `NoSlotRace` is not inductive:
it says nothing of why a parity that passes belongs to the right phase. `SlotIInv`
gives each actor and pipe a position (slot and lap) of its next load or release
(`NextLoad`, `NextRead`), and `Uses(s, i)` counts how often an actor at position `s` has
used slot `i`. `SlotInv` ties the barriers to the positions: full phases plus a load in
flight are the producer's uses; the producer is at most one use ahead of the empty
phases and so is each warp group; nobody has released what has not landed; the
pending arrivals are exactly the warp groups that are ahead. Two counters that differ
by at most one are told apart by their parity, so the waits are exact. The argument
is layered: lemmas about one slot on plain functions, the same on the state, one step per
action.

In the second half of the module (on `SlotSafety`; the invariants are in `Sm90PipelineInv`):
`TurnsAreHanded` (`TurnsAlternate`), `EpilogueHasQ` (`EpilogueOwnsQ`), `ProducerExits`
(`ProducerExitClean`), `BlocksStayInStep` (`BlocksInStep`), `CtaIsTile`. `CtaInv` says who may
run what when: there is one turn, held by a warp group or pending on the barrier of the next
one; nobody writes O before all have come to the epilogue; Q is loaded once, and
before it is waited for. For the blocks (`StepInv`), each place of the producer and of a
warp group is tied to the number of loads or reads so far, that number to a block, and
what a slot holds to the load that filled it; `SlotSafety` says it is still there. The
accumulator then is the sequence that `AttentionTile` prescribes, and every step is one of its
steps or a stutter. `CtaIsTile` assumes `TilesHaveWork`: a launch without split-KV has
no empty tile. On an empty one the kernel folds in a block that does not exist (see the
first divergence), so without the hypothesis the theorem is false.

**`CpAsyncPipeline_proof`** (any warps, stages and blocks): `QuietAtTheEnd`
(`QuietEpilogue`). A warp never waits for its newest groups, so what they copy has to be
nothing. The invariant `QuietInv` says that a group of age `a` copies a block whose
number follows from `a`, the depth of the pipeline and where the warp is (`CopyOf`), or
copies nothing if that block does not exist; bias tiles are apart: they have landed
before anybody moves on (`BiasIsNewest`). Waiting keeps ages (`WaitStep`), a commit adds
one to each (`CommitStep`); at block 0 every age that can be in flight gives a negative
block.

`BlockIsTile` (the safety half of `ImplementsTile`) is proved on `QuietInv` with `TileInv`,
in four parts. `Placed`: the age of a group also says into which stage it copies
(`AreaOf`), and the read and write stages follow from the block number, newest block first
round the stages (`StageOf`). `Held`: a warp's share of a stage holds the newest block due
there, landed or on its way, Q and the bias tile likewise; a wait leaves only
copies that are less than a round of the stages younger than the block about to be read,
so none is on its way to its stage (`KLanded`, `VLanded`, `RemaindersApart`). All this is
about one warp, while a read needs the shares of all of them: `Barriers` ties the number of a
warp's arrivals to its place and block (`Arrivals`) and keeps any two warps within one
barrier, so that where a warp reads, the others have waited for their share and have not
yet begun to overwrite it (`WhoIsWhere`, `Reads`). `Results` then takes the scores, the bias and V of
one block to the accumulator that `AttentionTile` prescribes. There is no
hypothesis: several stages with Q in registers, which the kernel would get wrong and
nobody asks for, are excluded by the assumption of the module (see the divergences), and an empty
tile stays one of the abstract tile, which folds block 0 in, all of it masked.

**`RelBias_proof`** (any block size, launches and batches): `ColumnsAreWrittenOnce`
(`WrittenOnce`), `BiasIsThatOfTheDistance` (`BiasIsDistance`), `KeysAreVisited` (`KeysOnce`),
`CopiesStayInTheRow` (`TilesInBuffer`). `WriteInv` gives every cell of the buffer the one
program that writes it (`RowProg`, `ColProg`): the cell is unset while that program is
still to run and ShearingBias's afterwards, so the order of the programs does not
matter; that each program finds its cell in its slice, and each cell its program in the
grid, is arithmetic of `\div` (`CellHasProgram`, `StoresOfProgram`), for which `Base` lies in
1 .. 256 (`BaseRange`). `ReadInv` gives the score of a key by the blocks seen so far: those
of the splits that are through, and in this split those above the counter; the splits lie
apart (`SplitsApart`), the mainloop's parts leave no gap (`Bounds`), and a visible key's
block belongs to a split (`BlockHasSplit`). `ColumnOfKey` and `CellOfKey` then take the
reader's column, computed from its tile shift, to the cell that the writer gave the
distance; they need `Block` to be a multiple of `tile_n`, as it is of every `tile_n` that
`interface.py` picks for a bias (its comment at `:543`).
Hypotheses: `FusedHasNoRightWindow` (`KeysAreVisited` has it only because a column written
twice would show as a clash of its key) and, for the bias, `Sm90TileIsBlock`. Both are
false of launches that the assertions let through and no layer makes (two of the
divergences), and there the properties fail. `CopiesStayInTheRow` has no hypothesis.

**`ModalBench_proof`** (any setting): `ModalInvariant`, `VerdictIsHonest`
(`VerdictHonest`), `ResultsAreKept` (`ResultsKept`). The properties speak of finished
matrices; the invariant says what a build in progress owes the Volume: what is left to
do has no result yet, the pool of the server is the one on file unless its log did not show
it, and for each complete build with a pool on file it is one on which it was measured.

Of time and money: `AccountInvariant`, `ContainersStopInTime` (`StopsInTime`), `SpendIsCapped`
(`CapHolds`), `LedgerOnlyGrows` (`LedgerGrows`). `TimeInv` bounds each container's clock by
where it is: a load leaves the least reserve, the probe goes past the deadline by no more than
`Overrun`, a run begins only before it, and the shutdown comes last. `MoneyInv` is the account: what
was spent is what the ledger holds, plus what the running container has not booked
yet, plus what escaped (for one container at a time, as in `CapHolds`). The sum over the ledger is a fold; lemmas say what it does
when one entry changes.

**`GpuFleet_proof`** (any launchers and machines): `FleetInvariant`, `NoneBillsUnheld`
(`NoBillUnheld`), `OneMachineForEach` (`OneMachineEach`), `FleetIsRental`: the initial
state is one of `Rental` and every step is one of its steps or a stutter. The invariant
says who may touch a machine: a process knows at most one id, that of a machine that
its own call rented, from the launch to its end.

**`GatesBox_proof`** (any jobs, cap and window): `BoxInvariant`, `BackupsAreStock`
(`BackupNeverOurs`), `NumbersAreOfTheirBuild` (`MeasuredOnItsKernels`), `BiasIsNeverDropped`
(`NoSilentBias`), `StockIsRestored` (`StockAtRest`), `WatchdogKeepsBounds` (`WatchdogBounds`). The
invariant has three layers: `DiskInv`, a directory is backed up before it is modified, for
every leftover of a killed job; `CleanInv`, by cause: without half a backup, the kernels that
are installed and served are those of the build at hand (`KernelsInv`), without a kill, a
server is one of the running script (`ServerInv`), without a failed restore of the router, it is
patched only inside the gate (`RouteInv`), and what a failed restore leaves is on record
(`RestoreInv`; nothing is taken off the record, `TaintsStay`); `WatchInv`,
the deadline of the watchdog is the cap or lies a window after the marker.

The last section of that module is about the tools that judge what was measured, with
`Verdicts` as an instance (they share no state with the box): `CasesAreReported`
(`NothingDropped`) and `LossesAreNamed` (`NoLossCleared`), for any files, tolerances and
band. A report is that of `Report` on the files (`ReportIsOf`); each case goes to the
section of its kind (`OneCaseOneSection`); a loss is listed or, in a band above 0, named
with it (`RowsOfLosses`), and the gate looks at both (`LossesExit`). `LossesAreNamed`
repeats `VerdictAssumption`, since an instance does not carry it.

**`Dispatch_proof`** (any calls): `CachesAreTransparent` (`CacheTransparent`), `LaunchesFit`
(`LaunchesAgree`). `CacheInv` says that an entry was built by a call which had its key; one
lemma per cache says that two calls with one key want the same kernel. Its hypothesis
`BiasUnmasked` excludes a bias together with a mask_mod, where the shear key is
incomplete (see the divergences). `AgreeInv` carries the resolved arguments through the
launches of a call. Its hypothesis `AsServed` lists what the callers keep to; without it
the assertions of `interface.py` let combinations through that do not fit, the ones that
`MCDispatch` leaves out.

**`ModalDeploy_proof`** (any harnesses, deadlines and calls): `DeployInvariant`, `ReadyIsExact`
(`DeployedExactly`), `SetupsFailOnFaults` (`FailsOnlyOnFault`), `ScriptsAreAtomic`
(`AbortsWriteNothing`), `ArtifactsAreOwn` (`ArtifactsFresh`), `KillLosesOneStep` (`LosesOneStep`).
None of the file properties is inductive: a call inherits what any earlier one left at any
file. `SavedInv` says what a backup holds: stock files, a prefix of the copying order, and a
short one is marked. `TreeInv` gives the `Shape` of the files, what can have been done to each
of them by any mixture of overlay and scripts; it is what keeps anchors whole. `PhaseInv` has
for each place of a setup what is already certain of each file there. Lemmas compute how
far a script gets on a tree of that shape (`Reach`), what it writes (`Patched`), and what no, one
or two scripts leave. For runs by hand the invariant follows single marks: a file that
lost its anchor to a script has that script's mark.

Only model-checked: liveness, and two verdicts. Liveness (termination of tiles,
`Rental`'s fairness, `WatchdogActs`) is outside the prover's reach: the refinement
theorems state the safety half. `GateIsPooled` and `TableIsMeasured` are about what a sum, a
filter and a sort return for a list of any length, which takes an induction over the list
that cannot be proved here.

## Not modelled

Block sparsity inside the kernels; Q by cp.async on sm_90; a persistent tile loop; warps
inside a warp group (a wgmma is issued by all four); the numerical content of scores;
score_mod and mask_mod inside a kernel; learnable sinks; requests with fewer keys than
queries; clusters (the kernels use none). The MLA path and quantised inputs of the
interface. What the bench's greedy probe answers (its time is modelled), `download_model` and the wording of reports. An
unhandled exception of `run_bench` is taken to end its process at once, as the code's
comment on `atexit` assumes. Security groups, key pairs, ssh and installation of
packages. The score_mod prototype, microbenchmarks, figures and one-off scripts
have no state and no protocol.

## Plan

Every safety property that a passing run checks is a theorem now, but for `GateIsPooled` and
`TableIsMeasured`; the refinements are proved in their safety half. The hazards without a
property in `PROJECT.json` are known divergences: a property for one of them is worth writing
when the code is changed to keep it (one writer of the ledger, a launcher that looks again
after its wait, run files that are renamed into place, an empty tile that loads nothing).
