---------------------------- MODULE Sm90Pipeline ----------------------------
(***************************************************************************)
(* One CTA of the Hopper attention kernel in                               *)
(* src/kernels/tml_fa4_modified/flash_fwd_sm90.py: a producer warp that    *)
(* issues TMA loads of Q and of the K and V blocks of one work tile, and   *)
(* NumWG MMA warp groups that consume them, synchronised by the mbarriers  *)
(* of three smem pipelines and by named barriers.                          *)
(*                                                                         *)
(* Granularity.  A warp group is one actor (wgmma is warp-group wide).     *)
(* Waiting for a barrier and issuing what follows it is one step; the      *)
(* completion of an asynchronous TMA load or wgmma is a step of its own.   *)
(* K and V pipelines hold NumStages slots each.  A mbarrier is its number  *)
(* of completed phases, of which a waiter observes only the parity.        *)
(*                                                                         *)
(* The schedulers the kernel selects are the SingleTile ones, with         *)
(* is_persistent=False: a CTA processes one tile, whose block range is     *)
(* chosen in Init.                                                         *)
(***************************************************************************)
EXTENDS Integers, Sequences, FiniteSets

CONSTANTS
  NumWG,           \* num_wg_mma, 1 to 3
  NumStages,       \* num_stages of the K and V pipelines
  IntraWgOverlap,  \* intra_wg_overlap
  UseTmaKV,        \* use_tma_KV: FALSE for paged KV with another page size
  TileHdim,        \* tile_hdim
  IsSplitKV,       \* is_split_kv
  Ranges           \* the <<n_block_min, n_block_max>> a work tile can have

ASSUME ConstAssumption ==
  /\ NumWG \in 1..3
  /\ NumStages \in Nat \ {0}
  /\ IntraWgOverlap \in BOOLEAN
  /\ UseTmaKV \in BOOLEAN
  /\ TileHdim \in Nat
  /\ IsSplitKV \in BOOLEAN
  /\ Ranges \subseteq Nat \X Int

WG == 1..NumWG
Slots == 0 .. NumStages - 1
Pipes == {"K", "V"}

UseSchedulerBarrier == IF IntraWgOverlap THEN NumWG >= 2 /\ TileHdim <= 128
                                         ELSE NumWG = 2

\* The epilogue stores O by TMA, from warp 4 of the first warp group, except
\* for a split partial, which every warp group stores itself.
UseTmaO == ~IsSplitKV

VARIABLES
  nBlockMin, nBlockMax, \* the work tile's block range
  full,      \* pipe -> slot -> completed phases of the full mbarrier
  empty,     \* pipe -> slot -> completed phases of the empty mbarrier
  arrived,   \* pipe -> slot -> arrivals in the empty mbarrier's current phase
  loading,   \* pipe -> slot -> a load into the slot is in flight
  buf,       \* pipe -> slot -> the block last loaded or being loaded
  qbuf,      \* sQ: "none", "loading", "q"
  ppc, pkv, pprev, pn,      \* producer: pc, kv_producer_state, its clone, n_block
  pc, kv, kvV, n,           \* warp groups: pc, smem_pipe_read, its clone, n_block
  sreg,      \* acc_S: the block whose scores it holds, and the n_block it is for
  preg,      \* tOrP: the same for the probabilities
  acc,       \* acc_O: the sequence of blocks accumulated so far
  turn,      \* WarpSchedulerWG barriers: the pending arrival, 0 or 1
  sO,        \* rows of sO (aliasing sQ) written by the warp group's epilogue
  stored     \* rows of O in global memory

tileVars == <<nBlockMin, nBlockMax>>
pipeVars == <<full, empty, arrived, loading, buf>>
prodVars == <<ppc, pkv, pprev, pn>>
regVars  == <<sreg, preg, acc>>
wgVars   == <<pc, kv, kvV, n, sreg, preg, acc>>
outVars  == <<sO, stored>>
vars == <<nBlockMin, nBlockMax, full, empty, arrived, loading, buf, qbuf,
          ppc, pkv, pprev, pn, pc, kv, kvV, n, sreg, preg, acc, turn, sO, stored>>

\* An empty split has nothing to load; without split-KV the test is the
\* constant True, even for a tile that has no block.
HasWork == IsSplitKV => nBlockMin < nBlockMax

-----------------------------------------------------------------------------
(* PipelineState: the slot index and the number of times it wrapped, whose *)
(* parity is the phase bit.  The producer's phase starts at 1.             *)

State0 == [index |-> 0, lap |-> 0]

Advance(s) == IF s.index = NumStages - 1
              THEN [index |-> 0, lap |-> s.lap + 1]
              ELSE [index |-> s.index + 1, lap |-> s.lap]

\* mbarrier wait with a parity: passes when the phase of that parity is complete.
CanAcquire(p, s) == empty[p][s.index] % 2 # (s.lap + 1) % 2
IsFull(p, s)     == full[p][s.index] % 2 # s.lap % 2

\* producer_acquire has passed: the load of block b into the slot is issued.
Issue(p, s, b) ==
  /\ CanAcquire(p, s)
  /\ loading' = [loading EXCEPT ![p][s.index] = TRUE]
  /\ buf' = [buf EXCEPT ![p][s.index] = b]
  /\ UNCHANGED <<full, empty, arrived>>

\* The transaction bytes arrived: the full mbarrier completes its phase.
Land(p, i) ==
  /\ loading[p][i]
  /\ loading' = [loading EXCEPT ![p][i] = FALSE]
  /\ full' = [full EXCEPT ![p][i] = @ + 1]
  /\ UNCHANGED <<tileVars, empty, arrived, buf, qbuf, prodVars, wgVars, turn, outVars>>

\* Mutants: a consumer group of one, so that the first release frees the slot;
\* a phase that completes without resetting its arrival count.
BugReleaseByOne(p, s) ==
  /\ empty' = [empty EXCEPT ![p][s.index] = @ + 1]
  /\ UNCHANGED <<full, arrived, loading, buf>>

BugReleaseNoReset(p, s) ==
  /\ arrived' = [arrived EXCEPT ![p][s.index] = @ + 1]
  /\ empty' = IF arrived[p][s.index] + 1 = NumWG
              THEN [empty EXCEPT ![p][s.index] = @ + 1] ELSE empty
  /\ UNCHANGED <<full, loading, buf>>

\* consumer_release: one arrival per warp group on the empty mbarrier.
Release(p, s) ==
  /\ IF arrived[p][s.index] + 1 = NumWG
     THEN /\ arrived' = [arrived EXCEPT ![p][s.index] = 0]
          /\ empty' = [empty EXCEPT ![p][s.index] = @ + 1]
     ELSE /\ arrived' = [arrived EXCEPT ![p][s.index] = @ + 1]
          /\ empty' = empty
  /\ UNCHANGED <<full, loading, buf>>

-----------------------------------------------------------------------------
(* The WarpScheduler named barriers: an arrival of the other warp group and *)
(* the warp group's own sync complete one phase.  A second arrival before   *)
(* the sync also completes the phase, and the turn is lost.                 *)

SchedSync(w) == IF UseSchedulerBarrier
                THEN turn[w] = 1 /\ turn' = [turn EXCEPT ![w] = 0]
                ELSE UNCHANGED turn

NextWG(w) == IF w = NumWG THEN 1 ELSE w + 1

SchedArrive(w) == turn' = IF UseSchedulerBarrier
                          THEN [turn EXCEPT ![NextWG(w)] = 1 - @]
                          ELSE turn

-----------------------------------------------------------------------------
(* The producer warp.                                                      *)

\* K0 Q V0 K1 V1 ... unless the consumers overlap and TMA loads K and V:
\* then K0 Q K1 V0 K2 V1 ... V(n-1).
InOrder == ~IntraWgOverlap \/ ~UseTmaKV

FirstBlock == IF UseTmaKV \/ nBlockMax > 0 THEN nBlockMax - 1 ELSE 0

LoadFirstK ==
  /\ ppc = "first_k"
  /\ Issue("K", pkv, pn)
  /\ ppc' = "q"
  /\ UNCHANGED <<tileVars, qbuf, pkv, pprev, pn, wgVars, turn, outVars>>

\* The Q pipeline has one stage and one tile: the acquire passes at once.
LoadQ ==
  /\ ppc = "q"
  /\ qbuf' = "loading"
  /\ ppc' = IF ~HasWork THEN "tail"
            ELSE IF InOrder THEN "v"
            ELSE IF pn > nBlockMin THEN "k" ELSE "last_v"
  /\ UNCHANGED <<tileVars, pipeVars, pkv, pprev, pn, wgVars, turn, outVars>>

LandQ ==
  /\ qbuf = "loading"
  /\ qbuf' = "q"
  /\ UNCHANGED <<tileVars, pipeVars, prodVars, wgVars, turn, outVars>>

\* Mutant: V loaded at the last block's index, as on the path after the loop.
BugLoadVStale ==
  /\ ppc = "v"
  /\ Issue("V", pkv, nBlockMin)
  /\ pkv' = Advance(pkv)
  /\ IF pn > nBlockMin THEN ppc' = "k" /\ pn' = pn - 1
                       ELSE ppc' = "tail" /\ pn' = pn
  /\ UNCHANGED <<tileVars, qbuf, pprev, wgVars, turn, outVars>>

LoadV ==
  /\ ppc = "v"
  /\ Issue("V", pkv, pn)
  /\ pkv' = Advance(pkv)
  /\ IF pn > nBlockMin THEN ppc' = "k" /\ pn' = pn - 1
                       ELSE ppc' = "tail" /\ pn' = pn
  /\ UNCHANGED <<tileVars, qbuf, pprev, wgVars, turn, outVars>>

LoadK ==
  /\ ppc = "k" /\ InOrder
  /\ Issue("K", pkv, pn)
  /\ ppc' = "v"
  /\ UNCHANGED <<tileVars, qbuf, pkv, pprev, pn, wgVars, turn, outVars>>

\* Overlap: the state is cloned and advanced, the next K goes to the new
\* slot, and the V of the previous block to the slot of the clone.
LoadNextK ==
  /\ ppc = "k" /\ ~InOrder
  /\ Issue("K", Advance(pkv), pn - 1)
  /\ pprev' = pkv
  /\ pkv' = Advance(pkv)
  /\ pn' = pn - 1
  /\ ppc' = "prev_v"
  /\ UNCHANGED <<tileVars, qbuf, wgVars, turn, outVars>>

\* Mutant: the V of the new block instead of n_block_prev.
BugLoadPrevV ==
  /\ ppc = "prev_v"
  /\ Issue("V", pprev, pn)
  /\ ppc' = IF pn > nBlockMin THEN "k" ELSE "last_v"
  /\ UNCHANGED <<tileVars, qbuf, pkv, pprev, pn, wgVars, turn, outVars>>

LoadPrevV ==
  /\ ppc = "prev_v"
  /\ Issue("V", pprev, pn + 1)
  /\ ppc' = IF pn > nBlockMin THEN "k" ELSE "last_v"
  /\ UNCHANGED <<tileVars, qbuf, pkv, pprev, pn, wgVars, turn, outVars>>

LoadLastV ==
  /\ ppc = "last_v"
  /\ Issue("V", pkv, nBlockMin)
  /\ pkv' = Advance(pkv)
  /\ ppc' = "tail"
  /\ UNCHANGED <<tileVars, qbuf, pprev, pn, wgVars, turn, outVars>>

\* producer_tail on V: waits until the slot it used last is released.
LastUsed(s) == IF s.index = 0 THEN [index |-> NumStages - 1, lap |-> s.lap]
                              ELSE [index |-> s.index - 1, lap |-> s.lap + 1]

\* Mutant: no producer_tail.
BugNoTail ==
  /\ ppc = "tail"
  /\ ppc' = "done"
  /\ UNCHANGED <<tileVars, pipeVars, qbuf, pkv, pprev, pn, wgVars, turn, outVars>>

ProducerTail ==
  /\ ppc = "tail"
  /\ CanAcquire("V", LastUsed(pkv))
  /\ ppc' = "done"
  /\ UNCHANGED <<tileVars, pipeVars, qbuf, pkv, pprev, pn, wgVars, turn, outVars>>

Producer == \/ LoadFirstK \/ LoadQ \/ LoadV \/ LoadK
            \/ LoadNextK \/ LoadPrevV \/ LoadLastV \/ ProducerTail

-----------------------------------------------------------------------------
(* The MMA warp groups.  "qk" and "pv" are wgmmas in flight.               *)

Goto(w, l) == pc' = [pc EXCEPT ![w] = l]

Scores(w, s) == [k |-> buf["K"][s.index], n |-> n[w]]
Accumulated(w, s) == Append(acc[w], [k |-> preg[w].k, n |-> preg[w].n,
                                     v |-> buf["V"][s.index]])

WaitQ(w) ==
  /\ pc[w] = "wait_q" /\ qbuf = "q"
  /\ Goto(w, IF ~HasWork THEN "empty"
             ELSE IF IntraWgOverlap THEN "first_k" ELSE "first_sync")
  /\ UNCHANGED <<tileVars, pipeVars, qbuf, prodVars, kv, kvV, n, regVars, turn, outVars>>

\* An empty split consumes nothing: its O is zero and its LSE minus infinity.
EmptySplit(w) ==
  /\ pc[w] = "empty"
  /\ Goto(w, "epi")
  /\ UNCHANGED <<tileVars, pipeVars, qbuf, prodVars, kv, kvV, n, regVars, turn, outVars>>

(* mma_one_n_block: no overlap *)

\* Mutant: the first QK without the scheduler barrier.
BugNoFirstSync(w) ==
  /\ pc[w] = "first_sync"
  /\ Goto(w, "k")
  /\ UNCHANGED <<tileVars, pipeVars, qbuf, prodVars, kv, kvV, n, regVars, turn, outVars>>

FirstSync(w) ==
  /\ pc[w] = "first_sync" /\ SchedSync(w)
  /\ Goto(w, "k")
  /\ UNCHANGED <<tileVars, pipeVars, qbuf, prodVars, kv, kvV, n, regVars, outVars>>

IssueQK(w) ==
  /\ pc[w] = "k" /\ ~IntraWgOverlap /\ IsFull("K", kv[w])
  /\ Goto(w, "qk")
  /\ UNCHANGED <<tileVars, pipeVars, qbuf, prodVars, kv, kvV, n, regVars, turn, outVars>>

PassTurn(w) ==
  /\ pc[w] = "qk" /\ SchedArrive(w)
  /\ Goto(w, "qk_drain")
  /\ UNCHANGED <<tileVars, pipeVars, qbuf, prodVars, kv, kvV, n, regVars, outVars>>

DrainQK(w) ==
  /\ pc[w] = "qk_drain" /\ ~IntraWgOverlap
  /\ preg' = [preg EXCEPT ![w] = Scores(w, kv[w])]
  /\ Release("K", kv[w])
  /\ Goto(w, "v")
  /\ UNCHANGED <<tileVars, qbuf, prodVars, kv, kvV, n, sreg, acc, turn, outVars>>

WaitV(w) ==
  /\ pc[w] = "v" /\ ~IntraWgOverlap /\ IsFull("V", kv[w])
  /\ Goto(w, "pv_sync")
  /\ UNCHANGED <<tileVars, pipeVars, qbuf, prodVars, kv, kvV, n, regVars, turn, outVars>>

IssuePV(w) ==
  /\ pc[w] = "pv_sync" /\ SchedSync(w)
  /\ Goto(w, "pv")
  /\ UNCHANGED <<tileVars, pipeVars, qbuf, prodVars, kv, kvV, n, regVars, outVars>>

\* The loops of mma() hand over n_block_max - 1 down to n_block_min.
NextBlock(w) == IF n[w] > nBlockMin
                THEN Goto(w, "k") /\ n' = [n EXCEPT ![w] = @ - 1]
                ELSE Goto(w, "release_q") /\ n' = n

DrainPV(w) ==
  /\ pc[w] = "pv" /\ ~IntraWgOverlap
  /\ acc' = [acc EXCEPT ![w] = Accumulated(w, kv[w])]
  /\ Release("V", kv[w])
  /\ kv' = [kv EXCEPT ![w] = Advance(@)]
  /\ NextBlock(w)
  /\ UNCHANGED <<tileVars, qbuf, prodVars, kvV, sreg, preg, turn, outVars>>

(* first_half_block_overlap, mma_one_n_block_intrawg_overlap and           *)
(* last_half_block_overlap                                                 *)

FirstQK(w) ==
  /\ pc[w] = "first_k" /\ IsFull("K", kv[w])
  /\ Goto(w, "first_qk")
  /\ UNCHANGED <<tileVars, pipeVars, qbuf, prodVars, kv, kvV, n, regVars, turn, outVars>>

DrainFirstQK(w) ==
  /\ pc[w] = "first_qk"
  /\ preg' = [preg EXCEPT ![w] = Scores(w, kv[w])]
  /\ Release("K", kv[w])
  /\ NextBlock(w)
  /\ UNCHANGED <<tileVars, qbuf, prodVars, kv, kvV, sreg, acc, turn, outVars>>

\* Mutant: the state is cloned after it was advanced.
BugCloneAfterAdvance(w) ==
  /\ pc[w] = "k" /\ IntraWgOverlap /\ IsFull("K", Advance(kv[w]))
  /\ kvV' = [kvV EXCEPT ![w] = Advance(kv[w])]
  /\ kv' = [kv EXCEPT ![w] = Advance(@)]
  /\ Goto(w, "qk_sync")
  /\ UNCHANGED <<tileVars, pipeVars, qbuf, prodVars, n, regVars, turn, outVars>>

WaitNextK(w) ==
  /\ pc[w] = "k" /\ IntraWgOverlap /\ IsFull("K", Advance(kv[w]))
  /\ kvV' = [kvV EXCEPT ![w] = kv[w]]
  /\ kv' = [kv EXCEPT ![w] = Advance(@)]
  /\ Goto(w, "qk_sync")
  /\ UNCHANGED <<tileVars, pipeVars, qbuf, prodVars, n, regVars, turn, outVars>>

\* Mutant: QK of the loop issued without the turn.
BugNoLoopSync(w) ==
  /\ pc[w] = "qk_sync"
  /\ Goto(w, "v")
  /\ UNCHANGED <<tileVars, pipeVars, qbuf, prodVars, kv, kvV, n, regVars, turn, outVars>>

IssueNextQK(w) ==
  /\ pc[w] = "qk_sync" /\ SchedSync(w)
  /\ Goto(w, "v")
  /\ UNCHANGED <<tileVars, pipeVars, qbuf, prodVars, kv, kvV, n, regVars, outVars>>

\* P V of the previous block runs beside Q K of the next one.
IssuePrevPV(w) ==
  /\ pc[w] = "v" /\ IntraWgOverlap /\ IsFull("V", kvV[w])
  /\ Goto(w, "qk")
  /\ UNCHANGED <<tileVars, pipeVars, qbuf, prodVars, kv, kvV, n, regVars, turn, outVars>>

\* wait_group(1): the older of the two wgmmas, Q K, is complete.
DrainNextQK(w) ==
  /\ pc[w] = "qk_drain" /\ IntraWgOverlap
  /\ sreg' = [sreg EXCEPT ![w] = Scores(w, kv[w])]
  /\ Release("K", kv[w])
  /\ Goto(w, "pv")
  /\ UNCHANGED <<tileVars, qbuf, prodVars, kv, kvV, n, preg, acc, turn, outVars>>

DrainPrevPV(w) ==
  /\ pc[w] = "pv" /\ IntraWgOverlap
  /\ acc' = [acc EXCEPT ![w] = Accumulated(w, kvV[w])]
  /\ preg' = [preg EXCEPT ![w] = sreg[w]]
  /\ Release("V", kvV[w])
  /\ NextBlock(w)
  /\ UNCHANGED <<tileVars, qbuf, prodVars, kv, kvV, sreg, turn, outVars>>

LastPV(w) ==
  /\ pc[w] = "last_v" /\ IsFull("V", kv[w])
  /\ Goto(w, "last_pv")
  /\ UNCHANGED <<tileVars, pipeVars, qbuf, prodVars, kv, kvV, n, regVars, turn, outVars>>

DrainLastPV(w) ==
  /\ pc[w] = "last_pv"
  /\ acc' = [acc EXCEPT ![w] = Accumulated(w, kv[w])]
  /\ Release("V", kv[w])
  /\ kv' = [kv EXCEPT ![w] = Advance(@)]
  /\ Goto(w, "epi")
  /\ UNCHANGED <<tileVars, qbuf, prodVars, kvV, n, sreg, preg, turn, outVars>>

\* Q is released for a next tile, which the single-tile schedulers never
\* deliver; without overlap the turn is passed on once more.
ReleaseQ(w) ==
  /\ pc[w] = "release_q"
  /\ IF IntraWgOverlap THEN Goto(w, "last_v") /\ UNCHANGED turn
                       ELSE Goto(w, "epi") /\ SchedArrive(w)
  /\ UNCHANGED <<tileVars, pipeVars, qbuf, prodVars, kv, kvV, n, regVars, outVars>>

(* epilogue *)

EpiloguePCs == {"epi", "write_o", "store_o", "done"}

\* Mutant: no barrier before O overwrites sQ.
BugNoEpilogueBarrier(w) ==
  /\ pc[w] = "epi"
  /\ Goto(w, "write_o")
  /\ UNCHANGED <<tileVars, pipeVars, qbuf, prodVars, kv, kvV, n, regVars, turn, outVars>>

\* A named barrier over all MMA threads lets a warp group pass once each of
\* them has reached it.
EpilogueBarrier(w) ==
  /\ pc[w] = "epi"
  /\ \A v \in WG : pc[v] \in EpiloguePCs
  /\ Goto(w, "write_o")
  /\ UNCHANGED <<tileVars, pipeVars, qbuf, prodVars, kv, kvV, n, regVars, turn, outVars>>

\* The first warp group holds warp 4, which stores the tile by TMA; the
\* others only arrive.  Without TMA each warp group goes on to store.
WriteSmemO(w) ==
  /\ pc[w] = "write_o"
  /\ sO' = [sO EXCEPT ![w] = TRUE]
  /\ Goto(w, IF UseTmaO /\ w # 1 THEN "done" ELSE "store_o")
  /\ UNCHANGED <<tileVars, pipeVars, qbuf, prodVars, kv, kvV, n, regVars, turn, stored>>

\* The second epilogue barrier, then the store.  The copy out of sO reads rows
\* that other warp groups wrote: a stored row is good if it had been written.
StoreO(w) ==
  /\ pc[w] = "store_o"
  /\ \A v \in WG : pc[v] \in {"store_o", "done"}
  /\ stored' = [v \in WG |-> IF UseTmaO \/ v = w THEN sO = [u \in WG |-> TRUE]
                                                 ELSE stored[v]]
  /\ Goto(w, "done")
  /\ UNCHANGED <<tileVars, pipeVars, qbuf, prodVars, kv, kvV, n, regVars, turn, sO>>

WarpGroup(w) ==
  \/ WaitQ(w) \/ EmptySplit(w) \/ ReleaseQ(w)
  \/ FirstSync(w) \/ IssueQK(w) \/ PassTurn(w) \/ DrainQK(w)
  \/ WaitV(w) \/ IssuePV(w) \/ DrainPV(w)
  \/ FirstQK(w) \/ DrainFirstQK(w) \/ WaitNextK(w) \/ IssueNextQK(w)
  \/ IssuePrevPV(w) \/ DrainNextQK(w) \/ DrainPrevPV(w)
  \/ LastPV(w) \/ DrainLastPV(w)
  \/ EpilogueBarrier(w) \/ WriteSmemO(w) \/ StoreO(w)

-----------------------------------------------------------------------------
None == [k |-> 0, n |-> 0]

Init ==
  /\ \E r \in Ranges : nBlockMin = r[1] /\ nBlockMax = r[2]
  /\ full = [p \in Pipes |-> [i \in Slots |-> 0]]
  /\ empty = [p \in Pipes |-> [i \in Slots |-> 0]]
  /\ arrived = [p \in Pipes |-> [i \in Slots |-> 0]]
  /\ loading = [p \in Pipes |-> [i \in Slots |-> FALSE]]
  /\ buf = [p \in Pipes |-> [i \in Slots |-> 0]]
  /\ qbuf = "none"
  /\ ppc = IF HasWork THEN "first_k" ELSE "q"
  /\ pkv = State0 /\ pprev = State0
  /\ pn = FirstBlock
  /\ pc = [w \in WG |-> "wait_q"]
  /\ kv = [w \in WG |-> State0] /\ kvV = [w \in WG |-> State0]
  /\ n = [w \in WG |-> nBlockMax - 1]
  /\ sreg = [w \in WG |-> None] /\ preg = [w \in WG |-> None]
  /\ acc = [w \in WG |-> <<>>]
  \* mma_init: the first warp group arrives on its own scheduler barrier
  /\ turn = [w \in WG |-> IF UseSchedulerBarrier /\ w = 1 THEN 1 ELSE 0]
  /\ sO = [w \in WG |-> FALSE]
  /\ stored = [w \in WG |-> FALSE]

AllDone == ppc = "done" /\ \A w \in WG : pc[w] = "done"

\* The CTA has exited: nothing is left to do.
Exited == AllDone /\ UNCHANGED vars

Next == \/ Producer
        \/ LandQ
        \/ \E p \in Pipes, i \in Slots : Land(p, i)
        \/ \E w \in WG : WarpGroup(w)
        \/ Exited

\* Warps that are not blocked are scheduled, and issued loads complete.
Fairness == /\ WF_vars(Producer)
            /\ WF_vars(LandQ)
            /\ \A p \in Pipes, i \in Slots : WF_vars(Land(p, i))
            /\ \A w \in WG : WF_vars(WarpGroup(w))

Spec == Init /\ [][Next]_vars /\ Fairness
-----------------------------------------------------------------------------
(* Properties.                                                             *)

States == [index : Slots, lap : Nat]
Regs == [k : Int, n : Int]

TileTyped == nBlockMin \in Nat /\ nBlockMax \in Int

PipesTyped ==
  /\ full \in [Pipes -> [Slots -> Nat]]
  /\ empty \in [Pipes -> [Slots -> Nat]]
  /\ arrived \in [Pipes -> [Slots -> 0 .. NumWG - 1]]
  /\ loading \in [Pipes -> [Slots -> BOOLEAN]]
  /\ buf \in [Pipes -> [Slots -> Int]]

ProducerTyped ==
  /\ qbuf \in {"none", "loading", "q"}
  /\ ppc \in {"first_k", "q", "v", "k", "prev_v", "last_v", "tail", "done"}
  /\ pkv \in States /\ pprev \in States /\ pn \in Int

WGPCs == {"wait_q", "empty", "first_sync", "k", "qk", "qk_drain", "v", "pv_sync",
          "pv", "first_k", "first_qk", "qk_sync", "last_v", "last_pv",
          "release_q", "epi", "write_o", "store_o", "done"}

ConsumersTyped ==
  /\ pc \in [WG -> WGPCs]
  /\ kv \in [WG -> States] /\ kvV \in [WG -> States] /\ n \in [WG -> Int]

ResultsTyped ==
  /\ sreg \in [WG -> Regs] /\ preg \in [WG -> Regs]
  /\ acc \in [WG -> Seq([k : Int, n : Int, v : Int])]
  /\ turn \in [WG -> {0, 1}]
  /\ sO \in [WG -> BOOLEAN] /\ stored \in [WG -> BOOLEAN]

\* Every variable has its type; in particular an empty mbarrier never counts
\* as many arrivals as there are warp groups, and a slot index never leaves the
\* ring.
TypeOK == TileTyped /\ PipesTyped /\ ProducerTyped /\ ConsumersTyped /\ ResultsTyped

\* The warp group has a Q K product in flight, which reads a K slot and sQ.
QKInFlight(w) == \/ pc[w] \in {"qk", "qk_drain", "first_qk"}
                 \/ pc[w] = "v" /\ IntraWgOverlap

\* The slots that wgmmas in flight read: K at smem_pipe_read, V at its clone in
\* the overlapping loop and at smem_pipe_read elsewhere.
ReadsK(w, i) == QKInFlight(w) /\ i = kv[w].index
ReadsV(w, i) ==
  \/ i = kv[w].index /\ (pc[w] = "last_pv" \/ (pc[w] = "pv" /\ ~IntraWgOverlap))
  \/ i = kvV[w].index /\ IntraWgOverlap /\ pc[w] \in {"qk", "qk_drain", "pv"}

\* No TMA load is in flight into a slot that a wgmma in flight reads: the
\* empty and full mbarriers of flash_fwd_sm90.py keep the producer off a slot
\* from its landing to the last warp group's release, although a waiter sees
\* only the parity of a phase.
NoSlotRace == \A w \in WG, i \in Slots :
  /\ ReadsK(w, i) => ~loading["K"][i]
  /\ ReadsV(w, i) => ~loading["V"][i]

\* The j-th block a warp group accumulates is n_block_max - j, and the slot its
\* scores came from, the n_block its mask and bias were computed for and the V
\* slot it multiplied with all agree on that.
BlocksInStep == nBlockMin < nBlockMax =>
  \A w \in WG : \A j \in 1 .. Len(acc[w]) :
    LET b == nBlockMax - j IN acc[w][j] = [k |-> b, n |-> b, v |-> b]

\* Between its sync and its arrive a warp group holds the tensor cores' turn.
HasTurn(w) == pc[w] \in IF IntraWgOverlap THEN {"v", "qk"}
                                          ELSE {"k", "qk", "pv", "release_q"}

\* The turn barriers hand the turn round: two warp groups never hold it
\* together, and none arrives on a barrier whose last arrival is not yet
\* consumed (the phase would complete with nobody waiting: a lost turn).
TurnsAlternate == UseSchedulerBarrier =>
  /\ \A v, w \in WG : HasTurn(v) /\ HasTurn(w) => v = w
  /\ \A w \in WG : HasTurn(w) => turn[NextWG(w)] = 0

\* sO aliases sQ: no warp group writes its output rows while another can still
\* read Q or a load of Q is in flight, and what is stored was all written.
EpilogueOwnsQ ==
  /\ \A v, w \in WG : sO[v] => ~QKInFlight(w) /\ qbuf = "q"
  /\ AllDone => \A w \in WG : stored[w]

\* "We only need producer_tail on V since that's the last that's loaded, we
\* don't need it for Q (no cluster) and K" (:1034): waiting for V alone lets the
\* producer leave with no load in flight and no slot unreleased in any pipeline.
ProducerExitClean == ppc = "done" /\ HasWork =>
  /\ qbuf = "q"
  /\ \A p \in Pipes, i \in Slots :
       ~loading[p][i] /\ arrived[p][i] = 0 /\ empty[p][i] = full[p][i]

\* The CTA implements the promise of AttentionTile, termination included.
Tile == INSTANCE AttentionTile
          WITH Workers <- WG, lo <- nBlockMin, hi <- nBlockMax

ImplementsTile == Tile!Spec
=============================================================================
