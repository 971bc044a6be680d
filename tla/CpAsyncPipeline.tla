--------------------------- MODULE CpAsyncPipeline ---------------------------
(***************************************************************************)
(* One thread block of the generic attention kernel of flash_fwd.py, the   *)
(* one of sm_80, sm_120 and sm_90 with U2_SM90_GENERIC: its warps copy Q,  *)
(* the K and V blocks and the bias tiles of one work tile to shared memory *)
(* by cp.async, each warp its own share, and multiply.                     *)
(*                                                                         *)
(* Granularity.  A warp is one actor.  Copies belong to the group that the *)
(* warp commits next; a warp waits for its own groups only, oldest first,  *)
(* and a barrier makes the shares of the others good.  A copy in flight    *)
(* may have landed or not: whoever reads its area reads garbage.           *)
(*                                                                         *)
(* The blocks that a window leaves out are visited too: the kernel counts  *)
(* down to block 0 ("TODO: local").                                        *)
(***************************************************************************)
EXTENDS Integers, Sequences

CONSTANTS
  NumWarps,  \* num_threads / 32
  Tiles      \* what a block can be launched with, see IsTile

IsTile(t) ==
  /\ t.stages \in Nat \ {0}      \* num_stages
  /\ t.qInRegs \in BOOLEAN       \* Q_in_regs: sQ and sV share their memory
  /\ t.bias \in BOOLEAN          \* has_bias
  /\ t.blocks \in Nat            \* n_block_max; 0 on a wasted varlen tile
  /\ t.kMin \in Int /\ t.kMax \in Int  \* bias_k_min_tile, bias_k_max_tile

\* With Q in registers the wait for Q counts the groups of one stage.
ASSUME CpAsyncAssumption ==
  /\ NumWarps \in Nat \ {0}
  /\ \A t \in Tiles : IsTile(t) /\ (t.qInRegs => t.stages = 1)

VARIABLES
  tile,    \* the launch
  mem,     \* area -> warp -> what the warp's share holds: a block, or one of the below
  groups,  \* warp -> its committed groups that may be in flight, oldest first: the areas they write
  arrived, \* warp -> barriers it has arrived at
  pc, n,   \* warp -> where it is, and its n_block
  rd, wr,  \* warp -> smem_pipe_read, smem_pipe_write
  acc_S,   \* warp -> the blocks whose scores and whose bias it holds
  acc,     \* warp -> acc_O: the blocks folded in so far
  stored   \* warp -> its rows of O are in global memory, and right

copies == <<mem, groups>>
vars == <<tile, mem, groups, arrived, pc, n, rd, wr, acc_S, acc, stored>>

Warps == 1 .. NumWarps
NumStages == tile.stages
Garbage == -1
Query == -2
Output == -3

Q == <<"Q", 0>>
K(s) == <<"K", s>>
V(s) == <<"V", s>>
Bias == <<"bias", 0>>
Areas(t) == {Q, Bias} \cup ({"K", "V"} \X (0 .. t.stages - 1))

\* Areas that a write to this one destroys; sO is the memory of sQ.
Aliases(a) == IF ~tile.qInRegs THEN {} ELSE CASE a = Q -> {V(0)} [] a = V(0) -> {Q} [] OTHER -> {}

\* What the warps' shares of an area hold together.
Read(a) ==
  IF \E w \in Warps : mem[a][w] # mem[a][1] \/ \E i \in DOMAIN groups[w] : a \in groups[w][i]
  THEN Garbage ELSE mem[a][1]

\* Warp w writes its share of several areas: a set of <<area, value>>.
Written(w, values) ==
  [a \in DOMAIN mem |->
     [mem[a] EXCEPT ![w] = IF \E x \in values : x[1] = a THEN (CHOOSE x \in values : x[1] = a)[2]
                           ELSE IF \E x \in values : a \in Aliases(x[1]) THEN Garbage ELSE @]]

\* cp_async_commit_group after each of these sets of copies; a set of {} is an empty group.
Commit(w, sets) ==
  /\ mem' = Written(w, UNION {sets[i] : i \in DOMAIN sets})
  /\ groups' = [groups EXCEPT ![w] = @ \o [i \in DOMAIN sets |-> {x[1] : x \in sets[i]}]]

\* cp_async_wait_group(depth): all but the newest `depth' groups of the warp have landed.
WaitGroup(w, depth) ==
  /\ groups' = [groups EXCEPT ![w] = IF Len(@) <= depth THEN @ ELSE SubSeq(@, Len(@) - depth + 1, Len(@))]
  /\ UNCHANGED mem

Arrive(w) == arrived' = [arrived EXCEPT ![w] = @ + 1]
Released(w) == \A v \in Warps : arrived[v] >= arrived[w]

Goto(w, l) == pc' = [pc EXCEPT ![w] = l]
AdvancePipeline(s) == IF s < NumStages - 1 THEN s + 1 ELSE 0

-----------------------------------------------------------------------------
(* Prologue.                                                               *)

First == IF tile.blocks = 0 THEN 0 ELSE tile.blocks - 1  \* cutlass.max(n_block_max - 1, 0)

\* The copy of a block into a stage, if there is such a block.
Copy(area, b) == IF b >= 0 THEN {<<area, b>>} ELSE {}

\* All stages of K and all but the last of V, a group each.
Prefetch(from) ==
  [i \in 1 .. 2 * NumStages - 1 - from |->
     LET j == i + from - 1
     IN  Copy(IF j % 2 = 0 THEN K(j \div 2) ELSE V(j \div 2), First - j \div 2)]

LoadPrologue(w) ==
  /\ pc[w] = "start"
  /\ Commit(w, IF tile.qInRegs THEN <<{<<Q, Query>>}, Copy(K(0), First)>>
               ELSE <<{<<Q, Query>>}>> \o Prefetch(0))
  /\ Goto(w, "preprocess_Q")
  /\ UNCHANGED <<tile, arrived, n, rd, wr, acc_S, acc, stored>>

\* Q has landed, or is read to registers between two barriers before V overwrites it.
PreprocessQ(w) ==
  /\ pc[w] = "preprocess_Q"
  /\ WaitGroup(w, 2 * NumStages - 1)
  /\ IF tile.qInRegs THEN Arrive(w) /\ Goto(w, "read_Q")
                     ELSE UNCHANGED arrived /\ Goto(w, "sync")
  /\ UNCHANGED <<tile, n, rd, wr, acc_S, acc, stored>>

ReadQ(w) ==
  /\ pc[w] = "read_Q" /\ Released(w)
  /\ acc_S' = [acc_S EXCEPT ![w].q = Read(Q)]
  /\ Arrive(w) /\ Goto(w, "prefetch")
  /\ UNCHANGED <<tile, copies, n, rd, wr, acc, stored>>

PrefetchRest(w) ==
  /\ pc[w] = "prefetch" /\ Released(w)
  /\ Commit(w, Prefetch(1))
  /\ Goto(w, "sync")
  /\ UNCHANGED <<tile, arrived, n, rd, wr, acc_S, acc, stored>>

-----------------------------------------------------------------------------
(* compute_one_n_block.                                                    *)

\* Mutant: one group too many is left in flight.
BugSyncDepth == 2 * NumStages - 1
SyncDepth == 2 * NumStages - 2

\* Both bounds of the bias tiles, in the copy and where it is applied.
BiasTile(w) == tile.bias /\ tile.kMin <= n[w] /\ n[w] < tile.kMax

Sync(w) ==
  /\ pc[w] = "sync"
  /\ WaitGroup(w, SyncDepth)
  /\ Arrive(w) /\ Goto(w, "load_V")
  /\ UNCHANGED <<tile, n, rd, wr, acc_S, acc, stored>>

VNext(w) == IF NumStages = 1 \/ n[w] - NumStages + 1 >= 0
            THEN {<<V(wr[w]), n[w] - NumStages + 1>>} ELSE {}

LoadVNext(w) ==
  /\ pc[w] = "load_V" /\ Released(w)
  /\ Commit(w, <<VNext(w) \cup (IF BiasTile(w) THEN {<<Bias, n[w]>>} ELSE {})>>)
  /\ Goto(w, "gemm_QK")
  /\ UNCHANGED <<tile, arrived, n, rd, wr, acc_S, acc, stored>>

\* S = QK; with one stage the warps meet right after it, else only for the bias.
GemmQK(w) ==
  /\ pc[w] = "gemm_QK"
  /\ LET q == IF tile.qInRegs THEN acc_S[w].q ELSE Read(Q)
     IN  acc_S' = [acc_S EXCEPT ![w].k = IF q = Query THEN Read(K(rd[w])) ELSE Garbage, ![w].b = n[w]]
  /\ wr' = [wr EXCEPT ![w] = AdvancePipeline(@)]
  /\ Goto(w, IF NumStages = 1 THEN "sync_V" ELSE IF tile.bias THEN "drain" ELSE "sync_V")
  /\ UNCHANGED <<tile, copies, arrived, n, rd, acc, stored>>

\* Several stages: cp_async_wait_group(0) for the bias tile.
Drain(w) ==
  /\ pc[w] = "drain"
  /\ WaitGroup(w, 0)
  /\ Arrive(w) /\ Goto(w, "apply_bias")
  /\ UNCHANGED <<tile, n, rd, wr, acc_S, acc, stored>>

SyncV(w) ==
  /\ pc[w] = "sync_V"
  /\ WaitGroup(w, SyncDepth)
  /\ Arrive(w) /\ Goto(w, "load_K")
  /\ UNCHANGED <<tile, n, rd, wr, acc_S, acc, stored>>

\* Mutant: the next block is not checked to exist.
BugKNext(w) == {<<K(wr[w]), n[w] - NumStages>>}
KNext(w) == IF n[w] - NumStages >= 0 THEN {<<K(wr[w]), n[w] - NumStages>>} ELSE {}

LoadKNext(w) ==
  /\ pc[w] = "load_K" /\ Released(w)
  /\ Commit(w, <<KNext(w)>>)
  /\ Goto(w, IF NumStages = 1 /\ tile.bias THEN "apply_bias" ELSE "gemm_PV")
  /\ UNCHANGED <<tile, arrived, n, rd, wr, acc_S, acc, stored>>

ApplyBias(w) ==
  /\ pc[w] = "apply_bias" /\ Released(w)
  /\ acc_S' = [acc_S EXCEPT ![w].b = IF BiasTile(w) THEN Read(Bias) ELSE n[w]]
  /\ Goto(w, IF NumStages = 1 THEN "gemm_PV" ELSE "sync_V")
  /\ UNCHANGED <<tile, copies, arrived, n, rd, wr, acc, stored>>

\* O += PV, and on to the next block.
GemmPV(w) ==
  /\ pc[w] = "gemm_PV"
  /\ acc' = [acc EXCEPT ![w] = Append(@, [k |-> acc_S[w].k, n |-> acc_S[w].b, v |-> Read(V(rd[w]))])]
  /\ rd' = [rd EXCEPT ![w] = AdvancePipeline(@)]
  /\ IF n[w] = 0 THEN Goto(w, "epilogue") /\ UNCHANGED n
                 ELSE Goto(w, "sync") /\ n' = [n EXCEPT ![w] = @ - 1]
  /\ UNCHANGED <<tile, copies, arrived, wr, acc_S, stored>>

-----------------------------------------------------------------------------
(* Epilogue: O goes through sO, which is the memory of sQ.                 *)

\* All warps have finished reading V.
Epilogue(w) ==
  /\ pc[w] = "epilogue"
  /\ Arrive(w) /\ Goto(w, "write_O")
  /\ UNCHANGED <<tile, copies, n, rd, wr, acc_S, acc, stored>>

WriteO(w) ==
  /\ pc[w] = "write_O" /\ Released(w)
  /\ mem' = Written(w, {<<Q, Output>>})
  /\ Arrive(w) /\ Goto(w, "store_O")
  /\ UNCHANGED <<tile, groups, n, rd, wr, acc_S, acc, stored>>

StoreO(w) ==
  /\ pc[w] = "store_O" /\ Released(w)
  /\ stored' = [stored EXCEPT ![w] = Read(Q) = Output]
  /\ Goto(w, "done")
  /\ UNCHANGED <<tile, copies, arrived, n, rd, wr, acc_S, acc>>

-----------------------------------------------------------------------------
Init ==
  /\ tile \in Tiles
  /\ mem = [a \in Areas(tile) |-> [w \in Warps |-> Garbage]]
  /\ groups = [w \in Warps |-> <<>>]
  /\ arrived = [w \in Warps |-> 0]
  /\ pc = [w \in Warps |-> "start"] /\ n = [w \in Warps |-> First]
  /\ rd = [w \in Warps |-> 0] /\ wr = [w \in Warps |-> NumStages - 1]
  /\ acc_S = [w \in Warps |-> [q |-> Garbage, k |-> Garbage, b |-> Garbage]]
  /\ acc = [w \in Warps |-> <<>>]
  /\ stored = [w \in Warps |-> FALSE]

Warp(w) ==
  \/ LoadPrologue(w) \/ PreprocessQ(w) \/ ReadQ(w) \/ PrefetchRest(w)
  \/ Sync(w) \/ LoadVNext(w) \/ GemmQK(w) \/ Drain(w) \/ SyncV(w) \/ LoadKNext(w) \/ ApplyBias(w) \/ GemmPV(w)
  \/ Epilogue(w) \/ WriteO(w) \/ StoreO(w)

\* The block has ended.
Done == (\A w \in Warps : pc[w] = "done") /\ UNCHANGED vars

Next == Done \/ \E w \in Warps : Warp(w)

\* The hardware schedules every warp that no barrier holds.
Spec == Init /\ [][Next]_vars /\ \A w \in Warps : WF_vars(Warp(w))
-----------------------------------------------------------------------------
(* Properties.                                                             *)

\* The block does what AttentionTile promises, although its warps are apart by
\* whatever the barriers allow and one bias buffer serves every stage: each warp
\* folds in every block once, newest first, with the scores, the bias tile and
\* the V of that block, all landed and none overwritten, and its output is stored
\* once all have.  A wasted tile counts as one block without keys.
Tile == INSTANCE AttentionTile WITH Workers <- Warps, lo <- 0, hi <- First + 1
ImplementsTile == Tile!Spec

\* When a warp has multiplied its last block, no copy of its own is in flight:
\* one that landed later would land in the output, or in the next block's memory.
QuietEpilogue ==
  \A w \in Warps : pc[w] \in {"epilogue", "write_O", "store_O", "done"} =>
    \A i \in DOMAIN groups[w] : groups[w][i] = {}
=============================================================================
