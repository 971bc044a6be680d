-------------------------- MODULE Sm90PipelineInv --------------------------
(* The inductive invariants behind the properties of Sm90Pipeline: where    *)
(* the producer and each warp group stand in each pipeline and what the     *)
(* mbarriers of a slot say about that (SlotIInv), which block each of them  *)
(* works on there (StepInv), and who may run what when (CtaInv).            *)
EXTENDS Sm90Pipeline

\* How often an actor standing at position s has used slot i.
Uses(s, i) == s.lap + IF i < s.index THEN 1 ELSE 0

\* The slot of the next load of the producer.
NextLoad(p) ==
  IF p = "K"
  THEN IF \/ ppc \in {"first_k", "tail", "done"}
          \/ ppc = "k" /\ InOrder
          \/ ppc = "q" /\ ~HasWork
       THEN pkv ELSE Advance(pkv)
  ELSE IF ppc = "prev_v" THEN pprev ELSE pkv

\* The slot a warp group will release next: after its release of K a warp
\* group's state still names the slot it read, until it has released V too.
AfterK(w) == IF IntraWgOverlap
             THEN pc[w] \in {"k", "pv", "release_q", "last_v", "last_pv"}
             ELSE pc[w] \in {"v", "pv_sync", "pv"}
InLoop(w) == IntraWgOverlap /\ pc[w] \in {"qk_sync", "v", "qk", "qk_drain", "pv"}

NextRead(p) ==
  [w \in WG |->
    IF p = "K" THEN IF AfterK(w) THEN Advance(kv[w]) ELSE kv[w]
               ELSE IF InLoop(w) THEN kvV[w] ELSE kv[w]]

\* One slot's mbarriers (f: full phases, e: empty phases, a: arrivals, l: load
\* in flight) against the loads issued and the warp groups' positions cp: each
\* warp group is at most one release ahead of the empty phase, the arrivals
\* are those that are ahead, the producer at most one load ahead, and no warp
\* group has released what has not landed.
Ahead(cp, e, i) == {w \in DOMAIN cp : Uses(cp[w], i) = e[i] + 1}

SlotInv(f, e, a, l, pp, cp, i) ==
  /\ f[i] + (IF l[i] THEN 1 ELSE 0) = Uses(pp, i)
  /\ Uses(pp, i) \in {e[i], e[i] + 1}
  /\ \A w \in DOMAIN cp : /\ Uses(cp[w], i) \in {e[i], e[i] + 1}
                          /\ Uses(cp[w], i) <= f[i]
  /\ a[i] = Cardinality(Ahead(cp, e, i))

PipeInv(f, e, a, l, pp, cp) == \A i \in Slots : SlotInv(f, e, a, l, pp, cp, i)

\* The full barrier's wait has passed for the slot at position s.
Ready(f, s) == f[s.index] = s.lap + 1

\* A warp group that has waited for a K or V slot, and not released it yet.
WaitedK(w) == \/ pc[w] \in {"qk", "qk_drain", "first_qk"}
              \/ IntraWgOverlap /\ pc[w] \in {"qk_sync", "v"}
WaitedV(w) == \/ pc[w] \in {"pv", "pv_sync", "last_pv"}
              \/ IntraWgOverlap /\ pc[w] \in {"qk", "qk_drain"}

\* Which program counters a configuration reaches, and what a clone equals.
Control ==
  /\ ppc = "prev_v" => pkv = Advance(pprev) /\ ~InOrder
  /\ ppc = "last_v" => ~InOrder
  /\ ppc = "v" => InOrder
  /\ ppc \notin {"q", "tail", "done"} => HasWork
  /\ \A w \in WG :
       /\ pc[w] \in {"first_k", "first_qk", "qk_sync", "last_v", "last_pv"}
            => IntraWgOverlap
       /\ pc[w] \in {"first_sync", "pv_sync"} => ~IntraWgOverlap
       /\ InLoop(w) => kv[w] = Advance(kvV[w])

SlotsAgree == \A p \in Pipes :
  PipeInv(full[p], empty[p], arrived[p], loading[p], NextLoad(p), NextRead(p))

WaitsPassed == \A w \in WG :
  /\ WaitedK(w) => Ready(full["K"], NextRead("K")[w])
  /\ WaitedV(w) => Ready(full["V"], NextRead("V")[w])

\* Every slot's barriers agree with the positions of the producer and of each
\* warp group, and a warp group past a wait finds its slot full.
SlotIInv == TypeOK /\ Control /\ SlotsAgree /\ WaitsPassed

-----------------------------------------------------------------------------
(* Which block.  A position counts the blocks of the tile that were passed  *)
(* to get there, and blocks are taken from the last one down.               *)

Ord(s) == s.lap * NumStages + s.index
Block(i) == nBlockMax - 1 - i

\* The producer's n_block is the block of its state while it has loads to issue.
LoadsInStep ==
  /\ nBlockMin <= pn
  /\ ppc \notin {"tail", "done"} => pn = Block(Ord(pkv))
  /\ ppc = "last_v" => pn = nBlockMin
  /\ ppc = "k" /\ ~InOrder => nBlockMin < pn

\* A slot that was used holds the block of its last use.
BuffersInStep == \A p \in Pipes, i \in Slots :
  Uses(NextLoad(p), i) > 0 =>
    buf[p][i] = Block(Ord([index |-> i, lap |-> Uses(NextLoad(p), i) - 1]))

\* Scores of a block, with the mask and bias of the same block.
Of(b) == [k |-> b, n |-> b]

\* Between softmax and the P V product that consumes them, P is in registers.
HoldsP(w) == IF IntraWgOverlap THEN pc[w] \in {"k", "release_q", "last_v", "last_pv"} \/ InLoop(w)
                               ELSE pc[w] \in {"v", "pv_sync", "pv"}

\* A warp group has accumulated the blocks it has passed in V.  Its n_block and
\* registers follow: one block further in the overlapping loop.
GroupInStep(w) ==
  LET d == Len(acc[w]) IN
  /\ \A j \in 1 .. d : acc[w][j] = [k |-> nBlockMax - j, n |-> nBlockMax - j, v |-> nBlockMax - j]
  /\ Ord(NextRead("V")[w]) = d
  /\ nBlockMin <= n[w]
  /\ pc[w] \in {"wait_q", "first_sync", "first_k", "first_qk"} => n[w] = Block(d)
  /\ pc[w] \in {"k", "qk_sync", "v", "qk", "qk_drain", "pv_sync", "pv"} =>
       n[w] = IF IntraWgOverlap THEN Block(d) - 1 ELSE Block(d)
  /\ pc[w] = "release_q" /\ ~IntraWgOverlap => d = nBlockMax - nBlockMin
  /\ (pc[w] = "release_q" /\ IntraWgOverlap) \/ pc[w] \in {"last_v", "last_pv"} => Block(d) = nBlockMin
  /\ pc[w] \in EpiloguePCs => d = nBlockMax - nBlockMin
  /\ HoldsP(w) => preg[w] = Of(Block(d))
  /\ pc[w] = "pv" /\ IntraWgOverlap => sreg[w] = Of(Block(d) - 1)

\* Everybody works on the block that its position stands for, in a tile that
\* has blocks.
StepInv == nBlockMin < nBlockMax =>
  LoadsInStep /\ BuffersInStep /\ \A w \in WG : GroupInStep(w)

-----------------------------------------------------------------------------
(* Who may run what when.                                                   *)

\* Q is loaded once, and nobody passes wait_q before it has landed; an empty
\* split goes from there to the epilogue.
QInv ==
  /\ (qbuf = "none") = (ppc \in {"first_k", "q"})
  /\ \A w \in WG : /\ pc[w] # "wait_q" => qbuf = "q"
                   /\ ~HasWork => pc[w] \in {"wait_q", "empty"} \cup EpiloguePCs
                   /\ HasWork => pc[w] # "empty"

\* Nobody writes O before all have come to the epilogue, and nobody stores before
\* all have written.
EpilogueInv ==
  /\ (\E v \in WG : pc[v] \in EpiloguePCs \ {"epi"}) => \A w \in WG : pc[w] \in EpiloguePCs
  /\ \A w \in WG : sO[w] <=> pc[w] \in {"store_o", "done"}
  /\ \A w \in WG : pc[w] = "done" /\ (UseTmaO => w = 1) => stored[w]
  /\ UseTmaO /\ pc[1] = "done" => \A w \in WG : stored[w]

\* One warp group has the turn, or its arrival is pending on one barrier.
TurnInv == UseSchedulerBarrier =>
  \E u \in WG : \A w \in WG : turn[w] = (IF w = u /\ ~HasTurn(w) THEN 1 ELSE 0)
                              /\ (HasTurn(w) => w = u)

\* After the tail, the slot of V that was loaded last has been released.
TailInv ==
  /\ ppc \in {"tail", "done"} /\ HasWork => pkv # State0
  /\ ppc = "done" /\ HasWork => empty["V"][LastUsed(pkv).index] = LastUsed(pkv).lap
  /\ \A w \in WG : pc[w] = "wait_q" => kv[w] = State0

CtaInv == QInv /\ EpilogueInv /\ TurnInv /\ TailInv
=============================================================================
