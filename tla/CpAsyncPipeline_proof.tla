------------------------ MODULE CpAsyncPipeline_proof ------------------------
(***************************************************************************)
(* Proofs about the generic kernel, for any number of warps, stages and    *)
(* blocks.                                                                 *)
(*                                                                         *)
(* First, that it leaves no copy in flight behind.  A warp waits for all   *)
(* but its newest groups, never for the last ones.  That these copy        *)
(* nothing is a matter of counting: a group of age a (0 is the newest)     *)
(* copies a block whose number follows from a, the pipeline depth and      *)
(* where the warp is (CopyOf), or is empty if that block does not exist;   *)
(* at block 0 the blocks of all ages that may be in flight are negative.   *)
(* A bias tile is the exception: it has landed two barriers after its      *)
(* group was committed.                                                    *)
(*                                                                         *)
(* Second, that a block is a correct AttentionTile.  The age of a group    *)
(* also says where it goes (AreaOf), so a warp knows of each warp's share  *)
(* what it holds (Held) and that no copy into the stage it reads is in     *)
(* flight: the blocks on their way are less than a round of the stages     *)
(* younger.  The barriers say which warps it must know that of: how often  *)
(* a warp has arrived follows from where it is (Arrivals), and no two      *)
(* warps are further apart than one barrier (Barriers).                    *)
(***************************************************************************)
EXTENDS CpAsyncPipeline, SequenceTheorems, TLAPS

\* Where the newest group is that of the next K, of V, and of K.
Prologue == {"preprocess_Q", "read_Q", "prefetch"}
NextIsV == {"sync", "load_V"} \cup Prologue
NextIsK == {"gemm_QK", "drain", "sync_V", "load_K"}
Last == {"epilogue", "write_O", "store_O", "done"}
BothDone == {"gemm_PV"} \cup Last

Age(w, i) == Len(groups[w]) - i

\* The block that a group of this age copies, if it copies anything but a bias tile.
CopyOf(w, age) ==
  n[w] - NumStages + (IF pc[w] \in NextIsV THEN 1 + (age + 1) \div 2
                      ELSE IF pc[w] \in NextIsK \/ (pc[w] = "apply_bias" /\ NumStages > 1) THEN 1 + age \div 2
                      ELSE (age + 1) \div 2)

CopiesExist(w) == \A i \in 1 .. Len(groups[w]) : groups[w][i] \notin {{}, {Bias}} => CopyOf(w, Age(w, i)) >= 0

\* A bias tile is in flight only in the newest group, on its way to the barrier.
BiasIsNewest(w) ==
  \A i \in 1 .. Len(groups[w]) : Bias \in groups[w][i] =>
    /\ tile.bias /\ i = Len(groups[w])
    /\ pc[w] \in {"gemm_QK", "drain"} \/ (pc[w] = "sync_V" /\ NumStages = 1)

InFlight(w) ==
  /\ pc[w] = "start" => groups[w] = <<>>
  /\ pc[w] \in {"start"} \cup Prologue => n[w] = First
  /\ pc[w] \in {"read_Q", "prefetch"} => tile.qInRegs
  /\ pc[w] \in {"load_V", "load_K"} => Len(groups[w]) <= 2 * NumStages - 2
  /\ pc[w] \in BothDone \/ (pc[w] = "apply_bias" /\ NumStages = 1) => Len(groups[w]) <= 2 * NumStages - 1
  /\ pc[w] = "apply_bias" /\ NumStages > 1 => groups[w] = <<>>
  /\ pc[w] \in Last => n[w] = 0

Copies == SUBSET (({"Q", "K", "V", "bias"}) \X Int)
Places == {"start", "apply_bias"} \cup NextIsV \cup NextIsK \cup BothDone

Typed ==
  /\ tile \in Tiles
  /\ pc \in [Warps -> Places] /\ n \in [Warps -> Nat] /\ wr \in [Warps -> Int]
  /\ groups \in [Warps -> Seq(Copies)]

QuietInv == Typed /\ \A w \in Warps : CopiesExist(w) /\ BiasIsNewest(w) /\ InFlight(w)

-----------------------------------------------------------------------------
LEMMA TileFacts ==
  ASSUME tile \in Tiles
  PROVE  /\ NumStages \in Nat \ {0} /\ tile.blocks \in Nat /\ tile.bias \in BOOLEAN
         /\ tile.qInRegs => NumStages = 1
         /\ First \in Nat
  BY CpAsyncAssumption DEF IsTile, NumStages, First

\* Waiting keeps the newest groups, each at its age.
LEMMA WaitKeeps ==
  ASSUME NEW S, NEW G \in Seq(S), NEW depth \in Nat
  PROVE  LET H == IF Len(G) <= depth THEN G ELSE SubSeq(G, Len(G) - depth + 1, Len(G))
         IN  /\ H \in Seq(S) /\ Len(H) <= depth
             /\ \A i \in 1 .. Len(H) : /\ i + Len(G) - Len(H) \in 1 .. Len(G)
                                       /\ H[i] = G[i + Len(G) - Len(H)]
<1> DEFINE H == IF Len(G) <= depth THEN G ELSE SubSeq(G, Len(G) - depth + 1, Len(G))
<1> SUFFICES /\ H \in Seq(S) /\ Len(H) <= depth
             /\ \A i \in 1 .. Len(H) : i + Len(G) - Len(H) \in 1 .. Len(G) /\ H[i] = G[i + Len(G) - Len(H)]
  OBVIOUS
<1>1. PICK l \in Nat : l = Len(G)
  OBVIOUS
<1>2. CASE l <= depth
  <2>1. H = G
    BY <1>1, <1>2
  <2>2. \A i \in 1 .. l : i + l - l = i
    OBVIOUS
  <2> HIDE DEF H
  <2> QED  BY <1>1, <1>2, <2>1, <2>2
<1>3. CASE l > depth
  <2>1. PICK a \in Int : a = l - depth + 1
    BY <1>1
  <2>2. H = SubSeq(G, a, l) /\ l \in Int
    BY <1>1, <1>3, <2>1
  <2>3. \A i \in a .. l : i \in 1 .. l /\ G[i] \in S
    BY <1>1, <1>3, <2>1
  <2>4. /\ SubSeq(G, a, l) \in Seq(S)
        /\ Len(SubSeq(G, a, l)) = IF a <= l THEN l - a + 1 ELSE 0
        /\ \A i \in 1 .. l - a + 1 : SubSeq(G, a, l)[i] = G[a + i - 1]
    BY <2>2, <2>3, SubSeqProperties
  <2> HIDE DEF H
  <2>5. H \in Seq(S) /\ Len(H) = depth /\ \A i \in 1 .. depth : H[i] = G[a + i - 1]
    BY <1>3, <2>1, <2>2, <2>4
  <2>6. \A i \in 1 .. depth : i + l - depth \in 1 .. l /\ a + i - 1 = i + l - depth
    BY <1>3, <2>1
  <2> QED  BY <1>1, <2>5, <2>6
<1>4. l <= depth \/ l > depth
  OBVIOUS
<1> QED  BY <1>2, <1>3, <1>4

LEMMA WaitedGroups ==
  ASSUME Typed, NEW w \in Warps, NEW depth \in Nat, WaitGroup(w, depth)
  PROVE  /\ groups' \in [Warps -> Seq(Copies)]
         /\ \A v \in Warps \ {w} : groups'[v] = groups[v]
         /\ Len(groups'[w]) <= depth
         /\ \A i \in 1 .. Len(groups'[w]) :
              \E j \in 1 .. Len(groups[w]) : /\ groups'[w][i] = groups[w][j]
                                             /\ Len(groups'[w]) - i = Len(groups[w]) - j
<1> DEFINE G == groups[w]  H == IF Len(G) <= depth THEN G ELSE SubSeq(G, Len(G) - depth + 1, Len(G))
<1>1. G \in Seq(Copies) /\ groups \in [Warps -> Seq(Copies)]
  BY DEF Typed
<1>2. groups' = [groups EXCEPT ![w] = H]
  BY DEF WaitGroup
<1>3. /\ H \in Seq(Copies) /\ Len(H) <= depth
      /\ \A i \in 1 .. Len(H) : i + Len(G) - Len(H) \in 1 .. Len(G) /\ H[i] = G[i + Len(G) - Len(H)]
  BY <1>1, WaitKeeps, Zenon
<1> HIDE DEF H
<1>4. groups'[w] = H /\ groups' \in [Warps -> Seq(Copies)] /\ \A v \in Warps \ {w} : groups'[v] = groups[v]
  BY <1>1, <1>2, <1>3
<1>5. Len(H) \in Nat /\ Len(G) \in Nat
  BY <1>1, <1>3
<1> QED  BY <1>3, <1>4, <1>5

\* A commit adds its groups behind those in flight.
LEMMA CommittedGroups ==
  ASSUME Typed, NEW w \in Warps, NEW C \in Seq(Copies),
         groups' = [groups EXCEPT ![w] = @ \o C]
  PROVE  /\ groups' \in [Warps -> Seq(Copies)]
         /\ \A v \in Warps \ {w} : groups'[v] = groups[v]
         /\ Len(groups'[w]) = Len(groups[w]) + Len(C)
         /\ \A i \in 1 .. Len(groups'[w]) :
              groups'[w][i] = IF i <= Len(groups[w]) THEN groups[w][i] ELSE C[i - Len(groups[w])]
<1> DEFINE G == groups[w]
<1>1. G \in Seq(Copies) /\ groups \in [Warps -> Seq(Copies)]
  BY DEF Typed
<1>2. /\ G \o C \in Seq(Copies) /\ Len(G \o C) = Len(G) + Len(C)
      /\ \A i \in 1 .. Len(G) + Len(C) : (G \o C)[i] = IF i <= Len(G) THEN G[i] ELSE C[i - Len(G)]
  <2> HIDE DEF G
  <2> QED  BY <1>1, ConcatProperties
<1>3. groups'[w] = G \o C /\ groups' \in [Warps -> Seq(Copies)] /\ \A v \in Warps \ {w} : groups'[v] = groups[v]
  BY <1>1, <1>2
<1> QED  BY <1>2, <1>3

\* A step of one warp leaves the groups of the others as they are.
LEMMA OneWarp ==
  ASSUME QuietInv, NEW w \in Warps, Typed', tile' = tile,
         \A v \in Warps \ {w} : pc'[v] = pc[v] /\ n'[v] = n[v] /\ groups'[v] = groups[v],
         CopiesExist(w)', BiasIsNewest(w)', InFlight(w)'
  PROVE  QuietInv'
<1> SUFFICES ASSUME NEW v \in Warps, v # w PROVE (CopiesExist(v) /\ BiasIsNewest(v) /\ InFlight(v))'
  BY DEF QuietInv, Warps
<1>1. CopiesExist(v) /\ BiasIsNewest(v) /\ InFlight(v)
  BY DEF QuietInv
<1>2. pc'[v] = pc[v] /\ n'[v] = n[v] /\ groups'[v] = groups[v] /\ NumStages' = NumStages /\ First' = First
  BY DEF NumStages, First
<1>3. CopiesExist(v)'
  BY <1>1, <1>2 DEF CopiesExist, CopyOf, Age
<1>4. BiasIsNewest(v)'
  BY <1>1, <1>2 DEF BiasIsNewest
<1>5. InFlight(v)'
  BY <1>1, <1>2 DEF InFlight
<1> QED  BY <1>3, <1>4, <1>5

-----------------------------------------------------------------------------
(* The invariant is inductive, by kinds of steps.                          *)

\* A wait: what stays in flight keeps its age.
LEMMA WaitStep ==
  ASSUME QuietInv, NEW w \in Warps, NEW depth \in Nat, NEW at \in Places, WaitGroup(w, depth),
         pc' = [pc EXCEPT ![w] = at], UNCHANGED <<tile, n, wr>>,
         depth = 0 \/ \A a \in Nat : CopyOf(w, a)' = CopyOf(w, a),
         depth = 0 \/ pc[w] \notin {"gemm_QK", "drain", "sync_V"} \/ (pc[w] = "sync_V" /\ NumStages > 1),
         Len(groups'[w]) <= depth => InFlight(w)'
  PROVE  QuietInv'
<1>1. Typed
  BY DEF QuietInv
<1>2. /\ groups' \in [Warps -> Seq(Copies)]
      /\ \A v \in Warps \ {w} : groups'[v] = groups[v]
      /\ Len(groups'[w]) <= depth
      /\ \A i \in 1 .. Len(groups'[w]) :
           \E j \in 1 .. Len(groups[w]) : /\ groups'[w][i] = groups[w][j]
                                          /\ Len(groups'[w]) - i = Len(groups[w]) - j
  BY <1>1, WaitedGroups
<1>3. Typed'
  BY <1>1, <1>2 DEF Typed
<1>4. \A v \in Warps \ {w} : pc'[v] = pc[v] /\ n'[v] = n[v] /\ groups'[v] = groups[v]
  BY <1>1, <1>2 DEF Typed
<1>5. Len(groups'[w]) \in Nat /\ Len(groups[w]) \in Nat
  BY <1>1, <1>2 DEF Typed
<1>6. CopiesExist(w)'
  <2> SUFFICES ASSUME NEW i \in 1 .. Len(groups'[w]), groups'[w][i] \notin {{}, {Bias}}
               PROVE  CopyOf(w, Len(groups[w]) - i)' >= 0
    BY DEF CopiesExist, Age, Bias
  <2>1. PICK j \in 1 .. Len(groups[w]) : groups'[w][i] = groups[w][j] /\ Len(groups'[w]) - i = Len(groups[w]) - j
    BY <1>2
  <2>2. CopyOf(w, Len(groups[w]) - j) >= 0
    BY <2>1 DEF QuietInv, CopiesExist, Age
  <2>3. \A a \in Nat : CopyOf(w, a)' = CopyOf(w, a)
    BY <1>2, <1>5
  <2>4. PICK a \in Nat : a = Len(groups[w]) - j
    BY <1>5
  <2> QED  BY <2>1, <2>2, <2>3, <2>4 DEF CopyOf
<1>7. BiasIsNewest(w)'
  <2> SUFFICES ASSUME NEW i \in 1 .. Len(groups'[w]), Bias \in groups'[w][i] PROVE FALSE
    BY DEF BiasIsNewest, Bias
  <2>1. PICK j \in 1 .. Len(groups[w]) : groups'[w][i] = groups[w][j]
    BY <1>2
  <2>2. BiasIsNewest(w) /\ depth # 0
    BY <1>2, <1>5 DEF QuietInv
  <2>3. NumStages \in Nat \ {0}
    BY <1>1, TileFacts DEF Typed
  <2> QED  BY <2>1, <2>2, <2>3 DEF BiasIsNewest
<1>8. InFlight(w)'
  BY <1>2
<1> QED  BY <1>3, <1>4, <1>6, <1>7, <1>8, OneWarp

\* A step that neither copies nor waits.
LEMMA QuietStep ==
  ASSUME QuietInv, NEW w \in Warps, Typed', tile' = tile, groups' = groups,
         \A v \in Warps \ {w} : pc'[v] = pc[v] /\ n'[v] = n[v],
         groups[w] = <<>> \/ \A a \in Nat : CopyOf(w, a)' = CopyOf(w, a),
         BiasIsNewest(w)', InFlight(w)'
  PROVE  QuietInv'
<1>1. CopiesExist(w)'
  <2> SUFFICES ASSUME NEW i \in 1 .. Len(groups[w]), groups[w][i] \notin {{}, {Bias}}
               PROVE  CopyOf(w, Len(groups[w]) - i)' >= 0
    BY DEF CopiesExist, Age, Bias
  <2>1. Len(groups[w]) \in Nat
    BY DEF QuietInv, Typed
  <2>2. PICK a \in Nat : a = Len(groups[w]) - i
    BY <2>1
  <2>3. CopyOf(w, a) >= 0
    BY <2>2 DEF QuietInv, CopiesExist, Age
  <2>4. groups[w] # <<>>
    BY <2>1
  <2> QED  BY <2>2, <2>3, <2>4 DEF CopyOf
<1> QED  BY <1>1, OneWarp

LEMMA AgeGrows ==
  ASSUME NEW l \in Nat, NEW i \in 1 .. l + 1
  PROVE  i = l + 1 \/ (i \in 1 .. l /\ \E a \in Nat : l - i = a /\ l + 1 - i = a + 1)
<1>1. CASE i # l + 1
  <2>1. i \in 1 .. l /\ l - i \in Nat /\ l + 1 - i = (l - i) + 1
    BY <1>1
  <2> QED  BY <2>1
<1> QED  BY <1>1

\* A commit of one group: those in flight are one older, and the new one copies
\* what its age says.
LEMMA CommitStep ==
  ASSUME QuietInv, NEW w \in Warps, NEW copy \in Copies, NEW at \in Places,
         groups' = [groups EXCEPT ![w] = @ \o <<copy>>],
         pc' = [pc EXCEPT ![w] = at], UNCHANGED <<tile, n, wr>>,
         \A a \in Nat : CopyOf(w, a + 1)' = CopyOf(w, a),
         copy \notin {{}, {Bias}} => CopyOf(w, 0)' >= 0,
         pc[w] \notin {"gemm_QK", "drain", "sync_V"},
         Bias \in copy => tile.bias /\ at = "gemm_QK",
         Len(groups'[w]) = Len(groups[w]) + 1 => InFlight(w)'
  PROVE  QuietInv'
<1>1. Typed
  BY DEF QuietInv
<1>2. PICK C \in Seq(Copies) : C = <<copy>> /\ Len(C) = 1 /\ C[1] = copy
  <2>1. <<copy>> \in Seq(Copies) /\ Len(<<copy>>) = 1 /\ <<copy>>[1] = copy
    OBVIOUS
  <2> QED  BY <2>1, Zenon
<1>3. /\ groups' \in [Warps -> Seq(Copies)]
      /\ \A v \in Warps \ {w} : groups'[v] = groups[v]
      /\ Len(groups'[w]) = Len(groups[w]) + Len(C)
      /\ \A i \in 1 .. Len(groups'[w]) :
           groups'[w][i] = IF i <= Len(groups[w]) THEN groups[w][i] ELSE C[i - Len(groups[w])]
  <2>1. groups' = [groups EXCEPT ![w] = groups[w] \o C]
    BY <1>2
  <2> QED  BY <1>1, <2>1, CommittedGroups
<1>4. Typed'
  BY <1>1, <1>3 DEF Typed
<1>5. \A v \in Warps \ {w} : pc'[v] = pc[v] /\ n'[v] = n[v] /\ groups'[v] = groups[v]
  BY <1>1, <1>3 DEF Typed
<1>6. PICK l \in Nat : l = Len(groups[w])
  BY <1>1 DEF Typed
<1>7. /\ Len(groups'[w]) = l + 1
      /\ \A i \in 1 .. l : groups'[w][i] = groups[w][i]
      /\ groups'[w][l + 1] = copy
  BY <1>2, <1>3, <1>6
<1>8. CopiesExist(w)'
  <2> SUFFICES ASSUME NEW i \in 1 .. l + 1, groups'[w][i] \notin {{}, {Bias}}
               PROVE  CopyOf(w, Len(groups[w]) - i)' >= 0
    BY <1>7 DEF CopiesExist, Age, Bias
  <2>1. CASE i = l + 1
    <3>1. copy \notin {{}, {Bias}}
      BY <2>1, <1>7
    <3>2. Len(groups'[w]) - i = 0
      BY <2>1, <1>6, <1>7
    <3> QED  BY <3>1, <3>2
  <2>2. CASE i # l + 1
    <3>1. PICK a \in Nat : i \in 1 .. l /\ l - i = a /\ l + 1 - i = a + 1
      BY <2>2, <1>6, AgeGrows
    <3>2. CopyOf(w, a) >= 0
      BY <3>1, <1>6, <1>7 DEF QuietInv, CopiesExist, Age
    <3>3. CopyOf(w, a + 1)' >= 0
      BY <3>2
    <3>4. Len(groups'[w]) - i = a + 1
      BY <3>1, <1>7
    <3> QED  BY <3>3, <3>4
  <2> QED  BY <2>1, <2>2
<1>9. BiasIsNewest(w)'
  <2> SUFFICES ASSUME NEW i \in 1 .. l + 1, Bias \in groups'[w][i]
               PROVE  tile.bias /\ i = l + 1 /\ pc'[w] = "gemm_QK"
    BY <1>7 DEF BiasIsNewest, Bias
  <2>1. CASE i = l + 1
    BY <2>1, <1>1, <1>7 DEF Typed
  <2>2. CASE i \in 1 .. l
    BY <2>2, <1>6, <1>7 DEF QuietInv, BiasIsNewest
  <2>3. i = l + 1 \/ i \in 1 .. l
    BY AgeGrows
  <2> QED  BY <2>1, <2>2, <2>3
<1>10. InFlight(w)'
  BY <1>2, <1>3
<1> QED  BY <1>4, <1>5, <1>8, <1>9, <1>10, OneWarp

-----------------------------------------------------------------------------
(* The steps of a warp.                                                    *)

LEMMA WaitSteps ==
  ASSUME QuietInv, NEW w \in Warps, PreprocessQ(w) \/ Sync(w) \/ Drain(w) \/ SyncV(w)
  PROVE  QuietInv'
<1> USE DEF Goto
<1>1. Typed /\ InFlight(w) /\ pc[w] \in Places /\ n[w] \in Nat
  BY DEF QuietInv, Typed
<1>2. NumStages \in Nat \ {0} /\ NumStages' = NumStages /\ First' = First /\ (tile.qInRegs => NumStages = 1)
  <2>1. tile' = tile
    BY DEF PreprocessQ, Sync, Drain, SyncV
  <2> QED  BY <1>1, <2>1, TileFacts DEF Typed, NumStages, First
<1>3. CASE PreprocessQ(w)
  <2>1. PICK at \in {"read_Q", "sync"} :
          /\ pc' = [pc EXCEPT ![w] = at] /\ (at = "read_Q" => tile.qInRegs)
          /\ WaitGroup(w, 2 * NumStages - 1) /\ UNCHANGED <<tile, n, wr>> /\ pc[w] = "preprocess_Q"
    BY <1>3 DEF PreprocessQ
  <2>2. pc'[w] = at
    BY <2>1, <1>1 DEF Typed
  <2>3. \A a \in Nat : CopyOf(w, a)' = CopyOf(w, a)
    BY <2>1, <2>2, <1>2 DEF CopyOf, NextIsV, Prologue
  <2>4. InFlight(w)'
    BY <2>1, <2>2, <1>1, <1>2 DEF InFlight, Prologue, BothDone, Last
  <2>5. 2 * NumStages - 1 \in Nat /\ at \in Places
    BY <1>2 DEF Places, NextIsV, Prologue
  <2> QED  BY <2>1, <2>3, <2>4, <2>5, WaitStep
<1>4. CASE Sync(w)
  <2>1. /\ pc' = [pc EXCEPT ![w] = "load_V"] /\ pc[w] = "sync"
        /\ WaitGroup(w, 2 * NumStages - 2) /\ UNCHANGED <<tile, n, wr>>
    BY <1>4 DEF Sync, SyncDepth
  <2>2. pc'[w] = "load_V"
    BY <2>1, <1>1 DEF Typed
  <2>3. \A a \in Nat : CopyOf(w, a)' = CopyOf(w, a)
    BY <2>1, <2>2, <1>2 DEF CopyOf, NextIsV, Prologue
  <2>4. Len(groups'[w]) <= 2 * NumStages - 2 => InFlight(w)'
    BY <2>1, <2>2, <1>2 DEF InFlight, Prologue, BothDone, Last
  <2>5. 2 * NumStages - 2 \in Nat /\ "load_V" \in Places
    BY <1>2 DEF Places, NextIsV, Prologue
  <2> QED  BY <2>1, <2>3, <2>4, <2>5, WaitStep
<1>5. CASE Drain(w)
  <2>1. /\ pc' = [pc EXCEPT ![w] = "apply_bias"] /\ pc[w] = "drain"
        /\ WaitGroup(w, 0) /\ UNCHANGED <<tile, n, wr>>
    BY <1>5 DEF Drain
  <2>2. pc'[w] = "apply_bias"
    BY <2>1, <1>1 DEF Typed
  <2>3. groups' \in [Warps -> Seq(Copies)]
    BY <2>1, <1>1, WaitedGroups
  <2>4. Len(groups'[w]) <= 0 => InFlight(w)'
    <3> SUFFICES ASSUME Len(groups'[w]) <= 0 PROVE InFlight(w)'
      OBVIOUS
    <3>1. groups'[w] = <<>> /\ Len(groups'[w]) = 0
      BY <2>3
    <3> QED  BY <3>1, <2>2, <1>2 DEF InFlight, Prologue, BothDone, Last
  <2>5. "apply_bias" \in Places
    BY DEF Places
  <2> QED  BY <2>1, <2>4, <2>5, WaitStep
<1>6. CASE SyncV(w)
  <2>1. /\ pc' = [pc EXCEPT ![w] = "load_K"] /\ pc[w] = "sync_V"
        /\ WaitGroup(w, 2 * NumStages - 2) /\ UNCHANGED <<tile, n, wr>>
    BY <1>6 DEF SyncV, SyncDepth
  <2>2. pc'[w] = "load_K"
    BY <2>1, <1>1 DEF Typed
  <2>3. \A a \in Nat : CopyOf(w, a)' = CopyOf(w, a)
    BY <2>1, <2>2, <1>2 DEF CopyOf, NextIsV, NextIsK, Prologue
  <2>4. Len(groups'[w]) <= 2 * NumStages - 2 => InFlight(w)'
    BY <2>1, <2>2, <1>2 DEF InFlight, Prologue, BothDone, Last
  <2>5. 2 * NumStages - 2 \in Nat /\ "load_K" \in Places /\ (NumStages > 1 \/ 2 * NumStages - 2 = 0)
    BY <1>2 DEF Places, NextIsK
  <2> QED  BY <2>1, <2>3, <2>4, <2>5, WaitStep
<1> QED  BY <1>3, <1>4, <1>5, <1>6

\* The steps that touch no group.
LEMMA QuietSteps ==
  ASSUME QuietInv, NEW w \in Warps,
         ReadQ(w) \/ GemmQK(w) \/ ApplyBias(w) \/ GemmPV(w) \/ Epilogue(w) \/ WriteO(w) \/ StoreO(w)
  PROVE  QuietInv'
<1> USE DEF Goto
<1>1. Typed /\ CopiesExist(w) /\ BiasIsNewest(w) /\ InFlight(w) /\ pc[w] \in Places /\ n[w] \in Nat /\ wr[w] \in Int
  BY DEF QuietInv, Typed
<1>2. tile' = tile /\ groups' = groups
  BY DEF ReadQ, GemmQK, ApplyBias, GemmPV, Epilogue, WriteO, StoreO, copies
<1>3. /\ NumStages \in Nat \ {0} /\ NumStages' = NumStages /\ First' = First /\ tile.bias \in BOOLEAN
      /\ tile.qInRegs => NumStages = 1
  BY <1>1, <1>2, TileFacts DEF Typed, NumStages, First
<1>4. CASE ReadQ(w)
  <2>1. pc' = [pc EXCEPT ![w] = "prefetch"] /\ pc[w] = "read_Q" /\ n' = n /\ wr' = wr
    BY <1>4 DEF ReadQ
  <2>2. pc'[w] = "prefetch" /\ Typed' /\ \A v \in Warps \ {w} : pc'[v] = pc[v] /\ n'[v] = n[v]
    BY <2>1, <1>1, <1>2 DEF Typed, Places, NextIsV, Prologue
  <2>3. \A a \in Nat : CopyOf(w, a)' = CopyOf(w, a)
    BY <2>1, <2>2, <1>3 DEF CopyOf, NextIsV, Prologue
  <2>4. BiasIsNewest(w)' /\ InFlight(w)'
    BY <2>1, <2>2, <1>1, <1>2, <1>3 DEF BiasIsNewest, InFlight, Prologue, BothDone, Last
  <2> QED  BY <2>2, <2>3, <2>4, <1>2, QuietStep
<1>5. CASE GemmQK(w)
  <2>1. PICK at \in {"sync_V", "drain"} :
          /\ pc' = [pc EXCEPT ![w] = at] /\ pc[w] = "gemm_QK" /\ n' = n
          /\ wr' = [wr EXCEPT ![w] = AdvancePipeline(wr[w])]
          /\ IF NumStages = 1 THEN at = "sync_V" ELSE IF tile.bias THEN at = "drain" ELSE at = "sync_V"
    BY <1>5 DEF GemmQK
  <2>2. wr' \in [Warps -> Int]
    BY <2>1, <1>1, <1>3 DEF Typed, AdvancePipeline
  <2>3. pc'[w] = at /\ Typed' /\ \A v \in Warps \ {w} : pc'[v] = pc[v] /\ n'[v] = n[v]
    BY <2>1, <2>2, <1>1, <1>2 DEF Typed, Places, NextIsK
  <2>4. \A a \in Nat : CopyOf(w, a)' = CopyOf(w, a)
    BY <2>1, <2>3, <1>3 DEF CopyOf, NextIsV, NextIsK, Prologue
  <2>5. BiasIsNewest(w)'
    BY <2>1, <2>3, <1>1, <1>2, <1>3 DEF BiasIsNewest, Bias
  <2>6. InFlight(w)'
    BY <2>1, <2>3, <1>1, <1>2, <1>3 DEF InFlight, Prologue, BothDone, Last
  <2> QED  BY <2>3, <2>4, <2>5, <2>6, <1>2, QuietStep
<1>6. CASE ApplyBias(w)
  <2>1. PICK at \in {"sync_V", "gemm_PV"} :
          /\ pc' = [pc EXCEPT ![w] = at] /\ pc[w] = "apply_bias" /\ n' = n /\ wr' = wr
          /\ IF NumStages = 1 THEN at = "gemm_PV" ELSE at = "sync_V"
    BY <1>6 DEF ApplyBias
  <2>2. pc'[w] = at /\ Typed' /\ \A v \in Warps \ {w} : pc'[v] = pc[v] /\ n'[v] = n[v]
    BY <2>1, <1>1, <1>2 DEF Typed, Places, NextIsK, BothDone
  <2>3. groups[w] = <<>> \/ NumStages = 1
    BY <2>1, <1>1, <1>3 DEF InFlight
  <2>4. NumStages = 1 => \A a \in Nat : CopyOf(w, a)' = CopyOf(w, a)
    BY <2>1, <2>2, <1>3 DEF CopyOf, NextIsV, NextIsK, Prologue
  <2>5. BiasIsNewest(w)'
    BY <2>1, <2>2, <1>1, <1>2, <1>3 DEF BiasIsNewest, Bias
  <2>6. InFlight(w)'
    BY <2>1, <2>2, <1>1, <1>2, <1>3 DEF InFlight, Prologue, BothDone, Last
  <2> QED  BY <2>2, <2>3, <2>4, <2>5, <2>6, <1>2, QuietStep
<1>7. CASE GemmPV(w)
  <2>1. PICK at \in {"sync", "epilogue"} :
          /\ pc' = [pc EXCEPT ![w] = at] /\ pc[w] = "gemm_PV" /\ wr' = wr
          /\ IF at = "epilogue" THEN n[w] = 0 /\ n' = n ELSE n[w] # 0 /\ n' = [n EXCEPT ![w] = n[w] - 1]
    BY <1>7 DEF GemmPV
  <2>2. n' \in [Warps -> Nat] /\ n'[w] = (IF at = "epilogue" THEN 0 ELSE n[w] - 1)
    BY <2>1, <1>1 DEF Typed
  <2>3. pc'[w] = at /\ Typed' /\ \A v \in Warps \ {w} : pc'[v] = pc[v] /\ n'[v] = n[v]
    BY <2>1, <2>2, <1>1, <1>2 DEF Typed, Places, NextIsV, BothDone, Last
  <2>4. \A a \in Nat : CopyOf(w, a)' = CopyOf(w, a)
    BY <2>1, <2>2, <2>3, <1>1, <1>3 DEF CopyOf, NextIsV, NextIsK, Prologue
  <2>5. BiasIsNewest(w)'
    BY <2>1, <2>3, <1>1, <1>2, <1>3 DEF BiasIsNewest, Bias
  <2>6. InFlight(w)'
    BY <2>1, <2>2, <2>3, <1>1, <1>2, <1>3 DEF InFlight, Prologue, BothDone, Last
  <2> QED  BY <2>3, <2>4, <2>5, <2>6, <1>2, QuietStep
<1>8. CASE Epilogue(w) \/ WriteO(w) \/ StoreO(w)
  <2>1. PICK at \in {"write_O", "store_O", "done"} :
          pc' = [pc EXCEPT ![w] = at] /\ pc[w] \in Last /\ n' = n /\ wr' = wr
    BY <1>8 DEF Epilogue, WriteO, StoreO, Last
  <2>2. pc'[w] = at /\ Typed' /\ \A v \in Warps \ {w} : pc'[v] = pc[v] /\ n'[v] = n[v]
    BY <2>1, <1>1, <1>2 DEF Typed, Places, BothDone, Last
  <2>3. \A a \in Nat : CopyOf(w, a)' = CopyOf(w, a)
    BY <2>1, <2>2, <1>3 DEF CopyOf, NextIsV, NextIsK, Prologue, Last
  <2>4. BiasIsNewest(w)'
    BY <2>1, <2>2, <1>1, <1>2, <1>3 DEF BiasIsNewest, Bias, Last
  <2>5. InFlight(w)'
    BY <2>1, <2>2, <1>1, <1>2, <1>3 DEF InFlight, Prologue, BothDone, Last
  <2> QED  BY <2>2, <2>3, <2>4, <2>5, <1>2, QuietStep
<1> QED  BY <1>4, <1>5, <1>6, <1>7, <1>8

\* What a commit of one set of copies adds.
LEMMA OneCommit ==
  ASSUME NEW w \in Warps, NEW x, Commit(w, <<x>>)
  PROVE  groups' = [groups EXCEPT ![w] = @ \o <<{y[1] : y \in x}>>]
<1> DEFINE sets == <<x>>
<1>1. DOMAIN sets = 1 .. 1 /\ sets[1] = x
  OBVIOUS
<1>2. [i \in DOMAIN sets |-> {y[1] : y \in sets[i]}] = <<{y[1] : y \in x}>>
  <2>1. [i \in DOMAIN sets |-> {y[1] : y \in sets[i]}] = [i \in 1 .. 1 |-> {y[1] : y \in x}]
    BY <1>1
  <2> QED  BY <2>1
<1> QED  BY <1>2 DEF Commit

LEMMA CommitSteps ==
  ASSUME QuietInv, NEW w \in Warps, LoadVNext(w) \/ LoadKNext(w)
  PROVE  QuietInv'
<1> USE DEF Goto
<1>1. Typed /\ InFlight(w) /\ pc[w] \in Places /\ n[w] \in Nat /\ wr[w] \in Int /\ Len(groups[w]) \in Nat
  BY DEF QuietInv, Typed
<1>2. tile' = tile /\ n' = n /\ wr' = wr
  BY DEF LoadVNext, LoadKNext
<1>3. /\ NumStages \in Nat \ {0} /\ NumStages' = NumStages /\ First' = First /\ tile.bias \in BOOLEAN
      /\ tile.qInRegs => NumStages = 1
  BY <1>1, <1>2, TileFacts DEF Typed, NumStages, First
<1>4. CASE LoadVNext(w)
  <2> DEFINE x == VNext(w) \cup (IF BiasTile(w) THEN {<<Bias, n[w]>>} ELSE {})
             copy == {y[1] : y \in x}
  <2>1. pc[w] = "load_V" /\ pc' = [pc EXCEPT ![w] = "gemm_QK"] /\ Commit(w, <<x>>)
    BY <1>4 DEF LoadVNext
  <2>2. groups' = [groups EXCEPT ![w] = @ \o <<copy>>]
    BY <2>1, OneCommit
  <2>3. /\ copy \in Copies
        /\ Bias \in copy => tile.bias
        /\ copy \notin {{}, {Bias}} => VNext(w) # {}
    <3>1. copy \subseteq {V(wr[w]), Bias} /\ (VNext(w) = {} => copy \subseteq {Bias})
      BY DEF VNext
    <3>2. V(wr[w]) \in {"Q", "K", "V", "bias"} \X Int /\ Bias \in {"Q", "K", "V", "bias"} \X Int /\ Bias # V(wr[w])
      BY <1>1 DEF V, Bias
    <3>3. Bias \in copy => tile.bias
      BY <3>2 DEF VNext, BiasTile
    <3> HIDE DEF copy
    <3> QED  BY <3>1, <3>2, <3>3 DEF Copies
  <2>4. VNext(w) # {} => n[w] - NumStages + 1 >= 0
    BY <1>1, <1>3 DEF VNext
  <2> HIDE DEF copy, x
  <2>5. pc'[w] = "gemm_QK" /\ n'[w] = n[w]
    BY <2>1, <1>1, <1>2 DEF Typed
  <2>6. \A a \in Nat : CopyOf(w, a + 1)' = CopyOf(w, a)
    BY <2>1, <2>5, <1>1, <1>3 DEF CopyOf, NextIsV, NextIsK, Prologue
  <2>7. copy \notin {{}, {Bias}} => CopyOf(w, 0)' >= 0
    BY <2>3, <2>4, <2>5, <1>1, <1>3 DEF CopyOf, NextIsV, NextIsK, Prologue
  <2>8. InFlight(w)'
    BY <2>5, <1>3 DEF InFlight, Prologue, BothDone, Last
  <2>9. "gemm_QK" \in Places
    BY DEF Places, NextIsK
  <2> QED  BY <2>1, <2>2, <2>3, <2>6, <2>7, <2>8, <2>9, <1>2, CommitStep
<1>5. CASE LoadKNext(w)
  <2> DEFINE copy == {y[1] : y \in KNext(w)}
  <2>1. PICK at \in {"apply_bias", "gemm_PV"} :
          /\ pc[w] = "load_K" /\ pc' = [pc EXCEPT ![w] = at] /\ Commit(w, <<KNext(w)>>)
          /\ at = "apply_bias" => NumStages = 1
    BY <1>5 DEF LoadKNext
  <2>2. groups' = [groups EXCEPT ![w] = @ \o <<copy>>]
    BY <2>1, OneCommit
  <2>3. /\ copy \in Copies
        /\ Bias \notin copy
        /\ copy # {} => n[w] - NumStages >= 0
    <3>1. copy \subseteq {K(wr[w])} /\ (copy # {} => n[w] - NumStages >= 0)
      BY DEF KNext
    <3>2. K(wr[w]) \in {"Q", "K", "V", "bias"} \X Int /\ Bias # K(wr[w])
      BY <1>1 DEF K, Bias
    <3> HIDE DEF copy
    <3> QED  BY <3>1, <3>2 DEF Copies
  <2> HIDE DEF copy
  <2>4. pc'[w] = at /\ n'[w] = n[w]
    BY <2>1, <1>1, <1>2 DEF Typed
  <2>5. \A a \in Nat : CopyOf(w, a + 1)' = CopyOf(w, a)
    BY <2>1, <2>4, <1>1, <1>3 DEF CopyOf, NextIsV, NextIsK, Prologue
  <2>6. copy \notin {{}, {Bias}} => CopyOf(w, 0)' >= 0
    BY <2>1, <2>3, <2>4, <1>1, <1>3 DEF CopyOf, NextIsV, NextIsK, Prologue
  <2>7. Len(groups'[w]) = Len(groups[w]) + 1 => InFlight(w)'
    BY <2>1, <2>4, <1>1, <1>3 DEF InFlight, Prologue, BothDone, Last
  <2>8. at \in Places
    BY <2>1 DEF Places, BothDone
  <2> QED  BY <2>1, <2>2, <2>3, <2>5, <2>6, <2>7, <2>8, <1>2, CommitStep
<1> QED  BY <1>4, <1>5

\* The prologue commits Q, then the first blocks, newest first.
LEMMA PrologueSets ==
  ASSUME NumStages \in Nat \ {0}, First \in Nat, tile.qInRegs => NumStages = 1
  PROVE  LET sets == IF tile.qInRegs THEN <<{<<Q, Query>>}, Copy(K(0), First)>> ELSE <<{<<Q, Query>>}>> \o Prefetch(0)
         IN  /\ DOMAIN sets = 1 .. 2 * NumStages
             /\ sets[1] = {<<Q, Query>>}
             /\ \A i \in 2 .. 2 * NumStages :
                  sets[i] = LET j == i - 2 IN Copy(IF j % 2 = 0 THEN K(j \div 2) ELSE V(j \div 2), First - j \div 2)
<1> DEFINE sets == IF tile.qInRegs THEN <<{<<Q, Query>>}, Copy(K(0), First)>> ELSE <<{<<Q, Query>>}>> \o Prefetch(0)
<1> SUFFICES /\ DOMAIN sets = 1 .. 2 * NumStages
             /\ sets[1] = {<<Q, Query>>}
             /\ \A i \in 2 .. 2 * NumStages :
                  sets[i] = LET j == i - 2 IN Copy(IF j % 2 = 0 THEN K(j \div 2) ELSE V(j \div 2), First - j \div 2)
  OBVIOUS
<1>1. CASE tile.qInRegs
  <2>1. sets = <<{<<Q, Query>>}, Copy(K(0), First)>> /\ 2 * NumStages = 2
    BY <1>1
  <2>2. DOMAIN sets = 1 .. 2 /\ sets[1] = {<<Q, Query>>} /\ sets[2] = Copy(K(0), First)
    <3>1. \A x, y : DOMAIN <<x, y>> = 1 .. 2 /\ <<x, y>>[1] = x /\ <<x, y>>[2] = y
      OBVIOUS
    <3> HIDE DEF sets
    <3> QED  BY <2>1, <3>1
  <2>3. \A i \in 2 .. 2 : i = 2 /\ (i - 2) % 2 = 0 /\ (i - 2) \div 2 = 0 /\ First - (i - 2) \div 2 = First
    OBVIOUS
  <2> HIDE DEF sets
  <2> QED  BY <2>1, <2>2, <2>3
<1>2. CASE ~tile.qInRegs
  <2> DEFINE S == SUBSET (({"Q", "K", "V", "bias"} \X Int) \X Int)
             m == 2 * NumStages - 1
             g == <<{<<Q, Query>>}>>
             f == Prefetch(0)
  <2>1. m \in Nat /\ m + 1 = 2 * NumStages
    OBVIOUS
  <2>2. DOMAIN f = 1 .. m
    BY DEF Prefetch
  <2>3. \A i \in 1 .. m :
          f[i] = LET j == i - 1 IN Copy(IF j % 2 = 0 THEN K(j \div 2) ELSE V(j \div 2), First - j \div 2)
    <3> SUFFICES ASSUME NEW i \in 1 .. m
                 PROVE  f[i] = LET j == i - 1 IN Copy(IF j % 2 = 0 THEN K(j \div 2) ELSE V(j \div 2), First - j \div 2)
      OBVIOUS
    <3>1. f[i] = Copy(IF (i + 0 - 1) % 2 = 0 THEN K((i + 0 - 1) \div 2) ELSE V((i + 0 - 1) \div 2), First - (i + 0 - 1) \div 2)
      BY DEF Prefetch
    <3>2. i + 0 - 1 = i - 1
      OBVIOUS
    <3> QED  BY <3>1, <3>2, Zenon
  <2>4. \A i \in 1 .. m : f[i] \in S
    <3>1. \A s \in Int, b \in Int : Copy(K(s), b) \in S /\ Copy(V(s), b) \in S
      BY DEF Copy, K, V
    <3>2. \A i \in 1 .. m : First - (i - 1) \div 2 \in Int /\ (i - 1) \div 2 \in Int
      OBVIOUS
    <3> QED  BY <2>3, <3>1, <3>2
  <2>5. f \in Seq(S) /\ Len(f) = m
    <3>1. f \in [1 .. m -> S]
      BY <2>2, <2>4 DEF Prefetch
    <3> HIDE DEF f, S
    <3>2. f \in Seq(S)
      BY <2>1, <3>1
    <3> QED  BY <2>1, <2>2, <3>2
  <2>6. g \in Seq(S) /\ Len(g) = 1 /\ g[1] = {<<Q, Query>>}
    BY DEF Q, Query
  <2>7. sets = g \o f
    BY <1>2
  <2> HIDE DEF f, g, S, sets
  <2>8. /\ sets \in Seq(S) /\ Len(sets) = 1 + m
        /\ \A i \in 1 .. 1 + m : sets[i] = IF i <= 1 THEN g[i] ELSE f[i - 1]
    <3>1. /\ g \o f \in Seq(S) /\ Len(g \o f) = Len(g) + Len(f)
          /\ \A i \in 1 .. Len(g) + Len(f) : (g \o f)[i] = IF i <= Len(g) THEN g[i] ELSE f[i - Len(g)]
      BY <2>5, <2>6, ConcatProperties
    <3> QED  BY <2>5, <2>6, <2>7, <3>1
  <2>9. DOMAIN sets = 1 .. 2 * NumStages /\ sets[1] = {<<Q, Query>>}
    BY <2>1, <2>6, <2>8
  <2>10. ASSUME NEW i \in 2 .. 2 * NumStages
         PROVE  sets[i] = LET j == i - 2 IN Copy(IF j % 2 = 0 THEN K(j \div 2) ELSE V(j \div 2), First - j \div 2)
    <3>1. i - 1 \in 1 .. m /\ (i - 1) - 1 = i - 2 /\ sets[i] = f[i - 1]
      BY <2>1, <2>8
    <3> QED  BY <2>3, <3>1
  <2> QED  BY <2>9, <2>10
<1> QED  BY <1>1, <1>2

LEMMA PrologueStep ==
  ASSUME QuietInv, NEW w \in Warps, LoadPrologue(w)
  PROVE  QuietInv'
<1> DEFINE sets == IF tile.qInRegs THEN <<{<<Q, Query>>}, Copy(K(0), First)>> ELSE <<{<<Q, Query>>}>> \o Prefetch(0)
           D == [i \in DOMAIN sets |-> {x[1] : x \in sets[i]}]
<1>1. Typed /\ InFlight(w) /\ n[w] \in Nat /\ pc[w] = "start"
  BY DEF QuietInv, Typed, LoadPrologue
<1>2. /\ tile' = tile /\ n' = n /\ wr' = wr /\ pc' = [pc EXCEPT ![w] = "preprocess_Q"]
      /\ groups' = [groups EXCEPT ![w] = @ \o D]
  <2>1. Commit(w, sets) /\ UNCHANGED <<tile, n, wr>> /\ pc' = [pc EXCEPT ![w] = "preprocess_Q"]
    BY DEF LoadPrologue, Goto
  <2> HIDE DEF sets
  <2> QED  BY <2>1 DEF Commit
<1>3. /\ NumStages \in Nat \ {0} /\ NumStages' = NumStages /\ First' = First /\ First \in Nat
      /\ tile.qInRegs => NumStages = 1
  BY <1>1, <1>2, TileFacts DEF Typed, NumStages, First
<1>4. /\ DOMAIN sets = 1 .. 2 * NumStages
      /\ sets[1] = {<<Q, Query>>}
      /\ \A i \in 2 .. 2 * NumStages :
           sets[i] = LET j == i - 2 IN Copy(IF j % 2 = 0 THEN K(j \div 2) ELSE V(j \div 2), First - j \div 2)
  BY <1>3, PrologueSets
<1> HIDE DEF sets
<1>5. ASSUME NEW i \in 1 .. 2 * NumStages
      PROVE  /\ D[i] \in Copies /\ Bias \notin D[i]
             /\ D[i] # {} => First - NumStages + 1 + (2 * NumStages - i + 1) \div 2 >= 0
  <2>1. D[i] = {x[1] : x \in sets[i]}
    BY <1>4
  <2>2. CASE i = 1
    <3>1. D[i] = {Q}
      BY <2>1, <2>2, <1>4
    <3>2. (2 * NumStages - i + 1) \div 2 = NumStages
      BY <2>2, <1>3
    <3>3. {Q} \in Copies /\ Bias \notin {Q}
      BY DEF Copies, Q, Bias
    <3>4. First - NumStages + 1 + NumStages >= 0
      BY <1>3
    <3> HIDE DEF D
    <3> QED  BY <3>1, <3>2, <3>3, <3>4
  <2>3. CASE i # 1
    <3>1. PICK s \in Int : s = (i - 2) \div 2
      BY <2>3
    <3>2. PICK area \in {K(s), V(s)} : sets[i] = Copy(area, First - (i - 2) \div 2)
      BY <2>3, <3>1, <1>3, <1>4
    <3>3. /\ D[i] \subseteq {area}
          /\ D[i] # {} => First - (i - 2) \div 2 >= 0
      <4>1. \A b : {x[1] : x \in Copy(area, b)} \subseteq {area} /\ ({x[1] : x \in Copy(area, b)} # {} => b >= 0)
        BY DEF Copy
      <4> HIDE DEF D
      <4> QED  BY <2>1, <3>2, <4>1
    <3>4. area \in {"Q", "K", "V", "bias"} \X Int /\ area # Bias
      BY DEF K, V, Bias
    <3>5. (2 * NumStages - i + 1) \div 2 = NumStages - 1 - (i - 2) \div 2
      BY <2>3, <1>3
    <3> HIDE DEF D
    <3> QED  BY <3>3, <3>4, <3>5, <1>3 DEF Copies
  <2> QED  BY <2>2, <2>3
<1>6. D \in Seq(Copies) /\ Len(D) = 2 * NumStages
  <2>1. D \in [1 .. 2 * NumStages -> Copies]
    BY <1>4, <1>5
  <2> HIDE DEF D
  <2> QED  BY <2>1, <1>3
<1> HIDE DEF D
<1>7. Len(groups[w]) = 0
  BY <1>1 DEF InFlight
<1>8. /\ groups' \in [Warps -> Seq(Copies)]
      /\ \A v \in Warps \ {w} : groups'[v] = groups[v]
      /\ Len(groups'[w]) = Len(groups[w]) + Len(D)
      /\ \A i \in 1 .. Len(groups'[w]) :
           groups'[w][i] = IF i <= Len(groups[w]) THEN groups[w][i] ELSE D[i - Len(groups[w])]
  BY <1>1, <1>2, <1>6, CommittedGroups
<1>9. Len(groups'[w]) = 2 * NumStages /\ \A i \in 1 .. 2 * NumStages : groups'[w][i] = D[i]
  BY <1>3, <1>6, <1>7, <1>8
<1>10. /\ pc'[w] = "preprocess_Q" /\ n'[w] = First /\ Typed'
       /\ \A v \in Warps \ {w} : pc'[v] = pc[v] /\ n'[v] = n[v]
  BY <1>1, <1>2, <1>8 DEF Typed, InFlight, Places, NextIsV, Prologue
<1>11. CopiesExist(w)'
  <2> SUFFICES ASSUME NEW i \in 1 .. 2 * NumStages, groups'[w][i] # {}
               PROVE  CopyOf(w, Len(groups[w]) - i)' >= 0
    BY <1>9 DEF CopiesExist, Age
  <2>1. First - NumStages + 1 + (2 * NumStages - i + 1) \div 2 >= 0
    BY <1>5, <1>9
  <2> QED  BY <2>1, <1>3, <1>9, <1>10 DEF CopyOf, NextIsV, Prologue
<1>12. BiasIsNewest(w)'
  BY <1>5, <1>9 DEF BiasIsNewest, Bias
<1>13. InFlight(w)'
  BY <1>3, <1>10 DEF InFlight, Prologue, BothDone, Last
<1> QED  BY <1>2, <1>8, <1>10, <1>11, <1>12, <1>13, OneWarp

\* With Q in registers there is one stage, and nothing is left to prefetch.
LEMMA PrefetchStep ==
  ASSUME QuietInv, NEW w \in Warps, PrefetchRest(w)
  PROVE  QuietInv'
<1>1. Typed /\ InFlight(w) /\ BiasIsNewest(w) /\ pc[w] = "prefetch" /\ pc' = [pc EXCEPT ![w] = "sync"]
  BY DEF QuietInv, PrefetchRest, Goto
<1>2. UNCHANGED <<tile, n, wr>> /\ Commit(w, Prefetch(1))
  BY DEF PrefetchRest
<1>3. NumStages = 1 /\ NumStages' = NumStages /\ First' = First
  BY <1>1, <1>2, TileFacts DEF Typed, InFlight, NumStages, First
<1>4. groups' = groups
  <2>1. DOMAIN Prefetch(1) = 1 .. 0
    BY <1>3 DEF Prefetch
  <2>2. [i \in DOMAIN Prefetch(1) |-> {x[1] : x \in Prefetch(1)[i]}] = <<>>
    BY <2>1
  <2>3. groups' = [groups EXCEPT ![w] = groups[w] \o <<>>]
    BY <1>2, <2>2 DEF Commit
  <2>4. groups[w] \o <<>> = groups[w]
    BY <1>1, ConcatEmptySeq DEF Typed
  <2> QED  BY <1>1, <2>3, <2>4 DEF Typed
<1>5. pc'[w] = "sync" /\ Typed' /\ \A v \in Warps \ {w} : pc'[v] = pc[v] /\ n'[v] = n[v]
  BY <1>1, <1>2, <1>4 DEF Typed, Places, NextIsV
<1>6. \A a \in Nat : CopyOf(w, a)' = CopyOf(w, a)
  BY <1>1, <1>2, <1>3, <1>5 DEF CopyOf, NextIsV, Prologue
<1>7. BiasIsNewest(w)'
  BY <1>1, <1>4, <1>5 DEF BiasIsNewest, Bias
<1>8. InFlight(w)'
  BY <1>3, <1>5 DEF InFlight, Prologue, BothDone, Last
<1> QED  BY <1>2, <1>4, <1>5, <1>6, <1>7, <1>8, QuietStep

-----------------------------------------------------------------------------
LEMMA QuietInit == Init => QuietInv
<1> SUFFICES ASSUME Init PROVE QuietInv
  OBVIOUS
<1>1. NumStages \in Nat \ {0} /\ First \in Nat
  BY TileFacts DEF Init
<1>2. Typed
  BY <1>1 DEF Init, Typed, Places
<1>3. ASSUME NEW w \in Warps PROVE groups[w] = <<>> /\ Len(groups[w]) = 0 /\ pc[w] = "start" /\ n[w] = First
  BY DEF Init
<1>4. ASSUME NEW w \in Warps PROVE CopiesExist(w) /\ BiasIsNewest(w) /\ InFlight(w)
  BY <1>1, <1>3 DEF CopiesExist, BiasIsNewest, InFlight, Prologue, BothDone, Last
<1> QED  BY <1>2, <1>4 DEF QuietInv

LEMMA QuietNext == QuietInv /\ [Next]_vars => QuietInv'
<1> SUFFICES ASSUME QuietInv, [Next]_vars PROVE QuietInv'
  OBVIOUS
<1>1. CASE UNCHANGED vars
  BY <1>1 DEF QuietInv, Typed, vars, CopiesExist, BiasIsNewest, InFlight, CopyOf, Age, NumStages, First
<1>2. CASE Done
  BY <1>2, <1>1 DEF Done
<1>3. ASSUME NEW w \in Warps, Warp(w) PROVE QuietInv'
  BY <1>3, PrologueStep, PrefetchStep, WaitSteps, CommitSteps, QuietSteps DEF Warp
<1> QED  BY <1>1, <1>2, <1>3 DEF Next

\* At block 0 every block that a group in flight could copy is negative, and so
\* does not exist; the bias tile has landed.
LEMMA NothingInFlight == QuietInv => QuietEpilogue
<1> SUFFICES ASSUME QuietInv, NEW w \in Warps, pc[w] \in Last, NEW i \in DOMAIN groups[w]
             PROVE  groups[w][i] = {}
  BY DEF QuietEpilogue, Last
<1>1. Typed /\ CopiesExist(w) /\ BiasIsNewest(w) /\ InFlight(w)
  BY DEF QuietInv
<1>2. NumStages \in Nat \ {0}
  BY <1>1, TileFacts DEF Typed
<1>3. n[w] = 0 /\ Len(groups[w]) <= 2 * NumStages - 1 /\ i \in 1 .. Len(groups[w])
  BY <1>1 DEF InFlight, BothDone, Typed
<1>4. PICK a \in Nat : a = Len(groups[w]) - i /\ a <= 2 * NumStages - 2
  <2>1. Len(groups[w]) \in Nat
    BY <1>1 DEF Typed
  <2> QED  BY <1>2, <1>3, <2>1
<1>5. CopyOf(w, a) \in Int /\ CopyOf(w, a) < 0
  <2>1. CopyOf(w, a) = 0 - NumStages + (a + 1) \div 2
    BY <1>3 DEF CopyOf, NextIsV, NextIsK, Prologue, Last
  <2> QED  BY <1>2, <1>4, <2>1
<1>6. groups[w][i] \in {{}, {Bias}}
  <2>1. groups[w][i] \notin {{}, {Bias}} => CopyOf(w, a) >= 0
    <3>1. Age(w, i) = a
      BY <1>4 DEF Age
    <3>2. groups[w][i] \notin {{}, {Bias}} => CopyOf(w, Age(w, i)) >= 0
      BY <1>1, <1>3 DEF CopiesExist
    <3> QED  BY <3>1, <3>2, Zenon
  <2> QED  BY <1>5, <2>1
<1>7. Bias \notin groups[w][i]
  BY <1>1, <1>3 DEF BiasIsNewest, Last
<1> QED  BY <1>6, <1>7

\* When a warp has multiplied its last block none of its copies is in flight,
\* although it never waits for its newest groups.
THEOREM QuietAtTheEnd == Spec => []QuietEpilogue
<1>1. Spec => []QuietInv
  BY QuietInit, QuietNext, PTL DEF Spec
<1> QED  BY <1>1, NothingInFlight, PTL

-----------------------------------------------------------------------------
(***************************************************************************)
(* What a warp's share of shared memory holds, and what is on its way.     *)

\* Blocks go round the stages, newest block first.
StageOf(b) == (First - b) % NumStages

\* A group copies the block of its age, K and V by turns; Q goes before all.
KIsNewest(w) == ~(pc[w] \in NextIsK \/ (pc[w] = "apply_bias" /\ NumStages > 1))
AreaOf(w, age) ==
  LET s == StageOf(CopyOf(w, age)) IN IF (age % 2 = 0) <=> KIsNewest(w) THEN K(s) ELSE V(s)
CopiesPlaced(w) ==
  \A i \in 1 .. Len(groups[w]) :
    \/ groups[w][i] \subseteq {AreaOf(w, Age(w, i)), Bias}
    \/ pc[w] = "preprocess_Q" /\ groups[w][i] = {Q} /\ Age(w, i) = 2 * NumStages - 1

\* The next blocks to be copied: the stages hold those before them.
KCopied(w) == pc[w] = "gemm_PV" \/ (pc[w] = "apply_bias" /\ NumStages = 1)
VPending(w) == pc[w] \in {"start"} \cup NextIsV
NextK(w) == n[w] - NumStages - (IF KCopied(w) THEN 1 ELSE 0)
NextV(w) == n[w] - NumStages + (IF VPending(w) THEN 1 ELSE 0)

Positions(w) ==
  /\ n[w] <= First
  /\ pc[w] \notin Last => rd[w] = StageOf(n[w])
  /\ pc[w] \notin Last => wr[w] = StageOf(n[w] - NumStages + (IF VPending(w) \/ pc[w] = "gemm_QK" THEN 1 ELSE 0))
  /\ pc[w] \notin {"start", "preprocess_Q"} => Len(groups[w]) <= 2 * NumStages - 1

KHeld(w) == pc[w] \notin {"start"} \cup Last =>
  \A b \in 0 .. First : NextK(w) < b /\ b <= NextK(w) + NumStages => mem[K(StageOf(b))][w] = b
VHeld(w) == pc[w] \notin {"start", "store_O", "done"} =>
  \A b \in 0 .. First : NextV(w) < b /\ b <= NextV(w) + NumStages => mem[V(StageOf(b))][w] = b
QHeld(w) ==
  /\ pc[w] \in {"preprocess_Q", "read_Q", "prefetch"} \/ (~tile.qInRegs /\ pc[w] \notin {"start", "store_O", "done"})
       => mem[Q][w] = Query
  /\ pc[w] \in {"store_O", "done"} => mem[Q][w] = Output
IsBiasTile(b) == tile.bias /\ tile.kMin <= b /\ b < tile.kMax
BiasHeld(w) ==
  /\ pc[w] \in NextIsK \cup {"apply_bias", "gemm_PV", "epilogue", "write_O"} /\ IsBiasTile(n[w]) => mem[Bias][w] = n[w]
  /\ pc[w] \in {"sync", "load_V"} /\ n[w] < First /\ IsBiasTile(n[w] + 1) => mem[Bias][w] = n[w] + 1

-----------------------------------------------------------------------------
(* Barriers.                                                               *)

\* How often a warp has arrived when it is at this place, at this block.
InPrologue == IF tile.qInRegs THEN 2 ELSE 0
PerBlock(k) == IF NumStages > 1 /\ tile.bias THEN 3 * k ELSE 2 * k
Arrivals(at, m) ==
  CASE at \in {"start", "preprocess_Q"} -> 0
    [] at = "read_Q" -> 1
    [] at = "prefetch" -> 2
    [] at = "sync" -> InPrologue + PerBlock(First - m)
    [] at \in {"load_V", "gemm_QK", "drain"} -> InPrologue + PerBlock(First - m) + 1
    [] at = "sync_V" \/ (at = "apply_bias" /\ NumStages > 1) -> InPrologue + PerBlock(First - m + 1) - 1
    [] at \in {"load_K", "gemm_PV"} \/ (at = "apply_bias" /\ NumStages = 1) -> InPrologue + PerBlock(First - m + 1)
    [] at = "epilogue" -> InPrologue + PerBlock(First + 1)
    [] at = "write_O" -> InPrologue + PerBlock(First + 1) + 1
    [] at \in {"store_O", "done"} -> InPrologue + PerBlock(First + 1) + 2

Waits(at) == at \in {"read_Q", "prefetch", "load_V", "load_K", "write_O", "store_O"} \/ (at = "apply_bias" /\ NumStages > 1)

Barriers ==
  \A w \in Warps :
    /\ arrived[w] = Arrivals(pc[w], n[w])
    /\ pc[w] \in {"drain", "apply_bias"} => tile.bias
    /\ pc[w] = "drain" => NumStages > 1
    /\ \A v \in Warps : arrived[v] >= arrived[w] - (IF Waits(pc[w]) THEN 1 ELSE 0)

\* The scores and the bias tile of the block at hand, and the output.
Results(w) ==
  /\ Len(acc[w]) = IF pc[w] \in Last THEN First + 1 ELSE First - n[w]
  /\ tile.qInRegs /\ pc[w] \notin {"start", "preprocess_Q", "read_Q"} => acc_S[w].q = Query
  /\ pc[w] \in {"drain", "apply_bias", "sync_V", "load_K", "gemm_PV"} => acc_S[w].k = n[w] /\ acc_S[w].b = n[w]
  /\ stored[w] <=> pc[w] = "done"

Shape ==
  /\ mem \in [Areas(tile) -> [Warps -> Int]] /\ arrived \in [Warps -> Int] /\ rd \in [Warps -> Int]
  /\ acc_S \in [Warps -> [q : Int, k : Int, b : Int]] /\ acc \in [Warps -> Seq([k : Int, n : Int, v : Int])]
  /\ stored \in [Warps -> BOOLEAN]
Placed(w) == CopiesPlaced(w) /\ Positions(w)
Held(w) == KHeld(w) /\ VHeld(w) /\ QHeld(w) /\ BiasHeld(w)
TileInv == Shape /\ Barriers /\ \A w \in Warps : Placed(w) /\ Held(w) /\ Results(w)

\* What the prologue copies, group by group.
PrologueCopies == IF tile.qInRegs THEN <<{<<Q, Query>>}, Copy(K(0), First)>> ELSE <<{<<Q, Query>>}>> \o Prefetch(0)

-----------------------------------------------------------------------------
(* Stages.                                                                 *)

LEMMA Division ==
  ASSUME NEW N \in Nat \ {0}, NEW x \in Int
  PROVE  \E q \in Int : \E r \in 0 .. N - 1 : x = N * q + r /\ (x % N) = r
<1>1. x \div N \in Int /\ (x % N) \in 0 .. N - 1 /\ x = N * (x \div N) + (x % N)
  OBVIOUS
<1> QED BY <1>1

\* The quotient and the remainder are the only such pair.
LEMMA DivisionUnique ==
  ASSUME NEW N \in Nat \ {0}, NEW q \in Int, NEW r \in 0 .. N - 1, NEW p \in Int, NEW s \in 0 .. N - 1,
         N * q + r = N * p + s
  PROVE  q = p /\ r = s
<1>1. CASE q < p
  <2>1. N * p >= N * (q + 1)
    BY <1>1
  <2>2. N * (q + 1) = N * q + N
    OBVIOUS
  <2> QED BY <2>1, <2>2
<1>2. CASE q > p
  <2>1. N * q >= N * (p + 1)
    BY <1>2
  <2>2. N * (p + 1) = N * p + N
    OBVIOUS
  <2> QED BY <2>1, <2>2
<1>3. CASE q = p
  BY <1>3
<1> QED BY <1>1, <1>2, <1>3

LEMMA NextRemainder ==
  ASSUME NEW N \in Nat \ {0}, NEW x \in Int, NEW y \in Int, y = x + 1
  PROVE  (y % N) = IF (x % N) < N - 1 THEN (x % N) + 1 ELSE 0
<1>1. PICK q \in Int : \E r \in 0 .. N - 1 : x = N * q + r /\ (x % N) = r
  BY Division, Zenon
<1>2. PICK r \in 0 .. N - 1 : x = N * q + r /\ (x % N) = r
  BY <1>1, Zenon
<1>3. PICK p \in Int : \E s \in 0 .. N - 1 : y = N * p + s /\ (y % N) = s
  BY Division, Zenon
<1>4. PICK s \in 0 .. N - 1 : y = N * p + s /\ (y % N) = s
  BY <1>3, Zenon
<1>5. CASE r < N - 1
  <2>1. PICK t \in 0 .. N - 1 : t = r + 1
    BY <1>5
  <2>2. N * q + t = N * p + s
    BY <1>2, <1>4, <2>1
  <2>3. t = s
    BY <2>2, DivisionUnique, Zenon
  <2> QED BY <2>1, <2>3, <1>2, <1>4, <1>5
<1>6. CASE r = N - 1
  <2>1. PICK o \in Int : o = q + 1 /\ N * o = N * q + N
    <3>1. q + 1 \in Int /\ N * (q + 1) = N * q + N
      OBVIOUS
    <3> QED BY <3>1
  <2>2. 0 \in 0 .. N - 1 /\ N * o + 0 = N * p + s
    BY <1>2, <1>4, <1>6, <2>1
  <2>3. 0 = s
    BY <2>2, DivisionUnique, Zenon
  <2> QED BY <2>3, <1>2, <1>4, <1>6
<1> QED BY <1>5, <1>6

LEMMA RemaindersApart ==
  ASSUME NEW N \in Nat \ {0}, NEW x \in Int, NEW y \in Int, x < y, y < x + N
  PROVE  (x % N) # (y % N)
<1>1. PICK q \in Int : \E r \in 0 .. N - 1 : x = N * q + r /\ (x % N) = r
  BY Division, Zenon
<1>2. PICK r \in 0 .. N - 1 : x = N * q + r /\ (x % N) = r
  BY <1>1, Zenon
<1>3. PICK p \in Int : \E s \in 0 .. N - 1 : y = N * p + s /\ (y % N) = s
  BY Division, Zenon
<1>4. PICK s \in 0 .. N - 1 : y = N * p + s /\ (y % N) = s
  BY <1>3, Zenon
<1>5. CASE r = s
  <2>1. N * p > N * q /\ N * p < N * q + N
    BY <1>2, <1>4, <1>5
  <2>2. CASE p <= q
    <3>1. N * p <= N * q
      BY <2>2
    <3> QED BY <2>1, <3>1
  <2>3. CASE p >= q + 1
    <3>1. N * p >= N * (q + 1) /\ N * (q + 1) = N * q + N
      BY <2>3
    <3> QED BY <2>1, <3>1
  <2> QED BY <2>2, <2>3
<1> QED BY <1>2, <1>4, <1>5

LEMMA RemainderWraps ==
  ASSUME NEW N \in Nat \ {0}, NEW x \in Int, NEW y \in Int, y = x + N
  PROVE  (y % N) = (x % N)
<1>1. PICK q \in Int : \E r \in 0 .. N - 1 : x = N * q + r /\ (x % N) = r
  BY Division, Zenon
<1>2. PICK r \in 0 .. N - 1 : x = N * q + r /\ (x % N) = r
  BY <1>1, Zenon
<1>3. PICK p \in Int : \E s \in 0 .. N - 1 : y = N * p + s /\ (y % N) = s
  BY Division, Zenon
<1>4. PICK s \in 0 .. N - 1 : y = N * p + s /\ (y % N) = s
  BY <1>3, Zenon
<1>5. PICK o \in Int : o = q + 1 /\ N * o = N * q + N
  <2>1. q + 1 \in Int /\ N * (q + 1) = N * q + N
    OBVIOUS
  <2> QED BY <2>1
<1>6. N * o + r = N * p + s
  BY <1>2, <1>4, <1>5
<1>7. r = s
  BY <1>6, DivisionUnique, Zenon
<1> QED BY <1>2, <1>4, <1>7

\* The stages follow each other round, and blocks less than a round apart have
\* stages of their own.
LEMMA Stages ==
  ASSUME tile \in Tiles
  PROVE  /\ NumStages \in Nat \ {0} /\ First \in Nat
         /\ StageOf(First) = 0
         /\ \A b \in Int : /\ StageOf(b) \in 0 .. NumStages - 1
                           /\ StageOf(b - 1) = AdvancePipeline(StageOf(b))
                           /\ StageOf(b - NumStages) = StageOf(b)
         /\ \A b, c \in Int : b < c /\ c < b + NumStages => StageOf(b) # StageOf(c)
<1>1. NumStages \in Nat \ {0} /\ First \in Nat
  BY TileFacts
<1>2. StageOf(First) = 0
  <2>1. ((First - First) % NumStages) = 0
    BY <1>1
  <2> QED BY <2>1 DEF StageOf
<1>3. ASSUME NEW b \in Int
      PROVE  /\ StageOf(b) \in 0 .. NumStages - 1
             /\ StageOf(b - 1) = AdvancePipeline(StageOf(b))
             /\ StageOf(b - NumStages) = StageOf(b)
  <2>1. PICK x \in Int, y \in Int, z \in Int :
           x = First - b /\ y = First - (b - 1) /\ z = First - (b - NumStages) /\ y = x + 1 /\ z = x + NumStages
    <3>1. First - b \in Int /\ First - (b - 1) = (First - b) + 1 /\ First - (b - NumStages) = (First - b) + NumStages
      BY <1>1
    <3> QED BY <1>1, <3>1
  <2>2. StageOf(b) = (x % NumStages) /\ StageOf(b - 1) = (y % NumStages) /\ StageOf(b - NumStages) = (z % NumStages)
    BY <2>1 DEF StageOf
  <2>3. (x % NumStages) \in 0 .. NumStages - 1
    BY <1>1, Division, Zenon
  <2>4. (y % NumStages) = IF (x % NumStages) < NumStages - 1 THEN (x % NumStages) + 1 ELSE 0
    BY <1>1, <2>1, NextRemainder
  <2>5. (z % NumStages) = (x % NumStages)
    BY <1>1, <2>1, RemainderWraps
  <2> HIDE DEF NumStages
  <2> QED BY <2>2, <2>3, <2>4, <2>5 DEF AdvancePipeline
<1>4. ASSUME NEW b \in Int, NEW c \in Int, b < c, c < b + NumStages
      PROVE  StageOf(b) # StageOf(c)
  <2>1. PICK x \in Int, y \in Int : x = First - c /\ y = First - b /\ x < y /\ y < x + NumStages
    BY <1>1, <1>4
  <2> QED BY <1>1, <2>1, RemaindersApart DEF StageOf
<1> QED BY <1>1, <1>2, <1>3, <1>4

-----------------------------------------------------------------------------
(* Barriers are kept: a warp passes one when all have arrived.             *)

\* A step of a warp to a place and a block, with so many arrivals.
Move(w, at, m, more) ==
  /\ tile' = tile /\ pc' = [pc EXCEPT ![w] = at] /\ n' = [n EXCEPT ![w] = m]
  /\ arrived' = [arrived EXCEPT ![w] = @ + more]

LEMMA OneArrives ==
  ASSUME Typed, Barriers, arrived \in [Warps -> Int], NEW w \in Warps,
         NEW at \in Places, NEW m \in Nat, NEW more \in {0, 1}, Move(w, at, m, more),
         more = 1 => Waits(at),
         Waits(pc[w]) => Released(w),
         Arrivals(at, m) = Arrivals(pc[w], n[w]) + more,
         at \in {"drain", "apply_bias"} => tile.bias, at = "drain" => NumStages > 1
  PROVE  Barriers' /\ arrived' \in [Warps -> Int]
<1>1. tile' = tile /\ NumStages' = NumStages /\ First' = First
  BY DEF Move, NumStages, First
<1>2. /\ pc'[w] = at /\ n'[w] = m /\ arrived'[w] = arrived[w] + more /\ arrived' \in [Warps -> Int]
      /\ \A v \in Warps \ {w} : pc'[v] = pc[v] /\ n'[v] = n[v] /\ arrived'[v] = arrived[v]
  BY DEF Move, Typed
<1>3. \A p, k : Arrivals(p, k)' = Arrivals(p, k) /\ Waits(p)' = Waits(p)
  BY <1>1 DEF Arrivals, Waits, InPrologue, PerBlock
<1>4. \A v \in Warps : arrived[v] >= arrived[w]
  <2>1. CASE Waits(pc[w])
    BY <2>1 DEF Released
  <2>2. CASE ~Waits(pc[w])
    BY <2>2 DEF Barriers
  <2> QED BY <2>1, <2>2
<1>5. ASSUME NEW u \in Warps, NEW v \in Warps
      PROVE  arrived'[v] >= arrived'[u] - (IF Waits(pc'[u]) THEN 1 ELSE 0)
  <2>1. arrived[v] >= arrived[u] - (IF Waits(pc[u]) THEN 1 ELSE 0)
    BY DEF Barriers
  <2>2. arrived'[v] >= arrived[v] /\ arrived[v] \in Int /\ arrived[u] \in Int /\ arrived'[v] \in Int /\ arrived'[u] \in Int
    BY <1>2
  <2>3. CASE u = w
    BY <2>2, <2>3, <1>2, <1>4
  <2>4. CASE u # w
    BY <2>1, <2>2, <2>4, <1>2
  <2> QED BY <2>3, <2>4
<1>6. \A v \in Warps : arrived'[v] = Arrivals(pc'[v], n'[v])
  BY <1>2 DEF Barriers
<1>7. \A v \in Warps : (pc'[v] \in {"drain", "apply_bias"} => tile.bias) /\ (pc'[v] = "drain" => NumStages > 1)
  BY <1>2 DEF Barriers
<1> HIDE DEF Arrivals, Waits
<1> QED BY <1>1, <1>2, <1>3, <1>5, <1>6, <1>7 DEF Barriers

LEMMA BarrierStep ==
  ASSUME QuietInv, Barriers, arrived \in [Warps -> Int], NEW w \in Warps, Warp(w)
  PROVE  Barriers' /\ arrived' \in [Warps -> Int]
<1>1. /\ tile \in Tiles /\ pc \in [Warps -> Places] /\ n \in [Warps -> Nat] /\ InFlight(w) /\ Typed
  BY DEF QuietInv, Typed
<1>2. NumStages \in Nat \ {0} /\ First \in Nat /\ tile.bias \in BOOLEAN /\ (tile.qInRegs => NumStages = 1)
  BY <1>1, TileFacts
<1>3. /\ arrived[w] = Arrivals(pc[w], n[w]) /\ n[w] \in Nat
      /\ (pc[w] = "drain" => NumStages > 1) /\ (pc[w] \in {"drain", "apply_bias"} => tile.bias)
  BY <1>1 DEF Barriers
<1>4. n = [n EXCEPT ![w] = n[w]] /\ arrived = [arrived EXCEPT ![w] = @ + 0]
  BY <1>1
<1> USE DEF Goto, Arrive
<1>5. CASE LoadPrologue(w)
  <2>1. pc[w] = "start" /\ Move(w, "preprocess_Q", n[w], 0) /\ "preprocess_Q" \in Places
    BY <1>5, <1>4 DEF LoadPrologue, Move, Places, NextIsV, Prologue
  <2>2. Arrivals("preprocess_Q", n[w]) = Arrivals("start", n[w]) + 0
    BY <1>2, <1>3 DEF Arrivals, PerBlock, InPrologue
  <2> QED BY <2>1, <2>2, <1>1, <1>3, OneArrives DEF Waits
<1>6. CASE PreprocessQ(w)
  <2>1. CASE tile.qInRegs
    <3>1. pc[w] = "preprocess_Q" /\ Move(w, "read_Q", n[w], 1) /\ "read_Q" \in Places
      BY <1>6, <2>1, <1>4 DEF PreprocessQ, Move, Places, NextIsV, Prologue
    <3>2. Arrivals("read_Q", n[w]) = Arrivals("preprocess_Q", n[w]) + 1
      BY DEF Arrivals
    <3> QED BY <3>1, <3>2, <1>1, <1>3, OneArrives DEF Waits
  <2>2. CASE ~tile.qInRegs
    <3>1. pc[w] = "preprocess_Q" /\ Move(w, "sync", n[w], 0) /\ "sync" \in Places
      BY <1>6, <2>2, <1>4 DEF PreprocessQ, Move, Places, NextIsV, Prologue
    <3>2. n[w] = First
      BY <3>1, <1>1 DEF InFlight, Prologue
    <3>3. Arrivals("sync", n[w]) = Arrivals("preprocess_Q", n[w]) + 0
      BY <2>2, <3>2, <1>2 DEF Arrivals, PerBlock, InPrologue
    <3> QED BY <3>1, <3>3, <1>1, <1>3, OneArrives DEF Waits
  <2> QED BY <2>1, <2>2
<1>7. CASE ReadQ(w)
  <2>1. pc[w] = "read_Q" /\ Released(w) /\ Move(w, "prefetch", n[w], 1) /\ "prefetch" \in Places
    BY <1>7, <1>4 DEF ReadQ, Move, Places, NextIsV, Prologue
  <2>2. Arrivals("prefetch", n[w]) = Arrivals("read_Q", n[w]) + 1
    BY <1>2, <1>3 DEF Arrivals, PerBlock, InPrologue
  <2> QED BY <2>1, <2>2, <1>1, <1>3, OneArrives DEF Waits
<1>8. CASE PrefetchRest(w)
  <2>1. pc[w] = "prefetch" /\ Released(w) /\ Move(w, "sync", n[w], 0) /\ "sync" \in Places
    BY <1>8, <1>4 DEF PrefetchRest, Move, Places, NextIsV
  <2>2. n[w] = First /\ tile.qInRegs
    BY <2>1, <1>1 DEF InFlight, Prologue
  <2>3. Arrivals("sync", n[w]) = Arrivals("prefetch", n[w]) + 0
    BY <2>2, <1>2 DEF Arrivals, PerBlock, InPrologue
  <2> QED BY <2>1, <2>3, <1>1, <1>3, OneArrives DEF Waits
<1>9. CASE Sync(w)
  <2>1. pc[w] = "sync" /\ Move(w, "load_V", n[w], 1) /\ "load_V" \in Places
    BY <1>9, <1>4 DEF Sync, Move, Places, NextIsV
  <2>2. Arrivals("load_V", n[w]) = Arrivals("sync", n[w]) + 1
    BY <1>2, <1>3 DEF Arrivals, PerBlock, InPrologue
  <2> QED BY <2>1, <2>2, <1>1, <1>3, OneArrives DEF Waits
<1>10. CASE LoadVNext(w)
  <2>1. pc[w] = "load_V" /\ Released(w) /\ Move(w, "gemm_QK", n[w], 0) /\ "gemm_QK" \in Places
    BY <1>10, <1>4 DEF LoadVNext, Move, Places, NextIsK
  <2>2. Arrivals("gemm_QK", n[w]) = Arrivals("load_V", n[w]) + 0
    BY <1>2, <1>3 DEF Arrivals, PerBlock, InPrologue
  <2> QED BY <2>1, <2>2, <1>1, <1>3, OneArrives DEF Waits
<1>11. CASE GemmQK(w)
  <2>1. PICK at \in {"sync_V", "drain"} :
          /\ pc[w] = "gemm_QK" /\ Move(w, at, n[w], 0)
          /\ at = "drain" => tile.bias /\ NumStages > 1
          /\ at = "sync_V" => NumStages = 1 \/ ~tile.bias
    <3>1. CASE NumStages = 1
      BY <1>11, <1>4, <3>1 DEF GemmQK, Move
    <3>2. CASE NumStages > 1 /\ tile.bias
      BY <1>11, <1>4, <3>2 DEF GemmQK, Move
    <3>3. CASE NumStages > 1 /\ ~tile.bias
      BY <1>11, <1>4, <3>3 DEF GemmQK, Move
    <3> QED BY <1>2, <3>1, <3>2, <3>3
  <2>2. at \in Places
    BY DEF Places, NextIsK
  <2>3. Arrivals(at, n[w]) = Arrivals("gemm_QK", n[w]) + 0
    BY <2>1, <1>2, <1>3 DEF Arrivals, PerBlock, InPrologue
  <2> QED BY <2>1, <2>2, <2>3, <1>1, <1>3, OneArrives DEF Waits
<1>12. CASE Drain(w)
  <2>1. pc[w] = "drain" /\ Move(w, "apply_bias", n[w], 1) /\ "apply_bias" \in Places
    BY <1>12, <1>4 DEF Drain, Move, Places, NextIsK
  <2>2. Arrivals("apply_bias", n[w]) = Arrivals("drain", n[w]) + 1
    BY <2>1, <1>2, <1>3 DEF Arrivals, PerBlock, InPrologue
  <2> QED BY <2>1, <2>2, <1>1, <1>3, OneArrives DEF Waits
<1>13. CASE SyncV(w)
  <2>1. pc[w] = "sync_V" /\ Move(w, "load_K", n[w], 1) /\ "load_K" \in Places
    BY <1>13, <1>4 DEF SyncV, Move, Places, NextIsK
  <2>2. Arrivals("load_K", n[w]) = Arrivals("sync_V", n[w]) + 1
    BY <1>2, <1>3 DEF Arrivals, PerBlock, InPrologue
  <2> QED BY <2>1, <2>2, <1>1, <1>3, OneArrives DEF Waits
<1>14. CASE LoadKNext(w)
  <2>1. PICK at \in {"apply_bias", "gemm_PV"} :
          /\ pc[w] = "load_K" /\ Released(w) /\ Move(w, at, n[w], 0)
          /\ at = "apply_bias" => NumStages = 1 /\ tile.bias
    <3>1. CASE NumStages = 1 /\ tile.bias
      BY <1>14, <1>4, <3>1 DEF LoadKNext, Move
    <3>2. CASE ~(NumStages = 1 /\ tile.bias)
      BY <1>14, <1>4, <3>2 DEF LoadKNext, Move
    <3> QED BY <3>1, <3>2
  <2>2. at \in Places
    BY DEF Places, BothDone
  <2>3. Arrivals(at, n[w]) = Arrivals("load_K", n[w]) + 0
    BY <2>1, <1>2, <1>3 DEF Arrivals, PerBlock, InPrologue
  <2> QED BY <2>1, <2>2, <2>3, <1>1, <1>3, OneArrives DEF Waits
<1>15. CASE ApplyBias(w)
  <2>1. PICK at \in {"sync_V", "gemm_PV"} :
          /\ pc[w] = "apply_bias" /\ Released(w) /\ Move(w, at, n[w], 0)
          /\ at = "gemm_PV" <=> NumStages = 1
    <3>1. CASE NumStages = 1
      BY <1>15, <1>4, <3>1 DEF ApplyBias, Move
    <3>2. CASE NumStages # 1
      BY <1>15, <1>4, <3>2 DEF ApplyBias, Move
    <3> QED BY <3>1, <3>2
  <2>2. at \in Places
    BY DEF Places, NextIsK, BothDone
  <2>3. Arrivals(at, n[w]) = Arrivals("apply_bias", n[w]) + 0
    BY <2>1, <1>2, <1>3 DEF Arrivals, PerBlock, InPrologue
  <2> QED BY <2>1, <2>2, <2>3, <1>1, <1>3, OneArrives DEF Waits
<1>16. CASE GemmPV(w)
  <2>1. CASE n[w] = 0
    <3>1. pc[w] = "gemm_PV" /\ Move(w, "epilogue", n[w], 0) /\ "epilogue" \in Places
      BY <1>16, <2>1, <1>4 DEF GemmPV, Move, Places, BothDone, Last
    <3>2. Arrivals("epilogue", n[w]) = Arrivals("gemm_PV", n[w]) + 0
      BY <2>1, <1>2 DEF Arrivals, PerBlock, InPrologue
    <3> QED BY <3>1, <3>2, <1>1, <1>3, OneArrives DEF Waits
  <2>2. CASE n[w] # 0
    <3>1. PICK m \in Nat : m = n[w] - 1
      BY <2>2, <1>3
    <3>2. pc[w] = "gemm_PV" /\ Move(w, "sync", m, 0) /\ "sync" \in Places
      BY <1>16, <2>2, <3>1, <1>4 DEF GemmPV, Move, Places, NextIsV
    <3>3. Arrivals("sync", m) = Arrivals("gemm_PV", n[w]) + 0
      BY <3>1, <1>2, <1>3 DEF Arrivals, PerBlock, InPrologue
    <3> QED BY <3>2, <3>3, <1>1, <1>3, OneArrives DEF Waits
  <2> QED BY <2>1, <2>2
<1>17. CASE Epilogue(w)
  <2>1. pc[w] = "epilogue" /\ Move(w, "write_O", n[w], 1) /\ "write_O" \in Places
    BY <1>17, <1>4 DEF Epilogue, Move, Places, BothDone, Last
  <2>2. Arrivals("write_O", n[w]) = Arrivals("epilogue", n[w]) + 1
    BY <1>2, <1>3 DEF Arrivals, PerBlock, InPrologue
  <2> QED BY <2>1, <2>2, <1>1, <1>3, OneArrives DEF Waits
<1>18. CASE WriteO(w)
  <2>1. pc[w] = "write_O" /\ Released(w) /\ Move(w, "store_O", n[w], 1) /\ "store_O" \in Places
    BY <1>18, <1>4 DEF WriteO, Move, Places, BothDone, Last
  <2>2. Arrivals("store_O", n[w]) = Arrivals("write_O", n[w]) + 1
    BY <1>2, <1>3 DEF Arrivals, PerBlock, InPrologue
  <2> QED BY <2>1, <2>2, <1>1, <1>3, OneArrives DEF Waits
<1>19. CASE StoreO(w)
  <2>1. pc[w] = "store_O" /\ Released(w) /\ Move(w, "done", n[w], 0) /\ "done" \in Places
    BY <1>19, <1>4 DEF StoreO, Move, Places, BothDone, Last
  <2>2. Arrivals("done", n[w]) = Arrivals("store_O", n[w]) + 0
    BY <1>2, <1>3 DEF Arrivals, PerBlock, InPrologue
  <2> QED BY <2>1, <2>2, <1>1, <1>3, OneArrives DEF Waits
<1> QED BY <1>5, <1>6, <1>7, <1>8, <1>9, <1>10, <1>11, <1>12, <1>13, <1>14, <1>15, <1>16, <1>17, <1>18, <1>19 DEF Warp

\* Who is where when a warp is past a barrier, or can pass it.
LEMMA Together ==
  ASSUME Typed, Barriers, arrived \in [Warps -> Int], NEW w \in Warps, NEW v \in Warps, Waits(pc[w]) => Released(w)
  PROVE  LET a == Arrivals(pc[w], n[w])  b == Arrivals(pc[v], n[v])
         IN  a \in Int /\ (b = a \/ (b = a + 1 /\ Waits(pc[v])))
<1>1. arrived[w] \in Int /\ arrived[v] \in Int /\ arrived[w] = Arrivals(pc[w], n[w]) /\ arrived[v] = Arrivals(pc[v], n[v])
  BY DEF Barriers
<1>2. arrived[w] >= arrived[v] - (IF Waits(pc[v]) THEN 1 ELSE 0)
  BY DEF Barriers
<1>3. arrived[v] >= arrived[w]
  <2>1. CASE Waits(pc[w])
    BY <2>1 DEF Released
  <2>2. CASE ~Waits(pc[w])
    BY <2>2 DEF Barriers
  <2> QED BY <2>1, <2>2
<1> QED BY <1>1, <1>2, <1>3

\* The arrivals in numbers: d in the prologue, c at each block, after q blocks of f.
LEMMA ArrivalTable ==
  ASSUME Typed, NEW m \in 0 .. First, NEW at \in Places
  PROVE  \E c \in {2, 3}, d \in {0, 2}, q \in 0 .. First, f \in Nat :
           /\ c = 3 <=> NumStages > 1 /\ tile.bias
           /\ d = 2 <=> tile.qInRegs
           /\ q = First - m /\ f = First
           /\ at \in {"start", "preprocess_Q"} => Arrivals(at, m) = 0
           /\ at = "read_Q" => Arrivals(at, m) = 1
           /\ at = "prefetch" => Arrivals(at, m) = 2
           /\ at = "sync" => Arrivals(at, m) = d + c * q
           /\ at \in {"load_V", "gemm_QK", "drain"} => Arrivals(at, m) = d + c * q + 1
           /\ at = "sync_V" \/ (at = "apply_bias" /\ NumStages > 1) => Arrivals(at, m) = d + c * q + c - 1
           /\ at \in {"load_K", "gemm_PV"} \/ (at = "apply_bias" /\ NumStages = 1) => Arrivals(at, m) = d + c * q + c
           /\ at = "epilogue" => Arrivals(at, m) = d + c * f + c
           /\ at = "write_O" => Arrivals(at, m) = d + c * f + c + 1
           /\ at \in {"store_O", "done"} => Arrivals(at, m) = d + c * f + c + 2
<1>1. NumStages \in Nat \ {0} /\ First \in Nat /\ tile.bias \in BOOLEAN
  BY TileFacts DEF Typed
<1>2. PICK q \in 0 .. First, f \in Nat : q = First - m /\ f = First
  BY <1>1
<1>3. PICK d \in {0, 2} : d = InPrologue /\ (d = 2 <=> tile.qInRegs)
  BY DEF InPrologue
<1> HIDE DEF NumStages, First
<1>4. First - m = q /\ First - m + 1 = q + 1 /\ First + 1 = f + 1
  BY <1>1, <1>2
<1>5. CASE NumStages > 1 /\ tile.bias
  <2>1. PerBlock(First - m) = 3 * q /\ PerBlock(First - m + 1) = 3 * q + 3 /\ PerBlock(First + 1) = 3 * f + 3
    BY <1>4, <1>5 DEF PerBlock
  <2> WITNESS 3 \in {2, 3}, d \in {0, 2}, q \in 0 .. First, f \in Nat
  <2> HIDE DEF PerBlock, InPrologue
  <2> QED BY <2>1, <1>2, <1>3, <1>5 DEF Arrivals
<1>6. CASE ~(NumStages > 1 /\ tile.bias)
  <2>1. PerBlock(First - m) = 2 * q /\ PerBlock(First - m + 1) = 2 * q + 2 /\ PerBlock(First + 1) = 2 * f + 2
    BY <1>4, <1>6 DEF PerBlock
  <2> WITNESS 2 \in {2, 3}, d \in {0, 2}, q \in 0 .. First, f \in Nat
  <2> HIDE DEF PerBlock, InPrologue
  <2> QED BY <2>1, <1>2, <1>3, <1>6 DEF Arrivals
<1> QED BY <1>5, <1>6

LEMMA WhoIsWhere ==
  ASSUME QuietInv, Barriers, arrived \in [Warps -> Int], \A u \in Warps : n[u] <= First,
         NEW w \in Warps, NEW v \in Warps, Waits(pc[w]) => Released(w)
  PROVE  /\ pc[w] = "gemm_QK" =>
              n[v] = n[w] /\ (pc[v] \in NextIsK \cup {"load_V"} \/ (pc[v] = "apply_bias" /\ NumStages > 1))
         /\ pc[w] = "gemm_PV" \/ (pc[w] = "apply_bias" /\ NumStages = 1) =>
              \/ n[v] = n[w] /\ (pc[v] \in {"load_K", "gemm_PV"} \/ (pc[v] = "apply_bias" /\ NumStages = 1))
              \/ n[v] = n[w] - 1 /\ pc[v] \in {"sync", "load_V"}
              \/ n[w] = 0 /\ pc[v] \in {"epilogue", "write_O"}
         /\ pc[w] = "apply_bias" /\ NumStages > 1 =>
              n[v] = n[w] /\ pc[v] \in {"apply_bias", "sync_V", "load_K"}
         /\ pc[w] = "read_Q" => pc[v] \in {"read_Q", "prefetch"}
         /\ pc[w] = "store_O" => pc[v] \in {"store_O", "done"}
<1>1. PICK a \in Int, b \in Int :
         /\ a = Arrivals(pc[w], n[w]) /\ b = Arrivals(pc[v], n[v])
         /\ b = a \/ (b = a + 1 /\ Waits(pc[v]))
  <2>1. Arrivals(pc[w], n[w]) \in Int /\ Arrivals(pc[v], n[v]) \in Int
    BY DEF Barriers
  <2> QED BY <2>1, Together DEF QuietInv
<1>2. /\ NumStages \in Nat \ {0} /\ First \in Nat /\ tile.bias \in BOOLEAN /\ (tile.qInRegs => NumStages = 1)
      /\ n[w] \in 0 .. First /\ n[v] \in 0 .. First /\ pc[v] \in Places /\ pc[w] \in Places
      /\ pc[v] \in {"read_Q", "prefetch"} => tile.qInRegs
      /\ pc[w] \in {"read_Q", "prefetch"} => tile.qInRegs
      /\ pc[w] = "apply_bias" => tile.bias
      /\ pc[v] \in {"drain", "apply_bias"} => tile.bias
      /\ pc[v] = "drain" => NumStages > 1
  BY TileFacts DEF QuietInv, Typed, InFlight, Barriers
<1> DEFINE Table(at, m, x, c, d, q, f) ==
           /\ c = 3 <=> NumStages > 1 /\ tile.bias
           /\ d = 2 <=> tile.qInRegs
           /\ q = First - m /\ f = First
           /\ at \in {"start", "preprocess_Q"} => x = 0
           /\ at = "read_Q" => x = 1
           /\ at = "prefetch" => x = 2
           /\ at = "sync" => x = d + c * q
           /\ at \in {"load_V", "gemm_QK", "drain"} => x = d + c * q + 1
           /\ at = "sync_V" \/ (at = "apply_bias" /\ NumStages > 1) => x = d + c * q + c - 1
           /\ at \in {"load_K", "gemm_PV"} \/ (at = "apply_bias" /\ NumStages = 1) => x = d + c * q + c
           /\ at = "epilogue" => x = d + c * f + c
           /\ at = "write_O" => x = d + c * f + c + 1
           /\ at \in {"store_O", "done"} => x = d + c * f + c + 2
<1>3. PICK c \in {2, 3}, d \in {0, 2}, p \in 0 .. First, f \in Nat : Table(pc[w], n[w], a, c, d, p, f)
  BY <1>1, <1>2, ArrivalTable DEF QuietInv
<1>4. PICK c1 \in {2, 3}, d1 \in {0, 2}, q \in 0 .. First, f1 \in Nat : Table(pc[v], n[v], b, c1, d1, q, f1)
  BY <1>1, <1>2, ArrivalTable DEF QuietInv
<1>5. Table(pc[v], n[v], b, c, d, q, f)
  <2>1. c1 = c /\ d1 = d /\ f1 = f
    BY <1>3, <1>4
  <2> QED BY <2>1, <1>4
<1>6. p = First - n[w] /\ q = First - n[v] /\ f = First
  BY <1>3, <1>4
<1> HIDE DEF NumStages, First
<1>7. CASE pc[w] = "gemm_QK"
  <2>1. CASE c = 2
    BY <2>1, <1>7, <1>1, <1>2, <1>3, <1>5, <1>6 DEF Waits, Places, NextIsK, NextIsV, Prologue, BothDone, Last
  <2>2. CASE c = 3
    BY <2>2, <1>7, <1>1, <1>2, <1>3, <1>5, <1>6 DEF Waits, Places, NextIsK, NextIsV, Prologue, BothDone, Last
  <2> QED BY <2>1, <2>2
<1>8. CASE pc[w] = "gemm_PV" \/ (pc[w] = "apply_bias" /\ NumStages = 1)
  <2>1. CASE c = 2
    BY <2>1, <1>8, <1>1, <1>2, <1>3, <1>5, <1>6 DEF Waits, Places, NextIsK, NextIsV, Prologue, BothDone, Last
  <2>2. CASE c = 3
    BY <2>2, <1>8, <1>1, <1>2, <1>3, <1>5, <1>6 DEF Waits, Places, NextIsK, NextIsV, Prologue, BothDone, Last
  <2> QED BY <2>1, <2>2
<1>9. CASE pc[w] = "apply_bias" /\ NumStages > 1
  <2>1. CASE c = 2
    BY <2>1, <1>9, <1>1, <1>2, <1>3, <1>5, <1>6 DEF Waits, Places, NextIsK, NextIsV, Prologue, BothDone, Last
  <2>2. CASE c = 3
    BY <2>2, <1>9, <1>1, <1>2, <1>3, <1>5, <1>6 DEF Waits, Places, NextIsK, NextIsV, Prologue, BothDone, Last
  <2> QED BY <2>1, <2>2
<1>10. CASE pc[w] = "read_Q"
  <2>1. CASE c = 2
    BY <2>1, <1>10, <1>1, <1>2, <1>3, <1>5, <1>6 DEF Waits, Places, NextIsK, NextIsV, Prologue, BothDone, Last
  <2>2. CASE c = 3
    BY <2>2, <1>10, <1>1, <1>2, <1>3, <1>5, <1>6 DEF Waits, Places, NextIsK, NextIsV, Prologue, BothDone, Last
  <2> QED BY <2>1, <2>2
<1>11. CASE pc[w] = "store_O"
  <2>1. CASE c = 2
    BY <2>1, <1>11, <1>1, <1>2, <1>3, <1>5, <1>6 DEF Waits, Places, NextIsK, NextIsV, Prologue, BothDone, Last
  <2>2. CASE c = 3
    BY <2>2, <1>11, <1>1, <1>2, <1>3, <1>5, <1>6 DEF Waits, Places, NextIsK, NextIsV, Prologue, BothDone, Last
  <2> QED BY <2>1, <2>2
<1> QED BY <1>7, <1>8, <1>9, <1>10, <1>11

-----------------------------------------------------------------------------
(* Memory.                                                                 *)

\* The areas are apart from each other.
LEMMA AreasApart ==
  ASSUME tile \in Tiles
  PROVE  /\ Q \in Areas(tile) /\ Bias \in Areas(tile) /\ Q # Bias
         /\ \A s : K(s) # Q /\ K(s) # Bias /\ V(s) # Q /\ V(s) # Bias
         /\ \A s, t : K(s) # V(t) /\ (K(s) = K(t) => s = t) /\ (V(s) = V(t) => s = t)
         /\ \A b \in Int : K(StageOf(b)) \in Areas(tile) /\ V(StageOf(b)) \in Areas(tile)
<1>1. \A b \in Int : StageOf(b) \in 0 .. NumStages - 1
  BY Stages
<1>2. \A s \in 0 .. NumStages - 1 : K(s) \in Areas(tile) /\ V(s) \in Areas(tile)
  BY DEF K, V, Areas, NumStages
<1>3. Q \in Areas(tile) /\ Bias \in Areas(tile) /\ Q # Bias
  BY DEF Q, Bias, Areas
<1>4. \A s : K(s) # Q /\ K(s) # Bias /\ V(s) # Q /\ V(s) # Bias
  BY DEF Q, Bias, K, V
<1>5. \A s, t : K(s) # V(t) /\ (K(s) = K(t) => s = t) /\ (V(s) = V(t) => s = t)
  BY DEF K, V
<1> QED BY <1>1, <1>2, <1>3, <1>4, <1>5

\* A write of a warp's shares, at most one value to each area.
LEMMA WrittenIs ==
  ASSUME mem \in [Areas(tile) -> [Warps -> Int]], NEW w \in Warps, NEW values,
         \A x \in values : x[2] \in Int,
         \A x, y \in values : x[1] = y[1] => x[2] = y[2]
  PROVE  LET new == Written(w, values)
         IN  /\ new \in [Areas(tile) -> [Warps -> Int]]
             /\ \A a \in Areas(tile) : \A v \in Warps \ {w} : new[a][v] = mem[a][v]
             /\ \A x \in values : x[1] \in Areas(tile) => new[x[1]][w] = x[2]
             /\ \A a \in Areas(tile) : (\A x \in values : x[1] # a /\ a \notin Aliases(x[1])) => new[a][w] = mem[a][w]
<1> DEFINE new == Written(w, values)
           val(a) == IF \E x \in values : x[1] = a THEN (CHOOSE x \in values : x[1] = a)[2]
                     ELSE IF \E x \in values : a \in Aliases(x[1]) THEN Garbage ELSE mem[a][w]
<1>1. new = [a \in Areas(tile) |-> [mem[a] EXCEPT ![w] = val(a)]]
  BY DEF Written
<1>2. ASSUME NEW a \in Areas(tile)
      PROVE  /\ val(a) \in Int
             /\ \A x \in values : x[1] = a => val(a) = x[2]
             /\ (\A x \in values : x[1] # a /\ a \notin Aliases(x[1])) => val(a) = mem[a][w]
  <2>1. CASE \E x \in values : x[1] = a
    <3>1. PICK y \in values : y = (CHOOSE x \in values : x[1] = a) /\ y[1] = a
      BY <2>1
    <3>2. val(a) = y[2]
      BY <2>1, <3>1
    <3> HIDE DEF val
    <3> QED BY <2>1, <3>1, <3>2
  <2>2. CASE ~\E x \in values : x[1] = a
    <3>1. mem[a][w] \in Int /\ Garbage \in Int
      BY DEF Garbage
    <3> QED BY <2>2, <3>1
  <2> QED BY <2>1, <2>2
<1> HIDE DEF new, val
<1>3. ASSUME NEW a \in Areas(tile)
      PROVE  /\ new[a] \in [Warps -> Int] /\ new[a][w] = val(a)
             /\ \A v \in Warps \ {w} : new[a][v] = mem[a][v]
  <2>1. new[a] = [mem[a] EXCEPT ![w] = val(a)] /\ mem[a] \in [Warps -> Int]
    BY <1>1
  <2> QED BY <1>2, <2>1
<1>4. new \in [Areas(tile) -> [Warps -> Int]]
  BY <1>1, <1>3
<1> QED BY <1>2, <1>3, <1>4 DEF new

\* What all warps hold of an area, once it has landed for all.
LEMMA ReadIs ==
  ASSUME NEW a, NEW x, \A v \in Warps : mem[a][v] = x /\ \A i \in DOMAIN groups[v] : a \notin groups[v][i]
  PROVE  Read(a) = x
<1>1. 1 \in Warps
  BY CpAsyncAssumption DEF Warps
<1>2. mem[a][1] = x
  BY <1>1
<1> QED BY <1>2 DEF Read

\* A step of one warp leaves what the others hold.
LEMMA OtherWarp ==
  ASSUME tile \in Tiles, tile' = tile, NEW v \in Warps, Placed(v), Held(v), n[v] \in Int,
         pc'[v] = pc[v], n'[v] = n[v], groups'[v] = groups[v], rd'[v] = rd[v], wr'[v] = wr[v],
         \A a \in Areas(tile) : mem'[a][v] = mem[a][v]
  PROVE  Placed(v)' /\ Held(v)'
<1>1. NumStages' = NumStages /\ First' = First
  BY DEF NumStages, First
<1>2. \A b : StageOf(b)' = StageOf(b)
  BY <1>1 DEF StageOf
<1>3. \A a : CopyOf(v, a)' = CopyOf(v, a) /\ AreaOf(v, a)' = AreaOf(v, a)
  <2>1. \A a : CopyOf(v, a)' = CopyOf(v, a)
    BY <1>1 DEF CopyOf
  <2> QED BY <1>1, <1>2, <2>1 DEF AreaOf, KIsNewest
<1>4. CopiesPlaced(v)'
  BY <1>1, <1>3, Zenon DEF Placed, CopiesPlaced, Age
<1>5. Positions(v)'
  BY <1>1, <1>2 DEF Placed, Positions, VPending
<1>6. NextK(v)' = NextK(v) /\ NextV(v)' = NextV(v)
  BY <1>1 DEF NextK, NextV, KCopied, VPending
<1>7. \A b \in 0 .. First : mem'[K(StageOf(b))][v] = mem[K(StageOf(b))][v] /\ mem'[V(StageOf(b))][v] = mem[V(StageOf(b))][v]
  BY AreasApart
<1>8. KHeld(v)' /\ VHeld(v)'
  <2>1. KHeld(v) /\ VHeld(v)
    BY DEF Held
  <2>2. KHeld(v)'
    BY <1>1, <1>2, <1>6, <1>7, <2>1 DEF KHeld
  <2>3. VHeld(v)'
    BY <1>1, <1>2, <1>6, <1>7, <2>1 DEF VHeld
  <2> QED BY <2>2, <2>3
<1>9. mem'[Q][v] = mem[Q][v] /\ mem'[Bias][v] = mem[Bias][v]
  BY AreasApart
<1>10. QHeld(v)' /\ BiasHeld(v)'
  BY <1>1, <1>9 DEF Held, QHeld, BiasHeld, IsBiasTile
<1> QED BY <1>4, <1>5, <1>8, <1>10 DEF Placed, Held

-----------------------------------------------------------------------------
(* The areas of the groups in flight, and the pipeline's stages.           *)

\* What a step of a warp leaves alone.
LEMMA WarpStep ==
  ASSUME QuietInv, Shape, NEW w \in Warps, Warp(w)
  PROVE  /\ tile \in Tiles /\ tile' = tile
         /\ NumStages \in Nat \ {0} /\ NumStages' = NumStages /\ First \in Nat /\ First' = First
         /\ tile.bias \in BOOLEAN /\ (tile.qInRegs => NumStages = 1)
         /\ \A b : StageOf(b)' = StageOf(b)
         /\ pc[w] \in Places /\ n[w] \in Nat /\ groups[w] \in Seq(Copies) /\ Len(groups[w]) \in Nat
         /\ CopiesExist(w) /\ BiasIsNewest(w) /\ InFlight(w)
         /\ \A v \in Warps \ {w} : /\ pc'[v] = pc[v] /\ n'[v] = n[v] /\ groups'[v] = groups[v]
                                   /\ rd'[v] = rd[v] /\ wr'[v] = wr[v]
                                   /\ acc_S'[v] = acc_S[v] /\ acc'[v] = acc[v] /\ stored'[v] = stored[v]
<1>1. Typed /\ tile \in Tiles /\ CopiesExist(w) /\ BiasIsNewest(w) /\ InFlight(w)
  BY DEF QuietInv, Typed
<1>2. tile' = tile
  BY DEF Warp, LoadPrologue, PreprocessQ, ReadQ, PrefetchRest, Sync, LoadVNext, GemmQK, Drain, SyncV, LoadKNext,
         ApplyBias, GemmPV, Epilogue, WriteO, StoreO
<1>3. NumStages' = NumStages /\ First' = First
  BY <1>2 DEF NumStages, First
<1>4. \A b : StageOf(b)' = StageOf(b)
  BY <1>3 DEF StageOf
<1>5. pc[w] \in Places /\ n[w] \in Nat /\ groups[w] \in Seq(Copies) /\ Len(groups[w]) \in Nat
  BY <1>1 DEF Typed
<1>6. ASSUME NEW v \in Warps, v # w
      PROVE  /\ pc'[v] = pc[v] /\ n'[v] = n[v] /\ groups'[v] = groups[v] /\ rd'[v] = rd[v] /\ wr'[v] = wr[v]
             /\ acc_S'[v] = acc_S[v] /\ acc'[v] = acc[v] /\ stored'[v] = stored[v]
  <2> USE <1>1, <1>6 DEF Typed, Shape, Goto, Commit, WaitGroup, copies
  <2>1. pc'[v] = pc[v]
    BY DEF Warp, LoadPrologue, PreprocessQ, ReadQ, PrefetchRest, Sync, LoadVNext, GemmQK, Drain, SyncV, LoadKNext,
           ApplyBias, GemmPV, Epilogue, WriteO, StoreO
  <2>2. n'[v] = n[v] /\ rd'[v] = rd[v] /\ wr'[v] = wr[v]
    BY DEF Warp, LoadPrologue, PreprocessQ, ReadQ, PrefetchRest, Sync, LoadVNext, GemmQK, Drain, SyncV, LoadKNext,
           ApplyBias, GemmPV, Epilogue, WriteO, StoreO
  <2>3. groups'[v] = groups[v]
    BY DEF Warp, LoadPrologue, PreprocessQ, ReadQ, PrefetchRest, Sync, LoadVNext, GemmQK, Drain, SyncV, LoadKNext,
           ApplyBias, GemmPV, Epilogue, WriteO, StoreO
  <2>4. acc_S'[v] = acc_S[v] /\ acc'[v] = acc[v] /\ stored'[v] = stored[v]
    BY DEF Warp, LoadPrologue, PreprocessQ, ReadQ, PrefetchRest, Sync, LoadVNext, GemmQK, Drain, SyncV, LoadKNext,
           ApplyBias, GemmPV, Epilogue, WriteO, StoreO
  <2> QED BY <2>1, <2>2, <2>3, <2>4
<1> QED BY <1>1, <1>2, <1>3, <1>4, <1>5, <1>6, TileFacts

\* The first blocks fill the stages in order.
LEMMA FirstStages ==
  ASSUME tile \in Tiles, NEW h \in 0 .. NumStages - 1
  PROVE  StageOf(First - h) = h
<1>1. NumStages \in Nat \ {0} /\ First \in Nat
  BY TileFacts
<1>2. First - (First - h) = h /\ (h % NumStages) = h
  <2>1. PICK N \in Nat \ {0} : N = NumStages
    BY <1>1
  <2>2. PICK x \in 0 .. N - 1 : x = h /\ x \in Int
    BY <2>1
  <2>3. (x % N) = x
    <3>1. PICK q \in Int : \E r \in 0 .. N - 1 : x = N * q + r /\ (x % N) = r
      BY <2>2, Division, Zenon
    <3>2. PICK r \in 0 .. N - 1 : x = N * q + r /\ (x % N) = r
      BY <3>1, Zenon
    <3>3. 0 \in Int /\ N * 0 + x = N * q + r
      BY <3>2
    <3>4. x = r
      BY <3>3, DivisionUnique, Zenon
    <3> QED BY <3>2, <3>4
  <2> QED BY <1>1, <2>1, <2>2, <2>3
<1> QED BY <1>2 DEF StageOf

\* Where a group of this age goes.
LEMMA AreaIs ==
  ASSUME NEW w \in Warps, NEW a \in Nat
  PROVE  /\ pc[w] \in NextIsV => AreaOf(w, a) =
              LET s == StageOf(n[w] - NumStages + (1 + (a + 1) \div 2)) IN IF a % 2 = 0 THEN K(s) ELSE V(s)
         /\ pc[w] \in NextIsK \/ (pc[w] = "apply_bias" /\ NumStages > 1) => AreaOf(w, a) =
              LET s == StageOf(n[w] - NumStages + (1 + a \div 2)) IN IF a % 2 = 0 THEN V(s) ELSE K(s)
         /\ pc[w] \in BothDone \/ (pc[w] = "apply_bias" /\ ~(NumStages > 1)) => AreaOf(w, a) =
              LET s == StageOf(n[w] - NumStages + (a + 1) \div 2) IN IF a % 2 = 0 THEN K(s) ELSE V(s)
<1>1. /\ pc[w] \in NextIsV => pc[w] \notin NextIsK /\ pc[w] # "apply_bias"
      /\ pc[w] \in NextIsK \/ pc[w] = "apply_bias" => pc[w] \notin NextIsV
      /\ pc[w] \in BothDone => pc[w] \notin NextIsK /\ pc[w] # "apply_bias" /\ pc[w] \notin NextIsV
      /\ pc[w] = "apply_bias" => pc[w] \notin NextIsK
  BY DEF NextIsV, NextIsK, BothDone, Last, Prologue
<1> QED BY <1>1, Zenon DEF AreaOf, CopyOf, KIsNewest

\* A wait leaves the groups that stay at their age.
LEMMA PlacedWait ==
  ASSUME QuietInv, NEW w \in Warps, CopiesPlaced(w), NEW depth \in Nat, WaitGroup(w, depth),
         pc[w] = "preprocess_Q" => depth = 2 * NumStages - 1,
         depth = 0 \/ \A a \in Nat : AreaOf(w, a)' = AreaOf(w, a)
  PROVE  CopiesPlaced(w)' /\ Len(groups'[w]) \in Nat /\ Len(groups'[w]) <= Len(groups[w])
<1>1. Typed /\ Len(groups[w]) \in Nat
  BY DEF QuietInv, Typed
<1>2. /\ groups' \in [Warps -> Seq(Copies)] /\ Len(groups'[w]) <= depth
      /\ \A i \in 1 .. Len(groups'[w]) :
           \E j \in 1 .. Len(groups[w]) : /\ groups'[w][i] = groups[w][j]
                                          /\ Len(groups'[w]) - i = Len(groups[w]) - j
  BY <1>1, WaitedGroups
<1>3. Len(groups'[w]) \in Nat
  BY <1>2
<1>4. Len(groups'[w]) <= Len(groups[w])
  <2>1. CASE Len(groups'[w]) = 0
    BY <2>1, <1>1
  <2>2. CASE Len(groups'[w]) # 0
    <3>1. 1 \in 1 .. Len(groups'[w])
      BY <2>2, <1>3
    <3>2. PICK j \in 1 .. Len(groups[w]) : Len(groups'[w]) - 1 = Len(groups[w]) - j
      BY <3>1, <1>2
    <3> QED BY <3>2, <1>1, <1>3
  <2> QED BY <2>1, <2>2
<1>5. ASSUME NEW i \in 1 .. Len(groups'[w])
      PROVE  groups'[w][i] \subseteq {AreaOf(w, Len(groups[w]) - i)', Bias}
  <2>1. PICK j \in 1 .. Len(groups[w]) : groups'[w][i] = groups[w][j] /\ Len(groups'[w]) - i = Len(groups[w]) - j
    BY <1>2
  <2>2. PICK a \in Nat : a = Len(groups[w]) - j
    <3>1. Len(groups[w]) - j \in Nat
      BY <1>1
    <3> QED BY <3>1
  <2>3. \/ groups[w][j] \subseteq {AreaOf(w, a), Bias}
        \/ pc[w] = "preprocess_Q" /\ a = 2 * NumStages - 1
    BY <2>2 DEF CopiesPlaced, Age
  <2>4. a < depth
    BY <1>2, <1>3, <2>1, <2>2
  <2>5. groups[w][j] \subseteq {AreaOf(w, a), Bias}
    BY <2>3, <2>4
  <2>6. AreaOf(w, a)' = AreaOf(w, a)
    BY <2>4
  <2> QED BY <2>1, <2>2, <2>5, <2>6
<1> QED BY <1>3, <1>4, <1>5 DEF CopiesPlaced, Age, Bias

\* A step that neither copies nor waits.
LEMMA PlacedQuiet ==
  ASSUME QuietInv, NEW w \in Warps, CopiesPlaced(w), groups'[w] = groups[w], pc[w] # "preprocess_Q",
         groups[w] = <<>> \/ \A a \in Nat : AreaOf(w, a)' = AreaOf(w, a)
  PROVE  CopiesPlaced(w)'
<1>1. Len(groups[w]) \in Nat
  BY DEF QuietInv, Typed
<1>2. ASSUME NEW i \in 1 .. Len(groups[w])
      PROVE  groups[w][i] \subseteq {AreaOf(w, Len(groups[w]) - i)', Bias}
  <2>1. PICK a \in Nat : a = Len(groups[w]) - i
    BY <1>1
  <2>2. groups[w][i] \subseteq {AreaOf(w, a), Bias} /\ groups[w] # <<>>
    BY <1>1, <2>1 DEF CopiesPlaced, Age
  <2> QED BY <2>1, <2>2
<1> QED BY <1>1, <1>2 DEF CopiesPlaced, Age, Bias

\* A commit of one group.
LEMMA PlacedCommit ==
  ASSUME QuietInv, NEW w \in Warps, CopiesPlaced(w), NEW copy \in Copies, pc[w] # "preprocess_Q",
         groups' = [groups EXCEPT ![w] = @ \o <<copy>>],
         copy \subseteq {AreaOf(w, 0)', Bias},
         \A a \in Nat : AreaOf(w, a + 1)' = AreaOf(w, a)
  PROVE  CopiesPlaced(w)' /\ Len(groups'[w]) = Len(groups[w]) + 1
<1>1. Typed
  BY DEF QuietInv
<1>2. PICK C \in Seq(Copies) : C = <<copy>> /\ Len(C) = 1 /\ C[1] = copy
  <2>1. <<copy>> \in Seq(Copies) /\ Len(<<copy>>) = 1 /\ <<copy>>[1] = copy
    OBVIOUS
  <2> QED BY <2>1, Zenon
<1>3. /\ Len(groups'[w]) = Len(groups[w]) + Len(C)
      /\ \A i \in 1 .. Len(groups'[w]) :
           groups'[w][i] = IF i <= Len(groups[w]) THEN groups[w][i] ELSE C[i - Len(groups[w])]
  <2>1. groups' = [groups EXCEPT ![w] = groups[w] \o C]
    BY <1>2
  <2> QED BY <1>1, <2>1, CommittedGroups
<1>4. PICK l \in Nat : l = Len(groups[w])
  BY <1>1 DEF Typed
<1>5. /\ Len(groups'[w]) = l + 1
      /\ \A i \in 1 .. l : groups'[w][i] = groups[w][i]
      /\ groups'[w][l + 1] = copy
  BY <1>2, <1>3, <1>4
<1>6. ASSUME NEW i \in 1 .. l + 1
      PROVE  groups'[w][i] \subseteq {AreaOf(w, Len(groups[w]) - i)', Bias}
  <2>1. CASE i = l + 1
    <3>1. Len(groups'[w]) - i = 0
      BY <2>1, <1>5
    <3> QED BY <3>1, <2>1, <1>5
  <2>2. CASE i # l + 1
    <3>1. PICK a \in Nat : i \in 1 .. l /\ l - i = a /\ l + 1 - i = a + 1
      BY <2>2, <1>4, AgeGrows
    <3>2. groups[w][i] \subseteq {AreaOf(w, a), Bias}
      BY <3>1, <1>4 DEF CopiesPlaced, Age
    <3>3. AreaOf(w, a + 1)' = AreaOf(w, a)
      BY <3>1
    <3>4. Len(groups'[w]) - i = a + 1
      BY <3>1, <1>5
    <3> QED BY <3>1, <3>2, <3>3, <3>4, <1>5
  <2> QED BY <2>1, <2>2
<1> QED BY <1>4, <1>5, <1>6 DEF CopiesPlaced, Age, Bias

-----------------------------------------------------------------------------
(* Placed is kept.                                                         *)

LEMMA PlacedWaits ==
  ASSUME QuietInv, Shape, NEW w \in Warps, Placed(w), PreprocessQ(w) \/ Sync(w) \/ Drain(w) \/ SyncV(w)
  PROVE  Placed(w)'
<1> USE DEF Goto
<1>1. /\ tile \in Tiles /\ tile' = tile
      /\ NumStages \in Nat \ {0} /\ NumStages' = NumStages /\ First \in Nat /\ First' = First
      /\ \A b : StageOf(b)' = StageOf(b)
      /\ pc[w] \in Places /\ n[w] \in Nat /\ Len(groups[w]) \in Nat /\ InFlight(w) /\ (tile.qInRegs => NumStages = 1)
  BY WarpStep DEF Warp
<1>2. CopiesPlaced(w) /\ Positions(w) /\ pc \in [Warps -> Places] /\ Typed
  BY DEF Placed, QuietInv, Typed
<1>3. n' = n /\ rd' = rd /\ wr' = wr
  BY DEF PreprocessQ, Sync, Drain, SyncV
<1>4. CASE PreprocessQ(w)
  <2>1. PICK at \in {"read_Q", "sync"} : pc'[w] = at /\ pc[w] = "preprocess_Q" /\ WaitGroup(w, 2 * NumStages - 1)
    BY <1>4, <1>2 DEF PreprocessQ
  <2>2. \A a \in Nat : AreaOf(w, a)' = AreaOf(w, a)
    BY <1>1, <1>3, <2>1 DEF AreaOf, CopyOf, KIsNewest, NextIsV, NextIsK, Prologue
  <2>3. 2 * NumStages - 1 \in Nat
    BY <1>1
  <2>4. CopiesPlaced(w)'
    BY <1>2, <2>1, <2>2, <2>3, PlacedWait
  <2>5. Len(groups'[w]) <= 2 * NumStages - 1
    BY <1>2, <2>1, <2>3, WaitedGroups
  <2>6. Positions(w)'
    BY <1>1, <1>2, <1>3, <2>1, <2>5 DEF Positions, VPending, NextIsV, Prologue, Last
  <2> QED BY <2>4, <2>6 DEF Placed
<1>5. CASE Sync(w)
  <2>1. pc'[w] = "load_V" /\ pc[w] = "sync" /\ WaitGroup(w, 2 * NumStages - 2)
    BY <1>5, <1>2 DEF Sync, SyncDepth
  <2>2. \A a \in Nat : AreaOf(w, a)' = AreaOf(w, a)
    BY <1>1, <1>3, <2>1 DEF AreaOf, CopyOf, KIsNewest, NextIsV, NextIsK, Prologue
  <2>3. 2 * NumStages - 2 \in Nat
    BY <1>1
  <2>4. CopiesPlaced(w)' /\ Len(groups'[w]) \in Nat /\ Len(groups'[w]) <= Len(groups[w])
    BY <1>2, <2>1, <2>2, <2>3, PlacedWait
  <2>6. Positions(w)'
    BY <1>1, <1>2, <1>3, <2>1, <2>4 DEF Positions, VPending, NextIsV, Prologue, Last
  <2> QED BY <2>4, <2>6 DEF Placed
<1>6. CASE Drain(w)
  <2>1. pc'[w] = "apply_bias" /\ pc[w] = "drain" /\ WaitGroup(w, 0)
    BY <1>6, <1>2 DEF Drain
  <2>4. CopiesPlaced(w)' /\ Len(groups'[w]) \in Nat /\ Len(groups'[w]) <= Len(groups[w])
    BY <1>2, <2>1, PlacedWait
  <2>6. Positions(w)'
    BY <1>1, <1>2, <1>3, <2>1, <2>4 DEF Positions, VPending, NextIsV, Prologue, Last
  <2> QED BY <2>4, <2>6 DEF Placed
<1>7. CASE SyncV(w)
  <2>1. pc'[w] = "load_K" /\ pc[w] = "sync_V" /\ WaitGroup(w, 2 * NumStages - 2)
    BY <1>7, <1>2 DEF SyncV, SyncDepth
  <2>2. \A a \in Nat : AreaOf(w, a)' = AreaOf(w, a)
    BY <1>1, <1>3, <2>1 DEF AreaOf, CopyOf, KIsNewest, NextIsV, NextIsK, Prologue
  <2>3. 2 * NumStages - 2 \in Nat
    BY <1>1
  <2>4. CopiesPlaced(w)' /\ Len(groups'[w]) \in Nat /\ Len(groups'[w]) <= Len(groups[w])
    BY <1>2, <2>1, <2>2, <2>3, PlacedWait
  <2>6. Positions(w)'
    BY <1>1, <1>2, <1>3, <2>1, <2>4 DEF Positions, VPending, NextIsV, Prologue, Last
  <2> QED BY <2>4, <2>6 DEF Placed
<1> QED BY <1>4, <1>5, <1>6, <1>7

\* With Q in registers nothing is left to prefetch.
LEMMA PrefetchIsEmpty ==
  ASSUME QuietInv, NEW w \in Warps, PrefetchRest(w)
  PROVE  groups' = groups /\ mem' = Written(w, {}) /\ NumStages = 1
<1>1. Typed /\ InFlight(w) /\ pc[w] = "prefetch" /\ Commit(w, Prefetch(1))
  BY DEF QuietInv, PrefetchRest
<1>2. NumStages = 1
  BY <1>1, TileFacts DEF Typed, InFlight
<1>3. Prefetch(1) = <<>> /\ DOMAIN Prefetch(1) = {}
  BY <1>2 DEF Prefetch
<1>4. groups' = groups
  <2>1. [i \in DOMAIN Prefetch(1) |-> {x[1] : x \in Prefetch(1)[i]}] = <<>>
    BY <1>3
  <2>2. groups' = [groups EXCEPT ![w] = groups[w] \o <<>>]
    BY <1>1, <2>1 DEF Commit
  <2>3. groups[w] \o <<>> = groups[w]
    BY <1>1, ConcatEmptySeq DEF Typed
  <2> QED BY <1>1, <2>2, <2>3 DEF Typed
<1>5. mem' = Written(w, {})
  <2>1. UNION {Prefetch(1)[i] : i \in DOMAIN Prefetch(1)} = {}
    BY <1>3
  <2> QED BY <1>1, <2>1 DEF Commit
<1> QED BY <1>2, <1>4, <1>5

LEMMA PlacedQuiets ==
  ASSUME QuietInv, Shape, NEW w \in Warps, Placed(w),
         ReadQ(w) \/ PrefetchRest(w) \/ GemmQK(w) \/ ApplyBias(w) \/ GemmPV(w) \/ Epilogue(w) \/ WriteO(w) \/ StoreO(w)
  PROVE  Placed(w)'
<1> USE DEF Goto
<1>1. /\ tile \in Tiles /\ tile' = tile
      /\ NumStages \in Nat \ {0} /\ NumStages' = NumStages /\ First \in Nat /\ First' = First
      /\ \A b : StageOf(b)' = StageOf(b)
      /\ pc[w] \in Places /\ n[w] \in Nat /\ Len(groups[w]) \in Nat /\ InFlight(w) /\ (tile.qInRegs => NumStages = 1)
  BY WarpStep DEF Warp
<1>2. /\ CopiesPlaced(w) /\ Positions(w) /\ pc \in [Warps -> Places] /\ n \in [Warps -> Nat]
      /\ rd \in [Warps -> Int] /\ wr \in [Warps -> Int]
  BY DEF Placed, QuietInv, Typed, Shape
<1>3. groups' = groups
  BY PrefetchIsEmpty DEF ReadQ, GemmQK, ApplyBias, GemmPV, Epilogue, WriteO, StoreO, copies
<1>4. \A b \in Int : StageOf(b - 1) = AdvancePipeline(StageOf(b))
  BY <1>1, Stages
<1>5. CASE ReadQ(w) \/ PrefetchRest(w)
  <2>1. PICK at \in {"prefetch", "sync"} : pc'[w] = at /\ pc[w] \in {"read_Q", "prefetch"} /\ n' = n /\ rd' = rd /\ wr' = wr
    BY <1>5, <1>2 DEF ReadQ, PrefetchRest
  <2>2. \A a \in Nat : AreaOf(w, a)' = AreaOf(w, a)
    BY <1>1, <2>1 DEF AreaOf, CopyOf, KIsNewest, NextIsV, NextIsK, Prologue
  <2>3. CopiesPlaced(w)'
    BY <1>2, <1>3, <2>1, <2>2, PlacedQuiet
  <2>4. Positions(w)'
    BY <1>1, <1>2, <1>3, <2>1 DEF Positions, VPending, NextIsV, Prologue, Last
  <2> QED BY <2>3, <2>4 DEF Placed
<1>6. CASE GemmQK(w)
  <2>1. PICK at \in {"sync_V", "drain"} :
          /\ pc'[w] = at /\ pc[w] = "gemm_QK" /\ n' = n /\ rd' = rd /\ wr'[w] = AdvancePipeline(wr[w])
    BY <1>6, <1>2 DEF GemmQK
  <2>2. \A a \in Nat : AreaOf(w, a)' = AreaOf(w, a)
    BY <1>1, <2>1 DEF AreaOf, CopyOf, KIsNewest, NextIsV, NextIsK, Prologue
  <2>3. CopiesPlaced(w)'
    BY <1>2, <1>3, <2>1, <2>2, PlacedQuiet
  <2>4. wr'[w] = StageOf(n[w] - NumStages)
    <3>1. wr[w] = StageOf(n[w] - NumStages + 1)
      BY <1>2, <2>1 DEF Positions, Last
    <3>2. PICK b \in Int : b = n[w] - NumStages + 1 /\ b - 1 = n[w] - NumStages
      BY <1>1
    <3>3. StageOf(b - 1) = AdvancePipeline(StageOf(b))
      BY <1>4
    <3> QED BY <2>1, <3>1, <3>2, <3>3
  <2>5. n[w] - NumStages + 0 = n[w] - NumStages
    BY <1>1
  <2>6. Positions(w)'
    BY <1>1, <1>2, <1>3, <2>1, <2>4, <2>5 DEF Positions, VPending, NextIsV, Prologue, Last
  <2> QED BY <2>3, <2>6 DEF Placed
<1>7. CASE ApplyBias(w)
  <2>1. PICK at \in {"sync_V", "gemm_PV"} :
          /\ pc'[w] = at /\ pc[w] = "apply_bias" /\ n' = n /\ rd' = rd /\ wr' = wr
          /\ IF NumStages = 1 THEN at = "gemm_PV" ELSE at = "sync_V"
    BY <1>7, <1>2 DEF ApplyBias
  <2>2. groups[w] = <<>> \/ \A a \in Nat : AreaOf(w, a)' = AreaOf(w, a)
    <3>1. NumStages > 1 \/ NumStages = 1
      BY <1>1
    <3>2. NumStages > 1 => groups[w] = <<>>
      BY <1>1, <2>1 DEF InFlight
    <3>3. NumStages = 1 => \A a \in Nat : AreaOf(w, a)' = AreaOf(w, a)
      BY <1>1, <2>1 DEF AreaOf, CopyOf, KIsNewest, NextIsV, NextIsK, Prologue
    <3> QED BY <3>1, <3>2, <3>3
  <2>3. CopiesPlaced(w)'
    BY <1>2, <1>3, <2>1, <2>2, PlacedQuiet
  <2>4. Positions(w)'
    BY <1>1, <1>2, <1>3, <2>1 DEF Positions, VPending, NextIsV, Prologue, Last
  <2> QED BY <2>3, <2>4 DEF Placed
<1>8. CASE GemmPV(w)
  <2>1. PICK at \in {"sync", "epilogue"} :
          /\ pc'[w] = at /\ pc[w] = "gemm_PV" /\ wr' = wr /\ rd'[w] = AdvancePipeline(rd[w])
          /\ n'[w] = (IF at = "epilogue" THEN 0 ELSE n[w] - 1)
          /\ (at = "epilogue" <=> n[w] = 0)
    BY <1>8, <1>2 DEF GemmPV
  <2>2. \A a \in Nat : AreaOf(w, a)' = AreaOf(w, a)
    <3> SUFFICES ASSUME NEW a \in Nat PROVE AreaOf(w, a)' = AreaOf(w, a)
      OBVIOUS
    <3>1. CopyOf(w, a)' = CopyOf(w, a)
      BY <1>1, <2>1 DEF CopyOf, NextIsV, NextIsK, Prologue
    <3>2. KIsNewest(w)' /\ KIsNewest(w)
      BY <2>1 DEF KIsNewest, NextIsK
    <3> QED BY <1>1, <3>1, <3>2 DEF AreaOf
  <2>3. CopiesPlaced(w)'
    BY <1>2, <1>3, <2>1, <2>2, PlacedQuiet
  <2>4. rd[w] = StageOf(n[w]) /\ wr[w] = StageOf(n[w] - NumStages + 0) /\ n[w] <= First
    BY <1>2, <2>1 DEF Positions, VPending, NextIsV, Prologue, Last
  <2>5. StageOf(n[w] - 1) = AdvancePipeline(StageOf(n[w]))
    BY <1>1, <1>4
  <2>6. n[w] - NumStages + 0 = (n[w] - 1) - NumStages + 1
    BY <1>1
  <2>7. CASE at = "sync"
    <3>1. n'[w] = n[w] - 1 /\ n'[w] <= First
      BY <2>1, <2>4, <2>7, <1>1
    <3>2. Len(groups[w]) <= 2 * NumStages - 1
      BY <1>2, <2>1 DEF Positions
    <3>3. rd'[w] = StageOf(n[w] - 1) /\ wr'[w] = StageOf((n[w] - 1) - NumStages + 1)
      BY <2>1, <2>4, <2>5, <2>6
    <3>4. Positions(w)'
      BY <1>1, <1>3, <2>1, <2>7, <3>1, <3>2, <3>3 DEF Positions, VPending, NextIsV, Prologue, Last
    <3> QED BY <2>3, <3>4 DEF Placed
  <2>8. CASE at = "epilogue"
    <3>1. Positions(w)'
      BY <1>1, <1>2, <1>3, <2>1, <2>8 DEF Positions, VPending, NextIsV, Prologue, Last
    <3> QED BY <2>3, <3>1 DEF Placed
  <2> QED BY <2>7, <2>8
<1>9. CASE Epilogue(w) \/ WriteO(w) \/ StoreO(w)
  <2>1. PICK at \in {"write_O", "store_O", "done"} : pc'[w] = at /\ pc[w] \in Last /\ n' = n /\ rd' = rd /\ wr' = wr
    BY <1>9, <1>2 DEF Epilogue, WriteO, StoreO, Last
  <2>2. \A a \in Nat : AreaOf(w, a)' = AreaOf(w, a)
    BY <1>1, <2>1 DEF AreaOf, CopyOf, KIsNewest, NextIsV, NextIsK, Prologue, Last
  <2>3. CopiesPlaced(w)'
    BY <1>2, <1>3, <2>1, <2>2, PlacedQuiet DEF Last
  <2>4. Positions(w)'
    BY <1>1, <1>2, <1>3, <2>1 DEF Positions, VPending, NextIsV, Prologue, Last
  <2> QED BY <2>3, <2>4 DEF Placed
<1> QED BY <1>5, <1>6, <1>7, <1>8, <1>9

LEMMA PlacedCommits ==
  ASSUME QuietInv, Shape, NEW w \in Warps, Placed(w), LoadVNext(w) \/ LoadKNext(w)
  PROVE  Placed(w)'
<1> USE DEF Goto
<1>1. /\ tile \in Tiles /\ tile' = tile
      /\ NumStages \in Nat \ {0} /\ NumStages' = NumStages /\ First \in Nat /\ First' = First
      /\ \A b : StageOf(b)' = StageOf(b)
      /\ pc[w] \in Places /\ n[w] \in Nat /\ Len(groups[w]) \in Nat /\ InFlight(w) /\ (tile.qInRegs => NumStages = 1)
  BY WarpStep DEF Warp
<1>2. CopiesPlaced(w) /\ Positions(w) /\ pc \in [Warps -> Places] /\ wr[w] \in Int
  BY DEF Placed, QuietInv, Typed
<1>3. n' = n /\ rd' = rd /\ wr' = wr
  BY DEF LoadVNext, LoadKNext
<1>4. CASE LoadVNext(w)
  <2> DEFINE x == VNext(w) \cup (IF BiasTile(w) THEN {<<Bias, n[w]>>} ELSE {})
             copy == {y[1] : y \in x}
  <2>1. pc[w] = "load_V" /\ pc'[w] = "gemm_QK" /\ Commit(w, <<x>>)
    BY <1>4, <1>2 DEF LoadVNext
  <2>2. groups' = [groups EXCEPT ![w] = @ \o <<copy>>]
    BY <2>1, OneCommit
  <2>3. copy \in Copies /\ copy \subseteq {V(wr[w]), Bias}
    <3>1. copy \subseteq {V(wr[w]), Bias}
      BY DEF VNext
    <3>2. V(wr[w]) \in {"Q", "K", "V", "bias"} \X Int /\ Bias \in {"Q", "K", "V", "bias"} \X Int
      BY <1>2 DEF V, Bias
    <3> HIDE DEF copy
    <3> QED BY <3>1, <3>2 DEF Copies
  <2> HIDE DEF copy, x
  <2>4. wr[w] = StageOf(n[w] - NumStages + 1)
    BY <1>2, <2>1 DEF Positions, VPending, NextIsV, Last
  <2>5. AreaOf(w, 0)' = V(wr[w])
    <3>1. CopyOf(w, 0)' = n[w] - NumStages + 1 /\ ~KIsNewest(w)'
      BY <1>1, <1>3, <2>1 DEF CopyOf, KIsNewest, NextIsV, NextIsK, Prologue
    <3> QED BY <1>1, <2>4, <3>1 DEF AreaOf
  <2>6. ASSUME NEW a \in Nat PROVE AreaOf(w, a + 1)' = AreaOf(w, a)
    <3>1. CopyOf(w, a + 1)' = CopyOf(w, a) /\ ~KIsNewest(w)' /\ KIsNewest(w)
      BY <1>1, <1>3, <2>1 DEF CopyOf, KIsNewest, NextIsV, NextIsK, Prologue
    <3>2. (a + 1) % 2 = 0 <=> a % 2 # 0
      OBVIOUS
    <3> QED BY <1>1, <3>1, <3>2 DEF AreaOf
  <2>7. CopiesPlaced(w)' /\ Len(groups'[w]) = Len(groups[w]) + 1
    <3>1. copy \subseteq {AreaOf(w, 0)', Bias} /\ pc[w] # "preprocess_Q"
      BY <2>1, <2>3, <2>5
    <3> QED BY <1>2, <2>2, <2>3, <2>6, <3>1, PlacedCommit
  <2>8. Len(groups'[w]) <= 2 * NumStages - 1
    BY <1>1, <2>1, <2>7 DEF InFlight
  <2>9. Positions(w)'
    BY <1>1, <1>2, <1>3, <2>1, <2>8 DEF Positions, VPending, NextIsV, Prologue, Last
  <2> QED BY <2>7, <2>9 DEF Placed
<1>5. CASE LoadKNext(w)
  <2> DEFINE copy == {y[1] : y \in KNext(w)}
  <2>1. PICK at \in {"apply_bias", "gemm_PV"} :
          pc[w] = "load_K" /\ pc'[w] = at /\ Commit(w, <<KNext(w)>>) /\ (at = "apply_bias" => NumStages = 1)
    BY <1>5, <1>2 DEF LoadKNext
  <2>2. groups' = [groups EXCEPT ![w] = @ \o <<copy>>]
    BY <2>1, OneCommit
  <2>3. copy \in Copies /\ copy \subseteq {K(wr[w])}
    <3>1. copy \subseteq {K(wr[w])}
      BY DEF KNext
    <3>2. K(wr[w]) \in {"Q", "K", "V", "bias"} \X Int
      BY <1>2 DEF K
    <3> HIDE DEF copy
    <3> QED BY <3>1, <3>2 DEF Copies
  <2> HIDE DEF copy
  <2>4. wr[w] = StageOf(n[w] - NumStages)
    <3>1. wr[w] = StageOf(n[w] - NumStages + 0) /\ n[w] - NumStages + 0 = n[w] - NumStages
      BY <1>1, <1>2, <2>1 DEF Positions, VPending, NextIsV, Prologue, Last
    <3> QED BY <3>1
  <2>5. AreaOf(w, 0)' = K(wr[w])
    <3>1. CopyOf(w, 0)' = n[w] - NumStages /\ KIsNewest(w)'
      BY <1>1, <1>3, <2>1 DEF CopyOf, KIsNewest, NextIsV, NextIsK, Prologue
    <3> QED BY <1>1, <2>4, <3>1 DEF AreaOf
  <2>6. ASSUME NEW a \in Nat PROVE AreaOf(w, a + 1)' = AreaOf(w, a)
    <3>1. CopyOf(w, a + 1)' = CopyOf(w, a) /\ KIsNewest(w)' /\ ~KIsNewest(w)
      BY <1>1, <1>3, <2>1 DEF CopyOf, KIsNewest, NextIsV, NextIsK, Prologue
    <3>2. (a + 1) % 2 = 0 <=> a % 2 # 0
      OBVIOUS
    <3> QED BY <1>1, <3>1, <3>2 DEF AreaOf
  <2>7. CopiesPlaced(w)' /\ Len(groups'[w]) = Len(groups[w]) + 1
    <3>1. copy \subseteq {AreaOf(w, 0)', Bias} /\ pc[w] # "preprocess_Q"
      BY <2>1, <2>3, <2>5
    <3> QED BY <1>2, <2>2, <2>3, <2>6, <3>1, PlacedCommit
  <2>8. Len(groups'[w]) <= 2 * NumStages - 1
    BY <1>1, <2>1, <2>7 DEF InFlight
  <2>9. Positions(w)'
    BY <1>1, <1>2, <1>3, <2>1, <2>8 DEF Positions, VPending, NextIsV, Prologue, Last
  <2> QED BY <2>7, <2>9 DEF Placed
<1> QED BY <1>4, <1>5

LEMMA PrologueGroups ==
  ASSUME QuietInv, NEW w \in Warps, LoadPrologue(w)
  PROVE  /\ Len(groups'[w]) = 2 * NumStages
         /\ groups'[w][1] = {Q}
         /\ \A i \in 2 .. 2 * NumStages :
              LET j == i - 2 IN groups'[w][i] \subseteq {IF j % 2 = 0 THEN K(j \div 2) ELSE V(j \div 2)}
<1> DEFINE D == [i \in DOMAIN PrologueCopies |-> {x[1] : x \in PrologueCopies[i]}]
           area(j) == IF j % 2 = 0 THEN K(j \div 2) ELSE V(j \div 2)
<1>1. Typed /\ InFlight(w) /\ pc[w] = "start" /\ NumStages \in Nat \ {0} /\ First \in Nat /\ (tile.qInRegs => NumStages = 1)
  BY TileFacts DEF QuietInv, Typed, LoadPrologue
<1>2. groups' = [groups EXCEPT ![w] = @ \o D]
  BY DEF LoadPrologue, Commit, PrologueCopies
<1>3. /\ DOMAIN PrologueCopies = 1 .. 2 * NumStages
      /\ PrologueCopies[1] = {<<Q, Query>>}
      /\ \A i \in 2 .. 2 * NumStages :
           PrologueCopies[i] = LET j == i - 2 IN Copy(IF j % 2 = 0 THEN K(j \div 2) ELSE V(j \div 2), First - j \div 2)
  BY <1>1, PrologueSets DEF PrologueCopies
<1>4. ASSUME NEW i \in 1 .. 2 * NumStages
      PROVE  /\ D[i] \in Copies
             /\ i = 1 => D[i] = {Q}
             /\ i # 1 => D[i] \subseteq {area(i - 2)}
  <2>1. D[i] = {x[1] : x \in PrologueCopies[i]}
    BY <1>3
  <2>2. CASE i = 1
    <3>1. D[i] = {Q}
      BY <2>1, <2>2, <1>3
    <3>2. {Q} \in Copies
      BY DEF Copies, Q
    <3> HIDE DEF D
    <3> QED BY <3>1, <3>2, <2>2
  <2>3. CASE i # 1
    <3>0. PICK a : a = area(i - 2)
      OBVIOUS
    <3>1. a = area(i - 2) /\ PrologueCopies[i] = Copy(a, First - (i - 2) \div 2)
      <4>1. i \in 2 .. 2 * NumStages
        BY <2>3, <1>1
      <4> QED BY <3>0, <4>1, <1>3
    <3>2. {x[1] : x \in Copy(a, First - (i - 2) \div 2)} \subseteq {a}
      BY DEF Copy
    <3>3. a \in {"Q", "K", "V", "bias"} \X Int
      <4>1. (i - 2) \div 2 \in Int
        BY <1>1
      <4> QED BY <3>1, <4>1 DEF K, V
    <3> HIDE DEF D, area
    <3> QED BY <2>1, <2>3, <3>1, <3>2, <3>3 DEF Copies
  <2> QED BY <2>2, <2>3
<1>5. D \in Seq(Copies) /\ Len(D) = 2 * NumStages
  <2>1. D \in [1 .. 2 * NumStages -> Copies]
    BY <1>3, <1>4
  <2> HIDE DEF D
  <2> QED BY <2>1, <1>1
<1> HIDE DEF D
<1>6. Len(groups[w]) = 0
  BY <1>1 DEF InFlight
<1>7. /\ Len(groups'[w]) = Len(groups[w]) + Len(D)
      /\ \A i \in 1 .. Len(groups'[w]) :
           groups'[w][i] = IF i <= Len(groups[w]) THEN groups[w][i] ELSE D[i - Len(groups[w])]
  BY <1>1, <1>2, <1>5, CommittedGroups
<1>8. Len(groups'[w]) = 2 * NumStages /\ \A i \in 1 .. 2 * NumStages : groups'[w][i] = D[i]
  BY <1>1, <1>5, <1>6, <1>7
<1>9. 1 \in 1 .. 2 * NumStages /\ \A i \in 2 .. 2 * NumStages : i \in 1 .. 2 * NumStages /\ i # 1
  BY <1>1
<1> QED BY <1>4, <1>8, <1>9

LEMMA PlacedPrologue ==
  ASSUME QuietInv, Shape, NEW w \in Warps, Placed(w), LoadPrologue(w)
  PROVE  Placed(w)'
<1>1. /\ tile \in Tiles /\ tile' = tile
      /\ NumStages \in Nat \ {0} /\ NumStages' = NumStages /\ First \in Nat /\ First' = First
      /\ \A b : StageOf(b)' = StageOf(b)
      /\ n[w] \in Nat /\ InFlight(w)
  BY WarpStep DEF Warp
<1>2. Positions(w) /\ pc[w] = "start" /\ pc'[w] = "preprocess_Q" /\ n' = n /\ rd' = rd /\ wr' = wr
  BY DEF Placed, LoadPrologue, QuietInv, Typed, Goto
<1>3. n[w] = First
  BY <1>1, <1>2 DEF InFlight
<1>4. /\ Len(groups'[w]) = 2 * NumStages
      /\ groups'[w][1] = {Q}
      /\ \A i \in 2 .. 2 * NumStages :
           LET j == i - 2 IN groups'[w][i] \subseteq {IF j % 2 = 0 THEN K(j \div 2) ELSE V(j \div 2)}
  BY PrologueGroups
<1>5. ASSUME NEW i \in 2 .. 2 * NumStages
      PROVE  groups'[w][i] \subseteq {AreaOf(w, 2 * NumStages - i)', Bias}
  <2>1. PICK a \in Nat, j \in Nat, h \in 0 .. NumStages - 1 :
          /\ a = 2 * NumStages - i /\ j = i - 2 /\ h = j \div 2
          /\ (a % 2 = 0 <=> j % 2 = 0)
          /\ n[w] - NumStages + (1 + (a + 1) \div 2) = First - h
    <3>1. PICK a \in Nat, j \in Nat : a = 2 * NumStages - i /\ j = i - 2 /\ a + j = 2 * (NumStages - 1)
      <4>1. 2 * NumStages - i \in Nat /\ i - 2 \in Nat /\ (2 * NumStages - i) + (i - 2) = 2 * (NumStages - 1)
        BY <1>1
      <4> QED BY <4>1
    <3>2. PICK h \in Int : h = j \div 2 /\ (j = 2 * h \/ j = 2 * h + 1) /\ (j % 2 = 0 <=> j = 2 * h)
      BY <3>1
    <3>3. h \in 0 .. NumStages - 1 /\ (a = 2 * (NumStages - 1 - h) \/ a = 2 * (NumStages - 1 - h) - 1)
      BY <3>1, <3>2, <1>1
    <3>4. (a + 1) \div 2 = NumStages - 1 - h /\ (a % 2 = 0 <=> a = 2 * (NumStages - 1 - h))
      BY <3>1, <3>3, <1>1
    <3> QED BY <3>1, <3>2, <3>3, <3>4, <1>1, <1>3
  <2>2. CopyOf(w, a)' = First - h /\ KIsNewest(w)'
    BY <1>1, <1>2, <2>1 DEF CopyOf, KIsNewest, NextIsV, NextIsK, Prologue
  <2>3. StageOf(First - h) = h
    BY <1>1, FirstStages
  <2>4. AreaOf(w, a)' = IF j % 2 = 0 THEN K(h) ELSE V(h)
    BY <1>1, <2>1, <2>2, <2>3 DEF AreaOf
  <2>5. groups'[w][i] \subseteq {IF j % 2 = 0 THEN K(h) ELSE V(h)}
    BY <1>4, <2>1
  <2> QED BY <1>1, <2>1, <2>4, <2>5
<1>6. CopiesPlaced(w)'
  <2> SUFFICES ASSUME NEW i \in 1 .. 2 * NumStages
               PROVE  \/ groups'[w][i] \subseteq {AreaOf(w, 2 * NumStages - i)', Bias}
                      \/ groups'[w][i] = {Q} /\ 2 * NumStages - i = 2 * NumStages - 1
    BY <1>1, <1>2, <1>4 DEF CopiesPlaced, Age, Bias, Q
  <2>1. i = 1 \/ i \in 2 .. 2 * NumStages
    BY <1>1
  <2> QED BY <1>4, <1>5, <2>1
<1>7. Positions(w)'
  BY <1>1, <1>2 DEF Positions, VPending, NextIsV, Prologue, Last
<1> QED BY <1>6, <1>7 DEF Placed

LEMMA PlacedNext ==
  ASSUME QuietInv, Shape, NEW w \in Warps, Placed(w), Warp(w)
  PROVE  Placed(w)'
  BY PlacedPrologue, PlacedWaits, PlacedQuiets, PlacedCommits DEF Warp

-----------------------------------------------------------------------------
(* Held is kept.                                                           *)

\* A step that writes nothing.
LEMMA HeldKept ==
  ASSUME tile \in Tiles, tile' = tile, NEW w \in Warps, Held(w),
         \A a \in Areas(tile) : mem'[a][w] = mem[a][w],
         pc'[w] \notin {"start"} \cup Last => pc[w] \notin {"start"} \cup Last /\ NextK(w)' = NextK(w),
         pc'[w] \notin {"start", "store_O", "done"} => pc[w] \notin {"start", "store_O", "done"} /\ NextV(w)' = NextV(w),
         QHeld(w)', BiasHeld(w)'
  PROVE  Held(w)'
<1>1. NumStages' = NumStages /\ First' = First /\ First \in Nat
  BY TileFacts DEF NumStages, First
<1>2. \A b : StageOf(b)' = StageOf(b)
  BY <1>1 DEF StageOf
<1>3. \A b \in 0 .. First : mem'[K(StageOf(b))][w] = mem[K(StageOf(b))][w] /\ mem'[V(StageOf(b))][w] = mem[V(StageOf(b))][w]
  BY <1>1, AreasApart
<1>4. KHeld(w) /\ VHeld(w)
  BY DEF Held
<1>5. KHeld(w)'
  BY <1>1, <1>2, <1>3, <1>4 DEF KHeld
<1>6. VHeld(w)'
  BY <1>1, <1>2, <1>3, <1>4 DEF VHeld
<1> QED BY <1>5, <1>6 DEF Held

LEMMA HeldQuiets ==
  ASSUME QuietInv, Shape, NEW w \in Warps, Positions(w), Held(w),
         \/ PreprocessQ(w) \/ ReadQ(w) \/ PrefetchRest(w) \/ Sync(w) \/ GemmQK(w) \/ Drain(w) \/ SyncV(w)
         \/ ApplyBias(w) \/ GemmPV(w) \/ Epilogue(w) \/ StoreO(w),
         pc[w] = "drain" => NumStages > 1
  PROVE  Held(w)'
<1> USE DEF Goto
<1>1. /\ tile \in Tiles /\ tile' = tile
      /\ NumStages \in Nat \ {0} /\ NumStages' = NumStages /\ First \in Nat /\ First' = First
      /\ pc[w] \in Places /\ n[w] \in Nat /\ InFlight(w) /\ (tile.qInRegs => NumStages = 1)
  BY WarpStep DEF Warp
<1>2. /\ pc \in [Warps -> Places] /\ n \in [Warps -> Nat] /\ mem \in [Areas(tile) -> [Warps -> Int]]
      /\ QHeld(w) /\ BiasHeld(w)
  BY DEF QuietInv, Typed, Shape, Held
<1>3. \A a \in Areas(tile) : mem'[a][w] = mem[a][w]
  <2>1. CASE PrefetchRest(w)
    <3>1. mem' = Written(w, {})
      BY <2>1, PrefetchIsEmpty
    <3> QED BY <3>1, <1>2, WrittenIs
  <2>2. CASE ~PrefetchRest(w)
    <3>1. mem' = mem
      BY <2>2 DEF PreprocessQ, ReadQ, Sync, GemmQK, Drain, SyncV, ApplyBias, GemmPV, Epilogue, StoreO, WaitGroup, copies
    <3> QED BY <3>1
  <2> QED BY <2>1, <2>2
<1>4. mem'[Q][w] = mem[Q][w] /\ mem'[Bias][w] = mem[Bias][w]
  BY <1>1, <1>3, AreasApart
<1>5. \A b : IsBiasTile(b)' = IsBiasTile(b)
  BY <1>1 DEF IsBiasTile
<1>6. CASE PreprocessQ(w) \/ ReadQ(w) \/ PrefetchRest(w)
  <2>1. PICK at \in {"sync", "read_Q", "prefetch"} :
          /\ pc'[w] = at /\ n'[w] = n[w] /\ pc[w] \in Prologue
          /\ at \in {"read_Q", "prefetch"} => tile.qInRegs
          /\ pc[w] = "prefetch" \/ at # "sync" \/ ~tile.qInRegs
    BY <1>1, <1>2, <1>6 DEF PreprocessQ, ReadQ, PrefetchRest, InFlight, Prologue
  <2>2. n[w] = First
    BY <1>1, <2>1 DEF InFlight
  <2>3. NextK(w)' = NextK(w) /\ NextV(w)' = NextV(w)
    BY <1>1, <2>1 DEF NextK, NextV, KCopied, VPending, NextIsV, Prologue
  <2>4. QHeld(w)'
    BY <1>1, <1>2, <1>4, <2>1 DEF QHeld, Prologue
  <2>5. BiasHeld(w)'
    BY <1>1, <2>1, <2>2 DEF BiasHeld, NextIsK
  <2> QED BY <1>1, <1>3, <2>1, <2>3, <2>4, <2>5, HeldKept DEF Prologue, Last
<1>7. CASE Sync(w)
  <2>1. pc'[w] = "load_V" /\ n'[w] = n[w] /\ pc[w] = "sync"
    BY <1>2, <1>7 DEF Sync
  <2>3. NextK(w)' = NextK(w) /\ NextV(w)' = NextV(w)
    BY <1>1, <2>1 DEF NextK, NextV, KCopied, VPending, NextIsV, Prologue
  <2>4. QHeld(w)'
    BY <1>1, <1>2, <1>4, <2>1 DEF QHeld
  <2>5. BiasHeld(w)'
    BY <1>1, <1>2, <1>4, <1>5, <2>1 DEF BiasHeld, NextIsK
  <2> QED BY <1>1, <1>3, <2>1, <2>3, <2>4, <2>5, HeldKept DEF Last
<1>8. CASE GemmQK(w) \/ Drain(w) \/ SyncV(w) \/ ApplyBias(w)
  <2>1. PICK at \in {"sync_V", "drain", "apply_bias", "load_K", "gemm_PV"} :
          /\ pc'[w] = at /\ n'[w] = n[w] /\ pc[w] \in {"gemm_QK", "drain", "sync_V", "apply_bias"}
          /\ at = "apply_bias" => pc[w] = "drain"
          /\ at = "gemm_PV" => pc[w] = "apply_bias" /\ NumStages = 1
          /\ pc[w] = "apply_bias" => at = "gemm_PV" \/ NumStages # 1
    BY <1>1, <1>2, <1>8 DEF GemmQK, Drain, SyncV, ApplyBias
  <2>3. NextK(w)' = NextK(w) /\ NextV(w)' = NextV(w)
    BY <1>1, <2>1 DEF NextK, NextV, KCopied, VPending, NextIsV, Prologue
  <2>4. QHeld(w)'
    BY <1>1, <1>2, <1>4, <2>1 DEF QHeld
  <2>5. BiasHeld(w)'
    BY <1>1, <1>2, <1>4, <1>5, <2>1 DEF BiasHeld, NextIsK
  <2> QED BY <1>1, <1>3, <2>1, <2>3, <2>4, <2>5, HeldKept DEF Last
<1>9. CASE GemmPV(w)
  <2>1. PICK at \in {"sync", "epilogue"} :
          /\ pc'[w] = at /\ pc[w] = "gemm_PV"
          /\ n'[w] = (IF at = "epilogue" THEN 0 ELSE n[w] - 1)
          /\ (at = "epilogue" <=> n[w] = 0)
    BY <1>2, <1>9 DEF GemmPV
  <2>3. (at = "sync" => NextK(w)' = NextK(w)) /\ NextV(w)' = NextV(w)
    BY <1>1, <2>1 DEF NextK, NextV, KCopied, VPending, NextIsV, Prologue
  <2>4. QHeld(w)'
    BY <1>1, <1>2, <1>4, <2>1 DEF QHeld
  <2>5. BiasHeld(w)'
    <3>1. IsBiasTile(n[w]) => mem[Bias][w] = n[w]
      BY <1>2, <2>1 DEF BiasHeld
    <3>2. CASE at = "sync"
      <4>1. n'[w] + 1 = n[w]
        BY <1>1, <2>1, <3>2
      <4> QED BY <1>4, <1>5, <2>1, <3>1, <3>2, <4>1 DEF BiasHeld, NextIsK
    <3>3. CASE at = "epilogue"
      BY <1>4, <1>5, <2>1, <3>1, <3>3 DEF BiasHeld, NextIsK
    <3> QED BY <3>2, <3>3
  <2> QED BY <1>1, <1>3, <2>1, <2>3, <2>4, <2>5, HeldKept DEF Last
<1>10. CASE Epilogue(w) \/ StoreO(w)
  <2>1. PICK at \in {"write_O", "done"} :
          /\ pc'[w] = at /\ n'[w] = n[w]
          /\ IF at = "done" THEN pc[w] = "store_O" ELSE pc[w] = "epilogue"
    BY <1>1, <1>2, <1>10 DEF Epilogue, StoreO
  <2>3. NextV(w)' = NextV(w)
    BY <1>1, <2>1 DEF NextV, VPending, NextIsV, Prologue
  <2>4. QHeld(w)'
    BY <1>1, <1>2, <1>4, <2>1 DEF QHeld
  <2>5. BiasHeld(w)'
    BY <1>1, <1>2, <1>4, <1>5, <2>1 DEF BiasHeld, NextIsK
  <2> QED BY <1>1, <1>3, <2>1, <2>3, <2>4, <2>5, HeldKept DEF Last
<1> QED BY <1>6, <1>7, <1>8, <1>9, <1>10

LEMMA AliasesAre ==
  ASSUME NEW a, NEW s
  PROVE  /\ K(s) \notin Aliases(a) /\ Bias \notin Aliases(a)
         /\ V(s) \in Aliases(a) => a = Q
         /\ ~tile.qInRegs => Aliases(a) = {}
<1>1. K(s) # Q /\ K(s) # V(0) /\ Bias # Q /\ Bias # V(0) /\ V(s) # Q
  BY DEF K, V, Q, Bias
<1> QED BY <1>1 DEF Aliases

LEMMA OneWrite ==
  ASSUME NEW w, NEW x, Commit(w, <<x>>)
  PROVE  mem' = Written(w, x)
<1>1. DOMAIN <<x>> = {1} /\ <<x>>[1] = x
  OBVIOUS
<1>2. UNION {<<x>>[i] : i \in DOMAIN <<x>>} = x
  BY <1>1
<1> QED BY <1>2 DEF Commit

LEMMA HeldLoadV ==
  ASSUME QuietInv, Shape, NEW w \in Warps, Positions(w), Held(w), LoadVNext(w)
  PROVE  Held(w)' /\ mem' \in [Areas(tile) -> [Warps -> Int]] /\ \A a \in Areas(tile) : \A v \in Warps \ {w} : mem'[a][v] = mem[a][v]
<1>1. /\ tile \in Tiles /\ tile' = tile
      /\ NumStages \in Nat \ {0} /\ NumStages' = NumStages /\ First \in Nat /\ First' = First
      /\ \A b : StageOf(b)' = StageOf(b)
      /\ n[w] \in Nat /\ (tile.qInRegs => NumStages = 1)
  BY WarpStep DEF Warp
<1>2. /\ mem \in [Areas(tile) -> [Warps -> Int]] /\ KHeld(w) /\ VHeld(w) /\ QHeld(w) /\ BiasHeld(w)
      /\ pc[w] = "load_V" /\ pc'[w] = "gemm_QK" /\ n' = n
  BY DEF Shape, Held, LoadVNext, QuietInv, Typed, Goto
<1> DEFINE x == VNext(w) \cup (IF BiasTile(w) THEN {<<Bias, n[w]>>} ELSE {})
           m == n[w] - NumStages + 1
<1>3. mem' = Written(w, x)
  BY OneWrite DEF LoadVNext
<1>4. wr[w] = StageOf(m) /\ m \in Int
  BY <1>1, <1>2 DEF Positions, VPending, NextIsV, Last
<1>5. /\ \A y \in x : y = <<V(StageOf(m)), m>> \/ y = <<Bias, n[w]>>
      /\ NumStages = 1 \/ m >= 0 => <<V(StageOf(m)), m>> \in x
      /\ BiasTile(w) => <<Bias, n[w]>> \in x
  BY <1>4 DEF VNext
<1> HIDE DEF x
<1>6. /\ V(StageOf(m)) \in Areas(tile) /\ Bias \in Areas(tile) /\ Q \in Areas(tile) /\ \A s : V(s) # Bias /\ K(s) # Bias /\ V(s) # Q
      /\ \A b \in Int : K(StageOf(b)) \in Areas(tile) /\ V(StageOf(b)) \in Areas(tile)
      /\ \A s, t : K(s) # V(t) /\ (V(s) = V(t) => s = t)
      /\ Q # Bias
  BY <1>1, <1>4, AreasApart
<1>7. (\A y \in x : y[2] \in Int) /\ (\A y, z \in x : y[1] = z[1] => y[2] = z[2])
  BY <1>1, <1>4, <1>5, <1>6
<1> HIDE DEF m
<1>8. /\ mem' \in [Areas(tile) -> [Warps -> Int]]
      /\ \A a \in Areas(tile) : \A v \in Warps \ {w} : mem'[a][v] = mem[a][v]
      /\ \A y \in x : y[1] \in Areas(tile) => mem'[y[1]][w] = y[2]
      /\ \A a \in Areas(tile) : (\A y \in x : y[1] # a /\ a \notin Aliases(y[1])) => mem'[a][w] = mem[a][w]
  BY <1>2, <1>3, <1>7, WrittenIs
<1>9. KHeld(w)'
  <2>1. NextK(w)' = NextK(w)
    BY <1>1, <1>2 DEF NextK, KCopied
  <2>2. \A b \in 0 .. First : mem'[K(StageOf(b))][w] = mem[K(StageOf(b))][w]
    <3> SUFFICES ASSUME NEW b \in 0 .. First PROVE mem'[K(StageOf(b))][w] = mem[K(StageOf(b))][w]
      OBVIOUS
    <3>1. K(StageOf(b)) \in Areas(tile)
      BY <1>1, <1>6
    <3>2. \A y \in x : y[1] # K(StageOf(b)) /\ K(StageOf(b)) \notin Aliases(y[1])
      BY <1>5, <1>6, AliasesAre
    <3> QED BY <1>8, <3>1, <3>2
  <2> QED BY <1>1, <1>2, <2>1, <2>2 DEF KHeld, Last
<1>10. VHeld(w)'
  <2>1. NextV(w)' = n[w] - NumStages /\ NextV(w) = m /\ NextV(w) = n[w] - NumStages + 1
    BY <1>1, <1>2 DEF NextV, VPending, NextIsV, Prologue, m
  <2>2. ASSUME NEW b \in 0 .. First, n[w] - NumStages < b, b <= n[w] - NumStages + NumStages
        PROVE  mem'[V(StageOf(b))][w] = b
    <3>1. CASE b = m
      <4>1. <<V(StageOf(m)), m>> \in x
        BY <1>1, <1>5, <3>1
      <4>2. <<V(StageOf(m)), m>>[1] = V(StageOf(m)) /\ <<V(StageOf(m)), m>>[2] = m
        OBVIOUS
      <4> QED BY <1>6, <1>8, <3>1, <4>1, <4>2
    <3>2. CASE b # m
      <4>1. m < b /\ b < m + NumStages /\ b <= NextV(w) + NumStages
        BY <1>1, <2>1, <2>2, <3>2
      <4>2. mem[V(StageOf(b))][w] = b
        BY <1>2, <2>1, <4>1 DEF VHeld
      <4>3. StageOf(m) # StageOf(b)
        BY <1>1, <1>4, <4>1, Stages
      <4>4. \A y \in x : y[1] # V(StageOf(b)) /\ V(StageOf(b)) \notin Aliases(y[1])
        BY <1>5, <1>6, <4>3, AliasesAre
      <4>5. V(StageOf(b)) \in Areas(tile)
        BY <1>1, <1>6
      <4> QED BY <1>8, <4>2, <4>4, <4>5
    <3> QED BY <3>1, <3>2
  <2> QED BY <1>1, <1>2, <2>1, <2>2 DEF VHeld
<1>11. QHeld(w)'
  <2>1. ASSUME ~tile.qInRegs PROVE mem'[Q][w] = Query
    <3>1. mem[Q][w] = Query
      BY <1>2, <2>1 DEF QHeld
    <3>2. \A y \in x : y[1] # Q /\ Q \notin Aliases(y[1])
      BY <1>5, <1>6, <2>1, AliasesAre
    <3> QED BY <1>6, <1>8, <3>1, <3>2
  <2> QED BY <1>1, <1>2, <2>1 DEF QHeld, Query
<1>12. BiasHeld(w)'
  <2>1. ASSUME IsBiasTile(n[w]) PROVE mem'[Bias][w] = n[w]
    <3>1. <<Bias, n[w]>> \in x
      BY <1>5, <2>1 DEF IsBiasTile, BiasTile
    <3>2. <<Bias, n[w]>>[1] = Bias /\ <<Bias, n[w]>>[2] = n[w]
      OBVIOUS
    <3> QED BY <1>6, <1>8, <3>1, <3>2
  <2> QED BY <1>1, <1>2, <2>1 DEF BiasHeld, IsBiasTile
<1> QED BY <1>8, <1>9, <1>10, <1>11, <1>12 DEF Held

LEMMA HeldLoadK ==
  ASSUME QuietInv, Shape, NEW w \in Warps, Positions(w), Held(w), LoadKNext(w)
  PROVE  Held(w)' /\ mem' \in [Areas(tile) -> [Warps -> Int]] /\ \A a \in Areas(tile) : \A v \in Warps \ {w} : mem'[a][v] = mem[a][v]
<1>1. /\ tile \in Tiles /\ tile' = tile
      /\ NumStages \in Nat \ {0} /\ NumStages' = NumStages /\ First \in Nat /\ First' = First
      /\ \A b : StageOf(b)' = StageOf(b)
      /\ n[w] \in Nat
  BY WarpStep DEF Warp
<1>2. PICK at \in {"apply_bias", "gemm_PV"} :
      /\ mem \in [Areas(tile) -> [Warps -> Int]] /\ KHeld(w) /\ VHeld(w) /\ QHeld(w) /\ BiasHeld(w)
      /\ pc[w] = "load_K" /\ pc'[w] = at /\ n' = n /\ (at = "apply_bias" => NumStages = 1)
  BY DEF Shape, Held, LoadKNext, QuietInv, Typed, Goto
<1> DEFINE x == KNext(w)
           m == n[w] - NumStages
<1>3. mem' = Written(w, x)
  BY OneWrite DEF LoadKNext
<1>4. wr[w] = StageOf(m) /\ m \in Int
  <2>1. wr[w] = StageOf(m + 0) /\ m \in Int
    BY <1>1, <1>2 DEF Positions, VPending, NextIsV, Prologue, Last
  <2>2. m + 0 = m
    BY <2>1
  <2> QED BY <2>1, <2>2
<1>5. /\ \A y \in x : y = <<K(StageOf(m)), m>>
      /\ m >= 0 => <<K(StageOf(m)), m>> \in x
  BY <1>4 DEF KNext
<1> HIDE DEF x
<1>6. /\ K(StageOf(m)) \in Areas(tile) /\ Bias \in Areas(tile) /\ Q \in Areas(tile) /\ \A s : K(s) # Bias /\ K(s) # Q
      /\ \A b \in Int : K(StageOf(b)) \in Areas(tile) /\ V(StageOf(b)) \in Areas(tile)
      /\ \A s, t : K(s) # V(t) /\ (K(s) = K(t) => s = t)
  BY <1>1, <1>4, AreasApart
<1>7. (\A y \in x : y[2] \in Int) /\ (\A y, z \in x : y[1] = z[1] => y[2] = z[2])
  BY <1>1, <1>4, <1>5
<1> HIDE DEF m
<1>8. /\ mem' \in [Areas(tile) -> [Warps -> Int]]
      /\ \A a \in Areas(tile) : \A v \in Warps \ {w} : mem'[a][v] = mem[a][v]
      /\ \A y \in x : y[1] \in Areas(tile) => mem'[y[1]][w] = y[2]
      /\ \A a \in Areas(tile) : (\A y \in x : y[1] # a /\ a \notin Aliases(y[1])) => mem'[a][w] = mem[a][w]
  BY <1>2, <1>3, <1>7, WrittenIs
<1>9. Aliases(K(StageOf(m))) = {}
  BY <1>6 DEF Aliases
<1>10. \A a \in Areas(tile) : a # K(StageOf(m)) => mem'[a][w] = mem[a][w]
  BY <1>5, <1>8, <1>9
<1>11. KHeld(w)'
  <2>1. NextK(w)' = n[w] - NumStages - 1 /\ NextK(w) = m /\ NextK(w) = n[w] - NumStages
    BY <1>1, <1>2 DEF NextK, KCopied, m
  <2>2. ASSUME NEW b \in 0 .. First, n[w] - NumStages - 1 < b, b <= n[w] - NumStages - 1 + NumStages
        PROVE  mem'[K(StageOf(b))][w] = b
    <3>1. CASE b = m
      <4>1. <<K(StageOf(m)), m>> \in x
        BY <1>1, <1>5, <3>1
      <4>2. <<K(StageOf(m)), m>>[1] = K(StageOf(m)) /\ <<K(StageOf(m)), m>>[2] = m
        OBVIOUS
      <4> QED BY <1>6, <1>8, <3>1, <4>1, <4>2
    <3>2. CASE b # m
      <4>1. m < b /\ b < m + NumStages /\ b <= NextK(w) + NumStages
        BY <1>1, <2>1, <2>2, <3>2
      <4>2. mem[K(StageOf(b))][w] = b
        BY <1>2, <2>1, <4>1 DEF KHeld, Last
      <4>3. StageOf(m) # StageOf(b)
        BY <1>1, <1>4, <4>1, Stages
      <4>4. K(StageOf(b)) \in Areas(tile) /\ K(StageOf(b)) # K(StageOf(m))
        BY <1>1, <1>6, <4>3
      <4> QED BY <1>10, <4>2, <4>4
    <3> QED BY <3>1, <3>2
  <2> QED BY <1>1, <1>2, <2>1, <2>2 DEF KHeld
<1>12. VHeld(w)'
  <2>1. NextV(w)' = NextV(w)
    BY <1>1, <1>2 DEF NextV, VPending, NextIsV, Prologue
  <2>2. \A b \in 0 .. First : mem'[V(StageOf(b))][w] = mem[V(StageOf(b))][w]
    BY <1>1, <1>6, <1>10
  <2> QED BY <1>1, <1>2, <2>1, <2>2 DEF VHeld
<1>13. mem'[Q][w] = mem[Q][w] /\ mem'[Bias][w] = mem[Bias][w]
  BY <1>6, <1>10
<1>14. QHeld(w)' /\ BiasHeld(w)'
  <2>1. QHeld(w)'
    BY <1>1, <1>2, <1>13 DEF QHeld
  <2>2. BiasHeld(w)'
    BY <1>1, <1>2, <1>13 DEF BiasHeld, IsBiasTile, NextIsK
  <2> QED BY <2>1, <2>2
<1> QED BY <1>8, <1>11, <1>12, <1>14 DEF Held

LEMMA HeldWriteO ==
  ASSUME QuietInv, Shape, NEW w \in Warps, WriteO(w)
  PROVE  Held(w)' /\ mem' \in [Areas(tile) -> [Warps -> Int]] /\ \A a \in Areas(tile) : \A v \in Warps \ {w} : mem'[a][v] = mem[a][v]
<1>1. pc'[w] = "store_O" /\ mem' = Written(w, {<<Q, Output>>}) /\ mem \in [Areas(tile) -> [Warps -> Int]] /\ Q \in Areas(tile)
  BY AreasApart DEF WriteO, QuietInv, Typed, Goto, Shape
<1>2. PICK x : x = {<<Q, Output>>} /\ (\A y \in x : y[2] \in Int) /\ (\A y, z \in x : y[1] = z[1] => y[2] = z[2])
                /\ <<Q, Output>> \in x
  <2>1. (\A y \in {<<Q, Output>>} : y[2] \in Int) /\ (\A y, z \in {<<Q, Output>>} : y[1] = z[1] => y[2] = z[2])
    BY DEF Output
  <2> QED BY <2>1
<1>3. /\ mem' \in [Areas(tile) -> [Warps -> Int]]
      /\ \A a \in Areas(tile) : \A v \in Warps \ {w} : mem'[a][v] = mem[a][v]
      /\ \A y \in x : y[1] \in Areas(tile) => mem'[y[1]][w] = y[2]
  <2>1. mem' = Written(w, x)
    BY <1>1, <1>2
  <2>2. mem \in [Areas(tile) -> [Warps -> Int]] /\ (\A y \in x : y[2] \in Int) /\ (\A y, z \in x : y[1] = z[1] => y[2] = z[2])
    BY <1>1, <1>2
  <2> QED BY <2>1, <2>2, WrittenIs
<1>4. mem'[Q][w] = Output
  BY <1>1, <1>2, <1>3
<1>5. Held(w)'
  BY <1>1, <1>4 DEF Held, KHeld, VHeld, QHeld, BiasHeld, Last, NextIsK
<1> QED BY <1>3, <1>5

LEMMA HeldPrologue ==
  ASSUME QuietInv, Shape, NEW w \in Warps, LoadPrologue(w)
  PROVE  Held(w)' /\ mem' \in [Areas(tile) -> [Warps -> Int]] /\ \A a \in Areas(tile) : \A v \in Warps \ {w} : mem'[a][v] = mem[a][v]
<1>1. /\ tile \in Tiles /\ tile' = tile
      /\ NumStages \in Nat \ {0} /\ NumStages' = NumStages /\ First \in Nat /\ First' = First
      /\ \A b : StageOf(b)' = StageOf(b)
      /\ n[w] \in Nat /\ InFlight(w) /\ (tile.qInRegs => NumStages = 1)
  BY WarpStep DEF Warp
<1>2. /\ mem \in [Areas(tile) -> [Warps -> Int]]
      /\ pc[w] = "start" /\ pc'[w] = "preprocess_Q" /\ n' = n /\ n[w] = First
  BY <1>1 DEF Shape, LoadPrologue, QuietInv, Typed, Goto, InFlight
<1> DEFINE x == UNION {PrologueCopies[i] : i \in DOMAIN PrologueCopies}
<1>3. mem' = Written(w, x)
  BY DEF LoadPrologue, Commit, PrologueCopies
<1>4. /\ DOMAIN PrologueCopies = 1 .. 2 * NumStages
      /\ PrologueCopies[1] = {<<Q, Query>>}
      /\ \A i \in 2 .. 2 * NumStages :
           PrologueCopies[i] = LET j == i - 2 IN Copy(IF j % 2 = 0 THEN K(j \div 2) ELSE V(j \div 2), First - j \div 2)
  BY <1>1, PrologueSets DEF PrologueCopies
<1>5. ASSUME NEW y \in x
      PROVE  y = <<Q, Query>> \/ \E h \in Int : y = <<K(h), First - h>> \/ y = <<V(h), First - h>>
  <2>1. PICK i \in 1 .. 2 * NumStages : y \in PrologueCopies[i]
    BY <1>4
  <2>2. CASE i = 1
    BY <2>1, <2>2, <1>4
  <2>3. CASE i # 1
    <3>1. PICK j \in Int, h \in Int : j = i - 2 /\ h = j \div 2
      BY <1>1
    <3>2. i \in 2 .. 2 * NumStages
      BY <1>1, <2>3
    <3>3. PrologueCopies[i] = Copy(IF j % 2 = 0 THEN K(h) ELSE V(h), First - h)
      BY <1>4, <3>1, <3>2
    <3> QED BY <2>1, <3>3 DEF Copy
  <2> QED BY <2>2, <2>3
<1>6. <<Q, Query>> \in x
  <2>1. 1 \in DOMAIN PrologueCopies
    <3>1. 1 \in 1 .. 2 * NumStages
      BY <1>1
    <3> QED BY <3>1, <1>4
  <2>2. <<Q, Query>> \in PrologueCopies[1]
    BY <1>4, Zenon
  <2> QED BY <2>1, <2>2
<1>7. ASSUME NEW h \in 0 .. NumStages - 1, First - h >= 0
      PROVE  <<K(h), First - h>> \in x /\ (h < NumStages - 1 => <<V(h), First - h>> \in x)
  <2>1. PICK i \in 2 .. 2 * NumStages : i - 2 = 2 * h /\ (i - 2) % 2 = 0 /\ (i - 2) \div 2 = h
    <3>1. 2 * h + 2 \in 2 .. 2 * NumStages /\ (2 * h + 2) - 2 = 2 * h /\ (2 * h) % 2 = 0 /\ (2 * h) \div 2 = h
      BY <1>1
    <3> QED BY <3>1
  <2>2. <<K(h), First - h>> \in PrologueCopies[i]
    <3>1. PrologueCopies[i] = Copy(K(h), First - h)
      BY <1>4, <2>1
    <3> QED BY <3>1, <1>7 DEF Copy
  <2>3. ASSUME h < NumStages - 1
        PROVE  \E k \in 2 .. 2 * NumStages : <<V(h), First - h>> \in PrologueCopies[k]
    <3>1. PICK k \in 2 .. 2 * NumStages : k - 2 = 2 * h + 1 /\ (k - 2) % 2 # 0 /\ (k - 2) \div 2 = h
      <4>1. 2 * h + 3 \in 2 .. 2 * NumStages /\ (2 * h + 3) - 2 = 2 * h + 1 /\ (2 * h + 1) % 2 # 0 /\ (2 * h + 1) \div 2 = h
        BY <1>1, <2>3
      <4> QED BY <4>1
    <3>2. PrologueCopies[k] = Copy(V(h), First - h)
      BY <1>4, <3>1
    <3> QED BY <3>2, <1>7 DEF Copy
  <2>4. ASSUME NEW k \in 2 .. 2 * NumStages PROVE PrologueCopies[k] \subseteq x
    <3>1. k \in 1 .. 2 * NumStages
      BY <1>1
    <3>2. k \in DOMAIN PrologueCopies
      BY <3>1, <1>4
    <3> QED BY <3>2, Zenon
  <2> QED BY <2>2, <2>3, <2>4
<1> HIDE DEF x
<1>8. /\ Q \in Areas(tile) /\ \A s : V(s) # Q /\ K(s) # Q
      /\ \A b \in Int : K(StageOf(b)) \in Areas(tile) /\ V(StageOf(b)) \in Areas(tile)
      /\ \A s, t : K(s) # V(t) /\ (K(s) = K(t) => s = t) /\ (V(s) = V(t) => s = t)
  BY <1>1, AreasApart
<1>9. \A y \in x : y[2] \in Int
  <2> SUFFICES ASSUME NEW y \in x PROVE y[2] \in Int
    OBVIOUS
  <2>1. CASE y = <<Q, Query>>
    BY <2>1 DEF Query
  <2>2. ASSUME NEW h \in Int, y = <<K(h), First - h>> \/ y = <<V(h), First - h>> PROVE y[2] \in Int
    BY <1>1, <2>2
  <2> QED BY <1>5, <2>1, <2>2
<1>10. \A y, z \in x : y[1] = z[1] => y[2] = z[2]
  <2> SUFFICES ASSUME NEW y \in x, NEW z \in x, y[1] = z[1] PROVE y[2] = z[2]
    OBVIOUS
  <2>1. CASE y = <<Q, Query>>
    <3>1. z = <<Q, Query>>
      BY <1>5, <1>8, <2>1
    <3> QED BY <2>1, <3>1
  <2>2. ASSUME NEW h \in Int, y = <<K(h), First - h>> PROVE y[2] = z[2]
    <3>1. z = <<K(h), First - h>>
      BY <1>5, <1>8, <2>2
    <3> QED BY <2>2, <3>1
  <2>3. ASSUME NEW h \in Int, y = <<V(h), First - h>> PROVE y[2] = z[2]
    <3>1. z = <<V(h), First - h>>
      BY <1>5, <1>8, <2>3
    <3> QED BY <2>3, <3>1
  <2> QED BY <1>5, <2>1, <2>2, <2>3
<1>11. /\ mem' \in [Areas(tile) -> [Warps -> Int]]
       /\ \A a \in Areas(tile) : \A v \in Warps \ {w} : mem'[a][v] = mem[a][v]
       /\ \A y \in x : y[1] \in Areas(tile) => mem'[y[1]][w] = y[2]
  BY <1>2, <1>3, <1>9, <1>10, WrittenIs
<1>12. mem'[Q][w] = Query
  BY <1>6, <1>8, <1>11
<1>13. ASSUME NEW b \in 0 .. First, First - NumStages < b
       PROVE  /\ mem'[K(StageOf(b))][w] = b
              /\ First - NumStages + 1 < b => mem'[V(StageOf(b))][w] = b
  <2>1. PICK h \in 0 .. NumStages - 1 : b = First - h /\ First - h >= 0
    <3>1. First - b \in 0 .. NumStages - 1 /\ b = First - (First - b) /\ First - (First - b) >= 0
      BY <1>1, <1>13
    <3> QED BY <3>1
  <2>2. StageOf(b) = h
    BY <1>1, <2>1, FirstStages
  <2>3. <<K(h), b>> \in x /\ (First - NumStages + 1 < b => <<V(h), b>> \in x)
    BY <1>1, <1>7, <2>1
  <2>4. K(h) \in Areas(tile) /\ V(h) \in Areas(tile)
    BY <1>1, <1>8, <2>2
  <2>5. \A c : <<K(h), b>>[1] = K(h) /\ <<V(h), b>>[1] = V(h) /\ <<K(h), b>>[2] = b /\ <<V(h), b>>[2] = b
    OBVIOUS
  <2> QED BY <1>11, <2>2, <2>3, <2>4, <2>5
<1>14. KHeld(w)'
  <2>1. NextK(w)' = First - NumStages
    BY <1>1, <1>2 DEF NextK, KCopied
  <2> QED BY <1>1, <1>2, <1>13, <2>1 DEF KHeld
<1>15. VHeld(w)'
  <2>1. NextV(w)' = First - NumStages + 1
    BY <1>1, <1>2 DEF NextV, VPending, NextIsV, Prologue
  <2>2. \A b \in 0 .. First : First - NumStages + 1 < b => mem'[V(StageOf(b))][w] = b
    BY <1>1, <1>13
  <2> QED BY <1>1, <1>2, <2>1, <2>2 DEF VHeld
<1>16. QHeld(w)' /\ BiasHeld(w)'
  BY <1>2, <1>12 DEF QHeld, BiasHeld, NextIsK
<1> QED BY <1>11, <1>14, <1>15, <1>16 DEF Held

\* What a warp holds, and what the others do, after a step of the warp.
LEMMA HeldNext ==
  ASSUME QuietInv, Shape, NEW w \in Warps, Positions(w), Held(w), Warp(w), pc[w] = "drain" => NumStages > 1
  PROVE  /\ Held(w)' /\ mem' \in [Areas(tile) -> [Warps -> Int]]
         /\ \A a \in Areas(tile) : \A v \in Warps \ {w} : mem'[a][v] = mem[a][v]
<1>1. CASE PrefetchRest(w)
  <2>1. mem' = Written(w, {}) /\ mem \in [Areas(tile) -> [Warps -> Int]]
    BY <1>1, PrefetchIsEmpty DEF Shape
  <2>2. /\ mem' \in [Areas(tile) -> [Warps -> Int]]
        /\ \A a \in Areas(tile) : \A v \in Warps \ {w} : mem'[a][v] = mem[a][v]
    BY <2>1, WrittenIs
  <2> QED BY <1>1, <2>2, HeldQuiets
<1>2. CASE \/ PreprocessQ(w) \/ ReadQ(w) \/ Sync(w) \/ GemmQK(w) \/ Drain(w) \/ SyncV(w)
           \/ ApplyBias(w) \/ GemmPV(w) \/ Epilogue(w) \/ StoreO(w)
  <2>1. mem' = mem
    BY <1>2 DEF PreprocessQ, ReadQ, Sync, GemmQK, Drain, SyncV, ApplyBias, GemmPV, Epilogue, StoreO, WaitGroup, copies
  <2> QED BY <1>2, <2>1, HeldQuiets DEF Shape
<1> QED BY <1>1, <1>2, HeldPrologue, HeldLoadV, HeldLoadK, HeldWriteO DEF Warp

-----------------------------------------------------------------------------
(* What the warps read is what they all hold, and has landed.              *)

LEMMA GroupsOf ==
  ASSUME QuietInv, NEW v \in Warps, Placed(v), pc[v] \notin {"start", "preprocess_Q"}, NEW i \in DOMAIN groups[v]
  PROVE  \E a \in Nat : /\ a < Len(groups[v]) /\ a <= 2 * NumStages - 2
                        /\ groups[v][i] \subseteq {AreaOf(v, a), Bias}
<1>1. groups[v] \in Seq(Copies) /\ Len(groups[v]) \in Nat /\ NumStages \in Nat \ {0}
  BY TileFacts DEF QuietInv, Typed
<1>2. i \in 1 .. Len(groups[v]) /\ Len(groups[v]) <= 2 * NumStages - 1
  BY <1>1 DEF Placed, Positions
<1>3. PICK a \in Nat : a = Len(groups[v]) - i /\ a < Len(groups[v]) /\ a <= 2 * NumStages - 2
  <2>1. Len(groups[v]) - i \in Nat /\ Len(groups[v]) - i < Len(groups[v]) /\ Len(groups[v]) - i <= 2 * NumStages - 2
    BY <1>1, <1>2
  <2> QED BY <2>1
<1>4. groups[v][i] \subseteq {AreaOf(v, a), Bias}
  BY <1>2, <1>3 DEF Placed, CopiesPlaced, Age
<1> QED BY <1>3, <1>4

LEMMA QLanded ==
  ASSUME QuietInv, NEW v \in Warps, Placed(v), pc[v] \notin {"start", "preprocess_Q"}, NEW i \in DOMAIN groups[v]
  PROVE  Q \notin groups[v][i]
<1>1. PICK a \in Nat : groups[v][i] \subseteq {AreaOf(v, a), Bias}
  BY GroupsOf
<1>2. \A s : K(s) # Q /\ V(s) # Q /\ Q # Bias
  BY DEF K, V, Q, Bias
<1> QED BY <1>1, <1>2 DEF AreaOf

\* The K block that is being multiplied: those in flight are younger than it,
\* by less than a round of the stages.
LEMMA KLanded ==
  ASSUME QuietInv, NEW v \in Warps, Placed(v), NEW i \in DOMAIN groups[v],
         pc[v] \in NextIsK \cup {"load_V"} \/ (pc[v] = "apply_bias" /\ NumStages > 1)
  PROVE  K(StageOf(n[v])) \notin groups[v][i]
<1>1. /\ tile \in Tiles /\ Len(groups[v]) \in Nat /\ NumStages \in Nat \ {0} /\ n[v] \in Nat /\ InFlight(v)
      /\ pc[v] \notin {"start", "preprocess_Q"}
  BY TileFacts DEF QuietInv, Typed, NextIsK
<1>2. PICK a \in Nat : a < Len(groups[v]) /\ a <= 2 * NumStages - 2 /\ groups[v][i] \subseteq {AreaOf(v, a), Bias}
  BY <1>1, GroupsOf
<1>3. \A s, t : K(s) # Bias /\ K(s) # V(t) /\ (K(s) = K(t) => s = t)
  BY <1>1, AreasApart
<1>4. ASSUME NEW c \in Int, n[v] - NumStages < c, c < n[v] PROVE StageOf(n[v]) # StageOf(c)
  <2>1. n[v] < c + NumStages /\ n[v] \in Int
    BY <1>1, <1>4
  <2>2. \A b, d \in Int : b < d /\ d < b + NumStages => StageOf(b) # StageOf(d)
    BY <1>1, Stages
  <2> QED BY <1>4, <2>1, <2>2
<1>5. CASE pc[v] = "load_V"
  <2>1. Len(groups[v]) <= 2 * NumStages - 2
    BY <1>1, <1>5 DEF InFlight
  <2>2. PICK c \in Int : c = n[v] - NumStages + (1 + (a + 1) \div 2)
    BY <1>1
  <2>3. AreaOf(v, a) = IF a % 2 = 0 THEN K(StageOf(c)) ELSE V(StageOf(c))
    BY <1>5, <2>2, AreaIs DEF NextIsV
  <2>4. a % 2 = 0 => n[v] - NumStages < c /\ c < n[v]
    <3>1. PICK h \in Nat : (a + 1) \div 2 = h /\ (a % 2 = 0 => a = 2 * h)
      OBVIOUS
    <3>2. a < 2 * NumStages - 2
      BY <1>1, <1>2, <2>1
    <3> QED BY <1>1, <2>2, <3>1, <3>2
  <2> QED BY <1>2, <1>3, <1>4, <2>3, <2>4
<1>6. CASE pc[v] \in NextIsK \/ (pc[v] = "apply_bias" /\ NumStages > 1)
  <2>1. PICK c \in Int : c = n[v] - NumStages + (1 + a \div 2)
    BY <1>1
  <2>2. AreaOf(v, a) = IF a % 2 = 0 THEN V(StageOf(c)) ELSE K(StageOf(c))
    BY <1>6, <2>1, AreaIs
  <2>3. a % 2 # 0 => n[v] - NumStages < c /\ c < n[v]
    BY <1>1, <1>2, <2>1
  <2> QED BY <1>2, <1>3, <1>4, <2>2, <2>3
<1> QED BY <1>5, <1>6

\* The V block that is being multiplied, when a warp may be a block ahead.
LEMMA VLanded ==
  ASSUME QuietInv, NEW v \in Warps, Placed(v), NEW i \in DOMAIN groups[v], NEW m \in Nat,
         \/ n[v] = m /\ (pc[v] \in {"load_K", "gemm_PV"} \cup Last \/ (pc[v] = "apply_bias" /\ NumStages = 1))
         \/ n[v] = m - 1 /\ pc[v] \in {"sync", "load_V"}
  PROVE  V(StageOf(m)) \notin groups[v][i]
<1>1. /\ tile \in Tiles /\ Len(groups[v]) \in Nat /\ NumStages \in Nat \ {0} /\ n[v] \in Nat /\ InFlight(v)
      /\ pc[v] \notin {"start", "preprocess_Q"}
  BY TileFacts DEF QuietInv, Typed, Last
<1>2. PICK a \in Nat : a < Len(groups[v]) /\ a <= 2 * NumStages - 2 /\ groups[v][i] \subseteq {AreaOf(v, a), Bias}
  BY <1>1, GroupsOf
<1>3. \A s, t : V(s) # Bias /\ K(s) # V(t) /\ (V(s) = V(t) => s = t)
  BY <1>1, AreasApart
<1>4. ASSUME NEW c \in Int, m - NumStages < c, c < m PROVE StageOf(m) # StageOf(c)
  <2>1. m < c + NumStages
    BY <1>1, <1>4
  <2> QED BY <1>1, <1>4, <2>1, Stages
<1>5. CASE n[v] = m /\ pc[v] = "load_K"
  <2>1. Len(groups[v]) <= 2 * NumStages - 2
    BY <1>1, <1>5 DEF InFlight
  <2>2. PICK c \in Int : c = n[v] - NumStages + (1 + a \div 2)
    BY <1>1
  <2>3. AreaOf(v, a) = IF a % 2 = 0 THEN V(StageOf(c)) ELSE K(StageOf(c))
    BY <1>5, <2>2, AreaIs DEF NextIsK
  <2>4. a % 2 = 0 => m - NumStages < c /\ c < m
    BY <1>1, <1>2, <1>5, <2>1, <2>2
  <2> QED BY <1>2, <1>3, <1>4, <2>3, <2>4
<1>6. CASE n[v] = m /\ (pc[v] \in BothDone \/ (pc[v] = "apply_bias" /\ NumStages = 1))
  <2>1. PICK c \in Int : c = n[v] - NumStages + (a + 1) \div 2
    BY <1>1
  <2>2. AreaOf(v, a) = IF a % 2 = 0 THEN K(StageOf(c)) ELSE V(StageOf(c))
    <3>1. pc[v] \in BothDone \/ (pc[v] = "apply_bias" /\ ~(NumStages > 1))
      BY <1>6
    <3> QED BY <2>1, <3>1, AreaIs
  <2>3. a % 2 # 0 => m - NumStages < c /\ c < m
    BY <1>1, <1>2, <1>6, <2>1
  <2> QED BY <1>2, <1>3, <1>4, <2>2, <2>3
<1>7. CASE n[v] = m - 1 /\ pc[v] \in {"sync", "load_V"}
  <2>1. PICK c \in Int : c = n[v] - NumStages + (1 + (a + 1) \div 2)
    BY <1>1
  <2>2. AreaOf(v, a) = IF a % 2 = 0 THEN K(StageOf(c)) ELSE V(StageOf(c))
    BY <1>7, <2>1, AreaIs DEF NextIsV
  <2>3. a % 2 # 0 => m - NumStages < c /\ c < m
    BY <1>1, <1>2, <1>7, <2>1
  <2> QED BY <1>2, <1>3, <1>4, <2>2, <2>3
<1> QED BY <1>5, <1>6, <1>7 DEF BothDone

LEMMA Reads ==
  ASSUME QuietInv, TileInv, NEW w \in Warps
  PROVE  /\ ReadQ(w) => Read(Q) = Query
         /\ GemmQK(w) => Read(K(rd[w])) = n[w] /\ (~tile.qInRegs => Read(Q) = Query)
         /\ ApplyBias(w) /\ BiasTile(w) => Read(Bias) = n[w]
         /\ GemmPV(w) => Read(V(rd[w])) = n[w]
         /\ StoreO(w) => Read(Q) = Output
<1>1. /\ NumStages \in Nat \ {0} /\ First \in Nat /\ arrived \in [Warps -> Int] /\ Barriers
      /\ \A v \in Warps : /\ Placed(v) /\ Held(v) /\ n[v] \in Nat /\ n[v] <= First
                          /\ BiasIsNewest(v) /\ groups[v] \in Seq(Copies)
  BY TileFacts DEF QuietInv, Typed, TileInv, Shape, Placed, Positions
<1>2. \A v \in Warps : Positions(v) /\ KHeld(v) /\ VHeld(v) /\ QHeld(v) /\ BiasHeld(v)
  BY <1>1 DEF Placed, Held
<1>3. \A v \in Warps : DOMAIN groups[v] = 1 .. Len(groups[v])
  BY <1>1
<1>4. ASSUME ReadQ(w) PROVE Read(Q) = Query
  <2>1. pc[w] = "read_Q" /\ Released(w)
    BY <1>4 DEF ReadQ
  <2>2. ASSUME NEW v \in Warps PROVE mem[Q][v] = Query /\ \A i \in DOMAIN groups[v] : Q \notin groups[v][i]
    <3>1. pc[v] \in {"read_Q", "prefetch"}
      BY <1>1, <2>1, WhoIsWhere
    <3>2. mem[Q][v] = Query
      BY <1>2, <3>1 DEF QHeld
    <3> QED BY <1>1, <3>1, <3>2, QLanded
  <2> QED BY <2>2, ReadIs
<1>5. ASSUME GemmQK(w) PROVE Read(K(rd[w])) = n[w] /\ (~tile.qInRegs => Read(Q) = Query)
  <2>1. pc[w] = "gemm_QK" /\ rd[w] = StageOf(n[w])
    BY <1>2, <1>5 DEF GemmQK, Positions, Last
  <2>2. ASSUME NEW v \in Warps
        PROVE  n[v] = n[w] /\ (pc[v] \in NextIsK \cup {"load_V"} \/ (pc[v] = "apply_bias" /\ NumStages > 1))
    BY <1>1, <2>1, WhoIsWhere DEF Waits
  <2>3. ASSUME NEW v \in Warps
        PROVE  mem[K(rd[w])][v] = n[w] /\ \A i \in DOMAIN groups[v] : K(rd[w]) \notin groups[v][i]
    <3>1. NextK(v) = n[v] - NumStages
      BY <1>1, <2>2 DEF NextK, KCopied, NextIsK
    <3>2. n[v] \in 0 .. First /\ NextK(v) < n[v] /\ n[v] <= NextK(v) + NumStages
      BY <1>1, <3>1
    <3>3. pc[v] \notin {"start"} \cup Last
      BY <2>2 DEF NextIsK, Last
    <3>4. mem[K(StageOf(n[v]))][v] = n[v]
      BY <1>2, <3>2, <3>3 DEF KHeld
    <3>5. \A i \in DOMAIN groups[v] : K(StageOf(n[v])) \notin groups[v][i]
      BY <1>1, <2>2, KLanded
    <3> QED BY <2>1, <2>2, <3>4, <3>5
  <2>4. ASSUME NEW v \in Warps, ~tile.qInRegs PROVE mem[Q][v] = Query /\ \A i \in DOMAIN groups[v] : Q \notin groups[v][i]
    <3>1. pc[v] \notin {"start", "preprocess_Q", "store_O", "done"}
      BY <2>2 DEF NextIsK
    <3>2. mem[Q][v] = Query
      BY <1>2, <2>4, <3>1 DEF QHeld
    <3> QED BY <1>1, <3>1, <3>2, QLanded
  <2>5. Read(K(rd[w])) = n[w]
    BY <2>3, ReadIs
  <2>6. ~tile.qInRegs => Read(Q) = Query
    BY <2>4, ReadIs
  <2> QED BY <2>5, <2>6
<1>6. ASSUME ApplyBias(w), BiasTile(w) PROVE Read(Bias) = n[w]
  <2>1. pc[w] = "apply_bias" /\ Released(w) /\ IsBiasTile(n[w])
    BY <1>6 DEF ApplyBias, BiasTile, IsBiasTile
  <2>2. ASSUME NEW v \in Warps PROVE mem[Bias][v] = n[w] /\ \A i \in DOMAIN groups[v] : Bias \notin groups[v][i]
    <3>1. NumStages = 1 \/ NumStages > 1
      BY <1>1
    <3>2. \/ n[v] = n[w] /\ pc[v] \in {"apply_bias", "sync_V", "load_K", "gemm_PV"} /\ (pc[v] = "sync_V" => NumStages > 1)
          \/ n[v] = n[w] - 1 /\ pc[v] \in {"sync", "load_V"}
          \/ n[w] = 0 /\ pc[v] \in {"epilogue", "write_O"}
      BY <1>1, <2>1, <3>1, WhoIsWhere
    <3>3. n[w] = 0 /\ pc[v] \in {"epilogue", "write_O"} => n[v] = n[w]
      <4>1. InFlight(v)
        BY DEF QuietInv
      <4> QED BY <4>1 DEF InFlight, Last
    <3>4. mem[Bias][v] = n[w]
      <4>1. CASE n[v] = n[w] /\ pc[v] \in {"apply_bias", "sync_V", "load_K", "gemm_PV", "epilogue", "write_O"}
        BY <1>2, <2>1, <4>1 DEF BiasHeld, NextIsK
      <4>2. CASE n[v] = n[w] - 1 /\ pc[v] \in {"sync", "load_V"}
        <5>1. n[v] + 1 = n[w] /\ n[v] < First
          BY <1>1, <4>2
        <5> QED BY <1>2, <2>1, <4>2, <5>1 DEF BiasHeld
      <4> QED BY <3>2, <3>3, <4>1, <4>2
    <3>5. ASSUME NEW i \in DOMAIN groups[v] PROVE Bias \notin groups[v][i]
      <4>1. BiasIsNewest(v) /\ i \in 1 .. Len(groups[v])
        BY <1>1, <1>3
      <4> QED BY <3>2, <4>1, <1>1 DEF BiasIsNewest
    <3> QED BY <3>4, <3>5
  <2> QED BY <2>2, ReadIs
<1>7. ASSUME GemmPV(w) PROVE Read(V(rd[w])) = n[w]
  <2>1. pc[w] = "gemm_PV" /\ rd[w] = StageOf(n[w])
    BY <1>2, <1>7 DEF GemmPV, Positions, Last
  <2>2. ASSUME NEW v \in Warps
        PROVE  \/ n[v] = n[w] /\ (pc[v] \in {"load_K", "gemm_PV", "epilogue", "write_O"} \/ (pc[v] = "apply_bias" /\ NumStages = 1))
               \/ n[v] = n[w] - 1 /\ pc[v] \in {"sync", "load_V"}
    <3>1. \/ n[v] = n[w] /\ (pc[v] \in {"load_K", "gemm_PV"} \/ (pc[v] = "apply_bias" /\ NumStages = 1))
          \/ n[v] = n[w] - 1 /\ pc[v] \in {"sync", "load_V"}
          \/ n[w] = 0 /\ pc[v] \in {"epilogue", "write_O"}
      BY <1>1, <2>1, WhoIsWhere DEF Waits
    <3>2. pc[v] \in {"epilogue", "write_O"} => n[v] = 0
      <4>1. InFlight(v)
        BY DEF QuietInv
      <4> QED BY <4>1 DEF InFlight, Last
    <3> QED BY <3>1, <3>2
  <2>3. ASSUME NEW v \in Warps
        PROVE  mem[V(rd[w])][v] = n[w] /\ \A i \in DOMAIN groups[v] : V(rd[w]) \notin groups[v][i]
    <3>1. NextV(v) = n[w] - NumStages
      BY <1>1, <2>2 DEF NextV, VPending, NextIsV, Prologue
    <3>2. n[w] \in 0 .. First /\ NextV(v) < n[w] /\ n[w] <= NextV(v) + NumStages
      BY <1>1, <3>1
    <3>3. pc[v] \notin {"start", "store_O", "done"}
      BY <2>2
    <3>4. mem[V(StageOf(n[w]))][v] = n[w]
      BY <1>2, <3>2, <3>3 DEF VHeld
    <3>5. \A i \in DOMAIN groups[v] : V(StageOf(n[w])) \notin groups[v][i]
      BY <1>1, <2>2, VLanded DEF Last
    <3> QED BY <2>1, <3>4, <3>5
  <2> QED BY <2>3, ReadIs
<1>8. ASSUME StoreO(w) PROVE Read(Q) = Output
  <2>1. pc[w] = "store_O" /\ Released(w)
    BY <1>8 DEF StoreO
  <2>2. ASSUME NEW v \in Warps PROVE mem[Q][v] = Output /\ \A i \in DOMAIN groups[v] : Q \notin groups[v][i]
    <3>1. pc[v] \in {"store_O", "done"}
      BY <1>1, <2>1, WhoIsWhere
    <3>2. mem[Q][v] = Output
      BY <1>2, <3>1 DEF QHeld
    <3> QED BY <1>1, <3>1, <3>2, QLanded
  <2> QED BY <2>2, ReadIs
<1> QED BY <1>4, <1>5, <1>6, <1>7, <1>8

-----------------------------------------------------------------------------
(* The results, and the invariant.                                         *)

\* A change of what a warp's scores are of.
LEMMA ScoresChange ==
  ASSUME acc_S \in [Warps -> [q : Int, k : Int, b : Int]], NEW w \in Warps, NEW i \in Int
  PROVE  /\ acc_S[w].q \in Int /\ acc_S[w].k \in Int /\ acc_S[w].b \in Int
         /\ LET new == [acc_S EXCEPT ![w].q = i]
            IN new \in [Warps -> [q : Int, k : Int, b : Int]] /\ new[w].q = i
         /\ LET new == [acc_S EXCEPT ![w].b = i]
            IN new \in [Warps -> [q : Int, k : Int, b : Int]] /\ new[w].q = acc_S[w].q /\ new[w].k = acc_S[w].k /\ new[w].b = i
<1>1. PICK s \in [q : Int, k : Int, b : Int] : s = acc_S[w] /\ s.q \in Int /\ s.k \in Int /\ s.b \in Int
  <2>1. acc_S[w] \in [q : Int, k : Int, b : Int]
    OBVIOUS
  <2>2. \A s \in [q : Int, k : Int, b : Int] : s.q \in Int /\ s.k \in Int /\ s.b \in Int
    OBVIOUS
  <2> QED BY <2>1, <2>2
<1>2. ASSUME NEW r \in [q : Int, k : Int, b : Int]
      PROVE  [acc_S EXCEPT ![w] = r] \in [Warps -> [q : Int, k : Int, b : Int]] /\ [acc_S EXCEPT ![w] = r][w] = r
  OBVIOUS
<1>3. [acc_S EXCEPT ![w].q = i] = [acc_S EXCEPT ![w] = [s EXCEPT !.q = i]]
  BY <1>1
<1>4. [acc_S EXCEPT ![w].b = i] = [acc_S EXCEPT ![w] = [s EXCEPT !.b = i]]
  BY <1>1
<1>5. /\ [s EXCEPT !.q = i] \in [q : Int, k : Int, b : Int] /\ [s EXCEPT !.q = i].q = i
      /\ [s EXCEPT !.b = i] \in [q : Int, k : Int, b : Int]
      /\ [s EXCEPT !.b = i].q = s.q /\ [s EXCEPT !.b = i].k = s.k /\ [s EXCEPT !.b = i].b = i
  BY <1>1
<1> QED BY <1>1, <1>2, <1>3, <1>4, <1>5

LEMMA ScoresReplaced ==
  ASSUME acc_S \in [Warps -> [q : Int, k : Int, b : Int]], NEW w \in Warps, NEW i \in Int, NEW j \in Int,
         acc_S' = [acc_S EXCEPT ![w].k = i, ![w].b = j]
  PROVE  /\ acc_S' \in [Warps -> [q : Int, k : Int, b : Int]]
         /\ acc_S'[w].q = acc_S[w].q /\ acc_S'[w].k = i /\ acc_S'[w].b = j
<1>1. PICK s \in [q : Int, k : Int, b : Int] : s = acc_S[w] /\ s.q \in Int
  <2>1. acc_S[w] \in [q : Int, k : Int, b : Int]
    OBVIOUS
  <2>2. \A s \in [q : Int, k : Int, b : Int] : s.q \in Int
    OBVIOUS
  <2> QED BY <2>1, <2>2
<1>2. PICK r \in [q : Int, k : Int, b : Int] : r = [s EXCEPT !.k = i, !.b = j] /\ r.q = s.q /\ r.k = i /\ r.b = j
  <2>1. /\ [s EXCEPT !.k = i, !.b = j] \in [q : Int, k : Int, b : Int]
        /\ [s EXCEPT !.k = i, !.b = j].q = s.q /\ [s EXCEPT !.k = i, !.b = j].k = i /\ [s EXCEPT !.k = i, !.b = j].b = j
    BY <1>1
  <2> QED BY <2>1
<1>3. acc_S' = [acc_S EXCEPT ![w] = r]
  BY <1>1, <1>2
<1>4. acc_S' \in [Warps -> [q : Int, k : Int, b : Int]] /\ acc_S'[w] = r
  BY <1>3
<1> QED BY <1>1, <1>2, <1>4

LEMMA ResultsNext ==
  ASSUME QuietInv, TileInv, NEW w \in Warps, Warp(w)
  PROVE  /\ Results(w)'
         /\ rd' \in [Warps -> Int] /\ stored' \in [Warps -> BOOLEAN]
         /\ acc_S' \in [Warps -> [q : Int, k : Int, b : Int]] /\ acc' \in [Warps -> Seq([k : Int, n : Int, v : Int])]
<1> USE DEF Goto
<1>1. /\ tile \in Tiles /\ tile' = tile
      /\ NumStages \in Nat \ {0} /\ NumStages' = NumStages /\ First \in Nat /\ First' = First
      /\ pc[w] \in Places /\ n[w] \in Nat /\ (tile.qInRegs => NumStages = 1) /\ InFlight(w)
  BY WarpStep DEF Warp, TileInv
<1>2. /\ pc \in [Warps -> Places] /\ n \in [Warps -> Nat] /\ Results(w) /\ Positions(w)
      /\ rd \in [Warps -> Int] /\ stored \in [Warps -> BOOLEAN]
      /\ acc_S \in [Warps -> [q : Int, k : Int, b : Int]] /\ acc \in [Warps -> Seq([k : Int, n : Int, v : Int])]
  BY DEF TileInv, Shape, QuietInv, Typed, Placed
<1>3. CASE ReadQ(w)
  <2>1. acc_S' = [acc_S EXCEPT ![w].q = Query] /\ pc'[w] = "prefetch" /\ pc[w] = "read_Q" /\ UNCHANGED <<n, rd, acc, stored>>
    BY <1>2, <1>3, Reads DEF ReadQ
  <2>2. acc_S' \in [Warps -> [q : Int, k : Int, b : Int]] /\ acc_S'[w].q = Query
    <3>1. Query \in Int
      BY DEF Query
    <3> QED BY <1>2, <2>1, <3>1, ScoresChange
  <2>3. Results(w)'
    BY <1>1, <1>2, <2>1, <2>2 DEF Results, Last, Query
  <2> QED BY <1>2, <2>1, <2>2, <2>3
<1>4. CASE GemmQK(w)
  <2>1. PICK at \in {"sync_V", "drain"} :
          /\ pc[w] = "gemm_QK" /\ pc'[w] = at /\ UNCHANGED <<n, rd, acc, stored>>
          /\ acc_S' = [acc_S EXCEPT ![w].k = n[w], ![w].b = n[w]]
    <3>1. pc[w] = "gemm_QK" /\ Read(K(rd[w])) = n[w] /\ (IF tile.qInRegs THEN acc_S[w].q ELSE Read(Q)) = Query
      BY <1>2, <1>4, Reads DEF GemmQK, Results
    <3>2. acc_S' = [acc_S EXCEPT ![w].k = n[w], ![w].b = n[w]]
      BY <1>4, <3>1 DEF GemmQK
    <3>3. pc'[w] \in {"sync_V", "drain"} /\ UNCHANGED <<n, rd, acc, stored>>
      BY <1>2, <1>4 DEF GemmQK
    <3> QED BY <3>1, <3>2, <3>3
  <2>2. /\ acc_S' \in [Warps -> [q : Int, k : Int, b : Int]]
        /\ acc_S'[w].q = acc_S[w].q /\ acc_S'[w].k = n[w] /\ acc_S'[w].b = n[w]
    <3>1. n[w] \in Int
      BY <1>1
    <3>2. PICK i \in Int : i = n[w] /\ acc_S' = [acc_S EXCEPT ![w].k = i, ![w].b = i]
      BY <2>1, <3>1
    <3>3. /\ acc_S' \in [Warps -> [q : Int, k : Int, b : Int]]
          /\ acc_S'[w].q = acc_S[w].q /\ acc_S'[w].k = i /\ acc_S'[w].b = i
      BY <1>2, <3>2, ScoresReplaced
    <3> QED BY <3>2, <3>3, Zenon
  <2>3. Results(w)'
    BY <1>1, <1>2, <2>1, <2>2 DEF Results, Last, Query
  <2> QED BY <1>2, <2>1, <2>2, <2>3
<1>5. CASE ApplyBias(w)
  <2>1. PICK at \in {"sync_V", "gemm_PV"} :
          /\ pc[w] = "apply_bias" /\ pc'[w] = at /\ UNCHANGED <<n, rd, acc, stored>>
          /\ acc_S' = [acc_S EXCEPT ![w].b = n[w]]
    <3>1. (IF BiasTile(w) THEN Read(Bias) ELSE n[w]) = n[w]
      BY <1>5, Reads
    <3>2. acc_S' = [acc_S EXCEPT ![w].b = n[w]]
      BY <1>5, <3>1 DEF ApplyBias
    <3>3. pc[w] = "apply_bias" /\ pc'[w] \in {"sync_V", "gemm_PV"} /\ UNCHANGED <<n, rd, acc, stored>>
      BY <1>2, <1>5 DEF ApplyBias
    <3> QED BY <3>2, <3>3
  <2>2. /\ acc_S' \in [Warps -> [q : Int, k : Int, b : Int]]
        /\ acc_S'[w].q = acc_S[w].q /\ acc_S'[w].k = acc_S[w].k /\ acc_S'[w].b = n[w]
    <3>1. n[w] \in Int
      BY <1>1
    <3> QED BY <1>2, <2>1, <3>1, ScoresChange
  <2>3. Results(w)'
    BY <1>1, <1>2, <2>1, <2>2 DEF Results, Last, Query
  <2> QED BY <1>2, <2>1, <2>2, <2>3
<1>6. CASE GemmPV(w)
  <2>1. PICK at \in {"sync", "epilogue"} :
          /\ pc[w] = "gemm_PV" /\ pc'[w] = at /\ UNCHANGED <<acc_S, stored>>
          /\ n'[w] = (IF at = "epilogue" THEN 0 ELSE n[w] - 1)
          /\ (at = "epilogue" <=> n[w] = 0)
          /\ acc' = [acc EXCEPT ![w] = Append(@, [k |-> acc_S[w].k, n |-> acc_S[w].b, v |-> n[w]])]
          /\ rd' = [rd EXCEPT ![w] = AdvancePipeline(@)]
    <3>1. Read(V(rd[w])) = n[w]
      BY <1>6, Reads
    <3>2. acc' = [acc EXCEPT ![w] = Append(@, [k |-> acc_S[w].k, n |-> acc_S[w].b, v |-> n[w]])]
      BY <1>6, <3>1 DEF GemmPV
    <3> QED BY <1>2, <1>6, <3>2 DEF GemmPV
  <2>2. rd' \in [Warps -> Int]
    BY <1>1, <1>2, <2>1 DEF AdvancePipeline
  <2>3. PICK r \in [k : Int, n : Int, v : Int] : r = [k |-> acc_S[w].k, n |-> acc_S[w].b, v |-> n[w]]
    <3>1. acc_S[w].k \in Int /\ acc_S[w].b \in Int /\ n[w] \in Int
      BY <1>1, <1>2
    <3>2. [k |-> acc_S[w].k, n |-> acc_S[w].b, v |-> n[w]] \in [k : Int, n : Int, v : Int]
      BY <3>1
    <3> QED BY <3>2, Zenon
  <2>4. acc'[w] = Append(acc[w], r) /\ acc' = [acc EXCEPT ![w] = Append(acc[w], r)]
    BY <1>2, <2>1, <2>3
  <2>5. Append(acc[w], r) \in Seq([k : Int, n : Int, v : Int]) /\ Len(Append(acc[w], r)) = Len(acc[w]) + 1
    BY <1>2, <2>3, AppendProperties
  <2>6. acc' \in [Warps -> Seq([k : Int, n : Int, v : Int])] /\ Len(acc'[w]) = Len(acc[w]) + 1
    BY <1>2, <2>4, <2>5
  <2>7. Len(acc[w]) = First - n[w]
    BY <1>2, <2>1 DEF Results, Last
  <2>8. Len(acc'[w]) = (IF at = "epilogue" THEN First + 1 ELSE First - n'[w])
    BY <1>1, <2>1, <2>6, <2>7
  <2>9. Results(w)'
    BY <1>1, <1>2, <2>1, <2>8 DEF Results, Last, Query
  <2> QED BY <1>2, <2>1, <2>2, <2>6, <2>9
<1>7. CASE StoreO(w)
  <2>1. stored' = [stored EXCEPT ![w] = TRUE] /\ pc'[w] = "done" /\ pc[w] = "store_O" /\ UNCHANGED <<n, rd, acc, acc_S>>
    <3>1. Read(Q) = Output
      BY <1>7, Reads
    <3>2. (Read(Q) = Output) = TRUE
      BY <3>1
    <3>3. stored' = [stored EXCEPT ![w] = TRUE]
      BY <1>7, <3>2, Zenon DEF StoreO
    <3> QED BY <1>2, <1>7, <3>3 DEF StoreO
  <2>2. stored' \in [Warps -> BOOLEAN] /\ stored'[w]
    BY <1>2, <2>1
  <2>3. Results(w)'
    BY <1>1, <1>2, <2>1, <2>2 DEF Results, Last, Query
  <2> QED BY <1>2, <2>1, <2>2, <2>3
<1>8. CASE \/ LoadPrologue(w) \/ PreprocessQ(w) \/ PrefetchRest(w) \/ Sync(w) \/ LoadVNext(w) \/ Drain(w)
           \/ SyncV(w) \/ LoadKNext(w) \/ Epilogue(w) \/ WriteO(w)
  <2>1. UNCHANGED <<n, rd, acc_S, acc, stored>>
    BY <1>8 DEF LoadPrologue, PreprocessQ, PrefetchRest, Sync, LoadVNext, Drain, SyncV, LoadKNext, Epilogue, WriteO
  <2>2. /\ pc'[w] \in Last <=> pc[w] \in Last
        /\ pc'[w] # "done" /\ pc[w] # "done"
        /\ pc'[w] \notin {"start", "preprocess_Q", "read_Q"} =>
             pc[w] \notin {"start", "preprocess_Q", "read_Q"} \/ ~tile.qInRegs
        /\ pc'[w] \in {"drain", "apply_bias", "sync_V", "load_K", "gemm_PV"} =>
             pc[w] \in {"drain", "apply_bias", "sync_V", "load_K", "gemm_PV"}
    <3>1. CASE LoadPrologue(w) \/ PreprocessQ(w) \/ PrefetchRest(w) \/ Sync(w) \/ LoadVNext(w)
      BY <1>2, <3>1 DEF LoadPrologue, PreprocessQ, PrefetchRest, Sync, LoadVNext, Last
    <3>2. CASE Drain(w) \/ SyncV(w) \/ LoadKNext(w) \/ Epilogue(w) \/ WriteO(w)
      BY <1>2, <3>2 DEF Drain, SyncV, LoadKNext, Epilogue, WriteO, Last
    <3> QED BY <1>8, <3>1, <3>2
  <2>3. Results(w)'
    BY <1>1, <1>2, <2>1, <2>2 DEF Results, Query
  <2> QED BY <1>2, <2>1, <2>3
<1> QED BY <1>3, <1>4, <1>5, <1>6, <1>7, <1>8 DEF Warp

LEMMA TileStepInv ==
  ASSUME QuietInv, TileInv, NEW w \in Warps, Warp(w)
  PROVE  TileInv'
<1>1. /\ Shape /\ Barriers /\ arrived \in [Warps -> Int] /\ Placed(w) /\ Held(w) /\ Positions(w)
      /\ pc[w] = "drain" => NumStages > 1
  BY DEF TileInv, Shape, Barriers, Placed
<1>2. /\ tile \in Tiles /\ tile' = tile /\ First' = First
      /\ \A v \in Warps \ {w} : /\ pc'[v] = pc[v] /\ n'[v] = n[v] /\ groups'[v] = groups[v]
                                /\ rd'[v] = rd[v] /\ wr'[v] = wr[v]
                                /\ acc_S'[v] = acc_S[v] /\ acc'[v] = acc[v] /\ stored'[v] = stored[v]
  BY <1>1, WarpStep
<1>3. Barriers' /\ arrived' \in [Warps -> Int]
  BY <1>1, BarrierStep
<1>4. Placed(w)'
  BY <1>1, PlacedNext
<1>5. /\ Held(w)' /\ mem' \in [Areas(tile) -> [Warps -> Int]]
      /\ \A a \in Areas(tile) : \A v \in Warps \ {w} : mem'[a][v] = mem[a][v]
  BY <1>1, HeldNext
<1>6. /\ Results(w)' /\ rd' \in [Warps -> Int] /\ stored' \in [Warps -> BOOLEAN]
      /\ acc_S' \in [Warps -> [q : Int, k : Int, b : Int]] /\ acc' \in [Warps -> Seq([k : Int, n : Int, v : Int])]
  BY ResultsNext
<1>7. ASSUME NEW v \in Warps, v # w PROVE (Placed(v) /\ Held(v) /\ Results(v))'
  <2>1. Placed(v) /\ Held(v) /\ Results(v) /\ n[v] \in Int
    BY DEF TileInv, QuietInv, Typed
  <2>2. Placed(v)' /\ Held(v)'
    BY <1>2, <1>5, <1>7, <2>1, OtherWarp
  <2>3. Results(v)'
    BY <1>2, <1>7, <2>1 DEF Results, Last, Query
  <2> QED BY <2>2, <2>3
<1>8. Shape'
  BY <1>2, <1>3, <1>5, <1>6 DEF Shape, Areas
<1>9. \A v \in Warps : (Placed(v) /\ Held(v) /\ Results(v))'
  <2> SUFFICES ASSUME NEW v \in Warps PROVE (Placed(v) /\ Held(v) /\ Results(v))'
    OBVIOUS
  <2>1. CASE v = w
    BY <1>4, <1>5, <1>6, <2>1
  <2>2. CASE v # w
    BY <1>7, <2>2
  <2> QED BY <2>1, <2>2
<1> QED BY <1>3, <1>8, <1>9 DEF TileInv, Warps

LEMMA TileInvInit == Init => TileInv
<1> SUFFICES ASSUME Init PROVE TileInv
  OBVIOUS
<1>1. tile \in Tiles /\ NumStages \in Nat \ {0} /\ First \in Nat
  BY TileFacts DEF Init
<1>2. Shape
  <2>1. /\ mem \in [Areas(tile) -> [Warps -> Int]] /\ arrived \in [Warps -> Int] /\ rd \in [Warps -> Int]
        /\ stored \in [Warps -> BOOLEAN]
    BY DEF Init, Garbage
  <2>2. acc_S \in [Warps -> [q : Int, k : Int, b : Int]]
    BY DEF Init, Garbage
  <2>3. acc \in [Warps -> Seq([k : Int, n : Int, v : Int])]
    BY DEF Init
  <2> QED BY <2>1, <2>2, <2>3 DEF Shape
<1>3. ASSUME NEW w \in Warps
      PROVE  /\ groups[w] = <<>> /\ Len(groups[w]) = 0 /\ pc[w] = "start" /\ n[w] = First /\ arrived[w] = 0
             /\ rd[w] = 0 /\ wr[w] = NumStages - 1 /\ acc[w] = <<>> /\ Len(acc[w]) = 0 /\ ~stored[w]
  BY DEF Init
<1>4. Barriers
  BY <1>3 DEF Barriers, Arrivals, Waits
<1>5. StageOf(First) = 0 /\ StageOf(First - NumStages + 1) = NumStages - 1
  <2>1. NumStages - 1 \in 0 .. NumStages - 1 /\ First - (NumStages - 1) = First - NumStages + 1
    BY <1>1
  <2>2. StageOf(First - (NumStages - 1)) = NumStages - 1
    BY <1>1, <2>1, FirstStages
  <2> QED BY <1>1, <2>1, <2>2, Stages
<1>6. ASSUME NEW w \in Warps PROVE Placed(w) /\ Held(w) /\ Results(w)
  <2>1. CopiesPlaced(w)
    BY <1>3 DEF CopiesPlaced
  <2>2. Positions(w)
    BY <1>1, <1>3, <1>5 DEF Positions, VPending, Last
  <2>3. Held(w)
    BY <1>3 DEF Held, KHeld, VHeld, QHeld, BiasHeld, NextIsK
  <2>4. Results(w)
    BY <1>1, <1>3 DEF Results, Last
  <2> QED BY <2>1, <2>2, <2>3, <2>4 DEF Placed
<1> QED BY <1>2, <1>4, <1>6 DEF TileInv

LEMMA TileInvNext == QuietInv /\ TileInv /\ [Next]_vars => TileInv'
<1> SUFFICES ASSUME QuietInv, TileInv, [Next]_vars PROVE TileInv'
  OBVIOUS
<1>1. CASE UNCHANGED vars
  <2>1. /\ tile' = tile /\ mem' = mem /\ groups' = groups /\ arrived' = arrived /\ pc' = pc /\ n' = n /\ rd' = rd /\ wr' = wr
        /\ acc_S' = acc_S /\ acc' = acc /\ stored' = stored
    BY <1>1 DEF vars
  <2>2. First' = First /\ NumStages' = NumStages /\ tile \in Tiles /\ \A v \in Warps : n[v] \in Int
    BY <2>1 DEF First, NumStages, QuietInv, Typed
  <2>3. Shape'
    BY <2>1 DEF TileInv, Shape, Areas
  <2>4. Barriers'
    <3>1. \A at, m : Arrivals(at, m)' = Arrivals(at, m) /\ Waits(at)' = Waits(at)
      BY <2>1, <2>2 DEF Arrivals, Waits, InPrologue, PerBlock
    <3> HIDE DEF Arrivals, Waits
    <3> QED BY <2>1, <2>2, <3>1 DEF TileInv, Barriers
  <2>5. ASSUME NEW v \in Warps PROVE (Placed(v) /\ Held(v) /\ Results(v))'
    <3>1. Placed(v) /\ Held(v) /\ Results(v)
      BY DEF TileInv
    <3>2. Placed(v)' /\ Held(v)'
      BY <2>1, <2>2, <3>1, OtherWarp
    <3>3. Results(v)'
      BY <2>1, <2>2, <3>1 DEF Results
    <3> QED BY <3>2, <3>3
  <2> QED BY <2>3, <2>4, <2>5 DEF TileInv, Warps
<1>2. CASE Done
  BY <1>2, <1>1 DEF Done
<1>3. ASSUME NEW w \in Warps, Warp(w) PROVE TileInv'
  BY <1>3, TileStepInv
<1> QED BY <1>1, <1>2, <1>3 DEF Next

-----------------------------------------------------------------------------
(* The block is a correct AttentionTile.                                   *)

LEMMA MultipliesNext ==
  ASSUME QuietInv, TileInv, NEW w \in Warps, GemmPV(w)
  PROVE  Tile!Accumulate(w)
<1>1. First \in Nat /\ n[w] \in Nat /\ n[w] <= First
  BY TileFacts DEF QuietInv, Typed, TileInv, Placed, Positions
<1>2. pc[w] = "gemm_PV" /\ Results(w) /\ Read(V(rd[w])) = n[w]
  BY Reads DEF TileInv, GemmPV
<1>3. Len(acc[w]) = First - n[w] /\ acc_S[w].k = n[w] /\ acc_S[w].b = n[w]
  BY <1>2 DEF Results, Last
<1>4. acc' = [acc EXCEPT ![w] = Append(@, [k |-> n[w], n |-> n[w], v |-> n[w]])]
  BY <1>2, <1>3 DEF GemmPV
<1>5. UNCHANGED <<First, stored>>
  BY DEF GemmPV, First
<1>6. (First + 1) - 1 - Len(acc[w]) = n[w] /\ ~(Len(acc[w]) >= (First + 1) - 0)
  BY <1>1, <1>3
<1> HIDE DEF First
<1> QED BY <1>4, <1>5, <1>6 DEF Tile!Accumulate, Tile!Finished

LEMMA StoresLast ==
  ASSUME QuietInv, TileInv, NEW w \in Warps, StoreO(w)
  PROVE  Tile!Store
<1>1. First \in Nat /\ stored \in [Warps -> BOOLEAN] /\ arrived \in [Warps -> Int] /\ Barriers /\ \A v \in Warps : n[v] <= First
  BY TileFacts DEF QuietInv, Typed, TileInv, Shape, Placed, Positions
<1>2. pc[w] = "store_O" /\ Released(w) /\ Read(Q) = Output
  BY Reads DEF StoreO
<1>3. ASSUME NEW v \in Warps PROVE Tile!Finished(v)
  <2>1. pc[v] \in {"store_O", "done"}
    BY <1>1, <1>2, WhoIsWhere
  <2>2. Len(acc[v]) = First + 1
    BY <2>1 DEF TileInv, Results, Last
  <2> HIDE DEF First
  <2> QED BY <1>1, <2>2 DEF Tile!Finished
<1>4. \E W \in SUBSET Warps : stored' = [v \in Warps |-> stored[v] \/ v \in W]
  <2>1. (Read(Q) = Output) = TRUE
    BY <1>2
  <2>2. stored' = [stored EXCEPT ![w] = TRUE]
    BY <2>1, Zenon DEF StoreO
  <2>3. stored' = [v \in Warps |-> IF v = w THEN TRUE ELSE stored[v]]
    BY <1>1, <2>2
  <2>4. \A v \in Warps : (IF v = w THEN TRUE ELSE stored[v]) = (stored[v] \/ v \in {w})
    BY <1>1, Zenon
  <2>5. stored' = [v \in Warps |-> stored[v] \/ v \in {w}]
    BY <2>3, <2>4, Zenon
  <2>6. {w} \in SUBSET Warps
    OBVIOUS
  <2> QED BY <2>5, <2>6
<1>5. UNCHANGED <<First, acc>>
  BY DEF StoreO, First
<1> QED BY <1>3, <1>4, <1>5 DEF Tile!Store

\* Every other step of a warp stutters.
LEMMA OthersStutter ==
  ASSUME NEW w \in Warps, Warp(w), ~GemmPV(w), ~StoreO(w)
  PROVE  UNCHANGED Tile!vars
<1>1. UNCHANGED <<tile, acc, stored>>
  BY DEF Warp, LoadPrologue, PreprocessQ, ReadQ, PrefetchRest, Sync, LoadVNext, GemmQK, Drain, SyncV, LoadKNext,
         ApplyBias, Epilogue, WriteO
<1> QED BY <1>1 DEF Tile!vars, First

\* A thread block of the generic kernel is a correct AttentionTile, for any number
\* of warps, stages and blocks, with Q in registers or not and whichever blocks
\* have a bias tile: each warp folds in each block once, newest first, with its
\* own scores, bias and V, all of them landed and none of them overwritten, and
\* its rows are stored after all have.  That it ends is left to TLC.
THEOREM BlockIsTile == Spec => Tile!Safety
<1>1. Init => Tile!Init
  <2> SUFFICES ASSUME Init PROVE Tile!Init
    OBVIOUS
  <2>1. First \in Nat
    BY TileFacts DEF Init
  <2> QED BY <2>1 DEF Init, Tile!Init
<1>2. QuietInv /\ TileInv /\ [Next]_vars => [Tile!Next]_(Tile!vars)
  <2> SUFFICES ASSUME QuietInv, TileInv, [Next]_vars PROVE [Tile!Next]_(Tile!vars)
    OBVIOUS
  <2>1. ASSUME NEW w \in Warps, Warp(w) PROVE [Tile!Next]_(Tile!vars)
    BY <2>1, MultipliesNext, StoresLast, OthersStutter DEF Tile!Next
  <2>2. CASE UNCHANGED vars
    BY <2>2 DEF vars, Tile!vars, First
  <2> QED BY <2>1, <2>2 DEF Next, Done
<1>3. Spec => [](QuietInv /\ TileInv)
  <2>1. Init => QuietInv /\ TileInv
    BY QuietInit, TileInvInit
  <2>2. QuietInv /\ TileInv /\ [Next]_vars => (QuietInv /\ TileInv)'
    BY QuietNext, TileInvNext
  <2> QED BY <2>1, <2>2, PTL DEF Spec
<1> QED BY <1>1, <1>2, <1>3, PTL DEF Spec, Tile!Safety

=============================================================================
