------------------------------ MODULE RelBias ------------------------------
(***************************************************************************)
(* One launch of attention with relative position bias: the fused writer   *)
(* of kernels/patches/u2_shear_fusion.py (or the ShearingBias kernel it    *)
(* replaces) fills the sheared buffer of a batch of requests, and one CTA  *)
(* walks the KV blocks of one tile of queries, split after split, and adds *)
(* the bias to its scores.  The programs of the writer run in any order,   *)
(* and the tile is any of the batch's; tiles share nothing.  A query head  *)
(* is one of many that are treated alike: the model has one.               *)
(***************************************************************************)
EXTENDS ShearLayout, Sequences, FiniteSets

CONSTANTS
  Launches,  \* the launches to consider
  Batches    \* the batches of requests a launch can have

\* A request has queries and at least as many keys; `start' is its cu_seqlens_q:
\* the queries of all requests lie one behind the other.
IsBatch(b) ==
  /\ b \in Seq([start : Nat, sq : Nat, sk : Nat])
  /\ \A r \in DOMAIN b : /\ b[r].sq <= b[r].sk
                         /\ b[r].start = IF r = 1 THEN 0 ELSE b[r - 1].start + b[r - 1].sq

ASSUME LaunchesAssumption == \A l \in Launches : IsLaunch(l)
ASSUME BatchesAssumption == \A b \in Batches : IsBatch(b)

VARIABLES
  launch,  \* the launch's parameters
  batch,   \* the requests of the launch
  todo,    \* <<row program, column program>> of the writer that have not run
  buf,     \* request -> query -> sheared row
  tile,    \* the CTA's tile: request and m_block
  pc,      \* "write", "split", "first", "causal", "inner", "left", "done"
  split,   \* split_idx
  lo, hi,  \* n_block_min, and n_block_max as the mainloop counts it down
  score,   \* row of the tile -> key -> what was added to the score
  tilesRead \* bias tiles that were copied

vars == <<launch, batch, todo, buf, tile, pc, split, lo, hi, score, tilesRead>>

Tile0 == [req |-> 0, m |-> 0]
Req == batch[tile.req]
IsSplitKV == launch.numSplits > 1

\* qkvr_prep writes the sheared layout itself.
Fuses == launch.writer # "shearing"

-----------------------------------------------------------------------------
(* The writer: one of three kernels that share the geometry.  A program    *)
(* owns some rows of the batch, BLOCK_N value columns, and a slice of the  *)
(* two pad wings, of 2 * Pad candidate columns in all.                     *)

\* The rows of the launch are its tokens, each with the request it belongs to (seq_idx).
RowOf(b, i) == batch[b].start + i
NumRows == IF batch = <<>> THEN 0 ELSE RowOf(Len(batch), batch[Len(batch)].sq)

\* Rows and value columns of a program; the throughput kernel loops over GROUP_M
\* blocks of rows, the small one has a program for every row.
RowsPerProgram == CASE launch.writer = "lowLatency" -> launch.blockM
                    [] launch.writer = "throughput" -> launch.blockM * launch.groupM
                    [] OTHER -> 1
ColsPerProgram == IF launch.writer = "small" THEN launch.relExtent ELSE launch.blockN
RowProgs == CeilDiv(NumRows, RowsPerProgram)
ColProgs == CeilDiv(launch.relExtent, ColsPerProgram)

\* next_power_of_2; a power of two has no odd divisor but 1.
IsPowerOf2(y) == \A d \in 2 .. y : y % d = 0 => d % 2 = 0
PowerAbove(x) == CHOOSE y \in x .. 2 * x : IsPowerOf2(y) /\ \A z \in x .. y - 1 : ~IsPowerOf2(z)

PadBlock == PowerAbove(CeilDiv(2 * Pad, ColProgs))

\* The <<column, value>> pairs that program c stores for query i.
ValueStores(g, i, c) ==
  LET slice == {x \in c * ColsPerProgram .. (c + 1) * ColsPerProgram - 1 : x < launch.relExtent}
  IN  {<<Base(launch, g, i) + x, ValueOf(launch, g, i, x)>> : x \in slice}

\* Mutant: the right wing begins a column late.
BugPadStores(g, i, c) ==
  LET slice == {p \in c * PadBlock .. (c + 1) * PadBlock - 1 : p < 2 * Pad}
  IN  {<<p, LeftPad>> : p \in {q \in slice : q < Pad /\ q < Base(launch, g, i)}}
      \cup {<<p - Pad + launch.relExtent, RightPad>> :
              p \in {q \in slice : q >= Pad /\ q - Pad > Base(launch, g, i)}}

PadStores(g, i, c) ==
  LET slice == {p \in c * PadBlock .. (c + 1) * PadBlock - 1 : p < 2 * Pad}
  IN  {<<p, LeftPad>> : p \in {q \in slice : q < Pad /\ q < Base(launch, g, i)}}
      \cup {<<p - Pad + launch.relExtent, RightPad>> :
              p \in {q \in slice : q >= Pad /\ q - Pad >= Base(launch, g, i)}}

Store(row, stores) ==
  [x \in Columns(launch) |->
    LET here == {s \in stores : s[1] = x}
    IN  CASE here = {} -> row[x]
          [] Cardinality(here) = 1 /\ row[x] = Unset -> (CHOOSE s \in here : TRUE)[2]
          [] OTHER -> Clash]

\* What program <<r, c>> leaves, when it owns the rows that `mine' selects.
Written(mine, c) ==
  [b \in DOMAIN batch |-> [i \in 0 .. batch[b].sq - 1 |->
     IF RowOf(b, i) \in mine
     THEN Store(buf[b][i], ValueStores(batch[b], i, c) \cup PadStores(batch[b], i, c))
     ELSE buf[b][i]]]

RunProgram(p, mine) ==
  /\ pc = "write" /\ p \in todo
  /\ todo' = todo \ {p}
  /\ buf' = Written(mine, p[2])
  /\ UNCHANGED <<launch, batch, tile, pc, split, lo, hi, score, tilesRead>>

LowLatency(p) ==
  /\ launch.writer = "lowLatency"
  /\ RunProgram(p, p[1] * launch.blockM .. (p[1] + 1) * launch.blockM - 1)

Throughput(p) ==
  /\ launch.writer = "throughput"
  /\ RunProgram(p, UNION {(p[1] * launch.groupM + g) * launch.blockM ..
                           (p[1] * launch.groupM + g + 1) * launch.blockM - 1 : g \in 0 .. launch.groupM - 1})

\* The kernel that prepares a few tokens at once: a program writes a whole row.
Small(p) == launch.writer = "small" /\ RunProgram(p, {p[1]})

-----------------------------------------------------------------------------
(* The reader.                                                             *)

\* The grid has a tile for every Block queries (no request has NumRows tiles or more);
\* that of the generic kernel also has wasted tiles, where seqlen_q = seqlen_k = 0.
Tiles == {t \in [req : DOMAIN batch, m : 0 .. NumRows] :
            \/ t.m * Block < batch[t.req].sq
            \/ launch.kernel = "generic" /\ batch[t.req].sq = 0 /\ t.m = 0}

StartTile ==
  /\ pc = "write" /\ todo = {}
  /\ tile' \in Tiles
  /\ score' = [r \in 0 .. Block - 1 |-> [k \in 0 .. batch[tile'.req].sk - 1 |-> Unset]]
  /\ pc' = "split" /\ split' = 0
  /\ UNCHANGED <<launch, batch, todo, buf, lo, hi, tilesRead>>

\* An empty split has no work; the generic kernel has no splits, and its first
\* block is 0 even when there is none.
StartSplit ==
  /\ pc = "split" /\ split < launch.numSplits
  /\ LET range == SplitRange(launch, Req, tile.m, split)
     IN  IF launch.kernel = "generic"
         THEN lo' = range[1] /\ hi' = Most(range[2], 1) /\ pc' = "first" /\ split' = split
         ELSE /\ lo' = range[1] /\ hi' = range[2]
              /\ IF IsSplitKV /\ range[1] >= range[2]
                 THEN pc' = "split" /\ split' = split + 1
                 ELSE pc' = "first" /\ split' = split
  /\ UNCHANGED <<launch, batch, todo, buf, tile, score, tilesRead>>

Finish ==
  /\ pc = "split" /\ split = launch.numSplits
  /\ pc' = "done"
  /\ UNCHANGED <<launch, batch, todo, buf, tile, split, lo, hi, score, tilesRead>>

Applies(n) == CASE launch.kernel = "sm90" -> AppliesSm90(launch, Req, tile.m, split, n)
                [] launch.kernel = "generic" -> AppliesGeneric(launch, Req, tile.m, n)
                [] OTHER -> FALSE

BiasTile(n) == IF launch.kernel = "sm90" THEN n + TileShiftSm90(launch, Req, tile.m, split)
                                         ELSE n + TileShiftGeneric(launch, Req, tile.m)

\* What element (r, j) of score tile n gets.  Rows behind the request's last
\* query are masked; they read other rows of the buffer.
Element(r, n, j) ==
  IF launch.kernel = "inkernel" THEN Effect(launch, InKernel(launch, Req, tile.m, n, r, j))
  ELSE IF ~Applies(n) THEN Zero
  ELSE LET i == tile.m * Block + r
           x == BiasTile(n) * launch.tileN + j
       IN  IF i < Req.sq /\ x \in Columns(launch) THEN Effect(launch, buf[tile.req][i][x]) ELSE NegInf

Visit(n) ==
  /\ score' = [r \in 0 .. Block - 1 |-> [k \in 0 .. Req.sk - 1 |->
       IF k \in n * launch.tileN .. (n + 1) * launch.tileN - 1
       THEN IF score[r][k] = Unset THEN Element(r, n, k - n * launch.tileN) ELSE Clash
       ELSE score[r][k]]]
  /\ tilesRead' = IF Applies(n) THEN tilesRead \cup {BiasTile(n)} ELSE tilesRead

FirstBlock ==
  /\ pc = "first"
  /\ Visit(hi - 1)
  /\ hi' = hi - 1
  /\ pc' = "causal"
  /\ UNCHANGED <<launch, batch, todo, buf, tile, split, lo>>

\* Each part of the mainloop stops at its bound, a split's clamped to the split;
\* the generic kernel goes down to block 0 in its second part.
Bound(part) ==
  CASE part = "causal" -> CausalBound(launch, Req, tile.m, lo)
    [] part = "inner"  -> IF launch.kernel = "generic" THEN 0 ELSE LeftBound(launch, Req, tile.m, lo)
    [] OTHER           -> lo

NextPart(part) == CASE part = "causal" -> "inner"
                    [] part = "inner" /\ launch.local /\ launch.kernel # "generic" -> "left"
                    [] OTHER -> "split"

MoreBlocks(part) == hi > Bound(part)

LoopBlock ==
  /\ pc \in {"causal", "inner", "left"} /\ MoreBlocks(pc)
  /\ Visit(hi - 1)
  /\ hi' = hi - 1
  /\ UNCHANGED <<launch, batch, todo, buf, tile, pc, split, lo>>

EndPart ==
  /\ pc \in {"causal", "inner", "left"} /\ ~MoreBlocks(pc)
  /\ pc' = NextPart(pc)
  /\ split' = IF NextPart(pc) = "split" THEN split + 1 ELSE split
  /\ UNCHANGED <<launch, batch, todo, buf, tile, lo, hi, score, tilesRead>>

-----------------------------------------------------------------------------
Init ==
  /\ launch \in Launches /\ batch \in Batches
  \* ShearingBias runs to its end before the attention kernel; the natural
  \* buffer is never sheared.
  /\ todo = IF Fuses THEN (0 .. RowProgs - 1) \X (0 .. ColProgs - 1) ELSE {}
  /\ buf = [b \in DOMAIN batch |-> [i \in 0 .. batch[b].sq - 1 |->
              IF Fuses \/ launch.kernel = "inkernel" THEN [x \in Columns(launch) |-> Unset]
              ELSE ShearedRow(launch, batch[b], i)]]
  /\ tile = Tile0 /\ pc = "write" /\ split = 0 /\ lo = 0 /\ hi = 0
  /\ score = <<>> /\ tilesRead = {}

Done == pc = "done" /\ UNCHANGED vars

Next == \/ \E p \in todo : LowLatency(p) \/ Throughput(p) \/ Small(p)
        \/ StartTile \/ StartSplit \/ FirstBlock \/ LoopBlock \/ EndPart \/ Finish
        \/ Done

Spec == Init /\ [][Next]_vars /\ WF_vars(Next)
-----------------------------------------------------------------------------
(* Properties.                                                             *)

RowsOf(g) == {r \in 0 .. Block - 1 : tile.m * Block + r < g.sq}

\* Every score of a visible key that has been computed got the bias of its
\* distance, as the float32 oracle of parity_rel_chunked_decode.py computes it,
\* whatever the lengths, the tile width, the split and the writer.
BiasIsDistance == pc \notin {"write"} =>
  \A r \in RowsOf(Req), k \in 0 .. Req.sk - 1 :
    LET i == tile.m * Block + r
    IN  Visible(launch, Req, i, k) /\ score[r][k] \notin {Unset, Clash}
          => score[r][k] = Reference(launch, Req, i, k)

\* At the end of the tile every visible key has been visited exactly once: the
\* splits and the parts of the mainloop neither overlap nor leave a gap.
KeysOnce ==
  /\ pc = "done" => \A r \in RowsOf(Req), k \in 0 .. Req.sk - 1 :
       Visible(launch, Req, tile.m * Block + r, k) => score[r][k] # Unset
  /\ pc # "write" => \A r \in 0 .. Block - 1, k \in 0 .. Req.sk - 1 : score[r][k] # Clash

\* "The three regions are disjoint and cover [0, padded), so every column is
\* written exactly once" (u2_shear_fusion.py:62), by programs in any order; what
\* they leave is ShearingBias's row.
WrittenOnce == Fuses =>
  \A b \in DOMAIN batch : \A i \in 0 .. batch[b].sq - 1 :
    /\ \A x \in Columns(launch) : buf[b][i][x] # Clash
    /\ todo = {} => buf[b][i] = ShearedRow(launch, batch[b], i)

\* A bias tile that is copied lies inside the sheared row; the copy itself is
\* not predicated.
TilesInBuffer == tilesRead \subseteq 0 .. NumTiles(launch) - 1
=============================================================================
