---------------------------- MODULE ShearLayout ----------------------------
(***************************************************************************)
(* The index arithmetic of the relative position bias: which KV blocks a   *)
(* tile of queries visits, where a row of bias values is placed in the     *)
(* sheared buffer, and which column a score tile reads.                    *)
(*                                                                         *)
(* A request is a record [sq, sk]: seqlen_q queries, the last of its sk    *)
(* keys.  Block stands for the 128 that every layout rule counts in: the   *)
(* rows of a query tile, ShearingBias's BlockInfo(128, 128), and half of   *)
(* the pad of 256 columns.  A bias value is represented by its index d in  *)
(* the row rel_logits[i, h, :], d being the distance from query to key.    *)
(***************************************************************************)
EXTENDS Integers

CONSTANT Block  \* 128

\* A launch of the kernels: which attention kernel and its tile_n, rel_extent (the
\* bias values of a row), causal or with a sliding window, num_splits, and the kernel
\* that writes the sheared buffer with its BLOCK_M, BLOCK_N and GROUP_M.  The
\* conditions are the assertions of interface.py on rel_bias; every tile_n that it
\* picks for a bias divides 128.
IsLaunch(l) ==
  /\ l.kernel \in {"sm90", "generic", "inkernel"}
  /\ l.tileN \in Nat \ {0} /\ Block % l.tileN = 0
  /\ l.relExtent \in Nat \ {0} /\ l.relExtent % Block = 0
  /\ l.local \in BOOLEAN /\ l.windowLeft \in Nat /\ l.windowRight \in Nat
  /\ IF l.local THEN l.windowLeft + l.windowRight + 1 = l.relExtent ELSE l.windowRight = 0
  /\ l.numSplits \in Nat \ {0} /\ (l.kernel = "generic" => l.numSplits = 1)
  /\ l.writer \in {"shearing", "lowLatency", "throughput", "small"}
  /\ {l.blockM, l.blockN, l.groupM} \subseteq Nat \ {0}

ASSUME BlockAssumption == Block \in Nat \ {0}

Pad == 2 * Block
Padded(l) == l.relExtent + Pad
Columns(l) == 0 .. Padded(l) - 1
NumTiles(l) == Padded(l) \div l.tileN

Least(a, b) == IF a <= b THEN a ELSE b
Most(a, b) == IF a >= b THEN a ELSE b
CeilDiv(a, b) == (a + b - 1) \div b

-----------------------------------------------------------------------------
(* Block ranges (BlockInfo).                                               *)

Ctx(g) == g.sk - g.sq

\* The keys query i may attend to: NIdxLeft(l, g, i) .. NIdxRight(l, g, i) - 1.
NIdxRight(l, g, i) == i + 1 + Ctx(g) + l.windowRight
NIdxLeft(l, g, i) == IF l.local THEN Most(i + Ctx(g) - l.windowLeft, 0) ELSE 0

\* The number of tile_n blocks that the queries before position `end` can see.
BlocksUpTo(l, g, end, t) == Least(CeilDiv(g.sk, t), CeilDiv(end + Ctx(g) + l.windowRight, t))

NBlockMax(l, g, m, t) == BlocksUpTo(l, g, (m + 1) * Block, t)
NBlockMin(l, g, m, t) == IF l.local THEN Most((m * Block + Ctx(g) - l.windowLeft) \div t, 0) ELSE 0

\* Mutant: the split's share rounded down.
BugBlocksPerSplit(l, g, m) ==
  IF NBlockMax(l, g, m, l.tileN) <= NBlockMin(l, g, m, l.tileN) THEN 0
  ELSE (NBlockMax(l, g, m, l.tileN) - NBlockMin(l, g, m, l.tileN)) \div l.numSplits

BlocksPerSplit(l, g, m) ==
  IF NBlockMax(l, g, m, l.tileN) <= NBlockMin(l, g, m, l.tileN) THEN 0
  ELSE CeilDiv(NBlockMax(l, g, m, l.tileN) - NBlockMin(l, g, m, l.tileN), l.numSplits)

\* <<n_block_min, n_block_max>> of a split; n_block_min can exceed n_block_max.
SplitRange(l, g, m, s) ==
  LET lo == NBlockMin(l, g, m, l.tileN) + s * BlocksPerSplit(l, g, m)
  IN  <<lo, Least(lo + BlocksPerSplit(l, g, m), NBlockMax(l, g, m, l.tileN))>>

\* Where the mainloop's causal part ends, and where its left-window part begins.
CausalBound(l, g, m, lo) == Most(lo, (m * Block + Ctx(g) + l.windowRight) \div l.tileN)
LeftBound(l, g, m, lo) ==
  IF l.local THEN Most(lo, CeilDiv((m + 1) * Block + Ctx(g) - l.windowLeft, l.tileN)) ELSE lo

-----------------------------------------------------------------------------
(* The writers of the sheared buffer.  A cell holds a distance or one of:  *)

LeftPad  == -1   \* left_pad: 0.0, or -inf under a left window
RightPad == -2   \* -inf
Unset    == -3   \* never written
Clash    == -4   \* written twice

\* interface.py decides whether ShearingBias packs the query heads of a KV head
\* into the rows; the sm_80, sm_90 and sm_120 kernels read unpacked rows.
PackedHeads == 1

\* The column of the value with distance rel_extent - 1; a row's values are
\* reversed, so that they end where the row's last visible key lies.
Base(l, g, i) ==
  LET m == (i * PackedHeads) \div Block
  IN  NIdxRight(l, g, i) + Pad - Block * BlocksUpTo(l, g, CeilDiv((m + 1) * Block, PackedHeads), Block)

NumBiasVals(l, g, i) == NIdxRight(l, g, i) - Most(NIdxLeft(l, g, i), NIdxRight(l, g, i) - l.relExtent)

\* The value written for reversed index c of a row.
ValueOf(l, g, i, c) == IF c >= l.relExtent - NumBiasVals(l, g, i) THEN l.relExtent - 1 - c ELSE LeftPad

\* The row that results, whoever writes it.
ShearedRow(l, g, i) ==
  [x \in Columns(l) |-> IF x < Base(l, g, i) THEN LeftPad
                        ELSE IF x >= Base(l, g, i) + l.relExtent THEN RightPad
                        ELSE ValueOf(l, g, i, x - Base(l, g, i))]

-----------------------------------------------------------------------------
(* The readers.                                                            *)

\* What a cell adds to a score: the value of a distance, or one of these.
Zero   == -5
NegInf == -6

Effect(l, v) == IF v = LeftPad THEN IF l.local THEN NegInf ELSE Zero
                ELSE IF v = RightPad THEN NegInf ELSE v

\* The reference: the bias of query i for key k, nothing past rel_extent.
Reference(l, g, i, k) ==
  LET d == NIdxRight(l, g, i) - 1 - k IN IF d < l.relExtent THEN d ELSE Zero

Visible(l, g, i, k) == NIdxLeft(l, g, i) <= k /\ k < NIdxRight(l, g, i) /\ k < g.sk

\* bias_tile_shift of the sm_90 kernel: the full block count, whatever the split.
TileShiftSm90(l, g, m, s) == NumTiles(l) - NBlockMax(l, g, m, l.tileN)

\* bias_tile_shift of the generic kernel counts in the writer's blocks.
BugTileShiftGeneric(l, g, m) == NumTiles(l) - NBlockMax(l, g, m, l.tileN)
TileShiftGeneric(l, g, m) == NumTiles(l) - (Block * NBlockMax(l, g, m, Block)) \div l.tileN

\* The score tiles that get a bias tile at all.
AppliesSm90(l, g, m, s, n) == n + TileShiftSm90(l, g, m, s) \in 0 .. NumTiles(l) - 1

BugAppliesGeneric(l, g, m, n) == n >= -TileShiftGeneric(l, g, m)
AppliesGeneric(l, g, m, n) ==
  /\ n >= -TileShiftGeneric(l, g, m)
  /\ n < (Block * NBlockMax(l, g, m, Block)) \div l.tileN

\* In-kernel shear: distance of element (r, j) of score tile (m, n), and the
\* value it adds.  Tiles on either side of the band take a pad as a whole; only
\* a tile that meets an edge of the band or of the rows tests each element.
DMax(l) == IF l.local THEN Least(l.relExtent, l.windowLeft + l.windowRight + 1) ELSE l.relExtent

ShearK(l, g, m, n) == m * Block + Ctx(g) + l.windowRight - n * l.tileN

InKernel(l, g, m, n, r, j) ==
  LET sh == ShearK(l, g, m, n)
      lo == sh - (l.tileN - 1)
      hi == sh + (Block - 1)
      d  == r - j + sh
      allRight == hi < 0
      allLeft  == ~allRight /\ lo >= DMax(l)
      whole    == lo >= 0 /\ hi < DMax(l) /\ Block <= g.sq - m * Block
  IN  CASE allRight -> RightPad
        [] allLeft -> LeftPad
        [] ~allRight /\ ~allLeft /\ whole -> d
        [] OTHER -> IF d < 0 THEN RightPad
                    ELSE IF d < DMax(l) /\ r < g.sq - m * Block THEN d ELSE LeftPad
=============================================================================
