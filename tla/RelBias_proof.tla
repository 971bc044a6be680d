--------------------------- MODULE RelBias_proof ---------------------------
(***************************************************************************)
(* The bias of every key, proved for every block size, launch and batch.   *)
(*                                                                         *)
(* WriteInv gives each cell of the buffer the one program that writes it:  *)
(* the cell is unset while that program has still to run, and else what    *)
(* ShearingBias would have put there.  ReadInv gives the blocks that the   *)
(* tile has visited: those of the earlier splits and those of this split   *)
(* above hi.  What the two meet in is arithmetic: ShearLayout derives the  *)
(* place of a value from the writer's geometry, and again from the         *)
(* reader's.                                                               *)
(*                                                                         *)
(* Three theorems need more than IsLaunch: FusedHasNoRightWindow, because  *)
(* the fused writer leaves columns out under a window to the right, and    *)
(* one Sm90TileIsBlock, because the sm_90 kernel counts the tile shift in  *)
(* its own tiles.  The launches of every layer satisfy both.               *)
(***************************************************************************)
EXTENDS RelBias, FiniteSetTheorems, SequenceTheorems, TLAPS

-----------------------------------------------------------------------------
(* Division and remainder.                                                 *)

LEMMA Quotient ==
  ASSUME NEW a \in Int, NEW b \in Nat \ {0}
  PROVE  /\ a \div b \in Int
         /\ b * (a \div b) <= a
         /\ a < b * (a \div b) + b
OBVIOUS

\* The only multiple of b that a reaches and does not pass.
LEMMA QuotientIs ==
  ASSUME NEW b \in Nat \ {0}, NEW q \in Int, NEW a \in Int, b * q <= a, a < b * q + b
  PROVE  a \div b = q
OBVIOUS

LEMMA Ceiling ==
  ASSUME NEW a \in Int, NEW b \in Nat \ {0}
  PROVE  /\ CeilDiv(a, b) \in Int
         /\ a <= b * CeilDiv(a, b)
         /\ b * CeilDiv(a, b) < a + b
<1> DEFINE q == (a + b - 1) \div b
<1>1. a + b - 1 \in Int
  OBVIOUS
<1>2. q \in Int /\ b * q <= a + b - 1 /\ a + b - 1 < b * q + b
  BY <1>1, Quotient
<1> HIDE DEF q
<1>3. b * q \in Int
  BY <1>2
<1> QED BY <1>2, <1>3 DEF CeilDiv, q

\* A dividend without remainder is a multiple.
LEMMA Multiple ==
  ASSUME NEW a \in Int, NEW b \in Nat \ {0}, a % b = 0
  PROVE  \E q \in Int : a = b * q
OBVIOUS

LEMMA Monotone ==
  ASSUME NEW b \in Nat \ {0}, NEW p \in Int, NEW q \in Int
  PROVE  /\ b * p < b * q + b => p <= q
         /\ p <= q => b * p <= b * q
         /\ p < q => b * p + b <= b * q
<1>1. ASSUME p <= q PROVE b * p <= b * q
  BY <1>1
<1>2. ASSUME p < q PROVE b * p + b <= b * q
  <2>1. b * (p + 1) <= b * q
    BY <1>2
  <2>2. b * (p + 1) = b * p + b
    OBVIOUS
  <2> QED BY <2>1, <2>2
<1>3. ASSUME b * p < b * q + b PROVE p <= q
  <2>1. SUFFICES ASSUME q < p PROVE FALSE
    OBVIOUS
  <2>2. b * (q + 1) <= b * p
    BY <2>1
  <2>3. b * (q + 1) = b * q + b
    OBVIOUS
  <2> QED BY <1>3, <2>2, <2>3
<1> QED BY <1>1, <1>2, <1>3

-----------------------------------------------------------------------------
(* The geometry of one row.                                                *)

LEMMA LaunchTypes ==
  ASSUME NEW l, IsLaunch(l)
  PROVE  /\ l.kernel \in {"sm90", "generic", "inkernel"}
         /\ l.tileN \in Nat \ {0} /\ l.relExtent \in Nat \ {0}
         /\ l.local \in BOOLEAN /\ l.windowLeft \in Nat /\ l.windowRight \in Nat
         /\ l.numSplits \in Nat \ {0} /\ (l.kernel = "generic" => l.numSplits = 1)
         /\ l.local => l.windowLeft + l.windowRight + 1 = l.relExtent
         /\ ~l.local => l.windowRight = 0
         /\ Block \in Nat \ {0} /\ Pad = 2 * Block /\ Padded(l) = l.relExtent + 2 * Block
         /\ Padded(l) \in Nat
         /\ \A x : x \in Columns(l) <=> x \in Int /\ 0 <= x /\ x < Padded(l)
BY BlockAssumption DEF IsLaunch, Pad, Padded, Columns

Requests == {g \in [start : Nat, sq : Nat, sk : Nat] : g.sq <= g.sk}

LEMMA RequestTypes ==
  ASSUME NEW g \in Requests
  PROVE  g.start \in Nat /\ g.sq \in Nat /\ g.sk \in Nat /\ Ctx(g) \in Nat /\ g.sk = g.sq + Ctx(g)
BY DEF Requests, Ctx

\* How far the keys of query tile m reach: to the last block that the last of its
\* queries, or of the request's, can see.
LEMMA BlocksReach ==
  ASSUME NEW l, IsLaunch(l), NEW g \in Requests, NEW m \in Nat, NEW t \in Nat \ {0}
  PROVE  LET top == (m + 1) * Block + Ctx(g) + l.windowRight
             nb  == NBlockMax(l, g, m, t)
         IN  /\ top \in Int /\ nb \in Int
             /\ g.sk <= t * nb \/ top <= t * nb
             /\ t * nb < g.sk + t
             /\ t * nb < top + t
<1> DEFINE top == (m + 1) * Block + Ctx(g) + l.windowRight
           a == CeilDiv(g.sk, t)
           b == CeilDiv(top, t)
           nb == NBlockMax(l, g, m, t)
<1>1. top \in Int /\ g.sk \in Int
  BY LaunchTypes, RequestTypes
<1>2. nb = IF a <= b THEN a ELSE b
  BY DEF NBlockMax, BlocksUpTo, Least
<1>3. a \in Int /\ g.sk <= t * a /\ t * a < g.sk + t
  BY <1>1, Ceiling
<1>4. b \in Int /\ top <= t * b /\ t * b < top + t
  <2> HIDE DEF top
  <2> QED BY <1>1, Ceiling
<1>5. (a <= b => t * a <= t * b) /\ (b <= a => t * b <= t * a)
  <2> HIDE DEF a, b
  <2> QED BY <1>3, <1>4, Monotone
<1> HIDE DEF top, a, b, nb
<1>6. t * a \in Int /\ t * b \in Int
  BY <1>3, <1>4
<1>7. top \in Int /\ nb \in Int /\ (g.sk <= t * nb \/ top <= t * nb) /\ t * nb < g.sk + t /\ t * nb < top + t
  BY <1>1, <1>2, <1>3, <1>4, <1>5, <1>6
<1> QED BY <1>7 DEF top, nb

LEMMA Tile ==
  ASSUME NEW i \in Nat
  PROVE  LET m == i \div Block IN m \in Nat /\ m * Block <= i /\ i < (m + 1) * Block
BY BlockAssumption

LEMMA BaseIs ==
  ASSUME NEW l, IsLaunch(l), NEW g \in Requests, NEW m \in Nat, NEW i \in Nat,
         m * Block <= i, i < m * Block + Block
  PROVE  Base(l, g, i) = i + 1 + Ctx(g) + l.windowRight + 2 * Block - Block * NBlockMax(l, g, m, Block)
<1>1. Block \in Nat \ {0} /\ m * Block \in Int
  BY BlockAssumption
<1>2. (i * PackedHeads) \div Block = m
  <2>1. i * PackedHeads = i
    BY DEF PackedHeads
  <2>2. Block * m = m * Block
    BY <1>1
  <2> QED BY <1>1, <2>1, <2>2, QuotientIs
<1>3. CeilDiv((m + 1) * Block, PackedHeads) = (m + 1) * Block
  <2>1. PICK x \in Int : x = (m + 1) * Block
    BY <1>1
  <2>2. (x + 1 - 1) \div 1 = x
    OBVIOUS
  <2> QED BY <2>1, <2>2 DEF CeilDiv, PackedHeads
<1> QED BY <1>2, <1>3, LaunchTypes DEF Base, NIdxRight, NBlockMax

\* A row's values begin behind column 0 and, without a right window, leave room
\* for themselves and for the right pad.
LEMMA BaseRange ==
  ASSUME NEW l, IsLaunch(l), NEW g \in Requests, NEW i \in 0 .. g.sq - 1
  PROVE  /\ Base(l, g, i) \in Int /\ 1 <= Base(l, g, i)
         /\ l.windowRight = 0 => Base(l, g, i) <= Pad
<1> DEFINE m == i \div Block
           nb == NBlockMax(l, g, m, Block)
<1>0. i \in Nat /\ Block \in Nat \ {0}
  BY RequestTypes, BlockAssumption
<1>1. PICK mb \in Int : mb = m * Block /\ mb <= i /\ i < mb + Block /\ m \in Nat /\ (m + 1) * Block = mb + Block
  <2>1. m \in Nat /\ m * Block <= i /\ i < (m + 1) * Block
    BY <1>0, Tile
  <2> HIDE DEF m
  <2>2. m * Block \in Int /\ (m + 1) * Block = m * Block + Block
    BY <1>0, <2>1
  <2> QED BY <2>1, <2>2
<1> HIDE DEF m
<1>2. Base(l, g, i) = i + 1 + Ctx(g) + l.windowRight + 2 * Block - Block * nb
  BY <1>0, <1>1, BaseIs
<1>3. /\ nb \in Int
      /\ g.sk <= Block * nb \/ mb + Block + Ctx(g) + l.windowRight <= Block * nb
      /\ Block * nb < mb + Block + Ctx(g) + l.windowRight + Block
  BY <1>0, <1>1, BlocksReach
<1> HIDE DEF nb
<1>4. PICK c \in Int : c = Block * nb
  BY <1>0, <1>3
<1>5. i < g.sq /\ g.sk = g.sq + Ctx(g) /\ Ctx(g) \in Nat /\ g.sq \in Nat /\ l.windowRight \in Nat /\ Pad = 2 * Block
  BY RequestTypes, LaunchTypes
<1> QED BY <1>0, <1>1, <1>2, <1>3, <1>4, <1>5

\* What a row's cells hold.
LEMMA ValueTypes ==
  ASSUME NEW l, IsLaunch(l), NEW g \in Requests, NEW i \in 0 .. g.sq - 1
  PROVE  /\ NIdxRight(l, g, i) \in Int /\ NIdxRight(l, g, i) = i + 1 + Ctx(g) + l.windowRight
         /\ NIdxLeft(l, g, i) \in Int /\ NumBiasVals(l, g, i) \in Int
         /\ \A c \in 0 .. l.relExtent - 1 : ValueOf(l, g, i, c) \in Nat \cup {LeftPad}
<1>1. NIdxRight(l, g, i) \in Int /\ NIdxRight(l, g, i) = i + 1 + Ctx(g) + l.windowRight
  BY LaunchTypes, RequestTypes DEF NIdxRight
<1>2. NIdxLeft(l, g, i) \in Int
  BY LaunchTypes, RequestTypes DEF NIdxLeft, Most
<1>3. NumBiasVals(l, g, i) \in Int
  BY <1>1, <1>2, LaunchTypes DEF NumBiasVals, Most
<1>4. \A c \in 0 .. l.relExtent - 1 : ValueOf(l, g, i, c) \in Nat \cup {LeftPad}
  BY LaunchTypes DEF ValueOf
<1> QED BY <1>1, <1>2, <1>3, <1>4

LEMMA RowCells ==
  ASSUME NEW l, IsLaunch(l), NEW g \in Requests, NEW i \in 0 .. g.sq - 1, NEW x \in Columns(l)
  PROVE  ShearedRow(l, g, i)[x] \in Nat \cup {LeftPad, RightPad}
<1>1. Base(l, g, i) \in Int /\ x \in Int /\ l.relExtent \in Int
  BY BaseRange, LaunchTypes
<1>2. CASE x >= Base(l, g, i) /\ ~(x >= Base(l, g, i) + l.relExtent)
  <2>1. x - Base(l, g, i) \in 0 .. l.relExtent - 1
    BY <1>1, <1>2
  <2> QED BY <1>1, <1>2, <2>1, ValueTypes DEF ShearedRow
<1>3. CASE x < Base(l, g, i) \/ x >= Base(l, g, i) + l.relExtent
  BY <1>1, <1>3 DEF ShearedRow
<1> QED BY <1>1, <1>2, <1>3

-----------------------------------------------------------------------------
(* What the readers find.                                                  *)

\* The cell that lies as far behind Base as the key lies behind the farthest key
\* with a bias holds the key's bias, or what stands for none.
LEMMA CellOfKey ==
  ASSUME NEW l, IsLaunch(l), NEW g \in Requests, NEW i \in 0 .. g.sq - 1, NEW k \in Nat, NEW x \in Int,
         Visible(l, g, i, k), x - Base(l, g, i) = k + l.relExtent - NIdxRight(l, g, i)
  PROVE  /\ x \in Columns(l) => Effect(l, ShearedRow(l, g, i)[x]) = Reference(l, g, i, k)
         /\ x < 0 => Reference(l, g, i, k) = Zero
<1>1. /\ l.relExtent \in Nat \ {0} /\ l.windowLeft \in Nat /\ l.windowRight \in Nat /\ l.local \in BOOLEAN
      /\ l.local => l.windowLeft + l.windowRight + 1 = l.relExtent
      /\ ~l.local => l.windowRight = 0
  BY LaunchTypes
<1>2. PICK R \in Int, b \in Int : R = NIdxRight(l, g, i) /\ b = Base(l, g, i) /\ 1 <= b
  BY ValueTypes, BaseRange
<1>3. /\ k < R
      /\ NIdxLeft(l, g, i) <= k
      /\ NIdxLeft(l, g, i) = IF l.local THEN Most(R - 1 - l.windowRight - l.windowLeft, 0) ELSE 0
  BY <1>1, <1>2, RequestTypes DEF Visible, NIdxLeft, NIdxRight
<1>4. l.local => k >= R - l.relExtent
  BY <1>1, <1>2, <1>3 DEF Most
<1>5. k >= R - l.relExtent => k >= R - NumBiasVals(l, g, i)
  BY <1>1, <1>2, <1>3 DEF NumBiasVals, Most
<1>6. Reference(l, g, i, k) = IF R - 1 - k < l.relExtent THEN R - 1 - k ELSE Zero
  BY <1>2 DEF Reference
<1>7. x < 0 => Reference(l, g, i, k) = Zero
  BY <1>1, <1>2, <1>4, <1>6
<1>8. ASSUME x \in Columns(l)
      PROVE  Effect(l, ShearedRow(l, g, i)[x]) = Reference(l, g, i, k)
  <2>1. x - b = k + l.relExtent - R
    BY <1>2
  <2>2. ShearedRow(l, g, i)[x] = IF x < b THEN LeftPad
                                 ELSE IF x >= b + l.relExtent THEN RightPad ELSE ValueOf(l, g, i, x - b)
    BY <1>2, <1>8 DEF ShearedRow
  <2>3. CASE x < b
    BY <1>1, <1>2, <1>4, <1>6, <2>1, <2>2, <2>3 DEF Effect
  <2>4. CASE x >= b
    <3>1. x - b >= l.relExtent - NumBiasVals(l, g, i)
      BY <1>1, <1>2, <1>5, <2>1, <2>4, ValueTypes
    <3>2. ShearedRow(l, g, i)[x] = R - 1 - k /\ R - 1 - k \in Nat /\ R - 1 - k < l.relExtent
      BY <1>1, <1>2, <1>3, <2>1, <2>2, <2>4, <3>1 DEF ValueOf
    <3> QED BY <1>6, <3>2 DEF Effect, LeftPad, RightPad
  <2> QED BY <1>2, <2>3, <2>4
<1> QED BY <1>7, <1>8

\* The tile shift of either kernel, in columns: it takes a score tile to the columns
\* that the writer gave its keys.  The sm_90 kernel counts in its own tiles, which
\* are the writer's only when they are as wide.
LEMMA Shift ==
  ASSUME NEW l, IsLaunch(l), NEW g \in Requests, NEW m \in Nat
  PROVE  /\ NumTiles(l) \in Nat /\ l.tileN * NumTiles(l) = Padded(l)
         /\ TileShiftGeneric(l, g, m) \in Int
         /\ (Block * NBlockMax(l, g, m, Block)) \div l.tileN = NumTiles(l) - TileShiftGeneric(l, g, m)
         /\ l.tileN * TileShiftGeneric(l, g, m) = Padded(l) - Block * NBlockMax(l, g, m, Block)
         /\ TileShiftSm90(l, g, m, 0) \in Int
         /\ l.tileN = Block => \A s : TileShiftSm90(l, g, m, s) = TileShiftGeneric(l, g, m)
<1> DEFINE nb == NBlockMax(l, g, m, Block)
           t == l.tileN
<1>0. t \in Nat \ {0} /\ Block \in Nat \ {0} /\ nb \in Int /\ NBlockMax(l, g, m, t) \in Int
  BY LaunchTypes, BlocksReach
<1>1. PICK u \in Int : Block = t * u
  <2>1. Block % t = 0 /\ Block \in Int
    BY <1>0 DEF IsLaunch
  <2> HIDE DEF t
  <2> QED BY <1>0, <2>1, Multiple
<1>2. PICK e \in Int : l.relExtent = Block * e
  <2>1. l.relExtent % Block = 0 /\ l.relExtent \in Int
    BY LaunchTypes DEF IsLaunch
  <2> QED BY <1>0, <2>1, Multiple
<1> HIDE DEF t, nb
<1>3. PICK p \in Int, q \in Int : p = u * e + 2 * u /\ q = u * nb
  BY <1>0, <1>1, <1>2
<1>4. t * p = l.relExtent + 2 * Block
  <2>1. t * (u * e + 2 * u) = (t * u) * e + 2 * (t * u)
    BY <1>0, <1>1, <1>2
  <2> QED BY <2>1, <1>1, <1>2, <1>3
<1>5. t * q = Block * nb
  <2>1. t * (u * nb) = (t * u) * nb
    BY <1>0, <1>1
  <2> QED BY <2>1, <1>1, <1>3
<1>6. Padded(l) = t * p /\ Padded(l) \in Nat
  BY <1>4, LaunchTypes
<1>7. Padded(l) \div t = p
  BY <1>0, <1>3, <1>6, QuotientIs
<1>8. (Block * nb) \div t = q
  <2>1. PICK a \in Int : a = Block * nb
    BY <1>0
  <2>2. t * q <= a /\ a < t * q + t
    BY <1>0, <1>5, <2>1
  <2> QED BY <1>0, <1>3, <2>1, <2>2, QuotientIs
<1>9. p \in Nat
  <2>1. SUFFICES ASSUME p < 0 PROVE FALSE
    BY <1>3
  <2>2. t * p + t <= t * 0 /\ t * 0 = 0
    BY <1>0, <1>3, <2>1, Monotone
  <2> QED BY <1>0, <1>6, <2>2
<1>10. NumTiles(l) = p /\ TileShiftGeneric(l, g, m) = p - q
  BY <1>7, <1>8 DEF NumTiles, TileShiftGeneric, t, nb
<1>11. t * (p - q) = t * p - t * q
  BY <1>0, <1>3
<1>12. TileShiftSm90(l, g, m, 0) \in Int
  BY <1>0, <1>3, <1>10 DEF TileShiftSm90, t
<1>13. ASSUME t = Block, NEW s PROVE TileShiftSm90(l, g, m, s) = p - q
  <2>1. (Block * nb) \div Block = nb
    BY <1>0
  <2> QED BY <1>8, <1>10, <1>13, <2>1 DEF TileShiftSm90, t, nb
<1> QED BY <1>3, <1>5, <1>6, <1>8, <1>9, <1>10, <1>11, <1>12, <1>13 DEF t, nb

\* Element (r, j) of score tile n is at column x of the row: in the row if the
\* tile gets a bias tile, else left of it.
LEMMA ColumnOfKey ==
  ASSUME NEW l, IsLaunch(l), NEW g \in Requests, NEW m \in Nat, NEW r \in 0 .. Block - 1,
         m * Block + r < g.sq,
         NEW n \in Int, NEW j \in 0 .. l.tileN - 1, n * l.tileN + j \in Nat,
         Visible(l, g, m * Block + r, n * l.tileN + j),
         NEW d \in Int, d = TileShiftGeneric(l, g, m)
  PROVE  LET i == m * Block + r
             k == n * l.tileN + j
             x == (n + d) * l.tileN + j
         IN  /\ i \in 0 .. g.sq - 1
             /\ x \in Int /\ x - Base(l, g, i) = k + l.relExtent - NIdxRight(l, g, i)
             /\ n + d < NumTiles(l)
             /\ n + d >= 0 => x \in Columns(l)
             /\ n + d < 0 => x < 0
<1> DEFINE t == l.tileN
           nb == NBlockMax(l, g, m, Block)
           i == m * Block + r
           k == n * t + j
           x == (n + d) * t + j
<1>0. t \in Nat \ {0} /\ Block \in Nat \ {0} /\ nb \in Int /\ r \in 0 .. Block - 1 /\ j \in 0 .. t - 1
  BY LaunchTypes, BlocksReach
<1>1. PICK mb \in Nat : mb = m * Block /\ (m + 1) * Block = mb + Block
  <2>1. m * Block \in Nat /\ (m + 1) * Block = m * Block + Block
    BY <1>0
  <2> QED BY <2>1
<1>2. i = mb + r /\ i \in 0 .. g.sq - 1 /\ mb <= i /\ i < mb + Block /\ i \in Nat
  BY <1>0, <1>1, RequestTypes
<1>3. Base(l, g, i) = i + 1 + Ctx(g) + l.windowRight + 2 * Block - Block * nb
  <2> HIDE DEF i, nb
  <2>1. m * Block <= i /\ i < m * Block + Block
    BY <1>1, <1>2
  <2> QED BY <1>2, <2>1, BaseIs DEF nb
<1>4. NIdxRight(l, g, i) = i + 1 + Ctx(g) + l.windowRight
  BY <1>2, ValueTypes
<1>5. k < g.sk /\ k < NIdxRight(l, g, i)
  BY DEF Visible
<1>6. /\ g.sk <= Block * nb \/ mb + Block + Ctx(g) + l.windowRight <= Block * nb
      /\ NumTiles(l) \in Nat /\ t * NumTiles(l) = l.relExtent + 2 * Block
      /\ t * d = l.relExtent + 2 * Block - Block * nb
  BY <1>0, <1>1, BlocksReach, Shift, LaunchTypes
<1> HIDE DEF t, nb, i
<1>7. k = t * n + j /\ x = t * n + t * d + j
  BY <1>0
<1>8. PICK c \in Int, tn \in Int, td \in Int, s \in Int : c = Block * nb /\ tn = t * n /\ td = t * d /\ s = n + d
  BY <1>0
<1>9. t * s = tn + td
  BY <1>0, <1>8
<1>10. Ctx(g) \in Nat /\ l.windowRight \in Nat /\ l.relExtent \in Nat /\ g.sk \in Nat
  BY RequestTypes, LaunchTypes
<1> HIDE DEF k, x
<1>11. x \in Int /\ k \in Int /\ x - Base(l, g, i) = k + l.relExtent - NIdxRight(l, g, i)
  BY <1>0, <1>2, <1>3, <1>4, <1>6, <1>7, <1>8, <1>10
<1>12. k < c
  BY <1>0, <1>1, <1>2, <1>4, <1>5, <1>6, <1>8, <1>10, <1>11
<1>13. t * s < t * NumTiles(l)
  BY <1>0, <1>6, <1>7, <1>8, <1>9, <1>10, <1>12
<1>14. s < NumTiles(l)
  <2>1. SUFFICES ASSUME NumTiles(l) <= s PROVE FALSE
    BY <1>6, <1>8
  <2>2. t * NumTiles(l) <= t * s
    BY <1>0, <1>6, <1>8, <2>1, Monotone
  <2> QED BY <1>0, <1>6, <1>8, <1>10, <1>13, <2>2
<1>15. ASSUME s >= 0 PROVE x \in Columns(l)
  <2>1. t * s >= 0 /\ t * s + t <= t * NumTiles(l)
    <3>1. t * 0 <= t * s /\ t * 0 = 0
      BY <1>0, <1>8, <1>15, Monotone
    <3>2. t * s + t <= t * NumTiles(l)
      BY <1>0, <1>6, <1>8, <1>14, Monotone
    <3> QED BY <3>1, <3>2
  <2>2. x = t * s + j
    BY <1>0, <1>7, <1>8, <1>9
  <2>3. 0 <= x /\ x < l.relExtent + 2 * Block
    BY <1>0, <1>6, <1>8, <1>9, <1>10, <2>1, <2>2
  <2> QED BY <1>11, <2>3, LaunchTypes
<1>16. ASSUME s < 0 PROVE x < 0
  <2>1. t * s + t <= t * 0 /\ t * 0 = 0
    BY <1>0, <1>8, <1>16, Monotone
  <2> QED BY <1>0, <1>7, <1>8, <1>9, <2>1
<1> QED BY <1>2, <1>8, <1>11, <1>14, <1>15, <1>16 DEF t, i, k, x

\* The kernel that shears by itself computes the key's distance.
LEMMA InKernelIsBias ==
  ASSUME NEW l, IsLaunch(l), NEW g \in Requests, NEW m \in Nat, NEW r \in 0 .. Block - 1,
         NEW n \in Int, NEW j \in 0 .. l.tileN - 1
  PROVE  /\ InKernel(l, g, m, n, r, j) \in Nat \cup {LeftPad, RightPad}
         /\ m * Block + r < g.sq /\ Visible(l, g, m * Block + r, n * l.tileN + j)
              => Effect(l, InKernel(l, g, m, n, r, j)) = Reference(l, g, m * Block + r, n * l.tileN + j)
<1> DEFINE t == l.tileN
           i == m * Block + r
           k == n * t + j
           sh == ShearK(l, g, m, n)
           low == sh - (t - 1)
           high == sh + (Block - 1)
           d == r - j + sh
           allRight == high < 0
           allLeft == ~allRight /\ low >= DMax(l)
           whole == low >= 0 /\ high < DMax(l) /\ Block <= g.sq - m * Block
           v == InKernel(l, g, m, n, r, j)
<1>0. /\ t \in Nat \ {0} /\ Block \in Nat \ {0} /\ r \in 0 .. Block - 1 /\ j \in 0 .. t - 1
      /\ l.relExtent \in Nat \ {0} /\ l.windowLeft \in Nat /\ l.windowRight \in Nat /\ l.local \in BOOLEAN
      /\ l.local => l.windowLeft + l.windowRight + 1 = l.relExtent
      /\ ~l.local => l.windowRight = 0
      /\ Ctx(g) \in Nat /\ g.sq \in Nat
  BY LaunchTypes, RequestTypes
<1>1. DMax(l) = l.relExtent
  BY <1>0 DEF DMax, Least
<1>2. PICK mb \in Int, nt \in Int : mb = m * Block /\ nt = n * t
  BY <1>0
<1>3. sh = mb + Ctx(g) + l.windowRight - nt /\ i = mb + r /\ k = nt + j
  BY <1>2 DEF ShearK
<1>4. v = CASE allRight -> RightPad
            [] allLeft -> LeftPad
            [] ~allRight /\ ~allLeft /\ whole -> d
            [] OTHER -> IF d < 0 THEN RightPad
                        ELSE IF d < DMax(l) /\ r < g.sq - m * Block THEN d ELSE LeftPad
  BY DEF InKernel
<1> HIDE DEF t, i, k, sh, v
<1>5. sh \in Int /\ i \in Int /\ k \in Int
  BY <1>0, <1>2, <1>3
<1>6. v \in Nat \cup {LeftPad, RightPad}
  BY <1>0, <1>1, <1>2, <1>4, <1>5
<1>7. ASSUME i < g.sq, Visible(l, g, i, k)
      PROVE  Effect(l, v) = Reference(l, g, i, k)
  <2>1. NIdxRight(l, g, i) = i + 1 + Ctx(g) + l.windowRight
    BY DEF NIdxRight
  <2>2. d = NIdxRight(l, g, i) - 1 - k
    BY <1>0, <1>2, <1>3, <2>1
  <2>3. d \in Nat
    BY <1>0, <1>5, <1>7, <2>1, <2>2 DEF Visible
  <2>4. l.local => d < l.relExtent
    BY <1>0, <1>5, <1>7, <2>1, <2>2 DEF Visible, NIdxLeft, Most
  <2>5. Reference(l, g, i, k) = IF d < l.relExtent THEN d ELSE Zero
    BY <2>2 DEF Reference
  <2>6. v = IF d < l.relExtent THEN d ELSE LeftPad
    BY <1>0, <1>1, <1>2, <1>3, <1>4, <1>5, <1>7, <2>3
  <2> HIDE DEF d
  <2> QED BY <1>0, <2>3, <2>4, <2>5, <2>6 DEF Effect, LeftPad, RightPad
<1> QED BY <1>6, <1>7 DEF t, i, k, v

-----------------------------------------------------------------------------
(* The inductive invariant.                                                *)

\* The fused writer is used without a right window, and the sm_90 kernel with
\* tiles as wide as the writer's blocks.
FusedHasNoRightWindow == \A l \in Launches : l.writer # "shearing" => l.windowRight = 0
Sm90TileIsBlock == \A l \in Launches : l.kernel = "sm90" => l.tileN = Block

\* The one program that writes a cell.
RowProg(b, i) == RowOf(b, i) \div RowsPerProgram
ColProg(g, i, x) ==
  IF x < Base(launch, g, i) THEN x \div PadBlock
  ELSE IF x >= Base(launch, g, i) + launch.relExtent THEN (x - launch.relExtent + Pad) \div PadBlock
  ELSE (x - Base(launch, g, i)) \div ColsPerProgram

CellNow(b, i, x) ==
  IF <<RowProg(b, i), ColProg(batch[b], i, x)>> \in todo THEN Unset ELSE ShearedRow(launch, batch[b], i)[x]
RowNow(b, i) ==
  IF Fuses THEN [x \in Columns(launch) |-> CellNow(b, i, x)]
  ELSE IF launch.kernel = "inkernel" THEN [x \in Columns(launch) |-> Unset] ELSE ShearedRow(launch, batch[b], i)

WriteInv ==
  /\ launch \in Launches /\ batch \in Batches
  /\ todo \subseteq Nat \X Nat
  /\ pc # "write" => todo = {}
  /\ buf = [b \in DOMAIN batch |-> [i \in 0 .. batch[b].sq - 1 |-> RowNow(b, i)]]

\* The blocks that split s visits, Bottom(s) .. Top(s) - 1: without split-KV the
\* first block is visited even if the range is empty.
BlocksOf(s) == SplitRange(launch, Req, tile.m, s)
Top(s) == IF launch.kernel = "generic" THEN Most(BlocksOf(s)[2], 1) ELSE BlocksOf(s)[2]
Bottom(s) == IF launch.kernel = "generic" THEN 0
             ELSE IF IsSplitKV THEN BlocksOf(s)[1] ELSE Least(BlocksOf(s)[1], BlocksOf(s)[2] - 1)

InSplit == pc \in {"first", "causal", "inner", "left"}
Seen(n) == \/ \E s \in 0 .. split - 1 : Bottom(s) <= n /\ n < Top(s)
           \/ InSplit /\ hi <= n /\ n < Top(split)

ScoreNow(r, k) ==
  LET n == k \div launch.tileN
  IN  IF Seen(n) THEN Element(r, n, k - n * launch.tileN) ELSE Unset

ReadInv ==
  /\ pc \in {"write", "split", "done"} \/ InSplit
  /\ pc # "write" =>
       /\ tile \in Tiles
       /\ split \in 0 .. launch.numSplits
       /\ pc = "done" => split = launch.numSplits
       /\ InSplit => /\ split < launch.numSplits
                     /\ lo = BlocksOf(split)[1] /\ hi \in Int
                     /\ Bottom(split) <= hi /\ hi <= Top(split)
                     /\ pc = "first" => hi = Top(split) /\ Bottom(split) < hi
                     /\ pc # "first" => hi < Top(split)
                     /\ pc = "left" => launch.kernel # "generic"
       /\ score = [r \in 0 .. Block - 1 |-> [k \in 0 .. Req.sk - 1 |-> ScoreNow(r, k)]]

-----------------------------------------------------------------------------
(* The writer.                                                             *)

LEMMA SmallestExists ==
  ASSUME NEW T \in SUBSET Nat, T # {}
  PROVE  \E x \in T : \A y \in T : x <= y
<1> DEFINE UpTo(x) == {y \in T : y <= x}
           F == {UpTo(x) : x \in T}
<1>1. F \subseteq FiniteSubsetsOf(T)
  <2> SUFFICES ASSUME NEW x \in T PROVE UpTo(x) \in FiniteSubsetsOf(T)
    OBVIOUS
  <2>1. UpTo(x) \in SUBSET Nat /\ \A y \in UpTo(x) : y <= x
    OBVIOUS
  <2>2. IsFiniteSet(UpTo(x))
    <3> HIDE DEF UpTo
    <3> QED BY <2>1, FS_BoundedSetOfNaturals
  <2> QED BY <2>2 DEF FiniteSubsetsOf
<1>2. F # {}
  OBVIOUS
<1>3. \E U \in F : \A V \in F : <<V, U>> \notin StrictSubsetOrdering(T)
  <2> HIDE DEF F
  <2> QED BY <1>1, <1>2, FS_StrictSubsetOrderingWellFounded, WFMin
<1>4. PICK x \in T : \A y \in T : <<UpTo(y), UpTo(x)>> \notin StrictSubsetOrdering(T)
  BY <1>3
<1>5. ASSUME NEW y \in T, y < x PROVE FALSE
  <2>1. x \in Nat /\ y \in Nat /\ y < x
    BY <1>5
  <2>2. ASSUME NEW z \in UpTo(y) PROVE z \in UpTo(x)
    <3>1. z \in T /\ z \in Nat /\ z <= y
      BY <2>2
    <3> QED BY <2>1, <3>1
  <2>3. x \in UpTo(x) /\ x \notin UpTo(y)
    BY <2>1
  <2>4. UpTo(y) \in SUBSET T /\ UpTo(x) \in SUBSET T
    OBVIOUS
  <2> HIDE DEF UpTo
  <2>5. <<UpTo(y), UpTo(x)>> \in StrictSubsetOrdering(T)
    BY <2>2, <2>3, <2>4 DEF StrictSubsetOrdering
  <2> QED BY <1>4, <2>5
<1> QED BY <1>5

\* Twice a power of two is one.
LEMMA DoublePower ==
  ASSUME NEW p \in Nat \ {0}, IsPowerOf2(p)
  PROVE  IsPowerOf2(2 * p)
<1> SUFFICES ASSUME NEW d \in 2 .. 2 * (2 * p), d \in 2 .. 2 * p, (2 * p) % d = 0, d % 2 # 0 PROVE FALSE
  BY DEF IsPowerOf2
<1>1. PICK q \in Int : 2 * p = d * q
  BY Multiple
<1>2. PICK e \in Int : d = 2 * e + 1
  OBVIOUS
<1>3. PICK h \in Int : h = p - e * q
  BY <1>1, <1>2
<1>4. q = 2 * h
  <2>1. (2 * e + 1) * q = 2 * (e * q) + q
    BY <1>1, <1>2
  <2> QED BY <1>1, <1>2, <1>3, <2>1
<1>5. p = d * h
  <2>1. d * (2 * h) = 2 * (d * h)
    BY <1>3
  <2> QED BY <1>1, <1>3, <1>4, <2>1
<1>6. p % d = 0
  BY <1>3, <1>5
<1>7. h >= 1
  <2>1. SUFFICES ASSUME h <= 0 PROVE FALSE
    BY <1>3
  <2>2. d * h <= d * 0 /\ d * 0 = 0
    BY <1>3, <2>1, Monotone
  <2> QED BY <1>5, <2>2
<1>8. d <= p
  <2>1. d * 1 <= d * h /\ d * 1 = d
    BY <1>3, <1>7, Monotone
  <2> QED BY <1>5, <2>1
<1> QED BY <1>6, <1>8 DEF IsPowerOf2

\* next_power_of_2 rounds up.
LEMMA PowerExists ==
  ASSUME NEW x \in Nat \ {0}
  PROVE  \E y \in x .. 2 * x : IsPowerOf2(y)
<1> DEFINE Has(z) == \E y \in z .. 2 * z : y < 2 * z /\ IsPowerOf2(y)
           Bad == {z \in Nat \ {0} : ~Has(z)}
<1>1. SUFFICES ASSUME Bad # {} PROVE FALSE
  <2>1. ASSUME Has(x) PROVE \E y \in x .. 2 * x : IsPowerOf2(y)
    BY <2>1
  <2>2. ASSUME ~Has(x) PROVE x \in Bad
    BY <2>2
  <2> HIDE DEF Has, Bad
  <2> QED BY <2>1, <2>2
<1>2. PICK z \in Bad : \A y \in Bad : z <= y
  <2>1. Bad \in SUBSET Nat
    OBVIOUS
  <2> QED BY <1>1, <2>1, SmallestExists
<1>3. z # 1
  <2>1. IsPowerOf2(1)
    BY DEF IsPowerOf2
  <2>2. Has(1)
    BY <2>1
  <2> QED BY <1>2, <2>2
<1>4. PICK h \in Nat \ {0} : h < z /\ (z = 2 * h \/ z = 2 * h - 1)
  <2>1. (z + 1) \div 2 \in Nat \ {0} /\ (z + 1) \div 2 < z
    BY <1>3
  <2>2. z = 2 * ((z + 1) \div 2) \/ z = 2 * ((z + 1) \div 2) - 1
    OBVIOUS
  <2> QED BY <2>1, <2>2
<1>5. Has(h)
  BY <1>2, <1>4
<1>6. PICK p \in h .. 2 * h : p < 2 * h /\ IsPowerOf2(p)
  BY <1>5
<1>7. p \in Nat \ {0} /\ IsPowerOf2(2 * p)
  <2>1. p \in Nat \ {0}
    BY <1>4, <1>6
  <2> QED BY <1>6, <2>1, DoublePower
<1>8. ~(2 * p \in z .. 2 * z /\ 2 * p < 2 * z)
  BY <1>2, <1>7
<1>9. p = z
  BY <1>4, <1>6, <1>7, <1>8
<1>10. Has(z)
  BY <1>6, <1>7, <1>9
<1> QED BY <1>2, <1>10

LEMMA PowerIsAbove ==
  ASSUME NEW x \in Nat \ {0}
  PROVE  PowerAbove(x) \in Nat /\ x <= PowerAbove(x)
<1> DEFINE P == {y \in x .. 2 * x : IsPowerOf2(y)}
<1>1. PICK y \in P : \A z \in P : y <= z
  <2>1. P \in SUBSET Nat
    OBVIOUS
  <2>2. PICK y \in x .. 2 * x : IsPowerOf2(y)
    BY PowerExists
  <2>3. y \in P
    BY <2>2
  <2> HIDE DEF P
  <2> QED BY <2>1, <2>3, SmallestExists
<1>2. \E u \in x .. 2 * x : IsPowerOf2(u) /\ \A z \in x .. u - 1 : ~IsPowerOf2(z)
  <2>1. \A z \in x .. y - 1 : ~IsPowerOf2(z)
    BY <1>1
  <2> QED BY <1>1, <2>1
<1>3. PowerAbove(x) \in x .. 2 * x
  BY <1>2 DEF PowerAbove
<1> QED BY <1>3

LEMMA StateTypes ==
  ASSUME launch \in Launches, batch \in Batches
  PROVE  /\ IsLaunch(launch)
         /\ batch \in Seq([start : Nat, sq : Nat, sk : Nat])
         /\ \A b \in DOMAIN batch : batch[b] \in Requests
<1>1. IsLaunch(launch) /\ IsBatch(batch)
  BY LaunchesAssumption, BatchesAssumption
<1>2. batch \in Seq([start : Nat, sq : Nat, sk : Nat])
  BY <1>1 DEF IsBatch
<1>3. ASSUME NEW b \in DOMAIN batch PROVE batch[b] \in Requests
  <2>1. batch[b] \in [start : Nat, sq : Nat, sk : Nat] /\ batch[b].sq <= batch[b].sk
    <3>1. DOMAIN batch = 1 .. Len(batch)
      BY <1>2
    <3> QED BY <1>1, <1>2, <3>1, ElementOfSeq DEF IsBatch
  <2> QED BY <2>1 DEF Requests
<1> QED BY <1>1, <1>2, <1>3

\* The requests' rows lie one behind the other, and NumRows counts them all.
LEMMA RowsFit ==
  ASSUME launch \in Launches, batch \in Batches, NEW b \in DOMAIN batch, NEW i \in 0 .. batch[b].sq - 1
  PROVE  NumRows \in Nat /\ RowOf(b, i) \in 0 .. NumRows - 1
<1> DEFINE End(r) == batch[r].start + batch[r].sq
           L == Len(batch)
           Bad == {c \in 0 .. L - 1 : ~(End(L - c) <= End(L))}
<1>1. L \in Nat /\ DOMAIN batch = 1 .. L /\ b \in 1 .. L /\ batch # <<>>
  BY StateTypes
<1>2. \A r \in 1 .. L : batch[r].start \in Nat /\ batch[r].sq \in Nat
  BY <1>1, StateTypes, RequestTypes
<1>3. \A r \in 1 .. L : r # 1 => batch[r].start = End(r - 1)
  BY <1>1, BatchesAssumption DEF IsBatch
<1>7. \A r \in 1 .. L : End(r) \in Nat /\ batch[r].start <= End(r)
  BY <1>2
<1>8. \A r \in 1 .. L : r # 1 => End(r - 1) <= End(r)
  BY <1>2, <1>3
<1>9. End(b) = batch[b].start + batch[b].sq
  OBVIOUS
<1>10. NumRows = End(L)
  BY <1>1 DEF NumRows, RowOf
<1> HIDE DEF End, L
<1>4. Bad = {}
  <2>1. SUFFICES ASSUME Bad # {} PROVE FALSE
    OBVIOUS
  <2>2. Bad \in SUBSET Nat
    BY <1>1
  <2>3. PICK c \in Bad : \A d \in Bad : c <= d
    <3> HIDE DEF Bad
    <3> QED BY <2>1, <2>2, SmallestExists
  <2>4. c # 0
    <3>1. L - 0 = L /\ End(L) <= End(L)
      BY <1>1, <1>7
    <3> QED BY <2>3, <3>1
  <2>5. c - 1 \in 0 .. L - 1 /\ c - 1 \notin Bad
    BY <1>1, <2>3, <2>4
  <2>6. End(L - (c - 1)) <= End(L)
    BY <2>5
  <2>7. L - c \in 1 .. L /\ L - (c - 1) \in 1 .. L /\ (L - (c - 1)) - 1 = L - c /\ L - (c - 1) # 1
    BY <1>1, <2>3, <2>4
  <2>8. End(L - c) <= End(L - (c - 1))
    BY <1>8, <2>7
  <2>9. End(L - c) \in Nat /\ End(L - (c - 1)) \in Nat /\ End(L) \in Nat
    BY <1>1, <1>7, <2>7
  <2>10. End(L - c) <= End(L)
    BY <2>6, <2>8, <2>9
  <2> QED BY <2>3, <2>10
<1>5. End(b) <= End(L)
  <2>1. L - b \in 0 .. L - 1 /\ L - (L - b) = b
    BY <1>1
  <2>2. L - b \notin Bad
    BY <1>4
  <2> QED BY <2>1, <2>2
<1> QED BY <1>1, <1>2, <1>5, <1>7, <1>9, <1>10 DEF RowOf

LEMMA Programs ==
  ASSUME launch \in Launches
  PROVE  /\ RowsPerProgram \in Nat \ {0} /\ ColsPerProgram \in Nat \ {0}
         /\ ColProgs \in Nat \ {0} /\ launch.relExtent <= ColsPerProgram * ColProgs
         /\ PadBlock \in Nat \ {0} /\ 2 * Pad <= PadBlock * ColProgs
<1>0. /\ launch.blockM \in Nat \ {0} /\ launch.blockN \in Nat \ {0} /\ launch.groupM \in Nat \ {0}
      /\ launch.relExtent \in Nat \ {0} /\ Pad = 2 * Block /\ Block \in Nat \ {0}
  BY LaunchesAssumption, LaunchTypes DEF IsLaunch
<1>1. RowsPerProgram \in Nat \ {0}
  <2>1. launch.blockM * launch.groupM \in Nat \ {0}
    BY <1>0
  <2> QED BY <1>0, <2>1 DEF RowsPerProgram
<1>2. ColsPerProgram \in Nat \ {0}
  BY <1>0 DEF ColsPerProgram
<1>3. ColProgs \in Int /\ launch.relExtent <= ColsPerProgram * ColProgs
  BY <1>0, <1>2, Ceiling DEF ColProgs
<1>4. ColProgs \in Nat \ {0}
  <2>1. SUFFICES ASSUME ColProgs <= 0 PROVE FALSE
    BY <1>3
  <2>2. ColsPerProgram * ColProgs <= ColsPerProgram * 0 /\ ColsPerProgram * 0 = 0
    BY <1>2, <1>3, <2>1, Monotone
  <2> QED BY <1>0, <1>2, <1>3, <2>2
<1> DEFINE need == CeilDiv(2 * Pad, ColProgs)
<1>5. need \in Int /\ 2 * Pad <= ColProgs * need
  <2>1. 2 * Pad \in Int
    BY <1>0
  <2> QED BY <1>4, <2>1, Ceiling
<1> HIDE DEF need
<1>6. need \in Nat \ {0}
  <2>1. SUFFICES ASSUME need <= 0 PROVE FALSE
    BY <1>5
  <2>2. ColProgs * need <= ColProgs * 0 /\ ColProgs * 0 = 0
    BY <1>4, <1>5, <2>1, Monotone
  <2> QED BY <1>0, <1>4, <1>5, <2>2
<1>7. PadBlock \in Nat /\ need <= PadBlock
  BY <1>6, PowerIsAbove DEF PadBlock, need
<1>8. ColProgs * need <= ColProgs * PadBlock /\ ColProgs * PadBlock = PadBlock * ColProgs
  BY <1>4, <1>6, <1>7, Monotone
<1>9. ColProgs * need \in Int /\ PadBlock * ColProgs \in Int
  BY <1>4, <1>6, <1>7
<1> QED BY <1>0, <1>1, <1>2, <1>3, <1>4, <1>5, <1>6, <1>7, <1>8, <1>9

\* x is in the slice of program x \div w, which is a program.
LEMMA SliceExists ==
  ASSUME NEW w \in Nat \ {0}, NEW x \in Nat, NEW N \in Nat, x < w * N
  PROVE  x \div w \in 0 .. N - 1
<1> DEFINE q == x \div w
<1>1. q \in Int /\ w * q <= x /\ x < w * q + w
  BY Quotient
<1> HIDE DEF q
<1>2. w * q \in Int /\ w * N \in Int
  BY <1>1
<1>3. q >= 0
  <2>1. SUFFICES ASSUME q < 0 PROVE FALSE
    BY <1>1
  <2>2. w * q + w <= w * 0 /\ w * 0 = 0
    BY <1>1, <2>1, Monotone
  <2> QED BY <1>1, <1>2, <2>2
<1>4. q < N
  <2>1. SUFFICES ASSUME N <= q PROVE FALSE
    BY <1>1
  <2>2. w * N <= w * q
    BY <1>1, <2>1, Monotone
  <2> QED BY <1>1, <1>2, <2>2
<1> QED BY <1>1, <1>3, <1>4 DEF q

LEMMA Slice ==
  ASSUME NEW w \in Nat \ {0}, NEW x \in Nat, NEW c \in Int
  PROVE  x \in c * w .. (c + 1) * w - 1 <=> c = x \div w
<1> DEFINE q == x \div w
<1>1. q \in Int /\ w * q <= x /\ x < w * q + w
  BY Quotient
<1> HIDE DEF q
<1>2. c * w = w * c /\ (c + 1) * w = w * c + w /\ w * c \in Int /\ w * q \in Int
  BY <1>1
<1>3. x \in c * w .. (c + 1) * w - 1 => c = q
  <2>1. ASSUME w * c <= x, x < w * c + w PROVE c = q
    BY <2>1, QuotientIs DEF q
  <2> QED BY <1>2, <2>1
<1>4. c = q => x \in c * w .. (c + 1) * w - 1
  BY <1>1, <1>2
<1> QED BY <1>3, <1>4 DEF q

\* Of what a program stores in a row, at most one value goes to column x: that of the
\* sheared row, from the program that has the column.
LEMMA StoresOfProgram ==
  ASSUME launch \in Launches, launch.windowRight = 0, NEW g \in Requests, NEW i \in 0 .. g.sq - 1,
         NEW c \in Nat, NEW x \in Columns(launch), NEW s
  PROVE  s \in ValueStores(g, i, c) \cup PadStores(g, i, c) /\ s[1] = x
           <=> ColProg(g, i, x) = c /\ s = <<x, ShearedRow(launch, g, i)[x]>>
<1> DEFINE B == Base(launch, g, i)
           re == launch.relExtent
           vs == {y \in c * ColsPerProgram .. (c + 1) * ColsPerProgram - 1 : y < re}
           ps == {p \in c * PadBlock .. (c + 1) * PadBlock - 1 : p < 2 * Pad}
           v(y) == ValueOf(launch, g, i, y)
<1>0. /\ IsLaunch(launch) /\ re \in Nat \ {0} /\ Pad \in Nat \ {0} /\ x \in Nat /\ x < re + Pad
      /\ ColsPerProgram \in Nat \ {0} /\ PadBlock \in Nat \ {0} /\ B \in Int /\ 1 <= B /\ B <= Pad
  BY LaunchesAssumption, LaunchTypes, BaseRange, Programs
<1>1. s \in ValueStores(g, i, c) <=> \E y \in vs : s = <<B + y, v(y)>>
  BY DEF ValueStores
<1>2. s \in PadStores(g, i, c) <=> \/ \E p \in ps : p < Pad /\ p < B /\ s = <<p, LeftPad>>
                                   \/ \E p \in ps : p >= Pad /\ p - Pad >= B /\ s = <<p - Pad + re, RightPad>>
  BY DEF PadStores
<1>3. \A y \in vs : y \in Nat /\ y < re
  <2>1. c * ColsPerProgram \in Nat
    BY <1>0
  <2> QED BY <2>1
<1>4. \A p \in ps : p \in Nat /\ p < 2 * Pad
  <2>1. c * PadBlock \in Nat
    BY <1>0
  <2> QED BY <2>1
<1>5. \A y \in Nat : y < re => (y \in vs <=> c = y \div ColsPerProgram)
  <2>1. \A y \in Nat : y \in c * ColsPerProgram .. (c + 1) * ColsPerProgram - 1 <=> c = y \div ColsPerProgram
    <3>1. PICK w \in Nat \ {0} : w = ColsPerProgram
      BY <1>0
    <3>2. c \in Int
      OBVIOUS
    <3>3. \A y \in Nat : y \in c * w .. (c + 1) * w - 1 <=> c = y \div w
      BY <3>2, Slice, Zenon
    <3> QED BY <3>1, <3>3
  <2> QED BY <2>1
<1>6. \A p \in Nat : p < 2 * Pad => (p \in ps <=> c = p \div PadBlock)
  <2>1. \A p \in Nat : p \in c * PadBlock .. (c + 1) * PadBlock - 1 <=> c = p \div PadBlock
    <3>1. PICK w \in Nat \ {0} : w = PadBlock
      BY <1>0
    <3>2. c \in Int
      OBVIOUS
    <3>3. \A p \in Nat : p \in c * w .. (c + 1) * w - 1 <=> c = p \div w
      BY <3>2, Slice, Zenon
    <3> QED BY <3>1, <3>3
  <2> QED BY <2>1
<1>7. ShearedRow(launch, g, i)[x] = IF x < B THEN LeftPad ELSE IF x >= B + re THEN RightPad ELSE v(x - B)
  BY DEF ShearedRow
<1>8. ColProg(g, i, x) = IF x < B THEN x \div PadBlock
                         ELSE IF x >= B + re THEN (x - re + Pad) \div PadBlock ELSE (x - B) \div ColsPerProgram
  BY DEF ColProg
<1> HIDE DEF B, re, vs, ps, v
<1>9. CASE x < B
  <2>1. s \in ValueStores(g, i, c) => s[1] # x
    BY <1>0, <1>1, <1>3, <1>9
  <2>2. s \in PadStores(g, i, c) /\ s[1] = x <=> x \in ps /\ s = <<x, LeftPad>>
    BY <1>0, <1>2, <1>4, <1>9
  <2>3. x \in ps <=> c = x \div PadBlock
    BY <1>0, <1>6, <1>9
  <2> QED BY <1>7, <1>8, <1>9, <2>1, <2>2, <2>3
<1>10. CASE x >= B /\ x < B + re
  <2>1. s \in PadStores(g, i, c) => s[1] # x
    BY <1>0, <1>2, <1>4, <1>10
  <2>2. PICK y \in Nat : y = x - B /\ y < re
    BY <1>0, <1>10
  <2>3. s \in ValueStores(g, i, c) /\ s[1] = x <=> y \in vs /\ s = <<x, v(y)>>
    BY <1>0, <1>1, <1>3, <2>2
  <2>4. y \in vs <=> c = y \div ColsPerProgram
    BY <1>5, <2>2
  <2>5. ShearedRow(launch, g, i)[x] = v(y) /\ ColProg(g, i, x) = y \div ColsPerProgram
    BY <1>0, <1>7, <1>8, <1>10, <2>2
  <2> QED BY <2>1, <2>3, <2>4, <2>5
<1>11. CASE x >= B + re
  <2>1. s \in ValueStores(g, i, c) => s[1] # x
    BY <1>0, <1>1, <1>3, <1>11
  <2>2. PICK p \in Nat : p = x - re + Pad /\ p < 2 * Pad /\ p >= Pad /\ p - Pad >= B
    BY <1>0, <1>11
  <2>3. s \in PadStores(g, i, c) /\ s[1] = x <=> p \in ps /\ s = <<x, RightPad>>
    BY <1>0, <1>2, <1>4, <1>11, <2>2
  <2>4. p \in ps <=> c = p \div PadBlock
    BY <1>6, <2>2
  <2>5. ShearedRow(launch, g, i)[x] = RightPad /\ ColProg(g, i, x) = p \div PadBlock
    BY <1>0, <1>7, <1>8, <1>11, <2>2
  <2> QED BY <2>1, <2>3, <2>4, <2>5
<1> QED BY <1>0, <1>9, <1>10, <1>11

LEMMA StoreCell ==
  ASSUME launch \in Launches, launch.windowRight = 0, NEW g \in Requests, NEW i \in 0 .. g.sq - 1,
         NEW c \in Nat, NEW x \in Columns(launch), NEW row
  PROVE  Store(row, ValueStores(g, i, c) \cup PadStores(g, i, c))[x]
           = IF ColProg(g, i, x) # c THEN row[x]
             ELSE IF row[x] = Unset THEN ShearedRow(launch, g, i)[x] ELSE Clash
<1> DEFINE stores == ValueStores(g, i, c) \cup PadStores(g, i, c)
           here == {s \in stores : s[1] = x}
           v == ShearedRow(launch, g, i)[x]
<1>1. \A s : s \in here <=> ColProg(g, i, x) = c /\ s = <<x, v>>
  BY StoresOfProgram
<1>2. Store(row, stores)[x] = CASE here = {} -> row[x]
                                [] Cardinality(here) = 1 /\ row[x] = Unset -> (CHOOSE s \in here : TRUE)[2]
                                [] OTHER -> Clash
  <2> HIDE DEF stores
  <2> QED BY DEF Store
<1> HIDE DEF here, v, stores
<1>3. CASE ColProg(g, i, x) # c
  <2>1. here = {}
    BY <1>1, <1>3
  <2>2. Store(row, stores)[x] = row[x]
    BY <1>2, <2>1, FS_EmptySet
  <2> QED BY <1>3, <2>2 DEF stores
<1>4. CASE ColProg(g, i, x) = c
  <2>1. here = {<<x, v>>} /\ here # {}
    BY <1>1, <1>4
  <2>2. Cardinality(here) = 1
    BY <2>1, FS_Singleton
  <2>3. (CHOOSE s \in here : TRUE) = <<x, v>>
    BY <2>1
  <2>4. <<x, v>>[2] = v
    OBVIOUS
  <2> QED BY <1>2, <1>4, <2>1, <2>2, <2>3, <2>4 DEF stores, v
<1> QED BY <1>3, <1>4

\* Every cell is written by one program of the launch.
LEMMA CellHasProgram ==
  ASSUME launch \in Launches, batch \in Batches, launch.windowRight = 0,
         NEW b \in DOMAIN batch, NEW i \in 0 .. batch[b].sq - 1, NEW x \in Columns(launch)
  PROVE  RowProg(b, i) \in 0 .. RowProgs - 1 /\ ColProg(batch[b], i, x) \in 0 .. ColProgs - 1
<1>0. batch[b] \in Requests /\ IsLaunch(launch)
  BY StateTypes
<1> DEFINE B == Base(launch, batch[b], i)
           re == launch.relExtent
<1>1. /\ re \in Nat \ {0} /\ Pad \in Nat \ {0} /\ x \in Nat /\ x < re + Pad
      /\ B \in Int /\ 1 <= B /\ B <= Pad
  BY <1>0, LaunchTypes, BaseRange
<1>2. /\ RowsPerProgram \in Nat \ {0} /\ ColsPerProgram \in Nat \ {0} /\ ColProgs \in Nat \ {0} /\ PadBlock \in Nat \ {0}
      /\ re <= ColsPerProgram * ColProgs /\ 2 * Pad <= PadBlock * ColProgs
      /\ ColsPerProgram * ColProgs \in Nat /\ PadBlock * ColProgs \in Nat
  BY Programs
<1>3. RowProg(b, i) \in 0 .. RowProgs - 1
  <2>1. NumRows \in Nat /\ RowOf(b, i) \in 0 .. NumRows - 1
    BY RowsFit
  <2>2. RowProgs \in Int /\ NumRows <= RowsPerProgram * RowProgs
    <3>1. PICK a \in Int, w \in Nat \ {0} : a = NumRows /\ w = RowsPerProgram
      BY <1>2, <2>1
    <3>2. CeilDiv(a, w) \in Int /\ a <= w * CeilDiv(a, w)
      BY Ceiling
    <3> QED BY <3>1, <3>2 DEF RowProgs
  <2>3. RowProgs \in Nat
    <3>1. SUFFICES ASSUME RowProgs < 0 PROVE FALSE
      BY <2>2
    <3>2. RowsPerProgram * RowProgs + RowsPerProgram <= RowsPerProgram * 0 /\ RowsPerProgram * 0 = 0
      BY <1>2, <2>2, <3>1, Monotone
    <3>3. RowsPerProgram * RowProgs \in Int
      BY <1>2, <2>2
    <3> QED BY <1>2, <2>1, <2>2, <3>2, <3>3
  <2>4. RowsPerProgram * RowProgs \in Int
    BY <1>2, <2>2
  <2>5. RowOf(b, i) \in Nat /\ RowOf(b, i) < RowsPerProgram * RowProgs
    BY <2>1, <2>2, <2>4
  <2>6. PICK w \in Nat \ {0}, N \in Nat, a \in Nat : w = RowsPerProgram /\ N = RowProgs /\ a = RowOf(b, i)
    BY <1>2, <2>3, <2>5
  <2>7. a \div w \in 0 .. N - 1
    BY <2>5, <2>6, SliceExists
  <2> QED BY <2>6, <2>7 DEF RowProg
<1>4. ColProg(batch[b], i, x) = IF x < B THEN x \div PadBlock
                                ELSE IF x >= B + re THEN (x - re + Pad) \div PadBlock ELSE (x - B) \div ColsPerProgram
  BY DEF ColProg
<1> HIDE DEF B, re
<1>5. \A y \in Nat : y < re => y \div ColsPerProgram \in 0 .. ColProgs - 1
  <2> SUFFICES ASSUME NEW y \in Nat, y < re PROVE y \div ColsPerProgram \in 0 .. ColProgs - 1
    OBVIOUS
  <2>1. y < ColsPerProgram * ColProgs
    BY <1>1, <1>2
  <2>2. PICK w \in Nat \ {0}, N \in Nat : w = ColsPerProgram /\ N = ColProgs
    BY <1>2
  <2>3. y \div w \in 0 .. N - 1
    BY <2>1, <2>2, SliceExists
  <2> QED BY <2>2, <2>3
<1>6. \A p \in Nat : p < 2 * Pad => p \div PadBlock \in 0 .. ColProgs - 1
  <2> SUFFICES ASSUME NEW p \in Nat, p < 2 * Pad PROVE p \div PadBlock \in 0 .. ColProgs - 1
    OBVIOUS
  <2>1. p < PadBlock * ColProgs
    BY <1>1, <1>2
  <2>2. PICK w \in Nat \ {0}, N \in Nat : w = PadBlock /\ N = ColProgs
    BY <1>2
  <2>3. p \div w \in 0 .. N - 1
    BY <2>1, <2>2, SliceExists
  <2> QED BY <2>2, <2>3
<1>7. CASE x < B
  BY <1>1, <1>3, <1>4, <1>6, <1>7
<1>8. CASE x >= B /\ x < B + re
  <2>1. x - B \in Nat /\ x - B < re
    BY <1>1, <1>8
  <2> QED BY <1>1, <1>3, <1>4, <1>5, <1>8, <2>1
<1>9. CASE x >= B + re
  <2>1. x - re + Pad \in Nat /\ x - re + Pad < 2 * Pad
    BY <1>1, <1>9
  <2> QED BY <1>1, <1>3, <1>4, <1>6, <1>9, <2>1
<1> QED BY <1>1, <1>7, <1>8, <1>9

LEMMA InitWrites == ASSUME FusedHasNoRightWindow, Init PROVE WriteInv
<1>1. launch \in Launches /\ batch \in Batches /\ pc = "write"
  BY DEF Init
<1>2. todo \subseteq Nat \X Nat
  <2>1. 0 .. RowProgs - 1 \subseteq Nat /\ 0 .. ColProgs - 1 \subseteq Nat
    OBVIOUS
  <2>2. todo = IF Fuses THEN (0 .. RowProgs - 1) \X (0 .. ColProgs - 1) ELSE {}
    BY DEF Init
  <2> QED BY <2>1, <2>2
<1>3. ASSUME NEW b \in DOMAIN batch, NEW i \in 0 .. batch[b].sq - 1
      PROVE  RowNow(b, i) = IF Fuses \/ launch.kernel = "inkernel" THEN [x \in Columns(launch) |-> Unset]
                            ELSE ShearedRow(launch, batch[b], i)
  <2>1. ASSUME Fuses PROVE \A x \in Columns(launch) : CellNow(b, i, x) = Unset
    <3> SUFFICES ASSUME NEW x \in Columns(launch)
                 PROVE  <<RowProg(b, i), ColProg(batch[b], i, x)>> \in todo
      BY DEF CellNow
    <3>1. launch.windowRight = 0
      BY <1>1, <2>1 DEF FusedHasNoRightWindow, Fuses
    <3>2. todo = (0 .. RowProgs - 1) \X (0 .. ColProgs - 1)
      BY <2>1 DEF Init
    <3> QED BY <1>1, <3>1, <3>2, CellHasProgram
  <2> QED BY <2>1 DEF RowNow
<1>4. buf = [b \in DOMAIN batch |-> [i \in 0 .. batch[b].sq - 1 |-> RowNow(b, i)]]
  BY <1>3, Zenon DEF Init
<1> QED BY <1>1, <1>2, <1>4 DEF WriteInv

LEMMA WriteFrame ==
  ASSUME WriteInv, UNCHANGED <<launch, batch, todo, buf>>, pc' # "write" => todo = {}
  PROVE  WriteInv'
<1>0. launch' = launch /\ batch' = batch /\ todo' = todo /\ buf' = buf
  OBVIOUS
<1>1. ASSUME NEW b, NEW i PROVE RowNow(b, i)' = RowNow(b, i)
  <2>1. RowProg(b, i)' = RowProg(b, i)
    BY <1>0 DEF RowProg, RowOf, RowsPerProgram
  <2>2. \A x : CellNow(b, i, x)' = CellNow(b, i, x)
    BY <1>0, <2>1, Zenon DEF CellNow, ColProg, PadBlock, ColsPerProgram, ColProgs
  <2> QED BY <1>0, <2>2 DEF RowNow, Fuses
<1>2. buf = [b \in DOMAIN batch |-> [i \in 0 .. batch[b].sq - 1 |-> RowNow(b, i)]]
  BY DEF WriteInv
<1>3. buf' = [b \in DOMAIN batch' |-> [i \in 0 .. batch'[b].sq - 1 |-> RowNow(b, i)']]
  BY <1>0, <1>1, <1>2, Zenon
<1> QED BY <1>0, <1>3 DEF WriteInv

\* One program fills the cells that are its own.
LEMMA ProgramStep ==
  ASSUME FusedHasNoRightWindow, WriteInv, Fuses, NEW p \in todo, NEW mine, RunProgram(p, mine),
         \A b \in DOMAIN batch : \A i \in 0 .. batch[b].sq - 1 : RowOf(b, i) \in mine <=> RowProg(b, i) = p[1]
  PROVE  WriteInv'
<1>1. /\ launch \in Launches /\ batch \in Batches /\ p \in Nat \X Nat /\ launch' = launch /\ batch' = batch
      /\ todo' = todo \ {p} /\ pc' = "write" /\ launch.windowRight = 0
  BY DEF WriteInv, RunProgram, FusedHasNoRightWindow, Fuses
<1>2. p[2] \in Nat /\ p = <<p[1], p[2]>>
  BY <1>1
<1>3. ASSUME NEW b \in DOMAIN batch, NEW i \in 0 .. batch[b].sq - 1
      PROVE  (IF RowOf(b, i) \in mine
              THEN Store(buf[b][i], ValueStores(batch[b], i, p[2]) \cup PadStores(batch[b], i, p[2]))
              ELSE buf[b][i]) = RowNow(b, i)'
  <2>1. buf[b][i] = [x \in Columns(launch) |-> CellNow(b, i, x)]
    BY DEF WriteInv, RowNow
  <2>2. RowNow(b, i)' = [x \in Columns(launch) |-> CellNow(b, i, x)']
    BY <1>1 DEF RowNow, Fuses
  <2>3. RowProg(b, i)' = RowProg(b, i)
    BY <1>1 DEF RowProg, RowOf, RowsPerProgram
  <2>4. \A x : CellNow(b, i, x)' = IF <<RowProg(b, i), ColProg(batch[b], i, x)>> \in todo \ {p}
                                   THEN Unset ELSE ShearedRow(launch, batch[b], i)[x]
    BY <1>1, <2>3, Zenon DEF CellNow, ColProg, PadBlock, ColsPerProgram, ColProgs
  <2>5. \A x : <<RowProg(b, i), ColProg(batch[b], i, x)>> = p <=> RowProg(b, i) = p[1] /\ ColProg(batch[b], i, x) = p[2]
    BY <1>2
  <2>6. CASE RowOf(b, i) \notin mine
    <3>1. \A x : CellNow(b, i, x)' = CellNow(b, i, x)
      BY <2>4, <2>5, <2>6 DEF CellNow
    <3> QED BY <2>1, <2>2, <2>6, <3>1
  <2>7. CASE RowOf(b, i) \in mine
    <3> DEFINE row == buf[b][i]
               new == Store(row, ValueStores(batch[b], i, p[2]) \cup PadStores(batch[b], i, p[2]))
    <3>1. batch[b] \in Requests
      BY <1>1, StateTypes
    <3>2. ASSUME NEW x \in Columns(launch) PROVE new[x] = CellNow(b, i, x)'
      <4>1. new[x] = IF ColProg(batch[b], i, x) # p[2] THEN row[x]
                     ELSE IF row[x] = Unset THEN ShearedRow(launch, batch[b], i)[x] ELSE Clash
        <5> HIDE DEF row
        <5> QED BY <1>1, <1>2, <3>1, StoreCell
      <4>2. row[x] = CellNow(b, i, x)
        BY <2>1
      <4>3. CASE ColProg(batch[b], i, x) # p[2]
        BY <2>4, <2>5, <4>1, <4>2, <4>3 DEF CellNow
      <4>4. CASE ColProg(batch[b], i, x) = p[2]
        <5>1. <<RowProg(b, i), ColProg(batch[b], i, x)>> = p
          BY <2>5, <2>7, <4>4
        <5>2. row[x] = Unset
          BY <4>2, <5>1 DEF CellNow
        <5>3. CellNow(b, i, x)' = ShearedRow(launch, batch[b], i)[x]
          BY <2>4, <5>1
        <5> QED BY <4>1, <4>4, <5>2, <5>3
      <4> QED BY <4>3, <4>4
    <3>3. new = [x \in Columns(launch) |-> new[x]]
      BY DEF Store
    <3> HIDE DEF new
    <3>4. new = RowNow(b, i)'
      BY <2>2, <3>2, <3>3
    <3> QED BY <2>7, <3>4 DEF new
  <2> QED BY <2>6, <2>7
<1>4. buf' = [b \in DOMAIN batch |-> [i \in 0 .. batch[b].sq - 1 |-> RowNow(b, i)']]
  BY <1>3, Zenon DEF RunProgram, Written
<1>5. todo' \subseteq Nat \X Nat
  BY <1>1 DEF WriteInv
<1> QED BY <1>1, <1>4, <1>5 DEF WriteInv

LEMMA WriteStep == ASSUME FusedHasNoRightWindow, WriteInv, [Next]_vars PROVE WriteInv'
<1>0. launch \in Launches /\ RowsPerProgram \in Nat \ {0}
  BY Programs DEF WriteInv
<1>1. \A b \in DOMAIN batch : \A i \in 0 .. batch[b].sq - 1 : RowOf(b, i) \in Nat
  BY RowsFit DEF WriteInv
<1>2. ASSUME NEW p \in todo, LowLatency(p) PROVE WriteInv'
  <2>1. launch.blockM = RowsPerProgram /\ Fuses
    BY <1>2 DEF LowLatency, RowsPerProgram, Fuses
  <2>2. p[1] \in Int
    BY DEF WriteInv
  <2>3. \A a \in Nat : a \in p[1] * launch.blockM .. (p[1] + 1) * launch.blockM - 1 <=> a \div RowsPerProgram = p[1]
    BY <1>0, <2>1, <2>2, Slice
  <2> QED BY <1>1, <1>2, <2>1, <2>3, ProgramStep DEF LowLatency, RowProg
<1>3. ASSUME NEW p \in todo, Throughput(p) PROVE WriteInv'
  <2> DEFINE Blocks == {(p[1] * launch.groupM + g) * launch.blockM ..
                           (p[1] * launch.groupM + g + 1) * launch.blockM - 1 : g \in 0 .. launch.groupM - 1}
  <2>1. /\ launch.blockM * launch.groupM = RowsPerProgram /\ Fuses
        /\ launch.blockM \in Nat \ {0} /\ launch.groupM \in Nat \ {0}
    BY <1>0, <1>3, LaunchesAssumption DEF Throughput, RowsPerProgram, Fuses, IsLaunch
  <2>2. p[1] \in Nat
    BY DEF WriteInv
  <2>3. ASSUME NEW a \in Nat PROVE a \in UNION Blocks <=> a \div RowsPerProgram = p[1]
    <3>1. PICK M \in Nat \ {0}, G \in Nat \ {0}, q \in Nat : M = launch.blockM /\ G = launch.groupM /\ q = p[1]
      BY <2>1, <2>2
    <3>2. a \in UNION Blocks <=> \E g \in 0 .. G - 1 : a \in (q * G + g) * M .. (q * G + g + 1) * M - 1
      BY <3>1
    <3>3. q * G \in Int
      OBVIOUS
    <3>4. \A g \in 0 .. G - 1 : a \in (q * G + g) * M .. (q * G + g + 1) * M - 1 <=> q * G + g = a \div M
      BY <3>3, Slice
    <3>5. a \div M \in Nat
      OBVIOUS
    <3>6. (\E g \in 0 .. G - 1 : q * G + g = a \div M) <=> a \div M \in q * G .. (q + 1) * G - 1
      <4>1. (q + 1) * G = q * G + G
        OBVIOUS
      <4>2. ASSUME a \div M \in q * G .. (q + 1) * G - 1 PROVE \E g \in 0 .. G - 1 : q * G + g = a \div M
        <5>1. (a \div M) - q * G \in 0 .. G - 1 /\ q * G + ((a \div M) - q * G) = a \div M
          BY <3>3, <3>5, <4>1, <4>2
        <5> QED BY <5>1
      <4> QED BY <3>3, <3>5, <4>1, <4>2
    <3>7. a \div M \in q * G .. (q + 1) * G - 1 <=> q = (a \div M) \div G
      <4>1. PICK x \in Nat : x = a \div M
        BY <3>5
      <4>2. x \in q * G .. (q + 1) * G - 1 <=> q = x \div G
        BY Slice
      <4> QED BY <4>1, <4>2
    <3>8. (a \div M) \div G = a \div (M * G)
      OBVIOUS
    <3> QED BY <2>1, <3>1, <3>2, <3>4, <3>6, <3>7, <3>8
  <2>4. RunProgram(p, UNION Blocks)
    BY <1>3 DEF Throughput
  <2> HIDE DEF Blocks
  <2> QED BY <1>1, <2>1, <2>3, <2>4, ProgramStep DEF RowProg
<1>4. ASSUME NEW p \in todo, Small(p) PROVE WriteInv'
  <2>1. RowsPerProgram = 1 /\ Fuses
    BY <1>4 DEF Small, RowsPerProgram, Fuses
  <2>2. \A a \in Nat : a \in {p[1]} <=> a \div RowsPerProgram = p[1]
    BY <2>1
  <2> QED BY <1>1, <1>4, <2>1, <2>2, ProgramStep DEF Small, RowProg
<1>5. CASE StartTile
  BY <1>5, WriteFrame DEF StartTile
<1>6. CASE StartSplit \/ FirstBlock \/ LoopBlock \/ EndPart \/ Finish
  <2>1. pc # "write" /\ UNCHANGED <<launch, batch, todo, buf>>
    BY <1>6 DEF StartSplit, FirstBlock, LoopBlock, EndPart, Finish
  <2> QED BY <2>1, WriteFrame DEF WriteInv
<1>7. CASE UNCHANGED vars
  BY <1>7, WriteFrame DEF vars, WriteInv
<1> QED BY <1>2, <1>3, <1>4, <1>5, <1>6, <1>7 DEF Next, Done

\* What the reader finds in the buffer.
LEMMA BufferIsSheared ==
  ASSUME WriteInv, todo = {}, launch.kernel # "inkernel" \/ Fuses, NEW b \in DOMAIN batch, NEW i \in 0 .. batch[b].sq - 1
  PROVE  buf[b][i] = ShearedRow(launch, batch[b], i)
<1>1. buf[b][i] = RowNow(b, i)
  BY DEF WriteInv
<1>2. ASSUME Fuses PROVE RowNow(b, i) = [x \in Columns(launch) |-> ShearedRow(launch, batch[b], i)[x]]
  BY <1>2 DEF RowNow, CellNow
<1>3. ShearedRow(launch, batch[b], i) = [x \in Columns(launch) |-> ShearedRow(launch, batch[b], i)[x]]
  BY DEF ShearedRow
<1> QED BY <1>1, <1>2, <1>3 DEF RowNow

LEMMA WritesOnce == ASSUME WriteInv PROVE WrittenOnce
<1> SUFFICES ASSUME Fuses, NEW b \in DOMAIN batch, NEW i \in 0 .. batch[b].sq - 1
             PROVE  /\ \A x \in Columns(launch) : buf[b][i][x] # Clash
                    /\ todo = {} => buf[b][i] = ShearedRow(launch, batch[b], i)
  BY DEF WrittenOnce
<1>1. IsLaunch(launch) /\ batch[b] \in Requests
  BY StateTypes DEF WriteInv
<1>2. ASSUME NEW x \in Columns(launch) PROVE buf[b][i][x] # Clash
  <2>1. buf[b][i][x] = CellNow(b, i, x)
    BY DEF WriteInv, RowNow
  <2>2. ShearedRow(launch, batch[b], i)[x] \in Nat \cup {LeftPad, RightPad}
    BY <1>1, RowCells
  <2> QED BY <2>1, <2>2 DEF CellNow, LeftPad, RightPad, Unset, Clash
<1> QED BY <1>2, BufferIsSheared

\* Every column of every row is written exactly once, whatever the shape of the launch
\* and the order of its programs, and the row is ShearingBias's.
THEOREM ColumnsAreWrittenOnce == ASSUME FusedHasNoRightWindow PROVE Spec => []WrittenOnce
<1>1. Init => WriteInv
  BY InitWrites
<1>2. WriteInv /\ [Next]_vars => WriteInv'
  BY WriteStep
<1>3. WriteInv => WrittenOnce
  BY WritesOnce
<1> QED BY <1>1, <1>2, <1>3, PTL DEF Spec

-----------------------------------------------------------------------------
(* The reader.                                                             *)

LEMMA TileTypes ==
  ASSUME launch \in Launches, batch \in Batches, tile \in Tiles
  PROVE  /\ IsLaunch(launch) /\ tile.req \in DOMAIN batch /\ tile.m \in Nat
         /\ Req \in Requests /\ launch.tileN \in Nat \ {0} /\ launch.numSplits \in Nat \ {0}
<1>1. IsLaunch(launch) /\ tile.req \in DOMAIN batch /\ tile.m \in 0 .. NumRows
  BY StateTypes DEF Tiles
<1>2. launch.tileN \in Nat \ {0} /\ launch.numSplits \in Nat \ {0}
  BY <1>1, LaunchTypes
<1> QED BY <1>1, <1>2, StateTypes DEF Req

\* The blocks of a tile, and of each of its splits.
LEMMA MinIs ==
  ASSUME NEW l, IsLaunch(l), NEW g \in Requests, NEW m \in Nat
  PROVE  LET mn == NBlockMin(l, g, m, l.tileN) IN
         /\ mn \in Nat
         /\ ~l.local => mn = 0
         /\ \A k \in Nat : (l.local => k >= m * Block + Ctx(g) - l.windowLeft) => l.tileN * mn <= k
<1> DEFINE t == l.tileN
           a == m * Block + Ctx(g) - l.windowLeft
           mn == NBlockMin(l, g, m, t)
<1>1. t \in Nat \ {0} /\ a \in Int /\ l.local \in BOOLEAN
  BY LaunchTypes, RequestTypes
<1>2. mn = IF l.local THEN Most(a \div t, 0) ELSE 0
  BY DEF NBlockMin
<1> HIDE DEF t, a, mn
<1>3. a \div t \in Int /\ t * (a \div t) <= a
  BY <1>1, Quotient
<1>4. mn \in Nat /\ (~l.local => mn = 0)
  BY <1>1, <1>2, <1>3 DEF Most
<1>5. ASSUME NEW k \in Nat, l.local => k >= a PROVE t * mn <= k
  <2>1. CASE mn = 0
    BY <1>1, <2>1
  <2>2. CASE mn # 0
    <3>1. l.local /\ mn = a \div t
      BY <1>1, <1>2, <1>3, <2>2 DEF Most
    <3>2. t * mn <= a /\ t * mn \in Int
      BY <1>1, <1>3, <1>4, <3>1
    <3> QED BY <1>1, <1>5, <3>1, <3>2
  <2> QED BY <2>1, <2>2
<1> QED BY <1>4, <1>5 DEF t, a, mn

LEMMA MaxIs ==
  ASSUME NEW l, IsLaunch(l), NEW g \in Requests, NEW m \in Nat
  PROVE  /\ NBlockMax(l, g, m, l.tileN) \in Int
         /\ \A k \in Nat : k < g.sk /\ k < (m + 1) * Block + Ctx(g) + l.windowRight
              => k < l.tileN * NBlockMax(l, g, m, l.tileN)
<1> DEFINE t == l.tileN
           c == t * NBlockMax(l, g, m, t)
           top == (m + 1) * Block + Ctx(g) + l.windowRight
<1>1. t \in Nat \ {0}
  BY LaunchTypes
<1>2. top \in Int /\ NBlockMax(l, g, m, t) \in Int /\ (g.sk <= c \/ top <= c)
  BY <1>1, BlocksReach
<1>3. c \in Int /\ g.sk \in Nat
  BY <1>1, <1>2, RequestTypes
<1> HIDE DEF top, c
<1>4. \A k \in Nat : k < g.sk /\ k < top => k < c
  BY <1>2, <1>3
<1> QED BY <1>2, <1>4 DEF t, c, top

\* The splits lie behind each other and reach from NBlockMin to NBlockMax.
LEMMA Splits ==
  ASSUME launch \in Launches, batch \in Batches, tile \in Tiles
  PROVE  LET mn  == NBlockMin(launch, Req, tile.m, launch.tileN)
             mx  == NBlockMax(launch, Req, tile.m, launch.tileN)
             bps == BlocksPerSplit(launch, Req, tile.m)
         IN  /\ mn \in Nat /\ mx \in Int /\ bps \in Nat
             /\ mn < mx => bps # 0 /\ mx - mn <= launch.numSplits * bps
             /\ ~IsSplitKV => launch.numSplits = 1
             /\ launch.numSplits = 1 => bps = IF mn < mx THEN mx - mn ELSE 0
             /\ \A s : BlocksOf(s) = <<mn + s * bps, Least(mn + s * bps + bps, mx)>>
<1> DEFINE mn == NBlockMin(launch, Req, tile.m, launch.tileN)
           mx == NBlockMax(launch, Req, tile.m, launch.tileN)
           bps == BlocksPerSplit(launch, Req, tile.m)
           N == launch.numSplits
<1>1. mn \in Nat /\ mx \in Int /\ N \in Nat \ {0}
  BY TileTypes, MinIs, MaxIs
<1>2. bps = IF mx <= mn THEN 0 ELSE CeilDiv(mx - mn, N)
  BY DEF BlocksPerSplit
<1>3. \A s : BlocksOf(s) = <<mn + s * bps, Least(mn + s * bps + bps, mx)>>
  BY DEF BlocksOf, SplitRange
<1>4. ~IsSplitKV => N = 1
  BY <1>1 DEF IsSplitKV
<1> HIDE DEF mn, mx, bps, N
<1>5. ASSUME mn < mx PROVE bps \in Nat \ {0} /\ mx - mn <= N * bps /\ (N = 1 => bps = mx - mn)
  <2>1. bps = CeilDiv(mx - mn, N) /\ mx - mn \in Nat \ {0}
    BY <1>1, <1>2, <1>5
  <2>2. bps \in Int /\ mx - mn <= N * bps /\ N * bps < mx - mn + N
    BY <1>1, <2>1, Ceiling
  <2>3. bps > 0
    <3>1. SUFFICES ASSUME bps <= 0 PROVE FALSE
      BY <2>2
    <3>2. N * bps <= N * 0 /\ N * 0 = 0
      BY <1>1, <2>2, <3>1, Monotone
    <3>3. N * bps \in Int
      BY <1>1, <2>2
    <3> QED BY <2>1, <2>2, <3>2, <3>3
  <2>4. N = 1 => N * bps = bps
    BY <2>2
  <2> QED BY <1>1, <2>1, <2>2, <2>3, <2>4
<1>6. ~(mn < mx) => bps = 0
  BY <1>1, <1>2
<1> QED BY <1>1, <1>3, <1>4, <1>5, <1>6 DEF mn, mx, bps, N

\* What each split visits: nothing twice.
LEMMA SplitsApart ==
  ASSUME launch \in Launches, batch \in Batches, tile \in Tiles
  PROVE  /\ \A s \in 0 .. launch.numSplits - 1 : BlocksOf(s)[1] \in Nat /\ Top(s) \in Int /\ Bottom(s) \in Int /\ Bottom(s) <= BlocksOf(s)[1]
         /\ \A s \in 0 .. launch.numSplits - 1 : \A u \in 0 .. launch.numSplits - 1 : s < u => Top(s) <= Bottom(u)
<1> DEFINE mn == NBlockMin(launch, Req, tile.m, launch.tileN)
           mx == NBlockMax(launch, Req, tile.m, launch.tileN)
           bps == BlocksPerSplit(launch, Req, tile.m)
           N == launch.numSplits
<1>1. /\ mn \in Nat /\ mx \in Int /\ bps \in Nat
      /\ \A s : BlocksOf(s) = <<mn + s * bps, Least(mn + s * bps + bps, mx)>>
      /\ ~IsSplitKV => N = 1
      /\ launch.kernel = "generic" => N = 1
      /\ N \in Nat \ {0}
  BY Splits, TileTypes, LaunchTypes
<1> HIDE DEF mn, mx, bps, N
<1>2. \A s \in 0 .. N - 1 : s * bps \in Nat
  BY <1>1
<1>3. \A s : BlocksOf(s)[1] = mn + s * bps /\ BlocksOf(s)[2] = Least(mn + s * bps + bps, mx)
  BY <1>1
<1>4. ASSUME NEW s \in 0 .. N - 1
      PROVE  BlocksOf(s)[1] \in Nat /\ Top(s) \in Int /\ Bottom(s) \in Int /\ Bottom(s) <= BlocksOf(s)[1]
  <2>1. BlocksOf(s)[1] \in Nat /\ BlocksOf(s)[2] \in Int
    BY <1>1, <1>2, <1>3 DEF Least
  <2> QED BY <2>1 DEF Top, Bottom, Most, Least
<1>5. ASSUME NEW s \in 0 .. N - 1, NEW u \in 0 .. N - 1, s < u
      PROVE  Top(s) <= Bottom(u)
  <2>1. N # 1 /\ IsSplitKV /\ launch.kernel # "generic"
    BY <1>1, <1>5
  <2>2. Top(s) = Least(mn + s * bps + bps, mx) /\ Bottom(u) = mn + u * bps
    BY <1>3, <2>1 DEF Top, Bottom
  <2>3. bps * (s + 1) <= bps * u
    BY <1>1, <1>5
  <2>4. bps * (s + 1) = s * bps + bps /\ bps * u = u * bps
    BY <1>1
  <2> QED BY <1>1, <1>2, <2>2, <2>3, <2>4 DEF Least
<1> QED BY <1>4, <1>5 DEF N

LEMMA ElementTypes ==
  ASSUME WriteInv, todo = {}, tile \in Tiles, NEW r \in 0 .. Block - 1, NEW n \in Int, NEW j \in 0 .. launch.tileN - 1
  PROVE  Element(r, n, j) \in Nat \cup {Zero, NegInf}
<1>0. launch \in Launches /\ batch \in Batches
  BY DEF WriteInv
<1>1. /\ IsLaunch(launch) /\ tile.req \in DOMAIN batch /\ tile.m \in Nat /\ Req \in Requests /\ Req = batch[tile.req]
      /\ launch.local \in BOOLEAN /\ Block \in Nat
  BY <1>0, TileTypes, LaunchTypes DEF Req
<1>2. \A v \in Nat \cup {LeftPad, RightPad} : Effect(launch, v) \in Nat \cup {Zero, NegInf}
  BY <1>1 DEF Effect, LeftPad, RightPad, Zero, NegInf
<1>3. CASE launch.kernel = "inkernel"
  BY <1>1, <1>2, <1>3, InKernelIsBias DEF Element
<1>4. CASE launch.kernel # "inkernel"
  <2> DEFINE i == tile.m * Block + r
             x == BiasTile(n) * launch.tileN + j
  <2>1. ASSUME i < Req.sq, x \in Columns(launch)
        PROVE  Effect(launch, buf[tile.req][i][x]) \in Nat \cup {Zero, NegInf}
    <3>1. i \in 0 .. batch[tile.req].sq - 1
      <4>1. tile.m * Block \in Nat
        BY <1>1
      <4> QED BY <1>1, <2>1, <4>1, RequestTypes
    <3>2. buf[tile.req][i] = ShearedRow(launch, batch[tile.req], i)
      BY <1>1, <1>4, <3>1, BufferIsSheared
    <3>3. ShearedRow(launch, Req, i)[x] \in Nat \cup {LeftPad, RightPad}
      <4> HIDE DEF i, x
      <4> QED BY <1>1, <2>1, <3>1, RowCells
    <3> QED BY <1>1, <1>2, <3>2, <3>3
  <2>2. Element(r, n, j) = IF ~Applies(n) THEN Zero
                           ELSE IF i < Req.sq /\ x \in Columns(launch) THEN Effect(launch, buf[tile.req][i][x]) ELSE NegInf
    BY <1>4 DEF Element
  <2> HIDE DEF i, x
  <2> QED BY <2>1, <2>2
<1> QED BY <1>3, <1>4

\* The bias of a visible key is that of its distance, by each of the three ways.
LEMMA ElementIsBias ==
  ASSUME Sm90TileIsBlock, WriteInv, todo = {}, tile \in Tiles, NEW r \in 0 .. Block - 1, tile.m * Block + r < Req.sq,
         NEW n \in Int, NEW j \in 0 .. launch.tileN - 1, n * launch.tileN + j \in Nat,
         Visible(launch, Req, tile.m * Block + r, n * launch.tileN + j)
  PROVE  Element(r, n, j) = Reference(launch, Req, tile.m * Block + r, n * launch.tileN + j)
<1>0. launch \in Launches /\ batch \in Batches
  BY DEF WriteInv
<1>1. IsLaunch(launch) /\ tile.req \in DOMAIN batch /\ tile.m \in Nat /\ Req \in Requests /\ Req = batch[tile.req]
  BY <1>0, TileTypes DEF Req
<1>2. launch.kernel \in {"sm90", "generic", "inkernel"}
  BY <1>1, LaunchTypes
<1>3. CASE launch.kernel = "inkernel"
  BY <1>1, <1>3, InKernelIsBias DEF Element
<1>4. CASE launch.kernel # "inkernel"
  <2> DEFINE i == tile.m * Block + r
             k == n * launch.tileN + j
             d == TileShiftGeneric(launch, Req, tile.m)
             x == (n + d) * launch.tileN + j
  <2>1. d \in Int /\ NumTiles(launch) \in Nat
    BY <1>1, Shift
  <2> HIDE DEF d
  <2>2. /\ i \in 0 .. Req.sq - 1
        /\ x \in Int /\ x - Base(launch, Req, i) = k + launch.relExtent - NIdxRight(launch, Req, i)
        /\ n + d < NumTiles(launch)
        /\ n + d >= 0 => x \in Columns(launch)
        /\ n + d < 0 => x < 0
    BY <1>1, <2>1, ColumnOfKey DEF d
  <2>3. BiasTile(n) = n + d
    <3>1. launch.kernel = "sm90" => TileShiftSm90(launch, Req, tile.m, split) = d
      BY <1>0, <1>1, Shift DEF Sm90TileIsBlock, d
    <3> QED BY <3>1 DEF BiasTile, d
  <2>4. Applies(n) <=> n + d >= 0
    <3>1. CASE launch.kernel = "sm90"
      <4>1. AppliesSm90(launch, Req, tile.m, split, n) <=> n + d \in 0 .. NumTiles(launch) - 1
        BY <2>3, <3>1 DEF AppliesSm90, BiasTile
      <4> QED BY <2>1, <2>2, <3>1, <4>1 DEF Applies
    <3>2. CASE launch.kernel = "generic"
      <4>1. (Block * NBlockMax(launch, Req, tile.m, Block)) \div launch.tileN = NumTiles(launch) - d
        BY <1>1, Shift DEF d
      <4>2. AppliesGeneric(launch, Req, tile.m, n) <=> n >= -d /\ n < NumTiles(launch) - d
        BY <4>1 DEF AppliesGeneric, d
      <4> QED BY <2>1, <2>2, <3>2, <4>2 DEF Applies
    <3> QED BY <1>2, <1>4, <3>1, <3>2
  <2>5. k \in Nat
    OBVIOUS
  <2>6. /\ x \in Columns(launch) => Effect(launch, ShearedRow(launch, Req, i)[x]) = Reference(launch, Req, i, k)
        /\ x < 0 => Reference(launch, Req, i, k) = Zero
    <3>1. Visible(launch, Req, i, k)
      OBVIOUS
    <3> HIDE DEF i, k, x
    <3> QED BY <1>1, <2>2, <2>5, <3>1, CellOfKey
  <2>7. buf[tile.req][i] = ShearedRow(launch, Req, i)
    <3>1. i \in 0 .. batch[tile.req].sq - 1
      BY <1>1, <2>2
    <3> HIDE DEF i
    <3> QED BY <1>1, <1>4, <3>1, BufferIsSheared
  <2>8. Element(r, n, j) = IF ~Applies(n) THEN Zero
                           ELSE IF i < Req.sq /\ x \in Columns(launch) THEN Effect(launch, buf[tile.req][i][x]) ELSE NegInf
    BY <1>4, <2>3 DEF Element
  <2>9. i < Req.sq
    OBVIOUS
  <2> HIDE DEF i, x, k
  <2>10. Element(r, n, j) = Reference(launch, Req, i, k)
    BY <2>1, <2>2, <2>4, <2>6, <2>7, <2>8, <2>9
  <2> QED BY <2>10 DEF i, k
<1> QED BY <1>3, <1>4

LEMMA SameElement ==
  ASSUME launch' = launch, batch' = batch, tile' = tile, buf' = buf
  PROVE  \A r, n, j : Element(r, n, j)' = Element(r, n, j)
<1>1. \A n : Applies(n)' = Applies(n) /\ BiasTile(n)' = BiasTile(n)
  BY DEF Applies, BiasTile, AppliesSm90, TileShiftSm90, Req
<1> QED BY <1>1 DEF Element, Req

-----------------------------------------------------------------------------
(* Keys and blocks.                                                        *)

\* Key k is key k - n * tileN of one block n.
LEMMA BlockOfKey ==
  ASSUME NEW t \in Nat \ {0}, NEW k \in Nat
  PROVE  LET n == k \div t IN
         /\ n \in Nat /\ k - n * t \in 0 .. t - 1 /\ n * t + (k - n * t) = k
         /\ \A b \in Int : k \in b * t .. (b + 1) * t - 1 <=> b = n
<1>1. k \div t \in Int /\ t * (k \div t) <= k /\ k < t * (k \div t) + t
  BY Quotient
<1>2. PICK n \in Int : n = k \div t /\ t * n <= k /\ k < t * n + t
  BY <1>1
<1>3. n * t = t * n /\ t * n \in Int
  OBVIOUS
<1>4. n \in Nat
  BY <1>2
<1>5. \A b \in Int : k \in b * t .. (b + 1) * t - 1 <=> b = n
  BY <1>2, Slice
<1> QED BY <1>2, <1>3, <1>4, <1>5

LEMMA SameBlocks ==
  ASSUME launch' = launch, batch' = batch, tile' = tile
  PROVE  /\ Req' = Req /\ Tiles' = Tiles
         /\ \A s : BlocksOf(s)' = BlocksOf(s) /\ Top(s)' = Top(s) /\ Bottom(s)' = Bottom(s)
<1>1. Req' = Req
  BY DEF Req
<1>2. NumRows' = NumRows
  BY DEF NumRows, RowOf
<1>3. Tiles' = Tiles
  BY <1>2, Zenon DEF Tiles
<1>4. \A s : BlocksOf(s)' = BlocksOf(s)
  BY <1>1 DEF BlocksOf
<1>5. \A s : Top(s)' = Top(s) /\ Bottom(s)' = Bottom(s)
  BY <1>4 DEF Top, Bottom, IsSplitKV
<1> QED BY <1>1, <1>3, <1>4, <1>5

\* A step that visits nothing.
LEMMA NothingVisited ==
  ASSUME WriteInv, ReadInv, pc # "write", UNCHANGED <<launch, batch, tile, buf, score>>, \A n \in Int : Seen(n)' <=> Seen(n)
  PROVE  /\ tile' \in Tiles'
         /\ score' = [r \in 0 .. Block - 1 |-> [k \in 0 .. Req'.sk - 1 |-> ScoreNow(r, k)']]
<1>1. launch' = launch /\ batch' = batch /\ tile' = tile /\ buf' = buf /\ score' = score
  OBVIOUS
<1>2. Req' = Req /\ Tiles' = Tiles
  BY <1>1, SameBlocks
<1>3. tile \in Tiles /\ score = [r \in 0 .. Block - 1 |-> [k \in 0 .. Req.sk - 1 |-> ScoreNow(r, k)]]
  BY DEF ReadInv
<1>4. \A r, n, j : Element(r, n, j)' = Element(r, n, j)
  BY <1>1, SameElement
<1>5. ASSUME NEW r, NEW k \in 0 .. Req.sk - 1 PROVE ScoreNow(r, k)' = ScoreNow(r, k)
  <2>1. launch.tileN \in Nat \ {0}
    BY <1>3, TileTypes DEF WriteInv
  <2>2. k \div launch.tileN \in Int
    BY <2>1
  <2> QED BY <1>1, <1>4, <2>2 DEF ScoreNow
<1> QED BY <1>1, <1>2, <1>3, <1>5

\* A step that visits the next block of the split.
LEMMA OneVisited ==
  ASSUME WriteInv, ReadInv, pc # "write", InSplit, pc' \in {"causal", "inner", "left"},
         UNCHANGED <<launch, batch, todo, buf, tile, split, lo>>, Visit(hi - 1), hi' = hi - 1,
         Bottom(split) < hi, pc' = "left" => launch.kernel # "generic"
  PROVE  ReadInv'
<1>1. /\ launch' = launch /\ batch' = batch /\ tile' = tile /\ buf' = buf /\ split' = split /\ lo' = lo
      /\ pc' # "write" /\ InSplit' /\ pc' # "first" /\ pc' # "done"
  BY DEF InSplit
<1>2. /\ tile \in Tiles /\ split \in 0 .. launch.numSplits /\ split < launch.numSplits
      /\ lo = BlocksOf(split)[1] /\ hi \in Int /\ hi <= Top(split)
      /\ score = [r \in 0 .. Block - 1 |-> [k \in 0 .. Req.sk - 1 |-> ScoreNow(r, k)]]
  BY DEF ReadInv
<1>3. launch.tileN \in Nat \ {0} /\ launch.numSplits \in Nat
  BY <1>2, TileTypes DEF WriteInv
<1>4. /\ Req' = Req /\ Tiles' = Tiles
      /\ \A s : BlocksOf(s)' = BlocksOf(s) /\ Top(s)' = Top(s) /\ Bottom(s)' = Bottom(s)
  BY <1>1, SameBlocks
<1>5. split \in 0 .. launch.numSplits - 1
  BY <1>2, <1>3
<1>6. /\ \A s \in 0 .. launch.numSplits - 1 : Top(s) \in Int /\ Bottom(s) \in Int
      /\ \A s \in 0 .. split - 1 : s \in 0 .. launch.numSplits - 1 /\ Top(s) <= Bottom(split)
  BY <1>2, <1>3, <1>5, SplitsApart DEF WriteInv
<1>7. Bottom(split) \in Int /\ Top(split) \in Int
  BY <1>5, <1>6
<1>8. ~Seen(hi - 1)
  BY <1>2, <1>6, <1>7 DEF Seen
<1>9. \A n \in Int : Seen(n)' <=> Seen(n) \/ n = hi - 1
  <2> SUFFICES ASSUME NEW n \in Int PROVE Seen(n)' <=> Seen(n) \/ n = hi - 1
    OBVIOUS
  <2>1. Seen(n)' <=> \/ \E s \in 0 .. split - 1 : Bottom(s) <= n /\ n < Top(s)
                     \/ hi - 1 <= n /\ n < Top(split)
    BY <1>1, <1>4 DEF Seen
  <2> QED BY <1>2, <1>7, <2>1 DEF Seen
<1>10. \A r, n, j : Element(r, n, j)' = Element(r, n, j)
  BY <1>1, SameElement
<1>11. ASSUME NEW r \in 0 .. Block - 1, NEW k \in 0 .. Req.sk - 1
       PROVE  (IF k \in (hi - 1) * launch.tileN .. (hi - 1 + 1) * launch.tileN - 1
               THEN IF score[r][k] = Unset THEN Element(r, hi - 1, k - (hi - 1) * launch.tileN) ELSE Clash
               ELSE score[r][k]) = ScoreNow(r, k)'
  <2>1. PICK n \in Int : n = k \div launch.tileN /\ (k \in (hi - 1) * launch.tileN .. (hi - 1 + 1) * launch.tileN - 1 <=> hi - 1 = n)
    <3>1. k \in Nat /\ hi - 1 \in Int
      BY <1>2
    <3>2. PICK t \in Nat \ {0} : t = launch.tileN
      BY <1>3
    <3>3. k \div t \in Nat /\ \A b \in Int : k \in b * t .. (b + 1) * t - 1 <=> b = k \div t
      BY <3>1, <3>2, BlockOfKey, Zenon
    <3> QED BY <3>1, <3>2, <3>3
  <2>2. score[r][k] = IF Seen(n) THEN Element(r, n, k - n * launch.tileN) ELSE Unset
    BY <1>2, <2>1 DEF ScoreNow
  <2>3. ScoreNow(r, k)' = IF Seen(n) \/ n = hi - 1 THEN Element(r, n, k - n * launch.tileN) ELSE Unset
    BY <1>1, <1>9, <1>10, <2>1 DEF ScoreNow
  <2>4. CASE n = hi - 1
    BY <1>8, <2>1, <2>2, <2>3, <2>4
  <2>5. CASE n # hi - 1
    BY <2>1, <2>2, <2>3, <2>5
  <2> QED BY <2>4, <2>5
<1>12. score' = [r \in 0 .. Block - 1 |-> [k \in 0 .. Req.sk - 1 |-> ScoreNow(r, k)']]
  BY <1>11, Zenon DEF Visit
<1>13. hi' \in Int /\ Bottom(split) <= hi' /\ hi' < Top(split) /\ hi' <= Top(split)
  BY <1>2, <1>7
<1> QED BY <1>1, <1>2, <1>4, <1>12, <1>13 DEF ReadInv

\* The mainloop's bounds lie in the split.
LEMMA Bounds ==
  ASSUME WriteInv, ReadInv, pc \in {"causal", "inner", "left"}
  PROVE  /\ Bound(pc) \in Int /\ Bottom(split) <= Bound(pc)
         /\ NextPart(pc) = "split" /\ ~MoreBlocks(pc) => hi = Bottom(split)
<1>1. /\ pc # "write" /\ InSplit /\ tile \in Tiles /\ split \in 0 .. launch.numSplits /\ split < launch.numSplits
      /\ lo = BlocksOf(split)[1] /\ hi \in Int /\ Bottom(split) <= hi /\ hi < Top(split)
      /\ pc = "left" => launch.kernel # "generic"
  BY DEF ReadInv, InSplit
<1>2. IsLaunch(launch) /\ tile.m \in Nat /\ Req \in Requests
  BY <1>1, TileTypes DEF WriteInv
<1>3. /\ launch.tileN \in Nat \ {0} /\ launch.windowRight \in Nat /\ launch.windowLeft \in Nat /\ Block \in Nat
      /\ launch.local \in BOOLEAN /\ Ctx(Req) \in Nat /\ launch.numSplits \in Nat
  BY <1>2, LaunchTypes, RequestTypes
<1>4. lo \in Nat /\ Bottom(split) \in Int /\ Bottom(split) <= lo /\ Top(split) \in Int
  <2>1. split \in 0 .. launch.numSplits - 1
    BY <1>1, <1>3
  <2> QED BY <1>1, <2>1, SplitsApart DEF WriteInv
<1>5. \A a \in Int : a \div launch.tileN \in Int
  BY <1>3
<1>6. CausalBound(launch, Req, tile.m, lo) \in Int /\ lo <= CausalBound(launch, Req, tile.m, lo)
  <2>1. tile.m * Block + Ctx(Req) + launch.windowRight \in Int
    BY <1>2, <1>3
  <2> QED BY <1>4, <1>5, <2>1 DEF CausalBound, Most
<1>7. LeftBound(launch, Req, tile.m, lo) \in Int /\ lo <= LeftBound(launch, Req, tile.m, lo)
  <2>1. (tile.m + 1) * Block + Ctx(Req) - launch.windowLeft + launch.tileN - 1 \in Int
    BY <1>2, <1>3
  <2> QED BY <1>4, <1>5, <2>1 DEF LeftBound, CeilDiv, Most
<1>8. launch.kernel = "generic" => Bottom(split) = 0
  BY DEF Bottom
<1>9. Bound(pc) \in Int /\ Bottom(split) <= Bound(pc)
  BY <1>4, <1>6, <1>7, <1>8 DEF Bound
<1>10. ASSUME NextPart(pc) = "split", ~MoreBlocks(pc) PROVE hi = Bottom(split)
  <2>1. hi <= Bound(pc)
    BY <1>1, <1>9, <1>10 DEF MoreBlocks
  <2>2. CASE launch.kernel = "generic"
    <3>1. pc = "inner"
      BY <1>1, <1>10, <2>2 DEF NextPart
    <3> QED BY <1>1, <1>8, <2>1, <2>2, <3>1 DEF Bound
  <2>3. CASE launch.kernel # "generic"
    <3>1. pc \in {"inner", "left"} /\ (pc = "inner" => ~launch.local)
      BY <1>3, <1>10, <2>3 DEF NextPart
    <3>2. Bound(pc) = lo
      BY <2>3, <3>1 DEF Bound, LeftBound
    <3>3. \/ Bottom(split) = lo
          \/ Bottom(split) = BlocksOf(split)[2] - 1 /\ Top(split) = BlocksOf(split)[2]
      BY <1>1, <2>3 DEF Bottom, Top, Least
    <3> QED BY <1>1, <1>4, <2>1, <3>2, <3>3
  <2> QED BY <2>2, <2>3
<1> QED BY <1>9, <1>10

\* A split whose blocks are done, or that has none, adds nothing to what was seen.
LEMMA SplitEnds ==
  ASSUME WriteInv, ReadInv, pc # "write", split < launch.numSplits,
         UNCHANGED <<launch, batch, todo, buf, tile, score>>, pc' = "split", split' = split + 1,
         IF InSplit THEN hi = Bottom(split) ELSE Top(split) <= Bottom(split)
  PROVE  ReadInv'
<1>1. /\ launch' = launch /\ batch' = batch /\ tile' = tile /\ pc' \notin {"write", "done"} /\ ~InSplit'
  BY DEF InSplit
<1>2. tile \in Tiles /\ split \in 0 .. launch.numSplits /\ launch.numSplits \in Nat
  <2>1. tile \in Tiles /\ split \in 0 .. launch.numSplits
    BY DEF ReadInv
  <2> QED BY <2>1, TileTypes DEF WriteInv
<1>3. \A s : Top(s)' = Top(s) /\ Bottom(s)' = Bottom(s)
  BY <1>1, SameBlocks
<1>4. Bottom(split) \in Int /\ Top(split) \in Int
  <2>1. split \in 0 .. launch.numSplits - 1
    BY <1>2
  <2> QED BY <1>2, <2>1, SplitsApart DEF WriteInv
<1>5. ASSUME NEW n \in Int PROVE Seen(n)' <=> Seen(n)
  <2>1. Seen(n)' <=> \E s \in 0 .. split : Bottom(s) <= n /\ n < Top(s)
    BY <1>1, <1>2, <1>3 DEF Seen
  <2>2. Seen(n)' <=> \/ \E s \in 0 .. split - 1 : Bottom(s) <= n /\ n < Top(s)
                     \/ Bottom(split) <= n /\ n < Top(split)
    BY <1>2, <2>1
  <2> QED BY <1>4, <2>2 DEF Seen
<1>6. /\ tile' \in Tiles'
      /\ score' = [r \in 0 .. Block - 1 |-> [k \in 0 .. Req'.sk - 1 |-> ScoreNow(r, k)']]
  BY <1>5, NothingVisited
<1>7. split' \in 0 .. launch'.numSplits
  BY <1>1, <1>2
<1> QED BY <1>1, <1>6, <1>7 DEF ReadInv

LEMMA ReadStep == ASSUME WriteInv, ReadInv, [Next]_vars PROVE ReadInv'
<1>1. CASE \E p \in todo : LowLatency(p) \/ Throughput(p) \/ Small(p)
  <2>1. pc = "write" /\ pc' = "write"
    BY <1>1 DEF LowLatency, Throughput, Small, RunProgram
  <2> QED BY <2>1 DEF ReadInv, InSplit
<1>2. CASE StartTile
  <2>1. /\ launch' = launch /\ batch' = batch /\ pc' = "split" /\ split' = 0 /\ tile' \in Tiles
        /\ score' = [r \in 0 .. Block - 1 |-> [k \in 0 .. batch[tile'.req].sk - 1 |-> Unset]]
        /\ launch \in Launches /\ batch \in Batches
    BY <1>2 DEF StartTile, WriteInv
  <2>2. tile' \in Tiles' /\ Req' = batch[tile'.req]
    <3>1. NumRows' = NumRows
      BY <2>1 DEF NumRows, RowOf
    <3>2. Tiles' = Tiles
      BY <2>1, <3>1, Zenon DEF Tiles
    <3> QED BY <2>1, <3>2 DEF Req
  <2>3. launch.numSplits \in Nat
    BY <2>1, StateTypes, LaunchTypes
  <2>4. \A n : ~Seen(n)'
    BY <2>1 DEF Seen, InSplit
  <2>5. \A r, k : ScoreNow(r, k)' = Unset
    BY <2>4 DEF ScoreNow
  <2>6. score' = [r \in 0 .. Block - 1 |-> [k \in 0 .. Req'.sk - 1 |-> ScoreNow(r, k)']]
    BY <2>1, <2>2, <2>5
  <2>7. split' \in 0 .. launch'.numSplits /\ ~InSplit' /\ pc' \notin {"write", "done"}
    BY <2>1, <2>3 DEF InSplit
  <2> QED BY <2>1, <2>2, <2>6, <2>7 DEF ReadInv
<1>3. CASE StartSplit
  <2>1. /\ launch' = launch /\ batch' = batch /\ tile' = tile /\ buf' = buf /\ todo' = todo /\ score' = score
        /\ pc = "split" /\ ~InSplit /\ pc # "write" /\ split < launch.numSplits
    BY <1>3 DEF StartSplit, InSplit
  <2>2. tile \in Tiles /\ split \in 0 .. launch.numSplits /\ launch.numSplits \in Nat
    <3>1. tile \in Tiles /\ split \in 0 .. launch.numSplits
      BY <2>1 DEF ReadInv
    <3> QED BY <3>1, TileTypes DEF WriteInv
  <2>3. split \in 0 .. launch.numSplits - 1
    BY <2>1, <2>2
  <2>4. Bottom(split) \in Int /\ Top(split) \in Int /\ BlocksOf(split)[1] \in Nat
    BY <2>2, <2>3, SplitsApart DEF WriteInv
  <2>5. BlocksOf(split)[2] \in Int /\ (launch.kernel = "generic" => ~IsSplitKV)
    <3>1. NBlockMax(launch, Req, tile.m, launch.tileN) \in Int /\ BlocksOf(split)[2] =
            Least(NBlockMin(launch, Req, tile.m, launch.tileN) + split * BlocksPerSplit(launch, Req, tile.m)
                  + BlocksPerSplit(launch, Req, tile.m), NBlockMax(launch, Req, tile.m, launch.tileN))
      BY <2>2, Splits DEF WriteInv
    <3>2. /\ NBlockMin(launch, Req, tile.m, launch.tileN) \in Nat /\ BlocksPerSplit(launch, Req, tile.m) \in Nat
          /\ split \in Nat
      BY <2>2, Splits DEF WriteInv
    <3>3. PICK a \in Nat, b \in Nat : /\ a = NBlockMin(launch, Req, tile.m, launch.tileN)
                                      /\ b = BlocksPerSplit(launch, Req, tile.m)
      BY <3>2
    <3>4. split * b \in Int
      BY <3>2, <3>3
    <3>5. BlocksOf(split)[2] \in Int
      BY <3>1, <3>3, <3>4 DEF Least
    <3>6. launch.kernel = "generic" => launch.numSplits = 1
      BY <2>2, TileTypes, LaunchTypes DEF WriteInv
    <3> QED BY <3>5, <3>6 DEF IsSplitKV
  <2>6. CASE pc' = "split" /\ split' = split + 1
    <3>1. launch.kernel # "generic" /\ IsSplitKV /\ BlocksOf(split)[1] >= BlocksOf(split)[2]
      BY <1>3, <2>1, <2>6 DEF StartSplit, BlocksOf
    <3>2. Top(split) <= Bottom(split)
      BY <2>4, <2>5, <3>1 DEF Top, Bottom
    <3> QED BY <2>1, <2>6, <3>2, SplitEnds
  <2>7. CASE pc' = "first" /\ split' = split
    <3>1. /\ lo' = BlocksOf(split)[1]
          /\ hi' = Top(split)
          /\ launch.kernel = "generic" \/ ~(IsSplitKV /\ BlocksOf(split)[1] >= BlocksOf(split)[2])
      BY <1>3, <2>1, <2>7 DEF StartSplit, BlocksOf, Top
    <3>2. Bottom(split) < Top(split)
      BY <2>4, <2>5, <3>1 DEF Top, Bottom, Least, Most
    <3>3. \A s : BlocksOf(s)' = BlocksOf(s) /\ Top(s)' = Top(s) /\ Bottom(s)' = Bottom(s)
      BY <2>1, SameBlocks
    <3>4. ASSUME NEW n \in Int PROVE Seen(n)' <=> Seen(n)
      <4>1. Seen(n)' <=> \/ \E s \in 0 .. split - 1 : Bottom(s) <= n /\ n < Top(s)
                         \/ Top(split) <= n /\ n < Top(split)
        BY <2>7, <3>1, <3>3 DEF Seen, InSplit
      <4> QED BY <2>1, <2>4, <4>1 DEF Seen
    <3>5. /\ tile' \in Tiles'
          /\ score' = [r \in 0 .. Block - 1 |-> [k \in 0 .. Req'.sk - 1 |-> ScoreNow(r, k)']]
      BY <2>1, <3>4, NothingVisited
    <3>6. /\ split' \in 0 .. launch'.numSplits /\ split' < launch'.numSplits /\ pc' \notin {"write", "done", "left"}
          /\ lo' = BlocksOf(split)'[1]
      BY <2>1, <2>2, <2>7, <3>1, <3>3
    <3>7. InSplit'
      BY <2>7 DEF InSplit
    <3>8. hi' \in Int /\ Bottom(split) < hi' /\ hi' <= Top(split) /\ Bottom(split) <= hi'
      BY <2>4, <3>1, <3>2
    <3> QED BY <2>1, <2>7, <3>1, <3>3, <3>5, <3>6, <3>7, <3>8 DEF ReadInv
  <2> QED BY <1>3, <2>6, <2>7 DEF StartSplit
<1>4. CASE FirstBlock
  <2>1. pc = "first" /\ pc' = "causal"
    BY <1>4 DEF FirstBlock
  <2>2. InSplit /\ pc # "write" /\ Bottom(split) < hi
    BY <2>1 DEF ReadInv, InSplit
  <2> QED BY <1>4, <2>1, <2>2, OneVisited DEF FirstBlock
<1>5. CASE LoopBlock
  <2>1. pc \in {"causal", "inner", "left"} /\ pc' = pc /\ hi > Bound(pc)
    BY <1>5 DEF LoopBlock, MoreBlocks
  <2>2. InSplit /\ pc # "write" /\ hi \in Int /\ (pc = "left" => launch.kernel # "generic")
    BY <2>1 DEF ReadInv, InSplit
  <2>3. Bound(pc) \in Int /\ Bottom(split) <= Bound(pc) /\ Bottom(split) \in Int
    <3>1. split \in 0 .. launch.numSplits - 1 /\ tile \in Tiles
      <4>1. split \in 0 .. launch.numSplits /\ split < launch.numSplits /\ tile \in Tiles
        BY <2>2 DEF ReadInv
      <4>2. launch.numSplits \in Nat
        BY <4>1, TileTypes DEF WriteInv
      <4> QED BY <4>1, <4>2
    <3> QED BY <2>1, <3>1, Bounds, SplitsApart DEF WriteInv
  <2>4. Bottom(split) < hi
    BY <2>1, <2>2, <2>3
  <2> QED BY <1>5, <2>1, <2>2, <2>4, OneVisited DEF LoopBlock
<1>6. CASE EndPart
  <2>1. /\ pc \in {"causal", "inner", "left"} /\ ~MoreBlocks(pc) /\ pc' = NextPart(pc)
        /\ UNCHANGED <<launch, batch, todo, buf, tile, lo, hi, score>>
        /\ split' = IF NextPart(pc) = "split" THEN split + 1 ELSE split
    BY <1>6 DEF EndPart
  <2>2. InSplit /\ pc # "write" /\ split < launch.numSplits
    BY <2>1 DEF ReadInv, InSplit
  <2>3. CASE pc' = "split"
    <3>1. hi = Bottom(split)
      BY <2>1, <2>3, Bounds
    <3> QED BY <2>1, <2>2, <2>3, <3>1, SplitEnds
  <2>4. CASE pc' # "split"
    <3>1. pc' \in {"inner", "left"} /\ split' = split /\ InSplit' /\ (pc' = "left" => launch.kernel # "generic")
      BY <2>1, <2>4 DEF NextPart, InSplit
    <3>2. /\ Req' = Req /\ Tiles' = Tiles
          /\ \A s : BlocksOf(s)' = BlocksOf(s) /\ Top(s)' = Top(s) /\ Bottom(s)' = Bottom(s)
      BY <2>1, SameBlocks
    <3>3. \A n \in Int : Seen(n)' <=> Seen(n)
      BY <2>1, <2>2, <3>1, <3>2 DEF Seen
    <3>4. /\ tile' \in Tiles'
          /\ score' = [r \in 0 .. Block - 1 |-> [k \in 0 .. Req'.sk - 1 |-> ScoreNow(r, k)']]
      BY <2>1, <2>2, <3>3, NothingVisited
    <3>5. /\ split \in 0 .. launch.numSplits /\ split < launch.numSplits /\ lo = BlocksOf(split)[1] /\ hi \in Int
          /\ Bottom(split) <= hi /\ hi <= Top(split) /\ hi < Top(split)
      BY <2>1, <2>2 DEF ReadInv
    <3> QED BY <2>1, <3>1, <3>2, <3>4, <3>5 DEF ReadInv
  <2> QED BY <2>3, <2>4
<1>7. CASE Finish
  <2>1. /\ pc = "split" /\ split = launch.numSplits /\ pc' = "done" /\ split' = split
        /\ UNCHANGED <<launch, batch, todo, buf, tile, score>>
        /\ ~InSplit /\ ~InSplit' /\ pc # "write"
    BY <1>7 DEF Finish, InSplit
  <2>2. \A s : Top(s)' = Top(s) /\ Bottom(s)' = Bottom(s)
    BY <2>1, SameBlocks
  <2>3. \A n \in Int : Seen(n)' <=> Seen(n)
    BY <2>1, <2>2 DEF Seen
  <2>4. /\ tile' \in Tiles'
        /\ score' = [r \in 0 .. Block - 1 |-> [k \in 0 .. Req'.sk - 1 |-> ScoreNow(r, k)']]
    BY <2>1, <2>3, NothingVisited
  <2>5. split \in 0 .. launch.numSplits
    BY <2>1 DEF ReadInv
  <2> QED BY <2>1, <2>4, <2>5 DEF ReadInv
<1>8. CASE UNCHANGED vars
  <2>1. /\ UNCHANGED <<launch, batch, todo, buf, tile, score>> /\ pc' = pc /\ split' = split /\ lo' = lo /\ hi' = hi
    BY <1>8 DEF vars
  <2>2. CASE pc = "write"
    BY <2>1, <2>2 DEF ReadInv, InSplit
  <2>3. CASE pc # "write"
    <3>1. \A s : BlocksOf(s)' = BlocksOf(s) /\ Top(s)' = Top(s) /\ Bottom(s)' = Bottom(s)
      BY <2>1, SameBlocks
    <3>2. InSplit' = InSplit
      BY <2>1 DEF InSplit
    <3>3. \A n \in Int : Seen(n)' <=> Seen(n)
      BY <2>1, <3>1, <3>2 DEF Seen
    <3>4. /\ tile' \in Tiles'
          /\ score' = [r \in 0 .. Block - 1 |-> [k \in 0 .. Req'.sk - 1 |-> ScoreNow(r, k)']]
      BY <2>1, <2>3, <3>3, NothingVisited
    <3> QED BY <2>1, <2>3, <3>1, <3>2, <3>4 DEF ReadInv
  <2> QED BY <2>2, <2>3
<1> QED BY <1>1, <1>2, <1>3, <1>4, <1>5, <1>6, <1>7, <1>8 DEF Next, Done

LEMMA ReaderInvariant == ASSUME FusedHasNoRightWindow PROVE Spec => [](WriteInv /\ ReadInv)
<1>1. Init => WriteInv /\ ReadInv
  BY InitWrites DEF Init, ReadInv, InSplit
<1>2. WriteInv /\ ReadInv /\ [Next]_vars => WriteInv' /\ ReadInv'
  BY WriteStep, ReadStep
<1> QED BY <1>1, <1>2, PTL DEF Spec

\* A computed score, read off the block its key lies in.
LEMMA ScoreIs ==
  ASSUME WriteInv, ReadInv, pc # "write", NEW r \in 0 .. Block - 1, NEW k \in 0 .. Req.sk - 1
  PROVE  \E n \in Int, j \in 0 .. launch.tileN - 1 :
           /\ n * launch.tileN + j = k /\ n = k \div launch.tileN
           /\ score[r][k] = IF Seen(n) THEN Element(r, n, j) ELSE Unset
<1>1. tile \in Tiles /\ score[r][k] = ScoreNow(r, k)
  <2>1. tile \in Tiles /\ score = [q \in 0 .. Block - 1 |-> [c \in 0 .. Req.sk - 1 |-> ScoreNow(q, c)]]
    BY DEF ReadInv
  <2> QED BY <2>1
<1>2. PICK t \in Nat \ {0} : t = launch.tileN
  BY <1>1, TileTypes DEF WriteInv
<1>3. k \in Nat
  OBVIOUS
<1>4. PICK n \in Nat : n = k \div t /\ k - n * t \in 0 .. t - 1 /\ n * t + (k - n * t) = k
  BY <1>3, BlockOfKey
<1>5. score[r][k] = IF Seen(n) THEN Element(r, n, k - n * t) ELSE Unset
  BY <1>1, <1>2, <1>4 DEF ScoreNow
<1>6. PICK j \in 0 .. t - 1 : j = k - n * t
  BY <1>4
<1>7. n * t + j = k
  BY <1>4, <1>6
<1> QED BY <1>2, <1>4, <1>5, <1>6, <1>7

LEMMA ScoresAreBias == ASSUME Sm90TileIsBlock, WriteInv, ReadInv PROVE BiasIsDistance
<1> SUFFICES ASSUME pc # "write", NEW r \in RowsOf(Req), NEW k \in 0 .. Req.sk - 1,
                    Visible(launch, Req, tile.m * Block + r, k), score[r][k] # Unset
             PROVE  score[r][k] = Reference(launch, Req, tile.m * Block + r, k)
  BY Zenon DEF BiasIsDistance
<1>1. r \in 0 .. Block - 1 /\ tile.m * Block + r < Req.sq /\ todo = {} /\ tile \in Tiles
  BY DEF RowsOf, WriteInv, ReadInv
<1>2. PICK n \in Int, j \in 0 .. launch.tileN - 1 : n * launch.tileN + j = k /\ score[r][k] = Element(r, n, j)
  BY <1>1, ScoreIs
<1>3. n * launch.tileN + j \in Nat
  BY <1>2
<1>4. Visible(launch, Req, tile.m * Block + r, n * launch.tileN + j)
  BY <1>2
<1>5. Element(r, n, j) = Reference(launch, Req, tile.m * Block + r, n * launch.tileN + j)
  BY <1>1, <1>3, <1>4, ElementIsBias
<1> QED BY <1>2, <1>5

\* A block that a row of the tile sees lies between NBlockMin and NBlockMax.
LEMMA BlockInRange ==
  ASSUME WriteInv, tile \in Tiles, NEW r \in RowsOf(Req), NEW k \in 0 .. Req.sk - 1,
         Visible(launch, Req, tile.m * Block + r, k), NEW n \in Int, n = k \div launch.tileN
  PROVE  /\ NBlockMin(launch, Req, tile.m, launch.tileN) <= n
         /\ n < NBlockMax(launch, Req, tile.m, launch.tileN)
<1> DEFINE t == launch.tileN
           mn == NBlockMin(launch, Req, tile.m, t)
           mx == NBlockMax(launch, Req, tile.m, t)
<1>0. IsLaunch(launch) /\ tile.m \in Nat /\ Req \in Requests /\ t \in Nat \ {0}
  BY TileTypes DEF WriteInv
<1>1. /\ r \in 0 .. Block - 1 /\ k \in Nat /\ k < Req.sk /\ Block \in Nat
      /\ launch.local \in BOOLEAN /\ launch.windowLeft \in Nat /\ launch.windowRight \in Nat /\ Ctx(Req) \in Nat
  BY <1>0, LaunchTypes, RequestTypes DEF RowsOf
<1>2. PICK mb \in Nat : mb = tile.m * Block /\ (tile.m + 1) * Block = mb + Block
  <2>1. tile.m * Block \in Nat /\ (tile.m + 1) * Block = tile.m * Block + Block
    BY <1>0, <1>1
  <2> QED BY <2>1
<1>3. k < mb + r + 1 + Ctx(Req) + launch.windowRight
  BY <1>2 DEF Visible, NIdxRight
<1>4. launch.local => k >= mb + Ctx(Req) - launch.windowLeft
  <2>1. launch.local => NIdxLeft(launch, Req, mb + r) <= k
    BY <1>2 DEF Visible
  <2> QED BY <1>1, <1>2, <2>1 DEF NIdxLeft, Most
<1>5. mn \in Nat /\ t * mn <= k
  BY <1>0, <1>1, <1>2, <1>4, MinIs
<1>6. mx \in Int /\ k < t * mx
  <2>1. k < (tile.m + 1) * Block + Ctx(Req) + launch.windowRight
    BY <1>1, <1>2, <1>3
  <2> QED BY <1>0, <1>1, <2>1, MaxIs
<1> HIDE DEF t, mn, mx
<1>7. t * n <= k /\ k < t * n + t
  <2>1. n = k \div t /\ k \in Int
    BY <1>1 DEF t
  <2>2. PICK w \in Nat \ {0} : w = t
    BY <1>0
  <2>3. w * (k \div w) <= k /\ k < w * (k \div w) + w
    BY <2>1, <2>2, Quotient, Zenon
  <2> QED BY <2>1, <2>2, <2>3
<1>8. t * mn < t * n + t /\ t * n < t * mx /\ t * n \in Int /\ t * mn \in Int /\ t * mx \in Int
  <2>1. t * n \in Int /\ t * mn \in Int /\ t * mx \in Int
    BY <1>0, <1>5, <1>6
  <2> QED BY <1>0, <1>1, <1>5, <1>6, <1>7, <2>1
<1>9. mn <= n
  BY <1>0, <1>5, <1>8, Monotone
<1>10. n < mx
  <2>1. SUFFICES ASSUME mx <= n PROVE FALSE
    BY <1>6
  <2>2. t * mx <= t * n
    BY <1>0, <1>6, <2>1, Monotone
  <2> QED BY <1>8, <2>2
<1> QED BY <1>9, <1>10 DEF t, mn, mx

\* Every block between them belongs to a split.
LEMMA BlockHasSplit ==
  ASSUME WriteInv, tile \in Tiles, NEW n \in Int,
         NBlockMin(launch, Req, tile.m, launch.tileN) <= n, n < NBlockMax(launch, Req, tile.m, launch.tileN)
  PROVE  \E s \in 0 .. launch.numSplits - 1 : Bottom(s) <= n /\ n < Top(s)
<1> DEFINE mn == NBlockMin(launch, Req, tile.m, launch.tileN)
           mx == NBlockMax(launch, Req, tile.m, launch.tileN)
           bps == BlocksPerSplit(launch, Req, tile.m)
           N == launch.numSplits
<1>1. /\ mn \in Nat /\ mx \in Int /\ bps \in Nat /\ N \in Nat \ {0}
      /\ mn < mx => bps # 0 /\ mx - mn <= N * bps
      /\ \A s : BlocksOf(s) = <<mn + s * bps, Least(mn + s * bps + bps, mx)>>
  BY TileTypes, Splits DEF WriteInv
<1> HIDE DEF mn, mx, bps, N
<1>2. bps \in Nat \ {0} /\ mx - mn <= N * bps /\ N * bps \in Nat /\ n - mn \in Nat /\ n - mn < mx - mn
  BY <1>1 DEF mn, mx
<1>3. PICK s \in 0 .. N - 1 : s * bps <= n - mn /\ n - mn < s * bps + bps /\ s * bps \in Nat
  <2>1. n - mn < bps * N
    BY <1>1, <1>2
  <2>2. PICK a \in Nat : a = n - mn
    BY <1>2
  <2>3. a \div bps \in 0 .. N - 1
    BY <1>1, <1>2, <2>1, <2>2, SliceExists
  <2>4. bps * (a \div bps) <= a /\ a < bps * (a \div bps) + bps
    <3>1. PICK b \in Nat \ {0} : b = bps
      BY <1>2
    <3>2. a \in Int
      BY <2>2
    <3>3. b * (a \div b) <= a /\ a < b * (a \div b) + b
      BY <3>2, Quotient, Zenon
    <3> QED BY <3>1, <3>3
  <2>5. PICK q \in 0 .. N - 1 : q = a \div bps
    BY <2>3
  <2>6. q * bps = bps * q /\ q * bps \in Nat
    BY <1>1, <1>2, <2>5
  <2> QED BY <2>2, <2>4, <2>5, <2>6
<1>4. BlocksOf(s)[1] = mn + s * bps /\ BlocksOf(s)[2] = Least(mn + s * bps + bps, mx)
  BY <1>1
<1>5. BlocksOf(s)[1] <= n /\ n < BlocksOf(s)[2] /\ BlocksOf(s)[1] \in Nat /\ BlocksOf(s)[2] \in Int
  <2>1. PICK a \in Nat : a = s * bps
    BY <1>3
  <2> QED BY <1>1, <1>2, <1>3, <1>4, <2>1 DEF Least
<1>6. Bottom(s) <= n /\ n < Top(s)
  BY <1>5 DEF Bottom, Top, Least, Most
<1> QED BY <1>3, <1>6 DEF N

LEMMA KeysAreVisitedOnce == ASSUME WriteInv, ReadInv PROVE KeysOnce
<1>1. ASSUME pc = "done", NEW r \in RowsOf(Req), NEW k \in 0 .. Req.sk - 1,
             Visible(launch, Req, tile.m * Block + r, k)
      PROVE  score[r][k] # Unset
  <2>1. r \in 0 .. Block - 1 /\ tile \in Tiles /\ todo = {} /\ pc # "write" /\ split = launch.numSplits
    BY <1>1 DEF RowsOf, ReadInv, WriteInv
  <2>2. PICK n \in Int, j \in 0 .. launch.tileN - 1 :
          n = k \div launch.tileN /\ score[r][k] = IF Seen(n) THEN Element(r, n, j) ELSE Unset
    BY <2>1, ScoreIs
  <2>3. Seen(n)
    BY <1>1, <2>1, <2>2, BlockInRange, BlockHasSplit DEF Seen
  <2>4. Element(r, n, j) \in Nat \cup {Zero, NegInf}
    BY <2>1, ElementTypes
  <2> QED BY <2>2, <2>3, <2>4 DEF Zero, NegInf, Unset
<1>2. ASSUME pc # "write", NEW r \in 0 .. Block - 1, NEW k \in 0 .. Req.sk - 1
      PROVE  score[r][k] # Clash
  <2>1. tile \in Tiles /\ todo = {}
    BY <1>2 DEF ReadInv, WriteInv
  <2>2. PICK n \in Int, j \in 0 .. launch.tileN - 1 : score[r][k] = IF Seen(n) THEN Element(r, n, j) ELSE Unset
    BY <1>2, ScoreIs
  <2>3. Element(r, n, j) \in Nat \cup {Zero, NegInf}
    BY <2>1, ElementTypes
  <2> QED BY <2>2, <2>3 DEF Zero, NegInf, Unset, Clash
<1> QED BY <1>1, <1>2, Zenon DEF KeysOnce

\* Every computed score of a visible key got the bias of its distance, for every length
\* of the requests, every tile width, window, number of splits and writer.
THEOREM BiasIsThatOfTheDistance == ASSUME FusedHasNoRightWindow, Sm90TileIsBlock PROVE Spec => []BiasIsDistance
<1>1. Spec => [](WriteInv /\ ReadInv)
  BY ReaderInvariant
<1>2. WriteInv /\ ReadInv => BiasIsDistance
  BY ScoresAreBias
<1> QED BY <1>1, <1>2, PTL

\* The splits and the parts of the mainloop visit every visible key, and none twice.
THEOREM KeysAreVisited == ASSUME FusedHasNoRightWindow PROVE Spec => []KeysOnce
<1>1. Spec => [](WriteInv /\ ReadInv)
  BY ReaderInvariant
<1>2. WriteInv /\ ReadInv => KeysOnce
  BY KeysAreVisitedOnce
<1> QED BY <1>1, <1>2, PTL

-----------------------------------------------------------------------------
(* The bias tiles that are copied.                                         *)

CopyInv ==
  /\ launch \in Launches /\ batch \in Batches
  /\ pc # "write" => tile \in Tiles /\ split \in Nat
  /\ hi \in Int
  /\ TilesInBuffer

\* A score tile that gets a bias tile gets one of the row's.
LEMMA AppliedTile ==
  ASSUME launch \in Launches, batch \in Batches, tile \in Tiles, NEW n \in Int, Applies(n)
  PROVE  BiasTile(n) \in 0 .. NumTiles(launch) - 1
<1>1. IsLaunch(launch) /\ Req \in Requests /\ tile.m \in Nat
  BY TileTypes
<1>2. /\ NumTiles(launch) \in Nat /\ TileShiftGeneric(launch, Req, tile.m) \in Int
      /\ (Block * NBlockMax(launch, Req, tile.m, Block)) \div launch.tileN
           = NumTiles(launch) - TileShiftGeneric(launch, Req, tile.m)
  BY <1>1, Shift
<1>3. CASE launch.kernel = "sm90"
  BY <1>3 DEF Applies, AppliesSm90, BiasTile
<1>4. CASE launch.kernel = "generic"
  BY <1>2, <1>4 DEF Applies, AppliesGeneric, BiasTile
<1> QED BY <1>3, <1>4 DEF Applies

LEMMA CopyStep == ASSUME CopyInv, [Next]_vars PROVE CopyInv'
<1>0. launch \in Launches /\ batch \in Batches /\ hi \in Int /\ TilesInBuffer
  BY DEF CopyInv
<1>1. CASE \E p \in todo : LowLatency(p) \/ Throughput(p) \/ Small(p)
  <2>1. pc' = "write" /\ launch' = launch /\ batch' = batch /\ hi' = hi /\ tilesRead' = tilesRead
    BY <1>1 DEF LowLatency, Throughput, Small, RunProgram
  <2> QED BY <1>0, <2>1 DEF CopyInv, TilesInBuffer
<1>2. CASE StartTile
  <2>1. /\ launch' = launch /\ batch' = batch /\ pc' = "split" /\ split' = 0 /\ tile' \in Tiles
        /\ hi' = hi /\ tilesRead' = tilesRead
    BY <1>2 DEF StartTile
  <2>2. NumRows' = NumRows
    BY <2>1 DEF NumRows, RowOf
  <2>3. Tiles' = Tiles
    BY <2>1, <2>2, Zenon DEF Tiles
  <2> QED BY <1>0, <2>1, <2>3 DEF CopyInv, TilesInBuffer
<1>3. ASSUME pc # "write", pc' # "write", UNCHANGED <<launch, batch, tile>>, split' \in {split, split + 1},
             hi' \in Int, tilesRead' = tilesRead \/ Visit(hi - 1)
      PROVE  CopyInv'
  <2>1. tile \in Tiles /\ split \in Nat /\ hi \in Int
    BY <1>3 DEF CopyInv
  <2>2. Tiles' = Tiles
    BY <1>3, SameBlocks
  <2>3. tilesRead' \subseteq 0 .. NumTiles(launch) - 1
    <3>1. CASE tilesRead' = tilesRead
      BY <1>0, <3>1 DEF TilesInBuffer
    <3>2. CASE Visit(hi - 1)
      <4>1. hi - 1 \in Int
        BY <2>1, <3>2
      <4>2. Applies(hi - 1) => BiasTile(hi - 1) \in 0 .. NumTiles(launch) - 1
        BY <1>0, <2>1, <4>1, AppliedTile
      <4>3. tilesRead' = IF Applies(hi - 1) THEN tilesRead \cup {BiasTile(hi - 1)} ELSE tilesRead
        BY <3>2 DEF Visit
      <4> QED BY <1>0, <4>2, <4>3 DEF TilesInBuffer
    <3> QED BY <1>3, <3>1, <3>2
  <2>4. split' \in Nat
    BY <1>3, <2>1
  <2> QED BY <1>0, <1>3, <2>1, <2>2, <2>3, <2>4 DEF CopyInv, TilesInBuffer
<1>4. CASE StartSplit
  <2>1. pc = "split" /\ pc' \in {"split", "first"} /\ UNCHANGED <<launch, batch, tile, tilesRead>> /\ split' \in {split, split + 1}
    BY <1>4 DEF StartSplit
  <2>2. tile \in Tiles /\ split \in Nat
    BY <2>1 DEF CopyInv
  <2>3. BlocksOf(split)[2] \in Int
    <3>1. PICK a \in Nat, b \in Nat, c \in Int : BlocksOf(split) = <<a + split * b, Least(a + split * b + b, c)>>
      <4>1. /\ NBlockMin(launch, Req, tile.m, launch.tileN) \in Nat
            /\ NBlockMax(launch, Req, tile.m, launch.tileN) \in Int
            /\ BlocksPerSplit(launch, Req, tile.m) \in Nat
            /\ BlocksOf(split) = <<NBlockMin(launch, Req, tile.m, launch.tileN) + split * BlocksPerSplit(launch, Req, tile.m),
                                   Least(NBlockMin(launch, Req, tile.m, launch.tileN)
                                           + split * BlocksPerSplit(launch, Req, tile.m)
                                           + BlocksPerSplit(launch, Req, tile.m),
                                         NBlockMax(launch, Req, tile.m, launch.tileN))>>
        BY <1>0, <2>2, Splits
      <4> QED BY <4>1
    <3>2. PICK d \in Int : d = split * b
      BY <2>2, <3>1
    <3>3. BlocksOf(split)[2] = Least(a + d + b, c)
      BY <3>1, <3>2
    <3> QED BY <3>1, <3>2, <3>3 DEF Least
  <2>4. hi' \in {BlocksOf(split)[2], Most(BlocksOf(split)[2], 1)}
    BY <1>4 DEF StartSplit, BlocksOf
  <2>5. hi' \in Int
    BY <2>3, <2>4 DEF Most
  <2> QED BY <1>3, <2>1, <2>5
<1>5. CASE FirstBlock \/ LoopBlock
  <2>1. /\ pc \in {"first", "causal", "inner", "left"} /\ pc' \in {"causal", "inner", "left"} /\ Visit(hi - 1)
        /\ hi' = hi - 1 /\ UNCHANGED <<launch, batch, tile>> /\ split' = split
    BY <1>5 DEF FirstBlock, LoopBlock
  <2>2. hi' \in Int
    BY <2>1 DEF CopyInv
  <2> QED BY <1>3, <2>1, <2>2
<1>6. CASE EndPart \/ Finish
  <2>1. /\ pc \in {"causal", "inner", "left", "split"} /\ pc' \in {"inner", "left", "split", "done"}
        /\ hi' = hi /\ UNCHANGED <<launch, batch, tile, tilesRead>> /\ split' \in {split, split + 1}
    BY <1>6 DEF EndPart, Finish, NextPart
  <2> QED BY <1>3, <2>1 DEF CopyInv
<1>7. CASE UNCHANGED vars
  <2>1. /\ UNCHANGED <<launch, batch, tile, tilesRead>> /\ split' = split /\ hi' = hi /\ pc' = pc
    BY <1>7 DEF vars
  <2>2. CASE pc = "write"
    BY <1>0, <2>1, <2>2 DEF CopyInv, TilesInBuffer
  <2>3. CASE pc # "write"
    BY <1>3, <2>1, <2>3 DEF CopyInv
  <2> QED BY <2>2, <2>3
<1> QED BY <1>1, <1>2, <1>4, <1>5, <1>6, <1>7 DEF Next, Done

\* No copy of a bias tile, which nothing predicates, leaves the row: for every launch,
\* whatever the windows and the writers.
THEOREM CopiesStayInTheRow == Spec => []TilesInBuffer
<1>1. Init => CopyInv
  BY DEF Init, CopyInv, TilesInBuffer
<1>2. CopyInv /\ [Next]_vars => CopyInv'
  BY CopyStep
<1>3. CopyInv => TilesInBuffer
  BY DEF CopyInv
<1> QED BY <1>1, <1>2, <1>3, PTL DEF Spec
=============================================================================
