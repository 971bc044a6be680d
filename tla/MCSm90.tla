------------------------------- MODULE MCSm90 -------------------------------
(* Instances of Sm90Pipeline for TLC: the block ranges of a work tile.      *)
EXTENDS Sm90PipelineInv

\* One block, a full prefix of blocks, and a sliding window's range; five
\* blocks wrap two stages more than twice.
TileRanges == {<<0, 1>>, <<0, 5>>, <<2, 4>>}
\* A split may own an empty range.
SplitRanges == {<<3, 3>>, <<1, 2>>, <<0, 3>>}
=============================================================================
