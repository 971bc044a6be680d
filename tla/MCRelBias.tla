------------------------------ MODULE MCRelBias ------------------------------
(* Instances of RelBias for TLC, with 128 scaled down to 4 and tile_n = 64   *)
(* to 2: every length around one and two blocks, alone and behind another    *)
(* request, and longer contexts for the splits.                              *)
EXTENDS RelBias

Launch(kernel, tileN, relExtent, numSplits) ==
  [kernel |-> kernel, tileN |-> tileN, relExtent |-> relExtent, numSplits |-> numSplits,
   local |-> FALSE, windowLeft |-> 0, windowRight |-> 0,
   writer |-> "shearing", blockM |-> 4, blockN |-> 4, groupM |-> 1]

Windowed(l, left, right) == [l EXCEPT !.local = TRUE, !.windowLeft = left, !.windowRight = right]
Fused(l, writer, blockM, blockN, groupM) ==
  [l EXCEPT !.writer = writer, !.blockM = blockM, !.blockN = blockN, !.groupM = groupM]

MCLaunches == {
  Launch("sm90", 4, 4, 3),
  Fused(Launch("sm90", 4, 8, 1), "throughput", 2, 4, 2),
  Fused(Windowed(Launch("sm90", 4, 8, 1), 7, 0), "lowLatency", 4, 2, 1),
  Fused(Windowed(Launch("sm90", 4, 4, 1), 3, 0), "small", 1, 4, 1),
  Launch("generic", 2, 4, 1),
  Windowed(Launch("generic", 2, 8, 1), 7, 0),
  Launch("inkernel", 4, 8, 3),
  Windowed(Launch("inkernel", 4, 8, 2), 7, 0)}

Behind(start, q, k) == [start |-> start, sq |-> q, sk |-> k]
Request(q, k) == Behind(0, q, k)

\* Prefill, chunked prefill and decode, with ragged and whole last blocks.
Short == {<<Request(q, k)>> : q \in {1, 2, 4, 5, 6, 8}, k \in 1 .. 13}
Long == {<<Request(q, k)>> : q \in {1, 3, 4, 6}, k \in {6, 9, 12, 17, 20, 23}}
\* Varlen batches, with a wasted tile.
Varlen == {<<Request(5, 7), Behind(5, 0, 0)>>, <<Request(0, 0), Request(3, 9)>>,
            <<Request(1, 6), Behind(1, 2, 2), Behind(3, 1, 9)>>}
MCBatches == {b \in Short \cup Long : b[1].sq <= b[1].sk} \cup Varlen
=============================================================================
