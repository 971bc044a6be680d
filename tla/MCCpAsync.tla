------------------------------ MODULE MCCpAsync ------------------------------
(* The launches of the generic kernel for TLC.                               *)
EXTENDS CpAsyncPipeline

Launch(s, r, m, b) == [stages |-> s, qInRegs |-> r, bias |-> b # <<0, 0>>, blocks |-> m, kMin |-> b[1], kMax |-> b[2]]

\* Without a bias, with tiles for all blocks, for the newest ones, and, on the
\* wasted tile, for none; five blocks wrap three stages.
MCTiles ==
  {Launch(x[1], x[2], m, b) : x \in {<<1, FALSE>>, <<1, TRUE>>, <<2, FALSE>>, <<3, FALSE>>},
                              m \in {1, 2, 5}, b \in {<<0, 0>>, <<0, 5>>, <<3, 5>>}}
  \cup {Launch(1, FALSE, 0, b) : b \in {<<0, 0>>, <<2, 0>>}}
=============================================================================
