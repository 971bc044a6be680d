--------------------------- MODULE AttentionTile ---------------------------
(***************************************************************************)
(* What one CTA of the attention kernel promises for its work tile, with   *)
(* no smem, barrier or pipeline in it: every worker folds the tile's K and *)
(* V blocks into its accumulator, newest block first, each exactly once,   *)
(* always combining the scores of a block with the mask and bias of the    *)
(* same block and with its V; only then are the output rows stored.        *)
(***************************************************************************)
EXTENDS Integers, Sequences

CONSTANT Workers

VARIABLES lo, hi,   \* the tile's blocks are lo .. hi - 1
          acc,      \* worker -> the blocks accumulated so far
          stored    \* worker -> its rows are in global memory, and right

vars == <<lo, hi, acc, stored>>

Init == /\ lo \in Nat /\ hi \in Int
        /\ acc = [w \in Workers |-> <<>>]
        /\ stored = [w \in Workers |-> FALSE]

Finished(w) == Len(acc[w]) >= hi - lo

Accumulate(w) ==
  /\ ~Finished(w)
  /\ LET b == hi - 1 - Len(acc[w])
     IN acc' = [acc EXCEPT ![w] = Append(@, [k |-> b, n |-> b, v |-> b])]
  /\ UNCHANGED <<lo, hi, stored>>

\* Rows are stored together or worker by worker, never before every worker
\* has folded in its last block.
Store ==
  /\ \A w \in Workers : Finished(w)
  /\ \E W \in SUBSET Workers : stored' = [w \in Workers |-> stored[w] \/ w \in W]
  /\ UNCHANGED <<lo, hi, acc>>

Next == Store \/ \E w \in Workers : Accumulate(w)

Safety == Init /\ [][Next]_vars

Spec == Safety /\ <>(\A w \in Workers : stored[w])
=============================================================================
