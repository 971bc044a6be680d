----------------------------- MODULE MCDispatch -----------------------------
(***************************************************************************)
(* The calls of the serving layers, the harnesses and the API around them, *)
(* in pairs.  Left out are combinations that none of them makes and on     *)
(* which the code is known to break one of the properties (README): a      *)
(* mask_mod with a bias and a window; per-head block sparsity with a bias  *)
(* on packed sequences, sm_100; metadata of the caller's with more splits  *)
(* than the combine kernel takes, sm_100; a bias on head size 256, sm_100. *)
(***************************************************************************)
EXTENDS Dispatch

\* A decode step of a global layer.
Base ==
  [arch |-> 90, dim |-> <<128, 128>>, heads |-> 8, kvHeads |-> 1, batch |-> 2, q |-> 1, k |-> 4096,
   cuQ |-> TRUE, cuK |-> FALSE, usedK |-> TRUE, page |-> None, causal |-> TRUE, left |-> None,
   right |-> None, mask |-> FALSE, score |-> "none", sink |-> FALSE, tile |-> None, splits |-> 1,
   pack |-> None, sparse |-> "none", lse |-> FALSE, max |-> FALSE, bias |-> "rel", extent |-> 1024,
   meta |-> FALSE, noMeta |-> FALSE, fake |-> FALSE]

Archs == {80, 90, 100, 120}
Window(c, l, r) == [c EXCEPT !.causal = FALSE, !.left = l, !.right = r]

\* Layers with a bias: decode and prefill, global and sliding window, either writer.
Layers ==
  {[x EXCEPT !.arch = a, !.q = q, !.bias = b] :
     x \in {Base, [Base EXCEPT !.causal = FALSE, !.left = 511, !.right = 0, !.extent = 512]},
     a \in Archs, q \in {1, 200}, b \in {"rel", "sheared"}}

\* Splits, asked for, left to the heuristic, more than the combine kernel takes;
\* with metadata of the caller's, without any, and in fake mode.
Splits ==
  {[Base EXCEPT !.arch = a, !.splits = s, !.meta = m, !.noMeta = n, !.lse = TRUE] :
     a \in {90, 100}, s \in {0, 2, 40}, m \in BOOLEAN, n \in BOOLEAN}
  \cup {[Base EXCEPT !.arch = a, !.splits = 4] : a \in {80, 120}}
  \cup {[Base EXCEPT !.splits = 300], [Base EXCEPT !.splits = 4, !.sink = TRUE],
        [Base EXCEPT !.splits = 4, !.lse = TRUE, !.max = TRUE]}
  \cup {[Base EXCEPT !.arch = 100, !.dim = <<192, 128>>, !.bias = "none", !.splits = s, !.k = k] :
          s \in {0, 8}, k \in {4096, 8192}}
  \cup {[Base EXCEPT !.fake = TRUE, !.arch = a, !.splits = 2] : a \in {90, 100}}

\* Attention without a bias: every window, masks and score_mods, head sizes.
Plain ==
  {[Window([Base EXCEPT !.arch = a, !.bias = "none", !.mask = m, !.q = 200, !.cuQ = v], w[1], w[2]) EXCEPT !.causal = w[3]] :
     a \in {90, 100}, m \in BOOLEAN, v \in BOOLEAN,
     w \in {<<None, None, FALSE>>, <<None, None, TRUE>>, <<None, 0, FALSE>>, <<None, 5, FALSE>>,
            <<127, 0, FALSE>>, <<127, None, TRUE>>, <<-9, 5, FALSE>>}}
  \cup {[Base EXCEPT !.bias = b, !.dim = <<d, d>>, !.arch = a, !.causal = u, !.sparse = s] :
          b \in {"none", "rel"}, d \in {64, 96, 192, 256, 288}, a \in {90}, u \in BOOLEAN,
          s \in {"none", "shared"}}
  \cup {[Base EXCEPT !.arch = 100, !.bias = "none", !.sparse = s, !.heads = h] :
          s \in {"none", "shared", "perHead"}, h \in {1, 6, 8}}
  \cup {[Base EXCEPT !.arch = a, !.bias = "none", !.score = s, !.page = pg] :
          a \in Archs, s \in {"none", "softcap", "user", "both"}, pg \in {None, 16, 128}}
  \cup {[Base EXCEPT !.arch = 100, !.dim = <<256, 256>>, !.bias = "none", !.usedK = u, !.score = s] :
          u \in BOOLEAN, s \in {"none", "softcap"}}

MCCalls == Layers \cup Splits \cup Plain \cup {[Base EXCEPT !.k = 0], [Base EXCEPT !.tile = <<128, 64>>, !.arch = 80]}
=============================================================================
