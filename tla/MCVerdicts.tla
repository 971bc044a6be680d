------------------------------ MODULE MCVerdicts ------------------------------
(* Inputs of the verdict tools for TLC.                                      *)
EXTENDS Verdicts

\* Comparisons of two records of up to two positions: tokens that part or end
\* early, logprobs that are missing, equal, or one, two or four apart.
Rec(tokens, lp) == [tokens |-> tokens, lp |-> lp]
Comparisons ==
  {[a |-> Rec(<<"x", "x">>, <<p, 0>>), b |-> Rec(t, [i \in DOMAIN t |-> IF i = 1 THEN 0 ELSE q])] :
     p \in {Null, 0, 1}, q \in {0, 2, 4}, t \in {<<>>, <<"x">>, <<"x", "x">>, <<"x", "y">>, <<"y", "x">>}}
Clean == [a |-> Rec(<<"x">>, <<0>>), b |-> Rec(<<"x">>, <<0>>)]
Gates == {"prompt_echo", "decode", "batch_stock", "batch_ours"}
MCGateInputs ==
  {[steps |-> s, data |-> [g \in Gates |-> IF g = gate THEN <<c, d>> ELSE <<Clean, Clean>>]] :
     s \in 0 .. 4, gate \in Gates, c \in Comparisons, d \in Comparisons}

\* Cases: slower, equal, faster and nearly equal totals, with and without a
\* ShearingBias kernel; a failure, a case without kernels, and two wrong sums.
Case1(keys, total, shear, rest, cut) == [keys |-> keys, total |-> total, shear |-> shear, rest |-> rest, cut |-> cut]
Ok == {"total", "kernels"}
Mine == {Case1(Ok, 100, 0, 100, FALSE), Case1(Ok, 100, 10, 90, FALSE), Case1(Ok, 100, 0, 60, TRUE),
         Case1({"error"}, 0, 0, 0, FALSE), Case1(Ok, 100, 0, 60, FALSE), Case1(Ok, 100, 0, 140, TRUE)}
Theirs == {Case1(Ok, t, 0, t, FALSE) : t \in {80, 96, 100, 104, 120}}
            \cup {Case1({"error"}, 0, 0, 0, FALSE), Case1({"error", "total"}, 100, 0, 0, FALSE)}
Files(workloads, bodies) ==
  UNION {[cs -> bodies] : cs \in SUBSET workloads}
WithPrototype(fs) ==
  fs \cup {[c \in DOMAIN f \cup {"relproj"} |-> IF c = "relproj" THEN Case1(Ok, 70, 0, 70, FALSE) ELSE f[c]] : f \in fs}
MCLatencyInputs ==
  [ours : WithPrototype(Files({"global", "swa"}, Mine)), base : Files({"global", "swa"}, Theirs) \cup WithPrototype(Files({"swa"}, Theirs)),
   band : {0, 5, 9}, strict : {FALSE}, failOnSlower : BOOLEAN, same : {FALSE}, readable : {TRUE}]
    \cup [ours : Files({"global"}, Mine), base : Files({"global"}, Theirs), band : {-1, 0, 5}, strict : BOOLEAN,
          failOnSlower : BOOLEAN, same : BOOLEAN, readable : BOOLEAN]

Run == [torn |-> TRUE, value |-> Null, failed |-> 0]
Runs == {Run} \cup [torn : {FALSE}, value : {Null, 0, 2, 5}, failed : {0, 1}]
MCTableInputs ==
  [stock : BoundedSeq({r \in Runs : r.failed = 0}, 3), ours : BoundedSeq({r \in Runs : r.failed = 0}, 3), better : {"low"},
   manifest : {[form |-> "absent", inlen |-> 0]}]
    \cup [stock : BoundedSeq(Runs, 2), ours : BoundedSeq({r \in Runs : r.value \in {Null, 2}}, 2), better : Better,
          manifest : [form : {"absent", "torn", "matrix.mixes", "matrix", "mixes"}, inlen : {0, 2048}]]
=============================================================================
