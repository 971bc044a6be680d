------------------------------- MODULE Verdicts -------------------------------
(***************************************************************************)
(* The tools that turn measurements into verdicts, each a function of what *)
(* it reads: gate_logit_parity.py once its servers are down,               *)
(* summarize_results.py (kernel latency of two artifacts) and              *)
(* gate_summarize.py (end to end, the median of the runs).  Measured       *)
(* numbers are integers; a ratio is compared by cross-multiplication.      *)
(***************************************************************************)
EXTENDS Integers, Sequences, FiniteSets, Functions, SequencesExt

CONSTANTS
  GateInputs, LatencyInputs, TableInputs,
  TolMax, TolMean,   \* of the logit gate
  AbsTol, RelTol,    \* TOTAL_SUM_ABS_TOL, and TOTAL_SUM_REL_TOL in percent
  TieBandMax,        \* in percent
  Expected           \* --expected-runs

\* A number is kept as an integer; --tie-band may be any, in percent.
ASSUME VerdictAssumption ==
  /\ {TolMax, TolMean, AbsTol, RelTol, TieBandMax, Expected} \subseteq Nat
  /\ \A r \in LatencyInputs : r.band \in Int /\ \A f \in {r.ours, r.base} : \A c \in DOMAIN f : f[c].total \in Int

VARIABLES tool, input, output
vars == <<tool, input, output>>

Null == -1
Sum(f) == FoldFunction(LAMBDA x, y : x + y, 0, f)
Abs(x) == IF x < 0 THEN -x ELSE x
Greatest(S) == CHOOSE x \in S : \A y \in S : x >= y
Least(S) == CHOOSE x \in S : \A y \in S : x <= y

-----------------------------------------------------------------------------
(* The logit gate.  A comparison is two records of tokens and logprobs; a  *)
(* logprob may be Null.                                                    *)

Shorter(s, t) == IF Len(s) < Len(t) THEN Len(s) ELSE Len(t)
Compared(a, b) == {i \in 1 .. Shorter(a.lp, b.lp) : a.lp[i] # Null /\ b.lp[i] # Null}

FirstDivergence(a, b) ==
  LET apart == {i \in 1 .. Shorter(a.tokens, b.tokens) : a.tokens[i] # b.tokens[i]}
  IN IF a.tokens = b.tokens THEN Null ELSE IF apart = {} THEN Shorter(a.tokens, b.tokens) ELSE Least(apart) - 1

\* Means are kept as multiples of 1 / Scale, exact for the comparisons here.
Scale == 12
diff_stats(a, b) ==
  LET diffs == [i \in Compared(a, b) |-> Abs(a.lp[i] - b.lp[i])]
      n == Cardinality(DOMAIN diffs)
  IN [match |-> a.tokens = b.tokens, diverge |-> FirstDivergence(a, b), n |-> n,
      max |-> IF n = 0 THEN Null ELSE Greatest(Range(diffs)),
      mean |-> IF n = 0 THEN Null ELSE (Scale * Sum(diffs)) \div n]

\* Mutant: every prompt weighs the same.
BugAggregate(stats) ==
  LET some == {i \in DOMAIN stats : stats[i].n > 0}
  IN [max |-> IF some = {} THEN Null ELSE Greatest({stats[i].max : i \in some}),
      mean |-> IF some = {} THEN Null ELSE Sum([i \in some |-> stats[i].mean]) \div Cardinality(some),
      match |-> \A i \in DOMAIN stats : stats[i].match]
aggregate(stats) ==
  LET some == {i \in DOMAIN stats : stats[i].n > 0}
      n == Sum([i \in DOMAIN stats |-> stats[i].n])
  IN [max |-> IF some = {} THEN Null ELSE Greatest({stats[i].max : i \in some}),
      mean |-> IF n = 0 THEN Null ELSE Sum([i \in some |-> stats[i].mean * stats[i].n]) \div n,
      match |-> \A i \in DOMAIN stats : stats[i].match]

CrossBuild == {"prompt_echo", "decode"}
SelfCheck == {"batch_stock", "batch_ours"}
\* What is collected when the builds fail after so many of four steps: parity and
\* batches of stock, then of ours.
Has(gate, steps) ==
  CASE gate \in CrossBuild -> steps >= 3 [] gate = "batch_stock" -> steps >= 2 [] OTHER -> steps >= 4

GatePasses(gate, comparisons) ==
  LET agg == aggregate([i \in DOMAIN comparisons |-> diff_stats(comparisons[i].a, comparisons[i].b)])
  IN agg.max # Null /\ agg.max <= TolMax /\ agg.mean <= Scale * TolMean /\ (gate \in SelfCheck => agg.match)

LogitGate ==
  /\ tool = "gate" /\ output = <<>>
  /\ output' = [gate \in CrossBuild \cup SelfCheck |-> Has(gate, input.steps) /\ GatePasses(gate, input.data[gate])]
  /\ UNCHANGED <<tool, input>>

-----------------------------------------------------------------------------
(* Kernel latency.  A case is what keys it has, its total, and of its      *)
(* kernels the time of ShearingBias, the rest, and whether the list is cut *)
(* at the top eight.  A total or time that is no number is the key "bad".  *)

IsFailure(c) == "error" \in c.keys /\ {"total", "kernels"} \cap c.keys = {}
OffBy(c) == c.shear + c.rest - c.total
Allowed(c) == Greatest({100 * AbsTol, RelTol * c.total})  \* in percent
Usable(c) ==
  /\ {"total", "kernels"} \subseteq c.keys /\ "bad" \notin c.keys
  /\ c.total > 0 /\ c.shear + c.rest > 0
  /\ 100 * OffBy(c) <= Allowed(c)
  /\ c.cut \/ -100 * OffBy(c) <= Allowed(c)

\* Mutant: a case whose total is not its kernels' is skipped without a word.
BugLoadArtifact(file) ==
  [failed |-> {c \in DOMAIN file : IsFailure(file[c])},
   measured |-> {c \in DOMAIN file : ~IsFailure(file[c]) /\ Usable(file[c])},
   violations |-> {c \in DOMAIN file : ~IsFailure(file[c]) /\ ~({"total", "kernels"} \subseteq file[c].keys)}]
load_artifact(file) ==
  [failed |-> {c \in DOMAIN file : IsFailure(file[c])},
   measured |-> {c \in DOMAIN file : ~IsFailure(file[c]) /\ Usable(file[c])},
   violations |-> {c \in DOMAIN file : ~IsFailure(file[c]) /\ ~Usable(file[c])}]

\* Names of cases stand for themselves; these hold the marker "relproj".
Prototype(c) == c = "relproj"

\* ours and base are totals; the ratio is base / ours.
Slower(o, b) == b < o
InBand(o, b, band) == 100 * Abs(b - o) <= band * o
Verdict(o, b, band) ==
  CASE InBand(o, b, band) /\ band > 0 -> <<"tie", band, IF Slower(o, b) THEN "SLOWER" ELSE "faster">>
    [] InBand(o, b, band) /\ band = 0 -> <<"tie">>
    [] ~InBand(o, b, band) -> <<IF Slower(o, b) THEN "SLOWER" ELSE "faster">>

\* The workloads of a file that take part, prototypes being set apart.
Workloads(file) == {c \in load_artifact(file).measured : ~Prototype(c)}
Shared(r) == Workloads(r.ours) \cap Workloads(r.base)

\* Losses that a build without the ShearingBias kernel would not have.
Flips(r) ==
  {c \in Shared(r) :
     LET o == r.ours[c].total  b == r.base[c].total  ex == o - r.ours[c].shear
     IN Slower(o, b) /\ ex > 0 /\ b >= ex}

Rows(r) == [c \in Shared(r) |-> Verdict(r.ours[c].total, r.base[c].total, r.band)]
Losses(r) == {c \in Shared(r) : Slower(r.ours[c].total, r.base[c].total)}
Banded(r) == {c \in Losses(r) : InBand(r.ours[c].total, r.base[c].total, r.band)}

Report(r) ==
  LET ours == load_artifact(r.ours)  base == load_artifact(r.base)
  IN [rows |-> Rows(r), slower |-> Losses(r) \ Banded(r), banded |-> Banded(r), flips |-> Flips(r),
      quarantined |-> {c \in ours.measured \cup base.measured : Prototype(c)},
      onlyOurs |-> Workloads(r.ours) \ Shared(r), onlyBase |-> Workloads(r.base) \ Shared(r),
      failures |-> ({"ours"} \X ours.failed) \cup ({"base"} \X base.failed),
      violations |-> ({"ours"} \X ours.violations) \cup ({"base"} \X base.violations)]

\* Mutant: the gate looks at the section that the band has emptied.
BugExitCode(r, rep) ==
  IF rep.violations # {} \/ DOMAIN rep.rows = {} THEN 3
  ELSE IF r.strict /\ rep.failures # {} THEN 4
  ELSE IF r.failOnSlower /\ rep.slower # {} THEN 5 ELSE 0
ExitCode(r, rep) ==
  IF rep.violations # {} \/ DOMAIN rep.rows = {} THEN 3
  ELSE IF r.strict /\ rep.failures # {} THEN 4
  ELSE IF r.failOnSlower /\ rep.slower \cup rep.banded # {} THEN 5 ELSE 0

Latency ==
  /\ tool = "latency" /\ output = <<>>
  /\ output' = (CASE input.band \notin 0 .. TieBandMax -> [exit |-> 1]
                  [] input.band \in 0 .. TieBandMax /\ ~input.readable -> [exit |-> 2]
                  [] input.band \in 0 .. TieBandMax /\ input.readable /\ input.same -> [exit |-> 1]
                  [] OTHER -> [exit |-> ExitCode(input, Report(input)), report |-> Report(input)])
  /\ UNCHANGED <<tool, input>>

-----------------------------------------------------------------------------
(* End to end.  A run file is torn, or has a value (Null: no such key) and *)
(* a number of failed requests.                                            *)

Better == {"high", "low"}
load_runs(files) == SelectSeq(files, LAMBDA f : ~f.torn)
\* Mutant: a run without the key counts as zero.
BugValues(runs) == [i \in DOMAIN runs |-> IF runs[i].value = Null THEN 0 ELSE runs[i].value]
Values(runs) == LET held == SelectSeq(runs, LAMBDA f : f.value # Null) IN [i \in DOMAIN held |-> held[i].value]
Sorted(s) == SortSeq(s, LAMBDA x, y : x < y)

\* Twice the median, and the best.
med_best(runs, better) ==
  LET s == Sorted(Values(runs))  n == Len(s)
  IN IF n = 0 THEN [med |-> Null, best |-> Null]
     ELSE [med |-> s[(n + 1) \div 2] + s[n \div 2 + 1],
           best |-> IF better = "high" THEN s[n] ELSE s[1]]

ratio(ours, stock) == IF Null \in {ours, stock} \/ stock = 0 THEN <<>> ELSE <<ours, stock>>
FailedRequests(runs) == Sum([i \in DOMAIN runs |-> runs[i].failed])

\* The lengths a mix was run with are in the manifest or nowhere.
mix_label(manifest) ==
  IF manifest.form \in {"matrix.mixes", "matrix", "mixes"} /\ manifest.inlen > 0 THEN manifest.inlen ELSE Null

Table ==
  /\ tool = "table" /\ output = <<>>
  /\ output' = [label |-> mix_label(input.manifest),
                cell |-> [b \in {"stock", "ours"} |-> med_best(load_runs(input[b]), input.better)],
                ratio |-> ratio(med_best(load_runs(input.ours), input.better).med,
                                med_best(load_runs(input.stock), input.better).med),
                incomplete |-> {b \in {"stock", "ours"} : Len(load_runs(input[b])) < Expected},
                warned |-> \E b \in {"stock", "ours"} : FailedRequests(load_runs(input[b])) > 0]
  /\ UNCHANGED <<tool, input>>

-----------------------------------------------------------------------------
Init ==
  /\ output = <<>>
  /\ \/ tool = "gate" /\ input \in GateInputs
     \/ tool = "latency" /\ input \in LatencyInputs
     \/ tool = "table" /\ input \in TableInputs
Next == LogitGate \/ Latency \/ Table
Spec == Init /\ [][Next]_vars

-----------------------------------------------------------------------------
\* The script ends with PASS, of all its gates, exactly when both builds were measured
\* and, over all positions of all prompts taken together, each gate has one that was
\* compared, none beyond TOL_MAX, and the mean within TOL_MEAN; a build must also repeat
\* its own tokens when it is batched (gate_logit_parity.py:488-665).
Pool(cs) == {<<i, j>> : i \in DOMAIN cs, j \in 1 .. 9} \cap UNION {{i} \X Compared(cs[i].a, cs[i].b) : i \in DOMAIN cs}
GateIsPooled ==
  tool = "gate" /\ output # <<>> =>
    \A gate \in DOMAIN output :
      LET cs == input.data[gate]
          diff == [p \in Pool(cs) |-> Abs(cs[p[1]].a.lp[p[2]] - cs[p[1]].b.lp[p[2]])]
      IN output[gate] <=>
           /\ (input.steps = 4 \/ (input.steps = 3 /\ gate # "batch_ours") \/ (input.steps = 2 /\ gate = "batch_stock"))
           /\ diff # <<>> /\ (\A p \in DOMAIN diff : diff[p] <= TolMax) /\ Sum(diff) <= TolMean * Cardinality(DOMAIN diff)
           /\ gate \in SelfCheck => \A i \in DOMAIN cs : cs[i].a.tokens = cs[i].b.tokens

\* Every case of both files is in the report, in one place: "Silently dropping the
\* unmatched cases is exactly what produced the wrong prefill claim"
\* (summarize_results.py:43, 371-404, 577-640).
Sections == {"rows", "alone", "quarantined", "failures", "violations"}
Places(side, c, rep) ==
  {p \in Sections :
     CASE p = "rows" -> c \in DOMAIN rep.rows
       [] p = "alone" -> c \in (IF side = "ours" THEN rep.onlyOurs ELSE rep.onlyBase)
       [] p = "quarantined" -> c \in rep.quarantined
       [] p = "failures" -> <<side, c>> \in rep.failures
       [] p = "violations" -> <<side, c>> \in rep.violations}
Reported == tool = "latency" /\ "report" \in DOMAIN output
NothingDropped ==
  Reported => \A side \in {"ours", "base"} : \A c \in DOMAIN input[side] :
    LET others == IF IsFailure(input[side][c]) \/ ~Usable(input[side][c]) THEN {"quarantined"} ELSE {}
    IN  \E p \in Sections : Places(side, c, output.report) \ others = {p}

\* No option clears a loss: a workload that is slower is in the SLOWER section or named with
\* the band, --fail-on-slower does not end with 0, and a projection that makes it look
\* like a win is warned of (summarize_results.py:54-58, 382-404, 545-575, 654-680).
NoLossCleared ==
  Reported => \A c \in DOMAIN output.report.rows :
    LET o == input.ours[c].total  b == input.base[c].total  IN
    b < o => /\ c \in output.report.slower \/ (input.band > 0 /\ output.report.rows[c] = <<"tie", input.band, "SLOWER">>)
             /\ input.failOnSlower => output.exit # 0
             /\ o - input.ours[c].shear \in 1 .. b => c \in output.report.flips

\* Cells are "measured-or-null": a number is in the table when a readable run has one,
\* no more than half of those runs lie on either side of the median, none is better than
\* the best, and a side without a flag has all its runs (gate_summarize.py:17-20, 98-130).
TableIsMeasured ==
  tool = "table" /\ output # <<>> => \A b \in {"stock", "ours"} :
    LET held == {i \in DOMAIN input[b] : ~input[b][i].torn /\ input[b][i].value # Null}
        v(i) == input[b][i].value  cell == output.cell[b]
    IN /\ cell.med = Null <=> held = {}
       /\ held # {} => /\ 2 * Cardinality({i \in held : 2 * v(i) < cell.med}) <= Cardinality(held)
                       /\ 2 * Cardinality({i \in held : 2 * v(i) > cell.med}) <= Cardinality(held)
                       /\ \A i \in held : IF input.better = "high" THEN v(i) <= cell.best ELSE v(i) >= cell.best
       /\ b \notin output.incomplete => Cardinality({i \in DOMAIN input[b] : ~input[b][i].torn}) >= Expected
       /\ output.ratio # <<>> <=> (output.cell.stock.med > 0 /\ output.cell.ours.med # Null)
=============================================================================
