----------------------------- MODULE ModalBench -----------------------------
(***************************************************************************)
(* run_bench of scripts/modal_e2e_bench.py: a container that serves one    *)
(* build after another and benchmarks it, under a spend cap, with every    *)
(* result on a Volume that outlives it.  The operator invokes it again     *)
(* until the matrix is complete; a container can be killed at any point.   *)
(*                                                                         *)
(* Time is counted in ticks, and a tick costs one unit of money, so that   *)
(* elapsed time and spend are the same number (rate_hr is a constant).     *)
(***************************************************************************)
EXTENDS Integers, Sequences, FiniteSets, Functions

CONSTANTS
  Settings,  \* the settings of a run of the script, see IsSetting
  Unknown    \* no size: not measured, or not readable from the log

IsSetting(s) ==
  /\ s.Builds \in Seq({s.Builds[i] : i \in DOMAIN s.Builds})
  /\ s.NumRuns \in Nat \ {0} /\ s.MaxCalls \in Nat /\ Unknown \notin s.Pools
  /\ {s.Budget, s.MinUseful, s.Timeout, s.Margin, s.ServerWait, s.StopTime, s.Reserve0, s.ReserveMin, s.MinRunTime, s.ProbeTime} \subseteq Nat
  /\ s.LoadTimes \subseteq 0 .. s.ServerWait /\ s.ProbeTimes \subseteq 0 .. s.ProbeTime
  /\ s.RunTimes \subseteq Nat \ {0} /\ s.OtherSpends \subseteq Nat
  /\ s.MinRunTime <= s.ReserveMin /\ s.ReserveMin <= s.Reserve0 /\ s.Margin <= s.Timeout
  /\ s.Warm \in BOOLEAN /\ s.Unread \in BOOLEAN

ASSUME ModalAssumption == \A s \in Settings : IsSetting(s)

VARIABLES
  setting,   \* never changes
  \* the results Volume
  results,   \* build -> run -> KV pool of the server that was measured
  validity,  \* validity.json: the pool of each build, and the verdict
  ledger,    \* run_id -> usd_est; 0 is the other container
  \* the container
  call, task, pc, now, deadline, build, buildDeadline, todo, reserve, hardStop, booked, kv, pool,
  alive,     \* the last container has returned from its call, and is kept warm
  snapshot,  \* the other container's copy of the ledger, between its read and its write
  \* history
  spent,     \* by containers that have ended
  escaped    \* of that, never booked because the container was killed

volume == <<results, validity, ledger>>
turn == <<build, buildDeadline, todo, hardStop>>
history == <<spent, escaped>>
vars == <<setting, volume, call, task, pc, now, deadline, turn, reserve, booked, kv, pool, alive, snapshot, history>>

Builds      == setting.Builds       \* the sequence of builds wanted
NumRuns     == setting.NumRuns      \* benchmark runs per build, cheapest first
Pools       == setting.Pools        \* sizes the KV pool of a server can come out at
Budget      == setting.Budget       \* BUDGET_USD
MinUseful   == setting.MinUseful    \* MIN_USEFUL_USD
Timeout     == setting.Timeout      \* BENCH_TIMEOUT_S
Margin      == setting.Margin       \* SHUTDOWN_MARGIN_S
ServerWait  == setting.ServerWait   \* server_wait_s
LoadTimes   == setting.LoadTimes    \* how long a server can take to become healthy
ProbeTimes  == setting.ProbeTimes   \* how long the four requests of _greedy_probe can take
ProbeTime   == setting.ProbeTime    \* the longest
Unread      == setting.Unread       \* the log of a server may not show its pool
StopTime    == setting.StopTime     \* longest _stop_server
Reserve0    == setting.Reserve0     \* run_reserve_s before the first run
ReserveMin  == setting.ReserveMin   \* its least value
MinRunTime  == setting.MinRunTime   \* least run_timeout_s
RunTimes    == setting.RunTimes     \* how long a run that does not hang takes
MaxCalls    == setting.MaxCalls     \* bound: invocations
Warm        == setting.Warm         \* Modal may hand a call to a container whose call has returned
OtherSpends == setting.OtherSpends  \* spends booked by another container at the same time

BuildSet == {Builds[i] : i \in DOMAIN Builds}
Runs == 1 .. NumRuns
Least(a, b) == IF a <= b THEN a ELSE b
Most(a, b) == IF a >= b THEN a ELSE b

\* A call has ended, and with it all it held in memory.
Gone ==
  /\ pc' = "idle" /\ now' = 0 /\ deadline' = 0
  /\ build' = 1 /\ buildDeadline' = 0 /\ todo' = {} /\ hardStop' = FALSE
  /\ reserve' = Reserve0 /\ booked' = FALSE /\ pool' = Unknown
  /\ kv' = [b \in BuildSet |-> Unknown]

-----------------------------------------------------------------------------
(* The ledger.                                                             *)

Sum(l) == FoldFunction(+, 0, l)

\* Mutant: the spend since the last booking, not since the container started.
BugBooked(t, usd) == [ledger EXCEPT ![t] = usd - ledger[t]]
Booked(t, usd) == [ledger EXCEPT ![t] = usd]

\* What every other container has booked.
PriorSpend(t) == Sum(ledger) - ledger[t]

\* The KV pools of builds that earlier containers served.
BugCarried == [b \in BuildSet |-> Unknown]
Carried == validity.pool

WorthStarting(remaining) == remaining >= MinUseful

Start ==
  /\ pc = "idle" /\ call < MaxCalls
  /\ \E t \in {call + 1} \cup (IF alive THEN {task} ELSE {}) :
       LET remaining == Budget - PriorSpend(t)
       IN  /\ WorthStarting(remaining)
           /\ task' = t
           /\ deadline' = Least(Timeout - Margin, remaining)
           /\ ledger' = Booked(t, 0)
  /\ call' = call + 1 /\ pc' = "build" /\ now' = 0 /\ build' = 1
  /\ reserve' = Reserve0 /\ hardStop' = FALSE /\ booked' = FALSE
  /\ kv' = Carried /\ alive' = FALSE
  /\ UNCHANGED <<setting, results, validity, buildDeadline, todo, pool, snapshot, history>>

\* Too little left, or not the hardware or the model that was asked for.
Refuse ==
  /\ pc = "idle" /\ call < MaxCalls
  /\ call' = call + 1
  /\ UNCHANGED <<setting, volume, task, pc, now, deadline, turn, reserve, booked, kv, pool, alive, snapshot, history>>

-----------------------------------------------------------------------------
(* The build loop.                                                         *)

Current == Builds[build]

\* Mutant: the results of an earlier container are not looked for.
BugPending(b) == Runs
Pending(b) == {r \in Runs : results[b][r] = Unknown}

\* Mutant: no room is kept for the model load.
BugRoomForBuild == now + reserve <= deadline
RoomForBuild == now + reserve + ServerWait <= deadline

SkipBuild ==
  /\ pc = "build" /\ build <= Len(Builds) /\ Pending(Current) = {}
  /\ build' = build + 1
  /\ UNCHANGED <<volume, setting, call, task, pc, now, deadline, buildDeadline, todo, hardStop,
                 reserve, booked, kv, pool, alive, snapshot, history>>

\* All builds have been served, or there is no room for another.
EndMatrix ==
  /\ pc = "build"
  /\ build <= Len(Builds) => Pending(Current) # {} /\ ~RoomForBuild
  /\ pc' = "verdict"
  /\ UNCHANGED <<volume, setting, call, task, now, deadline, turn, reserve, booked, kv, pool, alive, snapshot, history>>

\* Deploy the build, whose allowance is its share of the time left.
StartServer ==
  /\ pc = "build" /\ build <= Len(Builds) /\ Pending(Current) # {} /\ RoomForBuild
  /\ todo' = Pending(Current)
  /\ buildDeadline' = now + (deadline - now) \div (Len(Builds) - build + 1)
  /\ pc' = "load"
  /\ UNCHANGED <<volume, setting, call, task, now, deadline, build, hardStop, reserve, booked, kv, pool, alive, snapshot, history>>

\* Healthy: book, and read the KV pool off the server's log, where it may not be.
ServerReady ==
  /\ pc = "load"
  /\ \E d \in LoadTimes, p \in Pools :
       /\ now' = now + d
       /\ pool' = p
       /\ \E q \in {p} \cup (IF Unread THEN {Unknown} ELSE {}) : kv' = [kv EXCEPT ![Current] = q]
       /\ ledger' = Booked(task, now + d)
  /\ pc' = "probe"
  /\ UNCHANGED <<results, validity, setting, call, task, deadline, turn, reserve, booked, alive, snapshot, history>>

\* The greedy requests, whose failures are part of their answer; then the pools
\* are recorded.
Probe ==
  /\ pc = "probe"
  /\ \E e \in ProbeTimes : now' = now + e
  /\ validity' = [pool |-> kv, verdict |-> "none"]
  /\ pc' = "run"
  /\ UNCHANGED <<results, ledger, setting, call, task, deadline, turn, reserve, booked, kv, pool, alive, snapshot, history>>

\* The server dies or does not get healthy in time.
ServerFails ==
  /\ pc = "load"
  /\ \E d \in LoadTimes \cup {ServerWait} : now' = now + d
  /\ pc' = "unwind"
  /\ UNCHANGED <<volume, setting, call, task, deadline, turn, reserve, booked, kv, pool, alive, snapshot, history>>

\* Mutant: a crash leaves the last booking as it was.
BugUnwind ==
  /\ pc = "unwind"
  /\ spent' = spent + now + StopTime
  /\ Gone /\ UNCHANGED alive
  /\ UNCHANGED <<volume, setting, call, task, snapshot, escaped>>

\* An exception stops the server and leaves the loop; atexit books the spend.
Unwind ==
  /\ pc = "unwind"
  /\ spent' = spent + now + StopTime
  /\ ledger' = Booked(task, now + StopTime)
  /\ Gone /\ UNCHANGED alive
  /\ UNCHANGED <<results, validity, setting, call, task, snapshot, escaped>>

-----------------------------------------------------------------------------
(* The runs of a build.                                                    *)

NextRun == CHOOSE r \in todo : \A s \in todo : r <= s

\* The client is killed at the deadline of the container.
RunTimeout == Most(MinRunTime, deadline - now)

RunEnds(d) ==
  /\ pc = "run" /\ todo # {} /\ now + reserve <= buildDeadline
  /\ now' = now + d
  /\ todo' = todo \ {NextRun}
  /\ pc' = "burn"
  /\ UNCHANGED <<validity, ledger, setting, call, task, deadline, build, buildDeadline, hardStop,
                 booked, kv, pool, alive, snapshot, spent, escaped>>

\* The result is persisted, and the reserve follows the slowest run.
RunSucceeds ==
  \E d \in {x \in RunTimes : x < RunTimeout} :
    /\ RunEnds(d)
    /\ results' = [results EXCEPT ![Current][NextRun] = pool]
    /\ reserve' = Most(Most(reserve \div 2, (8 * d + 4) \div 5), ReserveMin)

RunFails ==
  \E d \in {x \in RunTimes : x < RunTimeout} \cup {RunTimeout} :
    /\ RunEnds(d)
    /\ UNCHANGED <<results, reserve>>

Burn ==
  /\ pc = "burn"
  /\ ledger' = Booked(task, now)
  /\ pc' = "run"
  /\ UNCHANGED <<results, validity, setting, call, task, now, deadline, turn, reserve, booked, kv, pool, alive, snapshot, history>>

\* Out of runs, or of the build's allowance; only the container's own deadline
\* ends the matrix.
EndBuild ==
  /\ pc = "run"
  /\ todo # {} => now + reserve > buildDeadline
  /\ hardStop' = (todo # {} /\ now + reserve > deadline)
  /\ pc' = "stop"
  /\ UNCHANGED <<volume, setting, call, task, now, deadline, build, buildDeadline, todo, reserve,
                 booked, kv, pool, alive, snapshot, history>>

StopServer ==
  /\ pc = "stop"
  /\ now' = now + StopTime
  /\ build' = build + 1
  /\ pc' = IF hardStop THEN "verdict" ELSE "build"
  /\ UNCHANGED <<volume, setting, call, task, deadline, buildDeadline, todo, hardStop, reserve,
                 booked, kv, pool, alive, snapshot, history>>

-----------------------------------------------------------------------------
(* The end of a container.                                                 *)

KnownPools == {kv[b] : b \in BuildSet} \ {Unknown}

\* _assert_kv_pools_match; the drift of 2% it tolerates is one size here.
Verdict ==
  /\ pc = "verdict"
  /\ validity' = [pool |-> kv, verdict |-> IF Cardinality(KnownPools) > 1 THEN "mismatch" ELSE "match"]
  /\ pc' = "final"
  /\ UNCHANGED <<results, ledger, setting, call, task, now, deadline, turn, reserve, booked, kv, pool, alive, snapshot, history>>

\* The backstop is disarmed before the last booking is made.
Disarm ==
  /\ pc = "final"
  /\ booked' = TRUE /\ pc' = "book"
  /\ UNCHANGED <<volume, setting, call, task, now, deadline, turn, reserve, kv, pool, alive, snapshot, history>>

BookFinal ==
  /\ pc = "book"
  /\ ledger' = Booked(task, now)
  /\ spent' = spent + now
  /\ Gone /\ alive' = Warm
  /\ UNCHANGED <<results, validity, setting, call, task, snapshot, escaped>>

\* How long the step that a kill interrupts can have been going on.
Elapsed == CASE pc = "load" -> {0, ServerWait}
             [] pc = "probe" -> {0, ProbeTime}
             [] pc = "run" /\ todo # {} /\ now + reserve <= buildDeadline -> {0, RunTimeout}
             [] OTHER -> {0}

\* SIGTERM: the handler books what has been spent, unless the backstop has been
\* disarmed; the server may still be stopped after that.
Terminate ==
  /\ pc # "idle"
  /\ \E e \in Elapsed, tail \in {0} \cup (IF pc \in {"load", "probe", "run", "burn", "stop", "unwind"} THEN {StopTime} ELSE {}) :
       /\ ledger' = IF booked THEN ledger ELSE Booked(task, now + e)
       /\ spent' = spent + now + e + tail
       /\ escaped' = escaped + tail + now + e - ledger'[task]
  /\ Gone /\ UNCHANGED alive
  /\ UNCHANGED <<results, validity, setting, call, task, snapshot>>

\* SIGKILL, or the machine is lost.
Vanish ==
  /\ pc # "idle"
  /\ \E e \in Elapsed :
       /\ spent' = spent + now + e
       /\ escaped' = escaped + now + e - ledger[task]
  /\ Gone /\ UNCHANGED alive
  /\ UNCHANGED <<volume, setting, call, task, snapshot>>

-----------------------------------------------------------------------------
(* Another container books its own spend: it reloads and reads the whole   *)
(* ledger, and later writes the whole ledger.                              *)

OtherReads ==
  /\ OtherSpends # {} /\ snapshot = <<>>
  /\ snapshot' = ledger
  /\ UNCHANGED <<volume, setting, call, task, pc, now, deadline, turn, reserve, booked, kv, pool, alive, history>>

OtherWrites ==
  /\ snapshot # <<>>
  /\ \E usd \in OtherSpends : usd >= ledger[0] /\ ledger' = [snapshot EXCEPT ![0] = usd]
  /\ snapshot' = <<>>
  /\ UNCHANGED <<results, validity, setting, call, task, pc, now, deadline, turn, reserve, booked, kv, pool, alive, history>>

-----------------------------------------------------------------------------
Init ==
  /\ setting \in Settings
  /\ results = [b \in BuildSet |-> [r \in Runs |-> Unknown]]
  /\ validity = [pool |-> [b \in BuildSet |-> Unknown], verdict |-> "none"]
  /\ ledger = [t \in 0 .. MaxCalls |-> 0]
  /\ call = 0 /\ task = 1 /\ pc = "idle" /\ now = 0 /\ deadline = 0
  /\ build = 1 /\ buildDeadline = 0 /\ todo = {} /\ reserve = Reserve0
  /\ hardStop = FALSE /\ booked = FALSE
  /\ kv = [b \in BuildSet |-> Unknown] /\ pool = Unknown /\ alive = FALSE /\ snapshot = <<>>
  /\ spent = 0 /\ escaped = 0

Next ==
  \/ Start \/ Refuse
  \/ SkipBuild \/ EndMatrix \/ StartServer \/ ServerReady \/ Probe \/ ServerFails \/ Unwind
  \/ RunSucceeds \/ RunFails \/ Burn \/ EndBuild \/ StopServer
  \/ Verdict \/ Disarm \/ BookFinal
  \/ Terminate \/ Vanish
  \/ OtherReads \/ OtherWrites

Spec == Init /\ [][Next]_vars
-----------------------------------------------------------------------------
(* Properties.                                                             *)

\* What the variables hold.
TypeOK ==
  /\ results \in [BuildSet -> [Runs -> Pools \cup {Unknown}]]
  /\ validity \in [pool : [BuildSet -> Pools \cup {Unknown}], verdict : {"none", "match", "mismatch"}]
  /\ ledger \in [0 .. MaxCalls -> Nat]
  /\ call \in 0 .. MaxCalls /\ task \in 1 .. Most(MaxCalls, 1)
  /\ pc \in {"idle", "build", "load", "probe", "run", "burn", "stop", "unwind", "verdict", "final", "book"}
  /\ now \in Nat /\ deadline \in Nat /\ build \in 1 .. Len(Builds) + 1 /\ buildDeadline \in Nat
  /\ todo \subseteq Runs /\ reserve \in Nat /\ hardStop \in BOOLEAN /\ booked \in BOOLEAN
  /\ kv \in [BuildSet -> Pools \cup {Unknown}] /\ pool \in Pools \cup {Unknown}
  /\ alive \in BOOLEAN
  /\ snapshot = <<>> \/ snapshot \in [0 .. MaxCalls -> Nat]
  /\ spent \in Nat /\ escaped \in Int

Alone == ~Warm /\ OtherSpends = {}

SpentNow == spent + (IF pc = "idle" THEN 0 ELSE now)

\* A server is loaded only when its load and a reserve fit before the deadline, but
\* the probe comes between them: what it can take beyond the least reserve.
Overrun == Most(0, ProbeTime - ReserveMin)

\* Whatever crashes and resumes there are, all containers together spend no more
\* than the cap, one overrun of the probe and one server shutdown, plus what a kill
\* kept from being booked: every other end of a container is booked before the next
\* one takes its budget from the ledger.  One container at a time books, and each
\* serves one call.
CapHolds == Alone => SpentNow <= Budget + Overrun + StopTime + escaped

\* A container is through, its server stopped, no later than a shutdown and an
\* overrun of the probe after its deadline, however long loads and runs take.
StopsInTime == pc # "idle" => now + Margin <= Timeout + Overrun + StopTime

\* A result on the Volume is final: no resume measures it again or loses it.
ResultsKept ==
  [][\A b \in BuildSet, r \in Runs : results[b][r] # Unknown => results'[b][r] = results[b][r]]_vars

\* The entry of a container only grows while the container lives, and stays.
LedgerGrows == [][Alone => \A t \in DOMAIN ledger : ledger'[t] >= ledger[t]]_vars

Complete == \A b \in BuildSet : Pending(b) = {}
Measured(b) == {results[b][r] : r \in Runs}

\* A complete matrix with the verdict that the KV pools match, in which no build
\* was measured by servers of different pools, was measured on one pool, even
\* when the builds were served by different containers; provided that the pools on
\* file are all known, where a log may not show one.
VerdictHonest ==
  Complete /\ validity.verdict = "match" /\ (\A b \in BuildSet : Cardinality(Measured(b)) = 1)
      /\ (Unread => \A b \in BuildSet : validity.pool[b] # Unknown)
    => Cardinality(UNION {Measured(b) : b \in BuildSet}) <= 1

\* "Refuse to publish a comparison between two different KV budgets"
\* (modal_e2e_bench.py:989): the same, whatever servers measured a build.
MatchMeansOnePool ==
  Complete /\ validity.verdict = "match" => Cardinality(UNION {Measured(b) : b \in BuildSet}) = 1

=============================================================================
