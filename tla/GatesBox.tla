------------------------------ MODULE GatesBox ------------------------------
(***************************************************************************)
(* What runs on a rented gates box: bootstrap_8x.sh, the logit gate,       *)
(* gate_e2e_bench.sh, the pipeline of all stages (run_gates_full.sh), and  *)
(* gates_watchdog.sh.  They share the installed kernels, the serving       *)
(* router, two backups, one TCP port, the result files and marker files.   *)
(* The pipeline bounds its stages with `timeout`, the operator reruns      *)
(* stages by hand, and anything can be killed.                             *)
(***************************************************************************)
EXTENDS Naturals

CONSTANTS
  NumRuns,   \* result files per build
  Cap,       \* CAP_HOURS of the watchdog, in its polling periods
  Window,    \* the 6 h kept for retrieval
  MaxJobs    \* bound: scripts that are started

ASSUME BoxAssumption == NumRuns \in Nat \ {0} /\ Cap \in Nat \ {0} /\ Window \in Nat \ {0} /\ MaxJobs \in Nat

VARIABLES
  \* the disk
  pkg,          \* files of the imported tml_fa4: "stock", "ours" or "mixed"
  route,        \* fa4_rel_attention.py: "stock" or "ours"
  backup,       \* ~/tml_fa4_backup: "none", "empty", "part" or "whole", of stock files, or "poisoned"
  routeBackup,  \* fa4_rel_attention.stock.py: "none", "stock" or "ours"
  runs,         \* build -> run -> Absent, Torn, or the server it was measured on
  logits,       \* build -> Nobody, or the server its logits came from (in the gate's memory)
  markers,      \* of GATES_DONE, GATES_FAILED
  \* processes
  jobs, job, pc, build,
  serving,      \* the server that answers on the port: its kernels and route
  own,          \* it is the one the running script started
  \* the watchdog
  up, now, watch, deadline,
  \* history
  marked,       \* when the first marker was written
  tainted       \* what went wrong for good: "kill", a server left up, a patched router or half a
                \* backup; "backup", one a failed step cut short; "kernels" and "route", not restored

disk == <<pkg, route, backup, routeBackup>>
data == <<runs, logits>>
server == <<serving, own>>
clock == <<up, now, watch, deadline>>
vars == <<disk, data, markers, jobs, job, pc, build, server, clock, marked, tainted>>

Builds == {"stock", "ours"}
Runs == 1 .. NumRuns
Server == [kernels : {"stock", "ours", "mixed"}, route : Builds]
Nobody == [kernels |-> "none", route |-> "none"]
Absent == [kernels |-> "absent", route |-> "none"]
Torn == [kernels |-> "torn", route |-> "none"]
Goto(at) == pc' = at
Else(unchanged) == UNCHANGED <<jobs, job, clock, tainted, unchanged>>

\* The package after all files of a directory have been copied over it.
Over(src) == IF src = "whole" THEN "stock" ELSE IF src = "part" /\ pkg # "stock" THEN "mixed" ELSE pkg
CopyKernels(b) == pkg' = IF b = "ours" THEN "ours" ELSE Over(backup)
HasFiles(b) == b = "ours" \/ backup \notin {"none", "empty"}

\* The package after a copy that ended early, with or without a file copied.
Partly(b) == IF HasFiles(b) /\ pkg # b THEN {pkg, "mixed"} ELSE {pkg}

\* A restore that failed, and that the script goes on from.
Left(kernels, router) ==
  tainted' = tainted \cup (IF kernels = "stock" THEN {} ELSE {"kernels"}) \cup (IF router = "stock" THEN {} ELSE {"route"})

-----------------------------------------------------------------------------
(* Jobs.  The pipeline goes from one stage to the next; a stage started by *)
(* hand ends the job.                                                      *)

Start ==
  /\ up /\ job = "none" /\ jobs < MaxJobs
  /\ \E j \in {"pipeline", "logit", "bench"} :
       /\ job' = j
       /\ Goto([pipeline |-> "boot.mkdir", logit |-> "logit.backup", bench |-> "bench.next"][j])
  /\ jobs' = jobs + 1 /\ build' = "stock" /\ own' = FALSE
  /\ UNCHANGED <<disk, data, markers, serving, clock, marked, tainted>>

Mark(m) ==
  /\ markers' = markers \cup {m}
  /\ marked' = IF markers = {} THEN now ELSE marked

EndStage(next) ==
  IF job = "pipeline" THEN Goto(next) /\ UNCHANGED job ELSE Goto("idle") /\ job' = "none"

-----------------------------------------------------------------------------
(* bootstrap_8x.sh, after the install.                                     *)

\* The backup is of whatever is installed, and is taken when there is no directory.
BootMkdir ==
  /\ up /\ pc = "boot.mkdir"
  /\ IF backup = "none" THEN backup' = "empty" /\ Goto("boot.copy") ELSE UNCHANGED backup /\ Goto("boot.deploy")
  /\ Else(<<pkg, route, routeBackup, data, markers, build, server, marked>>)
BootCopy ==
  /\ up /\ pc = "boot.copy"
  /\ backup' = (IF pkg = "stock" THEN "whole" ELSE "poisoned") /\ Goto("boot.deploy")
  /\ Else(<<pkg, route, routeBackup, data, markers, build, server, marked>>)

\* The smoke test of the modified kernels.
BootDeploy ==
  /\ up /\ pc = "boot.deploy"
  /\ CopyKernels("ours") /\ Goto("boot.restore")
  /\ Else(<<route, backup, routeBackup, data, markers, build, server, marked>>)

\* cp of an empty directory fails, as can any cp, the import, the install and the
\* download of the model; set -e ends the bootstrap, and the pipeline with it.
BootRestore ==
  /\ up /\ pc = "boot.restore" /\ HasFiles("stock")
  /\ CopyKernels("stock") /\ Goto("logit.backup")
  /\ Else(<<route, backup, routeBackup, data, markers, build, server, marked>>)
BootFails ==
  /\ up /\ pc \in {"boot.mkdir", "boot.copy", "boot.deploy", "boot.restore", "logit.backup"} /\ job = "pipeline"
  /\ backup' \in IF pc = "boot.copy" THEN {"empty", "part"} ELSE {backup}
  /\ pkg' \in CASE pc = "boot.deploy" -> Partly("ours") [] pc = "boot.restore" -> Partly("stock") [] OTHER -> {pkg}
  /\ tainted' = (IF pc = "boot.copy" THEN tainted \cup {"backup"} ELSE tainted)
  /\ Mark("FAILED") /\ Goto("idle") /\ job' = "none"
  /\ UNCHANGED <<route, routeBackup, data, jobs, build, server, clock>>

-----------------------------------------------------------------------------
(* gate_logit_parity.py.                                                   *)

\* Mutant: a package that holds modified kernels is backed up too.
BugBackupRefuses == FALSE
BackupRefuses == pkg \in {"ours", "mixed"}

\* ensure_backup comes before the try: if it refuses, or a file cannot be copied, the gate ends.
TakesBackup == ~HasFiles("stock") /\ ~BackupRefuses
LogitBackup ==
  /\ up /\ pc = "logit.backup"
  /\ \/ HasFiles("stock") /\ Goto("logit.deploy") /\ UNCHANGED <<backup, job, tainted>>
     \/ /\ TakesBackup /\ backup' = (IF pkg = "stock" THEN "whole" ELSE "poisoned")
        /\ Goto("logit.deploy") /\ UNCHANGED <<job, tainted>>
     \/ /\ TakesBackup /\ backup' \in {"empty", "part"} /\ tainted' = tainted \cup {"backup"}
        /\ EndStage("bench.next")
     \/ EndStage("bench.next") /\ UNCHANGED <<backup, tainted>>
  /\ logits' = [b \in Builds |-> Nobody] /\ build' = "stock"
  /\ UNCHANGED <<pkg, route, routeBackup, runs, markers, jobs, server, clock, marked>>

\* deploy: the kernels, then the router.  An exception ends the try.
LogitDeploy ==
  /\ up /\ pc = "logit.deploy"
  /\ \/ CopyKernels(build) /\ Goto("logit.route")
     \/ pkg' \in Partly(build) /\ Goto("logit.restore")
  /\ Else(<<route, backup, routeBackup, data, markers, build, server, marked>>)

\* Mutant: deploying the stock build leaves the router as it is.
BugRouteKept(b) ==
  /\ routeBackup' = (IF routeBackup = "none" THEN route ELSE routeBackup)
  /\ route' = (IF b = "stock" THEN route ELSE "ours")
\* A router that is patched, with no backup of it, cannot be deployed over.
PatchRoute(b) ==
  /\ routeBackup # "none" \/ route = "stock"
  /\ routeBackup' = (IF routeBackup = "none" THEN route ELSE routeBackup)
  /\ route' = (IF b = "stock" THEN routeBackup' ELSE "ours")
\* The import that finds the router, its backup, the patch or the copy raises.
RouteFails ==
  /\ routeBackup' \in {routeBackup} \cup (IF routeBackup = "none" /\ route = "stock" THEN {"stock"} ELSE {})
  /\ UNCHANGED route
LogitRoute ==
  /\ up /\ pc = "logit.route"
  /\ \/ PatchRoute(build) /\ Goto("logit.start")
     \/ RouteFails /\ Goto("logit.restore")
  /\ Else(<<pkg, backup, data, markers, build, server, marked>>)

\* Health is asked of the port: whoever holds it answers.
ServerUp ==
  IF serving = Nobody THEN serving' = [kernels |-> pkg, route |-> route] /\ own' = TRUE
                      ELSE UNCHANGED serving /\ own' = FALSE
LogitStart ==
  /\ up /\ pc = "logit.start"
  /\ \/ ServerUp /\ Goto("logit.collect")
     \/ Goto("logit.restore") /\ UNCHANGED server  \* it died, or was not healthy in time
  /\ Else(<<disk, data, markers, build, marked>>)

LogitCollect ==
  /\ up /\ pc = "logit.collect" /\ serving # Nobody
  /\ logits' = [logits EXCEPT ![build] = serving]
  /\ Goto("logit.stop")
  /\ Else(<<disk, runs, markers, build, server, marked>>)

\* Stops its own process group.  A server that stops answering ends the try.
\* Mutant: the server is left running.
BugStopOwn == UNCHANGED server
StopOwn == IF own THEN serving' = Nobody /\ own' = FALSE ELSE UNCHANGED server
LogitStop ==
  /\ up /\ pc \in {"logit.collect", "logit.stop"}
  /\ StopOwn
  /\ IF pc = "logit.stop" /\ build = "stock" THEN build' = "ours" /\ Goto("logit.deploy")
                                             ELSE Goto("logit.restore") /\ UNCHANGED build
  /\ Else(<<disk, data, markers, marked>>)

\* The finally block deploys the stock build; an exception in it is logged, and what it
\* had not come to stays as it is.  Then the verdict, which needs the logits of both builds.
LogitRestore ==
  /\ up /\ pc = "logit.restore"
  /\ \/ CopyKernels("stock") /\ Goto("logit.unroute") /\ UNCHANGED tainted
     \/ pkg' \in Partly("stock") /\ Left(pkg', route) /\ Goto("logit.end")
  /\ UNCHANGED <<route, backup, routeBackup, data, markers, jobs, job, build, server, clock, marked>>
LogitUnroute ==
  /\ up /\ pc = "logit.unroute"
  /\ \/ PatchRoute("stock") /\ UNCHANGED tainted
     \/ RouteFails /\ Left(pkg, route)
  /\ Goto("logit.end")
  /\ UNCHANGED <<pkg, backup, data, markers, jobs, job, build, server, clock, marked>>
LogitEnd ==
  /\ up /\ pc = "logit.end" /\ EndStage("bench.next")
  /\ build' = "stock" /\ logits' = [b \in Builds |-> Nobody]
  /\ UNCHANGED <<disk, runs, markers, jobs, server, clock, marked, tainted>>

-----------------------------------------------------------------------------
(* gate_e2e_bench.sh.                                                      *)

Missing(b) == {r \in Runs : runs[b][r] = Absent}

\* A build with all its files is skipped.  Only kernels are deployed.
BenchBuild ==
  /\ up /\ pc = "bench.next" /\ backup # "none"
  /\ IF Missing(build) = {}
       THEN UNCHANGED pkg /\ IF build = "stock" THEN build' = "ours" /\ UNCHANGED pc
                                               ELSE Goto("bench.cleanup") /\ UNCHANGED build
       ELSE /\ UNCHANGED build
            /\ \/ HasFiles(build) /\ CopyKernels(build) /\ Goto("bench.start")
               \/ pkg' \in Partly(build) /\ Goto("bench.cleanup")
  /\ Else(<<route, backup, routeBackup, data, markers, server, marked>>)

\* The preflight checks and the import that finds the package, which come before the trap.
BenchRefuses ==
  /\ up /\ pc = "bench.next" /\ build = "stock" /\ EndStage("summary")
  /\ UNCHANGED <<disk, data, markers, jobs, build, server, clock, marked, tainted>>

BenchStart ==
  /\ up /\ pc = "bench.start"
  /\ \/ ServerUp /\ Goto("bench.run")
     \/ Goto("bench.cleanup") /\ UNCHANGED server
  /\ Else(<<disk, data, markers, build, marked>>)

\* Runs are taken in order; a file that exists is skipped, and a run that fails
\* leaves none.
BenchRun ==
  /\ up /\ pc = "bench.run"
  /\ \E s \in SUBSET Missing(build) :
       runs' = [runs EXCEPT ![build] = [r \in Runs |-> IF r \in s THEN serving ELSE @[r]]]
  /\ Goto("bench.stop")
  /\ Else(<<disk, logits, markers, build, server, marked>>)

\* stop_server ends in pkill: every vllm serve goes.
StopAll == serving' = Nobody /\ own' = FALSE
BenchStop ==
  /\ up /\ pc = "bench.stop"
  /\ StopAll
  /\ IF build = "stock" THEN build' = "ours" /\ Goto("bench.next") ELSE Goto("bench.cleanup") /\ UNCHANGED build
  /\ Else(<<disk, data, markers, marked>>)

\* trap cleanup EXIT.
\* Mutant: no trap.
BugCleanup == UNCHANGED <<pkg, server>>
Cleanup == StopAll /\ CopyKernels("stock")
BenchCleanup ==
  /\ up /\ pc = "bench.cleanup"
  /\ \/ Cleanup /\ UNCHANGED tainted
     \/ StopAll /\ pkg' \in Partly("stock") /\ Left(pkg', "stock")   \* || true
  /\ EndStage("summary")
  /\ UNCHANGED <<route, backup, routeBackup, data, markers, jobs, build, clock, marked>>

\* gate_summarize.py, then the marker.
Summary ==
  /\ up /\ pc = "summary"
  /\ Mark("DONE") /\ Goto("idle") /\ job' = "none"
  /\ UNCHANGED <<disk, data, jobs, build, server, clock, tainted>>

-----------------------------------------------------------------------------
(* Kills.                                                                  *)

\* A copy under way is cut short.
Cut ==
  /\ pkg' \in CASE pc = "boot.deploy" -> Partly("ours")
               [] pc \in {"boot.restore", "logit.restore", "bench.cleanup"} -> Partly("stock")
               [] pc = "logit.deploy" \/ (pc = "bench.next" /\ backup # "none") -> Partly(build)
               [] OTHER -> {pkg}
  /\ backup' \in IF (pc = "boot.copy" /\ pkg = "stock") \/ (pc = "logit.backup" /\ TakesBackup)
                 THEN {"empty", "part"} ELSE {backup}
Taints ==
  tainted' = (IF serving # Nobody \/ route = "ours" \/ backup' \in {"empty", "part"} THEN tainted \cup {"kill"} ELSE tainted)

\* `timeout` kills the gate, which handles no signal; its server has a session
\* of its own.  The pipeline goes on.
KillLogit ==
  /\ up /\ pc \in {"logit.deploy", "logit.route", "logit.start", "logit.collect", "logit.stop", "logit.restore", "logit.unroute"}
  /\ Cut /\ Taints
  /\ EndStage("bench.next") /\ build' = "stock" /\ own' = FALSE
  /\ logits' = [b \in Builds |-> Nobody]
  /\ UNCHANGED <<route, routeBackup, runs, markers, jobs, serving, clock, marked>>

\* `timeout` or Ctrl-C ends the bench in the middle of a run: the client can have
\* begun its file, and the trap still runs.
TermBench ==
  /\ up /\ pc = "bench.run" /\ Missing(build) # {}
  /\ \E r \in Missing(build) : runs' = [runs EXCEPT ![build][r] = Torn]
  /\ Goto("bench.cleanup")
  /\ Else(<<disk, logits, markers, build, server, marked>>)

\* SIGKILL of everything, at any point.
KillJob ==
  /\ up /\ job # "none"
  /\ Cut /\ Taints
  /\ job' = "none" /\ Goto("idle") /\ own' = FALSE
  /\ logits' = [b \in Builds |-> Nobody]
  /\ UNCHANGED <<route, routeBackup, runs, markers, jobs, build, serving, clock, marked>>

-----------------------------------------------------------------------------
(* gates_watchdog.sh; a tick is one pass of its loop.                      *)

Arm ==
  /\ up /\ watch = "off" /\ watch' = "watch" /\ deadline' = now + Cap
  /\ UNCHANGED <<disk, data, markers, jobs, job, pc, build, server, up, now, marked, tainted>>

\* Mutant: the retrieval window is taken whatever the cap leaves.
BugNewDeadline == now + 1 + Window
NewDeadline == IF now + 1 + Window < deadline THEN now + 1 + Window ELSE deadline

Tick ==
  /\ up /\ watch \in {"watch", "window"} /\ now < deadline
  /\ now' = now + 1
  /\ IF watch = "watch" /\ markers # {} THEN watch' = "window" /\ deadline' = NewDeadline
                                        ELSE UNCHANGED <<watch, deadline>>
  /\ UNCHANGED <<disk, data, markers, jobs, job, pc, build, server, up, marked, tainted>>

\* Mutant: the comparison of the last loop off by one.
BugFire == up /\ watch = "window" /\ now > deadline /\ watch' = "fired" /\ UNCHANGED <<disk, data, markers, jobs, job, pc, build, server, up, now, deadline, marked, tainted>>
\* One call; the box goes, or the call failed and the watchdog has ended.
Fire ==
  /\ up /\ watch \in {"watch", "window"} /\ now >= deadline
  /\ watch' = "fired" /\ up' \in BOOLEAN
  /\ UNCHANGED <<disk, data, markers, jobs, job, pc, build, server, now, deadline, marked, tainted>>

Init ==
  /\ pkg = "stock" /\ route = "stock" /\ backup = "none" /\ routeBackup = "none"
  /\ runs = [b \in Builds |-> [r \in Runs |-> Absent]] /\ logits = [b \in Builds |-> Nobody]
  /\ markers = {} /\ jobs = 0 /\ job = "none" /\ pc = "idle" /\ build = "stock"
  /\ serving = Nobody /\ own = FALSE
  /\ up = TRUE /\ now = 0 /\ watch = "off" /\ deadline = 0
  /\ marked = 0 /\ tainted = {}

Boot == BootMkdir \/ BootCopy \/ BootDeploy \/ BootRestore \/ BootFails
Logit == LogitBackup \/ LogitDeploy \/ LogitRoute \/ LogitStart \/ LogitCollect \/ LogitStop
         \/ LogitRestore \/ LogitUnroute \/ LogitEnd
Bench == BenchRefuses \/ BenchBuild \/ BenchStart \/ BenchRun \/ BenchStop \/ BenchCleanup
Next == Start \/ Boot \/ Logit \/ Bench \/ Summary \/ KillLogit \/ TermBench \/ KillJob \/ Arm \/ Tick \/ Fire
Spec == Init /\ [][Next]_vars /\ WF_vars(Tick \/ Fire)

-----------------------------------------------------------------------------
Kernels == {"stock", "ours", "mixed"}
\* What the variables hold.
TypeOK ==
  /\ pkg \in Kernels /\ route \in Builds
  /\ backup \in {"none", "empty", "part", "whole", "poisoned"} /\ routeBackup \in {"none"} \cup Builds
  /\ runs \in [Builds -> [Runs -> {Absent, Torn} \cup Server]]
  /\ logits \in [Builds -> {Nobody} \cup Server] /\ markers \subseteq {"DONE", "FAILED"}
  /\ jobs \in 0 .. MaxJobs /\ job \in {"none", "pipeline", "logit", "bench"} /\ build \in Builds
  /\ serving \in {Nobody} \cup Server /\ own \in BOOLEAN /\ up \in BOOLEAN
  /\ tainted \subseteq {"kill", "backup", "kernels", "route"}
  /\ watch \in {"off", "watch", "window", "fired"} /\ {now, deadline, marked} \subseteq Nat

\* Neither backup ever holds modified files, whatever is killed when: everything
\* that says "stock" later is restored from them (gate_logit_parity.py:293-295,
\* bootstrap_8x.sh:91-99).
BackupNeverOurs == backup # "poisoned" /\ routeBackup # "ours"

\* A number filed under a build was measured on a server that runs the kernels of that
\* build, and the logits also on its route, whatever step failed to deploy or to restore,
\* unless a kill or a failed copy left half a backup, or a kill a server or a patched router
\* (gate_e2e_bench.sh:196-215, gate_logit_parity.py:561-581).
MeasuredOnItsKernels ==
  tainted \cap {"kill", "backup"} = {} => \A b \in Builds :
    /\ \A r \in Runs : runs[b][r] \notin {Absent, Torn} => runs[b][r].kernels = b
    /\ logits[b] # Nobody => logits[b] = [kernels |-> b, route |-> b]

\* Stock kernels are never served through the patched router, where they ignore the bias
\* (u2_serving_route.py:13-16), also after a deploy that failed half-way, unless a kill left
\* something behind or the restore of the router failed, which the gate only logs
\* (gate_logit_parity.py:577-581).
NoSilentBias ==
  tainted \cap {"kill", "route"} = {} /\ serving # Nobody => serving.kernels = "ours" \/ serving.route = "stock"

\* A gate that comes to its end leaves the box in stock state and no server on it: the
\* restore covers a failure of any step before it.  What it cannot cover is its own failure,
\* half a backup, and what a kill left (gate_e2e_bench.sh:141-145, gate_logit_parity.py:561-581).
InStock == pkg = "stock" /\ route = "stock" /\ serving = Nobody
StockAtRest == [][LogitEnd \/ BenchCleanup => tainted' # {} \/ InStock']_vars

\* The watchdog acts no later than the cap and never before both the pipeline has
\* finished and the retrieval window has passed, wherever in its loop the finish falls
\* (gates_watchdog.sh:15-27).
WatchdogBounds ==
  /\ watch # "off" => now <= Cap
  /\ watch = "fired" /\ now < Cap => markers # {} /\ now > marked + Window

\* An armed watchdog gets to ask for the box to be terminated (gates_watchdog.sh:28-31).
WatchdogActs == watch = "watch" ~> watch = "fired"
=============================================================================
