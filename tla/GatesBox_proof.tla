---------------------------- MODULE GatesBox_proof ----------------------------
(***************************************************************************)
(* Proofs about the gates box, for any number of result files per build,   *)
(* any cap and retrieval window of the watchdog, and any number of jobs,   *)
(* each of which can be killed at any point.                               *)
(*                                                                         *)
(* The invariant has three parts.  DiskInv: there is a backup before       *)
(* anything but stock files is installed.  CleanInv: what is served and    *)
(* installed at each step, as far as nothing went wrong for good that it   *)
(* depends on: the kernels on whole backups, the server on no kill, the    *)
(* router on no kill and on no restore of it that failed.  WatchInv: the   *)
(* watchdog's deadline is the cap or lies a window after the marker.       *)
(*                                                                         *)
(* The last section is about the verdicts on what was measured.            *)
(***************************************************************************)
EXTENDS GatesBox, Integers, TLAPS

InLogit == {"logit.deploy", "logit.route", "logit.start", "logit.collect", "logit.stop", "logit.restore",
            "logit.unroute", "logit.end"}
InBench == {"bench.start", "bench.run", "bench.stop", "bench.cleanup"}
AtBackup == {"boot.mkdir", "boot.copy", "logit.backup", "bench.next"}
InBoot == {"boot.deploy", "boot.restore"}

\* Where a job is when its backup has been taken.
BackedUp == InBoot \cup InLogit \cup InBench

DiskInv ==
  /\ TypeOK
  /\ pc \in {"idle", "summary"} \cup AtBackup \cup BackedUp
  /\ job = "none" <=> pc = "idle"
  /\ backup # "poisoned" /\ routeBackup # "ours"
  /\ backup = "none" => pkg = "stock" /\ pc \notin BackedUp
  /\ pc = "boot.copy" => backup = "empty" /\ pkg = "stock"
  /\ pc \in {"logit.collect", "logit.stop", "bench.run"} => serving # Nobody

Serves == {"logit.collect", "logit.stop", "bench.run", "bench.stop", "bench.cleanup"}
Deployed == {"logit.route", "logit.start", "bench.start"}

\* Without half a backup, what a step counts on is the build at hand.
KernelsInv == "kill" \notin tainted /\ "backup" \notin tainted =>
  /\ backup \in {"none", "whole"} \/ pc = "boot.copy"
  /\ pc \in BackedUp => backup = "whole"
  /\ pc \in Deployed => pkg = build
  /\ serving # Nobody => serving.kernels = build
  /\ pc = "logit.unroute" => pkg = "stock"

\* Without a kill, a server exists only in the steps that take it away again.  Modified
\* kernels need no backup.
ServerInv == "kill" \notin tainted =>
  /\ serving # Nobody => pc \in Serves
  /\ pc \in {"logit.collect", "logit.stop"} => own /\ serving.route = build
  /\ pc \in Deployed /\ build = "ours" => pkg = "ours"
  /\ serving # Nobody /\ build = "ours" => serving.kernels = "ours"

\* Until its restore fails, the patched router exists only inside the gate.
RouteInv ==
  /\ pc \in {"logit.start", "logit.collect", "logit.stop"} => route = build
  /\ "kill" \notin tainted /\ "route" \notin tainted =>
       /\ route = "ours" => pc \in InLogit \ {"logit.deploy", "logit.route", "logit.end"}
       /\ serving # Nobody /\ pc \notin InLogit => serving.route = "stock"

\* At the end of the gate, what is not in stock state is on record.
RestoreInv == pc = "logit.end" /\ tainted = {} => pkg = "stock" /\ route = "stock"

CleanInv == KernelsInv /\ ServerInv /\ RouteInv /\ RestoreInv

WatchInv ==
  /\ markers # {} => marked <= now
  /\ watch = "off" => now = 0
  /\ watch # "off" => now <= deadline /\ deadline <= Cap
  /\ watch = "watch" => deadline = Cap
  /\ watch \in {"window", "fired"} => deadline = Cap \/ (markers # {} /\ deadline > marked + Window)
  /\ watch = "fired" => now = deadline

BoxInv == DiskInv /\ CleanInv /\ MeasuredOnItsKernels /\ WatchInv

-----------------------------------------------------------------------------
(* Types.                                                                  *)

LEMMA CopyTyped ==
  ASSUME TypeOK, NEW b \in Builds, CopyKernels(b)
  PROVE  pkg' \in Kernels
BY DEF TypeOK, CopyKernels, Over, Kernels

LEMMA PartlyTyped ==
  ASSUME TypeOK, NEW b \in Builds, NEW k \in Partly(b)
  PROVE  k \in Kernels
BY DEF TypeOK, Partly, Kernels

\* A router that could be deployed is that of the build, and there is a backup of it.
LEMMA PatchTyped ==
  ASSUME TypeOK, NEW b \in Builds, PatchRoute(b), routeBackup # "ours"
  PROVE  route' = b /\ routeBackup' = "stock"
BY DEF TypeOK, PatchRoute, Builds

LEMMA RouteFailsTyped ==
  ASSUME TypeOK, RouteFails, routeBackup # "ours"
  PROVE  route' = route /\ routeBackup' \in {"none", "stock"}
BY DEF TypeOK, RouteFails, Builds

\* A copy that is cut short leaves a mixed package, if it is a step that has a backup,
\* or half a backup.
LEMMA CutTyped ==
  ASSUME TypeOK, Cut
  PROVE  /\ pkg' \in Kernels
         /\ pkg' # pkg => pc \in {"boot.deploy", "boot.restore", "logit.deploy", "logit.restore", "bench.cleanup"}
                          \/ (pc = "bench.next" /\ backup # "none")
         /\ backup' # backup => backup' \in {"empty", "part"}
<1>1. build \in Builds /\ {"stock", "ours"} \subseteq Builds /\ pkg \in Kernels
  BY DEF TypeOK, Builds
<1>2. \/ pkg' = pkg
      \/ /\ \E b \in Builds : pkg' \in Partly(b)
         /\ pc \in {"boot.deploy", "boot.restore", "logit.deploy", "logit.restore", "bench.cleanup"}
            \/ (pc = "bench.next" /\ backup # "none")
  BY <1>1 DEF Cut
<1>3. backup' # backup => backup' \in {"empty", "part"}
  BY DEF Cut
<1> QED  BY <1>1, <1>2, <1>3, PartlyTyped

\* What went wrong stays on record, and so does what a restore leaves.
LEMMA LeftRecorded ==
  ASSUME TypeOK, NEW k, NEW r, Left(k, r)
  PROVE  /\ tainted \subseteq tainted' /\ tainted' \subseteq {"kill", "backup", "kernels", "route"}
         /\ r # "stock" => "route" \in tainted'
         /\ tainted' = {} => k = "stock" /\ r = "stock"
BY DEF TypeOK, Left

LEMMA KillRecorded ==
  ASSUME TypeOK, Taints
  PROVE  /\ tainted \subseteq tainted' /\ tainted' \subseteq {"kill", "backup", "kernels", "route"}
         /\ "kill" \notin tainted' => serving = Nobody /\ route # "ours" /\ backup' \notin {"empty", "part"}
BY DEF TypeOK, Taints

LEMMA ServerTyped ==
  ASSUME TypeOK, ServerUp
  PROVE  /\ serving' \in Server /\ serving' # Nobody /\ own' \in BOOLEAN
         /\ serving = Nobody => serving'.kernels = pkg /\ serving'.route = route /\ own' = TRUE
<1>1. [kernels |-> pkg, route |-> route] \in Server
  BY DEF TypeOK, Server, Kernels
<1>2. \A x \in Server : x # Nobody
  <2>1. \A x \in Server : x.kernels # "none"
    BY DEF Server
  <2> QED  BY <2>1 DEF Nobody
<1>3. CASE serving = Nobody
  BY <1>1, <1>2, <1>3 DEF ServerUp
<1>4. CASE serving # Nobody
  BY <1>4 DEF ServerUp, TypeOK
<1> QED  BY <1>3, <1>4

\* The job goes on with the next stage, or ends.
LEMMA StageEnds ==
  ASSUME TypeOK, job # "none", NEW next \in {"bench.next", "summary"}, EndStage(next)
  PROVE  /\ job' \in {"none", "pipeline", "logit", "bench"} /\ pc' \in {"idle", "bench.next", "summary"}
         /\ job' = "none" <=> pc' = "idle"
BY DEF TypeOK, EndStage, Goto

LEMMA TypeNext ==
  ASSUME DiskInv, [Next]_vars
  PROVE  TypeOK'
<1>0. TypeOK /\ routeBackup # "ours" /\ (job = "none" <=> pc = "idle")
  BY DEF DiskInv
<1> USE DEF Else, Goto, disk, data, server, clock
<1>1. CASE Start
  <2>1. /\ jobs \in 0 .. MaxJobs /\ jobs < MaxJobs /\ jobs' = jobs + 1 /\ MaxJobs \in Nat
        /\ job' \in {"none", "pipeline", "logit", "bench"} /\ build' = "stock" /\ own' = FALSE
    BY <1>0, <1>1, BoxAssumption DEF Start, TypeOK
  <2>2. jobs' \in 0 .. MaxJobs
    BY <2>1
  <2>3. UNCHANGED <<pkg, route, backup, routeBackup, runs, logits, markers, serving, up, now, watch, deadline, marked, tainted>>
    BY <1>1 DEF Start
  <2> QED  BY <1>0, <2>1, <2>2, <2>3 DEF TypeOK, Builds
<1>2. CASE BootMkdir \/ BootCopy
  BY <1>0, <1>2 DEF BootMkdir, BootCopy, TypeOK
<1>3. CASE BootDeploy \/ BootRestore \/ LogitDeploy
  <2>1. pkg' \in Kernels
    BY <1>0, <1>3, CopyTyped, PartlyTyped DEF BootDeploy, BootRestore, LogitDeploy, TypeOK, Builds
  <2> QED  BY <1>0, <1>3, <2>1 DEF BootDeploy, BootRestore, LogitDeploy, TypeOK
<1>3a. CASE LogitRestore
  <2>1. pkg' \in Kernels
    BY <1>0, <1>3a, CopyTyped, PartlyTyped DEF LogitRestore, Builds
  <2>2. tainted' \subseteq {"kill", "backup", "kernels", "route"}
    BY <1>0, <1>3a, LeftRecorded DEF LogitRestore, TypeOK
  <2> QED  BY <1>0, <1>3a, <2>1, <2>2 DEF LogitRestore, TypeOK
<1>4. CASE BootFails
  <2>1. pkg' \in Kernels
    <3>1. \/ pkg' = pkg
          \/ \E b \in {"stock", "ours"} : pkg' \in Partly(b)
      BY <1>4 DEF BootFails
    <3> QED  BY <1>0, <3>1, PartlyTyped DEF TypeOK, Builds
  <2>2. /\ backup' \in {backup, "empty", "part"} /\ tainted' \in {tainted, tainted \cup {"backup"}}
        /\ markers' = markers \cup {"FAILED"} /\ marked' \in {now, marked} /\ job' = "none"
        /\ UNCHANGED <<route, routeBackup, runs, logits, jobs, build, serving, own, up, now, watch, deadline>>
    BY <1>4 DEF BootFails, Mark
  <2> QED  BY <1>0, <2>1, <2>2 DEF TypeOK
<1>4a. CASE Summary
  BY <1>0, <1>4a DEF Summary, Mark, TypeOK
<1>5. CASE LogitBackup
  BY <1>0, <1>5, StageEnds DEF LogitBackup, TypeOK, Builds
<1>6. CASE LogitRoute
  BY <1>0, <1>6, PatchTyped, RouteFailsTyped DEF LogitRoute, TypeOK, Builds
<1>6a. CASE LogitUnroute
  <2>1. tainted' \subseteq {"kill", "backup", "kernels", "route"}
    BY <1>0, <1>6a, LeftRecorded DEF LogitUnroute, TypeOK
  <2>2. route' \in Builds /\ routeBackup' \in {"none"} \cup Builds
    BY <1>0, <1>6a, PatchTyped, RouteFailsTyped DEF LogitUnroute, TypeOK, Builds
  <2> QED  BY <1>0, <1>6a, <2>1, <2>2 DEF LogitUnroute, TypeOK
<1>7. CASE LogitStart \/ BenchStart
  BY <1>0, <1>7, ServerTyped DEF LogitStart, BenchStart, TypeOK
<1>8. CASE LogitCollect
  BY <1>0, <1>8 DEF LogitCollect, TypeOK
<1>9. CASE LogitStop
  BY <1>0, <1>9 DEF LogitStop, StopOwn, TypeOK, Builds
<1>10. CASE LogitEnd
  BY <1>0, <1>10, StageEnds DEF LogitEnd, TypeOK, Builds
<1>11. CASE BenchRefuses
  BY <1>0, <1>11, StageEnds DEF BenchRefuses, TypeOK
<1>12. CASE BenchBuild
  <2>1. pkg' \in Kernels
    BY <1>0, <1>12, CopyTyped, PartlyTyped DEF BenchBuild, TypeOK
  <2> QED  BY <1>0, <1>12, <2>1 DEF BenchBuild, TypeOK, Builds
<1>13. CASE BenchRun
  BY <1>0, <1>13 DEF BenchRun, TypeOK, DiskInv, Missing
<1>14. CASE BenchStop
  BY <1>0, <1>14 DEF BenchStop, StopAll, TypeOK, Builds
<1>15. CASE BenchCleanup
  <2>1. pkg' \in Kernels
    BY <1>0, <1>15, CopyTyped, PartlyTyped DEF BenchCleanup, Cleanup, Builds
  <2>2. tainted' \subseteq {"kill", "backup", "kernels", "route"}
    BY <1>0, <1>15, LeftRecorded DEF BenchCleanup, TypeOK
  <2>3. job' \in {"none", "pipeline", "logit", "bench"}
    BY <1>0, <1>15, StageEnds DEF BenchCleanup
  <2> QED  BY <1>0, <1>15, <2>1, <2>2, <2>3 DEF BenchCleanup, Cleanup, StopAll, TypeOK
<1>16. CASE KillLogit
  <2>1. /\ pkg' \in Kernels /\ backup' \in {backup, "empty", "part"}
        /\ tainted' \subseteq {"kill", "backup", "kernels", "route"}
        /\ job' \in {"none", "pipeline", "logit", "bench"}
    BY <1>0, <1>16, CutTyped, KillRecorded, StageEnds DEF KillLogit
  <2> QED  BY <1>0, <1>16, <2>1 DEF KillLogit, TypeOK, Builds
<1>17. CASE TermBench
  BY <1>0, <1>17 DEF TermBench, TypeOK, Missing
<1>18. CASE KillJob
  <2>1. /\ pkg' \in Kernels /\ backup' \in {backup, "empty", "part"}
        /\ tainted' \subseteq {"kill", "backup", "kernels", "route"}
    BY <1>0, <1>18, CutTyped, KillRecorded DEF KillJob
  <2> QED  BY <1>0, <1>18, <2>1 DEF KillJob, TypeOK
<1>19. CASE Arm \/ Tick \/ Fire
  <2>1. /\ UNCHANGED <<pkg, route, backup, routeBackup, runs, logits, markers, jobs, job, build, serving, own, marked, tainted>>
        /\ watch' \in {"off", "watch", "window", "fired"} /\ up' \in BOOLEAN
        /\ now' \in {now, now + 1} /\ deadline' \in {deadline, now + Cap, now + 1 + Window}
    BY <1>0, <1>19 DEF Arm, Tick, Fire, NewDeadline, TypeOK
  <2>2. now' \in Nat /\ deadline' \in Nat
    BY <1>0, <2>1, BoxAssumption DEF TypeOK
  <2> QED  BY <1>0, <2>1, <2>2 DEF TypeOK
<1>20. CASE UNCHANGED vars
  BY <1>0, <1>20 DEF vars, TypeOK
<1> QED
  BY <1>1, <1>2, <1>3, <1>3a, <1>4, <1>4a, <1>5, <1>6, <1>6a, <1>7, <1>8, <1>9, <1>10, <1>11, <1>12,
     <1>13, <1>14, <1>15, <1>16, <1>17, <1>18, <1>19, <1>20 DEF Next, Boot, Logit, Bench

-----------------------------------------------------------------------------
(* The invariant holds at the start and is kept.                           *)

LEMMA BoxInit == Init => BoxInv
<1> SUFFICES ASSUME Init PROVE BoxInv
  OBVIOUS
<1>1. TypeOK
  <2>1. runs \in [Builds -> [Runs -> {Absent, Torn} \cup Server]] /\ logits \in [Builds -> {Nobody} \cup Server]
    BY DEF Init
  <2>2. jobs \in 0 .. MaxJobs
    BY BoxAssumption DEF Init
  <2>3. /\ pkg \in Kernels /\ route \in Builds /\ build \in Builds /\ markers = {}
        /\ now = 0 /\ deadline = 0 /\ marked = 0
    BY DEF Init, Kernels, Builds
  <2>4. /\ backup = "none" /\ routeBackup = "none" /\ job = "none" /\ serving = Nobody
        /\ own = FALSE /\ up = TRUE /\ tainted = {} /\ watch = "off"
    BY DEF Init
  <2>5. markers \subseteq {"DONE", "FAILED"} /\ {now, deadline, marked} \subseteq Nat
    BY <2>3
  <2>6. /\ serving \in {Nobody} \cup Server /\ own \in BOOLEAN /\ up \in BOOLEAN
        /\ tainted \subseteq {"kill", "backup", "kernels", "route"}
        /\ routeBackup \in {"none"} \cup Builds
    BY <2>4
  <2> QED  BY <2>1, <2>2, <2>3, <2>4, <2>5, <2>6, Zenon DEF TypeOK
<1>2. DiskInv
  BY <1>1 DEF Init, DiskInv, AtBackup, BackedUp, InBoot, InLogit, InBench
<1>3. CleanInv
  BY DEF Init, CleanInv, KernelsInv, ServerInv, RouteInv, RestoreInv, BackedUp, InBoot, InLogit, InBench, Deployed, Serves
<1>4. MeasuredOnItsKernels
  BY DEF Init, MeasuredOnItsKernels
<1>5. WatchInv
  BY BoxAssumption DEF Init, WatchInv
<1> QED  BY <1>2, <1>3, <1>4, <1>5 DEF BoxInv

\* There is a backup, of stock files, before modified files are copied.
LEMMA DiskNext ==
  ASSUME DiskInv, [Next]_vars
  PROVE  DiskInv'
<1>0. TypeOK /\ TypeOK'
  BY TypeNext DEF DiskInv
<1> USE DEF Else, Goto, disk, data, server, clock, AtBackup, BackedUp, InBoot, InLogit, InBench
<1>1. CASE Start
  BY <1>0, <1>1 DEF Start, DiskInv
<1>2. CASE BootMkdir \/ BootCopy
  BY <1>0, <1>2 DEF BootMkdir, BootCopy, DiskInv
<1>3. CASE BootDeploy \/ BootRestore \/ LogitDeploy \/ LogitRestore
  BY <1>0, <1>3 DEF BootDeploy, BootRestore, LogitDeploy, LogitRestore, DiskInv, HasFiles
<1>4. CASE BootFails
  <2>1. /\ backup' # backup => backup' \in {"empty", "part"}
        /\ pkg' # pkg => pc \in InBoot
        /\ pc' = "idle" /\ job' = "none" /\ routeBackup' = routeBackup
    BY <1>4 DEF BootFails
  <2> QED  BY <1>0, <2>1 DEF DiskInv
<1>4a. CASE Summary
  BY <1>0, <1>4a DEF Summary, DiskInv
<1>5. CASE LogitBackup
  BY <1>0, <1>5, StageEnds DEF LogitBackup, TakesBackup, DiskInv, HasFiles, BackupRefuses, TypeOK, Kernels
<1>6. CASE LogitRoute \/ LogitUnroute
  <2>1. routeBackup' \in {"none", "stock"}
    BY <1>0, <1>6, PatchTyped, RouteFailsTyped DEF LogitRoute, LogitUnroute, DiskInv, TypeOK, Builds
  <2> QED  BY <1>0, <1>6, <2>1 DEF LogitRoute, LogitUnroute, DiskInv
<1>7. CASE LogitStart \/ BenchStart
  BY <1>0, <1>7, ServerTyped DEF LogitStart, BenchStart, DiskInv
<1>8. CASE LogitCollect
  BY <1>0, <1>8 DEF LogitCollect, DiskInv
<1>9. CASE LogitStop
  BY <1>0, <1>9 DEF LogitStop, DiskInv
<1>10. CASE LogitEnd
  BY <1>0, <1>10, StageEnds DEF LogitEnd, DiskInv
<1>11. CASE BenchRefuses
  BY <1>0, <1>11, StageEnds DEF BenchRefuses, DiskInv
<1>12. CASE BenchBuild
  BY <1>0, <1>12 DEF BenchBuild, DiskInv
<1>13. CASE BenchRun
  BY <1>0, <1>13 DEF BenchRun, DiskInv
<1>14. CASE BenchStop
  BY <1>0, <1>14 DEF BenchStop, DiskInv
<1>15. CASE BenchCleanup
  BY <1>0, <1>15, StageEnds DEF BenchCleanup, DiskInv
<1>16. CASE KillLogit
  BY <1>0, <1>16, CutTyped, StageEnds DEF KillLogit, DiskInv
<1>17. CASE TermBench
  BY <1>0, <1>17 DEF TermBench, DiskInv
<1>18. CASE KillJob
  BY <1>0, <1>18, CutTyped DEF KillJob, DiskInv
<1>19. CASE Arm \/ Tick \/ Fire \/ UNCHANGED vars
  BY <1>0, <1>19 DEF Arm, Tick, Fire, vars, DiskInv
<1> QED
  BY <1>1, <1>2, <1>3, <1>4, <1>4a, <1>5, <1>6, <1>7, <1>8, <1>9, <1>10, <1>11, <1>12, <1>13, <1>14, <1>15,
     <1>16, <1>17, <1>18, <1>19 DEF Next, Boot, Logit, Bench

\* Nothing that went wrong for good is forgotten.
LEMMA TaintsStay ==
  ASSUME TypeOK, [Next]_vars
  PROVE  tainted \subseteq tainted'
<1>1. CASE LogitRestore \/ LogitUnroute \/ BenchCleanup
  BY <1>1, LeftRecorded DEF LogitRestore, LogitUnroute, BenchCleanup
<1>2. CASE KillLogit \/ KillJob
  BY <1>2, KillRecorded DEF KillLogit, KillJob
<1>3. CASE BootFails \/ LogitBackup
  BY <1>3 DEF BootFails, LogitBackup
<1>4. CASE \/ Start \/ BootMkdir \/ BootCopy \/ BootDeploy \/ BootRestore \/ LogitDeploy \/ LogitRoute
           \/ LogitStart \/ LogitCollect \/ LogitStop \/ LogitEnd \/ BenchRefuses \/ BenchBuild \/ BenchStart
           \/ BenchRun \/ BenchStop \/ Summary \/ TermBench \/ Arm \/ Tick \/ Fire \/ UNCHANGED vars
  <2>1. tainted' = tainted
    BY <1>4 DEF Start, BootMkdir, BootCopy, BootDeploy, BootRestore, LogitDeploy, LogitRoute, LogitStart,
       LogitCollect, LogitStop, LogitEnd, BenchRefuses, BenchBuild, BenchStart, BenchRun, BenchStop, Summary,
       TermBench, Arm, Tick, Fire, Else, vars
  <2> QED  BY <2>1
<1> QED  BY <1>1, <1>2, <1>3, <1>4 DEF Next, Boot, Logit, Bench

\* Half a backup comes from a failed copy or a kill only, and whole ones install the build.
LEMMA KernelsNext ==
  ASSUME DiskInv, KernelsInv, ServerInv, [Next]_vars
  PROVE  KernelsInv'
<1>0. DiskInv' /\ TypeOK /\ TypeOK' /\ tainted \subseteq tainted'
  BY DiskNext, TaintsStay DEF DiskInv
<1> SUFFICES ASSUME "kill" \notin tainted', "backup" \notin tainted' PROVE KernelsInv'
  BY DEF KernelsInv
<1>00. "kill" \notin tainted /\ "backup" \notin tainted
  BY <1>0
<1> USE DEF Else, Goto, disk, data, server, clock, AtBackup, BackedUp, InBoot, InLogit, InBench, Serves, Deployed
<1>1. CASE Start
  BY <1>0, <1>00, <1>1 DEF Start, KernelsInv, ServerInv, DiskInv
<1>2. CASE BootMkdir \/ BootCopy
  BY <1>0, <1>00, <1>2 DEF BootMkdir, BootCopy, KernelsInv, ServerInv, DiskInv
<1>3. CASE BootDeploy \/ BootRestore
  BY <1>0, <1>00, <1>3 DEF BootDeploy, BootRestore, HasFiles, KernelsInv, ServerInv, DiskInv
<1>4. CASE BootFails
  BY <1>0, <1>00, <1>4 DEF BootFails, KernelsInv, ServerInv, DiskInv
<1>5. CASE Summary
  BY <1>0, <1>00, <1>5 DEF Summary, KernelsInv, ServerInv, DiskInv
<1>6. CASE LogitBackup
  BY <1>0, <1>00, <1>6, StageEnds DEF LogitBackup, TakesBackup, HasFiles, BackupRefuses, TypeOK, Kernels, KernelsInv, ServerInv, DiskInv
<1>7. CASE LogitDeploy
  BY <1>0, <1>00, <1>7 DEF LogitDeploy, CopyKernels, Over, TypeOK, Builds, KernelsInv, ServerInv, DiskInv
<1>8. CASE LogitRestore
  BY <1>0, <1>00, <1>8 DEF LogitRestore, CopyKernels, Over, TypeOK, KernelsInv, ServerInv, DiskInv
<1>9. CASE LogitRoute
  BY <1>0, <1>00, <1>9 DEF LogitRoute, KernelsInv, ServerInv, DiskInv
<1>10. CASE LogitUnroute
  BY <1>0, <1>00, <1>10 DEF LogitUnroute, KernelsInv, ServerInv, DiskInv
<1>11. CASE LogitStart
  <2>1. serving = Nobody
    BY <1>00, <1>11 DEF LogitStart, ServerInv
  <2>2. serving' = Nobody \/ (serving'.kernels = pkg /\ serving'.route = route /\ own' = TRUE)
    BY <1>0, <1>11, <2>1, ServerTyped DEF LogitStart
  <2> QED  BY <1>0, <1>00, <1>11, <2>2 DEF LogitStart, TypeOK, Builds, KernelsInv, ServerInv, DiskInv
<1>12. CASE LogitCollect
  BY <1>0, <1>00, <1>12 DEF LogitCollect, KernelsInv, ServerInv, DiskInv
<1>13. CASE LogitStop
  <2>1. own
    BY <1>00, <1>13 DEF LogitStop, ServerInv
  <2>2. serving' = Nobody
    BY <1>13, <2>1 DEF LogitStop, StopOwn
  <2> QED  BY <1>0, <1>00, <1>13, <2>2 DEF LogitStop, KernelsInv, ServerInv, DiskInv
<1>14. CASE LogitEnd
  BY <1>0, <1>00, <1>14, StageEnds DEF LogitEnd, KernelsInv, ServerInv, DiskInv
<1>15. CASE BenchRefuses
  BY <1>0, <1>00, <1>15, StageEnds DEF BenchRefuses, KernelsInv, ServerInv, DiskInv
<1>16. CASE BenchBuild
  BY <1>0, <1>00, <1>16 DEF BenchBuild, CopyKernels, Over, TypeOK, Builds, KernelsInv, ServerInv, DiskInv
<1>17. CASE BenchStart
  <2>1. serving = Nobody
    BY <1>00, <1>17 DEF BenchStart, ServerInv
  <2>2. serving' = Nobody \/ (serving'.kernels = pkg /\ serving'.route = route /\ own' = TRUE)
    BY <1>0, <1>17, <2>1, ServerTyped DEF BenchStart
  <2> QED  BY <1>0, <1>00, <1>17, <2>2 DEF BenchStart, TypeOK, Builds, KernelsInv, ServerInv, DiskInv
<1>18. CASE BenchRun \/ TermBench
  BY <1>0, <1>00, <1>18 DEF BenchRun, TermBench, KernelsInv, ServerInv, DiskInv
<1>19. CASE BenchStop
  BY <1>0, <1>00, <1>19 DEF BenchStop, StopAll, KernelsInv, ServerInv, DiskInv
<1>20. CASE BenchCleanup
  BY <1>0, <1>00, <1>20, StageEnds DEF BenchCleanup, Cleanup, StopAll, KernelsInv, ServerInv, DiskInv
<1>21. CASE KillLogit \/ KillJob
  BY <1>0, <1>00, <1>21, CutTyped, KillRecorded, StageEnds DEF KillLogit, KillJob, KernelsInv, ServerInv, DiskInv
<1>22. CASE Arm \/ Tick \/ Fire \/ UNCHANGED vars
  BY <1>0, <1>00, <1>22 DEF Arm, Tick, Fire, vars, KernelsInv, ServerInv, DiskInv
<1> QED
  BY <1>1, <1>2, <1>3, <1>4, <1>5, <1>6, <1>7, <1>8, <1>9, <1>10, <1>11, <1>12, <1>13, <1>14, <1>15,
     <1>16, <1>17, <1>18, <1>19, <1>20, <1>21, <1>22 DEF Next, Boot, Logit, Bench

\* A server that outlives its script is on record, and so is the kill.
LEMMA ServerNext ==
  ASSUME DiskInv, ServerInv, RouteInv, [Next]_vars
  PROVE  ServerInv'
<1>0. DiskInv' /\ TypeOK /\ TypeOK' /\ tainted \subseteq tainted'
  BY DiskNext, TaintsStay DEF DiskInv
<1> SUFFICES ASSUME "kill" \notin tainted' PROVE ServerInv'
  BY DEF ServerInv
<1>00. "kill" \notin tainted
  BY <1>0
<1> USE DEF Else, Goto, disk, data, server, clock, AtBackup, BackedUp, InBoot, InLogit, InBench, Serves, Deployed
<1>1. CASE Start
  BY <1>0, <1>00, <1>1 DEF Start, ServerInv, RouteInv, DiskInv
<1>2. CASE BootMkdir \/ BootCopy
  BY <1>0, <1>00, <1>2 DEF BootMkdir, BootCopy, ServerInv, RouteInv, DiskInv
<1>3. CASE BootDeploy \/ BootRestore
  BY <1>0, <1>00, <1>3 DEF BootDeploy, BootRestore, ServerInv, RouteInv, DiskInv
<1>4. CASE BootFails
  BY <1>0, <1>00, <1>4 DEF BootFails, ServerInv, RouteInv, DiskInv
<1>5. CASE Summary
  BY <1>0, <1>00, <1>5 DEF Summary, ServerInv, RouteInv, DiskInv
<1>6. CASE LogitBackup
  BY <1>0, <1>00, <1>6, StageEnds DEF LogitBackup, TakesBackup, ServerInv, RouteInv, DiskInv
<1>7. CASE LogitDeploy
  BY <1>0, <1>00, <1>7 DEF LogitDeploy, CopyKernels, ServerInv, RouteInv, DiskInv
<1>8. CASE LogitRestore
  BY <1>0, <1>00, <1>8 DEF LogitRestore, ServerInv, RouteInv, DiskInv
<1>9. CASE LogitRoute
  BY <1>0, <1>00, <1>9 DEF LogitRoute, ServerInv, RouteInv, DiskInv
<1>10. CASE LogitUnroute
  BY <1>0, <1>00, <1>10 DEF LogitUnroute, ServerInv, RouteInv, DiskInv
<1>11. CASE LogitStart
  <2>1. serving = Nobody
    BY <1>00, <1>11 DEF LogitStart, ServerInv
  <2>2. serving' = Nobody \/ (serving'.kernels = pkg /\ serving'.route = route /\ own' = TRUE)
    BY <1>0, <1>11, <2>1, ServerTyped DEF LogitStart
  <2> QED  BY <1>0, <1>00, <1>11, <2>2 DEF LogitStart, TypeOK, Builds, ServerInv, RouteInv, DiskInv
<1>12. CASE LogitCollect
  BY <1>0, <1>00, <1>12 DEF LogitCollect, ServerInv, RouteInv, DiskInv
<1>13. CASE LogitStop
  <2>1. own
    BY <1>00, <1>13 DEF LogitStop, ServerInv
  <2>2. serving' = Nobody
    BY <1>13, <2>1 DEF LogitStop, StopOwn
  <2> QED  BY <1>0, <1>00, <1>13, <2>2 DEF LogitStop, ServerInv, DiskInv
<1>14. CASE LogitEnd
  BY <1>0, <1>00, <1>14, StageEnds DEF LogitEnd, ServerInv, RouteInv, DiskInv
<1>15. CASE BenchRefuses
  BY <1>0, <1>00, <1>15, StageEnds DEF BenchRefuses, ServerInv, RouteInv, DiskInv
<1>16. CASE BenchBuild
  BY <1>0, <1>00, <1>16 DEF BenchBuild, CopyKernels, ServerInv, RouteInv, DiskInv
<1>17. CASE BenchStart
  <2>1. serving = Nobody
    BY <1>00, <1>17 DEF BenchStart, ServerInv
  <2>2. serving' = Nobody \/ (serving'.kernels = pkg /\ serving'.route = route /\ own' = TRUE)
    BY <1>0, <1>17, <2>1, ServerTyped DEF BenchStart
  <2> QED  BY <1>0, <1>00, <1>17, <2>2 DEF BenchStart, TypeOK, Builds, ServerInv, RouteInv, DiskInv
<1>18. CASE BenchRun \/ TermBench
  BY <1>0, <1>00, <1>18 DEF BenchRun, TermBench, ServerInv, RouteInv, DiskInv
<1>19. CASE BenchStop
  BY <1>0, <1>00, <1>19 DEF BenchStop, StopAll, ServerInv, RouteInv, DiskInv
<1>20. CASE BenchCleanup
  BY <1>0, <1>00, <1>20, StageEnds DEF BenchCleanup, Cleanup, StopAll, ServerInv, RouteInv, DiskInv
<1>21. CASE KillLogit \/ KillJob
  BY <1>0, <1>00, <1>21, KillRecorded, StageEnds DEF KillLogit, KillJob, ServerInv, RouteInv, DiskInv
<1>22. CASE Arm \/ Tick \/ Fire \/ UNCHANGED vars
  BY <1>0, <1>00, <1>22 DEF Arm, Tick, Fire, vars, ServerInv, RouteInv, DiskInv
<1> QED
  BY <1>1, <1>2, <1>3, <1>4, <1>5, <1>6, <1>7, <1>8, <1>9, <1>10, <1>11, <1>12, <1>13, <1>14, <1>15,
     <1>16, <1>17, <1>18, <1>19, <1>20, <1>21, <1>22 DEF Next, Boot, Logit, Bench

\* A router that stays patched is on record, and so is what left it.
LEMMA RouteNext ==
  ASSUME DiskInv, RouteInv, ServerInv, [Next]_vars
  PROVE  RouteInv'
<1>0. DiskInv' /\ TypeOK /\ TypeOK' /\ tainted \subseteq tainted'
  BY DiskNext, TaintsStay DEF DiskInv
<1>00. \/ "kill" \in tainted \/ "route" \in tainted \/ ("kill" \notin tainted /\ "route" \notin tainted)
  OBVIOUS
<1> USE DEF Else, Goto, disk, data, server, clock, AtBackup, BackedUp, InBoot, InLogit, InBench, Serves, Deployed
<1>1. CASE Start
  BY <1>0, <1>00, <1>1 DEF Start, RouteInv, ServerInv, DiskInv
<1>2. CASE BootMkdir \/ BootCopy
  BY <1>0, <1>00, <1>2 DEF BootMkdir, BootCopy, RouteInv, ServerInv, DiskInv
<1>3. CASE BootDeploy \/ BootRestore
  BY <1>0, <1>00, <1>3 DEF BootDeploy, BootRestore, RouteInv, ServerInv, DiskInv
<1>4. CASE BootFails
  BY <1>0, <1>00, <1>4 DEF BootFails, RouteInv, ServerInv, DiskInv
<1>5. CASE Summary
  BY <1>0, <1>00, <1>5 DEF Summary, RouteInv, ServerInv, DiskInv
<1>6. CASE LogitBackup
  BY <1>0, <1>00, <1>6, StageEnds DEF LogitBackup, TakesBackup, RouteInv, ServerInv, DiskInv
<1>7. CASE LogitDeploy
  BY <1>0, <1>00, <1>7 DEF LogitDeploy, RouteInv, ServerInv, DiskInv
<1>8. CASE LogitRestore
  BY <1>0, <1>00, <1>8, LeftRecorded DEF LogitRestore, TypeOK, Builds, RouteInv, ServerInv, DiskInv
<1>9. CASE LogitRoute
  BY <1>0, <1>00, <1>9, PatchTyped, RouteFailsTyped DEF LogitRoute, TypeOK, Builds, RouteInv, ServerInv, DiskInv
<1>10. CASE LogitUnroute
  BY <1>0, <1>00, <1>10, PatchTyped, RouteFailsTyped, LeftRecorded DEF LogitUnroute, TypeOK, Builds, RouteInv, ServerInv, DiskInv
<1>11. CASE LogitStart
  BY <1>0, <1>00, <1>11, ServerTyped DEF LogitStart, TypeOK, Builds, RouteInv, ServerInv, DiskInv
<1>12. CASE LogitCollect
  BY <1>0, <1>00, <1>12 DEF LogitCollect, RouteInv, ServerInv, DiskInv
<1>13. CASE LogitStop
  BY <1>0, <1>00, <1>13 DEF LogitStop, TypeOK, Builds, StopOwn, RouteInv, ServerInv, DiskInv
<1>14. CASE LogitEnd
  BY <1>0, <1>00, <1>14, StageEnds DEF LogitEnd, RouteInv, ServerInv, DiskInv
<1>15. CASE BenchRefuses
  BY <1>0, <1>00, <1>15, StageEnds DEF BenchRefuses, RouteInv, ServerInv, DiskInv
<1>16. CASE BenchBuild
  BY <1>0, <1>00, <1>16 DEF BenchBuild, RouteInv, ServerInv, DiskInv
<1>17. CASE BenchStart
  <2>1. /\ pc = "bench.start" /\ UNCHANGED <<route, tainted>> /\ pc' \in {"bench.run", "bench.cleanup"}
        /\ serving' = serving \/ ServerUp
    BY <1>17 DEF BenchStart
  <2>2. "kill" \notin tainted => serving = Nobody
    BY <2>1 DEF ServerInv
  <2>3. "kill" \notin tainted => serving' = Nobody \/ serving'.route = route
    BY <1>0, <2>1, <2>2, ServerTyped
  <2> QED  BY <1>0, <2>1, <2>3 DEF RouteInv, TypeOK, Builds
<1>18. CASE BenchRun \/ TermBench
  BY <1>0, <1>00, <1>18 DEF BenchRun, TermBench, RouteInv, ServerInv, DiskInv
<1>19. CASE BenchStop
  BY <1>0, <1>00, <1>19 DEF BenchStop, StopAll, RouteInv, ServerInv, DiskInv
<1>20. CASE BenchCleanup
  BY <1>0, <1>00, <1>20, StageEnds DEF BenchCleanup, Cleanup, StopAll, RouteInv, ServerInv, DiskInv
<1>21. CASE KillLogit \/ KillJob
  BY <1>0, <1>00, <1>21, KillRecorded, StageEnds DEF KillLogit, KillJob, RouteInv, ServerInv, DiskInv
<1>22. CASE Arm \/ Tick \/ Fire \/ UNCHANGED vars
  BY <1>0, <1>00, <1>22 DEF Arm, Tick, Fire, vars, RouteInv, ServerInv, DiskInv
<1> QED
  BY <1>1, <1>2, <1>3, <1>4, <1>5, <1>6, <1>7, <1>8, <1>9, <1>10, <1>11, <1>12, <1>13, <1>14, <1>15,
     <1>16, <1>17, <1>18, <1>19, <1>20, <1>21, <1>22 DEF Next, Boot, Logit, Bench

\* A restore that failed and left something is on record.
LEMMA RestoreNext ==
  ASSUME DiskInv, KernelsInv, RestoreInv, [Next]_vars
  PROVE  RestoreInv'
<1>0. TypeOK /\ routeBackup # "ours" /\ tainted \subseteq tainted'
  BY TaintsStay DEF DiskInv
<1> SUFFICES ASSUME pc' = "logit.end", tainted' = {} PROVE pkg' = "stock" /\ route' = "stock"
  BY DEF RestoreInv
<1>1. CASE LogitRestore
  BY <1>0, <1>1, LeftRecorded DEF LogitRestore, Goto
<1>2. CASE LogitUnroute
  <2>1. CASE PatchRoute("stock") /\ UNCHANGED tainted
    BY <1>0, <1>2, <2>1, PatchTyped DEF LogitUnroute, KernelsInv, Builds
  <2>2. CASE RouteFails /\ Left(pkg, route)
    BY <1>0, <1>2, <2>2, LeftRecorded, RouteFailsTyped DEF LogitUnroute
  <2> QED  BY <1>2, <2>1, <2>2 DEF LogitUnroute
<1>3. CASE Start \/ Arm \/ Tick \/ Fire \/ UNCHANGED vars
  BY <1>0, <1>3 DEF Start, Arm, Tick, Fire, vars, RestoreInv, disk, DiskInv, Goto
<1>4. CASE Boot
  BY <1>4 DEF Boot, BootMkdir, BootCopy, BootDeploy, BootRestore, BootFails, Goto
<1>5. CASE LogitBackup \/ LogitEnd \/ BenchRefuses \/ BenchCleanup \/ KillLogit
  BY <1>5 DEF LogitBackup, LogitEnd, BenchRefuses, BenchCleanup, KillLogit, EndStage, Goto
<1>6. CASE LogitDeploy \/ LogitRoute \/ LogitStart \/ LogitCollect \/ LogitStop
  BY <1>6 DEF LogitDeploy, LogitRoute, LogitStart, LogitCollect, LogitStop, Goto
<1>7. CASE BenchBuild \/ BenchStart \/ BenchRun \/ BenchStop \/ Summary \/ TermBench \/ KillJob
  BY <1>7 DEF BenchBuild, BenchStart, BenchRun, BenchStop, Summary, TermBench, KillJob, Goto
<1> QED  BY <1>1, <1>2, <1>3, <1>4, <1>5, <1>6, <1>7 DEF Next, Logit, Bench

\* Results are filed while the server that was started for the build answers.
LEMMA MeasuredNext ==
  ASSUME DiskInv, CleanInv, MeasuredOnItsKernels, [Next]_vars
  PROVE  MeasuredOnItsKernels'
<1> SUFFICES ASSUME "kill" \notin tainted', "backup" \notin tainted' PROVE MeasuredOnItsKernels'
  BY DEF MeasuredOnItsKernels
<1>0. /\ TypeOK /\ "kill" \notin tainted /\ "backup" \notin tainted
      /\ \A b \in Builds : /\ \A r \in Runs : runs[b][r] \notin {Absent, Torn} => runs[b][r].kernels = b
                           /\ logits[b] # Nobody => logits[b] = [kernels |-> b, route |-> b]
  <2>1. "kill" \notin tainted /\ "backup" \notin tainted /\ TypeOK
    BY TaintsStay DEF DiskInv
  <2>2. tainted \cap {"kill", "backup"} = {}
    BY <2>1
  <2> QED  BY <2>1, <2>2 DEF MeasuredOnItsKernels
<1>1. CASE LogitBackup \/ LogitEnd \/ KillLogit \/ KillJob
  <2>1. runs' = runs /\ (logits' = [b \in Builds |-> Nobody])
    BY <1>1 DEF LogitBackup, LogitEnd, KillLogit, KillJob
  <2> QED  BY <1>0, <2>1 DEF MeasuredOnItsKernels
<1>2. CASE LogitCollect
  <2>1. /\ pc = "logit.collect" /\ serving # Nobody /\ runs' = runs /\ logits' = [logits EXCEPT ![build] = serving]
        /\ build \in Builds /\ logits \in [Builds -> {Nobody} \cup Server]
    BY <1>0, <1>2 DEF LogitCollect, TypeOK, Else
  <2>2. serving = [kernels |-> build, route |-> build]
    <3>1. serving \in Server /\ serving.kernels = build /\ serving.route = build
      BY <1>0, <2>1 DEF CleanInv, KernelsInv, ServerInv, TypeOK
    <3> QED  BY <3>1 DEF Server
  <2> QED  BY <1>0, <2>1, <2>2 DEF MeasuredOnItsKernels
<1>3. CASE BenchRun
  <2>1. PICK s \in SUBSET Missing(build) :
          runs' = [runs EXCEPT ![build] = [r \in Runs |-> IF r \in s THEN serving ELSE @[r]]]
    BY <1>3 DEF BenchRun
  <2>2. /\ pc = "bench.run" /\ logits' = logits /\ build \in Builds
        /\ runs \in [Builds -> [Runs -> {Absent, Torn} \cup Server]]
    BY <1>0, <1>3 DEF BenchRun, TypeOK, Else
  <2>3. serving.kernels = build
    BY <1>0, <2>2 DEF CleanInv, KernelsInv, DiskInv
  <2>4. ASSUME NEW b \in Builds, NEW r \in Runs
        PROVE  runs'[b][r] = runs[b][r] \/ (b = build /\ runs'[b][r] = serving)
    BY <2>1, <2>2
  <2>5. ASSUME NEW b \in Builds, NEW r \in Runs, runs'[b][r] \notin {Absent, Torn}
        PROVE  runs'[b][r].kernels = b
    <3>1. CASE runs'[b][r] = runs[b][r]
      <4>1. runs[b][r] \notin {Absent, Torn}
        BY <2>5, <3>1
      <4>2. runs[b][r].kernels = b
        BY <1>0, <4>1
      <4> QED  BY <3>1, <4>2
    <3>2. CASE b = build /\ runs'[b][r] = serving
      BY <2>3, <3>2
    <3> QED  BY <2>4, <3>1, <3>2
  <2>6. \A b \in Builds : logits'[b] # Nobody => logits'[b] = [kernels |-> b, route |-> b]
    BY <1>0, <2>2
  <2> QED  BY <2>5, <2>6 DEF MeasuredOnItsKernels
<1>4. CASE TermBench
  <2>1. PICK r \in Missing(build) : runs' = [runs EXCEPT ![build][r] = Torn]
    BY <1>4 DEF TermBench
  <2>2. logits' = logits /\ build \in Builds /\ runs \in [Builds -> [Runs -> {Absent, Torn} \cup Server]]
    BY <1>0, <1>4 DEF TermBench, TypeOK, Else
  <2>3. ASSUME NEW b \in Builds, NEW x \in Runs, runs'[b][x] \notin {Absent, Torn}
        PROVE  runs'[b][x].kernels = b
    <3>1. runs'[b][x] = runs[b][x] \/ runs'[b][x] = Torn
      BY <2>1, <2>2
    <3> QED  BY <1>0, <2>3, <3>1
  <2>4. \A b \in Builds : logits'[b] # Nobody => logits'[b] = [kernels |-> b, route |-> b]
    BY <1>0, <2>2
  <2> QED  BY <2>3, <2>4 DEF MeasuredOnItsKernels
<1>5. CASE \/ Start \/ Boot \/ LogitDeploy \/ LogitRoute \/ LogitStart \/ LogitStop \/ LogitRestore \/ LogitUnroute
           \/ BenchRefuses \/ BenchBuild \/ BenchStart \/ BenchStop \/ BenchCleanup
           \/ Summary \/ Arm \/ Tick \/ Fire \/ UNCHANGED vars
  <2>1. UNCHANGED <<runs, logits>>
    BY <1>5 DEF Boot, Start, BootMkdir, BootCopy, BootDeploy, BootRestore, BootFails, LogitDeploy, LogitRoute,
       LogitStart, LogitStop, LogitRestore, LogitUnroute, BenchRefuses, BenchBuild, BenchStart, BenchStop,
       BenchCleanup, Summary, Arm, Tick, Fire, Else, vars, data
  <2> QED  BY <1>0, <2>1 DEF MeasuredOnItsKernels
<1> QED  BY <1>1, <1>2, <1>3, <1>4, <1>5 DEF Next, Logit, Bench

\* Only an armed watchdog counts, and its deadline only moves up, past the window.
LEMMA WatchNext ==
  ASSUME TypeOK, WatchInv, [Next]_vars
  PROVE  WatchInv'
<1>0. /\ {now, deadline, marked} \subseteq Nat /\ Cap \in Nat \ {0} /\ Window \in Nat \ {0}
      /\ watch \in {"off", "watch", "window", "fired"}
  BY BoxAssumption DEF TypeOK
<1>1. CASE Arm
  BY <1>0, <1>1 DEF Arm, WatchInv
<1>2. CASE Tick
  BY <1>0, <1>2 DEF Tick, NewDeadline, WatchInv
<1>3. CASE Fire
  BY <1>0, <1>3 DEF Fire, WatchInv
<1>4. CASE BootFails \/ Summary
  <2>1. /\ UNCHANGED <<now, watch, deadline>> /\ markers' # {}
        /\ (markers # {} /\ marked' = marked) \/ (markers = {} /\ marked' = now)
    BY <1>4 DEF BootFails, Summary, Mark, clock
  <2> QED  BY <1>0, <2>1 DEF WatchInv
<1>5. CASE \/ Start \/ BootMkdir \/ BootCopy \/ BootDeploy \/ BootRestore \/ Logit \/ Bench
           \/ KillLogit \/ TermBench \/ KillJob \/ UNCHANGED vars
  <2>1. UNCHANGED <<now, watch, deadline, marked, markers>>
    BY <1>5 DEF Start, BootMkdir, BootCopy, BootDeploy, BootRestore, Logit, Bench, LogitBackup,
       LogitDeploy, LogitRoute, LogitStart, LogitCollect, LogitStop, LogitRestore, LogitUnroute, LogitEnd,
       BenchRefuses, BenchBuild, BenchStart, BenchRun, BenchStop, BenchCleanup, KillLogit, TermBench,
       KillJob, Else, vars, clock
  <2> QED  BY <2>1 DEF WatchInv
<1> QED  BY <1>1, <1>2, <1>3, <1>4, <1>5 DEF Next, Boot

\* The invariant the theorems below rest on.
THEOREM BoxInvariant == Spec => []BoxInv
<1>1. BoxInv /\ [Next]_vars => BoxInv'
  BY DiskNext, KernelsNext, ServerNext, RouteNext, RestoreNext, MeasuredNext, WatchNext DEF BoxInv, CleanInv, DiskInv
<1> QED  BY <1>1, BoxInit, PTL DEF Spec

-----------------------------------------------------------------------------
(* What the invariant gives.                                               *)

\* Whatever is killed when, and however often a stage is begun again, no backup
\* of stock files ever holds modified ones.
THEOREM BackupsAreStock == Spec => []BackupNeverOurs
<1>1. BoxInv => BackupNeverOurs
  BY DEF BoxInv, DiskInv, BackupNeverOurs
<1> QED  BY <1>1, BoxInvariant, PTL

\* Every number on file was measured on the kernels that it is filed under, whichever
\* deploy or restore failed, as long as no backup was cut short and no kill left anything.
THEOREM NumbersAreOfTheirBuild == Spec => []MeasuredOnItsKernels
<1>1. BoxInv => MeasuredOnItsKernels
  BY DEF BoxInv
<1> QED  BY <1>1, BoxInvariant, PTL

\* No server runs stock kernels behind the patched router, whichever step of a gate
\* failed, unless it was the restore of the router or a kill left something behind.
THEOREM BiasIsNeverDropped == Spec => []NoSilentBias
<1>1. BoxInv => NoSilentBias
  <2> SUFFICES ASSUME DiskInv, CleanInv, "kill" \notin tainted, "route" \notin tainted, serving # Nobody
               PROVE  serving.kernels = "ours" \/ serving.route = "stock"
    BY DEF BoxInv, NoSilentBias
  <2>1. build \in Builds /\ pc \in Serves /\ (build = "ours" => serving.kernels = "ours")
    BY DEF CleanInv, ServerInv, DiskInv, TypeOK
  <2>2. CASE pc \in InLogit
    BY <2>1, <2>2 DEF CleanInv, ServerInv, Serves, InLogit, Builds
  <2>3. CASE pc \notin InLogit
    BY <2>3 DEF CleanInv, RouteInv
  <2> QED  BY <2>2, <2>3
<1> QED  BY <1>1, BoxInvariant, PTL

\* A gate that comes to its end, by whichever step before the restore failed, leaves stock
\* kernels, the stock router and a free port, or it is on record that the restore failed,
\* a backup was cut short or a kill left something.
THEOREM StockIsRestored == Spec => StockAtRest
<1>1. BoxInv /\ [Next]_vars => [LogitEnd \/ BenchCleanup => tainted' # {} \/ InStock']_vars
  <2> SUFFICES ASSUME DiskInv, CleanInv, LogitEnd \/ BenchCleanup, tainted' = {}, [Next]_vars
               PROVE  InStock'
    BY DEF BoxInv
  <2>1. route \in Builds /\ TypeOK /\ tainted = {}
    BY TaintsStay DEF DiskInv, TypeOK
  <2>2. CASE LogitEnd
    <3>1. pc = "logit.end" /\ UNCHANGED <<pkg, route, serving>>
      BY <2>2 DEF LogitEnd, disk, server
    <3>2. pkg = "stock" /\ route = "stock" /\ serving = Nobody
      BY <2>1, <3>1 DEF CleanInv, ServerInv, RestoreInv, Serves
    <3> QED  BY <3>1, <3>2 DEF InStock
  <2>3. CASE BenchCleanup
    <3>1. pc = "bench.cleanup" /\ serving' = Nobody /\ route' = route
          /\ (pkg' = Over(backup) \/ Left(pkg', "stock"))
      BY <2>3 DEF BenchCleanup, Cleanup, StopAll, CopyKernels
    <3>2. backup = "whole" /\ route # "ours"
      BY <2>1, <3>1 DEF CleanInv, KernelsInv, RouteInv, BackedUp, InBench, InLogit
    <3>3. pkg' = "stock"
      BY <2>1, <3>1, <3>2, LeftRecorded DEF Over
    <3> QED  BY <2>1, <3>1, <3>2, <3>3 DEF InStock, Builds
  <2> QED  BY <2>2, <2>3
<1> QED  BY <1>1, BoxInvariant, PTL DEF Spec, StockAtRest

\* Wherever in its loop the pipeline finishes, the watchdog acts no later than the
\* cap, and not before the window for retrieving the results has passed.
THEOREM WatchdogKeepsBounds == Spec => []WatchdogBounds
<1>1. BoxInv => WatchdogBounds
  BY BoxAssumption DEF BoxInv, DiskInv, TypeOK, WatchInv, WatchdogBounds
<1> QED  BY <1>1, BoxInvariant, PTL

-----------------------------------------------------------------------------
(***************************************************************************)
(* The tools that turn what was measured into verdicts are functions of    *)
(* their files and share no state with the box: Verdicts is taken as it    *)
(* is, for any inputs and tolerances.                                      *)
(***************************************************************************)
CONSTANTS GateInputs, LatencyInputs, TableInputs, TolMax, TolMean, AbsTol, RelTol, TieBandMax, Expected
VARIABLES tool, input, output

Tools == INSTANCE Verdicts

\* What the report says is what the tool computed from the files it was given.
ReportIsOf ==
  /\ tool = "latency" => input \in LatencyInputs
  /\ Tools!Reported => /\ input.band \in 0 .. TieBandMax
                       /\ output = [exit |-> Tools!ExitCode(input, Tools!Report(input)), report |-> Tools!Report(input)]

\* Nothing but the one step of the tool writes a report.
LEMMA ToolsInvariant == Tools!Spec => []ReportIsOf
<1>1. Tools!Init => ReportIsOf
  <2>1. DOMAIN (<<>>) = {}
    OBVIOUS
  <2> QED  BY <2>1 DEF Tools!Init, ReportIsOf, Tools!Reported
<1>2. ReportIsOf /\ [Tools!Next]_(Tools!vars) => ReportIsOf'
  <2> SUFFICES ASSUME ReportIsOf, [Tools!Next]_(Tools!vars) PROVE ReportIsOf'
    OBVIOUS
  <2>1. CASE Tools!LogitGate
    BY <2>1 DEF Tools!LogitGate, ReportIsOf, Tools!Reported
  <2>2. CASE Tools!Latency
    <3> DEFINE whole == [exit |-> Tools!ExitCode(input, Tools!Report(input)), report |-> Tools!Report(input)]
    <3>1. tool = "latency" /\ UNCHANGED <<tool, input>>
      BY <2>2 DEF Tools!Latency
    <3>2. (\E e \in Nat : output' = [exit |-> e]) \/ (input.band \in 0 .. TieBandMax /\ output' = whole)
      BY <2>2 DEF Tools!Latency
    <3>3. CASE \E e \in Nat : output' = [exit |-> e]
      BY <3>1, <3>3 DEF ReportIsOf, Tools!Reported
    <3>4. CASE input.band \in 0 .. TieBandMax /\ output' = whole
      <4>1. (output = whole)'
        BY <3>1, <3>4
      <4> QED  BY <3>1, <3>4 DEF ReportIsOf
    <3> QED  BY <3>2, <3>3, <3>4
  <2>3. CASE Tools!Table
    BY <2>3 DEF Tools!Table, ReportIsOf, Tools!Reported
  <2>4. CASE UNCHANGED Tools!vars
    BY <2>4 DEF Tools!vars, ReportIsOf, Tools!Reported
  <2> QED  BY <2>1, <2>2, <2>3, <2>4 DEF Tools!Next
<1> QED  BY <1>1, <1>2, PTL DEF Tools!Spec

\* A case is a failure, unusable, set apart as a prototype, shared or alone, and each
\* goes to its own section; a name set apart because of the other file counts there.
LEMMA OneCaseOneSection ==
  ASSUME NEW r, NEW side \in {"ours", "base"}, NEW c \in DOMAIN r[side]
  PROVE  LET others == IF Tools!IsFailure(r[side][c]) \/ ~Tools!Usable(r[side][c]) THEN {"quarantined"} ELSE {}
         IN  \E p \in Tools!Sections : Tools!Places(side, c, Tools!Report(r)) \ others = {p}
<1> DEFINE f == r[side]
           mine == Tools!load_artifact(f)
           rep == Tools!Report(r)
           places == Tools!Places(side, c, rep)
           s == IF Tools!IsFailure(r[side][c]) \/ ~Tools!Usable(r[side][c]) THEN {"quarantined"} ELSE {}
<1>1. /\ c \in mine.failed <=> Tools!IsFailure(f[c])
      /\ c \in mine.measured <=> ~Tools!IsFailure(f[c]) /\ Tools!Usable(f[c])
      /\ c \in mine.violations <=> ~Tools!IsFailure(f[c]) /\ ~Tools!Usable(f[c])
  BY DEF Tools!load_artifact
<1>2. /\ "failures" \in places <=> c \in mine.failed
      /\ "violations" \in places <=> c \in mine.violations
  BY DEF Tools!Sections, Tools!Places, Tools!Report
<1>3. /\ "rows" \in places <=> c \in Tools!Shared(r)
      /\ "alone" \in places <=> c \in Tools!Workloads(f) /\ c \notin Tools!Shared(r)
  BY DEF Tools!Sections, Tools!Places, Tools!Report, Tools!Rows
<1>4. /\ "quarantined" \in places => Tools!Prototype(c)
      /\ c \in mine.measured /\ Tools!Prototype(c) => "quarantined" \in places
  BY DEF Tools!Sections, Tools!Places, Tools!Report
<1>5. /\ c \in Tools!Workloads(f) <=> c \in mine.measured /\ ~Tools!Prototype(c)
      /\ c \in Tools!Shared(r) => c \in Tools!Workloads(f)
  BY DEF Tools!Workloads, Tools!Shared
<1>6. places \subseteq Tools!Sections
  BY DEF Tools!Places
<1>7. \E p \in Tools!Sections : places \ s = {p}
  <2> HIDE DEF f, mine, rep, places
  <2>1. CASE Tools!IsFailure(f[c])
    <3>1. places \ s = {"failures"}
      BY <1>1, <1>2, <1>3, <1>5, <1>6, <2>1 DEF f, Tools!Sections
    <3> QED  BY <3>1 DEF Tools!Sections
  <2>2. CASE ~Tools!IsFailure(f[c]) /\ ~Tools!Usable(f[c])
    <3>1. places \ s = {"violations"}
      BY <1>1, <1>2, <1>3, <1>5, <1>6, <2>2 DEF f, Tools!Sections
    <3> QED  BY <3>1 DEF Tools!Sections
  <2>3. CASE ~Tools!IsFailure(f[c]) /\ Tools!Usable(f[c]) /\ Tools!Prototype(c)
    <3>1. places \ s = {"quarantined"}
      BY <1>1, <1>2, <1>3, <1>4, <1>5, <1>6, <2>3 DEF f, Tools!Sections
    <3> QED  BY <3>1 DEF Tools!Sections
  <2>4. CASE ~Tools!IsFailure(f[c]) /\ Tools!Usable(f[c]) /\ ~Tools!Prototype(c)
    <3>1. places \ s = {IF c \in Tools!Shared(r) THEN "rows" ELSE "alone"}
      BY <1>1, <1>2, <1>3, <1>4, <1>5, <1>6, <2>4 DEF f, Tools!Sections
    <3> QED  BY <3>1 DEF Tools!Sections
  <2> QED  BY <2>1, <2>2, <2>3, <2>4
<1> QED  BY <1>7

\* Every case of both artifacts is in one section of the report, whatever the files
\* hold: summarize_results.py drops none silently.
THEOREM CasesAreReported == Tools!Spec => []Tools!NothingDropped
<1>1. ReportIsOf => Tools!NothingDropped
  <2> SUFFICES ASSUME ReportIsOf, Tools!Reported, NEW side \in {"ours", "base"}, NEW c \in DOMAIN input[side]
               PROVE  LET others == IF Tools!IsFailure(input[side][c]) \/ ~Tools!Usable(input[side][c])
                                    THEN {"quarantined"} ELSE {}
                      IN  \E p \in Tools!Sections : Tools!Places(side, c, output.report) \ others = {p}
    BY DEF Tools!NothingDropped
  <2>1. output.report = Tools!Report(input)
    BY DEF ReportIsOf
  <2> QED  BY <2>1, OneCaseOneSection
<1> QED  BY <1>1, ToolsInvariant, PTL

\* A loss is in the SLOWER section unless a band covers it, which then names it: with
\* the default band of 0 only equal totals are ties.
LEMMA RowsOfLosses ==
  ASSUME NEW r, r.band \in Nat, NEW c \in Tools!Shared(r),
         r.ours[c].total \in Int, r.base[c].total \in Int, r.base[c].total < r.ours[c].total
  PROVE  /\ c \in Tools!Losses(r)
         /\ c \in Tools!Losses(r) \ Tools!Banded(r) \/ (r.band > 0 /\ Tools!Rows(r)[c] = <<"tie", r.band, "SLOWER">>)
         /\ r.ours[c].total - r.ours[c].shear \in 1 .. r.base[c].total => c \in Tools!Flips(r)
<1> DEFINE o == r.ours[c].total
           b == r.base[c].total
           ex == o - r.ours[c].shear
<1>1. c \in Tools!Losses(r) /\ Tools!Slower(o, b)
  BY DEF Tools!Losses, Tools!Slower
<1>2. c \notin Tools!Losses(r) \ Tools!Banded(r) => Tools!InBand(o, b, r.band)
  BY <1>1 DEF Tools!Banded
<1>3. Tools!InBand(o, b, r.band) => r.band > 0
  <2>1. 100 * Tools!Abs(b - o) > 0 * o /\ 100 * Tools!Abs(b - o) \in Int
    BY DEF Tools!Abs
  <2>2. ~Tools!InBand(o, b, 0)
    BY <2>1 DEF Tools!InBand
  <2> QED  BY <2>2
<1>4. Tools!Rows(r)[c] = Tools!Verdict(o, b, r.band)
  BY DEF Tools!Rows
<1>5. Tools!InBand(o, b, r.band) => Tools!Verdict(o, b, r.band) = <<"tie", r.band, "SLOWER">>
  BY <1>1, <1>3 DEF Tools!Verdict
<1>6. ex \in 1 .. b => c \in Tools!Flips(r)
  BY <1>1 DEF Tools!Flips
<1> QED  BY <1>1, <1>2, <1>3, <1>4, <1>5, <1>6

\* The gate looks at all losses, those in the band included.
LEMMA LossesExit ==
  ASSUME NEW r, r.failOnSlower, Tools!Losses(r) # {}
  PROVE  Tools!ExitCode(r, Tools!Report(r)) # 0
<1>1. Tools!Report(r).slower \cup Tools!Report(r).banded # {}
  BY DEF Tools!Report
<1> QED  BY <1>1 DEF Tools!ExitCode

\* No option of summarize_results.py clears a loss, for any files, tolerances and band:
\* it is reported, --fail-on-slower does not end with 0, and a projection that would
\* make it a win is warned of.  The module's own assumption is repeated here since an
\* instance does not carry it.
THEOREM LossesAreNamed == Tools!VerdictAssumption /\ Tools!Spec => []Tools!NoLossCleared
<1> SUFFICES ASSUME Tools!VerdictAssumption PROVE Tools!Spec => []Tools!NoLossCleared
  OBVIOUS
<1>1. ReportIsOf => Tools!NoLossCleared
  <2> SUFFICES ASSUME ReportIsOf, Tools!Reported,
                      NEW c \in DOMAIN output.report.rows, input.base[c].total < input.ours[c].total
               PROVE  LET o == input.ours[c].total  b == input.base[c].total
                      IN  /\ c \in output.report.slower
                             \/ (input.band > 0 /\ output.report.rows[c] = <<"tie", input.band, "SLOWER">>)
                          /\ input.failOnSlower => output.exit # 0
                          /\ o - input.ours[c].shear \in 1 .. b => c \in output.report.flips
    BY DEF Tools!NoLossCleared
  <2>1. input \in LatencyInputs /\ input.band \in Nat
    BY DEF ReportIsOf, Tools!Reported, Tools!VerdictAssumption
  <2>2. /\ output.exit = Tools!ExitCode(input, Tools!Report(input))
        /\ output.report = Tools!Report(input)
    BY DEF ReportIsOf
  <2>3. c \in Tools!Shared(input)
    BY <2>2 DEF Tools!Report, Tools!Rows
  <2>4. c \in DOMAIN input.ours /\ c \in DOMAIN input.base
    BY <2>3 DEF Tools!Shared, Tools!Workloads, Tools!load_artifact
  <2>5. input.ours[c].total \in Int /\ input.base[c].total \in Int
    BY <2>1, <2>4 DEF Tools!VerdictAssumption
  <2>6. /\ c \in Tools!Losses(input)
        /\ c \in Tools!Losses(input) \ Tools!Banded(input) \/ (input.band > 0 /\ Tools!Rows(input)[c] = <<"tie", input.band, "SLOWER">>)
        /\ input.ours[c].total - input.ours[c].shear \in 1 .. input.base[c].total => c \in Tools!Flips(input)
    BY <2>1, <2>3, <2>5, RowsOfLosses
  <2>7. input.failOnSlower => output.exit # 0
    BY <2>2, <2>6, LossesExit
  <2>8. /\ output.report.slower = Tools!Losses(input) \ Tools!Banded(input)
        /\ output.report.rows = Tools!Rows(input)
        /\ output.report.flips = Tools!Flips(input)
    BY <2>2 DEF Tools!Report
  <2> QED  BY <2>6, <2>7, <2>8
<1> QED  BY <1>1, ToolsInvariant, PTL

=============================================================================
