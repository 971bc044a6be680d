----------------------------- MODULE ModalDeploy -----------------------------
(***************************************************************************)
(* How a Modal container gets its kernels, and run_validate.  Modal keeps  *)
(* a container warm and gives it more calls, so every call starts from     *)
(* what the last one left: a tree of files, two backups and a directory    *)
(* of harness outputs.  A bench container deploys the builds stock and     *)
(* ours; a validate container deploys a patch set and then runs harnesses  *)
(* against a deadline, keeping records, artifacts and spend on a Volume.   *)
(***************************************************************************)
EXTENDS PatchTree, FiniteSets

CONSTANTS
  SameTree,   \* the interpreter imports tml_fa4 from the source tree
  Steps,      \* patch set -> the harnesses that can run on it, in order
  Artifact,   \* harness -> the file it leaves behind, or "none"
  Timeout,    \* VALIDATE_TIMEOUT_S, in minutes
  Margin,     \* VALIDATE_SHUTDOWN_MARGIN_S
  Grace,      \* the least time a harness is given
  Longest,    \* bound: minutes a harness takes unless it hangs
  MaxCalls    \* bound: calls of one container

Builds == {"stock", "ours"}
PatchSets == {"u3+shear", "route", "none"}
Range(s) == {s[i] : i \in DOMAIN s}
Harnesses == UNION {Range(Steps[r]) : r \in PatchSets}
Artifacts == {Artifact[s] : s \in Harnesses} \ {"none"}

ASSUME DeployAssumption ==
  /\ SameTree \in BOOLEAN /\ {Timeout, Margin, Grace, Longest, MaxCalls} \subseteq Nat /\ Grace <= Margin /\ Margin < Timeout
  /\ Steps \in [PatchSets -> Seq(STRING)] /\ "setup" \notin Harnesses

VARIABLES
  kind, calls, pc, request,
  tree,       \* the files the interpreter imports
  src,        \* the tml_fa4 files of the source tree, when that is another
  tmlBackup,  \* [made, files]: is the directory there, and what has been copied into it
  opsBackup,
  cut,        \* history: a backup was cut short
  faulted,    \* history: something outside the scripts failed in this call
  now, deadline, booked,
  todo, records,
  local,      \* file in the work directory -> the run that wrote it, or Nobody
  progress,   \* on the Volume: the records of progress.json
  published   \* harness -> the run that wrote the artifact filed under its name, or Nobody

deploying == <<tree, src, tmlBackup, opsBackup, cut>>
measuring == <<booked, todo, local, progress, published>>
vars == <<kind, calls, pc, request, faulted, deploying, now, deadline, records, measuring>>

Nobody == <<0, "none">>
Goto(at) == pc' = at
Kept == UNCHANGED <<kind, calls, request, now, deadline, measuring>>

-----------------------------------------------------------------------------
(* A call, and how its setup ends.  A bench call stands for one build.     *)

Call ==
  /\ kind # "hand" /\ pc = "idle" /\ calls < MaxCalls /\ calls' = calls + 1
  /\ request' \in (IF kind = "bench" THEN Builds ELSE PatchSets)
  /\ deadline' \in 1 .. Timeout - Margin  \* the earlier of budget and time-out
  /\ now' = 0 /\ booked' = 0 /\ records' = <<>> /\ progress' = <<>> /\ todo' = <<>> /\ faulted' = FALSE
  /\ \/ Goto("backup")
     \/ kind = "validate" /\ Goto("summary")  \* not the device that was asked for
  /\ UNCHANGED <<kind, deploying, local, published>>

\* The bench has the build as failed; validate runs no harness.
Fail ==
  /\ Goto(IF kind = "bench" THEN "idle" ELSE "flush")
  /\ records' = Append(records, <<"setup", "FAIL">>) /\ Kept
Go(at) == Goto(at) /\ UNCHANGED records /\ Kept

Begun(order) == {Range(SubSeq(order, 1, n)) : n \in 0 .. Len(order) - 1}
\* Copies files in their order, all of them or up to a fault.
CopyFiles(order, Copied(_), then) ==
  \/ Copied(Range(order)) /\ UNCHANGED faulted /\ Go(then)
  \/ \E fs \in Begun(order) : Copied(fs) /\ faulted' = TRUE /\ Fail

-----------------------------------------------------------------------------
(* Backups.  Each is taken once: a directory that is there counts as one.  *)

TmlOrder == <<"fwd", "sm90", "iface">>
StockOrder == <<"fwd", "sm90", "iface", "route">>
OpsOrder == <<"attn", "route", "qkvr">>
Saved(fs) == [made |-> TRUE, files |-> [f \in fs |-> tree[f]]]

\* The package, file by file, and the router after it.
SaveTml(fs) ==
  /\ tmlBackup' = Saved(fs) /\ cut' = (cut \/ "route" \notin fs)
  /\ UNCHANGED <<tree, src, opsBackup>>
Backup ==
  /\ pc = "backup"
  /\ IF tmlBackup.made THEN Go("ops") /\ UNCHANGED <<deploying, faulted>>
                       ELSE CopyFiles(StockOrder, SaveTml, "ops")

\* Refuses a tree that is patched.
SaveOps(fs) ==
  /\ opsBackup' = [Saved(fs) EXCEPT !.made = fs # {}] /\ cut' = (cut \/ fs # OpsFiles)
  /\ UNCHANGED <<tree, src, tmlBackup>>
Dirty == tree["qkvr"] \cap {"u3", "shear"} # {}
OpsBackup ==
  /\ pc = "ops"
  /\ CASE opsBackup.made -> Go("restore") /\ UNCHANGED <<deploying, faulted>>
       [] ~opsBackup.made /\ Dirty -> Fail /\ UNCHANGED <<deploying, faulted>>
       [] OTHER -> CopyFiles(OpsOrder, SaveOps, "restore")

-----------------------------------------------------------------------------
(* Restore, overlay, patch, check.                                         *)

Back(backup, fs) == [f \in Files |-> IF f \in fs \cap DOMAIN backup.files THEN backup.files[f] ELSE tree[f]]
RestoreTml(fs) == tree' = Back(tmlBackup, fs) /\ UNCHANGED <<src, tmlBackup, opsBackup, cut>>
RestoreOps(fs) == tree' = Back(opsBackup, fs) /\ UNCHANGED <<src, tmlBackup, opsBackup, cut>>

\* The bench restores the router with the package, and needs its copy; validate
\* restores the whole nvidia directory.
\* Mutant: the package is restored, the nvidia directory is not.
BugRestore == pc = "restore" /\ CopyFiles(TmlOrder, RestoreTml, IF kind = "bench" /\ request = "stock" THEN "check" ELSE "overlay")
Restore ==
  /\ pc = "restore"
  /\ CASE kind = "validate" -> CopyFiles(TmlOrder, RestoreTml, "restoreOps")
       [] kind = "bench" /\ "route" \in DOMAIN tmlBackup.files ->
            CopyFiles(StockOrder, RestoreTml, IF request = "ours" THEN "overlay" ELSE "check")
       [] OTHER -> RestoreTml(TmlFiles) /\ UNCHANGED faulted /\ Fail
RestoreNvidia ==
  /\ pc = "restoreOps"
  /\ IF opsBackup.made THEN CopyFiles(OpsOrder, RestoreOps, "overlay") ELSE Fail /\ UNCHANGED <<deploying, faulted>>

OverlayFiles(fs) ==
  /\ tree' = [f \in Files |-> IF f \in fs THEN {"ours"} ELSE tree[f]]
  /\ UNCHANGED <<src, tmlBackup, opsBackup, cut>>
\* Mirrored into the source tree when that is another: the scripts edit by path.
Mirror(fs) ==
  /\ src' = [f \in TmlFiles |-> IF f \in fs THEN {"ours"} ELSE src[f]]
  /\ UNCHANGED <<tree, tmlBackup, opsBackup, cut>>
OverlayOurs ==
  \/ pc = "overlay" /\ CopyFiles(TmlOrder, OverlayFiles, IF SameTree \/ kind = "bench" THEN "patch" ELSE "mirror")
  \/ pc = "mirror" /\ CopyFiles(TmlOrder, Mirror, "patch")

\* Mutant: the shear fusion goes first.
BugScriptsOf(r) == CASE r = "u3+shear" -> <<"shear", "u3">> [] r = "none" -> <<>> [] OTHER -> <<"route">>
ScriptsOf(r) == CASE r = "u3+shear" -> <<"u3", "shear">> [] r = "none" -> <<>> [] OTHER -> <<"route">>

\* The tree the scripts are pointed at, and where what they write shows.
Target == [f \in Files |-> IF SameTree \/ f \in OpsFiles THEN tree[f] ELSE src[f]]
Write(t) ==
  /\ tree' = [f \in Files |-> IF SameTree \/ f \in OpsFiles THEN t[f] ELSE tree[f]]
  /\ src' = (IF SameTree THEN src ELSE [f \in TmlFiles |-> t[f]])
  /\ UNCHANGED <<tmlBackup, opsBackup, cut>>
\* What n scripts leave; no patch set has more than two.
Finished(p, t) == Patched(p, Reach(p, t), t)
After(ps, n, t) == CASE n = 0 -> t [] n = 1 -> Finished(ps[1], t) [] OTHER -> Finished(ps[2], Finished(ps[1], t))
\* Runs the scripts in order, to the end, to a missing anchor, or to a fault.
Patch ==
  /\ pc = "patch"
  /\ LET ps == ScriptsOf(request)
         At(i) == After(ps, i - 1, Target)  \* what script i finds
         Reached(i) == \A j \in 1 .. i - 1 : Applies(ps[j], At(j))
     IN \/ /\ Reached(Len(ps) + 1) /\ Write(At(Len(ps) + 1)) /\ UNCHANGED faulted
           /\ Go(IF SameTree \/ kind = "bench" THEN "check" ELSE "copyback")
        \/ \E i \in DOMAIN ps :
             /\ Reached(i) /\ Fail
             /\ \/ ~Applies(ps[i], At(i)) /\ Write(At(i + 1)) /\ UNCHANGED faulted
                \/ \E n \in 0 .. Reach(ps[i], At(i)) : Write(Patched(ps[i], n, At(i))) /\ faulted' = TRUE

CopyBack(fs) ==
  /\ tree' = [f \in Files |-> IF f \in fs THEN src[f] ELSE tree[f]]
  /\ UNCHANGED <<src, tmlBackup, opsBackup, cut>>
CopyPatched == pc = "copyback" /\ CopyFiles(TmlOrder, CopyBack, "check")

\* Bench: the deployed files match the directory they came from, and the router
\* is patched for ours only.  Validate: markers of the scripts that ran are there, and
\* those of the others are not; of u3+shear nothing has to be absent.
Marked(m) ==
  CASE m = "u3" -> "u3" \in tree["qkvr"] [] m = "route" -> "route" \in tree["route"]
    [] m = "shear" -> \A f \in {"qkvr", "route", "iface"} : "shear" \in tree[f]
CheckPasses ==
  CASE request = "stock" -> /\ \A f \in TmlFiles \cap DOMAIN tmlBackup.files : tree[f] = tmlBackup.files[f]
                            /\ ~Marked("route")
    [] request = "ours" -> (\A f \in TmlFiles : tree[f] = {"ours"}) /\ Marked("route")
    [] request = "u3+shear" -> Marked("u3") /\ Marked("shear")
    [] request = "route" -> Marked("route") /\ ~Dirty
    [] request = "none" -> ~Marked("route") /\ ~Dirty
Check ==
  /\ pc = "check" /\ UNCHANGED <<deploying, faulted>>
  /\ IF CheckPasses THEN Go("ready") ELSE Fail

-----------------------------------------------------------------------------
(* The harnesses.                                                          *)

Ready ==
  /\ pc = "ready"
  /\ Goto(IF kind = "bench" THEN "idle" ELSE "flush")
  /\ records' = Append(records, <<"setup", "PASS">>) /\ todo' = (IF kind = "bench" THEN <<>> ELSE Steps[request])
  /\ UNCHANGED <<kind, calls, request, faulted, deploying, now, deadline, booked, local, progress, published>>

Next1(s, verdict) == records' = Append(records, <<s, verdict>>) /\ todo' = Tail(todo) /\ Goto("flush")

SkipStep ==
  /\ pc = "run" /\ now > deadline /\ Next1(Head(todo), "NOT_RUN")
  /\ UNCHANGED <<kind, calls, request, faulted, deploying, now, deadline, booked, local, progress, published>>

\* What an earlier harness left under the name of this one's artifact goes first.
\* Mutant: it stays.
BugBegin ==
  /\ pc = "run" /\ now <= deadline /\ Goto("running")
  /\ UNCHANGED <<kind, calls, request, faulted, deploying, now, deadline, records, measuring>>
Begin ==
  /\ pc = "run" /\ now <= deadline /\ Goto("running")
  /\ local' = [a \in Artifacts |-> IF a = Artifact[Head(todo)] THEN Nobody ELSE local[a]]
  /\ UNCHANGED <<kind, calls, request, faulted, deploying, now, deadline, records, booked, todo, progress, published>>

TimeLeft == IF deadline - now < Grace THEN Grace ELSE deadline - now

\* It ends by itself, or is killed when its time is up; in either case it may or
\* may not have written its artifact, which is filed whatever the verdict.
End ==
  /\ pc = "running"
  /\ LET s == Head(todo) IN
     \E ended \in {"rc 0", "rc 1", "killed"} :
     \E wrote \in (IF Artifact[s] = "none" THEN {FALSE} ELSE BOOLEAN) :
       /\ now' \in (IF ended = "killed" THEN {now + TimeLeft} ELSE {now + d : d \in {d \in 1 .. Longest : d <= TimeLeft}})
       /\ local' = [a \in Artifacts |-> IF wrote /\ a = Artifact[s] THEN <<calls, s>> ELSE local[a]]
       /\ LET there == Artifact[s] # "none" /\ local'[Artifact[s]] # Nobody
          IN /\ published' = (IF there THEN [published EXCEPT ![s] = local'[Artifact[s]]] ELSE published)
             /\ Next1(s, IF ended = "rc 0" /\ (Artifact[s] = "none" \/ there) THEN "PASS" ELSE "FAIL")
  /\ UNCHANGED <<kind, calls, request, faulted, deploying, deadline, booked, progress>>

\* flush, then burn.
Flush ==
  /\ pc = "flush" /\ progress' = records /\ Goto("burn")
  /\ UNCHANGED <<kind, calls, request, faulted, deploying, now, deadline, records, booked, todo, local, published>>
\* Mutant: spend is booked when all is done.
BugBurn ==
  /\ pc = "burn" /\ Goto(IF todo = <<>> THEN "summary" ELSE "run")
  /\ UNCHANGED <<kind, calls, request, faulted, deploying, now, deadline, records, measuring>>
Burn ==
  /\ pc = "burn" /\ booked' = now /\ Goto(IF todo = <<>> THEN "summary" ELSE "run")
  /\ UNCHANGED <<kind, calls, request, faulted, deploying, now, deadline, records, todo, local, progress, published>>
Summary ==
  /\ pc = "summary" /\ booked' = now /\ Goto("idle")
  /\ UNCHANGED <<kind, calls, request, faulted, deploying, now, deadline, records, todo, local, progress, published>>

\* The README's way: an operator runs the scripts one by one on a checkout, and
\* can interrupt one between two files.
RunByHand ==
  /\ kind = "hand" /\ pc = "idle" /\ calls < MaxCalls /\ calls' = calls + 1
  /\ \E p \in Scripts :
       \/ /\ tree' = Patched(p, Reach(p, tree), tree)
          /\ records' = Append(records, <<p, IF Applies(p, tree) THEN "exit 0" ELSE "abort">>)
       \/ \E n \in 0 .. Reach(p, tree) :
            tree' = Patched(p, n, tree) /\ records' = Append(records, <<p, "interrupted">>)
  /\ UNCHANGED <<kind, pc, request, faulted, src, tmlBackup, opsBackup, cut, now, deadline, measuring>>

\* Modal takes the container away; the Volume stays.
Kill ==
  /\ kind # "hand" /\ pc # "gone" /\ Goto("gone")
  /\ UNCHANGED <<kind, calls, request, faulted, deploying, now, deadline, records, measuring>>

Init ==
  /\ kind \in {"bench", "validate", "hand"} /\ calls = 0 /\ pc = "idle" /\ request = "none"
  /\ tree = Stock \/ (kind = "hand" /\ tree = Overlay(Stock))
  /\ src = [f \in TmlFiles |-> {}]
  /\ tmlBackup = [made |-> FALSE, files |-> [f \in {} |-> {}]] /\ opsBackup = tmlBackup
  /\ cut = FALSE /\ faulted = FALSE
  /\ now = 0 /\ deadline = 0 /\ booked = 0 /\ todo = <<>> /\ records = <<>>
  /\ local = [a \in Artifacts |-> Nobody]
  /\ progress = <<>> /\ published = [s \in Harnesses |-> Nobody]

Deploy == Backup \/ OpsBackup \/ Restore \/ RestoreNvidia \/ OverlayOurs \/ Patch \/ CopyPatched \/ Check
Next == Call \/ Deploy \/ Ready \/ SkipStep \/ Begin \/ End \/ Flush \/ Burn \/ Summary \/ RunByHand \/ Kill
Spec == Init /\ [][Next]_vars

-----------------------------------------------------------------------------
\* What the variables hold.
TypeOK ==
  /\ tree \in Tree /\ src \in [TmlFiles -> SUBSET (Scripts \cup {"ours"})]
  /\ now \in 0 .. Timeout /\ booked \in 0 .. Timeout /\ deadline \in 0 .. Timeout - Margin
  /\ \A f \in DOMAIN tmlBackup.files : tmlBackup.files[f] = {}
  /\ \A f \in DOMAIN opsBackup.files : opsBackup.files[f] = {}

Ordered(r) ==
  [f \in Files |->
     (IF f \in TmlFiles /\ r # "stock" THEN {"ours"} ELSE {})
       \cup (IF r = "u3+shear" THEN {p \in {"u3", "shear"} : f \in Touched(p)} ELSE {})
       \cup (IF r \in {"route", "ours"} /\ f = "route" THEN {"route"} ELSE {})]

\* A deployment that passes its own check is, file by file, what was asked for,
\* whatever earlier calls of the warm container did or left half done.  Its one gap: after
\* a backup of the nvidia directory that was cut short, u3+shear can keep a router patch,
\* whose absence it does not check (modal_e2e_bench.py:2304-2397, 876-923).
DeployedExactly ==
  pc = "ready" =>
    \/ tree = Ordered(request)
    \/ cut /\ request = "u3+shear" /\ tree = [Ordered(request) EXCEPT !["route"] = @ \cup {"route"}]

\* On the tree the repository ships, a script that aborts has no edit anywhere, and one that
\* exits with 0 all of them, whatever ran or was interrupted before.  u3 alone can abort where
\* it is applied: run again after shear, which rewrites its text (README.md:351-369).
AbortsWriteNothing ==
  LET p == records[Len(records)][1]  at == {f \in Files : p \in tree[f]}
  IN kind = "hand" /\ "ours" \in tree["sm90"] /\ records # <<>> =>
       CASE records[Len(records)][2] = "exit 0" -> at = Touched(p)
         [] records[Len(records)][2] = "abort" -> p \notin {"route", "shear"} /\ (at = {} \/ (p = "u3" /\ "shear" \in tree["qkvr"]))
         [] OTHER -> TRUE

\* A setup fails only when something outside the scripts failed, in this call or in
\* the backup: no tree that a call can leave makes the next one abort on a missing anchor
\* (modal_e2e_bench.py:2304-2312).
FailsOnlyOnFault == <<"setup", "FAIL">> \in Range(records) => faulted \/ cut

\* An artifact filed under a harness was written by that harness, and one that a
\* passed record stands for by its run in this call, though two harnesses write the same
\* file (modal_e2e_bench.py:2471-2477, 2527-2536).
ArtifactsFresh ==
  \A s \in Harnesses :
    /\ published[s] \in {Nobody} \cup (1 .. calls) \X {s}
    /\ <<s, "PASS">> \in Range(records) /\ Artifact[s] # "none" => published[s] = <<calls, s>>

\* A kill loses the record and the booking of the harness under way only
\* (modal_e2e_bench.py:2465-2509, 2987-2993).
LosesOneStep == pc \in {"run", "running"} => progress = records /\ booked = now
=============================================================================
