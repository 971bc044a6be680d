-------------------------- MODULE ModalDeploy_proof --------------------------
(***************************************************************************)
(* Proofs about ModalDeploy: what a warm container deploys, what it files  *)
(* and books, and what the patch scripts do to a checkout, for any         *)
(* harnesses, deadlines and numbers of calls.                              *)
(***************************************************************************)
EXTENDS ModalDeploy, TLAPS

Places == {"idle", "backup", "ops", "restore", "restoreOps", "overlay", "mirror", "patch", "copyback", "check",
           "ready", "flush", "burn", "run", "running", "summary", "gone"}
Names == Harnesses \cup Scripts \cup {"setup"}
Marks == {"PASS", "FAIL", "NOT_RUN", "exit 0", "abort", "interrupted"}
Records == Seq(Names \X Marks)

-----------------------------------------------------------------------------
(* The harnesses: what is on the Volume when one of them runs.             *)

CallInv ==
  /\ kind \in {"bench", "validate", "hand"} /\ pc \in Places /\ calls \in Nat
  /\ kind = "hand" => pc = "idle"
  /\ pc \notin {"idle", "gone"} => calls > 0 /\ request \in (IF kind = "bench" THEN Builds ELSE PatchSets)
StepInv ==
  /\ records \in Records /\ todo \in Seq(Harnesses)
  /\ pc \in {"run", "running"} => todo # <<>> /\ booked = now
  /\ pc \in {"run", "running", "burn"} => progress = records
  /\ pc = "running" /\ Artifact[Head(todo)] # "none" => local[Artifact[Head(todo)]] = Nobody
  /\ DOMAIN published = Harnesses
  /\ kind = "hand" => \A n \in Names : <<n, "PASS">> \notin Range(records)

-----------------------------------------------------------------------------
(* The files.  Shape: what can have been done to each of them on a tree    *)
(* that was stock or overlaid at first and saw u3, shear and route only.   *)

Shape(t) ==
  /\ t["fwd"] \subseteq {"ours"} /\ t["sm90"] \subseteq {"ours"} /\ t["iface"] \subseteq {"ours", "shear"}
  /\ t["attn"] \subseteq {"shear"} /\ t["route"] \subseteq {"route", "shear"} /\ t["qkvr"] \subseteq {"u3", "shear"}
  /\ "shear" \in t["route"] => "shear" \in t["qkvr"]
Overlaid(t) == t["fwd"] = {"ours"} /\ t["sm90"] = {"ours"} /\ "ours" \in t["iface"]

\* A directory is backed up before anything is written to it; what is cut short is marked.
SavedInv ==
  /\ \A f \in DOMAIN tmlBackup.files : tmlBackup.files[f] = {}
  /\ \A f \in DOMAIN opsBackup.files : opsBackup.files[f] = {}
  /\ "route" \in DOMAIN tmlBackup.files => TmlFiles \subseteq DOMAIN tmlBackup.files
  /\ tmlBackup.made /\ ~cut => "route" \in DOMAIN tmlBackup.files
  /\ "qkvr" \in DOMAIN opsBackup.files => "route" \in DOMAIN opsBackup.files
  /\ opsBackup.made => tmlBackup.made /\ "attn" \in DOMAIN opsBackup.files
  /\ opsBackup.made /\ ~cut => "qkvr" \in DOMAIN opsBackup.files
  /\ kind # "hand" /\ ~opsBackup.made => tree = Stock
  /\ pc = "ops" => tmlBackup.made
  /\ pc \in {"restore", "restoreOps", "overlay", "mirror", "patch", "copyback", "check", "ready"} => opsBackup.made

TreeInv ==
  /\ tree \in Tree /\ src \in [TmlFiles -> SUBSET (Scripts \cup {"ours"})]
  /\ kind = "hand" => "ours" \notin tree["sm90"] \/ (Shape(tree) /\ Overlaid(tree))
  /\ kind # "hand" => Shape(tree) /\ src["fwd"] \subseteq {"ours"} /\ src["sm90"] \subseteq {"ours"} /\ src["iface"] \subseteq {"ours", "shear"}
  /\ kind = "bench" => tree["attn"] = {} /\ tree["qkvr"] = {} /\ tree["route"] \subseteq {"route"} /\ tree["iface"] \subseteq {"ours"}

\* The nvidia directory as the restore leaves it, and as the scripts do.
Restored == tree["attn"] = {} /\ (~cut \/ kind = "bench" => tree["route"] = {} /\ tree["qkvr"] = {})
Fused == request = "u3+shear" =>
  /\ tree["attn"] = {"shear"} /\ tree["qkvr"] = {"u3", "shear"} /\ "shear" \in tree["route"]
  /\ ~cut => tree["route"] = {"shear"}
Routed == request # "u3+shear" =>
  /\ tree["attn"] = {} /\ (request \in {"route", "ours"} => "route" \in tree["route"])
  /\ ~cut => tree["qkvr"] = {} /\ tree["route"] = Ordered(request)["route"]
PhaseInv ==
  /\ pc \in {"restoreOps", "mirror", "copyback"} => kind = "validate"
  /\ pc \in {"overlay", "mirror", "patch", "copyback"} => request # "stock"
  /\ pc \in {"mirror", "copyback"} => ~SameTree
  /\ pc \in {"overlay", "mirror", "patch"} => Restored
  /\ pc \in {"mirror", "patch"} => \A f \in TmlFiles : tree[f] = {"ours"}
  /\ pc = "patch" /\ kind = "validate" /\ ~SameTree => \A f \in TmlFiles : src[f] = {"ours"}
  /\ pc \in {"copyback", "check"} /\ kind = "validate" => Fused /\ Routed
  /\ pc = "copyback" => \A f \in TmlFiles : src[f] = Ordered(request)[f]
  /\ pc = "check" => \A f \in TmlFiles : tree[f] = Ordered(request)[f]
  /\ pc = "check" /\ kind = "bench" => tree = Ordered(request)
  /\ pc = "ready" => \/ tree = Ordered(request)
                     \/ cut /\ request = "u3+shear" /\ tree = [Ordered(request) EXCEPT !["route"] = @ \cup {"route"}]
FilesInv == SavedInv /\ TreeInv /\ PhaseInv

-----------------------------------------------------------------------------
(* Sequences.                                                              *)

\* Appending adds one element.
LEMMA RangeAppend ==
  ASSUME NEW S, NEW q \in Seq(S), NEW x \in S
  PROVE  Append(q, x) \in Seq(S) /\ Range(Append(q, x)) = Range(q) \cup {x} /\ Len(Append(q, x)) = Len(q) + 1 /\ Append(q, x)[Len(q) + 1] = x
         /\ \A i \in 1 .. Len(q) : Append(q, x)[i] = q[i]
<1>1. /\ Append(q, x) \in Seq(S) /\ Len(Append(q, x)) = Len(q) + 1 /\ Append(q, x)[Len(q) + 1] = x
      /\ \A i \in 1 .. Len(q) : Append(q, x)[i] = q[i]
  OBVIOUS
<1>2. DOMAIN Append(q, x) = 1 .. Len(q) + 1 /\ DOMAIN q = 1 .. Len(q) /\ Len(q) \in Nat
  BY <1>1
<1>3. \A i \in 1 .. Len(q) + 1 : i \in 1 .. Len(q) \/ i = Len(q) + 1
  BY <1>2
<1>4. \A y : y \in Range(Append(q, x)) <=> y \in Range(q) \cup {x}
  <2> SUFFICES ASSUME NEW y PROVE y \in Range(Append(q, x)) <=> y \in Range(q) \cup {x}
    OBVIOUS
  <2>1. ASSUME y \in Range(Append(q, x)) PROVE y \in Range(q) \cup {x}
    BY <2>1, <1>1, <1>2, <1>3 DEF Range
  <2>2. ASSUME y \in Range(q) PROVE y \in Range(Append(q, x))
    BY <2>2, <1>1, <1>2 DEF Range
  <2>3. x \in Range(Append(q, x))
    BY <1>1, <1>2 DEF Range
  <2> QED BY <2>1, <2>2, <2>3
<1> QED BY <1>1, <1>4

\* The harnesses of a patch set.
LEMMA StepsAreHarnesses ==
  ASSUME NEW r \in PatchSets PROVE Steps[r] \in Seq(Harnesses)
<1>1. Steps[r] \in Seq(STRING) BY DeployAssumption
<1>2. \A i \in DOMAIN Steps[r] : Steps[r][i] \in Harnesses BY DEF Harnesses, Range
<1> QED BY <1>1, <1>2

LEMMA CallNumbers == \A n \in Nat : 1 .. n \subseteq 1 .. n + 1 /\ (n > 0 => n \in 1 .. n)
OBVIOUS

LEMMA Pair == ASSUME NEW A, NEW a \in A, NEW b PROVE <<a, b>> \in A \X {b}
OBVIOUS

LEMMA HeadAndTail ==
  ASSUME NEW S, NEW q \in Seq(S), q # <<>> PROVE Head(q) \in S /\ Tail(q) \in Seq(S)
OBVIOUS

-----------------------------------------------------------------------------
(* What the steps of a deployment have in common.                          *)

DeployPlaces == {"backup", "ops", "restore", "restoreOps", "overlay", "mirror", "patch", "copyback", "check"}
Goes == Kept /\ records' = records /\ pc' \in DeployPlaces \cup {"ready"}
Fails == Kept /\ records' = Append(records, <<"setup", "FAIL">>) /\ pc' = IF kind = "bench" THEN "idle" ELSE "flush"

\* A step of a deployment goes on, or ends it as failed.
LEMMA DeployGoes == Deploy => pc \in DeployPlaces /\ (Goes \/ Fails)
<1> USE DEF DeployPlaces, Goes, Fails, Go, Goto, Fail, CopyFiles
<1>1. Backup => pc \in DeployPlaces /\ (Goes \/ Fails) BY DEF Backup
<1>2. OpsBackup => pc \in DeployPlaces /\ (Goes \/ Fails) BY DEF OpsBackup
<1>3. Restore => pc \in DeployPlaces /\ (Goes \/ Fails) BY DEF Restore
<1>4. RestoreNvidia => pc \in DeployPlaces /\ (Goes \/ Fails) BY DEF RestoreNvidia
<1>5. OverlayOurs => pc \in DeployPlaces /\ (Goes \/ Fails) BY DEF OverlayOurs
<1>6. Patch => pc \in DeployPlaces /\ (Goes \/ Fails) BY DEF Patch
<1>7. CopyPatched => pc \in DeployPlaces /\ (Goes \/ Fails) BY DEF CopyPatched
<1>8. Check => pc \in DeployPlaces /\ (Goes \/ Fails) BY DEF Check
<1> QED BY <1>1, <1>2, <1>3, <1>4, <1>5, <1>6, <1>7, <1>8 DEF Deploy

-----------------------------------------------------------------------------
(* Calls and harnesses.                                                    *)

LEMMA CallInit == Init => CallInv
BY DEF Init, CallInv, Places

LEMMA CallStep == CallInv /\ [Next]_vars => CallInv'
<1> SUFFICES ASSUME CallInv, [Next]_vars PROVE CallInv'
  OBVIOUS
<1> USE DEF CallInv, Places, Goto
<1>1. CASE Call BY <1>1 DEF Call
<1>2. CASE Deploy
  BY <1>2, DeployGoes DEF Goes, Fails, Kept, DeployPlaces
<1>3. CASE Ready BY <1>3 DEF Ready
<1>4. CASE SkipStep BY <1>4 DEF SkipStep, Next1
<1>5. CASE Begin BY <1>5 DEF Begin
<1>6. CASE End BY <1>6 DEF End, Next1
<1>7. CASE Flush BY <1>7 DEF Flush
<1>8. CASE Burn BY <1>8 DEF Burn
<1>9. CASE Summary BY <1>9 DEF Summary
<1>10. CASE RunByHand
  <2>1. kind = "hand" /\ pc = "idle" /\ calls' = calls + 1 /\ UNCHANGED <<kind, pc, request>>
    BY <1>10 DEF RunByHand
  <2> QED BY <2>1
<1>11. CASE Kill BY <1>11 DEF Kill
<1>12. CASE UNCHANGED vars BY <1>12 DEF vars
<1> QED BY <1>1, <1>2, <1>3, <1>4, <1>5, <1>6, <1>7, <1>8, <1>9, <1>10, <1>11, <1>12 DEF Next

Fresh == StepInv /\ ArtifactsFresh

LEMMA FreshInit == Init => Fresh
<1> SUFFICES ASSUME Init PROVE Fresh
  OBVIOUS
<1>1. records = <<>> /\ todo = <<>> /\ pc = "idle" /\ published = [s \in Harnesses |-> Nobody]
  BY DEF Init
<1>2. Range(<<>>) = {} BY DEF Range
<1>3. StepInv BY <1>1, <1>2 DEF StepInv, Records
<1> QED BY <1>1, <1>2, <1>3 DEF Fresh, ArtifactsFresh

\* A record more.
LEMMA OneMore ==
  ASSUME records \in Records, NEW n \in Names, NEW v \in Marks, records' = Append(records, <<n, v>>)
  PROVE  records' \in Records /\ Range(records') = Range(records) \cup {<<n, v>>} /\ records' # <<>> /\ records'[Len(records')] = <<n, v>>
<1>1. <<n, v>> \in Names \X Marks OBVIOUS
<1>2. /\ records' \in Seq(Names \X Marks) /\ Range(records') = Range(records) \cup {<<n, v>>}
      /\ Len(records') = Len(records) + 1 /\ records'[Len(records) + 1] = <<n, v>>
  BY <1>1, RangeAppend DEF Records
<1>3. Len(records) \in Nat /\ Len(<<>>) = 0 BY DEF Records
<1>4. records' # <<>> BY <1>2, <1>3
<1> QED BY <1>2, <1>4 DEF Records

\* A record that is no pass of a harness leaves the artifacts as they are.
LEMMA OtherRecord ==
  ASSUME ArtifactsFresh, records \in Records, NEW n \in Names, NEW v \in Marks, v = "PASS" => n \notin Harnesses,
         records' = Append(records, <<n, v>>), published' = published, calls' = calls
  PROVE  ArtifactsFresh' /\ records' \in Records
<1>1. records' \in Records /\ Range(records') = Range(records) \cup {<<n, v>>}
  BY OneMore
<1>2. \A q \in Harnesses : <<q, "PASS">> # <<n, v>>
  OBVIOUS
<1> QED BY <1>1, <1>2 DEF ArtifactsFresh

\* A harness ends: what it filed is its own, of this call.
LEMMA EndFresh ==
  ASSUME CallInv, Fresh, End PROVE Fresh'
<1> DEFINE s == Head(todo)
<1>1. pc = "running" /\ todo # <<>> /\ s \in Harnesses /\ Tail(todo) \in Seq(Harnesses)
  <2>1. pc = "running" /\ todo \in Seq(Harnesses) /\ todo # <<>> BY DEF End, Fresh, StepInv
  <2> QED BY <2>1, HeadAndTail
<1>2. PICK ended \in {"rc 0", "rc 1", "killed"}, wrote \in BOOLEAN :
        /\ Artifact[s] = "none" => ~wrote
        /\ local' = [a \in Artifacts |-> IF wrote /\ a = Artifact[s] THEN <<calls, s>> ELSE local[a]]
        /\ LET there == Artifact[s] # "none" /\ local'[Artifact[s]] # Nobody
           IN /\ published' = (IF there THEN [published EXCEPT ![s] = local'[Artifact[s]]] ELSE published)
              /\ Next1(s, IF ended = "rc 0" /\ (Artifact[s] = "none" \/ there) THEN "PASS" ELSE "FAIL")
  BY <1>1 DEF End
<1> DEFINE there == Artifact[s] # "none" /\ local'[Artifact[s]] # Nobody
           verdict == IF ended = "rc 0" /\ (Artifact[s] = "none" \/ there) THEN "PASS" ELSE "FAIL"
           rec == <<s, verdict>>
<1>3. there => local'[Artifact[s]] = <<calls, s>>
  <2> SUFFICES ASSUME there PROVE local'[Artifact[s]] = <<calls, s>>
    OBVIOUS
  <2>1. Artifact[s] \in Artifacts BY <1>1 DEF Artifacts
  <2>2. local[Artifact[s]] = Nobody BY <1>1 DEF Fresh, StepInv
  <2> QED BY <1>2, <2>1, <2>2
<1>4. /\ published' = (IF there THEN [published EXCEPT ![s] = <<calls, s>>] ELSE published)
      /\ records' = Append(records, rec) /\ todo' = Tail(todo) /\ pc' = "flush"
  BY <1>2, <1>3 DEF Next1, Goto
<1>5. verdict \in {"PASS", "FAIL"} /\ (verdict = "PASS" /\ Artifact[s] # "none" => there)
  OBVIOUS
<1>6. calls' = calls /\ calls > 0 /\ calls \in Nat
  BY <1>1 DEF End, CallInv
<1>7. DOMAIN published = Harnesses BY DEF Fresh, StepInv
<1> HIDE DEF there, verdict
<1>8. s \in Names /\ verdict \in Marks BY <1>1, <1>5 DEF Names, Marks
<1>9. records' \in Records /\ Range(records') = Range(records) \cup {rec}
  BY <1>4, <1>8, OneMore DEF Fresh, StepInv
<1>10. ArtifactsFresh'
  <2> SUFFICES ASSUME NEW q \in Harnesses
               PROVE  /\ published'[q] \in {Nobody} \cup (1 .. calls) \X {q}
                      /\ <<q, "PASS">> \in Range(records') /\ Artifact[q] # "none" => published'[q] = <<calls, q>>
    BY <1>6 DEF ArtifactsFresh
  <2>1. /\ published[q] \in {Nobody} \cup (1 .. calls) \X {q}
        /\ <<q, "PASS">> \in Range(records) /\ Artifact[q] # "none" => published[q] = <<calls, q>>
    BY DEF Fresh, ArtifactsFresh
  <2>2. CASE q # s
    <3>1. published'[q] = published[q] BY <2>2, <1>4, <1>7
    <3>2. rec # <<q, "PASS">> BY <2>2
    <3> QED BY <2>1, <3>1, <3>2, <1>9
  <2>3. CASE q = s /\ there
    <3>1. published'[q] = <<calls, q>> BY <2>3, <1>4, <1>7
    <3>2. calls \in 1 .. calls BY <1>6, CallNumbers
    <3> HIDE DEF s
    <3>3. published'[q] \in (1 .. calls) \X {q} BY <3>1, <3>2, Pair
    <3> QED BY <3>1, <3>3
  <2>4. CASE q = s /\ ~there
    <3>1. published'[q] = published[q] BY <2>4, <1>4
    <3>2. Artifact[q] # "none" => rec # <<q, "PASS">> BY <2>4, <1>5
    <3> QED BY <2>1, <3>1, <3>2, <1>9
  <2> QED BY <2>2, <2>3, <2>4
<1>11. StepInv'
  <2>1. kind # "hand" /\ kind' = kind BY <1>1 DEF End, CallInv
  <2>2. DOMAIN published' = Harnesses BY <1>4, <1>7
  <2> QED BY <2>1, <2>2, <1>1, <1>4, <1>9 DEF StepInv
<1> QED BY <1>10, <1>11 DEF Fresh

LEMMA FreshStep == CallInv /\ Fresh /\ [Next]_vars => Fresh'
<1> SUFFICES ASSUME CallInv, Fresh, [Next]_vars PROVE Fresh'
  OBVIOUS
<1> USE DEF Goto
<1>0. records \in Records /\ ArtifactsFresh /\ StepInv BY DEF Fresh, StepInv
<1>1. CASE Call
  <2>1. /\ records' = <<>> /\ progress' = <<>> /\ booked' = 0 /\ now' = 0 /\ todo' = <<>> /\ published' = published
        /\ calls' = calls + 1 /\ pc' \in {"backup", "summary"} /\ kind' = kind /\ kind # "hand"
    BY <1>1 DEF Call
  <2>2. Range(<<>>) = {} BY DEF Range
  <2>3. StepInv' BY <2>1, <1>0 DEF StepInv, Records
  <2>4. 1 .. calls \subseteq 1 .. calls + 1 BY DEF CallInv
  <2>5. ASSUME NEW q \in Harnesses
        PROVE  /\ published'[q] \in {Nobody} \cup (1 .. calls') \X {q}
               /\ <<q, "PASS">> \notin Range(records')
    <3>1. published[q] \in {Nobody} \cup (1 .. calls) \X {q} BY <1>0 DEF ArtifactsFresh
    <3> QED BY <3>1, <2>1, <2>2, <2>4
  <2> QED BY <2>3, <2>5 DEF Fresh, ArtifactsFresh
<1>2. CASE Deploy
  <2>1. Goes \/ Fails BY <1>2, DeployGoes
  <2>2. /\ UNCHANGED <<kind, calls, request, now, booked, todo, local, progress, published>>
        /\ pc' \in DeployPlaces \cup {"ready", "idle", "flush"}
    BY <2>1 DEF Goes, Fails, Kept, measuring
  <2>3. ArtifactsFresh' /\ records' \in Records
    <3>1. CASE Goes BY <3>1, <1>0, <2>2 DEF Goes, ArtifactsFresh
    <3>2. CASE Fails
      <4>1. "setup" \in Names /\ "FAIL" \in Marks BY DEF Names, Marks
      <4> QED BY <3>2, <4>1, <1>0, <2>2, OtherRecord DEF Fails
    <3> QED BY <3>1, <3>2, <2>1
  <2>4. kind # "hand" BY <1>2, DeployGoes DEF CallInv, DeployPlaces
  <2> QED BY <2>2, <2>3, <2>4, <1>0 DEF Fresh, StepInv, DeployPlaces
<1>3. CASE Ready
  <2>1. /\ UNCHANGED <<kind, calls, request, now, booked, local, progress, published>> /\ pc = "ready"
        /\ records' = Append(records, <<"setup", "PASS">>) /\ pc' \in {"idle", "flush"}
        /\ todo' = (IF kind = "bench" THEN <<>> ELSE Steps[request])
    BY <1>3 DEF Ready
  <2>2. ArtifactsFresh' /\ records' \in Records
    <3>1. "setup" \in Names /\ "PASS" \in Marks /\ "setup" \notin Harnesses BY DeployAssumption DEF Names, Marks
    <3> QED BY <2>1, <3>1, <1>0, OtherRecord
  <2>3. todo' \in Seq(Harnesses)
    BY <2>1, StepsAreHarnesses DEF CallInv
  <2>4. kind # "hand" /\ kind' = kind BY <2>1 DEF CallInv
  <2> QED BY <2>1, <2>2, <2>3, <2>4, <1>0 DEF Fresh, StepInv
<1>4. CASE SkipStep
  <2>1. /\ UNCHANGED <<kind, calls, local, published>> /\ pc = "run" /\ pc' = "flush"
        /\ records' = Append(records, <<Head(todo), "NOT_RUN">>) /\ todo' = Tail(todo)
    BY <1>4 DEF SkipStep, Next1
  <2>2. Head(todo) \in Harnesses /\ Tail(todo) \in Seq(Harnesses)
    BY <2>1, <1>0, HeadAndTail DEF StepInv
  <2>3. ArtifactsFresh' /\ records' \in Records
    <3>1. Head(todo) \in Names /\ "NOT_RUN" \in Marks BY <2>2 DEF Names, Marks
    <3> QED BY <2>1, <3>1, <1>0, OtherRecord
  <2>4. kind # "hand" BY <2>1 DEF CallInv
  <2> QED BY <2>1, <2>2, <2>3, <2>4, <1>0 DEF Fresh, StepInv
<1>5. CASE Begin
  <2>1. /\ UNCHANGED <<kind, calls, now, records, booked, todo, progress, published>> /\ pc = "run" /\ pc' = "running"
        /\ local' = [a \in Artifacts |-> IF a = Artifact[Head(todo)] THEN Nobody ELSE local[a]]
    BY <1>5 DEF Begin
  <2>2. Head(todo) \in Harnesses BY <2>1, <1>0, HeadAndTail DEF StepInv
  <2>3. Artifact[Head(todo)] # "none" => Artifact[Head(todo)] \in Artifacts BY <2>2 DEF Artifacts
  <2>4. ArtifactsFresh' BY <2>1, <1>0 DEF ArtifactsFresh
  <2> QED BY <2>1, <2>3, <2>4, <1>0 DEF Fresh, StepInv
<1>6. CASE End BY <1>6, EndFresh
<1>7. CASE Flush BY <1>7, <1>0 DEF Flush, Fresh, StepInv, ArtifactsFresh
<1>8. CASE Burn BY <1>8, <1>0 DEF Burn, Fresh, StepInv, ArtifactsFresh
<1>9. CASE Summary BY <1>9, <1>0 DEF Summary, Fresh, StepInv, ArtifactsFresh
<1>10. CASE RunByHand
  <2>1. /\ pc = "idle" /\ kind = "hand" /\ UNCHANGED <<pc, now, booked, todo, local, progress, published>> /\ calls' = calls + 1
    BY <1>10 DEF RunByHand, measuring
  <2>2. PICK p \in Scripts, v \in {"exit 0", "abort", "interrupted"} : records' = Append(records, <<p, v>>)
    BY <1>10 DEF RunByHand
  <2>3. records' \in Records /\ Range(records') = Range(records) \cup {<<p, v>>}
    <3>1. p \in Names /\ v \in Marks BY DEF Names, Marks
    <3> QED BY <2>2, <3>1, <1>0, OneMore
  <2>6. kind = "hand" /\ UNCHANGED kind BY <1>10 DEF RunByHand
  <2>7. \A n \in Names : <<n, "PASS">> # <<p, v>> BY <2>1
  <2>4. StepInv' BY <2>1, <2>3, <2>7, <2>6, <1>0 DEF StepInv
  <2>5. ASSUME NEW q \in Harnesses
        PROVE  /\ published'[q] \in {Nobody} \cup (1 .. calls') \X {q}
               /\ <<q, "PASS">> \notin Range(records')
    <3>1. published[q] \in {Nobody} \cup (1 .. calls) \X {q} /\ <<q, "PASS">> \notin Range(records)
      BY <1>0, <2>6 DEF ArtifactsFresh, StepInv, Names
    <3>2. 1 .. calls \subseteq 1 .. calls' BY <2>1, CallNumbers DEF CallInv
    <3>3. published'[q] = published[q] /\ <<q, "PASS">> # <<p, v>> BY <2>1
    <3>4. published'[q] \in {Nobody} \cup (1 .. calls') \X {q} BY <3>1, <3>2, <3>3
    <3>5. <<q, "PASS">> \notin Range(records') BY <2>3, <3>1, <3>3
    <3> QED BY <3>1, <3>3, <3>4, <3>5
  <2> QED BY <2>4, <2>5 DEF Fresh, ArtifactsFresh
<1>11. CASE Kill BY <1>11, <1>0 DEF Kill, Fresh, StepInv, ArtifactsFresh, measuring
<1>12. CASE UNCHANGED vars BY <1>12, <1>0 DEF vars, Fresh, StepInv, ArtifactsFresh, measuring
<1> QED BY <1>1, <1>2, <1>3, <1>4, <1>5, <1>6, <1>7, <1>8, <1>9, <1>10, <1>11, <1>12 DEF Next

-----------------------------------------------------------------------------
(* The patch scripts.                                                      *)

\* A script gets as far as its first missing anchor.
LEMMA ReachIs ==
  ASSUME NEW p, NEW t, NEW n \in 0 .. Len(Script[p]), Len(Script[p]) \in Nat,
         \A i \in 1 .. n : Editable(p, Script[p][i], t),
         n < Len(Script[p]) => ~Editable(p, Script[p][n + 1], t)
  PROVE  Reach(p, t) = n
<1> DEFINE L == Len(Script[p])
           Ok(i) == Editable(p, Script[p][i], t)
           Good(m) == (\A i \in 1 .. m : Ok(i)) /\ (m < L => ~Ok(m + 1))
<1>1. Good(n) OBVIOUS
<1>2. ASSUME NEW m \in 0 .. L, Good(m) PROVE m = n
  <2> HIDE DEF Ok, L
  <2>0. L \in Nat /\ n \in 0 .. L BY DEF L
  <2>1. CASE m < n
    <3>1. m + 1 \in 1 .. n /\ m < L BY <2>1, <2>0
    <3> QED BY <3>1, <1>1, <1>2
  <2>2. CASE n < m
    <3>1. n + 1 \in 1 .. m /\ n < L BY <2>2, <2>0
    <3> QED BY <3>1, <1>1, <1>2
  <2> QED BY <2>1, <2>2, <2>0
<1>3. Reach(p, t) = CHOOSE m \in 0 .. L : Good(m)
  BY DEF Reach
<1> HIDE DEF Good, L
<1>4. n \in 0 .. L BY DEF L
<1> QED BY <1>1, <1>2, <1>3, <1>4

\* The scripts, one by one.
LEMMA TheScripts ==
  /\ Scripts = {"v0", "v1", "port", "direct", "inkernel", "route", "u3", "shear"}
  /\ Script["u3"] = U3 /\ Script["route"] = Route /\ Script["shear"] = Shear
  /\ Script["v0"] = V0 /\ Script["v1"] = V1 /\ Script["port"] = Port /\ Script["direct"] = Direct /\ Script["inkernel"] = InKernel
BY DEF Scripts, Script

LEMMA Lengths == Len(U3) = 1 /\ Len(Route) = 1 /\ Len(Shear) = 4 /\ Len(V0) = 2 /\ Len(V1) = 1 /\ Len(Port) = 2 /\ Len(Direct) = 1 /\ Len(InKernel) = 2
BY DEF U3, Route, Shear, V0, V1, Port, Direct, InKernel

LEMMA ShearEdits ==
  /\ Shear[1] = Edits("qkvr", {}, {}) /\ Shear[2] = Edits("route", {}, {})
  /\ Shear[3] = Edits("attn", {}, {}) /\ Shear[4] = Edits("iface", {"ours"}, {})
BY DEF Shear

LEMMA FirstEdits ==
  /\ U3[1] = Edits("qkvr", {}, {"shear"}) /\ Route[1] = Edits("route", {}, {})
  /\ V0[1] = Edits("fwd", {}, {"ours", "v1"}) /\ V1[1] = Edits("fwd", {"v0"}, {"ours"})
  /\ Port[1] = Edits("sm90", {}, {"ours", "direct"}) /\ Direct[1] = Edits("sm90", {"port"}, {"ours"})
  /\ InKernel[1] = Edits("sm90", {"ours"}, {"ours"})
BY DEF U3, Route, V0, V1, Port, Direct, InKernel

\* When an edit is there or can be made.
LEMMA EditableIs ==
  ASSUME NEW p, NEW f, NEW needs, NEW breaks, NEW t
  PROVE  Editable(p, Edits(f, needs, breaks), t) <=> (t[f] \cap breaks = {} /\ (p \in t[f] \/ needs \subseteq t[f]))
BY DEF Editable, Edits

LEMMA U3Runs ==
  ASSUME NEW t PROVE Reach("u3", t) = (IF "shear" \in t["qkvr"] THEN 0 ELSE 1) /\ (Applies("u3", t) <=> "shear" \notin t["qkvr"])
<1>1. Script["u3"] = U3 /\ Len(U3) = 1 BY TheScripts, Lengths
<1>2. Editable("u3", U3[1], t) <=> "shear" \notin t["qkvr"] BY FirstEdits, EditableIs
<1>3. CASE "shear" \in t["qkvr"]
  <2>0. /\ 0 \in 0 .. Len(Script["u3"]) /\ Len(Script["u3"]) \in Nat /\ \A i \in 1 .. 0 : Editable("u3", Script["u3"][i], t)
        /\ 0 < Len(Script["u3"]) => ~Editable("u3", Script["u3"][0 + 1], t)
    BY <1>1, <1>2, <1>3
  <2>1. Reach("u3", t) = 0 BY <2>0, ReachIs
  <2> QED BY <2>1, <1>1, <1>3 DEF Applies
<1>4. CASE "shear" \notin t["qkvr"]
  <2>1. \A i \in 1 .. 1 : i = 1 OBVIOUS
  <2>0. /\ 1 \in 0 .. Len(Script["u3"]) /\ Len(Script["u3"]) \in Nat /\ \A i \in 1 .. 1 : Editable("u3", Script["u3"][i], t)
        /\ 1 < Len(Script["u3"]) => ~Editable("u3", Script["u3"][1 + 1], t)
    BY <1>1, <1>2, <1>4, <2>1
  <2>2. Reach("u3", t) = 1 BY <2>0, ReachIs
  <2> QED BY <2>2, <1>1, <1>4 DEF Applies
<1> QED BY <1>3, <1>4

LEMMA RouteRuns == ASSUME NEW t PROVE Reach("route", t) = 1 /\ Applies("route", t)
<1>1. Script["route"] = Route /\ Len(Route) = 1 BY TheScripts, Lengths
<1>2. Editable("route", Route[1], t) BY FirstEdits, EditableIs
<1>3. \A i \in 1 .. 1 : i = 1 OBVIOUS
<1>5. /\ 1 \in 0 .. Len(Script["route"]) /\ Len(Script["route"]) \in Nat /\ \A i \in 1 .. 1 : Editable("route", Script["route"][i], t)
      /\ 1 < Len(Script["route"]) => ~Editable("route", Script["route"][1 + 1], t)
  BY <1>1, <1>2, <1>3
<1>4. Reach("route", t) = 1 BY <1>5, ReachIs
<1> QED BY <1>4, <1>1 DEF Applies

LEMMA ShearRuns == ASSUME NEW t, "ours" \in t["iface"] PROVE Reach("shear", t) = 4 /\ Applies("shear", t)
<1>1. Script["shear"] = Shear /\ Len(Shear) = 4 BY TheScripts, Lengths
<1>2. Editable("shear", Shear[1], t) /\ Editable("shear", Shear[2], t) /\ Editable("shear", Shear[3], t) /\ Editable("shear", Shear[4], t)
  BY ShearEdits, EditableIs
<1>3. \A i \in 1 .. 4 : i = 1 \/ i = 2 \/ i = 3 \/ i = 4 OBVIOUS
<1>4. \A i \in 1 .. 4 : Editable("shear", Shear[i], t) BY <1>2, <1>3
<1>5. /\ 4 \in 0 .. Len(Script["shear"]) /\ Len(Script["shear"]) \in Nat /\ \A i \in 1 .. 4 : Editable("shear", Script["shear"][i], t)
      /\ 4 < Len(Script["shear"]) => ~Editable("shear", Script["shear"][4 + 1], t)
  BY <1>1, <1>4
<1>6. Reach("shear", t) = 4 BY <1>5, ReachIs
<1> QED BY <1>6, <1>1 DEF Applies

\* The scripts of the abandoned designs stop at the first file of an overlaid tree.
LEMMA OthersStop ==
  ASSUME NEW t, Overlaid(t), NEW p \in Scripts \ {"route", "u3", "shear"}
  PROVE  Reach(p, t) = 0 /\ ~Applies(p, t)
<1>1. "ours" \in t["fwd"] /\ "ours" \in t["sm90"] BY DEF Overlaid
<1>2. p \in {"v0", "v1", "port", "direct", "inkernel"} BY TheScripts
<1>3. Len(Script[p]) \in Nat /\ Len(Script[p]) > 0 /\ ~Editable(p, Script[p][1], t)
  <2>1. ~Editable(p, V0[1], t) /\ ~Editable(p, V1[1], t) /\ ~Editable(p, Port[1], t) /\ ~Editable(p, Direct[1], t) /\ ~Editable(p, InKernel[1], t)
    BY <1>1, FirstEdits, EditableIs
  <2> QED BY <1>2, <2>1, TheScripts, Lengths
<1>5. /\ 0 \in 0 .. Len(Script[p]) /\ Len(Script[p]) \in Nat /\ \A i \in 1 .. 0 : Editable(p, Script[p][i], t)
      /\ 0 < Len(Script[p]) => ~Editable(p, Script[p][0 + 1], t)
  BY <1>3
<1>4. Reach(p, t) = 0 BY <1>5, ReachIs
<1> QED BY <1>3, <1>4 DEF Applies

\* The tree after n files of a script, file by file.
FirstFiles(p, n) == {Script[p][i].file : i \in 1 .. n}

LEMMA PatchedIs ==
  ASSUME NEW p, NEW n, NEW t
  PROVE  /\ DOMAIN Patched(p, n, t) = Files
         /\ \A f \in Files \cap FirstFiles(p, n) : Patched(p, n, t)[f] = t[f] \cup {p}
         /\ \A f \in Files \ FirstFiles(p, n) : Patched(p, n, t)[f] = t[f]
<1>1. \A f : f \in FirstFiles(p, n) <=> \E i \in 1 .. n : Script[p][i].file = f
  BY DEF FirstFiles
<1> QED BY <1>1 DEF Patched

LEMMA PatchedTree ==
  ASSUME NEW t \in Tree, NEW p \in Scripts, NEW n
  PROVE  Patched(p, n, t) \in Tree /\ \A f \in Files : t[f] \subseteq Patched(p, n, t)[f] /\ Patched(p, n, t)[f] \subseteq t[f] \cup {p}
<1> DEFINE u == Patched(p, n, t)
<1>1. /\ DOMAIN u = Files /\ \A f \in Files \cap FirstFiles(p, n) : u[f] = t[f] \cup {p}
      /\ \A f \in Files \ FirstFiles(p, n) : u[f] = t[f]
  BY PatchedIs
<1>2. u = [f \in Files |-> u[f]] BY DEF Patched
<1>3. \A f \in Files : t[f] \subseteq Scripts \cup {"ours"} BY DEF Tree
<1> HIDE DEF u
<1>4. \A f \in Files : t[f] \subseteq u[f] /\ u[f] \subseteq t[f] \cup {p} BY <1>1
<1>5. \A f \in Files : u[f] \in SUBSET (Scripts \cup {"ours"}) BY <1>3, <1>4
<1>6. u \in Tree BY <1>2, <1>5 DEF Tree
<1> QED BY <1>4, <1>6 DEF u

LEMMA FilesOfScripts ==
  /\ \A p : FirstFiles(p, 0) = {}
  /\ FirstFiles("u3", 1) = {"qkvr"} /\ FirstFiles("route", 1) = {"route"}
  /\ FirstFiles("shear", 1) = {"qkvr"} /\ FirstFiles("shear", 2) = {"qkvr", "route"}
  /\ FirstFiles("shear", 3) = {"qkvr", "route", "attn"} /\ FirstFiles("shear", 4) = {"qkvr", "route", "attn", "iface"}
<1>1. \A p : FirstFiles(p, 0) = {} BY DEF FirstFiles
<1>2. \A f, x, y : Edits(f, x, y).file = f BY DEF Edits
<1>3. /\ Script["u3"][1].file = "qkvr" /\ Script["route"][1].file = "route"
      /\ Script["shear"][1].file = "qkvr" /\ Script["shear"][2].file = "route" /\ Script["shear"][3].file = "attn" /\ Script["shear"][4].file = "iface"
  BY <1>2, TheScripts, FirstEdits, ShearEdits
<1>4. /\ \A i : i \in 1 .. 1 <=> i = 1
      /\ \A i : i \in 1 .. 2 <=> i = 1 \/ i = 2
      /\ \A i : i \in 1 .. 3 <=> i = 1 \/ i = 2 \/ i = 3
      /\ \A i : i \in 1 .. 4 <=> i = 1 \/ i = 2 \/ i = 3 \/ i = 4
  OBVIOUS
<1>5. FirstFiles("u3", 1) = {"qkvr"} /\ FirstFiles("route", 1) = {"route"} /\ FirstFiles("shear", 1) = {"qkvr"}
  BY <1>3, <1>4 DEF FirstFiles
<1>6. FirstFiles("shear", 2) = {"qkvr", "route"} BY <1>3, <1>4 DEF FirstFiles
<1>7. FirstFiles("shear", 3) = {"qkvr", "route", "attn"} BY <1>3, <1>4 DEF FirstFiles
<1>8. FirstFiles("shear", 4) = {"qkvr", "route", "attn", "iface"} BY <1>3, <1>4 DEF FirstFiles
<1> QED BY <1>1, <1>5, <1>6, <1>7, <1>8

\* The shape survives the scripts that are deployed, cut short or not.
LEMMA ShapeKept ==
  ASSUME NEW t \in Tree, Shape(t), NEW p \in {"u3", "route", "shear"}, NEW n \in 0 .. Len(Script[p])
  PROVE  /\ Patched(p, n, t) \in Tree /\ Shape(Patched(p, n, t))
         /\ Patched(p, n, t)["fwd"] = t["fwd"] /\ Patched(p, n, t)["sm90"] = t["sm90"]
         /\ p # "shear" => Patched(p, n, t)["iface"] = t["iface"] /\ Patched(p, n, t)["attn"] = t["attn"]
         /\ p = "route" => Patched(p, n, t)["qkvr"] = t["qkvr"] /\ Patched(p, n, t)["route"] \subseteq t["route"] \cup {"route"}
<1> DEFINE u == Patched(p, n, t)
<1>1. /\ \A f \in Files \cap FirstFiles(p, n) : u[f] = t[f] \cup {p}
      /\ \A f \in Files \ FirstFiles(p, n) : u[f] = t[f]
  BY PatchedIs
<1>2. u \in Tree BY PatchedTree, TheScripts
<1> HIDE DEF u
<1>3. {"fwd", "sm90", "iface", "attn", "route", "qkvr"} \subseteq Files BY DEF Files, TmlFiles, OpsFiles
<1>4. CASE p = "u3"
  <2>1. n = 0 \/ n = 1 BY <1>4, TheScripts, Lengths
  <2>2. FirstFiles(p, n) \subseteq {"qkvr"} BY <2>1, <1>4, FilesOfScripts
  <2>3. /\ u["fwd"] = t["fwd"] /\ u["sm90"] = t["sm90"] /\ u["iface"] = t["iface"] /\ u["attn"] = t["attn"] /\ u["route"] = t["route"]
        /\ t["qkvr"] \subseteq u["qkvr"] /\ u["qkvr"] \subseteq t["qkvr"] \cup {"u3"}
    BY <2>2, <1>1, <1>3, <1>4
  <2>4. Shape(u) BY <2>3 DEF Shape
  <2> QED BY <2>3, <2>4, <1>2, <1>4 DEF u
<1>5. CASE p = "route"
  <2>1. n = 0 \/ n = 1 BY <1>5, TheScripts, Lengths
  <2>2. FirstFiles(p, n) \subseteq {"route"} BY <2>1, <1>5, FilesOfScripts
  <2>3. /\ u["fwd"] = t["fwd"] /\ u["sm90"] = t["sm90"] /\ u["iface"] = t["iface"] /\ u["attn"] = t["attn"] /\ u["qkvr"] = t["qkvr"]
        /\ u["route"] \subseteq t["route"] \cup {"route"}
    BY <2>2, <1>1, <1>3, <1>5
  <2>4. Shape(u) BY <2>3 DEF Shape
  <2> QED BY <2>3, <2>4, <1>2, <1>5 DEF u
<1>6. CASE p = "shear"
  <2>1. n = 0 \/ n = 1 \/ n = 2 \/ n = 3 \/ n = 4 BY <1>6, TheScripts, Lengths
  <2>2. /\ FirstFiles(p, n) \subseteq {"qkvr", "route", "attn", "iface"}
        /\ "route" \in FirstFiles(p, n) => "qkvr" \in FirstFiles(p, n)
    BY <2>1, <1>6, FilesOfScripts
  <2>3. /\ u["fwd"] = t["fwd"] /\ u["sm90"] = t["sm90"]
        /\ u["iface"] \subseteq t["iface"] \cup {"shear"} /\ u["attn"] \subseteq t["attn"] \cup {"shear"}
        /\ u["route"] \subseteq t["route"] \cup {"shear"} /\ u["qkvr"] \subseteq t["qkvr"] \cup {"shear"} /\ t["qkvr"] \subseteq u["qkvr"]
    BY <2>2, <1>1, <1>3, <1>6
  <2>5. "shear" \in u["route"] => "shear" \in u["qkvr"]
    BY <2>2, <1>1, <1>3, <1>6 DEF Shape
  <2>4. Shape(u) BY <2>3, <2>5 DEF Shape
  <2> QED BY <2>3, <2>4, <1>2, <1>6 DEF u
<1> QED BY <1>4, <1>5, <1>6

-----------------------------------------------------------------------------
(* Copies.                                                                 *)

LEMMA BegunIs ==
  ASSUME NEW order \in Seq(Files), NEW fs \in Begun(order)
  PROVE  \E n \in 0 .. Len(order) - 1 : \A f : f \in fs <=> \E i \in 1 .. n : order[i] = f
<1>1. PICK n \in 0 .. Len(order) - 1 : fs = Range(SubSeq(order, 1, n)) BY DEF Begun
<1>2. n \in Nat /\ n <= Len(order) BY <1>1
<1>3. /\ DOMAIN SubSeq(order, 1, n) = 1 .. n
      /\ \A i \in 1 .. n : SubSeq(order, 1, n)[i] = order[i]
  BY <1>2
<1>4. \A f : f \in fs <=> \E i \in 1 .. n : order[i] = f BY <1>1, <1>3 DEF Range
<1> QED BY <1>4

LEMMA TmlCopies ==
  /\ Range(TmlOrder) = TmlFiles
  /\ \A fs \in Begun(TmlOrder) : fs \subseteq TmlFiles
<1>1. TmlOrder \in Seq(Files) /\ Len(TmlOrder) = 3 /\ DOMAIN TmlOrder = 1 .. 3
  BY DEF TmlOrder, Files, TmlFiles, OpsFiles
<1>2. TmlOrder[1] = "fwd" /\ TmlOrder[2] = "sm90" /\ TmlOrder[3] = "iface" BY DEF TmlOrder
<1>3. \A i : i \in 1 .. 3 <=> i = 1 \/ i = 2 \/ i = 3 OBVIOUS
<1>4. Range(TmlOrder) = TmlFiles BY <1>1, <1>2, <1>3 DEF Range, TmlFiles
<1>5. ASSUME NEW fs \in Begun(TmlOrder) PROVE fs \subseteq TmlFiles
  <2>0. PICK n \in 0 .. Len(TmlOrder) - 1 : \A f : f \in fs <=> \E i \in 1 .. n : TmlOrder[i] = f BY <1>1, BegunIs
  <2>1. n \in 0 .. 2 /\ \A f : f \in fs <=> \E i \in 1 .. n : TmlOrder[i] = f BY <2>0, <1>1
  <2>2. \A i \in 1 .. n : i \in 1 .. 3 BY <2>1
  <2> QED BY <2>1, <2>2, <1>2, <1>3 DEF TmlFiles
<1> QED BY <1>4, <1>5

\* The router is last.
LEMMA BothCopies ==
  /\ Range(StockOrder) = TmlFiles \cup {"route"}
  /\ \A fs \in Begun(StockOrder) : fs \subseteq TmlFiles
<1>1. StockOrder \in Seq(Files) /\ Len(StockOrder) = 4 /\ DOMAIN StockOrder = 1 .. 4
  BY DEF StockOrder, Files, TmlFiles, OpsFiles
<1>2. StockOrder[1] = "fwd" /\ StockOrder[2] = "sm90" /\ StockOrder[3] = "iface" /\ StockOrder[4] = "route" BY DEF StockOrder
<1>3. \A i : i \in 1 .. 4 <=> i = 1 \/ i = 2 \/ i = 3 \/ i = 4 OBVIOUS
<1>4. Range(StockOrder) = TmlFiles \cup {"route"} BY <1>1, <1>2, <1>3 DEF Range, TmlFiles
<1>5. ASSUME NEW fs \in Begun(StockOrder) PROVE fs \subseteq TmlFiles
  <2>0. PICK n \in 0 .. Len(StockOrder) - 1 : \A f : f \in fs <=> \E i \in 1 .. n : StockOrder[i] = f BY <1>1, BegunIs
  <2>1. n \in 0 .. 3 /\ \A f : f \in fs <=> \E i \in 1 .. n : StockOrder[i] = f BY <2>0, <1>1
  <2>2. \A i \in 1 .. n : i \in 1 .. 4 /\ i # 4 BY <2>1
  <2> QED BY <2>1, <2>2, <1>2, <1>3 DEF TmlFiles
<1> QED BY <1>4, <1>5

LEMMA OpsCopies ==
  /\ Range(OpsOrder) = OpsFiles
  /\ \A fs \in Begun(OpsOrder) : fs \subseteq {"attn", "route"} /\ (fs # {} => "attn" \in fs)
<1>1. OpsOrder \in Seq(Files) /\ Len(OpsOrder) = 3 /\ DOMAIN OpsOrder = 1 .. 3
  BY DEF OpsOrder, Files, TmlFiles, OpsFiles
<1>2. OpsOrder[1] = "attn" /\ OpsOrder[2] = "route" /\ OpsOrder[3] = "qkvr" BY DEF OpsOrder
<1>3. \A i : i \in 1 .. 3 <=> i = 1 \/ i = 2 \/ i = 3 OBVIOUS
<1>4. Range(OpsOrder) = OpsFiles BY <1>1, <1>2, <1>3 DEF Range, OpsFiles
<1>5. ASSUME NEW fs \in Begun(OpsOrder) PROVE fs \subseteq {"attn", "route"} /\ (fs # {} => "attn" \in fs)
  <2>0. PICK n \in 0 .. Len(OpsOrder) - 1 : \A f : f \in fs <=> \E i \in 1 .. n : OpsOrder[i] = f BY <1>1, BegunIs
  <2>1. n \in 0 .. 2 /\ \A f : f \in fs <=> \E i \in 1 .. n : OpsOrder[i] = f BY <2>0, <1>1
  <2>2. \A i \in 1 .. n : i \in 1 .. 3 /\ i # 3 BY <2>1
  <2>3. fs \subseteq {"attn", "route"} BY <2>1, <2>2, <1>2, <1>3
  <2>4. fs # {} => 1 \in 1 .. n
    <3>1. \A i \in 1 .. n : 1 \in 1 .. n BY <2>1
    <3> QED BY <2>1, <3>1
  <2>5. 1 \in 1 .. n => "attn" \in fs BY <2>1, <1>2
  <2> QED BY <2>3, <2>4, <2>5
<1> QED BY <1>4, <1>5

-----------------------------------------------------------------------------
(* The steps of a deployment keep the files' invariant.                    *)

Sound == FilesInv /\ FailsOnlyOnFault

\* A step that ends a deployment has no place to account for.
LEMMA EndsFailed ==
  ASSUME Fails, faulted' \/ cut', SavedInv', TreeInv'
  PROVE  Sound'
<1>1. pc' \in {"idle", "flush"} BY DEF Fails
<1>2. PhaseInv' BY <1>1 DEF PhaseInv
<1>3. FailsOnlyOnFault' BY DEF FailsOnlyOnFault
<1> QED BY <1>1, <1>2, <1>3 DEF Sound, FilesInv

\* A step that goes on and fails nothing.
LEMMA GoesOn ==
  ASSUME FailsOnlyOnFault, Goes, UNCHANGED faulted, cut => cut', FilesInv' PROVE Sound'
<1>1. records' = records BY DEF Goes
<1>2. FailsOnlyOnFault' BY <1>1 DEF FailsOnlyOnFault
<1> QED BY <1>2 DEF Sound

LEMMA StockFiles == \A f \in Files : Stock[f] = {}
BY DEF Stock

LEMMA BackupKeeps == ASSUME CallInv, Sound, Backup PROVE Sound'
<1>0. pc = "backup" /\ kind # "hand" /\ SavedInv /\ TreeInv /\ FailsOnlyOnFault
  BY DEF Backup, CallInv, Sound, FilesInv
<1>1. CASE tmlBackup.made /\ Go("ops") /\ UNCHANGED <<deploying, faulted>>
  <2>1. Goes /\ pc' = "ops" /\ kind' = kind /\ UNCHANGED <<tree, src, tmlBackup, opsBackup, cut, faulted>> /\ tmlBackup.made
    BY <1>1 DEF Goes, Go, Goto, Kept, deploying, DeployPlaces
  <2>2. SavedInv' BY <2>1, <1>0 DEF SavedInv
  <2>3. TreeInv' BY <2>1, <1>0 DEF TreeInv
  <2>4. PhaseInv' BY <2>1 DEF PhaseInv
  <2> QED BY <2>1, <2>2, <2>3, <2>4, <1>0, GoesOn DEF FilesInv
<1>2. ASSUME ~tmlBackup.made, NEW fs, fs \subseteq TmlFiles \cup {"route"}, SaveTml(fs), kind' = kind,
             "route" \in fs => TmlFiles \subseteq fs, pc' \in {"ops", "idle", "flush"}
      PROVE  SavedInv' /\ TreeInv' /\ (cut' <=> cut \/ "route" \notin fs)
  <2>1. /\ tmlBackup' = [made |-> TRUE, files |-> [f \in fs |-> tree[f]]] /\ cut' = (cut \/ "route" \notin fs)
        /\ UNCHANGED <<tree, src, opsBackup>>
    BY <1>2 DEF SaveTml, Saved
  <2>2. tree = Stock /\ ~opsBackup.made BY <1>0, <1>2 DEF SavedInv
  <2>3. tmlBackup'.made /\ DOMAIN tmlBackup'.files = fs /\ \A f \in fs : tmlBackup'.files[f] = {}
    BY <2>1, <2>2, <1>2, StockFiles DEF Files, OpsFiles
  <2>5. cut' <=> cut \/ "route" \notin fs BY <2>1
  <2>6. UNCHANGED <<tree, src, opsBackup>> BY <2>1
  <2>7. SavedInv'
    BY <2>2, <2>3, <2>5, <2>6, <1>0, <1>2 DEF SavedInv
  <2>8. TreeInv' BY <2>6, <1>0, <1>2 DEF TreeInv
  <2> QED BY <2>5, <2>7, <2>8
<1>3. CASE ~tmlBackup.made /\ SaveTml(Range(StockOrder)) /\ UNCHANGED faulted /\ Go("ops")
  <2>1. Goes /\ pc' = "ops" /\ kind' = kind BY <1>3 DEF Goes, Go, Goto, Kept, DeployPlaces
  <2>2. SavedInv' /\ TreeInv' /\ (cut' <=> cut \/ "route" \notin Range(StockOrder))
    BY <2>1, <1>2, <1>3, BothCopies
  <2>3. PhaseInv' BY <2>1 DEF PhaseInv
  <2> QED BY <2>1, <2>2, <2>3, <1>0, <1>3, GoesOn DEF FilesInv
<1>4. ASSUME ~tmlBackup.made, NEW fs \in Begun(StockOrder), SaveTml(fs), faulted' = TRUE, Fail PROVE Sound'
  <2>1. Fails /\ pc' \in {"idle", "flush"} /\ kind' = kind BY <1>4 DEF Fails, Fail, Goto, Kept
  <2>2. fs \subseteq TmlFiles /\ "route" \notin fs BY BothCopies DEF TmlFiles
  <2>3. SavedInv' /\ TreeInv' BY <2>1, <2>2, <1>2, <1>4
  <2> QED BY <2>1, <2>3, <1>4, EndsFailed
<1> QED BY <1>1, <1>3, <1>4 DEF Backup, CopyFiles

LEMMA OpsBackupKeeps == ASSUME CallInv, Sound, OpsBackup PROVE Sound'
<1>0. pc = "ops" /\ kind # "hand" /\ SavedInv /\ TreeInv /\ FailsOnlyOnFault /\ tmlBackup.made
  BY DEF OpsBackup, CallInv, Sound, FilesInv, SavedInv
<1>1. CASE opsBackup.made /\ Go("restore") /\ UNCHANGED <<deploying, faulted>>
  <2>1. Goes /\ pc' = "restore" /\ kind' = kind /\ UNCHANGED <<tree, src, tmlBackup, opsBackup, cut, faulted>> /\ opsBackup.made
    BY <1>1 DEF Goes, Go, Goto, Kept, deploying, DeployPlaces
  <2>2. SavedInv' BY <2>1, <1>0 DEF SavedInv
  <2>3. TreeInv' BY <2>1, <1>0 DEF TreeInv
  <2>4. PhaseInv' BY <2>1 DEF PhaseInv
  <2> QED BY <2>1, <2>2, <2>3, <2>4, <1>0, GoesOn DEF FilesInv
<1>2. ~opsBackup.made => tree = Stock /\ ~Dirty
  <2>1. ~opsBackup.made => tree = Stock BY <1>0 DEF SavedInv
  <2> QED BY <2>1, StockFiles DEF Dirty, Files, OpsFiles
<1>3. ASSUME ~opsBackup.made, NEW fs, fs \subseteq OpsFiles, SaveOps(fs), kind' = kind,
             fs # {} => "attn" \in fs, "qkvr" \in fs => fs = OpsFiles, pc' \in {"restore", "idle", "flush"},
             pc' = "restore" => fs # {}
      PROVE  SavedInv' /\ TreeInv' /\ (cut' <=> cut \/ fs # OpsFiles)
  <2>1. /\ opsBackup' = [[made |-> TRUE, files |-> [f \in fs |-> tree[f]]] EXCEPT !.made = fs # {}]
        /\ cut' = (cut \/ fs # OpsFiles) /\ UNCHANGED <<tree, src, tmlBackup>>
    BY <1>3 DEF SaveOps, Saved
  <2>2. (opsBackup'.made <=> fs # {}) /\ opsBackup'.files = [f \in fs |-> tree[f]]
    BY <2>1
  <2>3. DOMAIN opsBackup'.files = fs /\ \A f \in fs : opsBackup'.files[f] = {}
    BY <2>2, <1>2, <1>3, StockFiles DEF Files
  <2>5. cut' <=> cut \/ fs # OpsFiles BY <2>1
  <2>6. UNCHANGED <<tree, src, tmlBackup>> BY <2>1
  <2>8. "attn" \in OpsFiles /\ "route" \in OpsFiles /\ "qkvr" \in OpsFiles BY DEF OpsFiles
  <2>7. SavedInv'
    BY <2>2, <2>3, <2>5, <2>6, <2>8, <1>0, <1>2, <1>3 DEF SavedInv
  <2>9. TreeInv' BY <2>6, <1>0, <1>3 DEF TreeInv
  <2> QED BY <2>5, <2>7, <2>9
<1>4. CASE ~opsBackup.made /\ SaveOps(Range(OpsOrder)) /\ UNCHANGED faulted /\ Go("restore")
  <2>1. Goes /\ pc' = "restore" /\ kind' = kind BY <1>4 DEF Goes, Go, Goto, Kept, DeployPlaces
  <2>4. "attn" \in OpsFiles BY DEF OpsFiles
  <2>2. SavedInv' /\ TreeInv' /\ (cut' <=> cut \/ Range(OpsOrder) # OpsFiles)
    BY <2>1, <2>4, <1>3, <1>4, OpsCopies
  <2>3. PhaseInv' BY <2>1 DEF PhaseInv
  <2> QED BY <2>1, <2>2, <2>3, <1>0, <1>4, GoesOn DEF FilesInv
<1>5. ASSUME ~opsBackup.made, NEW fs \in Begun(OpsOrder), SaveOps(fs), faulted' = TRUE, Fail PROVE Sound'
  <2>1. Fails /\ pc' \in {"idle", "flush"} /\ kind' = kind BY <1>5 DEF Fails, Fail, Goto, Kept
  <2>2. fs \subseteq OpsFiles /\ "qkvr" \notin fs /\ (fs # {} => "attn" \in fs)
    <3>1. fs \subseteq {"attn", "route"} /\ (fs # {} => "attn" \in fs) BY OpsCopies
    <3> QED BY <3>1 DEF OpsFiles
  <2>3. SavedInv' /\ TreeInv' BY <2>1, <2>2, <1>3, <1>5
  <2> QED BY <2>1, <2>3, <1>5, EndsFailed
<1> QED BY <1>1, <1>2, <1>4, <1>5 DEF OpsBackup, CopyFiles

\* A restored file is stock; the others stay.
LEMMA BackIs ==
  ASSUME NEW backup, NEW fs, \A f \in DOMAIN backup.files : backup.files[f] = {}, tree' = Back(backup, fs), tree \in Tree
  PROVE  /\ \A f \in Files : tree'[f] = (IF f \in fs \cap DOMAIN backup.files THEN {} ELSE tree[f])
         /\ tree' \in Tree
<1>1. \A f \in Files : tree'[f] = (IF f \in fs \cap DOMAIN backup.files THEN {} ELSE tree[f]) BY DEF Back
<1>2. tree' = [f \in Files |-> IF f \in fs \cap DOMAIN backup.files THEN {} ELSE tree[f]] BY DEF Back
<1>3. \A f \in Files : tree[f] \in SUBSET (Scripts \cup {"ours"}) BY DEF Tree
<1>4. tree' \in Tree BY <1>2, <1>3 DEF Tree
<1> QED BY <1>1, <1>4

LEMMA AllFiles == Files = {"fwd", "sm90", "iface", "attn", "route", "qkvr"} /\ TmlFiles \subseteq Files /\ OpsFiles \subseteq Files
BY DEF Files, TmlFiles, OpsFiles

LEMMA RestoreTmlKeeps ==
  ASSUME SavedInv, TreeInv, kind # "hand", opsBackup.made, NEW fs, fs \subseteq TmlFiles \cup {"route"}, RestoreTml(fs), kind' = kind,
         pc' # "ops"
  PROVE  /\ SavedInv' /\ TreeInv' /\ UNCHANGED <<cut, src>>
         /\ \A f \in Files : tree'[f] = (IF f \in fs \cap DOMAIN tmlBackup.files THEN {} ELSE tree[f])
<1>1. tree' = Back(tmlBackup, fs) /\ UNCHANGED <<src, tmlBackup, opsBackup, cut>> BY DEF RestoreTml
<1>2. tree' \in Tree /\ \A f \in Files : tree'[f] = (IF f \in fs \cap DOMAIN tmlBackup.files THEN {} ELSE tree[f])
  BY <1>1, BackIs DEF SavedInv, TreeInv
<1>3. \A f \in Files : tree'[f] = tree[f] \/ tree'[f] = {} BY <1>2
<1>4. tree'["qkvr"] = tree["qkvr"] BY <1>2, AllFiles DEF TmlFiles
<1>5. Shape(tree') BY <1>3, <1>4, AllFiles DEF Shape, TreeInv
<1>6. TreeInv' BY <1>1, <1>2, <1>3, <1>5, AllFiles DEF TreeInv
<1>7. SavedInv' BY <1>1 DEF SavedInv
<1> QED BY <1>1, <1>2, <1>6, <1>7

LEMMA RestoreKeeps == ASSUME CallInv, Sound, Restore PROVE Sound'
<1>0. /\ pc = "restore" /\ kind \in {"bench", "validate"} /\ SavedInv /\ TreeInv /\ FailsOnlyOnFault /\ opsBackup.made /\ tmlBackup.made
      /\ request \in (IF kind = "bench" THEN Builds ELSE PatchSets)
  BY DEF Restore, CallInv, Sound, FilesInv, SavedInv
<1>1. CASE kind = "validate" /\ RestoreTml(Range(TmlOrder)) /\ UNCHANGED faulted /\ Go("restoreOps")
  <2>1. Goes /\ pc' = "restoreOps" /\ kind' = kind BY <1>1 DEF Goes, Go, Goto, Kept, DeployPlaces
  <2>2. SavedInv' /\ TreeInv' /\ cut' = cut BY <1>0, <1>1, <2>1, TmlCopies, RestoreTmlKeeps
  <2>3. PhaseInv' BY <2>1, <1>1 DEF PhaseInv
  <2> QED BY <2>1, <2>2, <2>3, <1>0, <1>1, GoesOn DEF FilesInv
<1>2. ASSUME NEW fs, fs \subseteq TmlFiles, RestoreTml(fs), faulted' \/ cut, Fail PROVE Sound'
  <2>1. Fails /\ pc' \in {"idle", "flush"} /\ kind' = kind BY <1>2 DEF Fails, Fail, Goto, Kept
  <2>2. SavedInv' /\ TreeInv' /\ cut' = cut BY <1>0, <1>2, <2>1, RestoreTmlKeeps
  <2> QED BY <2>1, <2>2, <1>2, EndsFailed
<1>3. ASSUME kind = "bench", "route" \in DOMAIN tmlBackup.files, RestoreTml(Range(StockOrder)), UNCHANGED faulted,
             Go(IF request = "ours" THEN "overlay" ELSE "check")
      PROVE  Sound'
  <2>1. Goes /\ pc' = (IF request = "ours" THEN "overlay" ELSE "check") /\ kind' = kind /\ request' = request
    BY <1>3 DEF Goes, Go, Goto, Kept, DeployPlaces
  <2>2. /\ SavedInv' /\ TreeInv' /\ cut' = cut
        /\ \A f \in Files : tree'[f] = (IF f \in (TmlFiles \cup {"route"}) \cap DOMAIN tmlBackup.files THEN {} ELSE tree[f])
    BY <1>0, <1>3, <2>1, BothCopies, RestoreTmlKeeps
  <2>3. TmlFiles \cup {"route"} \subseteq DOMAIN tmlBackup.files BY <1>0, <1>3 DEF SavedInv
  <2>4. tree["attn"] = {} /\ tree["qkvr"] = {} BY <1>0, <1>3 DEF TreeInv
  <2>5. \A f \in Files : tree'[f] = {} BY <2>2, <2>3, <2>4, AllFiles DEF TmlFiles
  <2>6. request = "ours" \/ request = "stock" BY <1>0, <1>3 DEF Builds
  <2>7. CASE request = "ours"
    <3>1. Restored' BY <2>5, AllFiles DEF Restored
    <3>2. PhaseInv' BY <2>1, <2>7, <3>1 DEF PhaseInv
    <3> QED BY <2>1, <2>2, <3>2, <1>0, <1>3, GoesOn DEF FilesInv
  <2>8. CASE request = "stock"
    <3>1. tree' = Ordered("stock")
      <4>1. \A f \in Files : Ordered("stock")[f] = {} BY DEF Ordered
      <4>2. tree' \in Tree BY <2>2 DEF TreeInv
      <4>3. DOMAIN Ordered("stock") = Files /\ Ordered("stock") = [f \in Files |-> Ordered("stock")[f]] BY DEF Ordered
      <4>4. tree' = [f \in Files |-> tree'[f]] BY <4>2 DEF Tree
      <4> QED BY <4>1, <4>3, <4>4, <2>5
    <3>2. \A f \in TmlFiles : tree'[f] = Ordered("stock")[f] BY <3>1
    <3>3. PhaseInv' BY <2>1, <2>8, <3>1, <3>2, <1>3 DEF PhaseInv
    <3> QED BY <2>1, <2>2, <3>3, <1>0, <1>3, GoesOn DEF FilesInv
  <2> QED BY <2>6, <2>7, <2>8
<1>4. ASSUME kind = "bench", "route" \notin DOMAIN tmlBackup.files PROVE cut
  BY <1>0, <1>4 DEF SavedInv
<1>5. CASE kind = "validate" /\ CopyFiles(TmlOrder, RestoreTml, "restoreOps")
  BY <1>5, <1>1, <1>2, TmlCopies DEF CopyFiles
<1>6. CASE kind = "bench" /\ "route" \in DOMAIN tmlBackup.files /\ CopyFiles(StockOrder, RestoreTml, IF request = "ours" THEN "overlay" ELSE "check")
  BY <1>6, <1>3, <1>2, BothCopies DEF CopyFiles
<1>7. CASE kind = "bench" /\ "route" \notin DOMAIN tmlBackup.files /\ RestoreTml(TmlFiles) /\ UNCHANGED faulted /\ Fail
  BY <1>7, <1>2, <1>4
<1> QED BY <1>0, <1>5, <1>6, <1>7 DEF Restore

LEMMA RestoreOpsKeeps ==
  ASSUME SavedInv, TreeInv, kind = "validate", opsBackup.made, NEW fs, fs \subseteq OpsFiles, "qkvr" \in fs => "route" \in fs,
         RestoreOps(fs), kind' = kind, pc' # "ops"
  PROVE  /\ SavedInv' /\ TreeInv' /\ UNCHANGED <<cut, src>>
         /\ \A f \in Files : tree'[f] = (IF f \in fs \cap DOMAIN opsBackup.files THEN {} ELSE tree[f])
<1>1. tree' = Back(opsBackup, fs) /\ UNCHANGED <<src, tmlBackup, opsBackup, cut>> BY DEF RestoreOps
<1>2. tree' \in Tree /\ \A f \in Files : tree'[f] = (IF f \in fs \cap DOMAIN opsBackup.files THEN {} ELSE tree[f])
  BY <1>1, BackIs DEF SavedInv, TreeInv
<1>3. \A f \in Files : tree'[f] = tree[f] \/ tree'[f] = {} BY <1>2
<1>4. tree'["qkvr"] = tree["qkvr"] \/ tree'["route"] = {} BY <1>2, AllFiles DEF SavedInv
<1>5. Shape(tree') BY <1>3, <1>4, AllFiles DEF Shape, TreeInv
<1>6. TreeInv' BY <1>1, <1>2, <1>3, <1>5, AllFiles DEF TreeInv
<1>7. SavedInv' BY <1>1 DEF SavedInv
<1> QED BY <1>1, <1>2, <1>6, <1>7

LEMMA RestoreNvidiaKeeps == ASSUME CallInv, Sound, RestoreNvidia PROVE Sound'
<1>0. /\ pc = "restoreOps" /\ kind = "validate" /\ SavedInv /\ TreeInv /\ FailsOnlyOnFault /\ opsBackup.made /\ request \in PatchSets
  BY DEF RestoreNvidia, CallInv, Sound, FilesInv, SavedInv, PhaseInv
<1>1. CASE RestoreOps(Range(OpsOrder)) /\ UNCHANGED faulted /\ Go("overlay")
  <2>1. Goes /\ pc' = "overlay" /\ kind' = kind /\ request' = request BY <1>1 DEF Goes, Go, Goto, Kept, DeployPlaces
  <2>2. /\ SavedInv' /\ TreeInv' /\ cut' = cut
        /\ \A f \in Files : tree'[f] = (IF f \in OpsFiles \cap DOMAIN opsBackup.files THEN {} ELSE tree[f])
    <3>1. "route" \in OpsFiles BY DEF OpsFiles
    <3> QED BY <3>1, <1>0, <1>1, <2>1, OpsCopies, RestoreOpsKeeps
  <2>3. "attn" \in DOMAIN opsBackup.files /\ (~cut => {"route", "qkvr"} \subseteq DOMAIN opsBackup.files)
    BY <1>0 DEF SavedInv
  <2>4. Restored' BY <2>1, <2>2, <2>3, <1>0, AllFiles DEF Restored, OpsFiles
  <2>5. request # "stock" BY <1>0 DEF PatchSets
  <2>6. PhaseInv' BY <2>1, <2>4, <2>5 DEF PhaseInv
  <2> QED BY <2>1, <2>2, <2>6, <1>0, <1>1, GoesOn DEF FilesInv
<1>2. ASSUME NEW fs \in Begun(OpsOrder), RestoreOps(fs), faulted' = TRUE, Fail PROVE Sound'
  <2>1. Fails /\ pc' \in {"idle", "flush"} /\ kind' = kind BY <1>2 DEF Fails, Fail, Goto, Kept
  <2>2. fs \subseteq {"attn", "route"} BY OpsCopies
  <2>3. fs \subseteq OpsFiles /\ "qkvr" \notin fs BY <2>2 DEF OpsFiles
  <2>4. SavedInv' /\ TreeInv' BY <1>0, <1>2, <2>1, <2>3, RestoreOpsKeeps
  <2> QED BY <2>1, <2>4, <1>2, EndsFailed
<1> QED BY <1>0, <1>1, <1>2 DEF RestoreNvidia, CopyFiles

LEMMA OverlayKeeps == ASSUME CallInv, Sound, OverlayOurs PROVE Sound'
<1>0. /\ pc \in {"overlay", "mirror"} /\ kind \in {"bench", "validate"} /\ SavedInv /\ TreeInv /\ PhaseInv /\ FailsOnlyOnFault /\ opsBackup.made
  BY DEF OverlayOurs, CallInv, Sound, FilesInv, SavedInv
<1>1. ASSUME NEW fs, fs \subseteq TmlFiles, OverlayFiles(fs), kind' = kind, pc' # "ops"
      PROVE  /\ SavedInv' /\ TreeInv' /\ UNCHANGED <<cut, src>>
             /\ \A f \in Files : tree'[f] = (IF f \in fs THEN {"ours"} ELSE tree[f])
  <2>1. tree' = [f \in Files |-> IF f \in fs THEN {"ours"} ELSE tree[f]] /\ UNCHANGED <<src, tmlBackup, opsBackup, cut>>
    BY <1>1 DEF OverlayFiles
  <2>2. \A f \in Files : tree'[f] = (IF f \in fs THEN {"ours"} ELSE tree[f]) BY <2>1
  <2>3. \A f \in Files : tree[f] \in SUBSET (Scripts \cup {"ours"}) BY <1>0 DEF TreeInv, Tree
  <2>4. tree' \in Tree BY <2>1, <2>3 DEF Tree
  <2>5. UNCHANGED <<tree["attn"], tree["route"], tree["qkvr"]>>
    BY <2>2, <1>1, AllFiles DEF TmlFiles
  <2>6. \A f \in TmlFiles : tree'[f] = tree[f] \/ tree'[f] = {"ours"} BY <2>2, AllFiles
  <2>7. Shape(tree') BY <2>5, <2>6, <1>0 DEF Shape, TreeInv, TmlFiles
  <2>8. TreeInv' BY <2>1, <2>4, <2>5, <2>6, <2>7, <1>0, <1>1 DEF TreeInv, TmlFiles
  <2>9. SavedInv' BY <2>1, <1>0, <1>1 DEF SavedInv
  <2> QED BY <2>1, <2>2, <2>8, <2>9
<1>2. ASSUME NEW fs, fs \subseteq TmlFiles, Mirror(fs), kind' = kind, pc' # "ops"
      PROVE  /\ SavedInv' /\ TreeInv' /\ UNCHANGED <<cut, tree>>
             /\ \A f \in TmlFiles : src'[f] = (IF f \in fs THEN {"ours"} ELSE src[f])
  <2>1. src' = [f \in TmlFiles |-> IF f \in fs THEN {"ours"} ELSE src[f]] /\ UNCHANGED <<tree, tmlBackup, opsBackup, cut>>
    BY <1>2 DEF Mirror
  <2>2. \A f \in TmlFiles : src'[f] = (IF f \in fs THEN {"ours"} ELSE src[f]) BY <2>1
  <2>3. \A f \in TmlFiles : src[f] \in SUBSET (Scripts \cup {"ours"}) BY <1>0 DEF TreeInv
  <2>4. src' \in [TmlFiles -> SUBSET (Scripts \cup {"ours"})] BY <2>1, <2>3
  <2>5. \A f \in TmlFiles : src'[f] = src[f] \/ src'[f] = {"ours"} BY <2>2
  <2>6. TreeInv' BY <2>1, <2>4, <2>5, <1>0, <1>2 DEF TreeInv, TmlFiles
  <2>7. SavedInv' BY <2>1, <1>0, <1>2 DEF SavedInv
  <2> QED BY <2>1, <2>2, <2>6, <2>7
<1>3. CASE pc = "overlay" /\ OverlayFiles(Range(TmlOrder)) /\ UNCHANGED faulted /\ Go(IF SameTree \/ kind = "bench" THEN "patch" ELSE "mirror")
  <2>1. Goes /\ pc' = (IF SameTree \/ kind = "bench" THEN "patch" ELSE "mirror") /\ kind' = kind /\ request' = request
    BY <1>3 DEF Goes, Go, Goto, Kept, DeployPlaces
  <2>2. /\ SavedInv' /\ TreeInv' /\ cut' = cut
        /\ \A f \in Files : tree'[f] = (IF f \in TmlFiles THEN {"ours"} ELSE tree[f])
    BY <2>1, <1>1, <1>3, TmlCopies
  <2>3. \A f \in TmlFiles : tree'[f] = {"ours"} BY <2>2, AllFiles
  <2>4. Restored /\ request # "stock" BY <1>0, <1>3 DEF PhaseInv
  <2>5. Restored' BY <2>1, <2>2, <2>4, AllFiles DEF Restored, TmlFiles
  <2>6. PhaseInv' BY <2>1, <2>3, <2>4, <2>5, <1>0 DEF PhaseInv
  <2> QED BY <2>1, <2>2, <2>6, <1>0, <1>3, GoesOn DEF FilesInv
<1>4. CASE pc = "mirror" /\ Mirror(Range(TmlOrder)) /\ UNCHANGED faulted /\ Go("patch")
  <2>1. Goes /\ pc' = "patch" /\ kind' = kind /\ request' = request BY <1>4 DEF Goes, Go, Goto, Kept, DeployPlaces
  <2>2. SavedInv' /\ TreeInv' /\ cut' = cut /\ tree' = tree /\ \A f \in TmlFiles : src'[f] = {"ours"}
    BY <2>1, <1>2, <1>4, TmlCopies
  <2>4. Restored /\ request # "stock" /\ \A f \in TmlFiles : tree[f] = {"ours"} BY <1>0, <1>4 DEF PhaseInv
  <2>5. Restored' BY <2>1, <2>2, <2>4 DEF Restored
  <2>6. PhaseInv' BY <2>1, <2>2, <2>4, <2>5 DEF PhaseInv
  <2> QED BY <2>1, <2>2, <2>6, <1>0, <1>4, GoesOn DEF FilesInv
<1>5. ASSUME NEW fs, fs \subseteq TmlFiles, OverlayFiles(fs) \/ Mirror(fs), faulted' = TRUE, Fail PROVE Sound'
  <2>1. Fails /\ pc' \in {"idle", "flush"} /\ kind' = kind BY <1>5 DEF Fails, Fail, Goto, Kept
  <2>2. SavedInv' /\ TreeInv' BY <2>1, <1>1, <1>2, <1>5
  <2> QED BY <2>1, <2>2, <1>5, EndsFailed
<1>6. CASE pc = "overlay" /\ CopyFiles(TmlOrder, OverlayFiles, IF SameTree \/ kind = "bench" THEN "patch" ELSE "mirror")
  BY <1>6, <1>3, <1>5, TmlCopies DEF CopyFiles
<1>7. CASE pc = "mirror" /\ CopyFiles(TmlOrder, Mirror, "patch")
  BY <1>7, <1>4, <1>5, TmlCopies DEF CopyFiles
<1> QED BY <1>6, <1>7 DEF OverlayOurs

-----------------------------------------------------------------------------
(* The patch step.                                                         *)

LEMMA TouchedFiles == Touched("u3") = {"qkvr"} /\ Touched("shear") = {"qkvr", "route", "attn", "iface"} /\ Touched("route") = {"route"}
<1>1. /\ DOMAIN U3 = 1 .. 1 /\ DOMAIN Route = 1 .. 1 /\ DOMAIN Shear = 1 .. 4 BY DEF U3, Route, Shear
<1>2. \A f, x, y : Edits(f, x, y).file = f BY DEF Edits
<1>3. U3[1].file = "qkvr" /\ Route[1].file = "route" /\ Shear[1].file = "qkvr" /\ Shear[2].file = "route" /\ Shear[3].file = "attn" /\ Shear[4].file = "iface"
  BY <1>2, FirstEdits, ShearEdits
<1>4. (\A i : i \in 1 .. 1 <=> i = 1) /\ (\A i : i \in 1 .. 4 <=> i = 1 \/ i = 2 \/ i = 3 \/ i = 4) OBVIOUS
<1>5. \A p, f : f \in Touched(p) <=> \E i \in DOMAIN Script[p] : Script[p][i].file = f BY DEF Touched
<1>6. \A f : f \in Touched("u3") <=> f = "qkvr" BY <1>1, <1>3, <1>4, <1>5, TheScripts
<1>7. \A f : f \in Touched("route") <=> f = "route" BY <1>1, <1>3, <1>4, <1>5, TheScripts
<1>8. \A f : f \in Touched("shear") <=> f \in {"qkvr", "route", "attn", "iface"} BY <1>1, <1>3, <1>4, <1>5, TheScripts
<1> QED BY <1>6, <1>7, <1>8

LEMMA OrderedIs ==
  /\ \A r : Ordered(r) = [f \in Files |-> Ordered(r)[f]]
  /\ \A r \in {"ours", "route", "none"} :
       /\ \A f \in TmlFiles : Ordered(r)[f] = {"ours"}
       /\ Ordered(r)["attn"] = {} /\ Ordered(r)["qkvr"] = {} /\ Ordered(r)["route"] = (IF r = "none" THEN {} ELSE {"route"})
  /\ LET o == Ordered("u3+shear")
     IN o["fwd"] = {"ours"} /\ o["sm90"] = {"ours"} /\ o["iface"] = {"ours", "shear"}
        /\ o["attn"] = {"shear"} /\ o["route"] = {"shear"} /\ o["qkvr"] = {"u3", "shear"}
<1>1. \A r : Ordered(r) = [f \in Files |-> Ordered(r)[f]] BY DEF Ordered
<1>2. \A r : \A f \in Files : Ordered(r)[f] =
         (IF f \in TmlFiles /\ r # "stock" THEN {"ours"} ELSE {})
       \cup (IF r = "u3+shear" THEN {p \in {"u3", "shear"} : f \in Touched(p)} ELSE {})
       \cup (IF r \in {"route", "ours"} /\ f = "route" THEN {"route"} ELSE {})
  BY DEF Ordered
<1>3. ASSUME NEW r \in {"ours", "route", "none"}
      PROVE  /\ \A f \in TmlFiles : Ordered(r)[f] = {"ours"}
             /\ Ordered(r)["attn"] = {} /\ Ordered(r)["qkvr"] = {} /\ Ordered(r)["route"] = (IF r = "none" THEN {} ELSE {"route"})
  BY <1>2, AllFiles DEF TmlFiles
<1>4. {p \in {"u3", "shear"} : "fwd" \in Touched(p)} = {} /\ {p \in {"u3", "shear"} : "sm90" \in Touched(p)} = {}
  BY TouchedFiles
<1>5. /\ {p \in {"u3", "shear"} : "iface" \in Touched(p)} = {"shear"} /\ {p \in {"u3", "shear"} : "attn" \in Touched(p)} = {"shear"}
      /\ {p \in {"u3", "shear"} : "route" \in Touched(p)} = {"shear"}
  BY TouchedFiles
<1>6. {p \in {"u3", "shear"} : "qkvr" \in Touched(p)} = {"u3", "shear"} BY TouchedFiles
<1>7. LET o == Ordered("u3+shear") IN o["fwd"] = {"ours"} /\ o["sm90"] = {"ours"} BY <1>2, <1>4, AllFiles DEF TmlFiles
<1>8. LET o == Ordered("u3+shear") IN o["iface"] = {"ours", "shear"} /\ o["attn"] = {"shear"} BY <1>2, <1>5, AllFiles DEF TmlFiles
<1>9. LET o == Ordered("u3+shear") IN o["route"] = {"shear"} /\ o["qkvr"] = {"u3", "shear"} BY <1>2, <1>5, <1>6, AllFiles DEF TmlFiles
<1> QED BY <1>1, <1>3, <1>7, <1>8, <1>9

\* The scripts run on the tree that holds our kernels.
LEMMA TargetIs ==
  ASSUME CallInv, Sound, pc = "patch"
  PROVE  /\ Target \in Tree /\ Shape(Target) /\ \A f \in OpsFiles : Target[f] = tree[f]
         /\ SameTree => \A f \in TmlFiles : Target[f] = tree[f]
         /\ ~SameTree => \A f \in TmlFiles : Target[f] = src[f]
         /\ kind = "validate" => \A f \in TmlFiles : Target[f] = {"ours"}
<1>1. TreeInv /\ PhaseInv /\ kind \in {"bench", "validate"} BY DEF Sound, FilesInv, CallInv
<1>2. Target = [f \in Files |-> IF SameTree \/ f \in OpsFiles THEN tree[f] ELSE src[f]] BY DEF Target
<1>3. SameTree \in BOOLEAN BY DeployAssumption
<1>4. TmlFiles \cap OpsFiles = {} BY DEF TmlFiles, OpsFiles
<1>5. \A f \in OpsFiles : Target[f] = tree[f] BY <1>2, AllFiles
<1>6. SameTree => \A f \in TmlFiles : Target[f] = tree[f] BY <1>2, AllFiles
<1>7. ~SameTree => \A f \in TmlFiles : Target[f] = src[f] BY <1>2, <1>4, AllFiles
<1>8. kind = "validate" => \A f \in TmlFiles : Target[f] = {"ours"} BY <1>1, <1>6, <1>7 DEF PhaseInv
<1>9. \A f \in Files : tree[f] \in SUBSET (Scripts \cup {"ours"}) BY <1>1 DEF TreeInv, Tree
<1>10. \A f \in TmlFiles : src[f] \in SUBSET (Scripts \cup {"ours"}) BY <1>1 DEF TreeInv
<1>11. \A f \in Files : f \in OpsFiles \/ f \in TmlFiles BY DEF Files
<1>12. Target \in Tree BY <1>2, <1>9, <1>10, <1>11 DEF Tree
<1>13. Shape(Target)
  <2>1. Shape(tree) /\ src["fwd"] \subseteq {"ours"} /\ src["sm90"] \subseteq {"ours"} /\ src["iface"] \subseteq {"ours", "shear"}
    BY <1>1 DEF TreeInv
  <2> QED BY <2>1, <1>3, <1>5, <1>6, <1>7 DEF Shape, TmlFiles, OpsFiles
<1> QED BY <1>5, <1>6, <1>7, <1>8, <1>12, <1>13

\* What the scripts write keeps the invariant.
LEMMA WriteKeeps ==
  ASSUME SavedInv, TreeInv, kind \in {"bench", "validate"}, opsBackup.made, NEW t \in Tree, Shape(t), Write(t), kind' = kind, pc' # "ops",
         kind = "bench" => t["attn"] = {} /\ t["qkvr"] = {} /\ t["route"] \subseteq {"route"} /\ (SameTree => t["iface"] = tree["iface"])
  PROVE  /\ SavedInv' /\ TreeInv' /\ cut' = cut
         /\ \A f \in OpsFiles : tree'[f] = t[f]
         /\ \A f \in TmlFiles : (SameTree => tree'[f] = t[f] /\ src'[f] = src[f]) /\ (~SameTree => tree'[f] = tree[f] /\ src'[f] = t[f])
<1>1. /\ tree' = [f \in Files |-> IF SameTree \/ f \in OpsFiles THEN t[f] ELSE tree[f]]
      /\ src' = (IF SameTree THEN src ELSE [f \in TmlFiles |-> t[f]])
      /\ UNCHANGED <<tmlBackup, opsBackup, cut>>
  BY DEF Write
<1>2. SameTree \in BOOLEAN BY DeployAssumption
<1>3. TmlFiles \cap OpsFiles = {} BY DEF TmlFiles, OpsFiles
<1>4. \A f \in OpsFiles : tree'[f] = t[f] BY <1>1, AllFiles
<1>5. \A f \in TmlFiles : tree'[f] = (IF SameTree THEN t[f] ELSE tree[f]) BY <1>1, <1>3, AllFiles
<1>6. \A f \in TmlFiles : src'[f] = (IF SameTree THEN src[f] ELSE t[f]) BY <1>1
<1>7. \A f \in Files : tree[f] \in SUBSET (Scripts \cup {"ours"}) /\ t[f] \in SUBSET (Scripts \cup {"ours"}) BY DEF TreeInv, Tree
<1>8. tree' \in Tree BY <1>1, <1>7 DEF Tree
<1>9. src' \in [TmlFiles -> SUBSET (Scripts \cup {"ours"})]
  <2>1. CASE SameTree BY <2>1, <1>1 DEF TreeInv
  <2>2. CASE ~SameTree BY <2>2, <1>1, <1>7, AllFiles
  <2> QED BY <2>1, <2>2, <1>2
<1>10. Shape(tree') BY <1>4, <1>5 DEF Shape, TreeInv, TmlFiles, OpsFiles
<1>11. src'["fwd"] \subseteq {"ours"} /\ src'["sm90"] \subseteq {"ours"} /\ src'["iface"] \subseteq {"ours", "shear"}
  BY <1>6 DEF Shape, TreeInv, TmlFiles
<1>12. kind = "bench" => tree'["attn"] = {} /\ tree'["qkvr"] = {} /\ tree'["route"] \subseteq {"route"} /\ tree'["iface"] \subseteq {"ours"}
  BY <1>4, <1>5, <1>2 DEF TreeInv, TmlFiles, OpsFiles
<1>13. TreeInv' BY <1>8, <1>9, <1>10, <1>11, <1>12 DEF TreeInv
<1>14. SavedInv' BY <1>1 DEF SavedInv
<1> QED BY <1>1, <1>2, <1>4, <1>5, <1>6, <1>13, <1>14

PatchDone == IF SameTree \/ kind = "bench" THEN "check" ELSE "copyback"

\* The patch step, spelled out for each number of scripts.
LEMMA PatchOfNone ==
  ASSUME Patch, request = "none" PROVE Write(Target) /\ UNCHANGED faulted /\ Go(PatchDone)
<1>1. ScriptsOf(request) = <<>> /\ Len(<<>>) = 0 /\ DOMAIN <<>> = {} BY DEF ScriptsOf
<1>2. After(<<>>, 1 - 1, Target) = Target /\ 0 + 1 - 1 = 0 BY DEF After
<1>3. After(<<>>, 0 + 1 - 1, Target) = Target BY DEF After
<1> QED BY <1>1, <1>2, <1>3 DEF Patch, PatchDone

LEMMA PatchOfOne ==
  ASSUME Patch, NEW p, ScriptsOf(request) = <<p>>
  PROVE  \/ Applies(p, Target) /\ Write(Finished(p, Target)) /\ UNCHANGED faulted /\ Go(PatchDone)
         \/ ~Applies(p, Target) /\ Write(Finished(p, Target)) /\ UNCHANGED faulted /\ Fail
         \/ \E n \in 0 .. Reach(p, Target) : Write(Patched(p, n, Target)) /\ faulted' = TRUE /\ Fail
<1> DEFINE ps == <<p>>
           At(i) == After(ps, i - 1, Target)
           Reached(i) == \A j \in 1 .. i - 1 : Applies(ps[j], At(j))
<1>1. Len(ps) = 1 /\ DOMAIN ps = {1} /\ ps[1] = p OBVIOUS
<1>2. At(1) = Target /\ At(1 + 1) = Finished(p, Target) BY <1>1 DEF After
<1>3. \/ /\ Reached(Len(ps) + 1) /\ Write(At(Len(ps) + 1)) /\ UNCHANGED faulted
         /\ Go(PatchDone)
      \/ \E i \in DOMAIN ps :
             /\ Reached(i) /\ Fail
             /\ \/ ~Applies(ps[i], At(i)) /\ Write(At(i + 1)) /\ UNCHANGED faulted
                \/ \E n \in 0 .. Reach(ps[i], At(i)) : Write(Patched(ps[i], n, At(i))) /\ faulted' = TRUE
  BY DEF Patch, PatchDone
<1>4. Reached(1 + 1) => Applies(p, Target)
  <2>1. 1 \in 1 .. 1 + 1 - 1 OBVIOUS
  <2> QED BY <2>1, <1>1, <1>2
<1> HIDE DEF ps, At, Reached
<1>5. CASE Reached(Len(ps) + 1) /\ Write(At(Len(ps) + 1)) /\ UNCHANGED faulted /\ Go(PatchDone)
  BY <1>5, <1>1, <1>2, <1>4
<1>6. CASE \E i \in DOMAIN ps :
             /\ Reached(i) /\ Fail
             /\ \/ ~Applies(ps[i], At(i)) /\ Write(At(i + 1)) /\ UNCHANGED faulted
                \/ \E n \in 0 .. Reach(ps[i], At(i)) : Write(Patched(ps[i], n, At(i))) /\ faulted' = TRUE
  BY <1>6, <1>1, <1>2
<1> QED BY <1>3, <1>5, <1>6

LEMMA PatchOfTwo ==
  ASSUME Patch, NEW p, NEW q, ScriptsOf(request) = <<p, q>>, NEW t1, t1 = Finished(p, Target)
  PROVE  \/ Applies(p, Target) /\ Applies(q, t1) /\ Write(Finished(q, t1)) /\ UNCHANGED faulted /\ Go(PatchDone)
         \/ ~Applies(p, Target) /\ Write(t1) /\ UNCHANGED faulted /\ Fail
         \/ Applies(p, Target) /\ ~Applies(q, t1) /\ Write(Finished(q, t1)) /\ UNCHANGED faulted /\ Fail
         \/ \E n \in 0 .. Reach(p, Target) : Write(Patched(p, n, Target)) /\ faulted' = TRUE /\ Fail
         \/ Applies(p, Target) /\ \E n \in 0 .. Reach(q, t1) : Write(Patched(q, n, t1)) /\ faulted' = TRUE /\ Fail
<1> DEFINE ps == <<p, q>>
           At(i) == After(ps, i - 1, Target)
           Reached(i) == \A j \in 1 .. i - 1 : Applies(ps[j], At(j))
<1>1. Len(ps) = 2 /\ DOMAIN ps = {1, 2} /\ ps[1] = p /\ ps[2] = q OBVIOUS
<1>2. At(1) = Target /\ At(1 + 1) = t1 /\ At(2) = t1 /\ At(2 + 1) = Finished(q, t1) BY <1>1 DEF After
<1>3. \/ /\ Reached(Len(ps) + 1) /\ Write(At(Len(ps) + 1)) /\ UNCHANGED faulted
         /\ Go(PatchDone)
      \/ \E i \in DOMAIN ps :
             /\ Reached(i) /\ Fail
             /\ \/ ~Applies(ps[i], At(i)) /\ Write(At(i + 1)) /\ UNCHANGED faulted
                \/ \E n \in 0 .. Reach(ps[i], At(i)) : Write(Patched(ps[i], n, At(i))) /\ faulted' = TRUE
  BY DEF Patch, PatchDone
<1>4. Reached(2) => Applies(p, Target)
  <2>1. 1 \in 1 .. 2 - 1 OBVIOUS
  <2> QED BY <2>1, <1>1, <1>2
<1>5. Reached(2 + 1) => Applies(p, Target) /\ Applies(q, t1)
  <2>1. 1 \in 1 .. 2 + 1 - 1 /\ 2 \in 1 .. 2 + 1 - 1 OBVIOUS
  <2> QED BY <2>1, <1>1, <1>2
<1> HIDE DEF ps, At, Reached
<1>6. CASE Reached(Len(ps) + 1) /\ Write(At(Len(ps) + 1)) /\ UNCHANGED faulted /\ Go(PatchDone)
  BY <1>6, <1>1, <1>2, <1>5
<1>7. ASSUME NEW i \in DOMAIN ps, Reached(i), Fail,
             \/ ~Applies(ps[i], At(i)) /\ Write(At(i + 1)) /\ UNCHANGED faulted
             \/ \E n \in 0 .. Reach(ps[i], At(i)) : Write(Patched(ps[i], n, At(i))) /\ faulted' = TRUE
      PROVE  \/ ~Applies(p, Target) /\ Write(t1) /\ UNCHANGED faulted /\ Fail
             \/ Applies(p, Target) /\ ~Applies(q, t1) /\ Write(Finished(q, t1)) /\ UNCHANGED faulted /\ Fail
             \/ \E n \in 0 .. Reach(p, Target) : Write(Patched(p, n, Target)) /\ faulted' = TRUE /\ Fail
             \/ Applies(p, Target) /\ \E n \in 0 .. Reach(q, t1) : Write(Patched(q, n, t1)) /\ faulted' = TRUE /\ Fail
  <2>1. CASE i = 1 BY <2>1, <1>7, <1>1, <1>2
  <2>2. CASE i = 2 BY <2>2, <1>7, <1>1, <1>2, <1>4
  <2> QED BY <2>1, <2>2, <1>1
<1> QED BY <1>3, <1>6, <1>7

LEMMA PatchKeeps == ASSUME CallInv, Sound, Patch PROVE Sound'
<1>0. /\ pc = "patch" /\ kind \in {"bench", "validate"} /\ SavedInv /\ TreeInv /\ PhaseInv /\ FailsOnlyOnFault /\ opsBackup.made
      /\ request \in (IF kind = "bench" THEN Builds ELSE PatchSets)
  BY DEF Patch, CallInv, Sound, FilesInv, SavedInv
<1>1. /\ Restored /\ request # "stock" /\ \A f \in TmlFiles : tree[f] = {"ours"}
      /\ kind = "validate" /\ ~SameTree => \A f \in TmlFiles : src[f] = {"ours"}
  BY <1>0 DEF PhaseInv
<1>2. /\ Target \in Tree /\ Shape(Target) /\ \A f \in OpsFiles : Target[f] = tree[f]
      /\ SameTree => \A f \in TmlFiles : Target[f] = tree[f]
      /\ ~SameTree => \A f \in TmlFiles : Target[f] = src[f]
      /\ kind = "validate" => \A f \in TmlFiles : Target[f] = {"ours"}
  BY <1>0, TargetIs
<1>3. SameTree \in BOOLEAN BY DeployAssumption
<1> DEFINE T == Target
<1>4. ASSUME Go(PatchDone)
      PROVE  /\ Goes /\ kind' = kind /\ request' = request /\ pc' = PatchDone /\ pc' \in {"check", "copyback"}
             /\ pc' = "copyback" <=> ~SameTree /\ kind = "validate"
  BY <1>4, <1>0, <1>3 DEF Goes, Go, Goto, Kept, DeployPlaces, PatchDone
<1>5. ASSUME NEW t \in Tree, Shape(t), Write(t), Fail, faulted' \/ cut,
             kind = "bench" => t["attn"] = {} /\ t["qkvr"] = {} /\ t["route"] \subseteq {"route"} /\ (SameTree => t["iface"] = tree["iface"])
      PROVE  Sound'
  <2>1. Fails /\ pc' \in {"idle", "flush"} /\ kind' = kind BY <1>5 DEF Fails, Fail, Goto, Kept
  <2>2. SavedInv' /\ TreeInv' /\ cut' = cut BY <1>0, <1>5, <2>1, WriteKeeps
  <2> QED BY <2>1, <2>2, <1>5, EndsFailed
<1>6. CASE request = "none"
  <2>1. Write(T) /\ UNCHANGED faulted /\ Go(PatchDone) BY <1>0, <1>6, PatchOfNone
  <2>2. kind = "validate" BY <1>0, <1>6 DEF Builds
  <2>3. /\ SavedInv' /\ TreeInv' /\ cut' = cut
        /\ \A f \in OpsFiles : tree'[f] = T[f]
        /\ \A f \in TmlFiles : (SameTree => tree'[f] = T[f] /\ src'[f] = src[f]) /\ (~SameTree => tree'[f] = tree[f] /\ src'[f] = T[f])
    BY <1>0, <1>2, <1>4, <2>1, <2>2, WriteKeeps
  <2>4. \A f \in TmlFiles : tree'[f] = Ordered("none")[f] /\ (~SameTree => src'[f] = Ordered("none")[f])
    BY <2>3, <2>2, <1>1, <1>2, <1>3, OrderedIs
  <2>5. tree'["attn"] = {} /\ (~cut => tree'["qkvr"] = {} /\ tree'["route"] = {})
    BY <2>3, <1>1, <1>2 DEF Restored, OpsFiles
  <2>6. Fused' /\ Routed' BY <2>5, <2>3, <1>4, <2>1, <1>6, OrderedIs DEF Fused, Routed
  <2>7. PhaseInv' BY <1>4, <2>1, <2>2, <2>4, <2>6, <1>6 DEF PhaseInv
  <2> QED BY <1>4, <2>1, <2>3, <2>7, <1>0, GoesOn DEF FilesInv
<1>7. CASE request \in {"route", "ours"}
  <2>1. ScriptsOf(request) = <<"route">> BY <1>7 DEF ScriptsOf
  <2>2. Finished("route", T) = Patched("route", 1, T) /\ Applies("route", T) /\ Reach("route", T) = 1 BY RouteRuns DEF Finished
  <2>3. ASSUME NEW n \in 0 .. 1
        PROVE  LET t == Patched("route", n, T)
               IN /\ t \in Tree /\ Shape(t) /\ t["fwd"] = T["fwd"] /\ t["sm90"] = T["sm90"] /\ t["iface"] = T["iface"] /\ t["attn"] = T["attn"]
                  /\ t["qkvr"] = T["qkvr"] /\ t["route"] \subseteq T["route"] \cup {"route"}
    <3>1. n \in 0 .. Len(Script["route"]) BY TheScripts, Lengths
    <3> QED BY <3>1, <1>2, ShapeKept
  <2>4. Patched("route", 1, T)["route"] = T["route"] \cup {"route"} BY FilesOfScripts, PatchedIs, AllFiles
  <2>5. kind = "bench" => T["attn"] = {} /\ T["qkvr"] = {} /\ T["route"] = {} /\ (SameTree => T["iface"] = tree["iface"])
    BY <1>1, <1>2 DEF Restored, OpsFiles, TmlFiles
  <2>6. CASE Write(Finished("route", T)) /\ UNCHANGED faulted /\ Go(PatchDone)
    <3> DEFINE t == Patched("route", 1, T)
    <3>1. /\ t \in Tree /\ Shape(t) /\ t["fwd"] = T["fwd"] /\ t["sm90"] = T["sm90"] /\ t["iface"] = T["iface"] /\ t["attn"] = T["attn"]
          /\ t["qkvr"] = T["qkvr"] /\ t["route"] = T["route"] \cup {"route"} /\ Write(t)
      BY <2>2, <2>3, <2>4, <2>6
    <3> HIDE DEF t, T
    <3>2. /\ SavedInv' /\ TreeInv' /\ cut' = cut
          /\ \A f \in OpsFiles : tree'[f] = t[f]
          /\ \A f \in TmlFiles : (SameTree => tree'[f] = t[f] /\ src'[f] = src[f]) /\ (~SameTree => tree'[f] = tree[f] /\ src'[f] = t[f])
      BY <1>0, <1>4, <2>5, <2>6, <3>1, WriteKeeps
    <3>3. \A f \in TmlFiles : tree'[f] = {"ours"}
      BY <3>1, <3>2, <1>1, <1>2, <1>3 DEF T, TmlFiles
    <3>4. kind = "validate" /\ ~SameTree => \A f \in TmlFiles : src'[f] = {"ours"}
      BY <3>1, <3>2, <1>1, <1>2 DEF T, TmlFiles
    <3>5. /\ tree'["attn"] = {} /\ "route" \in tree'["route"]
          /\ ~cut \/ kind = "bench" => tree'["qkvr"] = {} /\ tree'["route"] = {"route"}
      BY <3>1, <3>2, <1>1, <1>2 DEF Restored, OpsFiles, T
    <3>6. \A f \in TmlFiles : Ordered(request)[f] = {"ours"} BY <1>7, OrderedIs
    <3>7. Ordered(request)["attn"] = {} /\ Ordered(request)["qkvr"] = {} /\ Ordered(request)["route"] = {"route"} BY <1>7, OrderedIs
    <3>8. Fused' /\ Routed' BY <3>5, <3>7, <3>2, <1>4, <2>6, <1>7 DEF Fused, Routed
    <3>9. kind = "bench" => tree' = Ordered(request)
      <4> SUFFICES ASSUME kind = "bench" PROVE tree' = Ordered(request)
        OBVIOUS
      <4>1. \A f \in Files : tree'[f] = Ordered(request)[f] BY <3>3, <3>5, <3>6, <3>7, AllFiles DEF TmlFiles
      <4>2. tree' = [f \in Files |-> tree'[f]] BY <3>2 DEF TreeInv, Tree
      <4>3. Ordered(request) = [f \in Files |-> Ordered(request)[f]] BY OrderedIs
      <4> QED BY <4>1, <4>2, <4>3
    <3>10. PhaseInv' BY <1>4, <2>6, <3>3, <3>4, <3>6, <3>8, <3>9, <1>7 DEF PhaseInv
    <3> QED BY <1>4, <2>6, <3>2, <3>10, <1>0, GoesOn DEF FilesInv
  <2>7. ASSUME NEW n \in 0 .. 1, Write(Patched("route", n, T)), faulted' = TRUE, Fail PROVE Sound'
    BY <2>3, <2>5, <2>7, <1>5
  <2> QED BY <2>1, <2>2, <2>6, <2>7, PatchOfOne
<1>8. CASE request = "u3+shear"
  <2>1. ScriptsOf(request) = <<"u3", "shear">> BY <1>8 DEF ScriptsOf
  <2>2. kind = "validate" BY <1>0, <1>8 DEF Builds
  <2>3. PICK t1 : t1 = Finished("u3", T) OBVIOUS
  <2>4. Reach("u3", T) \in {0, 1} /\ t1 = Patched("u3", Reach("u3", T), T) BY <2>3, U3Runs DEF Finished
  <2>5. ASSUME NEW n \in 0 .. 1
        PROVE  LET t == Patched("u3", n, T)
               IN /\ t \in Tree /\ Shape(t) /\ t["fwd"] = T["fwd"] /\ t["sm90"] = T["sm90"] /\ t["iface"] = T["iface"] /\ t["attn"] = T["attn"]
    <3>1. n \in 0 .. Len(Script["u3"]) BY TheScripts, Lengths
    <3> QED BY <3>1, <1>2, ShapeKept
  <2>6. t1 \in Tree /\ Shape(t1) /\ t1["fwd"] = T["fwd"] /\ t1["sm90"] = T["sm90"] /\ t1["iface"] = T["iface"] /\ t1["attn"] = T["attn"]
    BY <2>4, <2>5
  <2>7. T["fwd"] = {"ours"} /\ T["sm90"] = {"ours"} /\ T["iface"] = {"ours"} BY <2>2, <1>2 DEF TmlFiles
  <2>8. Reach("shear", t1) = 4 /\ Applies("shear", t1) BY <2>6, <2>7, ShearRuns
  <2>9. ASSUME NEW n \in 0 .. 4 PROVE Patched("shear", n, t1) \in Tree /\ Shape(Patched("shear", n, t1))
    <3>1. n \in 0 .. Len(Script["shear"]) BY TheScripts, Lengths
    <3> QED BY <3>1, <2>6, ShapeKept
  <2>10. CASE ~Applies("u3", T) /\ Write(t1) /\ UNCHANGED faulted /\ Fail
    <3>1. "shear" \in T["qkvr"] BY <2>10, U3Runs
    <3>2. cut BY <3>1, <1>1, <1>2 DEF Restored, OpsFiles
    <3> QED BY <2>10, <3>2, <2>2, <2>6, <1>5
  <2>11. ASSUME NEW n \in 0 .. Reach("u3", T), Write(Patched("u3", n, T)), faulted' = TRUE, Fail PROVE Sound'
    <3>1. n \in 0 .. 1 BY <2>4
    <3> QED BY <2>11, <3>1, <2>2, <2>5, <1>5
  <2>12. ASSUME NEW n \in 0 .. 4, Write(Patched("shear", n, t1)), faulted' = TRUE, Fail PROVE Sound'
    BY <2>12, <2>2, <2>9, <1>5
  <2>13. CASE Applies("u3", T) /\ Write(Finished("shear", t1)) /\ UNCHANGED faulted /\ Go(PatchDone)
    <3>1. "shear" \notin T["qkvr"] /\ Reach("u3", T) = 1 BY <2>13, U3Runs
    <3>2. t1 = Patched("u3", 1, T) BY <2>4, <3>1
    <3>3. t1["qkvr"] = T["qkvr"] \cup {"u3"} /\ t1["route"] = T["route"] BY <3>2, FilesOfScripts, PatchedIs, AllFiles
    <3> DEFINE t == Patched("shear", 4, t1)
    <3>4. Finished("shear", t1) = t BY <2>8 DEF Finished
    <3>5. /\ t["qkvr"] = t1["qkvr"] \cup {"shear"} /\ t["route"] = t1["route"] \cup {"shear"} /\ t["attn"] = t1["attn"] \cup {"shear"}
          /\ t["iface"] = t1["iface"] \cup {"shear"} /\ t["fwd"] = t1["fwd"] /\ t["sm90"] = t1["sm90"]
      <4>1. FirstFiles("shear", 4) = {"qkvr", "route", "attn", "iface"} BY FilesOfScripts
      <4>2. /\ \A f \in Files \cap FirstFiles("shear", 4) : t[f] = t1[f] \cup {"shear"}
            /\ \A f \in Files \ FirstFiles("shear", 4) : t[f] = t1[f]
        BY PatchedIs
      <4> HIDE DEF t
      <4> QED BY <4>1, <4>2, AllFiles
    <3>6. t \in Tree /\ Shape(t) BY <2>9
    <3>7. Write(t) BY <2>13, <3>4
    <3> HIDE DEF t, T
    <3>8. /\ SavedInv' /\ TreeInv' /\ cut' = cut
          /\ \A f \in OpsFiles : tree'[f] = t[f]
          /\ \A f \in TmlFiles : (SameTree => tree'[f] = t[f] /\ src'[f] = src[f]) /\ (~SameTree => tree'[f] = tree[f] /\ src'[f] = t[f])
      BY <1>0, <1>4, <2>13, <2>2, <3>6, <3>7, WriteKeeps
    <3>9. T["attn"] = {} /\ (~cut => T["route"] = {}) /\ T["qkvr"] \subseteq {"u3"}
      BY <3>1, <1>1, <1>2 DEF Restored, OpsFiles, Shape, T
    <3>10. /\ t["attn"] = {"shear"} /\ t["qkvr"] = {"u3", "shear"} /\ "shear" \in t["route"] /\ (~cut => t["route"] = {"shear"})
           /\ t["fwd"] = {"ours"} /\ t["sm90"] = {"ours"} /\ t["iface"] = {"ours", "shear"}
      BY <3>3, <3>5, <3>9, <2>6, <2>7
    <3>11. \A f \in TmlFiles : t[f] = Ordered("u3+shear")[f] BY <3>10, OrderedIs DEF TmlFiles
    <3>12. Fused' /\ Routed' BY <3>8, <3>10, <1>4, <2>13, <1>8 DEF Fused, Routed, OpsFiles
    <3>13. SameTree => \A f \in TmlFiles : tree'[f] = Ordered("u3+shear")[f] BY <3>8, <3>11
    <3>14. ~SameTree => \A f \in TmlFiles : src'[f] = Ordered("u3+shear")[f] BY <3>8, <3>11
    <3>15. PhaseInv' BY <1>4, <2>13, <2>2, <3>12, <3>13, <3>14, <1>8, <1>3 DEF PhaseInv
    <3> QED BY <1>4, <2>13, <3>8, <3>15, <1>0, GoesOn DEF FilesInv
  <2> QED BY <2>1, <2>3, <2>8, <2>10, <2>11, <2>12, <2>13, PatchOfTwo
<1>9. request \in {"none", "route", "ours", "u3+shear"} BY <1>0, <1>1 DEF Builds, PatchSets
<1> QED BY <1>6, <1>7, <1>8, <1>9

LEMMA CopyBackKeeps == ASSUME CallInv, Sound, CopyPatched PROVE Sound'
<1>0. /\ pc = "copyback" /\ kind = "validate" /\ ~SameTree /\ SavedInv /\ TreeInv /\ FailsOnlyOnFault /\ opsBackup.made
      /\ Fused /\ Routed /\ \A f \in TmlFiles : src[f] = Ordered(request)[f]
  BY DEF CopyPatched, CallInv, Sound, FilesInv, SavedInv, PhaseInv
<1>1. ASSUME NEW fs, fs \subseteq TmlFiles, CopyBack(fs), kind' = kind, pc' # "ops"
      PROVE  /\ SavedInv' /\ TreeInv' /\ UNCHANGED <<cut, src>>
             /\ \A f \in Files : tree'[f] = (IF f \in fs THEN src[f] ELSE tree[f])
  <2>1. tree' = [f \in Files |-> IF f \in fs THEN src[f] ELSE tree[f]] /\ UNCHANGED <<src, tmlBackup, opsBackup, cut>>
    BY <1>1 DEF CopyBack
  <2>2. \A f \in Files : tree'[f] = (IF f \in fs THEN src[f] ELSE tree[f]) BY <2>1
  <2>3. \A f \in Files : tree[f] \in SUBSET (Scripts \cup {"ours"}) BY <1>0 DEF TreeInv, Tree
  <2>4. \A f \in TmlFiles : src[f] \in SUBSET (Scripts \cup {"ours"}) BY <1>0 DEF TreeInv
  <2>5. tree' \in Tree BY <2>1, <2>3, <2>4, <1>1 DEF Tree
  <2>6. UNCHANGED <<tree["attn"], tree["route"], tree["qkvr"]>> BY <2>2, <1>1, AllFiles DEF TmlFiles
  <2>7. \A f \in TmlFiles : tree'[f] = tree[f] \/ tree'[f] = src[f] BY <2>2, AllFiles
  <2>8. Shape(tree') BY <2>6, <2>7, <1>0 DEF Shape, TreeInv, TmlFiles
  <2>9. TreeInv' BY <2>1, <2>5, <2>8, <1>0, <1>1 DEF TreeInv
  <2>10. SavedInv' BY <2>1, <1>0, <1>1 DEF SavedInv
  <2> QED BY <2>1, <2>2, <2>9, <2>10
<1>2. CASE CopyBack(Range(TmlOrder)) /\ UNCHANGED faulted /\ Go("check")
  <2>1. Goes /\ pc' = "check" /\ kind' = kind /\ request' = request BY <1>2 DEF Goes, Go, Goto, Kept, DeployPlaces
  <2>2. /\ SavedInv' /\ TreeInv' /\ cut' = cut
        /\ \A f \in Files : tree'[f] = (IF f \in TmlFiles THEN src[f] ELSE tree[f])
    BY <2>1, <1>1, <1>2, TmlCopies
  <2>3. \A f \in TmlFiles : tree'[f] = Ordered(request)[f] BY <2>2, <1>0, AllFiles
  <2>4. UNCHANGED <<tree["attn"], tree["route"], tree["qkvr"]>> BY <2>2, AllFiles DEF TmlFiles
  <2>5. Fused' /\ Routed' BY <2>1, <2>2, <2>4, <1>0 DEF Fused, Routed
  <2>6. PhaseInv' BY <2>1, <2>3, <2>5, <1>0 DEF PhaseInv
  <2> QED BY <2>1, <2>2, <2>6, <1>0, <1>2, GoesOn DEF FilesInv
<1>3. ASSUME NEW fs \in Begun(TmlOrder), CopyBack(fs), faulted' = TRUE, Fail PROVE Sound'
  <2>1. Fails /\ pc' \in {"idle", "flush"} /\ kind' = kind BY <1>3 DEF Fails, Fail, Goto, Kept
  <2>2. SavedInv' /\ TreeInv' BY <2>1, <1>1, <1>3, TmlCopies
  <2> QED BY <2>1, <2>2, <1>3, EndsFailed
<1> QED BY <1>2, <1>3 DEF CopyPatched, CopyFiles

\* What passes the check is what was asked for.
LEMMA CheckedIsExact ==
  ASSUME CallInv, Sound, pc = "check", CheckPasses
  PROVE  \/ tree = Ordered(request)
         \/ cut /\ request = "u3+shear" /\ tree = [Ordered(request) EXCEPT !["route"] = @ \cup {"route"}]
<1>0. /\ TreeInv /\ (kind = "bench" => tree = Ordered(request)) /\ (kind = "validate" => Fused /\ Routed)
      /\ \A f \in TmlFiles : tree[f] = Ordered(request)[f]
      /\ kind \in {"bench", "validate"} /\ (kind = "validate" => Shape(tree) /\ request \in PatchSets)
  BY DEF CallInv, Sound, FilesInv, PhaseInv, TreeInv
<1>1. tree = [f \in Files |-> tree[f]] BY <1>0 DEF TreeInv, Tree
<1>2. Ordered(request) = [f \in Files |-> Ordered(request)[f]] BY OrderedIs
<1>3. (\A f \in OpsFiles : tree[f] = Ordered(request)[f]) => tree = Ordered(request)
  BY <1>0, <1>1, <1>2 DEF Files
<1>4. CASE kind = "validate" /\ request \in {"none", "route"}
  <2>1. ~Dirty /\ (request = "none" => "route" \notin tree["route"]) /\ (request = "route" => "route" \in tree["route"])
    BY <1>4 DEF CheckPasses, Marked
  <2>2. tree["qkvr"] = {} BY <2>1, <1>0, <1>4 DEF Dirty, Shape
  <2>3. tree["route"] = (IF request = "none" THEN {} ELSE {"route"}) BY <2>1, <2>2, <1>0, <1>4 DEF Shape
  <2>4. tree["attn"] = {} BY <1>0, <1>4 DEF Routed
  <2>5. \A f \in OpsFiles : tree[f] = Ordered(request)[f] BY <2>2, <2>3, <2>4, <1>4, OrderedIs DEF OpsFiles
  <2> QED BY <2>5, <1>3
<1>5. CASE kind = "validate" /\ request = "u3+shear"
  <2>1. tree["attn"] = {"shear"} /\ tree["qkvr"] = {"u3", "shear"} /\ "shear" \in tree["route"] /\ (~cut => tree["route"] = {"shear"})
    BY <1>0, <1>5 DEF Fused
  <2>2. tree["route"] = {"shear"} \/ (cut /\ tree["route"] = {"shear"} \cup {"route"}) BY <2>1, <1>0, <1>5 DEF Shape
  <2>3. CASE tree["route"] = {"shear"}
    <3>1. \A f \in OpsFiles : tree[f] = Ordered(request)[f] BY <2>1, <2>3, <1>5, OrderedIs DEF OpsFiles
    <3> QED BY <3>1, <1>3
  <2>4. CASE cut /\ tree["route"] = {"shear"} \cup {"route"}
    <3> DEFINE gap == [Ordered(request) EXCEPT !["route"] = @ \cup {"route"}]
    <3>1. \A f \in OpsFiles : f # "route" => tree[f] = Ordered(request)[f] BY <2>1, <1>5, OrderedIs DEF OpsFiles
    <3>2. Ordered(request)["route"] = {"shear"} BY <1>5, OrderedIs
    <3>3. gap = [f \in Files |-> IF f = "route" THEN Ordered(request)[f] \cup {"route"} ELSE Ordered(request)[f]]
      BY <1>2
    <3>4. \A f \in Files : gap[f] = tree[f] BY <3>1, <3>2, <3>3, <2>4, <1>0 DEF Files
    <3> HIDE DEF gap
    <3>5. gap = [f \in Files |-> gap[f]] BY <3>3
    <3>6. tree = gap BY <1>1, <3>4, <3>5
    <3> QED BY <3>6, <2>4, <1>5 DEF gap
  <2> QED BY <2>2, <2>3, <2>4
<1> QED BY <1>0, <1>4, <1>5 DEF PatchSets

\* Nothing but a backup cut short makes the check fail.
LEMMA CheckFailsOnCut == ASSUME CallInv, Sound, pc = "check", ~cut PROVE CheckPasses
<1>0. /\ TreeInv /\ (kind = "bench" => tree = Ordered(request)) /\ (kind = "validate" => Fused /\ Routed)
      /\ SavedInv /\ \A f \in TmlFiles : tree[f] = Ordered(request)[f]
      /\ kind \in {"bench", "validate"} /\ request \in (IF kind = "bench" THEN Builds ELSE PatchSets)
  BY DEF CallInv, Sound, FilesInv, PhaseInv, TreeInv
<1>1. CASE kind = "bench" /\ request = "stock"
  <2>1. \A f \in Files : tree[f] = {} BY <1>0, <1>1 DEF Ordered
  <2>2. \A f \in DOMAIN tmlBackup.files : tmlBackup.files[f] = {} BY <1>0 DEF SavedInv
  <2>3. \A f \in TmlFiles \cap DOMAIN tmlBackup.files : tree[f] = tmlBackup.files[f] BY <2>1, <2>2, AllFiles
  <2>4. "route" \notin tree["route"] BY <2>1, AllFiles
  <2> QED BY <2>3, <2>4, <1>1 DEF CheckPasses, Marked
<1>2. CASE kind = "bench" /\ request = "ours"
  <2>1. (\A f \in TmlFiles : tree[f] = {"ours"}) /\ "route" \in tree["route"] BY <1>0, <1>2, OrderedIs
  <2> QED BY <2>1, <1>2 DEF CheckPasses, Marked
<1>3. CASE kind = "validate" /\ request = "u3+shear"
  <2>1. tree["iface"] = {"ours", "shear"} BY <1>0, <1>3, OrderedIs DEF TmlFiles
  <2>2. tree["qkvr"] = {"u3", "shear"} /\ "shear" \in tree["route"] BY <1>0, <1>3 DEF Fused
  <2>3. Marked("u3") /\ Marked("shear") BY <2>1, <2>2 DEF Marked
  <2> QED BY <2>3, <1>3 DEF CheckPasses
<1>4. CASE kind = "validate" /\ request \in {"route", "none"}
  <2>1. /\ tree["qkvr"] = {} /\ tree["route"] = Ordered(request)["route"] BY <1>0, <1>4 DEF Routed
  <2>2. tree["route"] = (IF request = "none" THEN {} ELSE {"route"}) BY <2>1, <1>4, OrderedIs
  <2>3. ~Dirty /\ (Marked("route") <=> request = "route") BY <2>1, <2>2, <1>4 DEF Dirty, Marked
  <2> QED BY <2>3, <1>4 DEF CheckPasses
<1> QED BY <1>0, <1>1, <1>2, <1>3, <1>4 DEF Builds, PatchSets

LEMMA CheckKeeps == ASSUME CallInv, Sound, Check PROVE Sound'
<1>0. pc = "check" /\ UNCHANGED <<tree, src, tmlBackup, opsBackup, cut, faulted>> /\ SavedInv /\ TreeInv /\ FailsOnlyOnFault /\ opsBackup.made
  BY DEF Check, deploying, Sound, FilesInv, SavedInv
<1>1. CASE CheckPasses /\ Go("ready")
  <2>1. Goes /\ pc' = "ready" /\ kind' = kind /\ request' = request BY <1>1 DEF Goes, Go, Goto, Kept, DeployPlaces
  <2>2. \/ tree = Ordered(request)
        \/ cut /\ request = "u3+shear" /\ tree = [Ordered(request) EXCEPT !["route"] = @ \cup {"route"}]
    BY <1>0, <1>1, CheckedIsExact
  <2>3. Ordered(request)' = Ordered(request) BY <2>1 DEF Ordered
  <2>4. PhaseInv' BY <2>1, <2>2, <2>3, <1>0 DEF PhaseInv
  <2>5. TreeInv' BY <1>0, <2>1 DEF TreeInv
  <2>6. SavedInv' BY <1>0, <2>1 DEF SavedInv
  <2> QED BY <2>1, <2>4, <2>5, <2>6, <1>0, GoesOn DEF FilesInv
<1>2. CASE ~CheckPasses /\ Fail
  <2>1. Fails /\ pc' \in {"idle", "flush"} /\ kind' = kind BY <1>2 DEF Fails, Fail, Goto, Kept
  <2>2. cut' BY <1>0, <1>2, CheckFailsOnCut
  <2>3. TreeInv' BY <1>0, <2>1 DEF TreeInv
  <2>4. SavedInv' BY <1>0, <2>1 DEF SavedInv
  <2> QED BY <2>1, <2>2, <2>3, <2>4, EndsFailed
<1> QED BY <1>1, <1>2 DEF Check

-----------------------------------------------------------------------------
(* The scripts by hand, on a checkout.                                     *)

LEMMA NoFileIsNoChange ==
  ASSUME NEW t \in Tree, NEW p PROVE Patched(p, 0, t) = t
<1>1. FirstFiles(p, 0) = {} BY FilesOfScripts
<1>2. \A f \in Files \ FirstFiles(p, 0) : Patched(p, 0, t)[f] = t[f] BY PatchedIs
<1>3. Patched(p, 0, t) = [f \in Files |-> Patched(p, 0, t)[f]] BY DEF Patched
<1>4. t = [f \in Files |-> t[f]] BY DEF Tree
<1> QED BY <1>1, <1>2, <1>3, <1>4

\* On a tree that is overlaid, u3, route and shear keep the shape and the rest writes nothing.
LEMMA HandKeeps ==
  ASSUME NEW t \in Tree, Shape(t), Overlaid(t), NEW p \in Scripts, NEW n, n \in 0 .. Reach(p, t) \/ n = Reach(p, t)
  PROVE  Patched(p, n, t) \in Tree /\ Shape(Patched(p, n, t)) /\ Overlaid(Patched(p, n, t))
<1>1. Reach("u3", t) \in {0, 1} /\ Reach("route", t) = 1 BY U3Runs, RouteRuns
<1>2. Reach("shear", t) = 4 BY ShearRuns DEF Overlaid
<1>3. CASE p \in {"u3", "route", "shear"}
  <2>1. n \in 0 .. Len(Script[p])
    <3>1. CASE p = "u3" BY <3>1, <1>1, TheScripts, Lengths
    <3>2. CASE p = "route" BY <3>2, <1>1, TheScripts, Lengths
    <3>3. CASE p = "shear" BY <3>3, <1>2, TheScripts, Lengths
    <3> QED BY <3>1, <3>2, <3>3, <1>3
  <2> DEFINE u == Patched(p, n, t)
  <2>2. u \in Tree /\ Shape(u) /\ u["fwd"] = t["fwd"] /\ u["sm90"] = t["sm90"] BY <2>1, <1>3, ShapeKept
  <2>3. t["iface"] \subseteq u["iface"] BY PatchedTree, AllFiles
  <2> HIDE DEF u
  <2>4. Overlaid(u) BY <2>2, <2>3 DEF Overlaid
  <2> QED BY <2>2, <2>4 DEF u
<1>4. CASE p \notin {"u3", "route", "shear"}
  <2>1. Reach(p, t) = 0 BY <1>4, OthersStop
  <2>2. n = 0 BY <2>1
  <2> QED BY <2>2, NoFileIsNoChange
<1> QED BY <1>3, <1>4

\* Where a script left its mark, on such a tree.
LEMMA MarksOf ==
  ASSUME NEW t \in Tree, Shape(t), Overlaid(t)
  PROVE  /\ \A f \in Files : "u3" \in t[f] => f = "qkvr"
         /\ \A f \in Files : "route" \in t[f] => f = "route"
         /\ \A f \in Files : "shear" \in t[f] => f \in {"qkvr", "route", "attn", "iface"}
         /\ \A f \in Files : \A p \in Scripts \ {"u3", "route", "shear"} : p \notin t[f]
<1>1. t["fwd"] = {"ours"} /\ t["sm90"] = {"ours"} BY DEF Overlaid
<1>2. \A p \in Scripts \ {"u3", "route", "shear"} : p \notin {"ours", "u3", "route", "shear"} BY TheScripts
<1> QED BY <1>1, <1>2, AllFiles DEF Shape

LEMMA HandRecords ==
  ASSUME TreeInv, records \in Records, RunByHand PROVE AbortsWriteNothing' /\ TreeInv' /\ (FailsOnlyOnFault => FailsOnlyOnFault')
<1>1. kind = "hand" /\ kind' = kind /\ UNCHANGED <<src, faulted, cut>> BY DEF RunByHand
<1>2. tree \in Tree /\ src \in [TmlFiles -> SUBSET (Scripts \cup {"ours"})] /\ ("ours" \in tree["sm90"] => Shape(tree) /\ Overlaid(tree))
  BY <1>1 DEF TreeInv
<1>9. PICK p \in Scripts :
       \/ /\ tree' = Patched(p, Reach(p, tree), tree)
          /\ records' = Append(records, <<p, IF Applies(p, tree) THEN "exit 0" ELSE "abort">>)
       \/ \E n \in 0 .. Reach(p, tree) :
            tree' = Patched(p, n, tree) /\ records' = Append(records, <<p, "interrupted">>)
  BY DEF RunByHand
<1> DEFINE Ran(n, v) ==
        /\ tree' = Patched(p, n, tree) /\ records' = Append(records, <<p, v>>)
        /\ n \in 0 .. Reach(p, tree) \/ n = Reach(p, tree)
        /\ v # "interrupted" => n = Reach(p, tree) /\ (v = "exit 0" <=> Applies(p, tree))
<1>10. \E v \in {"exit 0", "abort", "interrupted"} : \E n : Ran(n, v)
  <2>1. CASE tree' = Patched(p, Reach(p, tree), tree) /\ records' = Append(records, <<p, IF Applies(p, tree) THEN "exit 0" ELSE "abort">>)
    <3>1. CASE Applies(p, tree)
      <4>1. Ran(Reach(p, tree), "exit 0") BY <2>1, <3>1
      <4> QED BY <4>1
    <3>2. CASE ~Applies(p, tree)
      <4>1. Ran(Reach(p, tree), "abort") BY <2>1, <3>2
      <4> QED BY <4>1
    <3> QED BY <3>1, <3>2
  <2>2. ASSUME NEW n \in 0 .. Reach(p, tree), tree' = Patched(p, n, tree) /\ records' = Append(records, <<p, "interrupted">>)
        PROVE  \E v \in {"exit 0", "abort", "interrupted"} : \E m : Ran(m, v)
    <3>1. Ran(n, "interrupted") BY <2>2
    <3> QED BY <3>1
  <2> QED BY <1>9, <2>1, <2>2
<1>11. PICK v \in {"exit 0", "abort", "interrupted"} : \E n : Ran(n, v) BY <1>10
<1>12. PICK n : Ran(n, v) BY <1>11
<1>3. /\ tree' = Patched(p, n, tree) /\ records' = Append(records, <<p, v>>)
      /\ n \in 0 .. Reach(p, tree) \/ n = Reach(p, tree)
      /\ v # "interrupted" => n = Reach(p, tree) /\ (v = "exit 0" <=> Applies(p, tree))
  BY <1>12
<1> HIDE DEF Ran
<1>4. /\ records' \in Records /\ Range(records') = Range(records) \cup {<<p, v>>} /\ records' # <<>> /\ records'[Len(records')] = <<p, v>>
  <2>1. p \in Names /\ v \in Marks BY DEF Names, Marks
  <2> QED BY <2>1, <1>3, OneMore
<1>5. p # "setup" BY TheScripts
<1>6. FailsOnlyOnFault => FailsOnlyOnFault' BY <1>1, <1>4, <1>5 DEF FailsOnlyOnFault
<1>7. CASE "ours" \notin tree["sm90"]
  <2>1. tree' \in Tree /\ tree'["sm90"] \subseteq tree["sm90"] \cup {p} BY <1>2, <1>3, PatchedTree, AllFiles
  <2>2. "ours" \notin tree'["sm90"] BY <2>1, <1>7, TheScripts
  <2>3. TreeInv' BY <2>1, <2>2, <1>1, <1>2 DEF TreeInv
  <2>4. AbortsWriteNothing' BY <2>2 DEF AbortsWriteNothing
  <2> QED BY <2>3, <2>4, <1>6
<1>8. CASE "ours" \in tree["sm90"]
  <2>1. Shape(tree) /\ Overlaid(tree) BY <1>2, <1>8
  <2>2. tree' \in Tree /\ Shape(tree') /\ Overlaid(tree') BY <2>1, <1>2, <1>3, HandKeeps
  <2>3. TreeInv' BY <2>2, <1>1, <1>2 DEF TreeInv
  <2>6. \A f \in Files \cap FirstFiles(p, n) : p \in tree'[f]
    <3>1. \A f : f \in FirstFiles(p, n) <=> \E i \in 1 .. n : Script[p][i].file = f BY DEF FirstFiles
    <3> QED BY <3>1, <1>3 DEF Patched
  <2> DEFINE at == {f \in Files : p \in tree'[f]}
  <2>4. /\ v = "exit 0" => at = Touched(p)
        /\ v = "abort" => p \notin {"route", "shear"} /\ (at = {} \/ (p = "u3" /\ "shear" \in tree'["qkvr"]))
    <3>0. /\ \A f \in Files : "u3" \in tree'[f] => f = "qkvr"
          /\ \A f \in Files : "route" \in tree'[f] => f = "route"
          /\ \A f \in Files : "shear" \in tree'[f] => f \in {"qkvr", "route", "attn", "iface"}
          /\ \A f \in Files : \A q \in Scripts \ {"u3", "route", "shear"} : q \notin tree'[f]
      BY <2>2, MarksOf
    <3>1. CASE p = "u3"
      <4>1. v = "exit 0" => "u3" \in tree'["qkvr"]
        <5> SUFFICES ASSUME v = "exit 0" PROVE "u3" \in tree'["qkvr"]
          OBVIOUS
        <5>1. n = 1 BY <1>3, <3>1, U3Runs
        <5> QED BY <5>1, <2>6, <3>1, FilesOfScripts, AllFiles
      <4>2. v = "abort" => "shear" \in tree'["qkvr"]
        <5> SUFFICES ASSUME v = "abort" PROVE "shear" \in tree'["qkvr"]
          OBVIOUS
        <5>1. "shear" \in tree["qkvr"] BY <1>3, <3>1, U3Runs
        <5> QED BY <5>1, <1>2, <1>3, PatchedTree, AllFiles
      <4> QED BY <4>1, <4>2, <3>0, <3>1, TouchedFiles, AllFiles
    <3>2. CASE p = "route"
      <4>1. v # "abort" BY <1>3, <3>2, RouteRuns
      <4>2. v = "exit 0" => "route" \in tree'["route"]
        <5> SUFFICES ASSUME v = "exit 0" PROVE "route" \in tree'["route"]
          OBVIOUS
        <5>1. n = 1 BY <1>3, <3>2, RouteRuns
        <5> QED BY <5>1, <2>6, <3>2, FilesOfScripts, AllFiles
      <4> QED BY <4>1, <4>2, <3>0, <3>2, TouchedFiles, AllFiles
    <3>3. CASE p = "shear"
      <4>0. Reach("shear", tree) = 4 /\ Applies("shear", tree) BY <2>1, ShearRuns DEF Overlaid
      <4>1. v # "abort" BY <1>3, <3>3, <4>0
      <4>2. v = "exit 0" => \A f \in {"qkvr", "route", "attn", "iface"} : "shear" \in tree'[f]
        <5> SUFFICES ASSUME v = "exit 0" PROVE \A f \in {"qkvr", "route", "attn", "iface"} : "shear" \in tree'[f]
          OBVIOUS
        <5>1. n = 4 BY <1>3, <3>3, <4>0
        <5> QED BY <5>1, <2>6, <3>3, FilesOfScripts, AllFiles
      <4> QED BY <4>1, <4>2, <3>0, <3>3, TouchedFiles, AllFiles
    <3>4. CASE p \notin {"u3", "route", "shear"}
      <4>1. v # "exit 0" BY <1>3, <3>4, <2>1, OthersStop
      <4>2. at = {} BY <3>0, <3>4
      <4> QED BY <4>1, <4>2, <3>4
    <3> QED BY <3>1, <3>2, <3>3, <3>4
  <2>5. AbortsWriteNothing'
    <3>1. <<p, v>>[1] = p /\ <<p, v>>[2] = v OBVIOUS
    <3>2. records'[Len(records')][1] = p /\ records'[Len(records')][2] = v BY <1>4, <3>1
    <3> QED BY <3>2, <2>4 DEF AbortsWriteNothing
  <2> QED BY <2>3, <2>5, <1>6
<1> QED BY <1>7, <1>8

-----------------------------------------------------------------------------
(* Every step.                                                             *)

DeployInv == CallInv /\ Fresh /\ Sound /\ AbortsWriteNothing

LEMMA SoundInit == Init => Sound /\ AbortsWriteNothing
<1> SUFFICES ASSUME Init PROVE Sound /\ AbortsWriteNothing
  OBVIOUS
<1>1. /\ pc = "idle" /\ records = <<>> /\ (tree = Stock \/ (kind = "hand" /\ tree = Overlay(Stock))) /\ src = [f \in TmlFiles |-> {}]
      /\ tmlBackup = [made |-> FALSE, files |-> [f \in {} |-> {}]] /\ opsBackup = tmlBackup /\ kind \in {"bench", "validate", "hand"}
  BY DEF Init
<1>2. Range(<<>>) = {} BY DEF Range
<1>3. \A f \in Files : Stock[f] = {} BY StockFiles
<1>4. \A f \in Files : Overlay(Stock)[f] = (IF f \in TmlFiles THEN {"ours"} ELSE {}) BY <1>3 DEF Overlay
<1>5. Stock \in Tree BY DEF Stock, Tree
<1>6. Overlay(Stock) \in Tree BY <1>3 DEF Overlay, Tree
<1>7. TreeInv
  <2>1. src \in [TmlFiles -> SUBSET (Scripts \cup {"ours"})] /\ \A f \in TmlFiles : src[f] = {} BY <1>1
  <2>2. CASE tree = Stock
    <3>1. \A f \in Files : tree[f] = {} BY <2>2, <1>3
    <3>2. Shape(tree) /\ "ours" \notin tree["sm90"] BY <3>1, AllFiles DEF Shape
    <3> QED BY <2>1, <2>2, <3>1, <3>2, <1>5, AllFiles DEF TreeInv, TmlFiles
  <2>3. CASE kind = "hand" /\ tree = Overlay(Stock)
    <3>1. Shape(tree) /\ Overlaid(tree) BY <2>3, <1>4, AllFiles DEF Shape, Overlaid, TmlFiles
    <3> QED BY <2>1, <2>3, <3>1, <1>6 DEF TreeInv
  <2> QED BY <1>1, <2>2, <2>3
<1>8. SavedInv
  <2>1. ~tmlBackup.made /\ ~opsBackup.made /\ DOMAIN tmlBackup.files = {} /\ DOMAIN opsBackup.files = {} BY <1>1
  <2> QED BY <2>1, <1>1 DEF SavedInv
<1>9. PhaseInv BY <1>1 DEF PhaseInv
<1>10. FailsOnlyOnFault /\ AbortsWriteNothing BY <1>1, <1>2 DEF FailsOnlyOnFault, AbortsWriteNothing
<1> QED BY <1>7, <1>8, <1>9, <1>10 DEF Sound, FilesInv

\* Outside a deployment the files stay.
LEMMA ElsewhereSound ==
  ASSUME Sound, UNCHANGED <<kind, tree, src, tmlBackup, opsBackup, cut>>, pc' \in {"idle", "backup", "flush", "burn", "run", "running", "summary", "gone"},
         FailsOnlyOnFault'
  PROVE  Sound'
<1>1. SavedInv' BY DEF Sound, FilesInv, SavedInv
<1>2. TreeInv' BY DEF Sound, FilesInv, TreeInv
<1>3. PhaseInv' BY DEF PhaseInv
<1> QED BY <1>1, <1>2, <1>3 DEF Sound, FilesInv

LEMMA NoFailAdded ==
  ASSUME FailsOnlyOnFault, records \in Records, NEW n \in Names, NEW v \in Marks, n # "setup" \/ v # "FAIL",
         records' = Append(records, <<n, v>>), UNCHANGED <<faulted, cut>>
  PROVE  FailsOnlyOnFault'
<1>1. Range(records') = Range(records) \cup {<<n, v>>} BY OneMore
<1>2. <<n, v>> # <<"setup", "FAIL">> OBVIOUS
<1> QED BY <1>1, <1>2 DEF FailsOnlyOnFault

LEMMA SoundStep == DeployInv /\ [Next]_vars => Sound' /\ AbortsWriteNothing'
<1> SUFFICES ASSUME CallInv, Fresh, Sound, AbortsWriteNothing, [Next]_vars PROVE Sound' /\ AbortsWriteNothing'
  BY DEF DeployInv
<1> USE DEF Goto
<1>0. records \in Records /\ todo \in Seq(Harnesses) /\ (pc \in {"run", "running"} => todo # <<>>) /\ FailsOnlyOnFault /\ TreeInv
  BY DEF Fresh, StepInv, Sound, FilesInv
<1>a. ASSUME kind' = kind, kind # "hand" PROVE AbortsWriteNothing'
  BY <1>a DEF AbortsWriteNothing
<1>b. pc # "idle" => kind # "hand" BY DEF CallInv
<1>1. CASE Call
  <2>1. /\ UNCHANGED <<kind, tree, src, tmlBackup, opsBackup, cut>> /\ records' = <<>> /\ pc' \in {"backup", "summary"} /\ kind # "hand"
    BY <1>1 DEF Call, deploying
  <2>2. Range(<<>>) = {} BY DEF Range
  <2>3. FailsOnlyOnFault' BY <2>1, <2>2 DEF FailsOnlyOnFault
  <2> QED BY <2>1, <2>3, ElsewhereSound, <1>a
<1>2. CASE Deploy
  <2>1. Sound'
    BY <1>2, BackupKeeps, OpsBackupKeeps, RestoreKeeps, RestoreNvidiaKeeps, OverlayKeeps, PatchKeeps, CopyBackKeeps, CheckKeeps DEF Deploy
  <2>2. kind' = kind /\ pc # "idle" BY <1>2, DeployGoes DEF Goes, Fails, Kept, DeployPlaces
  <2> QED BY <2>1, <2>2, <1>a, <1>b
<1>3. CASE Ready
  <2>1. /\ UNCHANGED <<kind, tree, src, tmlBackup, opsBackup, cut, faulted>> /\ pc = "ready"
        /\ records' = Append(records, <<"setup", "PASS">>) /\ pc' \in {"idle", "flush"}
    BY <1>3 DEF Ready, deploying
  <2>2. "setup" \in Names /\ "PASS" \in Marks BY DEF Names, Marks
  <2>3. FailsOnlyOnFault' BY <2>1, <2>2, <1>0, NoFailAdded
  <2> QED BY <2>1, <2>3, ElsewhereSound, <1>a, <1>b
<1>4. CASE SkipStep
  <2>1. /\ UNCHANGED <<kind, tree, src, tmlBackup, opsBackup, cut, faulted>> /\ pc = "run" /\ pc' = "flush"
        /\ records' = Append(records, <<Head(todo), "NOT_RUN">>)
    BY <1>4 DEF SkipStep, Next1, deploying
  <2>2. Head(todo) \in Names /\ "NOT_RUN" \in Marks BY <2>1, <1>0, HeadAndTail DEF Names, Marks
  <2>3. FailsOnlyOnFault' BY <2>1, <2>2, <1>0, NoFailAdded
  <2> QED BY <2>1, <2>3, ElsewhereSound, <1>a, <1>b
<1>5. CASE Begin
  <2>1. UNCHANGED <<kind, tree, src, tmlBackup, opsBackup, cut, faulted, records>> /\ pc = "run" /\ pc' = "running"
    BY <1>5 DEF Begin, deploying
  <2>2. FailsOnlyOnFault' BY <2>1, <1>0 DEF FailsOnlyOnFault
  <2> QED BY <2>1, <2>2, ElsewhereSound, <1>a, <1>b
<1>6. CASE End
  <2>1. UNCHANGED <<kind, tree, src, tmlBackup, opsBackup, cut, faulted>> /\ pc = "running"
    BY <1>6 DEF End, deploying
  <2>2. PICK v \in {"PASS", "FAIL"} : records' = Append(records, <<Head(todo), v>>) /\ pc' = "flush"
    BY <1>6 DEF End, Next1
  <2>3. Head(todo) \in Names /\ v \in Marks /\ Head(todo) # "setup" BY <2>1, <1>0, HeadAndTail, DeployAssumption DEF Names, Marks
  <2>4. FailsOnlyOnFault' BY <2>1, <2>2, <2>3, <1>0, NoFailAdded
  <2> QED BY <2>1, <2>2, <2>4, ElsewhereSound, <1>a, <1>b
<1>7. CASE Flush \/ Burn \/ Summary
  <2>1. UNCHANGED <<kind, tree, src, tmlBackup, opsBackup, cut, faulted, records>> /\ pc # "idle" /\ pc' \in {"burn", "run", "summary", "idle"}
    BY <1>7 DEF Flush, Burn, Summary, deploying
  <2>2. FailsOnlyOnFault' BY <2>1, <1>0 DEF FailsOnlyOnFault
  <2> QED BY <2>1, <2>2, ElsewhereSound, <1>a, <1>b
<1>8. CASE Kill
  <2>1. UNCHANGED <<kind, tree, src, tmlBackup, opsBackup, cut, faulted, records>> /\ kind # "hand" /\ pc' = "gone"
    BY <1>8 DEF Kill, deploying
  <2>2. FailsOnlyOnFault' BY <2>1, <1>0 DEF FailsOnlyOnFault
  <2> QED BY <2>1, <2>2, ElsewhereSound, <1>a
<1>9. CASE RunByHand
  <2>1. AbortsWriteNothing' /\ TreeInv' /\ FailsOnlyOnFault' BY <1>9, <1>0, HandRecords
  <2>2. UNCHANGED <<kind, pc, tmlBackup, opsBackup, cut>> /\ kind = "hand" /\ pc = "idle" BY <1>9 DEF RunByHand
  <2>3. SavedInv' BY <2>2 DEF Sound, FilesInv, SavedInv
  <2>4. PhaseInv' BY <2>2 DEF PhaseInv
  <2> QED BY <2>1, <2>3, <2>4 DEF Sound, FilesInv
<1>10. CASE UNCHANGED vars
  <2>1. UNCHANGED <<kind, pc, request, tree, src, tmlBackup, opsBackup, cut, faulted, records>> BY <1>10 DEF vars, deploying
  <2>2. SavedInv' BY <2>1 DEF Sound, FilesInv, SavedInv
  <2>3. TreeInv' BY <2>1 DEF Sound, FilesInv, TreeInv
  <2>4. Ordered(request)' = Ordered(request) BY <2>1 DEF Ordered
  <2>5. Restored' <=> Restored BY <2>1 DEF Restored
  <2>6. (Fused' <=> Fused) /\ (Routed' <=> Routed) BY <2>1, <2>4 DEF Fused, Routed
  <2>7. PhaseInv' BY <2>1, <2>4, <2>5, <2>6 DEF Sound, FilesInv, PhaseInv
  <2>8. FailsOnlyOnFault' /\ AbortsWriteNothing' BY <2>1, <1>0 DEF FailsOnlyOnFault, AbortsWriteNothing
  <2> QED BY <2>2, <2>3, <2>7, <2>8 DEF Sound, FilesInv
<1> QED BY <1>1, <1>2, <1>3, <1>4, <1>5, <1>6, <1>7, <1>8, <1>9, <1>10 DEF Next

-----------------------------------------------------------------------------
(* The theorems.                                                           *)

\* The invariant of a warm container: what its files can hold at each step of a
\* deployment, whatever earlier calls left (modal_e2e_bench.py:798-923, 2265-2397).
THEOREM DeployInvariant == Spec => []DeployInv
<1>1. Init => DeployInv BY CallInit, FreshInit, SoundInit DEF DeployInv
<1>2. DeployInv /\ [Next]_vars => DeployInv'
  BY CallStep, FreshStep, SoundStep DEF DeployInv
<1> QED BY <1>1, <1>2, PTL DEF Spec

\* A deployment that passes its own check is, file by file, what was asked for, but for
\* the router patch that u3+shear can keep after a cut backup (modal_e2e_bench.py:876-923,
\* 2304-2397).
THEOREM ReadyIsExact == Spec => []DeployedExactly
<1>1. DeployInv => DeployedExactly BY DEF DeployInv, Sound, FilesInv, PhaseInv, DeployedExactly
<1> QED BY <1>1, DeployInvariant, PTL

\* No tree that a call can leave makes the setup of a later one fail: it takes a fault
\* outside the scripts, or a backup that was cut short (modal_e2e_bench.py:2304-2312).
THEOREM SetupsFailOnFaults == Spec => []FailsOnlyOnFault
<1>1. DeployInv => FailsOnlyOnFault BY DEF DeployInv, Sound
<1> QED BY <1>1, DeployInvariant, PTL

\* On a tree with our kernels an aborted script has written nothing and a finished one
\* everything, after any scripts in any order, interrupted anywhere (u2_shear_fusion.py:1295-1332).
THEOREM ScriptsAreAtomic == Spec => []AbortsWriteNothing
<1>1. DeployInv => AbortsWriteNothing BY DEF DeployInv
<1> QED BY <1>1, DeployInvariant, PTL

\* A filed artifact is its harness's own, and that of this call if the harness passed
\* (modal_e2e_bench.py:2471-2477, 2527-2536).
THEOREM ArtifactsAreOwn == Spec => []ArtifactsFresh
<1>1. DeployInv => ArtifactsFresh BY DEF DeployInv, Fresh
<1> QED BY <1>1, DeployInvariant, PTL

\* When a harness runs, all before it is on the Volume, recorded and booked
\* (modal_e2e_bench.py:2598-2623, 2987-2993).
THEOREM KillLosesOneStep == Spec => []LosesOneStep
<1>1. DeployInv => LosesOneStep BY DEF DeployInv, Fresh, StepInv, LosesOneStep
<1> QED BY <1>1, DeployInvariant, PTL

=============================================================================
