--------------------------- MODULE ModalBench_proof ---------------------------
(***************************************************************************)
(* Proofs about run_bench for every setting: any builds, any number of     *)
(* runs and calls, any pool sizes, times and money, with containers that   *)
(* are used again, killed at any point, and others that book.              *)
(*                                                                         *)
(* What is said of results and verdicts rests on the inductive invariant    *)
(* ModalInv.  It says what a build in progress owes the Volume: what is     *)
(* left to do has no result yet, the pool of the server is the one on file, *)
(* and the file names, for every complete build, a pool that the build was  *)
(* measured on; but for the pools that a log did not show.                  *)
(*                                                                          *)
(* What is said of time and money rests on TimeInv and MoneyInv, on top of  *)
(* it: loads and runs are begun only when their longest ends before the     *)
(* deadline, a probe can pass it by its overrun, and the ledger holds what  *)
(* was spent, but for what escaped it.                                      *)
(***************************************************************************)
EXTENDS ModalBench, FiniteSetTheorems, TLAPS

InBuild == pc \in {"load", "probe", "run", "burn"}

VolumeOK ==
  /\ setting \in Settings
  /\ results \in [BuildSet -> [Runs -> Pools \cup {Unknown}]]
  /\ validity \in [pool : [BuildSet -> Pools \cup {Unknown}], verdict : {"none", "match", "mismatch"}]
  /\ kv \in [BuildSet -> Pools \cup {Unknown}]
  /\ build \in Nat \ {0}

\* The build in progress is one of the builds, and lacks what it still has to do.
BuildHasWork ==
  InBuild => /\ build <= Len(Builds)
             /\ todo \subseteq Pending(Current)
             /\ pc \in {"load", "probe"} => Pending(Current) # {}

\* What is read of the pool of the running server: the pool, or nothing.
Shown(q) == q = pool \/ (Unread /\ q = Unknown)

\* A container works from the pools on file, its own server's among them once the
\* server has been probed.
PoolsOnFile ==
  /\ pc \notin {"idle", "probe"} => kv = validity.pool
  /\ pc = "probe" => \A b \in BuildSet : b # Current => kv[b] = validity.pool[b]
  /\ pc \in {"probe", "run", "burn"} => pool \in Pools /\ Shown(kv[Current])

\* The server that measured the last result of a build is the one on file, if its
\* log showed the pool.
LastServerOnFile ==
  \A b \in BuildSet : Pending(b) = {} =>
    (Unread /\ validity.pool[b] = Unknown) \/ \E r \in Runs : results[b][r] = validity.pool[b]

MatchMeansEqual ==
  validity.verdict = "match" =>
    \A b, c \in BuildSet : validity.pool[b] # Unknown /\ validity.pool[c] # Unknown => validity.pool[b] = validity.pool[c]

ModalInv == VolumeOK /\ BuildHasWork /\ PoolsOnFile /\ LastServerOnFile /\ MatchMeansEqual

-----------------------------------------------------------------------------
(* Facts about sets.                                                       *)

\* A set of numbers that is not empty has a least one, so NextRun exists.
LEMMA LeastExists ==
  ASSUME NEW T \in SUBSET Nat, T # {}
  PROVE  \E x \in T : \A y \in T : x <= y
<1> DEFINE UpTo(x) == {y \in T : y <= x}
           F == {UpTo(x) : x \in T}
<1>1. F \subseteq FiniteSubsetsOf(T)
  <2> SUFFICES ASSUME NEW x \in T PROVE UpTo(x) \in FiniteSubsetsOf(T)
    OBVIOUS
  <2>1. UpTo(x) \in SUBSET Nat /\ \A y \in UpTo(x) : y <= x
    OBVIOUS
  <2>2. IsFiniteSet(UpTo(x))
    <3> HIDE DEF UpTo
    <3> QED  BY <2>1, FS_BoundedSetOfNaturals
  <2> QED  BY <2>2 DEF FiniteSubsetsOf
<1>2. F # {}
  OBVIOUS
<1>3. \E U \in F : \A V \in F : <<V, U>> \notin StrictSubsetOrdering(T)
  <2> HIDE DEF F
  <2> QED  BY <1>1, <1>2, FS_StrictSubsetOrderingWellFounded, WFMin
<1>4. PICK x \in T : \A y \in T : <<UpTo(y), UpTo(x)>> \notin StrictSubsetOrdering(T)
  BY <1>3
<1>5. ASSUME NEW y \in T, y < x PROVE FALSE
  <2>1. x \in Nat /\ y \in Nat /\ y < x
    BY <1>5
  <2>2. ASSUME NEW z \in UpTo(y) PROVE z \in UpTo(x)
    <3>1. z \in T /\ z \in Nat /\ z <= y
      BY <2>2
    <3> QED  BY <2>1, <3>1
  <2>3. x \in UpTo(x) /\ x \notin UpTo(y)
    BY <2>1
  <2>4. UpTo(y) \in SUBSET T /\ UpTo(x) \in SUBSET T
    OBVIOUS
  <2> HIDE DEF UpTo
  <2>5. <<UpTo(y), UpTo(x)>> \in StrictSubsetOrdering(T)
    BY <2>2, <2>3, <2>4 DEF StrictSubsetOrdering
  <2> QED  BY <2>5, <1>4
<1> QED  BY <1>5

\* What a function with a finite domain takes is a finite set.
LEMMA RangeFinite ==
  ASSUME NEW S, IsFiniteSet(S), NEW f, f = [x \in S |-> f[x]]
  PROVE  IsFiniteSet({f[x] : x \in S})
<1>1. f \in Surjection(S, {f[x] : x \in S})
  BY DEF Surjection
<1> QED  BY <1>1, FS_Surjection

\* At most one element, in the two forms the model uses.
LEMMA AtMostOne ==
  ASSUME NEW S, IsFiniteSet(S), Cardinality(S) <= 1, NEW x \in S, NEW y \in S
  PROVE  x = y
<1>1. Cardinality({x}) = 1 /\ IsFiniteSet({x})
  BY FS_Singleton
<1>2. {x} \in SUBSET S
  OBVIOUS
<1>3. Cardinality({x}) <= Cardinality(S) /\ (Cardinality(S) = Cardinality({x}) => S = {x})
  BY <1>2, FS_Subset
<1>4. Cardinality(S) \in Nat
  BY FS_CardinalityType
<1> QED  BY <1>1, <1>3, <1>4


-----------------------------------------------------------------------------
(* Facts about the settings and the parts of the invariant.                *)

LEMMA SettingFacts ==
  ASSUME setting \in Settings
  PROVE  /\ Builds = [i \in 1 .. Len(Builds) |-> Builds[i]] /\ Len(Builds) \in Nat
         /\ \A i \in 1 .. Len(Builds) : Builds[i] \in BuildSet
         /\ NumRuns \in Nat \ {0} /\ Runs \subseteq Nat /\ Runs # {}
         /\ IsFiniteSet(Runs) /\ IsFiniteSet(BuildSet)
         /\ Unknown \notin Pools
<1>1. IsSetting(setting)
  BY ModalAssumption
<1>2. Builds \in Seq({Builds[i] : i \in DOMAIN Builds})
  BY <1>1 DEF IsSetting, Builds
<1>3. Builds = [i \in 1 .. Len(Builds) |-> Builds[i]] /\ Len(Builds) \in Nat /\ DOMAIN Builds = 1 .. Len(Builds)
  BY <1>2
<1>4. NumRuns \in Nat \ {0} /\ Unknown \notin Pools
  BY <1>1 DEF IsSetting, NumRuns, Pools
<1>5. IsFiniteSet(1 .. Len(Builds))
  <2>1. 1 \in Int /\ Len(Builds) \in Int
    BY <1>3
  <2> QED  BY <2>1, FS_Interval
<1>6. IsFiniteSet(BuildSet)
  BY <1>3, <1>5, RangeFinite DEF BuildSet
<1>7. IsFiniteSet(Runs)
  <2>1. 1 \in Int /\ NumRuns \in Int
    BY <1>4
  <2> QED  BY <2>1, FS_Interval DEF Runs
<1>8. Runs \subseteq Nat /\ 1 \in Runs
  BY <1>4 DEF Runs
<1> QED  BY <1>3, <1>4, <1>6, <1>7, <1>8 DEF BuildSet

LEMMA SettingStays ==
  ASSUME setting' = setting
  PROVE  BuildSet' = BuildSet /\ Runs' = Runs /\ Pools' = Pools /\ Builds' = Builds /\ Unread' = Unread
  BY DEF BuildSet, Runs, NumRuns, Pools, Builds, Unread

\* What RunSucceeds does to the Volume: it fills in one result that was lacking.
LEMMA ResultRecorded ==
  ASSUME ModalInv, RunSucceeds
  PROVE  /\ Current \in BuildSet /\ NextRun \in Pending(Current) /\ NextRun \in todo
         /\ Shown(validity.pool[Current]) /\ pool \in Pools
         /\ results' = [results EXCEPT ![Current][NextRun] = pool]
         /\ todo' = todo \ {NextRun}
<1>1. setting \in Settings
  BY DEF ModalInv, VolumeOK
<1>2. /\ pc = "run" /\ todo # {} /\ todo' = todo \ {NextRun}
      /\ results' = [results EXCEPT ![Current][NextRun] = pool]
  BY DEF RunSucceeds, RunEnds
<1>3. todo \subseteq Pending(Current) /\ build \in 1 .. Len(Builds)
  BY <1>2, SettingFacts, <1>1 DEF ModalInv, VolumeOK, BuildHasWork, InBuild
<1>4. todo \in SUBSET Nat
  BY <1>1, <1>3, SettingFacts DEF Pending
<1>5. NextRun \in todo
  BY <1>2, <1>4, LeastExists DEF NextRun
<1>6. Current \in BuildSet
  BY <1>1, <1>3, SettingFacts DEF Current
<1> QED  BY <1>2, <1>3, <1>5, <1>6 DEF ModalInv, PoolsOnFile


-----------------------------------------------------------------------------
(* The invariant is inductive.                                             *)

\* A step that leaves the Volume and the pools alone keeps the invariant, when
\* the build it leaves in progress has its work.
LEMMA QuietStep ==
  ASSUME ModalInv, UNCHANGED <<setting, results, validity, kv, pool>>,
         build' \in Nat \ {0}, BuildHasWork',
         pc' # "idle" => pc # "idle", pc = "probe" <=> pc' = "probe",
         pc' \in {"probe", "run", "burn"} => pc \in {"probe", "run", "burn"} /\ build' = build
  PROVE  ModalInv'
<1>1. BuildSet' = BuildSet /\ Runs' = Runs /\ Pools' = Pools /\ Builds' = Builds /\ Unread' = Unread
  BY SettingStays
<1>2. VolumeOK'
  BY <1>1 DEF ModalInv, VolumeOK
<1>3. PoolsOnFile'
  <2>1. pc' \notin {"idle", "probe"} => kv' = validity'.pool
    BY DEF ModalInv, PoolsOnFile
  <2>2. ASSUME pc' \in {"probe", "run", "burn"}
        PROVE  /\ pool' \in Pools' /\ Shown(kv[Current])' /\ Current' = Current
               /\ pc' = "probe" => \A b \in BuildSet : b # Current => kv[b] = validity.pool[b]
    BY <2>2, <1>1 DEF ModalInv, PoolsOnFile, Current, Shown
  <2> QED  BY <1>1, <2>1, <2>2 DEF PoolsOnFile
<1>4. LastServerOnFile'
  BY <1>1 DEF ModalInv, LastServerOnFile, Pending
<1>5. MatchMeansEqual'
  BY <1>1 DEF ModalInv, MatchMeansEqual
<1> QED  BY <1>2, <1>3, <1>4, <1>5 DEF ModalInv

\* The end of a call leaves the Volume and nothing else.
LEMMA GoneStep ==
  ASSUME ModalInv, Gone, UNCHANGED <<setting, results, validity>>
  PROVE  ModalInv'
<1>1. BuildSet' = BuildSet /\ Runs' = Runs /\ Pools' = Pools /\ Builds' = Builds /\ Unread' = Unread
  BY SettingStays
<1>2. pc' = "idle" /\ build' = 1 /\ kv' \in [BuildSet -> Pools \cup {Unknown}]
  BY DEF Gone
<1>3. VolumeOK'
  BY <1>1, <1>2 DEF ModalInv, VolumeOK
<1>4. BuildHasWork' /\ PoolsOnFile'
  BY <1>2 DEF BuildHasWork, PoolsOnFile, InBuild
<1>5. LastServerOnFile'
  BY <1>1 DEF ModalInv, LastServerOnFile, Pending
<1>6. MatchMeansEqual'
  BY <1>1 DEF ModalInv, MatchMeansEqual
<1> QED  BY <1>3, <1>4, <1>5, <1>6 DEF ModalInv

LEMMA StartStep ==
  ASSUME ModalInv, Start
  PROVE  ModalInv'
<1>1. UNCHANGED <<setting, results, validity, pool>> /\ pc' = "build" /\ build' = 1 /\ kv' = validity.pool
  BY DEF Start, Carried
<1>2. BuildSet' = BuildSet /\ Runs' = Runs /\ Pools' = Pools /\ Builds' = Builds /\ Unread' = Unread
  BY <1>1, SettingStays
<1>3. VolumeOK'
  BY <1>1, <1>2 DEF ModalInv, VolumeOK
<1>4. BuildHasWork' /\ PoolsOnFile'
  BY <1>1 DEF BuildHasWork, PoolsOnFile, InBuild
<1>5. LastServerOnFile'
  BY <1>1, <1>2 DEF ModalInv, LastServerOnFile, Pending
<1>6. MatchMeansEqual'
  BY <1>1, <1>2 DEF ModalInv, MatchMeansEqual
<1> QED  BY <1>3, <1>4, <1>5, <1>6 DEF ModalInv

\* The pool of a server is read while its build lacks a result.
LEMMA ServerReadyStep ==
  ASSUME ModalInv, ServerReady
  PROVE  ModalInv'
<1>1. PICK p \in Pools : /\ pool' = p
                         /\ \E q \in {p} \cup (IF Unread THEN {Unknown} ELSE {}) : kv' = [kv EXCEPT ![Current] = q]
  BY DEF ServerReady
<1>2. pc = "load" /\ pc' = "probe" /\ UNCHANGED <<setting, results, validity, build, todo>>
  BY DEF ServerReady, turn
<1>3. setting \in Settings
  BY DEF ModalInv, VolumeOK
<1>4. BuildSet' = BuildSet /\ Runs' = Runs /\ Pools' = Pools /\ Builds' = Builds /\ Unread' = Unread
  BY <1>2, SettingStays
<1>5. build \in 1 .. Len(Builds) /\ Current \in BuildSet /\ Pending(Current) # {}
  BY <1>2, <1>3, SettingFacts DEF ModalInv, VolumeOK, BuildHasWork, InBuild, Current
<1>6. kv = validity.pool /\ kv \in [BuildSet -> Pools \cup {Unknown}]
  BY <1>2 DEF ModalInv, VolumeOK, PoolsOnFile
<1>7. PICK q \in {p} \cup (IF Unread THEN {Unknown} ELSE {}) : kv' = [kv EXCEPT ![Current] = q]
  BY <1>1
<1>8. q \in Pools \cup {Unknown} /\ (q = p \/ (Unread /\ q = Unknown))
  BY <1>7
<1>9. kv' \in [BuildSet -> Pools \cup {Unknown}] /\ kv'[Current] = q
      /\ \A b \in BuildSet : b # Current => kv'[b] = kv[b]
  BY <1>5, <1>6, <1>7, <1>8
<1>10. VolumeOK'
  BY <1>2, <1>4, <1>9 DEF ModalInv, VolumeOK
<1>11. Current' = Current /\ Pending(Current)' = Pending(Current)
  BY <1>2, <1>4 DEF Current, Pending
<1>12. BuildHasWork'
  BY <1>2, <1>4, <1>5, <1>11 DEF ModalInv, BuildHasWork, InBuild
<1>13. PoolsOnFile'
  BY <1>1, <1>2, <1>4, <1>6, <1>9, <1>11, <1>8 DEF PoolsOnFile, Shown
<1>14. LastServerOnFile'
  BY <1>2, <1>4 DEF ModalInv, LastServerOnFile, Pending
<1>15. MatchMeansEqual'
  BY <1>2, <1>4 DEF ModalInv, MatchMeansEqual
<1> QED  BY <1>10, <1>12, <1>13, <1>14, <1>15 DEF ModalInv

\* The pool of a build changes on file only while the build lacks a result.
LEMMA ProbeStep ==
  ASSUME ModalInv, Probe
  PROVE  ModalInv'
<1>1. pc = "probe" /\ pc' = "run" /\ UNCHANGED <<setting, results, build, todo, kv, pool>>
      /\ validity' = [pool |-> kv, verdict |-> "none"]
  BY DEF Probe, turn
<1>2. setting \in Settings
  BY DEF ModalInv, VolumeOK
<1>3. BuildSet' = BuildSet /\ Runs' = Runs /\ Pools' = Pools /\ Builds' = Builds /\ Unread' = Unread
  BY <1>1, SettingStays
<1>4. Pending(Current) # {}
  BY <1>1 DEF ModalInv, BuildHasWork, InBuild
<1>5. kv \in [BuildSet -> Pools \cup {Unknown}] /\ pool \in Pools /\ Shown(kv[Current])
      /\ \A b \in BuildSet : b # Current => kv[b] = validity.pool[b]
  BY <1>1 DEF ModalInv, VolumeOK, PoolsOnFile
<1>6. VolumeOK'
  BY <1>1, <1>3, <1>5 DEF ModalInv, VolumeOK
<1>7. Current' = Current /\ Pending(Current)' = Pending(Current)
  BY <1>1, <1>3 DEF Current, Pending
<1>8. BuildHasWork'
  BY <1>1, <1>3, <1>7 DEF ModalInv, BuildHasWork, InBuild
<1>9. PoolsOnFile'
  BY <1>1, <1>3, <1>5, <1>7 DEF PoolsOnFile, Shown
<1>10. LastServerOnFile'
  <2> SUFFICES ASSUME NEW b \in BuildSet, Pending(b) = {}
               PROVE  (Unread /\ kv[b] = Unknown) \/ \E r \in Runs : results[b][r] = kv[b]
    BY <1>1, <1>3 DEF LastServerOnFile, Pending
  <2>1. b # Current
    BY <1>4
  <2> QED  BY <2>1, <1>5 DEF ModalInv, LastServerOnFile
<1>11. MatchMeansEqual'
  BY <1>1 DEF MatchMeansEqual
<1> QED  BY <1>6, <1>8, <1>9, <1>10, <1>11 DEF ModalInv

\* A result is recorded with the pool on file for its build.
LEMMA RunSucceedsStep ==
  ASSUME ModalInv, RunSucceeds
  PROVE  ModalInv'
<1>1. /\ Current \in BuildSet /\ NextRun \in Pending(Current) /\ NextRun \in todo
      /\ Shown(validity.pool[Current]) /\ pool \in Pools
      /\ results' = [results EXCEPT ![Current][NextRun] = pool]
      /\ todo' = todo \ {NextRun}
  BY ResultRecorded
<1>2. pc = "run" /\ pc' = "burn" /\ UNCHANGED <<setting, validity, kv, pool, build>>
  BY DEF RunSucceeds, RunEnds
<1>3. BuildSet' = BuildSet /\ Runs' = Runs /\ Pools' = Pools /\ Builds' = Builds /\ Unread' = Unread /\ Current' = Current
  BY <1>2, SettingStays DEF Current
<1>4. NextRun \in Runs
  BY <1>1 DEF Pending
<1>5. results \in [BuildSet -> [Runs -> Pools \cup {Unknown}]]
  BY DEF ModalInv, VolumeOK
<1>6. /\ results' \in [BuildSet -> [Runs -> Pools \cup {Unknown}]]
      /\ results'[Current][NextRun] = pool
      /\ \A b \in BuildSet, r \in Runs : b # Current \/ r # NextRun => results'[b][r] = results[b][r]
  BY <1>1, <1>4, <1>5
<1>7. Unknown \notin Pools
  BY SettingFacts DEF ModalInv, VolumeOK
<1>8. VolumeOK'
  BY <1>2, <1>3, <1>6 DEF ModalInv, VolumeOK
<1>9. BuildHasWork'
  <2>1. todo' \subseteq Pending(Current)'
    <3> SUFFICES ASSUME NEW r \in todo \ {NextRun} PROVE r \in Runs /\ results'[Current][r] = Unknown
      BY <1>1, <1>3 DEF Pending
    <3>1. r \in Pending(Current)
      BY <1>2 DEF ModalInv, BuildHasWork, InBuild
    <3> QED  BY <3>1, <1>1, <1>6 DEF Pending
  <2> QED  BY <2>1, <1>2, <1>3 DEF ModalInv, BuildHasWork, InBuild
<1>10. PoolsOnFile'
  BY <1>1, <1>2, <1>3 DEF ModalInv, PoolsOnFile, Shown
<1>11. LastServerOnFile'
  <2> SUFFICES ASSUME NEW b \in BuildSet, \A r \in Runs : results'[b][r] # Unknown
               PROVE  (Unread /\ validity.pool[b] = Unknown) \/ \E r \in Runs : results'[b][r] = validity.pool[b]
    BY <1>2, <1>3 DEF LastServerOnFile, Pending
  <2>1. CASE b = Current
    BY <2>1, <1>1, <1>4, <1>6 DEF Shown
  <2>2. CASE b # Current
    <3>1. Pending(b) = {}
      BY <2>2, <1>6 DEF Pending
    <3> QED  BY <3>1, <2>2, <1>6 DEF ModalInv, LastServerOnFile
  <2> QED  BY <2>1, <2>2
<1>12. MatchMeansEqual'
  BY <1>2, <1>3 DEF ModalInv, MatchMeansEqual
<1> QED  BY <1>8, <1>9, <1>10, <1>11, <1>12 DEF ModalInv

\* The verdict is given on the pools that are on file.
LEMMA VerdictStep ==
  ASSUME ModalInv, Verdict
  PROVE  ModalInv'
<1>1. /\ pc = "verdict" /\ pc' = "final" /\ UNCHANGED <<setting, results, kv, pool, build>>
      /\ validity' = [pool |-> kv, verdict |-> IF Cardinality(KnownPools) > 1 THEN "mismatch" ELSE "match"]
  BY DEF Verdict, turn
<1>2. BuildSet' = BuildSet /\ Runs' = Runs /\ Pools' = Pools /\ Builds' = Builds /\ Unread' = Unread
  BY <1>1, SettingStays
<1>3. kv = validity.pool /\ kv \in [BuildSet -> Pools \cup {Unknown}]
  BY <1>1 DEF ModalInv, VolumeOK, PoolsOnFile
<1>4. VolumeOK'
  BY <1>1, <1>2, <1>3 DEF ModalInv, VolumeOK
<1>5. BuildHasWork' /\ PoolsOnFile'
  BY <1>1 DEF BuildHasWork, PoolsOnFile, InBuild
<1>6. LastServerOnFile'
  BY <1>1, <1>2, <1>3 DEF ModalInv, LastServerOnFile, Pending
<1>7. IsFiniteSet(KnownPools)
  <2>1. IsFiniteSet({kv[b] : b \in BuildSet})
    BY <1>3, RangeFinite, SettingFacts DEF ModalInv, VolumeOK
  <2> QED  BY <2>1, FS_Subset DEF KnownPools
<1>8. MatchMeansEqual'
  <2> SUFFICES ASSUME validity'.verdict = "match", NEW b \in BuildSet, NEW c \in BuildSet,
                      kv[b] # Unknown, kv[c] # Unknown
               PROVE  kv[b] = kv[c]
    BY <1>1, <1>2 DEF MatchMeansEqual
  <2>1. Cardinality(KnownPools) <= 1
    BY <1>1, <1>7, FS_CardinalityType
  <2>2. kv[b] \in KnownPools /\ kv[c] \in KnownPools
    BY DEF KnownPools
  <2> QED  BY <1>7, <2>1, <2>2, AtMostOne
<1> QED  BY <1>4, <1>5, <1>6, <1>8 DEF ModalInv

LEMMA InitInv ==
  ASSUME Init
  PROVE  ModalInv
<1>1. setting \in Settings /\ Runs # {}
  BY SettingFacts DEF Init
<1>2. VolumeOK
  BY <1>1 DEF Init, VolumeOK
<1>3. BuildHasWork /\ PoolsOnFile
  BY DEF Init, BuildHasWork, PoolsOnFile, InBuild
<1>4. LastServerOnFile
  <2> SUFFICES ASSUME NEW b \in BuildSet PROVE Pending(b) = Runs
    BY <1>1 DEF LastServerOnFile
  <2> QED  BY DEF Init, Pending
<1>5. MatchMeansEqual
  BY DEF Init, MatchMeansEqual
<1> QED  BY <1>2, <1>3, <1>4, <1>5 DEF ModalInv

LEMMA StepInv ==
  ASSUME ModalInv, [Next]_vars
  PROVE  ModalInv'
<1> USE DEF turn, volume, history
<1>1. setting \in Settings /\ build \in Nat \ {0}
  BY DEF ModalInv, VolumeOK
<1>2. CASE Start
  BY <1>2, StartStep
<1>3. CASE Refuse
  <2>1. UNCHANGED <<setting, results, validity, kv, pool, build, pc, todo>>
    BY <1>3 DEF Refuse
  <2>2. BuildHasWork'
    BY <2>1, SettingStays DEF ModalInv, BuildHasWork, InBuild, Pending, Current
  <2> QED  BY <1>1, <2>1, <2>2, QuietStep
<1>4. CASE SkipBuild
  <2>1. UNCHANGED <<setting, results, validity, kv, pool, pc>> /\ pc = "build" /\ build' = build + 1
    BY <1>4 DEF SkipBuild
  <2> QED  BY <1>1, <2>1, QuietStep DEF BuildHasWork, InBuild
<1>5. CASE EndMatrix
  <2>1. UNCHANGED <<setting, results, validity, kv, pool, build>> /\ pc = "build" /\ pc' = "verdict"
    BY <1>5 DEF EndMatrix
  <2> QED  BY <1>1, <2>1, QuietStep DEF BuildHasWork, InBuild
<1>6. CASE StartServer
  <2>1. /\ UNCHANGED <<setting, results, validity, kv, pool, build>> /\ pc = "build" /\ pc' = "load"
        /\ build <= Len(Builds) /\ Pending(Current) # {} /\ todo' = Pending(Current)
    BY <1>6 DEF StartServer
  <2>2. BuildHasWork'
    BY <2>1, SettingStays DEF BuildHasWork, InBuild, Pending, Current
  <2> QED  BY <1>1, <2>1, <2>2, QuietStep
<1>7. CASE ServerReady \/ Probe
  BY <1>7, ServerReadyStep, ProbeStep
<1>8. CASE ServerFails
  <2>1. UNCHANGED <<setting, results, validity, kv, pool, build>> /\ pc = "load" /\ pc' = "unwind"
    BY <1>8 DEF ServerFails
  <2> QED  BY <1>1, <2>1, QuietStep DEF BuildHasWork, InBuild
<1>9. CASE Unwind
  BY <1>9, GoneStep DEF Unwind
<1>10. CASE RunSucceeds
  BY <1>10, RunSucceedsStep
<1>11. CASE RunFails
  <2>1. /\ UNCHANGED <<setting, results, validity, kv, pool, build>> /\ pc = "run" /\ pc' = "burn"
        /\ todo' \subseteq todo
    BY <1>11 DEF RunFails, RunEnds
  <2>2. BuildHasWork'
    BY <2>1, SettingStays DEF ModalInv, BuildHasWork, InBuild, Pending, Current
  <2> QED  BY <1>1, <2>1, <2>2, QuietStep
<1>12. CASE Burn
  <2>1. UNCHANGED <<setting, results, validity, kv, pool, build, todo>> /\ pc = "burn" /\ pc' = "run"
    BY <1>12 DEF Burn
  <2>2. BuildHasWork'
    BY <2>1, SettingStays DEF ModalInv, BuildHasWork, InBuild, Pending, Current
  <2> QED  BY <1>1, <2>1, <2>2, QuietStep
<1>13. CASE EndBuild
  <2>1. UNCHANGED <<setting, results, validity, kv, pool, build>> /\ pc = "run" /\ pc' = "stop"
    BY <1>13 DEF EndBuild
  <2> QED  BY <1>1, <2>1, QuietStep DEF BuildHasWork, InBuild
<1>14. CASE StopServer
  <2>1. /\ UNCHANGED <<setting, results, validity, kv, pool>> /\ pc = "stop"
        /\ pc' \in {"verdict", "build"} /\ build' = build + 1
    BY <1>14 DEF StopServer
  <2> QED  BY <1>1, <2>1, QuietStep DEF BuildHasWork, InBuild
<1>15. CASE Verdict
  BY <1>15, VerdictStep
<1>16. CASE Disarm
  <2>1. UNCHANGED <<setting, results, validity, kv, pool, build>> /\ pc = "final" /\ pc' = "book"
    BY <1>16 DEF Disarm
  <2> QED  BY <1>1, <2>1, QuietStep DEF BuildHasWork, InBuild
<1>17. CASE BookFinal
  BY <1>17, GoneStep DEF BookFinal
<1>18. CASE Terminate
  BY <1>18, GoneStep DEF Terminate
<1>19. CASE Vanish
  BY <1>19, GoneStep DEF Vanish
<1>20. CASE OtherReads \/ OtherWrites \/ UNCHANGED vars
  <2>1. UNCHANGED <<setting, results, validity, kv, pool, build, pc, todo>>
    BY <1>20 DEF OtherReads, OtherWrites, vars
  <2>2. BuildHasWork'
    BY <2>1, SettingStays DEF ModalInv, BuildHasWork, InBuild, Pending, Current
  <2> QED  BY <1>1, <2>1, <2>2, QuietStep
<1> QED
  BY <1>2, <1>3, <1>4, <1>5, <1>6, <1>7, <1>8, <1>9, <1>10, <1>11, <1>12, <1>13, <1>14, <1>15,
     <1>16, <1>17, <1>18, <1>19, <1>20 DEF Next

\* The invariant the theorems below rest on: the pools on file are those of the
\* servers that the last results of complete builds were measured on, or were not
\* shown by their logs.
THEOREM ModalInvariant == Spec => []ModalInv
<1>1. Init => ModalInv
  BY InitInv
<1>2. ModalInv /\ [Next]_vars => ModalInv'
  BY StepInv
<1> QED  BY <1>1, <1>2, PTL DEF Spec

-----------------------------------------------------------------------------
(* What the invariant gives.                                               *)

\* When each complete build was measured on one pool, that pool is on file, and
\* a verdict of match says that the pools on file are equal.
LEMMA InvHonest ==
  ASSUME ModalInv
  PROVE  VerdictHonest
<1> SUFFICES ASSUME Complete, validity.verdict = "match",
                    \A b \in BuildSet : Cardinality(Measured(b)) = 1,
                    Unread => \A b \in BuildSet : validity.pool[b] # Unknown
             PROVE  Cardinality(UNION {Measured(b) : b \in BuildSet}) <= 1
  BY DEF VerdictHonest
<1>1. results \in [BuildSet -> [Runs -> Pools \cup {Unknown}]] /\ IsFiniteSet(Runs)
  BY SettingFacts DEF ModalInv, VolumeOK
<1>2. ASSUME NEW b \in BuildSet
      PROVE  Measured(b) = {validity.pool[b]} /\ validity.pool[b] # Unknown
  <2>1. IsFiniteSet(Measured(b))
    BY <1>1, RangeFinite DEF Measured
  <2>2. PICK r \in Runs : results[b][r] = validity.pool[b]
    BY DEF ModalInv, LastServerOnFile, Complete
  <2>3. results[b][r] \in Measured(b)
    BY <2>2 DEF Measured
  <2>4. Cardinality(Measured(b)) <= 1
    OBVIOUS
  <2>5. \A x, y \in Measured(b) : x = y
    BY <2>1, <2>4, AtMostOne
  <2>6. results[b][r] # Unknown
    BY <2>2 DEF Complete, Pending
  <2> QED  BY <2>2, <2>3, <2>5, <2>6
<1>3. \A b, c \in BuildSet : validity.pool[b] = validity.pool[c]
  BY <1>2 DEF ModalInv, MatchMeansEqual
<1>4. CASE BuildSet = {}
  <2>1. UNION {Measured(b) : b \in BuildSet} = {}
    BY <1>4
  <2> QED  BY <2>1, FS_EmptySet
<1>5. CASE BuildSet # {}
  <2>1. PICK c \in BuildSet : TRUE
    BY <1>5
  <2>2. UNION {Measured(b) : b \in BuildSet} = {validity.pool[c]}
    BY <1>2, <1>3
  <2>3. Cardinality({validity.pool[c]}) = 1
    BY FS_Singleton
  <2>4. Cardinality(UNION {Measured(b) : b \in BuildSet}) = 1
    BY <2>2, <2>3, Zenon
  <2> QED  BY <2>4
<1> QED  BY <1>4, <1>5

LEMMA StepKeepsResults ==
  ASSUME ModalInv, [Next]_vars, NEW b \in BuildSet, NEW r \in Runs, results[b][r] # Unknown
  PROVE  results'[b][r] = results[b][r]
<1>1. CASE RunSucceeds
  <2>1. /\ Current \in BuildSet /\ NextRun \in Pending(Current)
        /\ results' = [results EXCEPT ![Current][NextRun] = pool]
    BY <1>1, ResultRecorded
  <2>2. b # Current \/ r # NextRun
    BY <2>1 DEF Pending
  <2>3. results \in [BuildSet -> [Runs -> Pools \cup {Unknown}]]
    BY DEF ModalInv, VolumeOK
  <2> QED  BY <2>1, <2>2, <2>3
<1>2. CASE ~RunSucceeds
  <2>1. results' = results
    BY <1>2 DEF Next, Start, Refuse, SkipBuild, EndMatrix, StartServer, ServerReady, Probe, ServerFails,
       Unwind, RunFails, Burn, EndBuild, StopServer, Verdict, Disarm, BookFinal, Terminate, Vanish,
       OtherReads, OtherWrites, vars, volume
  <2> QED  BY <2>1
<1> QED  BY <1>1, <1>2

\* Complete results, a verdict of match over pools that were read, and builds that
\* were each measured on one pool make a comparison on one pool, whatever containers were killed,
\* used again or invoked anew in between.
THEOREM VerdictIsHonest == Spec => []VerdictHonest
<1>1. ModalInv => VerdictHonest
  BY InvHonest
<1> QED  BY <1>1, ModalInvariant, PTL

\* No resume measures a run again that has a result, and none loses one.
THEOREM ResultsAreKept == Spec => ResultsKept
<1>1. ModalInv /\ [Next]_vars =>
        [\A b \in BuildSet, r \in Runs : results[b][r] # Unknown => results'[b][r] = results[b][r]]_vars
  BY StepKeepsResults
<1> QED  BY <1>1, ModalInvariant, PTL DEF Spec, ResultsKept

-----------------------------------------------------------------------------
\* A part of a finite set that is smallest among some of them.
LEMMA SmallestExists ==
  ASSUME NEW D, IsFiniteSet(D), NEW P \in SUBSET SUBSET D, P # {}
  PROVE  \E s \in P : \A u \in P : Cardinality(s) <= Cardinality(u)
<1> DEFINE C == {Cardinality(s) : s \in P}
<1>1. \A s \in P : Cardinality(s) \in Nat
  BY FS_Subset, FS_CardinalityType
<1>2. C \in SUBSET Nat /\ C # {}
  BY <1>1
<1>3. PICK c \in C : \A d \in C : c <= d
  <2> HIDE DEF C
  <2> QED  BY <1>2, LeastExists
<1> QED  BY <1>3

-----------------------------------------------------------------------------
(* The sum of a ledger.  It folds over the parts of the ledger's domain, one *)
(* element taken out at a time.                                              *)

OneOf(s) == CHOOSE x \in s : TRUE
Added(l, it, s) == IF s = {} THEN 0 ELSE l[OneOf(s)] + it[s \ {OneOf(s)}]
Parts(l) == CHOOSE it : it = [s \in SUBSET DOMAIN l |-> Added(l, it, s)]

LEMMA SumIsFold == ASSUME NEW l PROVE Sum(l) = Parts(l)[DOMAIN l]
BY DEF Sum, FoldFunction, FoldFunctionOnSet, MapThenFoldSet, Parts, Added, OneOf

\* Taking an element out of a part leaves a smaller part.
LEMMA OneLess ==
  ASSUME NEW D, IsFiniteSet(D), NEW s \in SUBSET D, s # {}
  PROVE  /\ OneOf(s) \in s /\ s \ {OneOf(s)} \in SUBSET D
         /\ Cardinality(s) \in Nat /\ Cardinality(s \ {OneOf(s)}) = Cardinality(s) - 1
<1>1. OneOf(s) \in s /\ IsFiniteSet(s)
  BY FS_Subset DEF OneOf
<1> QED  BY <1>1, FS_RemoveElement, FS_CardinalityType

\* The fold exists: on the parts of at most k elements, for every k.
LEMMA FoldExists ==
  ASSUME NEW l, IsFiniteSet(DOMAIN l)
  PROVE  Parts(l) = [s \in SUBSET DOMAIN l |-> Added(l, Parts(l), s)]
<1> DEFINE D == DOMAIN l
           Small(k) == {s \in SUBSET D : Cardinality(s) <= k}
           Good(k) == \E it : it = [s \in Small(k) |-> Added(l, it, s)]
           Bad == {k \in Nat : ~Good(k)}
<1>0. \A s \in SUBSET D : Cardinality(s) \in Nat /\ (Cardinality(s) = 0 <=> s = {})
  BY FS_Subset, FS_CardinalityType, FS_EmptySet
<1>1. Good(0)
  <2> DEFINE it == [s \in Small(0) |-> 0]
  <2>1. \A s \in Small(0) : s = {}
    BY <1>0
  <2>2. \A s \in Small(0) : Added(l, it, s) = 0
    BY <2>1 DEF Added
  <2>3. it = [s \in Small(0) |-> Added(l, it, s)]
    <3> HIDE DEF Small
    <3> QED  BY <2>2
  <2> QED  BY <2>3
<1>2. ASSUME NEW k \in Nat, Good(k) PROVE Good(k + 1)
  <2>1. PICK it : it = [s \in Small(k) |-> Added(l, it, s)]
    BY <1>2
  <2> DEFINE jt == [s \in Small(k + 1) |-> Added(l, it, s)]
  <2>2. ASSUME NEW s \in Small(k + 1) PROVE Added(l, it, s) = Added(l, jt, s)
    <3>1. CASE s = {}
      BY <3>1 DEF Added
    <3>2. CASE s # {}
      <4> DEFINE r == s \ {OneOf(s)}
      <4>1. r \in SUBSET D /\ Cardinality(r) = Cardinality(s) - 1 /\ Cardinality(s) \in Nat
            /\ Cardinality(s) <= k + 1
        BY <3>2, OneLess
      <4>2. r \in Small(k) /\ r \in Small(k + 1)
        <5> HIDE DEF r
        <5> QED  BY <4>1
      <4>3. it[r] = Added(l, it, r) /\ jt[r] = Added(l, it, r)
        <5> HIDE DEF r, Small
        <5> QED  BY <2>1, <4>2
      <4> QED  BY <3>2, <4>3 DEF Added
    <3> QED  BY <3>1, <3>2
  <2>3. jt = [s \in Small(k + 1) |-> Added(l, jt, s)]
    <3> HIDE DEF Small
    <3> QED  BY <2>2
  <2> QED  BY <2>3
<1>3. Bad = {}
  <2> SUFFICES ASSUME Bad # {} PROVE FALSE
    OBVIOUS
  <2>1. PICK k \in Bad : \A j \in Bad : k <= j
    <3> HIDE DEF Good
    <3> QED  BY LeastExists
  <2> HIDE DEF Good
  <2>2. k # 0 /\ k \in Nat
    BY <1>1, <2>1
  <2>3. k - 1 \in Nat /\ (k - 1) + 1 = k /\ ~(k <= k - 1)
    BY <2>2
  <2>4. Good(k - 1)
    BY <2>1, <2>3
  <2>5. Good((k - 1) + 1)
    BY <1>2, <2>3, <2>4
  <2>6. Good(k)
    BY <2>3, <2>5
  <2> QED  BY <2>1, <2>6
<1>4. Cardinality(D) \in Nat /\ Small(Cardinality(D)) = SUBSET D
  BY FS_CardinalityType, FS_Subset
<1>5. Good(Cardinality(D))
  <2> HIDE DEF Good
  <2> QED  BY <1>3, <1>4
<1>6. \E it : it = [s \in SUBSET D |-> Added(l, it, s)]
  <2> HIDE DEF Small
  <2> QED  BY <1>4, <1>5
<1> QED  BY <1>6 DEF Parts

\* Booking an amount changes the sum by what it changes the entry.
LEMMA SumUpdates ==
  ASSUME NEW D, IsFiniteSet(D), NEW l \in [D -> Nat], NEW t \in D, NEW v \in Nat
  PROVE  Sum(l) \in Nat /\ Sum([l EXCEPT ![t] = v]) = Sum(l) - l[t] + v
<1> DEFINE m == [l EXCEPT ![t] = v]
           Right(s) == /\ Parts(l)[s] \in Nat
                       /\ Parts(m)[s] = Parts(l)[s] + (IF t \in s THEN v - l[t] ELSE 0)
           Wrong == {s \in SUBSET D : ~Right(s)}
<1>1. DOMAIN l = D /\ DOMAIN m = D /\ m \in [D -> Nat] /\ l[t] \in Nat
  OBVIOUS
<1>2. \A s \in SUBSET D : Parts(l)[s] = Added(l, Parts(l), s) /\ Parts(m)[s] = Added(m, Parts(m), s)
  <2> HIDE DEF m
  <2> QED  BY <1>1, FoldExists
<1>3. ASSUME Wrong # {} PROVE FALSE
  <2>1. PICK s \in Wrong : \A u \in Wrong : Cardinality(s) <= Cardinality(u)
    <3> HIDE DEF Right
    <3>1. Wrong \in SUBSET SUBSET D
      OBVIOUS
    <3> HIDE DEF Wrong
    <3> QED  BY <1>3, <3>1, SmallestExists
  <2>2. CASE s = {}
    <3>1. Parts(l)[s] = 0 /\ Parts(m)[s] = 0
      BY <1>2, <2>2 DEF Added
    <3> HIDE DEF m
    <3> QED  BY <2>1, <2>2, <3>1
  <2>3. CASE s # {}
    <3> DEFINE x == OneOf(s)
               r == s \ {x}
    <3>1. /\ x \in s /\ x \in D /\ r \in SUBSET D
          /\ Cardinality(s) \in Nat /\ Cardinality(r) = Cardinality(s) - 1
      BY <2>3, OneLess
    <3>2. r \notin Wrong
      <4> HIDE DEF r, Wrong
      <4> QED  BY <2>1, <3>1
    <3>3. Right(r)
      <4> HIDE DEF Right, r
      <4> QED  BY <3>1, <3>2
    <3>4. Parts(l)[s] = l[x] + Parts(l)[r] /\ Parts(m)[s] = m[x] + Parts(m)[r]
      <4> HIDE DEF m
      <4> QED  BY <1>2, <2>3 DEF Added
    <3>5. /\ m[x] = (IF x = t THEN v ELSE l[x]) /\ l[x] \in Nat
          /\ (t \in s <=> t \in r \/ x = t) /\ (x = t => t \notin r)
      BY <3>1
    <3>6. Parts(l)[r] \in Nat /\ Parts(m)[r] = Parts(l)[r] + (IF t \in r THEN v - l[t] ELSE 0)
      BY <3>3
    <3> HIDE DEF m, r, x
    <3>7. Right(s)
      BY <1>1, <3>4, <3>5, <3>6
    <3> QED  BY <2>1, <3>7
  <2> QED  BY <2>2, <2>3
<1>4. Right(D)
  <2> HIDE DEF Right
  <2> QED  BY <1>3
<1>5. Sum(l) = Parts(l)[D] /\ Sum(m) = Parts(m)[D]
  <2> HIDE DEF m
  <2> QED  BY <1>1, SumIsFold
<1> HIDE DEF m
<1>6. Sum(m) = Sum(l) + (v - l[t]) /\ Sum(l) \in Nat
  BY <1>4, <1>5
<1>7. Sum(m) = Sum(l) - l[t] + v
  BY <1>1, <1>6
<1> QED  BY <1>6, <1>7 DEF m

\* Before anything is booked the sum is zero.
LEMMA SumOfNone ==
  ASSUME NEW D, IsFiniteSet(D)
  PROVE  Sum([t \in D |-> 0]) = 0
<1> DEFINE l == [t \in D |-> 0]
           Wrong == {s \in SUBSET D : Parts(l)[s] # 0}
<1>1. DOMAIN l = D /\ \A x \in D : l[x] = 0
  OBVIOUS
<1> HIDE DEF l
<1>2. \A s \in SUBSET D : Parts(l)[s] = Added(l, Parts(l), s)
  BY <1>1, FoldExists
<1>3. ASSUME Wrong # {} PROVE FALSE
  <2>1. PICK s \in Wrong : \A u \in Wrong : Cardinality(s) <= Cardinality(u)
    <3>1. Wrong \in SUBSET SUBSET D
      OBVIOUS
    <3> HIDE DEF Wrong
    <3> QED  BY <1>3, <3>1, SmallestExists
  <2>2. s # {}
    BY <1>2, <2>1 DEF Added
  <2> DEFINE r == s \ {OneOf(s)}
  <2>3. /\ OneOf(s) \in D /\ r \in SUBSET D
        /\ Cardinality(s) \in Nat /\ Cardinality(r) = Cardinality(s) - 1
    BY <2>1, <2>2, OneLess
  <2>4. Parts(l)[s] = l[OneOf(s)] + Parts(l)[r]
    BY <1>2, <2>1, <2>2 DEF Added
  <2> HIDE DEF r
  <2>5. Parts(l)[r] = 0
    BY <2>1, <2>3
  <2> QED  BY <1>1, <2>1, <2>3, <2>4, <2>5
<1> QED  BY <1>1, <1>3, SumIsFold DEF l

-----------------------------------------------------------------------------
(* Time and money.  A container knows its deadline, and what may still be   *)
(* taken on before it; its entry in the ledger is what it has booked so far. *)

LedgerTyped ==
  /\ ledger \in [0 .. MaxCalls -> Nat]
  /\ snapshot # <<>> => snapshot \in [0 .. MaxCalls -> Nat]
  /\ call \in 0 .. MaxCalls /\ (alive \/ pc # "idle" => task \in 0 .. MaxCalls)
  /\ spent \in Int /\ escaped \in Int

\* Loads and runs are begun only when they end before the deadline at the latest,
\* so that only the overrun of a probe and the stop of a server come after it.
TimeInv ==
  /\ now \in Nat /\ reserve \in Nat /\ ReserveMin <= reserve /\ deadline \in Int /\ buildDeadline \in Int
  /\ pc # "idle" => deadline + Margin <= Timeout
  /\ pc = "load" => now + reserve + ServerWait <= deadline
  /\ pc = "probe" => now + reserve <= deadline
  /\ pc \in {"load", "probe", "run", "burn"} => buildDeadline <= deadline
  /\ pc = "unwind" => now <= deadline
  /\ pc \in {"run", "burn", "stop"} => now <= deadline + Overrun
  /\ pc \notin {"idle", "load", "probe", "run", "burn", "stop", "unwind"} => now = 0 \/ now <= deadline + Overrun + StopTime

\* What the container that runs has booked of its own spend.
InHand == IF pc = "idle" THEN 0 ELSE ledger[task]

\* What can come after the deadline of a container.
Slack == Overrun + StopTime

\* With one container at a time, each for one call: the ledger holds what the
\* containers that have ended spent, but for what escaped it, and what the one
\* that runs has booked; and that leaves room for its deadline.
MoneyInv == Alone =>
  /\ ~alive /\ snapshot = <<>>
  /\ pc # "idle" => task = call /\ ledger[task] <= now
  /\ \A t \in DOMAIN ledger : t > call => ledger[t] = 0
  /\ Sum(ledger) - InHand = spent - escaped
  /\ spent - escaped <= Budget + Slack
  /\ pc # "idle" => spent - escaped + Most(deadline, 0) <= Budget

\* What the settings are, as numbers.
LEMMA SettingNumbers ==
  ASSUME setting \in Settings
  PROVE  /\ Budget \in Nat /\ MinUseful \in Nat /\ Timeout \in Nat /\ Margin \in Nat /\ ServerWait \in Nat
         /\ StopTime \in Nat /\ Reserve0 \in Nat /\ ReserveMin \in Nat /\ MinRunTime \in Nat /\ MaxCalls \in Nat
         /\ LoadTimes \subseteq 0 .. ServerWait /\ RunTimes \subseteq Nat /\ OtherSpends \subseteq Nat
         /\ MinRunTime <= ReserveMin /\ ReserveMin <= Reserve0 /\ Margin <= Timeout /\ Warm \in BOOLEAN
         /\ ProbeTimes \subseteq 0 .. ProbeTime /\ ProbeTime \in Nat
         /\ Overrun \in Nat /\ ProbeTime <= ReserveMin + Overrun
         /\ Slack \in Nat /\ Slack = Overrun + StopTime
<1>1. IsSetting(setting)
  BY ModalAssumption
<1>2. /\ Budget \in Nat /\ MinUseful \in Nat /\ Timeout \in Nat /\ Margin \in Nat /\ ServerWait \in Nat
      /\ StopTime \in Nat /\ Reserve0 \in Nat /\ ReserveMin \in Nat /\ MinRunTime \in Nat /\ MaxCalls \in Nat
      /\ LoadTimes \subseteq 0 .. ServerWait /\ RunTimes \subseteq Nat /\ OtherSpends \subseteq Nat
      /\ MinRunTime <= ReserveMin /\ ReserveMin <= Reserve0 /\ Margin <= Timeout /\ Warm \in BOOLEAN
  BY <1>1 DEF IsSetting, Budget, MinUseful, Timeout, Margin, ServerWait, StopTime, Reserve0, ReserveMin,
     MinRunTime, MaxCalls, LoadTimes, RunTimes, OtherSpends, Warm
<1>3. ProbeTimes \subseteq 0 .. ProbeTime /\ ProbeTime \in Nat
  BY <1>1 DEF IsSetting, ProbeTimes, ProbeTime
<1>4. Overrun \in Nat /\ ProbeTime <= ReserveMin + Overrun
  BY <1>2, <1>3 DEF Overrun, Most
<1>5. Slack \in Nat /\ Slack = Overrun + StopTime
  BY <1>2, <1>4 DEF Slack
<1> QED  BY <1>2, <1>3, <1>4, <1>5

\* The setting of a run of the script never changes.
Same == UNCHANGED <<Budget, MinUseful, Timeout, Margin, ServerWait, StopTime, Reserve0, ReserveMin, MinRunTime,
                    MaxCalls, LoadTimes, RunTimes, OtherSpends, Warm, ProbeTimes, ProbeTime, Overrun, Slack>>

LEMMA SettingKept == ASSUME [Next]_vars PROVE setting' = setting /\ Same
<1>1. setting' = setting
  BY DEF Next, Start, Refuse, SkipBuild, EndMatrix, StartServer, ServerReady, Probe, ServerFails, Unwind,
     RunSucceeds, RunFails, RunEnds, Burn, EndBuild, StopServer, Verdict, Disarm, BookFinal, Terminate,
     Vanish, OtherReads, OtherWrites, vars
<1> QED
  BY <1>1 DEF Same, Budget, MinUseful, Timeout, Margin, ServerWait, StopTime, Reserve0, ReserveMin,
     MinRunTime, MaxCalls, LoadTimes, RunTimes, OtherSpends, Warm, ProbeTimes, ProbeTime, Overrun, Slack, Most

\* A run is given up by the deadline of the container, if it was begun in time.
LEMMA RunFits ==
  ASSUME setting \in Settings, TimeInv, pc = "run", now + reserve <= buildDeadline
  PROVE  RunTimeout \in Nat /\ now + RunTimeout <= deadline
<1>1. /\ now \in Nat /\ reserve \in Nat /\ ReserveMin <= reserve /\ deadline \in Int /\ buildDeadline \in Int
      /\ buildDeadline <= deadline
  BY DEF TimeInv
<1>2. MinRunTime \in Nat /\ ReserveMin \in Nat /\ MinRunTime <= ReserveMin
  BY SettingNumbers
<1> QED  BY <1>1, <1>2 DEF RunTimeout, Most

\* How long a killed step can have been going on is within the deadline, but for
\* the overrun of a probe.
LEMMA ElapsedFits ==
  ASSUME setting \in Settings, TimeInv, NEW e \in Elapsed
  PROVE  e \in Nat /\ (e # 0 => now + e <= deadline + Overrun)
<1>0. /\ now \in Nat /\ reserve \in Nat /\ deadline \in Int /\ ServerWait \in Nat /\ ReserveMin <= reserve
      /\ pc = "load" => now + reserve + ServerWait <= deadline
      /\ pc = "probe" => now + reserve <= deadline
      /\ ProbeTime \in Nat /\ ReserveMin \in Nat /\ Overrun \in Nat /\ ProbeTime <= ReserveMin + Overrun
  BY SettingNumbers DEF TimeInv
<1>1. CASE pc = "load"
  <2>1. e \in {0, ServerWait}
    BY <1>1 DEF Elapsed
  <2> QED  BY <1>0, <1>1, <2>1
<1>2. CASE pc = "probe"
  <2>1. e \in {0, ProbeTime}
    BY <1>2 DEF Elapsed
  <2> QED  BY <1>0, <1>2, <2>1
<1>3. CASE pc = "run" /\ todo # {} /\ now + reserve <= buildDeadline
  <2>1. e \in {0, RunTimeout}
    BY <1>3 DEF Elapsed
  <2>2. RunTimeout \in Nat /\ now + RunTimeout <= deadline
    BY <1>3, RunFits
  <2> QED  BY <1>0, <2>1, <2>2
<1>4. CASE pc \notin {"load", "probe"} /\ ~(pc = "run" /\ todo # {} /\ now + reserve <= buildDeadline)
  <2>1. e = 0
    BY <1>4 DEF Elapsed
  <2> QED  BY <2>1
<1> QED  BY <1>1, <1>2, <1>3, <1>4

\* A share of what is left is not more than what is left.
LEMMA ShareFits ==
  ASSUME NEW a \in Nat, NEW k \in Nat, k >= 1
  PROVE  a \div k \in Int /\ a \div k <= a
OBVIOUS

\* The ledger has an entry for every call, and the other container's.
LEMMA LedgerNext ==
  ASSUME ModalInv, LedgerTyped, TimeInv, [Next]_vars
  PROVE  LedgerTyped'
<1>0. setting \in Settings /\ setting' = setting /\ Same
  BY SettingKept DEF ModalInv, VolumeOK
<1>1. /\ Budget \in Nat /\ StopTime \in Nat /\ MaxCalls \in Nat /\ MaxCalls' = MaxCalls
      /\ OtherSpends \subseteq Nat /\ now \in Nat /\ LoadTimes \subseteq Nat
  <2>1. LoadTimes \subseteq 0 .. ServerWait /\ ServerWait \in Nat
    BY <1>0, SettingNumbers
  <2> QED  BY <1>0, <2>1, SettingNumbers DEF Same, TimeInv
<1>2. /\ ledger \in [0 .. MaxCalls -> Nat] /\ (snapshot # <<>> => snapshot \in [0 .. MaxCalls -> Nat])
      /\ call \in 0 .. MaxCalls /\ (alive \/ pc # "idle" => task \in 0 .. MaxCalls)
      /\ spent \in Int /\ escaped \in Int
  BY DEF LedgerTyped
<1>3. \A t \in 0 .. MaxCalls, v \in Nat : Booked(t, v) \in [0 .. MaxCalls -> Nat]
  BY <1>2 DEF Booked
<1>4. CASE Start
  <2>1. PICK t \in {call + 1} \cup (IF alive THEN {task} ELSE {}) : task' = t /\ ledger' = Booked(t, 0)
    BY <1>4 DEF Start
  <2>2. call < MaxCalls /\ call' = call + 1 /\ UNCHANGED <<snapshot, spent, escaped>>
    BY <1>4 DEF Start, history
  <2>3. t \in 0 .. MaxCalls
    BY <1>1, <1>2, <2>1, <2>2
  <2>4. ledger' \in [0 .. MaxCalls -> Nat]
    BY <1>3, <2>1, <2>3
  <2>5. call' \in 0 .. MaxCalls
    BY <1>1, <1>2, <2>2
  <2> QED  BY <1>1, <1>2, <2>1, <2>2, <2>3, <2>4, <2>5 DEF LedgerTyped
<1>5. CASE Refuse
  BY <1>1, <1>2, <1>5 DEF Refuse, volume, history, LedgerTyped
<1>6. CASE ServerReady \/ Burn
  <2>1. /\ pc # "idle" /\ UNCHANGED <<call, task, snapshot, spent, escaped>>
        /\ \E v \in Nat : ledger' = Booked(task, v)
    <3>1. CASE Burn
      BY <1>1, <3>1 DEF Burn, history
    <3>2. CASE ServerReady
      <4>1. PICK d \in LoadTimes : ledger' = Booked(task, now + d)
        BY <3>2 DEF ServerReady
      <4>2. now + d \in Nat
        BY <1>1
      <4>3. pc # "idle" /\ UNCHANGED <<call, task, snapshot, spent, escaped>>
        BY <3>2 DEF ServerReady, history
      <4> QED  BY <4>1, <4>2, <4>3
    <3> QED  BY <1>6, <3>1, <3>2
  <2>2. ledger' \in [0 .. MaxCalls -> Nat] /\ task \in 0 .. MaxCalls
    BY <1>2, <1>3, <2>1
  <2> QED  BY <1>1, <1>2, <2>1, <2>2 DEF LedgerTyped
<1>7. CASE Unwind \/ BookFinal
  <2>1. /\ pc # "idle" /\ UNCHANGED <<call, task, snapshot, escaped>> /\ spent' \in Int
        /\ \E v \in Nat : ledger' = Booked(task, v)
    BY <1>1, <1>2, <1>7 DEF Unwind, BookFinal
  <2>2. ledger' \in [0 .. MaxCalls -> Nat] /\ task \in 0 .. MaxCalls
    BY <1>2, <1>3, <2>1
  <2> QED  BY <1>1, <1>2, <2>1, <2>2 DEF LedgerTyped
<1>8. CASE Terminate
  <2>1. PICK e \in Elapsed, tail \in {0} \cup {StopTime} :
          /\ ledger' = IF booked THEN ledger ELSE Booked(task, now + e)
          /\ spent' = spent + now + e + tail
          /\ escaped' = escaped + tail + now + e - ledger'[task]
    BY <1>8 DEF Terminate
  <2>2. e \in Nat /\ tail \in Nat /\ now + e \in Nat
    BY <1>0, <1>1, ElapsedFits
  <2>3. pc # "idle" /\ UNCHANGED <<call, task, snapshot, alive>>
    BY <1>8 DEF Terminate
  <2>4. ledger' \in [0 .. MaxCalls -> Nat]
    BY <1>2, <1>3, <2>1, <2>2, <2>3
  <2>5. ledger'[task] \in Nat
    BY <1>2, <2>3, <2>4
  <2> QED  BY <1>1, <1>2, <2>1, <2>2, <2>3, <2>4, <2>5 DEF LedgerTyped
<1>9. CASE Vanish
  <2>1. PICK e \in Elapsed : spent' = spent + now + e /\ escaped' = escaped + now + e - ledger[task]
    BY <1>9 DEF Vanish
  <2>2. e \in Nat
    BY <1>0, ElapsedFits
  <2>3. pc # "idle" /\ UNCHANGED <<ledger, call, task, snapshot, alive>>
    BY <1>9 DEF Vanish, volume
  <2>4. ledger[task] \in Nat
    BY <1>2, <2>3
  <2> QED  BY <1>1, <1>2, <2>1, <2>2, <2>3, <2>4 DEF LedgerTyped
<1>10. CASE OtherReads
  BY <1>1, <1>2, <1>10 DEF OtherReads, volume, history, LedgerTyped
<1>11. CASE OtherWrites
  BY <1>1, <1>2, <1>11 DEF OtherWrites, history, LedgerTyped
<1>12. CASE \/ SkipBuild \/ EndMatrix \/ StartServer \/ Probe \/ ServerFails \/ RunSucceeds \/ RunFails
            \/ EndBuild \/ StopServer \/ Verdict \/ Disarm \/ UNCHANGED vars
  <2>1. UNCHANGED <<ledger, call, task, snapshot, alive, spent, escaped>> /\ (pc' # "idle" => pc # "idle")
    BY <1>12 DEF SkipBuild, EndMatrix, StartServer, Probe, ServerFails, RunSucceeds, RunFails, RunEnds, EndBuild,
       StopServer, Verdict, Disarm, vars, volume, history
  <2> QED  BY <1>1, <1>2, <2>1 DEF LedgerTyped
<1> QED  BY <1>4, <1>5, <1>6, <1>7, <1>8, <1>9, <1>10, <1>11, <1>12 DEF Next

\* No step takes on what could not end before the deadline.
LEMMA TimeNext ==
  ASSUME ModalInv, LedgerTyped, TimeInv, [Next]_vars
  PROVE  TimeInv'
<1>0. setting \in Settings /\ setting' = setting /\ Same
  BY SettingKept DEF ModalInv, VolumeOK
<1>1. /\ Timeout \in Nat /\ Margin \in Nat /\ ServerWait \in Nat /\ StopTime \in Nat /\ Reserve0 \in Nat
      /\ ReserveMin \in Nat /\ Budget \in Nat /\ LoadTimes \subseteq 0 .. ServerWait /\ RunTimes \subseteq Nat
      /\ ProbeTimes \subseteq 0 .. ProbeTime /\ ProbeTime \in Nat /\ Overrun \in Nat /\ ProbeTime <= ReserveMin + Overrun
      /\ ReserveMin <= Reserve0 /\ build \in Nat \ {0} /\ Len(Builds) \in Nat
      /\ UNCHANGED <<Timeout, Margin, ServerWait, StopTime, ReserveMin, Overrun>>
  BY <1>0, SettingNumbers, SettingFacts DEF Same, ModalInv, VolumeOK
<1>2. /\ now \in Nat /\ reserve \in Nat /\ ReserveMin <= reserve /\ deadline \in Int /\ buildDeadline \in Int
      /\ pc # "idle" => deadline + Margin <= Timeout
      /\ pc = "load" => now + reserve + ServerWait <= deadline
      /\ pc = "probe" => now + reserve <= deadline
      /\ pc \in {"load", "probe", "run", "burn"} => buildDeadline <= deadline
      /\ pc = "unwind" => now <= deadline
      /\ pc \in {"run", "burn", "stop"} => now <= deadline + Overrun
      /\ pc \notin {"idle", "load", "probe", "run", "burn", "stop", "unwind"} => now = 0 \/ now <= deadline + Overrun + StopTime
  BY DEF TimeInv
<1>3. CASE Start
  <2>1. /\ now' = 0 /\ reserve' = Reserve0 /\ pc' = "build" /\ buildDeadline' = buildDeadline
        /\ \E t \in {call + 1} \cup (IF alive THEN {task} ELSE {}) : deadline' = Least(Timeout - Margin, Budget - PriorSpend(t))
        /\ call < MaxCalls
    BY <1>3 DEF Start
  <2>2. ASSUME NEW t \in {call + 1} \cup (IF alive THEN {task} ELSE {}) PROVE PriorSpend(t) \in Int
    <3>1. t \in 0 .. MaxCalls /\ MaxCalls \in Nat /\ ledger \in [0 .. MaxCalls -> Nat]
      BY <1>0, <2>1, SettingNumbers DEF LedgerTyped
    <3>2. IsFiniteSet(0 .. MaxCalls)
      BY <3>1, FS_Interval
    <3>3. Sum(ledger) \in Nat /\ ledger[t] \in Nat
      BY <3>1, <3>2, SumUpdates
    <3> QED  BY <3>3 DEF PriorSpend
  <2>3. deadline' \in Int /\ deadline' + Margin <= Timeout
    BY <1>1, <2>1, <2>2 DEF Least
  <2> QED  BY <1>1, <1>2, <2>1, <2>3 DEF TimeInv
<1>4. CASE StartServer
  <2>1. /\ build <= Len(Builds) /\ now + reserve + ServerWait <= deadline
        /\ buildDeadline' = now + (deadline - now) \div (Len(Builds) - build + 1)
        /\ pc = "build" /\ pc' = "load" /\ UNCHANGED <<now, deadline, reserve>>
    BY <1>4 DEF StartServer, RoomForBuild
  <2>2. deadline - now \in Nat /\ Len(Builds) - build + 1 \in Nat /\ Len(Builds) - build + 1 >= 1
    BY <1>1, <1>2, <2>1
  <2>3. /\ (deadline - now) \div (Len(Builds) - build + 1) \in Int
        /\ (deadline - now) \div (Len(Builds) - build + 1) <= deadline - now
    BY <2>2, ShareFits
  <2>4. buildDeadline' \in Int /\ buildDeadline' <= deadline
    BY <1>2, <2>1, <2>3
  <2> QED  BY <1>1, <1>2, <2>1, <2>4 DEF TimeInv
<1>5. CASE ServerReady \/ ServerFails
  <2>1. PICK d \in LoadTimes \cup {ServerWait} : now' = now + d
    BY <1>5 DEF ServerReady, ServerFails
  <2>2. /\ pc = "load" /\ pc' \in {"probe", "unwind"} /\ UNCHANGED <<deadline, reserve, buildDeadline>>
    BY <1>5 DEF ServerReady, ServerFails, turn
  <2>3. d \in Nat /\ d <= ServerWait
    BY <1>1
  <2>4. now' \in Nat /\ now' + reserve <= deadline /\ now' <= deadline
    BY <1>1, <1>2, <2>1, <2>2, <2>3
  <2> QED  BY <1>1, <1>2, <2>2, <2>4 DEF TimeInv
<1>10. CASE Probe
  <2>1. PICK e \in ProbeTimes : now' = now + e
    BY <1>10 DEF Probe
  <2>2. pc = "probe" /\ pc' = "run" /\ UNCHANGED <<deadline, reserve, buildDeadline>>
    BY <1>10 DEF Probe, turn
  <2>3. e \in Nat /\ e <= ProbeTime
    BY <1>1
  <2>4. now' \in Nat /\ now' <= deadline + Overrun
    BY <1>1, <1>2, <2>1, <2>2, <2>3
  <2> QED  BY <1>1, <1>2, <2>2, <2>4 DEF TimeInv
<1>6. CASE RunSucceeds \/ RunFails
  <2>1. PICK d \in {x \in RunTimes : x < RunTimeout} \cup {RunTimeout} : RunEnds(d)
    BY <1>6 DEF RunSucceeds, RunFails
  <2>2. /\ pc = "run" /\ pc' = "burn" /\ now + reserve <= buildDeadline /\ now' = now + d
        /\ UNCHANGED <<deadline, buildDeadline>>
    BY <2>1 DEF RunEnds
  <2>3. RunTimeout \in Nat /\ now + RunTimeout <= deadline
    BY <1>0, <2>2, RunFits
  <2>4. d \in Nat /\ d <= RunTimeout
    BY <1>1, <2>3
  <2>5. now' \in Nat /\ now' <= deadline
    BY <1>2, <2>2, <2>3, <2>4
  <2>6. reserve' \in Nat /\ ReserveMin <= reserve'
    <3>1. CASE RunFails
      BY <1>2, <3>1 DEF RunFails
    <3>2. CASE RunSucceeds
      <4>1. PICK c \in RunTimes : reserve' = Most(Most(reserve \div 2, (8 * c + 4) \div 5), ReserveMin)
        BY <3>2 DEF RunSucceeds
      <4>2. reserve \div 2 \in Int /\ (8 * c + 4) \div 5 \in Int
        BY <1>1, <1>2
      <4> QED  BY <1>1, <4>1, <4>2 DEF Most
    <3> QED  BY <1>6, <3>1, <3>2
  <2> QED  BY <1>1, <1>2, <2>2, <2>5, <2>6 DEF TimeInv
<1>7. CASE StopServer
  <2>1. /\ pc = "stop" /\ pc' \in {"verdict", "build"} /\ now' = now + StopTime
        /\ UNCHANGED <<deadline, buildDeadline, reserve>>
    BY <1>7 DEF StopServer
  <2> QED  BY <1>1, <1>2, <2>1 DEF TimeInv
<1>8. CASE Unwind \/ BookFinal \/ Terminate \/ Vanish
  <2>1. pc' = "idle" /\ now' = 0 /\ deadline' = 0 /\ buildDeadline' = 0 /\ reserve' = Reserve0
    BY <1>8 DEF Unwind, BookFinal, Terminate, Vanish, Gone
  <2> QED  BY <1>1, <2>1 DEF TimeInv
<1>9. CASE \/ Refuse \/ SkipBuild \/ EndMatrix \/ Burn \/ EndBuild \/ Verdict \/ Disarm
           \/ OtherReads \/ OtherWrites \/ UNCHANGED vars
  <2>1. UNCHANGED <<now, deadline, buildDeadline, reserve>>
    BY <1>9 DEF Refuse, SkipBuild, EndMatrix, Burn, EndBuild, Verdict, Disarm, OtherReads, OtherWrites,
       vars, turn
  <2>2. \/ pc' = pc
        \/ pc \in {"build", "verdict", "final"} /\ pc' \in {"verdict", "final", "book"}
        \/ pc = "burn" /\ pc' = "run"
        \/ pc = "run" /\ pc' = "stop"
    BY <1>9 DEF Refuse, SkipBuild, EndMatrix, Burn, EndBuild, Verdict, Disarm, OtherReads, OtherWrites, vars
  <2> QED  BY <1>1, <1>2, <2>1, <2>2 DEF TimeInv
<1> QED  BY <1>3, <1>4, <1>5, <1>6, <1>7, <1>8, <1>9, <1>10 DEF Next

\* What the invariants say of a container that runs alone, as numbers.
LEMMA MoneyFacts ==
  ASSUME ModalInv, LedgerTyped, TimeInv, MoneyInv, Alone
  PROVE  /\ Budget \in Nat /\ Slack \in Nat /\ MaxCalls \in Nat /\ now \in Nat /\ deadline \in Int
         /\ spent \in Int /\ escaped \in Int /\ call \in 0 .. MaxCalls /\ MinUseful \in Nat
         /\ ledger \in [0 .. MaxCalls -> Nat] /\ IsFiniteSet(0 .. MaxCalls) /\ Sum(ledger) \in Nat
         /\ ~alive /\ snapshot = <<>> /\ spent - escaped <= Budget + Slack
         /\ \A t \in 0 .. MaxCalls : t > call => ledger[t] = 0
         /\ pc = "idle" => Sum(ledger) = spent - escaped
         /\ pc # "idle" => /\ task = call /\ task \in 0 .. MaxCalls /\ ledger[task] <= now
                           /\ Sum(ledger) - ledger[task] = spent - escaped
                           /\ spent - escaped + Most(deadline, 0) <= Budget
                           /\ now <= Most(deadline, 0) + Slack
<1>1. /\ Budget \in Nat /\ Slack \in Nat /\ MaxCalls \in Nat /\ MinUseful \in Nat
  BY SettingNumbers DEF ModalInv, VolumeOK
<1>2. IsFiniteSet(0 .. MaxCalls) /\ ledger \in [0 .. MaxCalls -> Nat] /\ 0 \in 0 .. MaxCalls
  <2>1. MaxCalls \in Int /\ 0 \in Int /\ 0 \in 0 .. MaxCalls
    BY <1>1
  <2>2. IsFiniteSet(0 .. MaxCalls)
    BY <2>1, FS_Interval
  <2> QED  BY <2>1, <2>2 DEF LedgerTyped
<1>3. Sum(ledger) \in Nat
  BY <1>2, SumUpdates
<1>4. now \in Nat /\ deadline \in Int /\ (pc # "idle" => now <= Most(deadline, 0) + Slack)
  <2>1. CASE pc = "idle"
    BY <2>1 DEF TimeInv
  <2>2. CASE pc # "idle"
    <3>1. now \in Nat /\ deadline \in Int
      BY DEF TimeInv
    <3>2. /\ reserve \in Nat /\ ServerWait \in Nat /\ Overrun \in Nat /\ StopTime \in Nat /\ Slack = Overrun + StopTime
      BY SettingNumbers DEF TimeInv, ModalInv, VolumeOK
    <3>3. now = 0 \/ now <= deadline \/ now <= deadline + Overrun \/ now <= deadline + Overrun + StopTime
      BY <2>2, <3>1, <3>2 DEF TimeInv
    <3> QED  BY <1>1, <3>1, <3>2, <3>3 DEF Most
  <2> QED  BY <2>1, <2>2
<1>5. /\ spent \in Int /\ escaped \in Int /\ call \in 0 .. MaxCalls
      /\ pc # "idle" => task \in 0 .. MaxCalls
  BY DEF LedgerTyped
<1>6. /\ ~alive /\ snapshot = <<>> /\ spent - escaped <= Budget + Slack
      /\ \A t \in 0 .. MaxCalls : t > call => ledger[t] = 0
      /\ Sum(ledger) - InHand = spent - escaped
      /\ pc # "idle" => /\ task = call /\ ledger[task] <= now /\ spent - escaped + Most(deadline, 0) <= Budget
  <2>1. DOMAIN ledger = 0 .. MaxCalls
    BY <1>2
  <2> QED  BY <2>1 DEF MoneyInv
<1>7. CASE pc = "idle"
  BY <1>1, <1>2, <1>3, <1>4, <1>5, <1>6, <1>7 DEF InHand
<1>8. CASE pc # "idle"
  BY <1>1, <1>2, <1>3, <1>4, <1>5, <1>6, <1>8 DEF InHand
<1> QED  BY <1>7, <1>8

\* A booking replaces what the container had booked.
LEMMA BookingSum ==
  ASSUME ModalInv, LedgerTyped, TimeInv, MoneyInv, Alone, pc # "idle", NEW v \in Nat, ledger' = Booked(task, v)
  PROVE  /\ ledger'[task] = v /\ Sum(ledger') - v = spent - escaped /\ Sum(ledger') \in Int
         /\ \A t \in DOMAIN ledger' : t > call => ledger'[t] = 0
<1>1. /\ ledger \in [0 .. MaxCalls -> Nat] /\ IsFiniteSet(0 .. MaxCalls) /\ Sum(ledger) \in Nat
      /\ task = call /\ task \in 0 .. MaxCalls /\ Sum(ledger) - ledger[task] = spent - escaped
      /\ call \in Int /\ ledger[task] \in Nat /\ MaxCalls \in Nat
      /\ \A t \in 0 .. MaxCalls : t > call => ledger[t] = 0
  BY MoneyFacts
<1>2. ledger' = [ledger EXCEPT ![task] = v]
  BY DEF Booked
<1>3. Sum(ledger') = Sum(ledger) - ledger[task] + v
  <2>1. Sum([ledger EXCEPT ![task] = v]) = Sum(ledger) - ledger[task] + v
    BY <1>1, SumUpdates
  <2> QED  BY <1>2, <2>1
<1>4. Sum(ledger') - v = Sum(ledger) - ledger[task] /\ Sum(ledger') \in Int
  BY <1>1, <1>3
<1>5. ledger'[task] = v /\ \A t \in DOMAIN ledger' : t > call => ledger'[t] = 0
  BY <1>1, <1>2
<1> QED  BY <1>1, <1>4, <1>5

\* A container ends with v booked, and with what escaped the booking on record.
LEMMA EndMoney ==
  ASSUME ModalInv, LedgerTyped, TimeInv, MoneyInv, Alone, pc # "idle", Same,
         NEW v \in Nat, v <= Most(deadline, 0) + Slack, ledger' = Booked(task, v),
         pc' = "idle", call' = call, ~alive', snapshot' = snapshot,
         spent' - escaped' = spent - escaped + v
  PROVE  MoneyInv'
<1>1. /\ Sum(ledger') - v = spent - escaped /\ Sum(ledger') \in Int
      /\ \A t \in DOMAIN ledger' : t > call => ledger'[t] = 0
  BY BookingSum
<1>2. /\ Budget \in Nat /\ Slack \in Nat /\ deadline \in Int /\ snapshot = <<>>
      /\ spent - escaped \in Int /\ spent - escaped + Most(deadline, 0) <= Budget
  BY MoneyFacts
<1>3. InHand' = 0
  BY DEF InHand
<1>4. spent' - escaped' <= Budget + Slack
  BY <1>2 DEF Most
<1>5. Sum(ledger') - InHand' = spent' - escaped'
  BY <1>1, <1>2, <1>3
<1>6. Budget' = Budget /\ Slack' = Slack
  BY DEF Same
<1> QED  BY <1>1, <1>2, <1>4, <1>5, <1>6 DEF MoneyInv

\* A container goes on, and may have booked what it has spent by then.
LEMMA GoOnMoney ==
  ASSUME ModalInv, LedgerTyped, TimeInv, MoneyInv, Alone, pc # "idle", Same,
         NEW v \in Nat, v <= now', ledger' = Booked(task, v), now' \in Nat,
         pc' # "idle", UNCHANGED <<call, task, deadline, alive, snapshot, spent, escaped>>
  PROVE  MoneyInv'
<1>1. /\ ledger'[task] = v /\ Sum(ledger') - v = spent - escaped
      /\ \A t \in DOMAIN ledger' : t > call => ledger'[t] = 0
  BY BookingSum
<1>2. /\ snapshot = <<>> /\ ~alive /\ task = call
      /\ spent - escaped + Most(deadline, 0) <= Budget /\ spent - escaped <= Budget + Slack
  BY MoneyFacts
<1>3. InHand' = v
  BY <1>1 DEF InHand
<1>4. Budget' = Budget /\ Slack' = Slack
  BY DEF Same
<1> QED  BY <1>1, <1>2, <1>3, <1>4 DEF MoneyInv, Most

\* A new call takes what the ledger leaves of the budget, and books nothing yet.
LEMMA StartMoney ==
  ASSUME ModalInv, LedgerTyped, TimeInv, MoneyInv, Alone, Start, Same
  PROVE  MoneyInv'
<1>1. /\ Budget \in Nat /\ Slack \in Nat /\ MaxCalls \in Nat /\ MinUseful \in Nat /\ call \in 0 .. MaxCalls
      /\ ledger \in [0 .. MaxCalls -> Nat] /\ IsFiniteSet(0 .. MaxCalls) /\ Sum(ledger) \in Nat
      /\ ~alive /\ snapshot = <<>> /\ spent - escaped <= Budget + Slack
      /\ spent \in Int /\ escaped \in Int
      /\ \A t \in 0 .. MaxCalls : t > call => ledger[t] = 0
      /\ pc = "idle" => Sum(ledger) = spent - escaped
  BY MoneyFacts
<1>2. /\ pc = "idle" /\ call < MaxCalls /\ call' = call + 1 /\ pc' = "build" /\ now' = 0 /\ ~alive'
      /\ UNCHANGED <<snapshot, spent, escaped>> /\ Alone
      /\ task' = call + 1 /\ WorthStarting(Budget - PriorSpend(call + 1))
      /\ deadline' = Least(Timeout - Margin, Budget - PriorSpend(call + 1)) /\ ledger' = Booked(call + 1, 0)
  BY <1>1 DEF Start, history
<1>3. call + 1 \in 0 .. MaxCalls /\ call + 1 > call
  BY <1>1, <1>2
<1>4. ledger[call + 1] = 0
  BY <1>1, <1>3
<1>5. PriorSpend(call + 1) = spent - escaped
  BY <1>1, <1>2, <1>4 DEF PriorSpend
<1>6. ledger' = [ledger EXCEPT ![call + 1] = 0]
  BY <1>2 DEF Booked
<1>7. ledger' = ledger
  BY <1>1, <1>3, <1>4, <1>6
<1>8. InHand' = 0
  BY <1>2, <1>4, <1>7 DEF InHand
<1>9. Most(deadline', 0) <= Budget - (spent - escaped)
  <2>1. Timeout \in Int /\ Margin \in Int
    BY SettingNumbers DEF ModalInv, VolumeOK
  <2> QED  BY <1>1, <1>2, <1>5, <2>1 DEF Most, Least, WorthStarting
<1>10. \A t \in DOMAIN ledger' : t > call' => ledger'[t] = 0
  BY <1>1, <1>2, <1>7
<1>11. Sum(ledger') - InHand' = spent' - escaped'
  BY <1>1, <1>2, <1>7, <1>8
<1>12. spent' - escaped' + Most(deadline', 0) <= Budget'
  <2>1. Budget' = Budget /\ spent' = spent /\ escaped' = escaped
    BY <1>2 DEF Same
  <2>2. Most(deadline', 0) \in Int
    <3>1. Timeout \in Int /\ Margin \in Int
      BY SettingNumbers DEF ModalInv, VolumeOK
    <3> QED  BY <1>1, <1>2, <1>5, <3>1 DEF Most, Least
  <2> QED  BY <1>1, <1>9, <2>1, <2>2
<1>13. spent' - escaped' <= Budget' + Slack'
  BY <1>1, <1>2 DEF Same
<1>14. task' = call' /\ ledger'[task'] <= now'
  BY <1>2, <1>4, <1>7
<1> QED  BY <1>1, <1>2, <1>10, <1>11, <1>12, <1>13, <1>14 DEF MoneyInv

\* No step breaks the account of the ledger.
LEMMA MoneyNext ==
  ASSUME ModalInv, LedgerTyped, TimeInv, MoneyInv, [Next]_vars
  PROVE  MoneyInv'
<1>1. CASE ~Alone
  BY <1>1, SettingKept DEF Same, Alone, MoneyInv
<1>2. CASE Alone
  <2>0. Same /\ setting \in Settings /\ now' \in Nat
    BY SettingKept, TimeNext DEF ModalInv, VolumeOK, TimeInv
  <2>1. /\ Budget \in Nat /\ Slack \in Nat /\ StopTime \in Nat /\ Overrun \in Nat /\ Slack = Overrun + StopTime /\ MaxCalls \in Nat /\ now \in Nat /\ deadline \in Int
        /\ spent \in Int /\ escaped \in Int /\ snapshot = <<>> /\ ~alive
        /\ ledger \in [0 .. MaxCalls -> Nat]
        /\ pc # "idle" => /\ task \in 0 .. MaxCalls /\ ledger[task] <= now /\ now <= Most(deadline, 0) + Slack
    BY <1>2, <2>0, MoneyFacts, SettingNumbers
  <2>2. CASE Start
    BY <1>2, <2>0, <2>2, StartMoney
  <2>3. CASE Refuse \/ UNCHANGED vars
    <3>1. /\ UNCHANGED <<ledger, task, pc, now, deadline, alive, snapshot, spent, escaped>>
          /\ call' = call \/ (pc = "idle" /\ call' = call + 1)
      BY <2>3 DEF Refuse, vars, volume, history
    <3>2. call' >= call /\ call \in Int
      <4>1. call \in Int
        BY <1>2, <2>1, MoneyFacts
      <4> QED  BY <3>1, <4>1
    <3>3. \A t \in 0 .. MaxCalls : t > call' => t > call
      BY <2>1, <3>1, <3>2
    <3>4. Sum(ledger') = Sum(ledger) /\ InHand' = InHand /\ Budget' = Budget /\ Slack' = Slack
      BY <2>0, <3>1 DEF InHand, Same
    <3> QED  BY <1>2, <2>1, <3>1, <3>3, <3>4 DEF MoneyInv
  <2>4. CASE ServerReady \/ Burn
    <3>1. /\ pc # "idle" /\ pc' # "idle" /\ ledger' = Booked(task, now')
          /\ UNCHANGED <<call, task, deadline, alive, snapshot, spent, escaped>>
      BY <2>4 DEF ServerReady, Burn, history
    <3> QED  BY <1>2, <2>0, <3>1, GoOnMoney
  <2>5. CASE \/ SkipBuild \/ EndMatrix \/ StartServer \/ Probe \/ ServerFails \/ RunSucceeds \/ RunFails
             \/ EndBuild \/ StopServer \/ Verdict \/ Disarm
    <3>1. /\ pc # "idle" /\ pc' # "idle"
          /\ UNCHANGED <<ledger, call, task, deadline, alive, snapshot, spent, escaped>>
      BY <2>5 DEF SkipBuild, EndMatrix, StartServer, Probe, ServerFails, RunSucceeds, RunFails, RunEnds, EndBuild,
         StopServer, Verdict, Disarm, volume, history
    <3>2. now <= now'
      <4>1. CASE RunSucceeds \/ RunFails
        <5>1. PICK d \in {x \in RunTimes : x < RunTimeout} \cup {RunTimeout} : RunEnds(d)
          BY <4>1 DEF RunSucceeds, RunFails
        <5>2. pc = "run" /\ now + reserve <= buildDeadline /\ now' = now + d
          BY <5>1 DEF RunEnds
        <5>3. RunTimeout \in Nat /\ RunTimes \subseteq Nat
          BY <2>0, <5>2, RunFits, SettingNumbers
        <5> QED  BY <2>1, <5>2, <5>3
      <4>2. CASE ServerFails \/ Probe
        <5>1. /\ LoadTimes \subseteq 0 .. ServerWait /\ ServerWait \in Nat
              /\ ProbeTimes \subseteq 0 .. ProbeTime /\ ProbeTime \in Nat
          BY <2>0, SettingNumbers
        <5> QED  BY <2>1, <4>2, <5>1 DEF ServerFails, Probe
      <4>3. CASE StopServer
        BY <2>1, <4>3 DEF StopServer
      <4>4. CASE SkipBuild \/ EndMatrix \/ StartServer \/ EndBuild \/ Verdict \/ Disarm
        BY <2>1, <4>4 DEF SkipBuild, EndMatrix, StartServer, EndBuild, Verdict, Disarm
      <4> QED  BY <2>5, <4>1, <4>2, <4>3, <4>4
    <3>3. ledger' = Booked(task, ledger[task]) /\ ledger[task] \in Nat
      BY <2>1, <3>1 DEF Booked
    <3>4. ledger[task] <= now'
      BY <2>0, <2>1, <3>1, <3>2, <3>3
    <3> QED  BY <1>2, <2>0, <3>1, <3>3, <3>4, GoOnMoney
  <2>6. CASE Unwind
    <3>1. /\ pc = "unwind" /\ spent' = spent + now + StopTime /\ ledger' = Booked(task, now + StopTime)
          /\ pc' = "idle" /\ UNCHANGED <<call, alive, snapshot, escaped>>
      BY <2>6 DEF Unwind, Gone
    <3>2. now <= Most(deadline, 0)
      BY <2>1, <3>1 DEF TimeInv, Most
    <3>3. /\ now + StopTime \in Nat /\ now + StopTime <= Most(deadline, 0) + Slack
          /\ spent' - escaped' = spent - escaped + (now + StopTime)
      BY <2>1, <3>1, <3>2 DEF Most
    <3> QED  BY <1>2, <2>0, <2>1, <3>1, <3>3, EndMoney
  <2>7. CASE BookFinal
    <3>1. /\ pc = "book" /\ spent' = spent + now /\ ledger' = Booked(task, now)
          /\ pc' = "idle" /\ UNCHANGED <<call, snapshot, escaped>> /\ ~alive'
      BY <1>2, <2>7 DEF BookFinal, Gone, Alone
    <3>2. spent' - escaped' = spent - escaped + now
      BY <2>1, <3>1
    <3> QED  BY <1>2, <2>0, <2>1, <3>1, <3>2, EndMoney
  <2>8. CASE Terminate
    <3>1. PICK e \in Elapsed, tail \in {0} \cup {StopTime} :
            /\ ledger' = IF booked THEN ledger ELSE Booked(task, now + e)
            /\ spent' = spent + now + e + tail
            /\ escaped' = escaped + tail + now + e - ledger'[task]
      BY <2>8 DEF Terminate
    <3>2. pc # "idle" /\ pc' = "idle" /\ UNCHANGED <<call, task, snapshot, alive>>
      BY <2>8 DEF Terminate, Gone
    <3>3. e \in Nat /\ (e # 0 => now + e <= deadline + Overrun) /\ tail \in Nat
      BY <2>0, <2>1, ElapsedFits
    <3>4. now + e \in Nat /\ now + e <= Most(deadline, 0) + Slack
      BY <2>1, <3>2, <3>3 DEF Most
    <3>5. PICK v \in Nat : v <= Most(deadline, 0) + Slack /\ ledger' = Booked(task, v)
      <4>1. CASE booked
        <5>1. ledger[task] \in Nat /\ ledger' = Booked(task, ledger[task])
          BY <2>1, <3>1, <3>2, <4>1 DEF Booked
        <5>2. ledger[task] <= Most(deadline, 0) + Slack
          BY <2>1, <3>2, <5>1 DEF Most
        <5> QED  BY <5>1, <5>2
      <4>2. CASE ~booked
        BY <3>1, <3>4, <4>2
      <4> QED  BY <4>1, <4>2
    <3>6. ledger'[task] = v
      BY <2>1, <3>2, <3>5 DEF Booked
    <3>7. spent' - escaped' = spent - escaped + v
      BY <2>1, <3>1, <3>3, <3>6
    <3> QED  BY <1>2, <2>0, <2>1, <3>2, <3>5, <3>7, EndMoney
  <2>9. CASE Vanish
    <3>1. PICK e \in Elapsed : spent' = spent + now + e /\ escaped' = escaped + now + e - ledger[task]
      BY <2>9 DEF Vanish
    <3>2. pc # "idle" /\ pc' = "idle" /\ UNCHANGED <<ledger, call, task, snapshot, alive>>
      BY <2>9 DEF Vanish, Gone, volume
    <3>3. e \in Nat
      BY <2>0, ElapsedFits
    <3>4. ledger[task] \in Nat /\ ledger' = Booked(task, ledger[task])
      BY <2>1, <3>2 DEF Booked
    <3>5. ledger[task] <= Most(deadline, 0) + Slack
      BY <2>1, <3>2, <3>4 DEF Most
    <3>6. spent' - escaped' = spent - escaped + ledger[task]
      BY <2>1, <3>1, <3>3, <3>4
    <3> QED  BY <1>2, <2>0, <2>1, <3>2, <3>4, <3>5, <3>6, EndMoney
  <2>10. CASE OtherReads \/ OtherWrites
    BY <1>2, <2>1, <2>10 DEF OtherReads, OtherWrites, Alone
  <2> QED  BY <2>2, <2>3, <2>4, <2>5, <2>6, <2>7, <2>8, <2>9, <2>10 DEF Next
<1> QED  BY <1>1, <1>2

\* At the start nothing is booked.
LEMMA BookInit ==
  ASSUME Init
  PROVE  LedgerTyped /\ TimeInv /\ MoneyInv
<1>1. /\ setting \in Settings /\ ledger = [t \in 0 .. MaxCalls |-> 0] /\ call = 0 /\ task = 1 /\ pc = "idle"
      /\ now = 0 /\ deadline = 0 /\ buildDeadline = 0 /\ reserve = Reserve0 /\ ~alive /\ snapshot = <<>>
      /\ spent = 0 /\ escaped = 0
  BY DEF Init
<1>2. /\ Budget \in Nat /\ Slack \in Nat /\ MaxCalls \in Nat /\ Reserve0 \in Nat /\ ReserveMin \in Nat
      /\ ReserveMin <= Reserve0
  BY <1>1, SettingNumbers
<1>3. Sum(ledger) = 0
  <2>1. MaxCalls \in Int /\ 0 \in Int
    BY <1>2
  <2>2. IsFiniteSet(0 .. MaxCalls)
    BY <2>1, FS_Interval
  <2>3. Sum([t \in 0 .. MaxCalls |-> 0]) = 0
    BY <2>2, SumOfNone
  <2> QED  BY <1>1, <2>3
<1>4. LedgerTyped
  BY <1>1, <1>2 DEF LedgerTyped
<1>5. TimeInv
  BY <1>1, <1>2 DEF TimeInv
<1>6. MoneyInv
  <2>1. \A t \in DOMAIN ledger : ledger[t] = 0
    BY <1>1
  <2> QED  BY <1>1, <1>2, <1>3, <2>1 DEF MoneyInv, InHand
<1> QED  BY <1>4, <1>5, <1>6

\* What a container has booked, the time it has taken and what it was given of
\* the budget fit together, in every reachable state.
THEOREM AccountInvariant == Spec => [](LedgerTyped /\ TimeInv /\ MoneyInv)
<1>1. Init => LedgerTyped /\ TimeInv /\ MoneyInv
  BY BookInit
<1>2. ModalInv /\ (LedgerTyped /\ TimeInv /\ MoneyInv) /\ [Next]_vars => (LedgerTyped /\ TimeInv /\ MoneyInv)'
  BY LedgerNext, TimeNext, MoneyNext
<1> QED  BY <1>1, <1>2, ModalInvariant, PTL DEF Spec

LEMMA InvStopsInTime ==
  ASSUME ModalInv, TimeInv
  PROVE  StopsInTime
<1>1. Timeout \in Nat /\ Margin \in Nat /\ StopTime \in Nat /\ Overrun \in Nat /\ ServerWait \in Nat
      /\ Margin <= Timeout
  BY SettingNumbers DEF ModalInv, VolumeOK
<1>2. /\ now \in Nat /\ reserve \in Nat /\ deadline \in Int
      /\ pc # "idle" => deadline + Margin <= Timeout
  BY DEF TimeInv
<1>3. pc # "idle" => now = 0 \/ now <= deadline \/ now <= deadline + Overrun \/ now <= deadline + Overrun + StopTime
  BY <1>1, <1>2 DEF TimeInv
<1> QED  BY <1>1, <1>2, <1>3 DEF StopsInTime

LEMMA InvCapHolds ==
  ASSUME ModalInv, LedgerTyped, TimeInv, MoneyInv
  PROVE  CapHolds
<1> SUFFICES ASSUME Alone PROVE SpentNow <= Budget + Slack + escaped
  <2>1. /\ Budget \in Nat /\ Overrun \in Nat /\ StopTime \in Nat /\ Slack = Overrun + StopTime
        /\ escaped \in Int
    BY SettingNumbers DEF ModalInv, VolumeOK, LedgerTyped
  <2> QED  BY <2>1 DEF CapHolds
<1>1. /\ Budget \in Nat /\ Slack \in Nat /\ now \in Nat /\ deadline \in Int /\ spent \in Int /\ escaped \in Int
      /\ spent - escaped <= Budget + Slack
      /\ pc # "idle" => spent - escaped + Most(deadline, 0) <= Budget /\ now <= Most(deadline, 0) + Slack
  BY MoneyFacts
<1>2. CASE pc = "idle"
  BY <1>1, <1>2 DEF SpentNow
<1>3. CASE pc # "idle"
  <2>1. Most(deadline, 0) \in Int
    BY <1>1 DEF Most
  <2> QED  BY <1>1, <1>3, <2>1 DEF SpentNow
<1> QED  BY <1>2, <1>3

\* A booking is never below the one it replaces: a container's time only grows.
LEMMA StepGrowsLedger ==
  ASSUME ModalInv, LedgerTyped, TimeInv, MoneyInv, [Next]_vars, Alone, NEW t \in DOMAIN ledger
  PROVE  ledger'[t] >= ledger[t]
<1>1. /\ StopTime \in Nat /\ now \in Nat /\ ledger \in [0 .. MaxCalls -> Nat] /\ setting \in Settings
      /\ ~alive /\ snapshot = <<>> /\ call \in 0 .. MaxCalls /\ MaxCalls \in Nat
      /\ \A x \in 0 .. MaxCalls : x > call => ledger[x] = 0
      /\ pc # "idle" => ledger[task] <= now
  BY MoneyFacts, SettingNumbers DEF ModalInv, VolumeOK
<1>2. t \in 0 .. MaxCalls /\ ledger[t] \in Nat
  BY <1>1
<1>3. CASE Start
  <2>1. call < MaxCalls /\ ledger' = Booked(call + 1, 0)
    BY <1>1, <1>3 DEF Start
  <2>2. ledger[call + 1] = 0
    BY <1>1, <2>1
  <2> QED  BY <1>1, <1>2, <2>1, <2>2 DEF Booked
<1>4. CASE ServerReady \/ Burn \/ Unwind \/ BookFinal \/ Terminate
  <2>1. pc # "idle" /\ (ledger' = ledger \/ \E v \in Nat : v >= now /\ ledger' = Booked(task, v))
    <3>1. CASE Burn \/ Unwind \/ BookFinal
      BY <1>1, <3>1 DEF Burn, Unwind, BookFinal
    <3>2. CASE ServerReady
      <4>1. LoadTimes \subseteq 0 .. ServerWait /\ ServerWait \in Nat
        BY <1>1, SettingNumbers
      <4>2. PICK d \in LoadTimes : ledger' = Booked(task, now + d)
        BY <3>2 DEF ServerReady
      <4>3. now + d \in Nat /\ now + d >= now /\ pc # "idle"
        BY <1>1, <3>2, <4>1 DEF ServerReady
      <4> QED  BY <4>2, <4>3
    <3>3. CASE Terminate
      <4>1. PICK e \in Elapsed : ledger' = IF booked THEN ledger ELSE Booked(task, now + e)
        BY <3>3 DEF Terminate
      <4>2. e \in Nat /\ now + e \in Nat /\ now + e >= now /\ pc # "idle"
        BY <1>1, <3>3, ElapsedFits DEF Terminate
      <4> QED  BY <4>1, <4>2
    <3> QED  BY <1>4, <3>1, <3>2, <3>3
  <2>2. CASE ledger' = ledger
    BY <1>2, <2>2
  <2>3. CASE \E v \in Nat : v >= now /\ ledger' = Booked(task, v)
    <3>1. PICK v \in Nat : v >= now /\ ledger' = Booked(task, v)
      BY <2>3
    <3>2. CASE t = task
      BY <1>1, <1>2, <2>1, <3>1, <3>2 DEF Booked
    <3>3. CASE t # task
      BY <1>1, <1>2, <3>1, <3>3 DEF Booked
    <3> QED  BY <3>2, <3>3
  <2> QED  BY <2>1, <2>2, <2>3
<1>5. CASE OtherWrites
  BY <1>1, <1>5 DEF OtherWrites
<1>6. CASE \/ Refuse \/ SkipBuild \/ EndMatrix \/ StartServer \/ Probe \/ ServerFails \/ RunSucceeds \/ RunFails
           \/ EndBuild \/ StopServer \/ Verdict \/ Disarm \/ Vanish \/ OtherReads \/ UNCHANGED vars
  <2>1. ledger' = ledger
    BY <1>6 DEF Refuse, SkipBuild, EndMatrix, StartServer, Probe, ServerFails, RunSucceeds, RunFails, RunEnds,
       EndBuild, StopServer, Verdict, Disarm, Vanish, OtherReads, vars, volume
  <2> QED  BY <1>2, <2>1
<1> QED  BY <1>3, <1>4, <1>5, <1>6 DEF Next

\* However long loads, probes and runs take, a container of run_bench is through,
\* its server stopped, by its deadline, an overrun of the probe and a shutdown: by
\* the timeout of its call where the margin covers both.
THEOREM ContainersStopInTime == Spec => []StopsInTime
<1>1. ModalInv /\ (LedgerTyped /\ TimeInv /\ MoneyInv) => StopsInTime
  BY InvStopsInTime
<1> QED  BY <1>1, ModalInvariant, AccountInvariant, PTL

\* Through every sequence of crashes, kills and new calls, all containers together
\* spend no more than the cap, one overrun of the probe, one server shutdown, and
\* what kills kept from the ledger.
THEOREM SpendIsCapped == Spec => []CapHolds
<1>1. ModalInv /\ (LedgerTyped /\ TimeInv /\ MoneyInv) => CapHolds
  BY InvCapHolds
<1> QED  BY <1>1, ModalInvariant, AccountInvariant, PTL

\* No booking takes back what was booked before.
THEOREM LedgerOnlyGrows == Spec => LedgerGrows
<1>1. ModalInv /\ (LedgerTyped /\ TimeInv /\ MoneyInv) /\ [Next]_vars
        => [Alone => \A t \in DOMAIN ledger : ledger'[t] >= ledger[t]]_vars
  BY StepGrowsLedger
<1> QED  BY <1>1, ModalInvariant, AccountInvariant, PTL DEF Spec, LedgerGrows

=============================================================================
