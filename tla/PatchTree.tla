------------------------------ MODULE PatchTree ------------------------------
(***************************************************************************)
(* The patch scripts of kernels/patches as functions on a tree of files.   *)
(* A file is the set of what was done to it: "ours" for a file of          *)
(* tml_fa4_modified, and the scripts that edited it; {} is stock.  A       *)
(* script takes its files in order.  In each it skips the edits that are   *)
(* there, and stops at the first anchor that is not, with the earlier      *)
(* files written and this one untouched.                                   *)
(***************************************************************************)
EXTENDS Naturals, Sequences

TmlFiles == {"fwd", "sm90", "iface"}     \* flash_fwd.py, flash_fwd_sm90.py, interface.py
OpsFiles == {"attn", "route", "qkvr"}    \* attention.py, fa4_rel_attention.py, qkvr_prep.py
Files == TmlFiles \cup OpsFiles
Stock == [f \in Files |-> {}]

(* A script is the files it writes, in order: of each, what must have been *)
(* done to it for the anchors to be there, and what takes away both the    *)
(* anchors and the finished edits.                                         *)
Edits(f, needs, breaks) == [file |-> f, needs |-> needs, breaks |-> breaks]
V0 == <<Edits("fwd", {}, {"ours", "v1"}), Edits("iface", {}, {})>>
V1 == <<Edits("fwd", {"v0"}, {"ours"})>>
Port == <<Edits("sm90", {}, {"ours", "direct"}), Edits("iface", {"v0"}, {"ours"})>>
Direct == <<Edits("sm90", {"port"}, {"ours"})>>
\* Its mma anchor is in no file of this commit.
InKernel == <<Edits("sm90", {"ours"}, {"ours"}), Edits("iface", {"ours"}, {"ours"})>>
Route == <<Edits("route", {}, {})>>
U3 == <<Edits("qkvr", {}, {"shear"})>>
\* Mutant: the interface edits anchor on the text of v0.
BugShear == <<Edits("qkvr", {}, {}), Edits("route", {}, {}), Edits("attn", {}, {}), Edits("iface", {"v0"}, {})>>
Shear == <<Edits("qkvr", {}, {}), Edits("route", {}, {}), Edits("attn", {}, {}), Edits("iface", {"ours"}, {})>>

Script == [v0 |-> V0, v1 |-> V1, port |-> Port, direct |-> Direct, inkernel |-> InKernel, route |-> Route, u3 |-> U3, shear |-> Shear]
Scripts == DOMAIN Script
Touched(p) == {e.file : e \in {Script[p][i] : i \in DOMAIN Script[p]}}
Tree == [Files -> SUBSET (Scripts \cup {"ours"})]

Editable(p, e, t) == t[e.file] \cap e.breaks = {} /\ (p \in t[e.file] \/ e.needs \subseteq t[e.file])

\* How many files a script gets through.
Reach(p, t) ==
  CHOOSE n \in 0 .. Len(Script[p]) :
    /\ \A i \in 1 .. n : Editable(p, Script[p][i], t)
    /\ n < Len(Script[p]) => ~Editable(p, Script[p][n + 1], t)
Applies(p, t) == Reach(p, t) = Len(Script[p])

\* The tree after the first n files.
Patched(p, n, t) == [f \in Files |-> IF \E i \in 1 .. n : Script[p][i].file = f THEN t[f] \cup {p} ELSE t[f]]

Overlay(t) == [f \in Files |-> IF f \in TmlFiles THEN {"ours"} ELSE t[f]]
=============================================================================
