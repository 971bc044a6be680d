------------------------------ MODULE GpuFleet ------------------------------
(***************************************************************************)
(* The launchers that rent GPU machines: grab_b200.py, wait_and_grab.py    *)
(* (which runs it), grab_8x_gates.py, book_user_node.py, aws_8x_gates.py,  *)
(* and gates_watchdog.sh on a rented box.  Several run at once, each a     *)
(* process that can be killed, against clouds whose calls can fail before  *)
(* or after they take effect.  How long anything takes is left open: every *)
(* wait of the code has a deadline, so "give up" is always a possible step.*)
(***************************************************************************)
EXTENDS Naturals, FiniteSets

CONSTANTS
  Grabs,     \* runs of grab_b200.py
  Waiters,   \* those of them that wait_and_grab.py starts
  Parks,     \* those of them with --park
  Gates,     \* runs of grab_8x_gates.py
  Users,     \* runs of book_user_node.py
  Aws,       \* runs of aws_8x_gates.py
  Machines,  \* bound: machines the clouds will rent out
  MaxPolls   \* range(40) of wait_and_grab.py

Procs == Grabs \cup Gates \cup Users \cup Aws

ASSUME FleetAssumption ==
  /\ Waiters \subseteq Grabs /\ Parks \subseteq Grabs /\ MaxPolls \in Nat \ {0}
  /\ \A s, t \in {Grabs, Gates, Users, Aws} : s # t => s \cap t = {}
  /\ "none" \notin Machines \cup Procs

VARIABLES
  pc,       \* process -> where it is
  polls,    \* process -> times it has seen an instance that is still there
  iid,      \* process -> the machine whose id it was told, or "none"
  machine,  \* machine -> its status at the cloud
  label,    \* machine -> the process whose launch call rented it
  left,     \* history: machine -> why nobody will give it back, or "no"
  watchdog  \* machine -> "off", "armed" or "fired"

vars == <<pc, polls, iid, machine, label, left, watchdog>>

Billing == {m \in Machines : machine[m] \in {"booting", "active"}}
Listed == Billing \cup {m \in Machines : machine[m] = "terminating"}

\* GET /instances on Lambda, of the machines whose name starts with inkling-turbo.
InklingTurbo == {m \in Listed : label[m] \in Grabs \cup Gates}
UserNodes == {m \in Listed : label[m] \in Users}

Goto(p, at) == pc' = [pc EXCEPT ![p] = at]
OnlyPc == UNCHANGED <<polls, iid, machine, label, left, watchdog>>

-----------------------------------------------------------------------------
(* Before anything is rented.                                              *)

\* wait_and_grab: look until nothing is there, or often enough.
WaitPoll(p) ==
  /\ pc[p] = "wait"
  /\ IF InklingTurbo = {} \/ polls[p] + 1 = MaxPolls
       THEN Goto(p, "guard") /\ UNCHANGED polls
       ELSE polls' = [polls EXCEPT ![p] = @ + 1] /\ UNCHANGED pc
  /\ UNCHANGED <<iid, machine, label, left, watchdog>>

\* The double-launch guard, read once.  A run on AWS has none: it sets up
\* quota, key pair and security group.
Guard(p) ==
  /\ pc[p] = "guard"
  /\ \/ p \in Grabs \cup Gates /\ Goto(p, IF InklingTurbo = {} THEN "hunt" ELSE "done")
     \/ p \in Users /\ Goto(p, IF UserNodes = {} THEN "hunt" ELSE "done")
     \/ p \in Aws /\ Goto(p, "hunt")
  /\ OnlyPc

\* A call the script does not guard raises, and ends it.
RaiseEarly(p) == pc[p] \in {"wait", "guard"} /\ Goto(p, "done") /\ OnlyPc

\* The hunt is over: out of time, or (grab_8x_gates only) an error while polling.
GiveUp(p) == pc[p] = "hunt" /\ Goto(p, "done") /\ OnlyPc

-----------------------------------------------------------------------------
(* A poll that sees capacity, the launch call that follows at once, its    *)
(* answer, and what the script does without one.                           *)

\* The rented machine; of equal ones it does not matter which.
NewMachine == CHOOSE m \in Machines : machine[m] = "free"
Stock == \E m \in Machines : machine[m] = "free"

Rents(p, why) ==
  /\ machine' = [machine EXCEPT ![NewMachine] = "booting"]
  /\ label' = [label EXCEPT ![NewMachine] = p]
  /\ left' = [left EXCEPT ![NewMachine] = why]

\* Mutant: the hunt is not left after a launch.
BugLaunch(p) ==
  /\ pc[p] = "hunt" /\ Stock
  /\ Rents(p, IF p \in Users THEN "user node" ELSE "no")
  /\ iid' = [iid EXCEPT ![p] = NewMachine]
  /\ \/ Goto(p, IF p \in Users THEN "ip" ELSE "launched")
     \/ UNCHANGED pc
  /\ UNCHANGED <<polls, watchdog>>
\* A user's node is nobody's to terminate.
Launch(p) ==
  /\ pc[p] = "hunt" /\ Stock
  /\ Rents(p, IF p \in Users THEN "user node" ELSE "no")
  /\ iid' = [iid EXCEPT ![p] = NewMachine]
  /\ Goto(p, IF p \in Users THEN "ip" ELSE "launched")
  /\ UNCHANGED <<polls, watchdog>>

\* After a failed launch grab_b200 ends; the others hunt on.
AfterFailure(p) == IF p \in Grabs THEN "done" ELSE "hunt"

LaunchFails(p) == pc[p] = "hunt" /\ Goto(p, AfterFailure(p)) /\ OnlyPc

\* The machine is rented, and the answer is lost.
LaunchAnswerLost(p) ==
  /\ pc[p] = "hunt" /\ Stock
  /\ Rents(p, "answer lost")
  /\ Goto(p, AfterFailure(p))
  /\ UNCHANGED <<polls, iid, watchdog>>

\* book_user_node waits for an address inside the try of its hunt: any error
\* there, and a list that does not have the new machine yet, resumes the hunt.
AwaitIp(p) ==
  /\ pc[p] = "ip"
  /\ \/ machine[iid[p]] = "active" /\ Goto(p, "done") /\ UNCHANGED iid
     \/ Goto(p, "done") /\ UNCHANGED iid
     \/ Goto(p, "hunt") /\ iid' = [iid EXCEPT ![p] = "none"]
  /\ UNCHANGED <<polls, machine, label, left, watchdog>>

-----------------------------------------------------------------------------
(* The session, and its finally block.                                     *)

Session == {"boot", "stages", "hold"}

Abandon(p, why) == left' = [left EXCEPT ![iid[p]] = IF @ = "no" /\ iid[p] \in Billing THEN why ELSE @]

\* Between the launch and the try: the directory for the evidence.
EnterTry(p) == pc[p] = "launched" /\ Goto(p, "boot") /\ OnlyPc

FailBeforeTry(p) ==
  /\ pc[p] = "launched"
  /\ Abandon(p, "before try") /\ Goto(p, "done")
  /\ UNCHANGED <<polls, iid, machine, label, watchdog>>

\* wait_active, wait_ssh and the payload.
Ready(p) == pc[p] = "boot" /\ machine[iid[p]] = "active" /\ Goto(p, "stages") /\ OnlyPc

\* grab_b200 ends after its bootstrap; the gate sessions keep the box until their cap.
StagesEnd(p) == pc[p] = "stages" /\ Goto(p, IF p \in Grabs THEN "finally" ELSE "hold") /\ OnlyPc

\* Mutant: no session cap, and no error seen while the box is held.
BugRaise(p) == pc[p] \in Session \ {"hold"} /\ Goto(p, "finally") /\ OnlyPc
\* An error, a deadline, a failed bootstrap, Ctrl-C, or the session cap.
Raise(p) == pc[p] \in Session /\ Goto(p, "finally") /\ OnlyPc

\* Mutant: terminate only when the stages ran.
BugFinally(p) ==
  /\ pc[p] = "finally"
  /\ IF p \in Parks THEN Abandon(p, "parked") /\ UNCHANGED machine
     ELSE /\ machine' = [machine EXCEPT ![iid[p]] = IF @ = "active" THEN "terminating" ELSE @]
          /\ UNCHANGED left
  /\ Goto(p, "done") /\ UNCHANGED <<polls, iid, label, watchdog>>
Finally(p) ==
  /\ pc[p] = "finally"
  /\ IF p \in Parks THEN Abandon(p, "parked") /\ UNCHANGED machine
     ELSE /\ machine' = [machine EXCEPT ![iid[p]] = IF iid[p] \in Billing THEN "terminating" ELSE @]
          /\ UNCHANGED left
  /\ Goto(p, "done") /\ UNCHANGED <<polls, iid, label, watchdog>>

\* terminate() prints that it failed, and does not try again.
TerminateFails(p) ==
  /\ pc[p] = "finally" /\ p \notin Parks
  /\ Abandon(p, "terminate failed") /\ Goto(p, "done")
  /\ UNCHANGED <<polls, iid, machine, label, watchdog>>

\* The launcher's own machine dies.
Kill(p) ==
  /\ pc[p] \notin {"done", "killed"}
  /\ IF iid[p] = "none" THEN UNCHANGED left ELSE Abandon(p, "launcher killed")
  /\ Goto(p, "killed")
  /\ UNCHANGED <<polls, iid, machine, label, watchdog>>

-----------------------------------------------------------------------------
(* The clouds, where a machine may also never become active, and the       *)
(* watchdog on a box.                                                      *)

Status(m, from, to) ==
  machine[m] \in from /\ machine' = [machine EXCEPT ![m] = to] /\ UNCHANGED <<pc, polls, iid, label, left>>
Boots(m) == Status(m, {"booting"}, "active") /\ UNCHANGED watchdog
Vanishes(m) == Status(m, {"terminating"}, "gone") /\ UNCHANGED watchdog

\* The operator starts the watchdog on a gates box, with the id of the box.
Arm(m) ==
  /\ machine[m] = "active" /\ label[m] \in Gates /\ watchdog[m] = "off"
  /\ watchdog' = [watchdog EXCEPT ![m] = "armed"]
  /\ UNCHANGED <<pc, polls, iid, machine, label, left>>

\* One call of curl at the cap, whose failure nobody looks at.
WatchdogFires(m) ==
  /\ watchdog[m] = "armed" /\ m \in Billing
  /\ watchdog' = [watchdog EXCEPT ![m] = "fired"]
  /\ machine' = [machine EXCEPT ![m] = "terminating"]
  /\ UNCHANGED <<pc, polls, iid, label, left>>
WatchdogFails(m) ==
  /\ watchdog[m] = "armed" /\ m \in Billing
  /\ watchdog' = [watchdog EXCEPT ![m] = "fired"]
  /\ UNCHANGED <<pc, polls, iid, machine, label, left>>

Init ==
  /\ pc = [p \in Procs |-> IF p \in Waiters THEN "wait" ELSE "guard"]
  /\ polls = [p \in Procs |-> 0]
  /\ iid = [p \in Procs |-> "none"]
  /\ machine = [m \in Machines |-> "free"]
  /\ label = [m \in Machines |-> "none"]
  /\ left = [m \in Machines |-> "no"]
  /\ watchdog = [m \in Machines |-> "off"]

Launcher(p) ==
  \/ WaitPoll(p) \/ Guard(p) \/ RaiseEarly(p) \/ GiveUp(p)
  \/ Launch(p) \/ LaunchFails(p) \/ LaunchAnswerLost(p) \/ AwaitIp(p)
  \/ EnterTry(p) \/ FailBeforeTry(p) \/ Ready(p) \/ StagesEnd(p) \/ Raise(p) \/ Finally(p) \/ TerminateFails(p)
Cloud(m) == Boots(m) \/ Vanishes(m)
Next ==
  \/ \E p \in Procs : Launcher(p) \/ Kill(p)
  \/ \E m \in Machines : Cloud(m) \/ Arm(m) \/ WatchdogFires(m) \/ WatchdogFails(m)

\* A launcher that is not killed goes on: every call of it has a timeout.
Fairness == \A p \in Procs : WF_vars(Launcher(p))
Spec == Init /\ [][Next]_vars /\ Fairness

-----------------------------------------------------------------------------
\* What the variables hold.
TypeOK ==
  /\ pc \in [Procs -> {"wait", "guard", "hunt", "launched", "ip", "finally", "done", "killed"} \cup Session]
  /\ polls \in [Procs -> 0 .. MaxPolls] /\ iid \in [Procs -> Machines \cup {"none"}]
  /\ machine \in [Machines -> {"free", "booting", "active", "terminating", "gone"}]
  /\ label \in [Machines -> Procs \cup {"none"}]
  /\ left \in [Machines -> {"no", "user node", "answer lost", "before try", "parked", "terminate failed", "launcher killed"}]
  /\ watchdog \in [Machines -> {"off", "armed", "fired"}]

\* Every machine that bills has a running launcher that knows its id and has
\* yet to reach its finally block, or one of six reasons to be left: no other
\* way through the scripts loses one (grab_b200.py:171-205, grab_8x_gates.py:132-163).
Holds(p, m) == iid[p] = m /\ pc[p] \in {"launched", "finally"} \cup Session
NoBillUnheld == \A m \in Billing : left[m] = "no" => \E p \in Procs : Holds(p, m)

\* No two launchers hold the same machine, and one that did not lose a launch's
\* answer rents one machine: hunting on after a failed launch rents no second one
\* (grab_8x_gates.py:114-125, aws_8x_gates.py:239-251).
Rented(p) == {m \in Machines : label[m] = p /\ left[m] # "answer lost"}
OneMachineEach ==
  /\ \A p \in Procs \ Users : Cardinality(Rented(p)) <= 1
  /\ \A p, q \in Procs : iid[p] = iid[q] /\ iid[p] # "none" => p = q

\* The launchers keep the promise of Rental, liveness included: a machine that
\* is held is given back or left for a reason.
RentOf(m) ==
  CASE machine[m] = "free" -> "free"
    [] machine[m] \in {"terminating", "gone"} -> "ended"
    [] m \in Billing /\ left[m] # "no" -> "left"
    [] m \in Billing /\ left[m] = "no" -> "held"
Promise == INSTANCE Rental WITH rent <- [m \in Machines |-> RentOf(m)]
ImplementsRental == Promise!Spec
=============================================================================
