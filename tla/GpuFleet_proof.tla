--------------------------- MODULE GpuFleet_proof ---------------------------
(***************************************************************************)
(* Proofs about the launchers, for any number of processes of each script  *)
(* and any number of machines: no machine bills that nobody holds, no      *)
(* launcher holds two, and the launchers do what Rental allows.            *)
(*                                                                         *)
(* What makes them true is who may touch a machine: a process knows at     *)
(* most one id, that of a machine its own launch call rented, so that no   *)
(* two processes know the same one, and it knows it from the launch until  *)
(* its end.  FleetInv says so.                                             *)
(***************************************************************************)
EXTENDS GpuFleet, FiniteSetTheorems, TLAPS

\* A process knows only a machine that its own call rented, and none before that.
OwnId ==
  \A p \in Procs :
    /\ iid[p] # "none" => machine[iid[p]] # "free" /\ label[iid[p]] = p
    /\ pc[p] \in {"wait", "guard", "hunt"} => iid[p] = "none"
    /\ pc[p] \in {"launched", "ip", "finally"} \cup Session => iid[p] # "none"

\* A machine that nobody rented has no history, and one that a launcher rented
\* whose answer it got is the one that the launcher knows.
OwnMachine ==
  \A m \in Machines :
    /\ machine[m] = "free" => left[m] = "no" /\ label[m] = "none"
    /\ label[m] \in Procs \ Users /\ left[m] # "answer lost" => iid[label[m]] = m

Places == {"wait", "guard", "hunt", "launched", "ip", "finally", "done", "killed"} \cup Session

\* Of TypeOK, what the proofs need.
Typed ==
  /\ pc \in [Procs -> Places]
  /\ iid \in [Procs -> Machines \cup {"none"}]
  /\ machine \in [Machines -> {"free", "booting", "active", "terminating", "gone"}]
  /\ label \in [Machines -> Procs \cup {"none"}]
  /\ left \in [Machines -> {"no", "user node", "answer lost", "before try", "parked", "terminate failed", "launcher killed"}]

\* Only the launcher of a user's node waits for its address.
OwnUser == \A p \in Procs : pc[p] = "ip" => p \in Users

FleetInv == Typed /\ OwnId /\ OwnMachine /\ OwnUser /\ NoBillUnheld

rentals == [m \in Machines |-> RentOf(m)]

\* Every step of the launchers, the clouds and the watchdog is one Rental allows.
RentalSafety == Promise!Init /\ [][Promise!Next]_rentals

-----------------------------------------------------------------------------
(* One machine changes, or none.                                           *)

\* What Rental sees of a step that leaves all machines but one as they are.
LEMMA OneRental ==
  ASSUME NEW m \in Machines,
         \A o \in Machines \ {m} : machine'[o] = machine[o] /\ left'[o] = left[o]
  PROVE  rentals' = [rentals EXCEPT ![m] = RentOf(m)']
<1>1. \A o \in Machines \ {m} : RentOf(o)' = RentOf(o)
  BY DEF RentOf, Billing
<1> QED  BY <1>1 DEF rentals

\* A step that changes neither a status nor a reason is none for Rental.
LEMMA NoRental ==
  ASSUME UNCHANGED <<machine, left>>
  PROVE  rentals' = rentals
  BY DEF rentals, RentOf, Billing

\* A machine that is free exists when there is stock.
LEMMA NewMachineIsFree ==
  ASSUME Stock
  PROVE  NewMachine \in Machines /\ machine[NewMachine] = "free"
  BY DEF Stock, NewMachine


-----------------------------------------------------------------------------
(* The invariant is inductive, by kinds of steps.                          *)

Holding == {"launched", "finally"} \cup Session

\* A launcher goes on, and nothing changes at the cloud.
LEMMA PcStep ==
  ASSUME FleetInv, NEW p \in Procs, NEW at \in Places,
         pc' = [pc EXCEPT ![p] = at], UNCHANGED <<iid, machine, label, left>>,
         at # "ip", at \in {"wait", "guard", "hunt"} => iid[p] = "none",
         at \in {"launched", "ip", "finally"} \cup Session => iid[p] # "none",
         pc[p] \in Holding => at \in Holding \/ iid[p] = "none"
  PROVE  FleetInv' /\ rentals' = rentals
<1>1. rentals' = rentals
  BY NoRental
<1>2. /\ pc'[p] = at
      /\ \A q \in Procs : q # p => pc'[q] = pc[q]
      /\ Typed'
  BY DEF FleetInv, Typed
<1>3. OwnId'
  BY <1>2 DEF FleetInv, OwnId
<1>4. OwnMachine'
  BY DEF FleetInv, OwnMachine
<1>5. NoBillUnheld'
  <2> SUFFICES ASSUME NEW m \in Billing, left[m] = "no"
               PROVE  \E q \in Procs : iid[q] = m /\ pc'[q] \in Holding
    BY DEF NoBillUnheld, Holds, Holding, Billing
  <2>1. PICK q \in Procs : iid[q] = m /\ pc[q] \in Holding
    BY DEF FleetInv, NoBillUnheld, Holds, Holding
  <2>2. m # "none"
    BY FleetAssumption DEF Billing
  <2> QED  BY <1>2, <2>1, <2>2
<1>6. OwnUser'
  BY <1>2 DEF FleetInv, OwnUser
<1> QED  BY <1>1, <1>2, <1>3, <1>4, <1>5, <1>6 DEF FleetInv

\* The launcher of a node that is nobody's to give back forgets it and hunts on.
LEMMA ForgetStep ==
  ASSUME FleetInv, NEW p \in Procs, pc[p] = "ip", pc' = [pc EXCEPT ![p] = "hunt"],
         iid' = [iid EXCEPT ![p] = "none"], UNCHANGED <<machine, label, left>>
  PROVE  FleetInv' /\ [Promise!Next]_rentals
<1>1. /\ pc'[p] = "hunt" /\ iid'[p] = "none"
      /\ \A q \in Procs : q # p => pc'[q] = pc[q] /\ iid'[q] = iid[q]
      /\ Typed'
  BY DEF FleetInv, Typed, Places
<1>2. OwnId'
  BY <1>1 DEF FleetInv, OwnId, Session
<1>3. OwnMachine'
  BY <1>1 DEF FleetInv, OwnMachine, OwnUser
<1>4. NoBillUnheld'
  BY <1>1 DEF FleetInv, NoBillUnheld, Billing, Holds, Session
<1>5. OwnUser'
  BY <1>1 DEF FleetInv, OwnUser
<1> QED  BY <1>1, <1>2, <1>3, <1>4, <1>5, NoRental DEF FleetInv

\* A launcher that knows a machine ends without giving it back, on record.
LEMMA AbandonStep ==
  ASSUME FleetInv, NEW p \in Procs, NEW at \in {"done", "killed"},
         NEW why \in {"before try", "parked", "terminate failed", "launcher killed"},
         iid[p] # "none", pc' = [pc EXCEPT ![p] = at], Abandon(p, why), UNCHANGED <<iid, machine, label>>
  PROVE  FleetInv' /\ [Promise!Next]_rentals
<1> DEFINE m == iid[p]
<1>1. m \in Machines /\ machine[m] # "free" /\ label[m] = p
  <2>1. iid[p] \in Machines
    BY DEF FleetInv, Typed
  <2> QED  BY <2>1 DEF FleetInv, OwnId
<1>2. /\ left'[m] = IF left[m] = "no" /\ m \in Billing THEN why ELSE left[m]
      /\ \A o \in Machines \ {m} : left'[o] = left[o]
      /\ left' \in [Machines -> {"no", "user node", "answer lost", "before try", "parked", "terminate failed", "launcher killed"}]
  BY <1>1 DEF Abandon, FleetInv, Typed
<1>3. pc' \in [Procs -> Places] /\ pc'[p] = at /\ \A q \in Procs : q # p => pc'[q] = pc[q]
  BY DEF FleetInv, Typed, Places
<1>4. Typed'
  BY <1>2, <1>3 DEF FleetInv, Typed
<1>5. OwnId'
  <2> SUFFICES ASSUME NEW q \in Procs
               PROVE  /\ iid[q] # "none" => machine[iid[q]] # "free" /\ label[iid[q]] = q
                      /\ pc'[q] \in {"wait", "guard", "hunt"} => iid[q] = "none"
                      /\ pc'[q] \in {"launched", "ip", "finally"} \cup Session => iid[q] # "none"
    BY DEF OwnId
  <2>1. CASE q = p
    BY <1>3, <2>1 DEF FleetInv, OwnId
  <2>2. CASE q # p
    BY <1>3, <2>2 DEF FleetInv, OwnId
  <2> QED  BY <2>1, <2>2
<1>6. OwnMachine'
  BY <1>1, <1>2 DEF FleetInv, OwnMachine
<1>7. NoBillUnheld'
  <2> SUFFICES ASSUME NEW o \in Billing, left'[o] = "no"
               PROVE  \E q \in Procs : iid[q] = o /\ pc'[q] \in Holding
    BY DEF NoBillUnheld, Holds, Holding, Billing
  <2>1. o \in Machines /\ o # m
    BY <1>2 DEF Billing
  <2>2. left[o] = "no"
    BY <1>2, <2>1
  <2>3. PICK q \in Procs : iid[q] = o /\ pc[q] \in Holding
    BY <2>2 DEF FleetInv, NoBillUnheld, Holds, Holding
  <2> QED  BY <1>3, <2>1, <2>3
<1>8. [Promise!Next]_rentals
  <2>1. CASE left[m] = "no" /\ m \in Billing
    <3>1. RentOf(m) = "held" /\ RentOf(m)' = "left"
      BY <2>1, <1>1, <1>2 DEF RentOf, Billing
    <3>2. rentals' = [rentals EXCEPT ![m] = "left"]
      BY <3>1, <1>1, <1>2, OneRental
    <3> QED  BY <3>1, <3>2, <1>1 DEF Promise!Next, Promise!Leave, Promise!Move, rentals
  <2>2. CASE ~(left[m] = "no" /\ m \in Billing)
    <3>1. left' = left
      BY <2>2, <1>1 DEF Abandon, FleetInv, Typed
    <3> QED  BY <3>1, NoRental
  <2> QED  BY <2>1, <2>2
<1>9. OwnUser'
  BY <1>3 DEF FleetInv, OwnUser
<1> QED  BY <1>4, <1>5, <1>6, <1>7, <1>8, <1>9 DEF FleetInv

\* The status of a rented machine changes: it boots, is given back, is gone.
LEMMA StatusStep ==
  ASSUME FleetInv, NEW m \in Machines, NEW to \in {"active", "terminating", "gone"},
         machine' = [machine EXCEPT ![m] = to], UNCHANGED <<pc, iid, label, left>>,
         \/ machine[m] = "booting" /\ to = "active"
         \/ m \in Billing /\ to = "terminating"
         \/ machine[m] = "terminating" /\ to = "gone"
  PROVE  FleetInv' /\ [Promise!Next]_rentals
<1>1. /\ machine'[m] = to /\ machine[m] # "free"
      /\ \A o \in Machines \ {m} : machine'[o] = machine[o]
      /\ Typed'
  BY DEF FleetInv, Typed, Billing
<1>2. OwnId'
  <2>1. \A o \in Machines : machine[o] # "free" => machine'[o] # "free"
    BY <1>1
  <2>2. \A q \in Procs : iid[q] # "none" => iid[q] \in Machines
    BY DEF FleetInv, Typed
  <2> QED  BY <2>1, <2>2 DEF FleetInv, OwnId
<1>3. OwnMachine'
  BY <1>1 DEF FleetInv, OwnMachine
<1>4. NoBillUnheld'
  <2>1. Billing' \subseteq Billing
    BY <1>1 DEF Billing
  <2> QED  BY <2>1 DEF FleetInv, NoBillUnheld, Holds
<1>5. rentals' = [rentals EXCEPT ![m] = RentOf(m)'] /\ rentals[m] = RentOf(m)
  BY <1>1, OneRental DEF rentals
<1>6. OwnUser'
  BY DEF FleetInv, OwnUser
<1>7. CASE to = "active" \/ to = "gone"
  <2>1. RentOf(m)' = RentOf(m)
    BY <1>1, <1>7 DEF RentOf, Billing
  <2> QED  BY <1>1, <1>2, <1>3, <1>4, <1>5, <1>6, <2>1 DEF FleetInv, rentals
<1>8. CASE to = "terminating"
  <2>1. RentOf(m) \in {"held", "left"}
    BY <1>8 DEF RentOf, Billing
  <2>2. RentOf(m)' = "ended"
    <3>1. machine'[m] = "terminating"
      BY <1>1, <1>8
    <3> QED  BY <3>1, Zenon DEF RentOf, Billing
  <2>3. Promise!Next
    BY <1>5, <2>1, <2>2 DEF Promise!Next, Promise!End, Promise!Move, rentals
  <2> QED  BY <1>1, <1>2, <1>3, <1>4, <1>6, <2>3 DEF FleetInv
<1> QED  BY <1>7, <1>8


\* A machine is rented, and the launcher learns its id or never does.
LEMMA RentStep ==
  ASSUME FleetInv, NEW p \in Procs, NEW why, pc[p] = "hunt", Stock, Rents(p, why),
         \/ /\ why = IF p \in Users THEN "user node" ELSE "no"
            /\ iid' = [iid EXCEPT ![p] = NewMachine]
            /\ pc' = [pc EXCEPT ![p] = IF p \in Users THEN "ip" ELSE "launched"]
         \/ /\ why = "answer lost"
            /\ UNCHANGED iid
            /\ pc' = [pc EXCEPT ![p] = AfterFailure(p)]
  PROVE  FleetInv' /\ [Promise!Next]_rentals
<1>1. PICK m \in Machines : m = NewMachine /\ machine[m] = "free" /\ m # "none"
  BY NewMachineIsFree, FleetAssumption
<1>2. /\ machine' = [machine EXCEPT ![m] = "booting"]
      /\ label' = [label EXCEPT ![m] = p]
      /\ left' = [left EXCEPT ![m] = why]
  BY <1>1 DEF Rents
<1>3. iid[p] = "none"
  BY DEF FleetInv, OwnId
<1>4. \/ why = (IF p \in Users THEN "user node" ELSE "no") /\ iid'[p] = m
         /\ pc'[p] = IF p \in Users THEN "ip" ELSE "launched"
      \/ why = "answer lost" /\ iid'[p] = "none" /\ pc'[p] \in {"hunt", "done"}
  BY <1>1, <1>3 DEF FleetInv, Typed, AfterFailure
<1>5. /\ \A q \in Procs : q # p => pc'[q] = pc[q] /\ iid'[q] = iid[q]
      /\ pc' \in [Procs -> Places] /\ iid' \in [Procs -> Machines \cup {"none"}]
  BY <1>1 DEF FleetInv, Typed, AfterFailure, Places
<1>6. /\ machine'[m] = "booting" /\ label'[m] = p /\ left'[m] = why
      /\ \A o \in Machines \ {m} : machine'[o] = machine[o] /\ label'[o] = label[o] /\ left'[o] = left[o]
  BY <1>1, <1>2 DEF FleetInv, Typed
<1>7. Typed'
  <2>1. why \in {"user node", "no", "answer lost"}
    BY <1>4
  <2> QED  BY <1>1, <1>2, <1>5, <2>1 DEF FleetInv, Typed
<1>8. OwnId'
  <2> SUFFICES ASSUME NEW q \in Procs
               PROVE  /\ iid'[q] # "none" => machine'[iid'[q]] # "free" /\ label'[iid'[q]] = q
                      /\ pc'[q] \in {"wait", "guard", "hunt"} => iid'[q] = "none"
                      /\ pc'[q] \in {"launched", "ip", "finally"} \cup Session => iid'[q] # "none"
    BY DEF OwnId
  <2>1. CASE q = p
    BY <2>1, <1>1, <1>4, <1>6 DEF Session
  <2>2. CASE q # p
    <3>1. pc'[q] = pc[q] /\ iid'[q] = iid[q]
      BY <2>2, <1>5
    <3>2. iid[q] # "none" => iid[q] \in Machines
      BY DEF FleetInv, Typed
    <3>3. iid[q] # "none" => iid[q] # m
      BY <1>1 DEF FleetInv, OwnId
    <3>4. iid[q] # "none" => machine'[iid[q]] # "free" /\ label'[iid[q]] = q
      BY <3>2, <3>3, <1>6 DEF FleetInv, OwnId
    <3> QED  BY <3>1, <3>4 DEF FleetInv, OwnId
  <2> QED  BY <2>1, <2>2
<1>9. OwnMachine'
  <2> SUFFICES ASSUME NEW o \in Machines
               PROVE  /\ machine'[o] = "free" => left'[o] = "no" /\ label'[o] = "none"
                      /\ label'[o] \in Procs \ Users /\ left'[o] # "answer lost" => iid'[label'[o]] = o
    BY DEF OwnMachine
  <2>1. CASE o = m
    BY <2>1, <1>4, <1>6
  <2>2. CASE o # m
    <3>1. machine'[o] = machine[o] /\ label'[o] = label[o] /\ left'[o] = left[o]
      BY <2>2, <1>6
    <3>2. label[o] \in Procs \ Users /\ left[o] # "answer lost" => iid[label[o]] = o
      BY DEF FleetInv, OwnMachine
    <3>3. o # "none"
      BY FleetAssumption
    <3>4. label[o] \in Procs \ Users /\ left[o] # "answer lost" => label[o] # p
      BY <3>2, <3>3, <1>3
    <3> QED  BY <3>1, <3>2, <3>4, <1>5 DEF FleetInv, OwnMachine
  <2> QED  BY <2>1, <2>2
<1>10. NoBillUnheld'
  <2> SUFFICES ASSUME NEW o \in Machines, machine'[o] \in {"booting", "active"}, left'[o] = "no"
               PROVE  \E q \in Procs : iid'[q] = o /\ pc'[q] \in Holding
    BY DEF NoBillUnheld, Holds, Holding, Billing
  <2>1. CASE o = m
    BY <2>1, <1>4, <1>6 DEF Holding
  <2>2. CASE o # m
    <3>1. o \in Billing /\ left[o] = "no" /\ o # "none"
      BY <2>2, <1>6, FleetAssumption DEF Billing
    <3>2. PICK q \in Procs : iid[q] = o /\ pc[q] \in Holding
      BY <3>1 DEF FleetInv, NoBillUnheld, Holds, Holding
    <3> QED  BY <3>1, <3>2, <1>3, <1>5
  <2> QED  BY <2>1, <2>2
<1>11. [Promise!Next]_rentals
  <2>1. rentals' = [rentals EXCEPT ![m] = RentOf(m)'] /\ rentals[m] = RentOf(m)
    BY <1>1, <1>6, OneRental DEF rentals
  <2>2. RentOf(m) = "free"
    BY <1>1, Zenon DEF RentOf, Billing
  <2>3. CASE why = "no"
    <3>1. RentOf(m)' = "held"
      BY <2>3, <1>1, <1>6 DEF RentOf, Billing
    <3> QED  BY <1>1, <2>1, <2>2, <3>1 DEF Promise!Next, Promise!Rent, Promise!Move, rentals
  <2>4. CASE why # "no"
    <3>1. RentOf(m)' = "left"
      BY <2>4, <1>1, <1>6 DEF RentOf, Billing
    <3> QED  BY <1>1, <2>1, <2>2, <3>1 DEF Promise!Next, Promise!Leave, Promise!Move, rentals
  <2> QED  BY <2>3, <2>4
<1>12. OwnUser'
  BY <1>4, <1>5 DEF FleetInv, OwnUser
<1> QED  BY <1>7, <1>8, <1>9, <1>10, <1>11, <1>12 DEF FleetInv

\* The finally block gives the machine back.
LEMMA GiveBackStep ==
  ASSUME FleetInv, NEW p \in Procs, pc[p] = "finally", p \notin Parks, Finally(p)
  PROVE  FleetInv' /\ [Promise!Next]_rentals
<1>1. PICK m \in Machines : m = iid[p] /\ m # "none" /\ label[m] = p
  <2>1. iid[p] # "none"
    BY DEF FleetInv, OwnId
  <2>2. iid[p] \in Machines
    BY <2>1 DEF FleetInv, Typed
  <2>3. label[iid[p]] = p
    BY <2>1 DEF FleetInv, OwnId
  <2> QED  BY <2>1, <2>2, <2>3
<1>2. /\ pc' = [pc EXCEPT ![p] = "done"] /\ UNCHANGED <<iid, label, left>>
      /\ machine' = [machine EXCEPT ![m] = IF m \in Billing THEN "terminating" ELSE machine[m]]
  BY <1>1 DEF Finally, Goto
<1>3. pc'[p] = "done" /\ (\A q \in Procs : q # p => pc'[q] = pc[q]) /\ pc' \in [Procs -> Places]
  BY <1>2 DEF FleetInv, Typed, Places
<1>4. /\ machine'[m] \notin {"booting", "active"} /\ (machine'[m] = "free" => machine[m] = "free")
      /\ \A o \in Machines \ {m} : machine'[o] = machine[o]
      /\ machine' \in [Machines -> {"free", "booting", "active", "terminating", "gone"}]
  BY <1>1, <1>2 DEF FleetInv, Typed, Billing
<1>5. Typed'
  BY <1>2, <1>3, <1>4 DEF FleetInv, Typed
<1>6. OwnId'
  <2> SUFFICES ASSUME NEW q \in Procs
               PROVE  /\ iid[q] # "none" => machine'[iid[q]] # "free" /\ label[iid[q]] = q
                      /\ pc'[q] \in {"wait", "guard", "hunt"} => iid[q] = "none"
                      /\ pc'[q] \in {"launched", "ip", "finally"} \cup Session => iid[q] # "none"
    BY <1>2 DEF OwnId
  <2>1. iid[q] # "none" => iid[q] \in Machines
    BY DEF FleetInv, Typed
  <2>2. iid[q] # "none" => machine'[iid[q]] # "free" /\ label[iid[q]] = q
    BY <2>1, <1>4 DEF FleetInv, OwnId
  <2>3. CASE q = p
    BY <2>2, <2>3, <1>1, <1>3
  <2>4. CASE q # p
    BY <2>2, <2>4, <1>3 DEF FleetInv, OwnId
  <2> QED  BY <2>3, <2>4
<1>7. OwnMachine'
  <2>1. \A o \in Machines : machine'[o] = "free" => machine[o] = "free"
    BY <1>4
  <2> QED  BY <2>1, <1>2 DEF FleetInv, OwnMachine
<1>8. NoBillUnheld'
  <2> SUFFICES ASSUME NEW o \in Machines, machine'[o] \in {"booting", "active"}, left[o] = "no"
               PROVE  \E q \in Procs : iid[q] = o /\ pc'[q] \in Holding
    BY <1>2 DEF NoBillUnheld, Holds, Holding, Billing
  <2>1. o # m /\ o \in Billing
    BY <1>4 DEF Billing
  <2>2. PICK q \in Procs : iid[q] = o /\ pc[q] \in Holding
    BY <2>1 DEF FleetInv, NoBillUnheld, Holds, Holding
  <2> QED  BY <2>1, <2>2, <1>1, <1>3
<1>9. [Promise!Next]_rentals
  <2>1. CASE m \in Billing
    <3>1. RentOf(m) \in {"held", "left"}
      BY <2>1 DEF RentOf, Billing
    <3>2. RentOf(m)' = "ended"
      <4>1. machine'[m] = "terminating"
        BY <1>1, <1>2, <2>1 DEF FleetInv, Typed
      <4> QED  BY <4>1, Zenon DEF RentOf, Billing
    <3>3. rentals' = [rentals EXCEPT ![m] = "ended"] /\ rentals[m] = RentOf(m)
      <4>1. \A o \in Machines \ {m} : machine'[o] = machine[o] /\ left'[o] = left[o]
        BY <1>2, <1>4
      <4> QED  BY <1>1, <3>2, <4>1, OneRental DEF rentals
    <3> QED  BY <1>1, <3>1, <3>3 DEF Promise!Next, Promise!End, Promise!Move, rentals
  <2>2. CASE m \notin Billing
    <3>1. machine' = machine
      BY <1>1, <1>2, <2>2 DEF FleetInv, Typed
    <3> QED  BY <3>1, <1>2, NoRental
  <2> QED  BY <2>1, <2>2
<1>10. OwnUser'
  BY <1>2, <1>3 DEF FleetInv, OwnUser
<1> QED  BY <1>5, <1>6, <1>7, <1>8, <1>9, <1>10 DEF FleetInv

-----------------------------------------------------------------------------
(* The theorems.                                                           *)

LEMMA InitFleet ==
  ASSUME Init
  PROVE  FleetInv /\ Promise!Init
<1>1. Typed
  BY DEF Init, Typed, Places
<1>2. \A p \in Procs : iid[p] = "none" /\ pc[p] \in {"wait", "guard"}
  BY DEF Init
<1>3. OwnId /\ OwnUser
  BY <1>2 DEF OwnId, OwnUser, Session
<1>4. OwnMachine
  <2>1. "none" \notin Procs
    BY FleetAssumption
  <2> QED  BY <2>1 DEF Init, OwnMachine
<1>5. NoBillUnheld
  BY DEF Init, NoBillUnheld, Billing
<1>6. Promise!Init
  <2>1. \A m \in Machines : RentOf(m) = "free"
    BY Zenon DEF Init, RentOf, Billing
  <2> QED  BY <2>1 DEF Promise!Init
<1> QED  BY <1>1, <1>3, <1>4, <1>5, <1>6 DEF FleetInv

\* A launcher before its launch call, or with the machine in hand.
LEMMA LauncherStep ==
  ASSUME FleetInv, NEW p \in Procs, Launcher(p)
  PROVE  FleetInv' /\ [Promise!Next]_rentals
<1> USE DEF Goto, OnlyPc
<1>1. pc[p] \in {"wait", "guard", "hunt"} => iid[p] = "none"
  BY DEF FleetInv, OwnId
<1>2. pc[p] \in {"launched", "ip", "finally"} \cup Session => iid[p] # "none"
  BY DEF FleetInv, OwnId
<1>3. pc \in [Procs -> Places]
  BY DEF FleetInv, Typed
<1>4. CASE WaitPoll(p)
  <2>1. \E at \in {"wait", "guard"} : pc' = [pc EXCEPT ![p] = at]
    BY <1>3, <1>4 DEF WaitPoll
  <2>2. pc[p] = "wait" /\ UNCHANGED <<iid, machine, label, left>>
    BY <1>4 DEF WaitPoll
  <2> QED  BY <1>1, <2>1, <2>2, PcStep DEF Places, Session
<1>5. CASE Guard(p) \/ RaiseEarly(p) \/ GiveUp(p) \/ LaunchFails(p)
  <2>1. \E at \in {"hunt", "done"} : pc' = [pc EXCEPT ![p] = at]
    BY <1>5 DEF Guard, RaiseEarly, GiveUp, LaunchFails, AfterFailure
  <2>2. pc[p] \in {"wait", "guard", "hunt"} /\ UNCHANGED <<iid, machine, label, left>>
    BY <1>5 DEF Guard, RaiseEarly, GiveUp, LaunchFails
  <2> QED  BY <1>1, <2>1, <2>2, PcStep DEF Places, Session, Holding
<1>6. CASE Launch(p)
  BY <1>6, RentStep DEF Launch
<1>7. CASE LaunchAnswerLost(p)
  BY <1>7, RentStep DEF LaunchAnswerLost
<1>8. CASE AwaitIp(p)
  <2>1. CASE pc' = [pc EXCEPT ![p] = "done"] /\ UNCHANGED <<iid, machine, label, left>>
    BY <1>8, <2>1, PcStep DEF Places, Session, Holding, AwaitIp
  <2>2. CASE pc' = [pc EXCEPT ![p] = "hunt"] /\ iid' = [iid EXCEPT ![p] = "none"] /\ UNCHANGED <<machine, label, left>>
    BY <1>8, <2>2, ForgetStep DEF AwaitIp
  <2> QED  BY <1>8, <2>1, <2>2 DEF AwaitIp
<1>9. CASE EnterTry(p) \/ Ready(p) \/ StagesEnd(p) \/ Raise(p)
  <2>1. \E at \in {"finally"} \cup Session : pc' = [pc EXCEPT ![p] = at]
    BY <1>9 DEF EnterTry, Ready, StagesEnd, Raise, Session
  <2>2. pc[p] \in {"launched"} \cup Session /\ UNCHANGED <<iid, machine, label, left>>
    BY <1>9 DEF EnterTry, Ready, StagesEnd, Raise, Session
  <2> QED  BY <1>2, <2>1, <2>2, PcStep DEF Places, Session, Holding
<1>10. CASE FailBeforeTry(p) \/ TerminateFails(p)
  BY <1>2, <1>10, AbandonStep DEF FailBeforeTry, TerminateFails
<1>11. CASE Finally(p)
  <2>1. CASE p \in Parks
    BY <1>2, <1>11, <2>1, AbandonStep DEF Finally
  <2>2. CASE p \notin Parks
    BY <1>11, <2>2, GiveBackStep DEF Finally
  <2> QED  BY <2>1, <2>2
<1> QED  BY <1>4, <1>5, <1>6, <1>7, <1>8, <1>9, <1>10, <1>11 DEF Launcher

LEMMA StepFleet ==
  ASSUME FleetInv, [Next]_vars
  PROVE  FleetInv' /\ [Promise!Next]_rentals
<1>1. ASSUME NEW p \in Procs, Launcher(p) PROVE FleetInv' /\ [Promise!Next]_rentals
  BY <1>1, LauncherStep
<1>2. ASSUME NEW p \in Procs, Kill(p) PROVE FleetInv' /\ [Promise!Next]_rentals
  <2>1. pc' = [pc EXCEPT ![p] = "killed"] /\ UNCHANGED <<iid, machine, label>>
    BY <1>2 DEF Kill, Goto
  <2>2. CASE iid[p] = "none"
    <3>1. UNCHANGED left
      BY <1>2, <2>2 DEF Kill
    <3> QED  BY <2>1, <2>2, <3>1, PcStep DEF Places, Session
  <2>3. CASE iid[p] # "none"
    BY <1>2, <2>1, <2>3, AbandonStep DEF Kill
  <2> QED  BY <2>2, <2>3
<1>3. ASSUME NEW m \in Machines, Cloud(m) \/ WatchdogFires(m) PROVE FleetInv' /\ [Promise!Next]_rentals
  BY <1>3, StatusStep DEF Cloud, Boots, Vanishes, Status, WatchdogFires
<1>4. ASSUME UNCHANGED <<pc, iid, machine, label, left>> PROVE FleetInv' /\ [Promise!Next]_rentals
  <2>1. Typed' /\ OwnId' /\ OwnMachine' /\ OwnUser'
    BY <1>4 DEF FleetInv, Typed, OwnId, OwnMachine, OwnUser
  <2>2. NoBillUnheld'
    BY <1>4 DEF FleetInv, NoBillUnheld, Billing, Holds
  <2> QED  BY <1>4, <2>1, <2>2, NoRental DEF FleetInv
<1>5. ASSUME NEW m \in Machines, Arm(m) \/ WatchdogFails(m) PROVE FleetInv' /\ [Promise!Next]_rentals
  BY <1>4, <1>5 DEF Arm, WatchdogFails
<1> QED  BY <1>1, <1>2, <1>3, <1>4, <1>5 DEF Next, vars

THEOREM FleetInvariant == Init /\ [][Next]_vars => []FleetInv
<1>1. Init => FleetInv
  BY InitFleet
<1>2. FleetInv /\ [Next]_vars => FleetInv'
  BY StepFleet
<1> QED  BY <1>1, <1>2, PTL

\* Every machine that bills is held by a launcher that will come to its finally
\* block, or is left for a reason that is on record.
THEOREM NoneBillsUnheld == Spec => []NoBillUnheld
<1>1. FleetInv => NoBillUnheld
  BY DEF FleetInv
<1> QED  BY <1>1, FleetInvariant, PTL DEF Spec

\* No launcher holds two machines, and no two hold the same one.
LEMMA InvOneMachine ==
  ASSUME FleetInv
  PROVE  OneMachineEach
<1>1. ASSUME NEW p \in Procs \ Users PROVE Cardinality(Rented(p)) <= 1
  <2>1. Rented(p) \subseteq {iid[p]}
    BY <1>1 DEF FleetInv, OwnMachine, Rented
  <2>2. IsFiniteSet({iid[p]}) /\ Cardinality({iid[p]}) = 1
    BY FS_Singleton
  <2>3. Cardinality(Rented(p)) <= Cardinality({iid[p]})
    BY <2>1, <2>2, FS_Subset
  <2> QED  BY <2>2, <2>3
<1>2. ASSUME NEW p \in Procs, NEW q \in Procs, iid[p] = iid[q], iid[p] # "none" PROVE p = q
  BY <1>2 DEF FleetInv, OwnId
<1> QED  BY <1>1, <1>2 DEF OneMachineEach

THEOREM OneMachineForEach == Spec => []OneMachineEach
<1>1. FleetInv => OneMachineEach
  BY InvOneMachine
<1> QED  BY <1>1, FleetInvariant, PTL DEF Spec

\* Whatever the launchers, the clouds and the watchdog do to a machine, in any
\* order and with any call failing, is what Rental allows: it is rented once, is
\* held, left or given back, and does not come back.
THEOREM FleetIsRental == Spec => RentalSafety
<1>1. Init => Promise!Init
  BY InitFleet
<1>2. FleetInv /\ [Next]_vars => [Promise!Next]_rentals
  BY StepFleet
<1> QED  BY <1>1, <1>2, FleetInvariant, PTL DEF Spec, RentalSafety

=============================================================================
