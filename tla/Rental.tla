------------------------------- MODULE Rental -------------------------------
(* What the launchers promise of a machine rented by the hour: somebody      *)
(* holds it until it is given back, or it is left billing for a reason that  *)
(* is on record.  It is never held for ever, and never comes back.           *)
CONSTANT Machines
VARIABLE rent  \* machine -> "free", "held", "left" or "ended"

Move(m, from, to) == rent[m] \in from /\ rent' = [rent EXCEPT ![m] = to]
Rent(m)  == Move(m, {"free"}, "held")
Leave(m) == Move(m, {"free", "held"}, "left")
End(m)   == Move(m, {"held", "left"}, "ended")

Init == rent = [m \in Machines |-> "free"]
Next == \E m \in Machines : Rent(m) \/ Leave(m) \/ End(m)
Spec == Init /\ [][Next]_rent /\ \A m \in Machines : WF_rent(rent[m] = "held" /\ (Leave(m) \/ End(m)))
=============================================================================
