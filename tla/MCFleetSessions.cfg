SPECIFICATION Spec
CONSTANTS
  Grabs = {grab}
  Waiters = {grab}
  Parks = {grab}
  Gates = {gates}
  Users = {user}
  Aws = {aws}
  Machines = {m1, m2}
  MaxPolls = 2
INVARIANTS NoBillUnheld OneMachineEach
PROPERTIES ImplementsRental
\* Every launcher ends.
CHECK_DEADLOCK FALSE
