SPECIFICATION Spec
CONSTANTS
  stock = stock
  ours = ours
  p1 = p1
  p2 = p2
  Unknown = unknown
  Settings <- MCSettings
INVARIANTS CapHolds StopsInTime VerdictHonest
PROPERTIES LedgerGrows ResultsKept
\* The operator may stop invoking it.
CHECK_DEADLOCK FALSE
