SPECIFICATION Spec
CONSTANTS
  stock = stock
  ours = ours
  p1 = p1
  p2 = p2
  Unknown = unknown
  Settings <- MCAmple
INVARIANTS MatchMeansOnePool
\* The operator may stop invoking it.
CHECK_DEADLOCK FALSE
