CONSTANTS
  None = None
  Calls <- MCCalls
  MaxCalls = 2
  NumSMs = 132
  Generic = FALSE
SPECIFICATION Spec
INVARIANTS CacheTransparent LaunchesAgree
CHECK_DEADLOCK FALSE
