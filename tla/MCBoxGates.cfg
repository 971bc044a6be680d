SPECIFICATION Spec
CONSTANTS
  NumRuns = 1
  Cap = 3
  Window = 1
  MaxJobs = 3
INVARIANTS BackupNeverOurs MeasuredOnItsKernels NoSilentBias WatchdogBounds
PROPERTIES StockAtRest WatchdogActs
\* The box goes, or no more jobs are started.
CHECK_DEADLOCK FALSE
