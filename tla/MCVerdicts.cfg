SPECIFICATION Spec
CONSTANTS
  GateInputs <- MCGateInputs
  LatencyInputs <- MCLatencyInputs
  TableInputs <- MCTableInputs
  TolMax = 2
  TolMean = 1
  AbsTol = 1
  RelTol = 1
  TieBandMax = 5
  Expected = 2
INVARIANTS GateIsPooled NothingDropped NoLossCleared TableIsMeasured
\* A tool ends when it has its verdict.
CHECK_DEADLOCK FALSE
