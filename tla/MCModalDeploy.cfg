SPECIFICATION Spec
CONSTANTS
  SameTree = FALSE
  Steps <- MCSteps
  Artifact <- MCArtifact
  Timeout = 4
  Margin = 1
  Grace = 1
  Longest = 2
  MaxCalls = 3
INVARIANTS AbortsWriteNothing DeployedExactly FailsOnlyOnFault ArtifactsFresh LosesOneStep
\* A container that is killed stops.
CHECK_DEADLOCK FALSE
