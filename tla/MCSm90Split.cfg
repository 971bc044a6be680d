SPECIFICATION Spec
CONSTANTS
  NumWG = 2
  NumStages = 2
  IntraWgOverlap = TRUE
  UseTmaKV = FALSE
  TileHdim = 192
  IsSplitKV = TRUE
  Ranges <- SplitRanges
INVARIANTS BlocksInStep EpilogueOwnsQ ProducerExitClean
