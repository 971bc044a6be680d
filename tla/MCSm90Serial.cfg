SPECIFICATION Spec
CONSTANTS
  NumWG = 2
  NumStages = 2
  IntraWgOverlap = FALSE
  UseTmaKV = TRUE
  TileHdim = 128
  IsSplitKV = FALSE
  Ranges <- TileRanges
INVARIANTS NoSlotRace TurnsAlternate
PROPERTY ImplementsTile
