SPECIFICATION Spec
CONSTANTS
  NumWG = 3
  NumStages = 2
  IntraWgOverlap = TRUE
  UseTmaKV = TRUE
  TileHdim = 64
  IsSplitKV = FALSE
  Ranges <- TileRanges
INVARIANTS TypeOK TurnsAlternate
PROPERTY ImplementsTile
