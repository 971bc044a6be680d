SPECIFICATION Spec
CONSTANTS
  NumWarps = 3
  Tiles <- MCTiles
INVARIANTS QuietEpilogue
PROPERTY ImplementsTile
