SPECIFICATION Spec
CONSTANTS
  Block = 4
  Launches <- MCLaunches
  Batches <- MCBatches
INVARIANTS WrittenOnce BiasIsDistance KeysOnce TilesInBuffer
