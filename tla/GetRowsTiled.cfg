SPECIFICATION Spec
CONSTANTS
  Vocab = 3
  NKTiles = 2
  TileRows = 2
  TileCols = 2
  NThreads = 3
  MaxRows = 4
  IdMod = 16
  Garbage = Garbage
  Ids <- TwoIds
INVARIANTS IInv RowsCorrect
PROPERTIES PastRowsFinal OpReturns ImplementsPromise
