SPECIFICATION GgufSpec
CONSTANTS
  DefaultAlignment = 4
  NoKey = NoKey
  Pad = Pad
  Cells <- TensorCells
  Names <- TensorNames
  Sources <- SmallFiles
INVARIANTS GgufInv UntiedIsWhole OutputWellFormed
