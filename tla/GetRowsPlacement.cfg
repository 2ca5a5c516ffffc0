SPECIFICATION Spec
CONSTANTS
  ForceGetRowsHtp = TRUE
  RowLengths = {31, 32, 64}
  TileCols = 32
  Uids = {u1, u2}
INVARIANTS IInv ClaimHonoured RowFilledExactly
