SPECIFICATION Spec
CONSTANTS
  Names <- TwoModels
  Printed = {0, 12, 30}
  MaxRuns = 3
  MaxFailures = 2
INVARIANTS RowsOfThisRun DeviceRepaired MatrixComplete
