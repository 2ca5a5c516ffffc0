SPECIFICATION Spec
CONSTANTS
  Quants = {"Q8_0", "Q4_0", "F16"}
  Buft <- MCBuft
  BenchKeys = TRUE
  MaxConverts = 2
  MaxRuns = 2
  MaxFailures = 1
  None = None
  Bad = Bad
INVARIANTS CleanRunIsReported BenchOfThisRun GraphOfOwnVariant
