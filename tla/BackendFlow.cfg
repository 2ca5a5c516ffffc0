SPECIFICATION FlowSpec
CONSTANTS
  Layouts <- MCLayouts
  MaxRuns = 2
  MaxFailures = 1
  None = None
INVARIANTS MoveIsReported ColumnOfOwnGraph PulledIsOfThisRun
