SPECIFICATION TablesSpec
CONSTANTS
  Splits <- CpuSplits
  Warmup = TRUE
  Chunks = 2
  MaxDecodes = 5
  OpUs <- CpuOpUs
  Runs <- MCRuns
  Parts <- MCParts
  DspUs <- MCDspUs
INVARIANTS CellWithinDecodes TransitionsComplete RowTimeIsOwn RowTimeWithinDecodes CompareCoversGraph
