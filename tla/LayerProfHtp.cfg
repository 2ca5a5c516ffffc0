SPECIFICATION Spec
CONSTANTS
  Splits <- HtpSplits
  Warmup = TRUE
  Chunks = 2
  MaxDecodes = 3
  OpUs <- HtpOpUs
INVARIANT PrefillFound
