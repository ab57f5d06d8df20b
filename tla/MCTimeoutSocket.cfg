SPECIFICATION Spec
CONSTANTS
  Length = 6
  Newlines <- MCNewlines
  BuffSize = 2
  Amounts <- MCAmounts
  Limits <- MCLimits
  Hints <- MCHints
  Payloads <- MCPayloads
  ChunkSize = 2
INVARIANTS Accounted WholeOrEnd
PROPERTIES LineKeptOnTimeout CallEnds
CHECK_DEADLOCK FALSE
