SPECIFICATION Spec
CONSTANTS
  None = None
  Files <- MCFiles
  Documents <- MCDocuments
  MaxPrefixes = 1
  Frees = FALSE
  Reads = 2
INVARIANTS
  SameAnswers
  WrittenReadsBack
PROPERTIES
  ReadsAsDeclared
CHECK_DEADLOCK FALSE
