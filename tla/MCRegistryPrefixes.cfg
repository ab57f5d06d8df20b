SPECIFICATION Spec
CONSTANTS
  None = None
  Files <- MCFiles
  Documents <- PrefixDocuments
  MaxPrefixes = 2048
  Frees = TRUE
  Reads = 2
PROPERTIES
  PrefixesOfTheirDocument
CHECK_DEADLOCK FALSE
