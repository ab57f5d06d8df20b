SPECIFICATION Spec
CONSTANTS
  None = None
  StdOffset = 60
  DstOffset = 120
  DstStart = 1052458680
  DstEnd = 1052771220
  Pairs <- MCPairs
  Unions <- MCUnions
  Headers <- MCHeaders
  HeaderElements <- MCHeaderElements
  Documents <- MCDocuments
  Resolved <- MCResolved
  Messages = 3
INVARIANTS
  ReadAsWritten
  FirstReadAnswers
  SoleMember
  InstantsKept
CHECK_DEADLOCK FALSE
