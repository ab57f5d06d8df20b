SPECIFICATION Spec
CONSTANTS
  t1 = t1
  t2 = t2
  plain = plain
  resource = resource
  stranger = stranger
  a = a
  b = b
  here = here
  hereQuery = hereQuery
  p = p
  Threads <- MCThreads
  Urls <- MCUrls
  Paths <- MCPaths
  PathOf <- MCPathOf
  Services <- MCServices
  Resources <- MCResources
  Foreign <- MCForeign
  Actions <- MCActions
  SoapAction <- MCSoapAction
  Requests <- MCRequests
  LegacyHTTP = TRUE
  None = None
INVARIANTS OwnContext OwnOrLaterURL FaultsFollowBroken
PROPERTIES EndsAnswered
SYMMETRY MCSymmetry
