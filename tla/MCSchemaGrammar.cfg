SPECIFICATION Spec
CONSTANTS
  A = A
  B = B
  p = p
  NoPrefix = NoPrefix
  NoNs = NoNs
  Ns <- MCNs
  NsPrefixes <- MCPrefixes
  Scopes <- MCScopes
  Givens <- MCGivens
  Contexts <- MCContexts
  MaxKids = 3
  MaxDepth = 6
  MaxSize = 5
INVARIANTS DocumentedContentsRead DocumentedContentsKept InnermostNamespace
CHECK_DEADLOCK FALSE
