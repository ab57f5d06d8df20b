SPECIFICATION Spec
CONSTANTS
  Ns = {"urn:main", "urn:abstract"}
  NoNs = NoNs
  Names = {"m", "t", "b", "s", "o", "p", "q"}
  NsPrefixes = {"x", "y", "z"}
  NoPrefix = NoPrefix
  None = None
  All = All
  Locs = {"main", "abstract", "other", "missing"}
  Repositories <- McRepositories
INVARIANTS
  LoadedAsDeclared
  CallsAsDeclared
PROPERTY LoadEnds
CHECK_DEADLOCK FALSE
