SPECIFICATION Spec
CONSTANTS
  A = A
  B = B
  C = C
  W = W
  x = x
  y = y
  docA = docA
  docB = docB
  docC = docC
  docP = docP
  docQ = docQ
  NoNs = NoNs
  Unread = Unread
  NoLoc = NoLoc
  Ns <- MCNs
  BuiltIn = {B}
  Names <- MCNames
  Locs <- MCLocs
  Calls <- MCCalls
  Depth = 8
  MaxLoads = 2
  Repositories <- MCRepositories
INVARIANTS CyclesEnd ImportsAgree LookupsAgree InlineSchemasMeet
CHECK_DEADLOCK FALSE
