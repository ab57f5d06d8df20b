SPECIFICATION Spec
CONSTANTS
  top = top
  mid = mid
  leaf = leaf
  Objects <- MCObjects
  Closes = 2
  Messages <- MCMessages
INVARIANTS HrefsResolve IdsOnce PartsInOrder
CHECK_DEADLOCK FALSE
