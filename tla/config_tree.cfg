SPECIFICATION Spec
CONSTANTS
  Keys <- FourKeys
  MaxDepth = 3
  Paths <- FourPaths
  Roots <- OneRoot
  Vals = {v1, v2}
  MaxPuts = 3
INVARIANTS
  UnflattenKeepsAll
PROPERTIES
  LeavesFollow
