CONSTANTS
  ALIGN = 2
  HDR = 2
  PAGE = 12
  MaxPages = 4
  MaxBlocks = 3
  Requests <- MCRequests
  Frees = "any"
SPECIFICATION Spec
INVARIANT
  NoOverlap
