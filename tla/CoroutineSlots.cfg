CONSTANTS
  Handle = {h1, h2, h3, h4}
  Val = {v1}
  Null = Null
  Junk = Junk
  StackSize = 1
  OpenArgs = {1}
  MaxCap = 7
  AllocMayFail = FALSE
SPECIFICATION Spec
INVARIANT NcoIsLive
PROPERTIES IdStable JoinPost WaitPost
SYMMETRY HandleSymmetry
