CONSTANTS
  Handle = {h1, h2}
  Val = {v1}
  Null = Null
  Junk = Junk
  StackSize = 3
  OpenArgs = {1}
  MaxCap = 3
  AllocMayFail = TRUE
SPECIFICATION FairSpec
INVARIANT IndInv
PROPERTIES PrivateSpec NoStarvation
