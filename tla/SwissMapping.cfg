CONSTANTS
  k1 = k1
  k2 = k2
  k3 = k3
  k4 = k4
  Key = {k1, k2, k3, k4}
  Val = {v1, v2}
  v1 = v1
  Vals <- Overwrites
  None = None
  kWidth = 4
  H1 <- Starts
  H2 <- Tags
  Addr = {0, 1}
  HashXor <- MCXor
  MaxCap = 7
SPECIFICATION Spec
INVARIANTS Mirror Findable Accounted
PROPERTIES MapSpec
SYMMETRY PairSymmetry
