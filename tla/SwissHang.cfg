CONSTANTS
  k1 = k1
  k2 = k2
  k3 = k3
  k4 = k4
  Key = {k1, k2, k3}
  Val = {v1}
  v1 = v1
  Vals <- Same
  None = None
  kWidth = 8
  H1 <- AllCollide
  H2 <- AllCollide
  Addr = {0}
  HashXor <- MCXor
  MaxCap = 7
SPECIFICATION Spec
INVARIANT FindReturns
SYMMETRY KeySymmetry
