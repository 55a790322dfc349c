SPECIFICATION Spec
CONSTANTS
  HalfBits = 2
  LargeLen = 2
  karatsubaThreshold = 2
  basicSqrThreshold = 3
  karatsubaSqrThreshold = 4
  divRecursiveThreshold = 6
  leafSize = 1
  MaxPower = 8
  Bases = {2, 3, 8, 10}
  Operands <- MCOperands
  LongPairs <- MCLongPairs
INVARIANTS
  WordsExact
  SumExact
  ProductExact
  QuotientExact
  TextExact
CHECK_DEADLOCK FALSE
