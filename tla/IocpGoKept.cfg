CONSTANTS
  Sock = {s1, s2}
  Invalid = Invalid
  Io = {d1, d2}
  Null = Null
  Worker = {w1, w2}
SYMMETRY Symm
SPECIFICATION GoSpec
INVARIANT Intact
