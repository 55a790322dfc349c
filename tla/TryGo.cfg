CONSTANTS
  Size = 3
  UIntMax = 7
  MaxBlocks = 4
  MaxCalls = 2
  Codes = {"one"}
  Signals = {"SIGSEGV", "SIGFPE"}
  Sock = {s1, s2}
  Invalid = Invalid
  Io = {d1, d2}
  Null = Null
  Worker = {w1, w2}
SYMMETRY Symm
SPECIFICATION TryGoSpec
INVARIANTS HandlersNested Owned
CHECK_DEADLOCK FALSE
