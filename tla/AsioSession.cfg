CONSTANTS
  Conn = {c1, c2, c3}
  MaxFds = 2
SPECIFICATION FairSpec
INVARIANT KeptExactly
PROPERTY PeersAttended
CHECK_DEADLOCK FALSE
