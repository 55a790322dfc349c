CONSTANTS
  Sock = {s1, s2}
  Invalid = Invalid
  Io = {d1, d2}
  Null = Null
  Worker = {w1, w2}
SPECIFICATION FairSpec
INVARIANTS Owned HandleOwned WorkersReleased
PROPERTIES PeerGoneIsClosed AbortedAcceptExits
