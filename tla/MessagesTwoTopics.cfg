SPECIFICATION Spec
CONSTANTS
  p1 = p1
  p2 = p2
  t1 = t1
  t2 = t2
  Peer = {p1, p2}
  Topic = {t1, t2}
  NoSend = NoSend
  Settled = TRUE
  MaxSends = 2
  MaxQueue = 2
  MaxMsgsPerPeer = 1
SYMMETRY Symmetry
INVARIANTS
  BufferBounded
  FreshRecvMeansDelivered
CHECK_DEADLOCK FALSE
