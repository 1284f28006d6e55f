SPECIFICATION FairSpec
CONSTANTS
  p1 = p1
  p2 = p2
  t1 = t1
  t2 = t2
  Peer = {p1, p2}
  Topic = {t1}
  NoSend = NoSend
  Settled = FALSE
  MaxSends = 1
  MaxQueue = 2
  MaxMsgsPerPeer = 1
INVARIANTS
  VerifiedAfterPublished
  
PROPERTIES
  EverySendEnds
CHECK_DEADLOCK FALSE
