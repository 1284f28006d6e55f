SPECIFICATION FairCrossSpec
CONSTANTS
  TopicPeakingMinPeers = 2
  MaxCount = 4
  MaxLog = 1
  p1 = p1
  p2 = p2
  Peer = {p1, p2}
  Nobody = Nobody
  MaxWork = 2
INVARIANTS
  CountStatesExact
  StaleExact
  OnlySendsLose
  FirstCountExact
PROPERTIES
  HandlersReturn
