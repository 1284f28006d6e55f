SPECIFICATION FairPeersSpec
CONSTANTS
  p1 = p1
  p2 = p2
  t1 = t1
  t2 = t2
  Peer = {p1, p2}
  Topic = {t1}
  NoTopic = NoTopic
  InitialPeers = 2
  InitialTopics = 1
  InitialPeersPerTopic = 2
  MaxPeers = 2
  MaxTopics = 1
  MaxTopicPerPeer = 2
  MaxPeersPerTopic = 1
  MaxFriendsPerPeer = 1
  PeakTopicPeers = 1
  PeakMinTopics = 1
  MaxInbox = 1
  MaxCount = 2
  EvalTimeouts = FALSE
  MaxAttempts = 1
  MaxChanges = 1
INVARIANTS
  HandlesOwned
  CountsConserved
PROPERTIES
  ListedIsSubscribed
CHECK_DEADLOCK FALSE
