SPECIFICATION Spec
CONSTANTS
  p1 = p1
  p2 = p2
  p3 = p3
  t1 = t1
  t2 = t2
  Peer = {p1, p2, p3}
  Topic = {t1, t2}
  NoTopic = NoTopic
  InitialPeers = 1
  InitialTopics = 2
  InitialPeersPerTopic = 2
  MaxPeers = 3
  MaxTopics = 2
  MaxTopicPerPeer = 1
  MaxPeersPerTopic = 1
  MaxFriendsPerPeer = 1
  PeakTopicPeers = 1
  PeakMinTopics = 2
  MaxInbox = 1
  MaxCount = 1
SYMMETRY Symmetry
INVARIANTS
  TypeOK
  FriendshipsOK
  MembershipsOK
  LimitsHold
  ListedMeansJoin
  NothingAfterRemoval
  MetricsExact
PROPERTIES
  FriendsPartOnlyUnshared
CHECK_DEADLOCK FALSE
