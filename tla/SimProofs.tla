----------------------------- MODULE SimProofs -----------------------------
(***************************************************************************)
(* What the simulator's handlers preserve, for every number of peers and   *)
(* topics and every configuration.                                         *)
(***************************************************************************)
EXTENDS Sim, TLAPS, FiniteSetTheorems, WellFoundedInduction

\* The sizes of a configuration are natural numbers.
LEMMA SizesNat ==
  /\ InitialPeers \in Nat /\ InitialTopics \in Nat /\ InitialPeersPerTopic \in Nat
  /\ MaxPeers \in Nat /\ MaxTopics \in Nat /\ PeakTopicPeers \in Nat
BY SizesAssumption DEF Sizes

\* The messages the simulator posts are mutations.
LEMMA MutationsTyped ==
  /\ \A t \in Topic : Join(t) \in Mutation /\ Leave(t) \in Mutation
  /\ RemoveStart \in Mutation
BY DEF Join, Leave, RemoveStart, Mutation

\* Repeating one mutation gives a sequence of mutations.
LEMMA RepeatTyped ==
  ASSUME NEW k \in Nat, NEW m \in Mutation
  PROVE  [i \in 1..k |-> m] \in Seq(Mutation)
<1> DEFINE s == [i \in 1..k |-> m]
<1>1. s \in [1..k -> Mutation]
  OBVIOUS
<1>2. QED BY <1>1

\* Posting keeps the inboxes sequences of mutations.
LEMMA TellTyped ==
  ASSUME TypeOK, NEW P, NEW m \in Mutation, Tell(P, m)
  PROVE  inbox' \in [Peer -> Seq(Mutation)]
<1>1. \A p \in Peer : Append(inbox[p], m) \in Seq(Mutation)
  BY DEF TypeOK
<1>2. QED BY <1>1 DEF Tell, TypeOK

\* Listing a topic for a set of peers keeps the types.
LEMMA EnterTopicTyped ==
  ASSUME TypeOK, NEW P, NEW t \in Topic, EnterTopic(P, t)
  PROVE  /\ simTopics' \in [Peer -> [Topic -> Nat]]
         /\ simTopicJoined' \in [Peer -> SUBSET Topic]
         /\ inbox' \in [Peer -> Seq(Mutation)]
<1>1. simTopics' \in [Peer -> [Topic -> Nat]]
  BY DEF EnterTopic, TypeOK
<1>2. simTopicJoined' \in [Peer -> SUBSET Topic]
  BY DEF EnterTopic, TypeOK
<1>3. inbox' \in [Peer -> Seq(Mutation)]
  BY TellTyped, MutationsTyped DEF EnterTopic
<1>4. QED BY <1>1, <1>2, <1>3

\* Creating a peer keeps the types.
LEMMA CreatePeerTyped ==
  ASSUME TypeOK, NEW p \in Peer, CreatePeer(p), boot' = boot, left' \in Nat
  PROVE  TypeOK'
BY DEF TypeOK, CreatePeer, memberVars

\* Creating a topic keeps the types.
LEMMA CreateTopicTyped ==
  ASSUME TypeOK, NEW t \in Topic, NEW C, CreateTopic(t, C), boot' = boot, left' \in Nat
  PROVE  TypeOK'
<1>1. EnterTopic(C, t) BY DEF CreateTopic
<1>2. QED BY <1>1, EnterTopicTyped DEF TypeOK, CreateTopic, peerVars

\* Every handler that lists topics goes through GetReadyPeers, whose members list
\* the topics they leave: the counts stay natural numbers.
LEMMA TypeStep == TypeOK /\ MembershipsOK /\ [Next]_vars => TypeOK'
<1> SUFFICES ASSUME TypeOK, MembershipsOK, [Next]_vars PROVE TypeOK'
  OBVIOUS
<1> USE SizesNat
<1>1. CASE BootAddPeer
  BY <1>1, CreatePeerTyped DEF BootAddPeer, TypeOK
<1>2. CASE BootPeersDone
  BY <1>2 DEF BootPeersDone, TypeOK, peerVars, memberVars
<1>3. CASE BootAddTopicEnter
  BY <1>3 DEF BootAddTopicEnter, TypeOK, peerVars, memberVars
<1>4. CASE BootAddTopic
  BY <1>4, CreateTopicTyped DEF BootAddTopic, TypeOK
<1>5. CASE BootAddTopicDup
  BY <1>5 DEF BootAddTopicDup, TypeOK, peerVars, memberVars
<1>6. CASE BootTopicsDone
  BY <1>6 DEF BootTopicsDone, TypeOK, peerVars, memberVars
<1>7. CASE AddPeerState
  BY <1>7, CreatePeerTyped DEF AddPeerState, TypeOK, bootVars
<1>8. CASE RemovePeerState
  <2>1. PICK p \in peers :
          /\ peers' = peers \ {p}
          /\ simFriends' = [q \in Peer |->
               IF q \in peers \ {p} /\ IsFriend(p, q)
               THEN [simFriends[q] EXCEPT ![p] = 0] ELSE simFriends[q]]
          /\ Tell({p}, RemoveStart)
    BY <1>8 DEF RemovePeerState
  <2>2. inbox' \in [Peer -> Seq(Mutation)]
    BY <2>1, TellTyped, MutationsTyped
  <2>3. simFriends' \in [Peer -> [Peer -> Nat]]
    BY <2>1 DEF TypeOK
  <2>4. QED BY <1>8, <2>1, <2>2, <2>3 DEF RemovePeerState, TypeOK, bootVars, memberVars
<1>9. CASE AddTopicState
  BY <1>9, CreateTopicTyped DEF AddTopicState, TypeOK, bootVars
<1>10. CASE RemoveTopicState
  <2>1. PICK t \in topics :
          /\ topics' = topics \ {t}
          /\ simTopics' = [p \in Peer |->
               IF p \in GetTopicPeers(t) THEN [simTopics[p] EXCEPT ![t] = @ - 1] ELSE simTopics[p]]
          /\ simTopicJoined' = [p \in Peer |->
               IF p \in GetTopicPeers(t) THEN simTopicJoined[p] \ {t} ELSE simTopicJoined[p]]
          /\ Tell(GetTopicPeers(t), Leave(t))
    BY <1>10 DEF RemoveTopicState
  <2>2. inbox' \in [Peer -> Seq(Mutation)]
    BY <2>1, TellTyped, MutationsTyped DEF TypeOK
  <2>3. \A p \in GetTopicPeers(t) : simTopics[p][t] > 0
    BY DEF GetTopicPeers, ListsTopic
  <2>4. simTopics' \in [Peer -> [Topic -> Nat]]
    BY <2>1, <2>3 DEF TypeOK
  <2>5. QED BY <1>10, <2>1, <2>2, <2>4 DEF RemoveTopicState, TypeOK, bootVars, peerVars
<1>11. CASE AddRandomFriendState
  <2>1. PICK p \in GetReadyPeers, q \in GetReadyPeers :
          /\ AddRandomFriendEnter(p, q)
          /\ simFriends' = BothAppend(p, q)
          /\ \E t \in TopicsOf(p) :
               IF ListsTopic(q, t) THEN UNCHANGED <<memberVars, inbox>>
                                   ELSE EnterTopic({q}, t)
    BY <1>11 DEF AddRandomFriendState
  <2>2. p \in Peer /\ q \in Peer
    BY DEF GetReadyPeers, TypeOK
  <2>3. simFriends' \in [Peer -> [Peer -> Nat]]
    <3>1. \A a, b \in Peer : simFriends[a][b] \in Nat /\ simFriends[a][b] + 1 \in Nat
      BY DEF TypeOK
    <3>2. QED BY <2>1, <3>1 DEF BothAppend
  <2>4. PICK t \in Topic : UNCHANGED <<memberVars, inbox>> \/ EnterTopic({q}, t)
    BY <2>1 DEF TopicsOf
  <2>5. /\ simTopics' \in [Peer -> [Topic -> Nat]]
        /\ simTopicJoined' \in [Peer -> SUBSET Topic]
        /\ inbox' \in [Peer -> Seq(Mutation)]
    BY <2>4, EnterTopicTyped DEF TypeOK, memberVars
  <2>6. QED BY <1>11, <2>3, <2>5 DEF AddRandomFriendState, TypeOK, bootVars, peerVars
<1>12. CASE GCState
  BY <1>12 DEF GCState, TypeOK, bootVars, peerVars, memberVars
<1>13. CASE JoinRandomTopicState
  <2>1. PICK p \in Peer, t \in Topic : EnterTopic({p}, t)
    BY <1>13 DEF JoinRandomTopicState, GetReadyPeers, TypeOK
  <2>2. QED BY <1>13, <2>1, EnterTopicTyped DEF JoinRandomTopicState, TypeOK, bootVars, peerVars
<1>14. CASE JoinFriendsTopicState
  <2>1. PICK p \in Peer, t \in Topic : EnterTopic({p}, t)
    BY <1>14 DEF JoinFriendsTopicState, GetReadyPeers, TypeOK
  <2>2. QED BY <1>14, <2>1, EnterTopicTyped DEF JoinFriendsTopicState, TypeOK, bootVars, peerVars
<1>15. CASE PeakRandTopicState
  <2>1. PICK t \in topics, n \in [GetReadyPeers -> 0..PeakTopicPeers] :
          inbox' = [p \in Peer |->
            IF p \in GetReadyPeers THEN inbox[p] \o [i \in 1..n[p] |-> Join(t)]
                                   ELSE inbox[p]]
    BY <1>15 DEF PeakRandTopicState
  <2>2. \A p \in GetReadyPeers : inbox[p] \o [i \in 1..n[p] |-> Join(t)] \in Seq(Mutation)
    <3> SUFFICES ASSUME NEW p \in GetReadyPeers
                 PROVE  inbox[p] \o [i \in 1..n[p] |-> Join(t)] \in Seq(Mutation)
      OBVIOUS
    <3>1. n[p] \in Nat /\ Join(t) \in Mutation
      BY MutationsTyped DEF TypeOK
    <3>2. [i \in 1..n[p] |-> Join(t)] \in Seq(Mutation)
      BY <3>1, RepeatTyped
    <3>3. inbox[p] \in Seq(Mutation)
      BY DEF GetReadyPeers, TypeOK
    <3>4. QED BY <3>2, <3>3
  <2>3. inbox' \in [Peer -> Seq(Mutation)]
    BY <2>1, <2>2 DEF TypeOK
  <2>4. QED BY <1>15, <2>3 DEF PeakRandTopicState, TypeOK, bootVars, peerVars, memberVars
<1>16. CASE Environment
  <2>1. CASE PeerReady
    BY <2>1 DEF PeerReady, TypeOK, bootVars, memberVars
  <2>2. ASSUME NEW p \in Peer, PeerTakes(p) PROVE TypeOK'
    BY <2>2 DEF PeerTakes, TypeOK, bootVars, peerVars, memberVars
  <2>3. ASSUME NEW t \in Topic, NEW d \in {-1, 1}, topicPeerChange(t, d) PROVE TypeOK'
    BY <2>3 DEF topicPeerChange, TypeOK, bootVars, peerVars, memberVars
  <2>4. QED BY <1>16, <2>1, <2>2, <2>3 DEF Environment
<1>17. CASE UNCHANGED vars
  BY <1>17 DEF vars, bootVars, peerVars, memberVars, TypeOK
<1>18. QED
  BY <1>1, <1>2, <1>3, <1>4, <1>5, <1>6, <1>7, <1>8, <1>9, <1>10, <1>11, <1>12, <1>13,
     <1>14, <1>15, <1>16, <1>17 DEF Next, Boot, Handler

-----------------------------------------------------------------------------
(* Friendships *)

\* A new peer makes friends with peers that are there, both ways.
LEMMA CreatePeerFriends ==
  ASSUME SimInv, NEW n \in Peer, CreatePeer(n)
  PROVE  FriendshipsOK'
<1>1. n \notin created /\ peers' = peers \cup {n} /\ simFriends' = simFriends
  BY DEF CreatePeer
<1>2. peers \subseteq Peer /\ peers \subseteq created /\ simFriends \in [Peer -> [Peer -> Nat]]
  BY DEF SimInv, TypeOK
<1>3. \A p \in peers : simFriends[p][n] = 0
  BY <1>1, <1>2 DEF SimInv, FriendshipsOK, FriendsLive, IsFriend
<1>4. \A q \in Peer : simFriends[n][q] = 0
  BY <1>1 DEF SimInv, NewPeersBlank
<1>5. FriendshipsMutual'
  BY <1>1, <1>2, <1>3, <1>4 DEF SimInv, FriendshipsOK, FriendshipsMutual
<1>6. FriendsLive'
  BY <1>1, <1>2, <1>4 DEF SimInv, FriendshipsOK, FriendsLive, IsFriend
<1>7. QED BY <1>5, <1>6 DEF FriendshipsOK

\* The peer that goes is erased from the list of each of its friends, and by
\* symmetry nobody else lists it.
LEMMA RemovePeerFriends ==
  ASSUME SimInv, RemovePeerState
  PROVE  FriendshipsOK'
<1>1. PICK g \in peers :
        /\ peers' = peers \ {g}
        /\ simFriends' = [q \in Peer |->
             IF q \in peers \ {g} /\ IsFriend(g, q)
             THEN [simFriends[q] EXCEPT ![g] = 0] ELSE simFriends[q]]
  BY DEF RemovePeerState
<1>2. peers \subseteq Peer /\ simFriends \in [Peer -> [Peer -> Nat]]
  BY DEF SimInv, TypeOK
<1>3. \A p \in peers' : simFriends'[p][g] = 0
  <2> SUFFICES ASSUME NEW p \in peers' PROVE simFriends'[p][g] = 0
    OBVIOUS
  <2>1. simFriends[p][g] = simFriends[g][p]
    BY <1>1 DEF SimInv, FriendshipsOK, FriendshipsMutual
  <2>2. CASE IsFriend(g, p)
    BY <1>1, <1>2, <2>2
  <2>3. CASE ~IsFriend(g, p)
    <3>1. simFriends[g][p] = 0
      BY <1>1, <1>2, <2>3 DEF IsFriend
    <3>2. QED BY <1>1, <1>2, <2>1, <2>3, <3>1
  <2>4. QED BY <2>2, <2>3
<1>4. \A p \in peers', q \in Peer : q # g => simFriends'[p][q] = simFriends[p][q]
  BY <1>1, <1>2
<1>5. FriendshipsMutual'
  BY <1>1, <1>2, <1>4 DEF SimInv, FriendshipsOK, FriendshipsMutual
<1>6. ASSUME NEW p \in peers', NEW q \in Peer, simFriends'[p][q] > 0
      PROVE  q \in peers' /\ q # p
  <2>1. q # g
    BY <1>3, <1>6
  <2>2. simFriends[p][q] > 0 /\ p \in peers
    BY <1>1, <1>4, <1>6, <2>1
  <2>3. QED BY <1>1, <2>1, <2>2 DEF SimInv, FriendshipsOK, FriendsLive, IsFriend
<1>7. QED BY <1>5, <1>6 DEF FriendshipsOK, FriendsLive, IsFriend

\* A new friendship is mutual, and not with oneself.
LEMMA AddRandomFriendFriends ==
  ASSUME SimInv, AddRandomFriendState
  PROVE  FriendshipsOK'
<1>1. PICK x \in peers, y \in peers :
        x # y /\ ~IsFriend(x, y) /\ simFriends' = BothAppend(x, y)
  BY DEF AddRandomFriendState, AddRandomFriendEnter, GetReadyPeers
<1>2. /\ peers \subseteq Peer /\ simFriends \in [Peer -> [Peer -> Nat]]
      /\ peers' = peers
  BY DEF SimInv, TypeOK, AddRandomFriendState, peerVars
<1>3. simFriends[x][y] = 0 /\ simFriends[y][x] = 0
  BY <1>1, <1>2 DEF SimInv, FriendshipsOK, FriendshipsMutual, IsFriend
<1>4. \A p, q \in Peer : simFriends'[p][q] =
        IF <<p, q>> \in {<<x, y>>, <<y, x>>} THEN simFriends[p][q] + 1 ELSE simFriends[p][q]
  BY <1>1 DEF BothAppend
<1>5. simFriends'[x][y] = 1 /\ simFriends'[y][x] = 1
  BY <1>1, <1>2, <1>3, <1>4
<1>6. \A p, q \in Peer :
        (p = x /\ q = y) \/ (p = y /\ q = x) \/ simFriends'[p][q] = simFriends[p][q]
  BY <1>4
<1>7. FriendshipsMutual'
  BY <1>1, <1>2, <1>5, <1>6 DEF SimInv, FriendshipsOK, FriendshipsMutual
<1>8. FriendsLive'
  BY <1>1, <1>2, <1>6 DEF SimInv, FriendshipsOK, FriendsLive, IsFriend
<1>9. QED BY <1>7, <1>8 DEF FriendshipsOK

\* Sharing a topic is symmetric, so both ends keep the friend or both drop it.
LEMMA GCFriends ==
  ASSUME SimInv, GCState
  PROVE  FriendshipsOK'
<1>1. /\ peers \subseteq Peer /\ simFriends \in [Peer -> [Peer -> Nat]]
      /\ peers' = peers
  BY DEF SimInv, TypeOK, GCState, peerVars
<1>2. \A p \in peers, q \in Peer :
        simFriends'[p][q] = IF KeepsFriend(p, q) THEN simFriends[p][q] ELSE 0
  BY <1>1 DEF GCState
<1>3. \A p, q \in peers : KeepsFriend(p, q) <=> KeepsFriend(q, p)
  BY DEF KeepsFriend, ShareTopic
<1>4. FriendshipsMutual'
  BY <1>1, <1>2, <1>3 DEF SimInv, FriendshipsOK, FriendshipsMutual
<1>5. FriendsLive'
  BY <1>1, <1>2 DEF SimInv, FriendshipsOK, FriendsLive, IsFriend
<1>6. QED BY <1>4, <1>5 DEF FriendshipsOK

\* Every step keeps the friendships.
LEMMA FriendStep == SimInv /\ [Next]_vars => FriendshipsOK'
<1> SUFFICES ASSUME SimInv, [Next]_vars PROVE FriendshipsOK'
  OBVIOUS
<1>1. CASE BootAddPeer
  BY <1>1, CreatePeerFriends DEF BootAddPeer
<1>2. CASE AddPeerState
  BY <1>2, CreatePeerFriends DEF AddPeerState
<1>3. CASE RemovePeerState
  BY <1>3, RemovePeerFriends
<1>4. CASE AddRandomFriendState
  BY <1>4, AddRandomFriendFriends
<1>5. CASE GCState
  BY <1>5, GCFriends
<1>6. CASE UNCHANGED <<peers, simFriends>>
  BY <1>6 DEF SimInv, FriendshipsOK, FriendshipsMutual, FriendsLive, IsFriend
<1>7. BootPeersDone \/ BootAddTopicEnter \/ BootAddTopic \/ BootAddTopicDup
        \/ BootTopicsDone \/ AddTopicState \/ RemoveTopicState \/ JoinRandomTopicState
        \/ JoinFriendsTopicState \/ PeakRandTopicState \/ Environment \/ UNCHANGED vars
      => UNCHANGED <<peers, simFriends>>
  BY DEF BootPeersDone, BootAddTopicEnter, BootAddTopic, BootAddTopicDup, BootTopicsDone,
     AddTopicState, CreateTopic, RemoveTopicState, JoinRandomTopicState,
     JoinFriendsTopicState, PeakRandTopicState, Environment, PeerReady, PeerTakes,
     topicPeerChange, vars, peerVars
<1>8. QED
  BY <1>1, <1>2, <1>3, <1>4, <1>5, <1>6, <1>7 DEF Next, Boot, Handler

-----------------------------------------------------------------------------
(* Memberships *)

\* Listing an existing topic for Ready peers that do not list it yet.
LEMMA EnterTopicMemberships ==
  ASSUME SimInv, NEW t \in Topic, NEW P, EnterTopic(P, t),
         P \subseteq peers \cap ready, \A p \in P : ~ListsTopic(p, t),
         peers' = peers, ready' = ready, topics \subseteq topics', t \in topics'
  PROVE  MembershipsOK'
<1>1. /\ peers \subseteq Peer /\ simTopics \in [Peer -> [Topic -> Nat]]
      /\ simTopicJoined \in [Peer -> SUBSET Topic]
  BY DEF SimInv, TypeOK
<1>2. \A p \in P : simTopics[p][t] = 0
  BY <1>1 DEF ListsTopic
<1>3. SUFFICES ASSUME NEW p \in peers, NEW u \in Topic
               PROVE  /\ simTopics'[p][u] <= 1
                      /\ simTopics'[p][u] > 0 => u \in topics' /\ p \in ready
                      /\ simTopics'[p][u] > 0 <=> u \in simTopicJoined'[p]
  BY <1>1 DEF MembershipsOK, ListsTopic
<1>4. /\ simTopics[p][u] <= 1
      /\ simTopics[p][u] > 0 => u \in topics /\ p \in ready
      /\ simTopics[p][u] > 0 <=> u \in simTopicJoined[p]
  BY <1>3 DEF SimInv, MembershipsOK, ListsTopic
<1>5. CASE p \in P /\ u = t
  <2>1. simTopics'[p][u] = 1 /\ u \in simTopicJoined'[p]
    BY <1>1, <1>2, <1>5 DEF EnterTopic
  <2>2. QED BY <1>5, <2>1
<1>6. CASE ~(p \in P /\ u = t)
  <2>1. simTopics'[p][u] = simTopics[p][u]
    BY <1>1, <1>6 DEF EnterTopic
  <2>2. u \in simTopicJoined'[p] <=> u \in simTopicJoined[p]
    BY <1>1, <1>6 DEF EnterTopic
  <2>3. QED BY <1>4, <2>1, <2>2
<1>7. QED BY <1>5, <1>6

\* A new topic is listed by the peers it lists.
LEMMA CreateTopicMemberships ==
  ASSUME SimInv, NEW t \in Topic, NEW C, CreateTopic(t, C)
  PROVE  MembershipsOK'
<1>1. /\ C \subseteq peers \cap ready /\ \A p \in C : ~ListsTopic(p, t)
      /\ topics \subseteq topics' /\ t \in topics'
      /\ peers' = peers /\ ready' = ready /\ EnterTopic(C, t)
  BY DEF CreateTopic, Room, GetReadyPeers, peerVars
<1>2. QED BY <1>1, EnterTopicMemberships

\* Every peer that lists the topic is Ready, so each is among GetTopicPeers.
LEMMA RemoveTopicMemberships ==
  ASSUME SimInv, RemoveTopicState
  PROVE  MembershipsOK'
<1>1. PICK t \in topics :
        /\ topics' = topics \ {t}
        /\ simTopics' = [p \in Peer |->
             IF p \in GetTopicPeers(t) THEN [simTopics[p] EXCEPT ![t] = @ - 1] ELSE simTopics[p]]
        /\ simTopicJoined' = [p \in Peer |->
             IF p \in GetTopicPeers(t) THEN simTopicJoined[p] \ {t} ELSE simTopicJoined[p]]
  BY DEF RemoveTopicState
<1>2. /\ peers \subseteq Peer /\ simTopics \in [Peer -> [Topic -> Nat]]
      /\ simTopicJoined \in [Peer -> SUBSET Topic] /\ t \in Topic
      /\ peers' = peers /\ ready' = ready
  BY DEF SimInv, TypeOK, RemoveTopicState, peerVars
<1>3. SUFFICES ASSUME NEW p \in peers, NEW u \in Topic
               PROVE  /\ simTopics'[p][u] <= 1
                      /\ simTopics'[p][u] > 0 => u \in topics' /\ p \in ready
                      /\ simTopics'[p][u] > 0 <=> u \in simTopicJoined'[p]
  BY <1>2 DEF MembershipsOK, ListsTopic
<1>4. /\ simTopics[p][u] <= 1
      /\ simTopics[p][u] > 0 => u \in topics /\ p \in ready
      /\ simTopics[p][u] > 0 <=> u \in simTopicJoined[p]
  BY <1>3 DEF SimInv, MembershipsOK, ListsTopic
<1>5. p \in GetTopicPeers(t) <=> simTopics[p][t] > 0
  BY <1>3, <1>2 DEF SimInv, MembershipsOK, GetTopicPeers, GetReadyPeers, ListsTopic
<1>6. CASE u = t
  <2>1. simTopics'[p][t] = 0
    BY <1>1, <1>2, <1>4, <1>5, <1>6
  <2>2. t \notin simTopicJoined'[p]
    BY <1>1, <1>2, <1>4, <1>5, <1>6
  <2>3. QED BY <1>6, <2>1, <2>2
<1>7. CASE u # t
  <2>1. simTopics'[p][u] = simTopics[p][u]
    BY <1>1, <1>2, <1>7
  <2>2. u \in simTopicJoined'[p] <=> u \in simTopicJoined[p]
    BY <1>1, <1>2, <1>7
  <2>3. QED BY <1>1, <1>4, <1>7, <2>1, <2>2
<1>8. QED BY <1>6, <1>7

\* A new peer is in no topic.
LEMMA CreatePeerMemberships ==
  ASSUME SimInv, NEW n \in Peer, CreatePeer(n)
  PROVE  MembershipsOK'
<1>1. /\ n \notin created /\ peers' = peers \cup {n} /\ ready' = ready /\ topics' = topics
      /\ simTopics' = simTopics /\ simTopicJoined' = simTopicJoined
  BY DEF CreatePeer, memberVars
<1>2. \A t \in Topic : simTopics[n][t] = 0 /\ t \notin simTopicJoined[n]
  BY <1>1 DEF SimInv, NewPeersBlank
<1>3. QED BY <1>1, <1>2 DEF SimInv, MembershipsOK, ListsTopic

\* Every step keeps the memberships.
LEMMA MembershipStep == SimInv /\ [Next]_vars => MembershipsOK'
<1> SUFFICES ASSUME SimInv, [Next]_vars PROVE MembershipsOK'
  OBVIOUS
<1>1. CASE BootAddPeer \/ AddPeerState
  BY <1>1, CreatePeerMemberships DEF BootAddPeer, AddPeerState
<1>2. CASE BootAddTopic \/ AddTopicState
  BY <1>2, CreateTopicMemberships DEF BootAddTopic, AddTopicState
<1>3. CASE RemoveTopicState
  BY <1>3, RemoveTopicMemberships
<1>4. CASE AddRandomFriendState
  <2>1. peers' = peers /\ ready' = ready /\ topics' = topics
    BY <1>4 DEF AddRandomFriendState, peerVars
  <2>2. PICK p \in GetReadyPeers, q \in GetReadyPeers, t \in Topic :
          /\ ListsTopic(p, t)
          /\ IF ListsTopic(q, t) THEN UNCHANGED <<memberVars, inbox>> ELSE EnterTopic({q}, t)
    BY <1>4 DEF AddRandomFriendState, TopicsOf
  <2>3. t \in topics
    BY <2>2 DEF GetReadyPeers, SimInv, MembershipsOK
  <2>4. CASE ListsTopic(q, t)
    BY <2>1, <2>2, <2>4 DEF SimInv, MembershipsOK, ListsTopic, memberVars
  <2>5. CASE ~ListsTopic(q, t)
    BY <2>1, <2>2, <2>3, <2>5, EnterTopicMemberships DEF GetReadyPeers
  <2>6. QED BY <2>4, <2>5
<1>5. CASE JoinRandomTopicState
  <2>1. peers' = peers /\ ready' = ready /\ topics' = topics
    BY <1>5 DEF JoinRandomTopicState, peerVars
  <2>2. PICK p \in GetReadyPeers, t \in topics : ~ListsTopic(p, t) /\ EnterTopic({p}, t)
    BY <1>5 DEF JoinRandomTopicState, JoinRandomTopicEnter
  <2>3. t \in Topic
    BY DEF SimInv, TypeOK
  <2>4. QED BY <2>1, <2>2, <2>3, EnterTopicMemberships DEF GetReadyPeers
<1>6. CASE JoinFriendsTopicState
  <2>1. peers' = peers /\ ready' = ready /\ topics' = topics
    BY <1>6 DEF JoinFriendsTopicState, peerVars
  <2>2. PICK p \in GetReadyPeers, q \in peers, t \in Topic :
          ListsTopic(q, t) /\ ~ListsTopic(p, t) /\ EnterTopic({p}, t)
    BY <1>6 DEF JoinFriendsTopicState, JoinFriendsTopicEnter
  <2>3. t \in topics
    BY <2>2 DEF SimInv, MembershipsOK
  <2>4. QED BY <2>1, <2>2, <2>3, EnterTopicMemberships DEF GetReadyPeers
<1>7. CASE RemovePeerState
  <2>1. peers' \subseteq peers /\ ready' = ready /\ topics' = topics /\ UNCHANGED memberVars
    BY <1>7 DEF RemovePeerState
  <2>2. QED BY <2>1 DEF SimInv, MembershipsOK, ListsTopic, memberVars
<1>8. CASE PeerReady
  <2>1. peers' = peers /\ ready \subseteq ready' /\ topics' = topics /\ UNCHANGED memberVars
    BY <1>8 DEF PeerReady
  <2>2. QED BY <2>1 DEF SimInv, MembershipsOK, ListsTopic, memberVars
<1>9. CASE UNCHANGED <<peers, ready, topics, memberVars>>
  BY <1>9 DEF SimInv, MembershipsOK, ListsTopic, memberVars
<1>10. BootPeersDone \/ BootAddTopicEnter \/ BootAddTopicDup \/ BootTopicsDone \/ GCState
         \/ PeakRandTopicState \/ (\E p \in Peer : PeerTakes(p))
         \/ (\E t \in Topic, d \in {-1, 1} : topicPeerChange(t, d)) \/ UNCHANGED vars
       => UNCHANGED <<peers, ready, topics, memberVars>>
  BY DEF BootPeersDone, BootAddTopicEnter, BootAddTopicDup, BootTopicsDone, GCState,
     PeakRandTopicState, PeerTakes, topicPeerChange, vars, peerVars
<1>11. QED
  BY <1>1, <1>2, <1>3, <1>4, <1>5, <1>6, <1>7, <1>8, <1>9, <1>10
     DEF Next, Boot, Handler, Environment

-----------------------------------------------------------------------------
(* Peers that do not exist yet *)

\* Every step leaves the peers to come blank.
LEMMA BlankStep == SimInv /\ [Next]_vars => NewPeersBlank'
<1> SUFFICES ASSUME SimInv, [Next]_vars PROVE NewPeersBlank'
  OBVIOUS
<1>1. created \subseteq created' /\ peers \subseteq created /\ created \subseteq Peer
  <2>1. peers \subseteq created /\ created \subseteq Peer
    BY DEF SimInv, TypeOK
  <2>2. created \subseteq created'
    BY DEF Next, Boot, Handler, Environment, vars, peerVars, BootAddPeer, BootPeersDone,
       BootAddTopicEnter, BootAddTopic, BootAddTopicDup, BootTopicsDone, AddPeerState,
       RemovePeerState, AddTopicState, RemoveTopicState, AddRandomFriendState, GCState,
       JoinRandomTopicState, JoinFriendsTopicState, PeakRandTopicState, PeerReady,
       PeerTakes, topicPeerChange, CreatePeer, CreateTopic
  <2>3. QED BY <2>1, <2>2
<1>2. SUFFICES ASSUME NEW p \in Peer \ created
               PROVE  /\ simFriends'[p] = simFriends[p]
                      /\ simTopics'[p] = simTopics[p]
                      /\ simTopicJoined'[p] = simTopicJoined[p]
  BY <1>1 DEF SimInv, NewPeersBlank
<1>3. /\ simTopics \in [Peer -> [Topic -> Nat]]
      /\ simTopicJoined \in [Peer -> SUBSET Topic]
      /\ simFriends \in [Peer -> [Peer -> Nat]]
      /\ p \notin peers
  BY <1>1 DEF SimInv, TypeOK
<1>4. ASSUME NEW P, NEW t, P \subseteq peers, EnterTopic(P, t)
      PROVE  simTopics'[p] = simTopics[p] /\ simTopicJoined'[p] = simTopicJoined[p]
  BY <1>3, <1>4 DEF EnterTopic
<1>5. CASE BootAddPeer \/ AddPeerState
  BY <1>5 DEF BootAddPeer, AddPeerState, CreatePeer, memberVars
<1>6. CASE BootAddTopic \/ AddTopicState
  BY <1>4, <1>6 DEF BootAddTopic, AddTopicState, CreateTopic, Room, GetReadyPeers
<1>7. CASE RemovePeerState
  <2>1. PICK g \in peers : simFriends' = [q \in Peer |->
             IF q \in peers \ {g} /\ IsFriend(g, q)
             THEN [simFriends[q] EXCEPT ![g] = 0] ELSE simFriends[q]]
    BY <1>7 DEF RemovePeerState
  <2>2. UNCHANGED memberVars
    BY <1>7 DEF RemovePeerState
  <2>3. QED BY <1>3, <2>1, <2>2 DEF memberVars
<1>8. CASE RemoveTopicState
  BY <1>3, <1>8 DEF RemoveTopicState, GetTopicPeers, GetReadyPeers
<1>9. CASE AddRandomFriendState
  <2>1. PICK x \in peers, y \in peers :
          /\ simFriends' = BothAppend(x, y)
          /\ UNCHANGED memberVars \/ \E t \in Topic : EnterTopic({y}, t)
    BY <1>9 DEF AddRandomFriendState, GetReadyPeers, TopicsOf
  <2>2. \A q \in Peer : simFriends'[p][q] = simFriends[p][q]
    BY <1>3, <2>1 DEF BothAppend
  <2>3. simFriends'[p] = simFriends[p]
    BY <1>3, <2>1, <2>2 DEF BothAppend
  <2>4. QED BY <1>4, <2>1, <2>3 DEF memberVars
<1>10. CASE GCState
  BY <1>3, <1>10 DEF GCState, memberVars
<1>11. CASE JoinRandomTopicState \/ JoinFriendsTopicState
  BY <1>4, <1>11 DEF JoinRandomTopicState, JoinFriendsTopicState, GetReadyPeers
<1>12. CASE UNCHANGED <<memberVars, simFriends>>
  BY <1>12 DEF memberVars
<1>13. BootPeersDone \/ BootAddTopicEnter \/ BootAddTopicDup \/ BootTopicsDone
         \/ PeakRandTopicState \/ Environment \/ UNCHANGED vars
       => UNCHANGED <<memberVars, simFriends>>
  BY DEF BootPeersDone, BootAddTopicEnter, BootAddTopicDup, BootTopicsDone,
     PeakRandTopicState, Environment, PeerReady, PeerTakes, topicPeerChange, vars
<1>14. QED
  BY <1>5, <1>6, <1>7, <1>8, <1>9, <1>10, <1>11, <1>12, <1>13 DEF Next, Boot, Handler

-----------------------------------------------------------------------------
(* Sums.  `Total' is a fold, defined by recursion over the subsets of a finite *)
(* domain: induction over them is an argument about a smallest exception.      *)

\* A set of natural numbers that is not empty has a least one.
LEMMA LeastNat ==
  ASSUME NEW T \in SUBSET Nat, T # {}
  PROVE  \E x \in T : \A y \in T : x <= y
<1> DEFINE R == OpToRel(<, Nat)
<1>1. \A x, y \in T : <<y, x>> \in R <=> y < x
  BY DEF OpToRel
<1>2. IsWellFoundedOn(R, Nat)
  BY NatLessThanWellFounded
<1> HIDE DEF R
<1>3. PICK x \in T : \A y \in T : ~(<<y, x>> \in R)
  BY <1>2, WFMin
<1>4. \A y \in T : ~(y < x)
  BY <1>1, <1>3
<1>5. QED BY <1>4

\* Complete induction over the subsets of a finite set, T being those with the property.
LEMMA SubsetInduction ==
  ASSUME NEW D, IsFiniteSet(D), NEW T \in SUBSET SUBSET D,
         \A s \in SUBSET D : (\A r \in SUBSET s : r # s => r \in T) => s \in T
  PROVE  T = SUBSET D
<1> DEFINE Bad   == (SUBSET D) \ T
           SizesOf(B) == {Cardinality(s) : s \in B}
<1>1. \A s \in SUBSET D : IsFiniteSet(s) /\ Cardinality(s) \in Nat
  BY FS_Subset, FS_CardinalityType
<1>2. SUFFICES ASSUME Bad # {} PROVE FALSE
  OBVIOUS
<1>3. SizesOf(Bad) \in SUBSET Nat /\ SizesOf(Bad) # {}
  BY <1>1, <1>2
<1>4. PICK s \in Bad : \A r \in Bad : Cardinality(s) <= Cardinality(r)
  <2>1. PICK k \in SizesOf(Bad) : \A j \in SizesOf(Bad) : k <= j
    <3> HIDE DEF SizesOf
    <3>1. QED BY <1>3, LeastNat
  <2>2. QED BY <2>1
<1>5. ASSUME NEW r \in SUBSET s, r # s PROVE r \in T
  <2>1. Cardinality(r) < Cardinality(s) /\ r \in SUBSET D
    BY <1>1, <1>5, FS_Subset
  <2>2. QED BY <1>1, <1>4, <2>1
<1>6. QED BY <1>4, <1>5

AnyOf(s)         == CHOOSE x \in s : TRUE
SumStep(f, g, s) == IF s = {} THEN 0 ELSE f[AnyOf(s)] + g[s \ {AnyOf(s)}]

\* The sums of f over the parts of its domain.
Sums(f) == CHOOSE g : g = [s \in SUBSET DOMAIN f |-> SumStep(f, g, s)]

\* A total is the sum over the whole domain.
LEMMA TotalIs ==
  ASSUME NEW f
  PROVE  Total(f) = Sums(f)[DOMAIN f]
BY DEF Total, FoldFunction, FoldFunctionOnSet, MapThenFoldSet, Sums, SumStep, AnyOf

\* The recursion has a solution: one for the parts of size k at most, for every k.
LEMMA SumsExist ==
  ASSUME NEW D, IsFiniteSet(D), NEW f \in [D -> Int]
  PROVE  \E g : g = [s \in SUBSET D |-> SumStep(f, g, s)]
<1> DEFINE Small(k) == {s \in SUBSET D : Cardinality(s) <= k}
           Good(k)  == \E g \in [Small(k) -> Int] : \A s \in Small(k) : g[s] = SumStep(f, g, s)
           Bad      == {k \in Nat : ~Good(k)}
<1>1. \A s \in SUBSET D : IsFiniteSet(s) /\ Cardinality(s) \in Nat
  BY FS_Subset, FS_CardinalityType
<1>2. \A s \in SUBSET D : s # {} => /\ AnyOf(s) \in s /\ s \ {AnyOf(s)} \in SUBSET D
                                    /\ Cardinality(s \ {AnyOf(s)}) = Cardinality(s) - 1
  <2> SUFFICES ASSUME NEW s \in SUBSET D, s # {}
      PROVE  /\ AnyOf(s) \in s /\ s \ {AnyOf(s)} \in SUBSET D
             /\ Cardinality(s \ {AnyOf(s)}) = Cardinality(s) - 1
    OBVIOUS
  <2>1. AnyOf(s) \in s
    BY DEF AnyOf
  <2>2. QED BY <1>1, <2>1, FS_RemoveElement
<1>3. \A s \in SUBSET D : Cardinality(s) = 0 <=> s = {}
  BY <1>1, FS_EmptySet
<1>4. Good(0)
  <2> DEFINE g == [s \in Small(0) |-> 0]
  <2>1. \A s \in Small(0) : s = {}
    BY <1>1, <1>3
  <2>2. g \in [Small(0) -> Int] /\ \A s \in Small(0) : g[s] = SumStep(f, g, s)
    BY <2>1 DEF SumStep
  <2>3. QED BY <2>2
<1>5. ASSUME NEW k \in Nat, Good(k) PROVE Good(k + 1)
  <2>1. PICK g \in [Small(k) -> Int] : \A s \in Small(k) : g[s] = SumStep(f, g, s)
    BY <1>5
  <2> DEFINE h == [s \in Small(k + 1) |-> SumStep(f, g, s)]
  <2>2. ASSUME NEW s \in Small(k + 1), s # {}
        PROVE  s \ {AnyOf(s)} \in Small(k) /\ AnyOf(s) \in D
    BY <1>1, <1>2, <2>2
  <2>3. Small(k) \subseteq Small(k + 1)
    BY <1>1
  <2>4. \A s \in Small(k) : h[s] = g[s]
    BY <2>1, <2>3
  <2>5. \A s \in Small(k + 1) : h[s] \in Int
    BY <2>1, <2>2 DEF SumStep
  <2>6. \A s \in Small(k + 1) : h[s] = SumStep(f, h, s)
    BY <2>2, <2>4 DEF SumStep
  <2>7. h \in [Small(k + 1) -> Int]
    BY <2>5
  <2> HIDE DEF h, Small
  <2>8. QED BY <2>6, <2>7
<1> HIDE DEF Good
<1>6. Bad = {}
  <2> SUFFICES ASSUME Bad # {} PROVE FALSE
    OBVIOUS
  <2>1. PICK k \in Bad : \A j \in Bad : k <= j
    <3>1. Bad \in SUBSET Nat
      OBVIOUS
    <3> HIDE DEF Bad
    <3>2. QED BY <3>1, LeastNat
  <2>2. k # 0 /\ k \in Nat
    BY <1>4
  <2>3. k - 1 \in Nat /\ Good(k - 1)
    BY <2>1, <2>2
  <2>4. QED BY <1>5, <2>2, <2>3
<1>7. Good(Cardinality(D))
  BY <1>1, <1>6
<1>8. Small(Cardinality(D)) = SUBSET D
  BY FS_Subset, <1>1
<1>9. PICK g \in [SUBSET D -> Int] : \A s \in SUBSET D : g[s] = SumStep(f, g, s)
  BY <1>7, <1>8 DEF Good
<1>10. g = [s \in SUBSET D |-> SumStep(f, g, s)]
  BY <1>9
<1>11. QED BY <1>10

\* The sums are integers, and an element may be taken out first that is not the one
\* that the recursion takes.
LEMMA SumsAre ==
  ASSUME NEW D, IsFiniteSet(D), NEW f \in [D -> Int]
  PROVE  /\ Sums(f)[{}] = 0
         /\ \A s \in SUBSET D : Sums(f)[s] \in Int
         /\ \A s \in SUBSET D : \A y \in s : Sums(f)[s] = f[y] + Sums(f)[s \ {y}]
<1> DEFINE g == Sums(f)
           T == {s \in SUBSET D : g[s] \in Int /\ \A y \in s : g[s] = f[y] + g[s \ {y}]}
<1>1. g = [s \in SUBSET D |-> SumStep(f, g, s)]
  <2>1. DOMAIN f = D
    OBVIOUS
  <2>2. QED BY <2>1, SumsExist DEF Sums
<1> HIDE DEF g
<1>2. \A s \in SUBSET D : g[s] = SumStep(f, g, s)
  BY <1>1
<1>3. g[{}] = 0
  BY <1>2 DEF SumStep
<1>4. ASSUME NEW s \in SUBSET D, \A r \in SUBSET s : r # s => r \in T PROVE s \in T
  <2>1. CASE s = {}
    BY <1>3, <2>1
  <2>2. CASE s # {}
    <3> DEFINE x == AnyOf(s)
    <3>1. x \in s
      BY <2>2 DEF AnyOf
    <3>2. g[s] = f[x] + g[s \ {x}]
      BY <1>2, <2>2 DEF SumStep
    <3> HIDE DEF x
    <3>3. ASSUME NEW y \in s, y # x PROVE g[s] = f[y] + g[s \ {y}]
      <4>1. s \ {x} \in T /\ s \ {y} \in T /\ y \in s \ {x} /\ x \in s \ {y}
        BY <1>4, <3>1, <3>3
      <4>2. (s \ {x}) \ {y} = (s \ {y}) \ {x}
        OBVIOUS
      <4>3. g[s \ {x}] = f[y] + g[(s \ {x}) \ {y}] /\ g[s \ {y}] = f[x] + g[(s \ {x}) \ {y}]
        BY <4>1, <4>2
      <4>4. (s \ {x}) \ {y} \in T
        BY <1>4, <3>1
      <4>5. f[x] \in Int /\ f[y] \in Int /\ g[(s \ {x}) \ {y}] \in Int
        BY <3>1, <4>4
      <4>6. QED BY <3>2, <4>3, <4>5
    <3>4. g[s] \in Int
      <4>1. s \ {x} \in T /\ f[x] \in Int
        BY <1>4, <3>1
      <4>2. QED BY <3>2, <4>1
    <3>5. QED BY <3>2, <3>3, <3>4
  <2>3. QED BY <2>1, <2>2
<1>5. T = SUBSET D
  <2>1. T \in SUBSET SUBSET D
    OBVIOUS
  <2>2. \A s \in SUBSET D : (\A r \in SUBSET s : r # s => r \in T) => s \in T
    BY <1>4
  <2> HIDE DEF T
  <2>3. QED BY <2>1, <2>2, SubsetInduction
<1>6. QED BY <1>3, <1>5 DEF g

\* A sum is one of its terms and the sum of the others.
LEMMA SumsTake ==
  ASSUME NEW D, IsFiniteSet(D), NEW f \in [D -> Int]
  PROVE  \A s \in SUBSET D : \A y \in s :
           Sums(f)[s] = f[y] + Sums(f)[s \ {y}] /\ Sums(f)[s \ {y}] \in Int
<1> SUFFICES ASSUME NEW s \in SUBSET D, NEW y \in s
    PROVE  Sums(f)[s] = f[y] + Sums(f)[s \ {y}] /\ Sums(f)[s \ {y}] \in Int
  OBVIOUS
<1>1. s \ {y} \in SUBSET D
  OBVIOUS
<1>2. Sums(f)[s \ {y}] \in Int
  BY <1>1, SumsAre
<1>3. Sums(f)[s] = f[y] + Sums(f)[s \ {y}]
  BY SumsAre
<1>4. QED BY <1>2, <1>3

\* Sums grow with what is added.
LEMMA SumsLe ==
  ASSUME NEW D, IsFiniteSet(D), NEW f \in [D -> Int], NEW g \in [D -> Int]
  PROVE  \A s \in SUBSET D : (\A x \in s : f[x] <= g[x]) => Sums(f)[s] <= Sums(g)[s]
<1> DEFINE T == {s \in SUBSET D : (\A x \in s : f[x] <= g[x]) => Sums(f)[s] <= Sums(g)[s]}
<1>1. ASSUME NEW s \in SUBSET D, \A r \in SUBSET s : r # s => r \in T PROVE s \in T
  <2>1. CASE s = {}
    BY <2>1, SumsAre
  <2>2. ASSUME NEW y \in s, \A x \in s : f[x] <= g[x] PROVE Sums(f)[s] <= Sums(g)[s]
    <3>1. Sums(f)[s \ {y}] <= Sums(g)[s \ {y}] /\ s \ {y} \in SUBSET D
      BY <1>1, <2>2
    <3>2. Sums(f)[s] = f[y] + Sums(f)[s \ {y}] /\ Sums(f)[s \ {y}] \in Int
      BY SumsTake, Zenon
    <3>3. Sums(g)[s] = g[y] + Sums(g)[s \ {y}] /\ Sums(g)[s \ {y}] \in Int
      BY SumsTake, Zenon
    <3>4. f[y] \in Int /\ g[y] \in Int /\ f[y] <= g[y]
      BY <2>2
    <3>5. QED BY <3>1, <3>2, <3>3, <3>4
  <2>3. QED BY <2>1, <2>2
<1>2. T = SUBSET D
  <2>1. T \in SUBSET SUBSET D
    OBVIOUS
  <2>2. \A s \in SUBSET D : (\A r \in SUBSET s : r # s => r \in T) => s \in T
    BY <1>1
  <2> HIDE DEF T
  <2>3. QED BY <2>1, <2>2, SubsetInduction
<1>3. QED BY <1>2

\* A total of integers is an integer.
LEMMA TotalInt ==
  ASSUME NEW D, IsFiniteSet(D), NEW f \in [D -> Int]
  PROVE  Total(f) \in Int
<1>1. DOMAIN f = D
  OBVIOUS
<1>2. QED BY <1>1, SumsAre, TotalIs

\* Smaller terms have a smaller total.
LEMMA TotalLe ==
  ASSUME NEW D, IsFiniteSet(D), NEW f \in [D -> Int], NEW g \in [D -> Int],
         \A x \in D : f[x] <= g[x]
  PROVE  Total(f) <= Total(g)
<1>1. DOMAIN f = D /\ DOMAIN g = D /\ D \in SUBSET D
  OBVIOUS
<1>2. QED BY <1>1, SumsLe, TotalIs

\* Zeros have the total zero.
LEMMA TotalZero ==
  ASSUME NEW D, IsFiniteSet(D), NEW f \in [D -> Int], \A x \in D : f[x] = 0
  PROVE  Total(f) = 0
<1> DEFINE T == {s \in SUBSET D : Sums(f)[s] = 0}
<1>1. ASSUME NEW s \in SUBSET D, \A r \in SUBSET s : r # s => r \in T PROVE s \in T
  <2>1. CASE s = {}
    BY <2>1, SumsAre
  <2>2. ASSUME NEW y \in s PROVE Sums(f)[s] = 0
    <3>1. Sums(f)[s \ {y}] = 0 /\ f[y] = 0
      BY <1>1, <2>2
    <3>2. Sums(f)[s] = f[y] + Sums(f)[s \ {y}]
      BY SumsAre
    <3>3. QED BY <3>1, <3>2
  <2>3. QED BY <2>1, <2>2
<1>2. T = SUBSET D
  <2>1. T \in SUBSET SUBSET D
    OBVIOUS
  <2>2. \A s \in SUBSET D : (\A r \in SUBSET s : r # s => r \in T) => s \in T
    BY <1>1
  <2> HIDE DEF T
  <2>3. QED BY <2>1, <2>2, SubsetInduction
<1>3. QED BY <1>2, TotalIs

\* One term changes.
LEMMA TotalUpdate ==
  ASSUME NEW D, IsFiniteSet(D), NEW f \in [D -> Int], NEW g \in [D -> Int], NEW y \in D,
         \A x \in D \ {y} : g[x] = f[x]
  PROVE  Total(g) = Total(f) - f[y] + g[y]
<1>1. DOMAIN f = D /\ DOMAIN g = D /\ D \in SUBSET D /\ D \ {y} \in SUBSET D
  OBVIOUS
<1>2. Sums(f)[D \ {y}] = Sums(g)[D \ {y}]
  <2>1. (\A x \in D \ {y} : f[x] <= g[x]) /\ (\A x \in D \ {y} : g[x] <= f[x])
    <3>1. \A x \in D \ {y} : f[x] \in Int /\ g[x] = f[x]
      OBVIOUS
    <3>2. QED BY <3>1
  <2>2. Sums(f)[D \ {y}] <= Sums(g)[D \ {y}] /\ Sums(g)[D \ {y}] <= Sums(f)[D \ {y}]
    BY <1>1, <2>1, SumsLe
  <2>3. Sums(f)[D \ {y}] \in Int /\ Sums(g)[D \ {y}] \in Int
    BY <1>1, SumsAre
  <2>4. QED BY <2>2, <2>3
<1>3. Sums(f)[D] = f[y] + Sums(f)[D \ {y}] /\ Sums(f)[D \ {y}] \in Int
  BY <1>1, SumsTake, Zenon
<1>4. Sums(g)[D] = g[y] + Sums(g)[D \ {y}] /\ Sums(g)[D \ {y}] \in Int
  BY <1>1, SumsTake, Zenon
<1>5. f[y] \in Int /\ g[y] \in Int
  OBVIOUS
<1>6. QED BY <1>1, <1>2, <1>3, <1>4, <1>5, TotalIs

\* The total of sums is the sum of totals.
LEMMA TotalPlus ==
  ASSUME NEW D, IsFiniteSet(D), NEW f \in [D -> Int], NEW g \in [D -> Int], NEW h \in [D -> Int],
         \A x \in D : h[x] = f[x] + g[x]
  PROVE  Total(h) = Total(f) + Total(g)
<1> DEFINE T == {s \in SUBSET D : Sums(h)[s] = Sums(f)[s] + Sums(g)[s]}
<1>1. ASSUME NEW s \in SUBSET D, \A r \in SUBSET s : r # s => r \in T PROVE s \in T
  <2>1. CASE s = {}
    BY <2>1, SumsAre
  <2>2. ASSUME NEW y \in s PROVE Sums(h)[s] = Sums(f)[s] + Sums(g)[s]
    <3>1. Sums(h)[s \ {y}] = Sums(f)[s \ {y}] + Sums(g)[s \ {y}] /\ s \ {y} \in SUBSET D
      BY <1>1, <2>2
    <3>2. Sums(f)[s] = f[y] + Sums(f)[s \ {y}] /\ Sums(f)[s \ {y}] \in Int
      BY SumsTake, Zenon
    <3>3. Sums(g)[s] = g[y] + Sums(g)[s \ {y}] /\ Sums(g)[s \ {y}] \in Int
      BY SumsTake, Zenon
    <3>4. Sums(h)[s] = h[y] + Sums(h)[s \ {y}] /\ Sums(h)[s \ {y}] \in Int
      BY SumsTake, Zenon
    <3>5. f[y] \in Int /\ g[y] \in Int /\ h[y] = f[y] + g[y]
      BY <2>2
    <3>6. QED BY <3>1, <3>2, <3>3, <3>4, <3>5
  <2>3. QED BY <2>1, <2>2
<1>2. T = SUBSET D
  <2>1. T \in SUBSET SUBSET D
    OBVIOUS
  <2>2. \A s \in SUBSET D : (\A r \in SUBSET s : r # s => r \in T) => s \in T
    BY <1>1
  <2> HIDE DEF T
  <2>3. QED BY <2>1, <2>2, SubsetInduction
<1>3. QED BY <1>2, TotalIs

\* A sum of zeros and ones counts the ones.
LEMMA TotalCounts ==
  ASSUME NEW D, IsFiniteSet(D), NEW f \in [D -> Int], \A x \in D : f[x] \in {0, 1}
  PROVE  Total(f) = Cardinality({x \in D : f[x] = 1})
<1> DEFINE Ones(s) == {x \in s : f[x] = 1}
           T == {s \in SUBSET D : Sums(f)[s] = Cardinality(Ones(s))}
<1>1. ASSUME NEW s \in SUBSET D, \A r \in SUBSET s : r # s => r \in T PROVE s \in T
  <2>1. CASE s = {}
    <3>1. Ones({}) = {}
      OBVIOUS
    <3>2. QED BY <2>1, <3>1, SumsAre, FS_EmptySet
  <2>2. ASSUME NEW y \in s PROVE Sums(f)[s] = Cardinality(Ones(s))
    <3> DEFINE r == s \ {y}
    <3>1. Sums(f)[r] = Cardinality(Ones(r)) /\ r \in SUBSET D
      BY <1>1, <2>2
    <3>2. Sums(f)[s] = f[y] + Sums(f)[r]
      BY SumsAre
    <3>3. IsFiniteSet(Ones(r)) /\ Cardinality(Ones(r)) \in Nat
      <4>1. Ones(r) \in SUBSET D
        OBVIOUS
      <4>2. QED BY <4>1, FS_Subset, FS_CardinalityType
    <3>4. CASE f[y] = 1
      <4>1. Ones(s) = Ones(r) \cup {y} /\ y \notin Ones(r)
        BY <3>4
      <4>2. Cardinality(Ones(s)) = Cardinality(Ones(r)) + 1
        BY <3>3, <4>1, FS_AddElement
      <4>3. QED BY <3>1, <3>2, <3>3, <3>4, <4>2
    <3>5. CASE f[y] = 0
      <4>1. Ones(s) = Ones(r)
        BY <3>5
      <4>2. Cardinality(Ones(s)) = Cardinality(Ones(r))
        BY <4>1
      <4> HIDE DEF Ones
      <4>3. QED BY <3>1, <3>2, <3>3, <3>5, <4>2
    <3>6. QED BY <3>4, <3>5
  <2>3. QED BY <2>1, <2>2
<1>2. T = SUBSET D
  <2>1. T \in SUBSET SUBSET D
    OBVIOUS
  <2>2. \A s \in SUBSET D : (\A r \in SUBSET s : r # s => r \in T) => s \in T
    BY <1>1
  <2> HIDE DEF T
  <2>3. QED BY <2>1, <2>2, SubsetInduction
<1>3. QED BY <1>2, TotalIs

\* A total of natural numbers is positive when a term is.
LEMMA TotalPositive ==
  ASSUME NEW D, IsFiniteSet(D), NEW f \in [D -> Nat]
  PROVE  Total(f) > 0 <=> \E x \in D : f[x] > 0
<1>1. f \in [D -> Int]
  OBVIOUS
<1>2. ASSUME \A x \in D : ~(f[x] > 0) PROVE Total(f) = 0
  <2>1. \A x \in D : f[x] = 0
    BY <1>2
  <2>2. QED BY <1>1, <2>1, TotalZero
<1>3. ASSUME NEW x \in D, f[x] > 0 PROVE Total(f) > 0
  <2> DEFINE g == [y \in D |-> IF y = x THEN 1 ELSE 0]
  <2>1. g \in [D -> Int] /\ (\A y \in D : g[y] \in {0, 1}) /\ \A y \in D : g[y] <= f[y]
    BY <1>3
  <2>2. {y \in D : g[y] = 1} = {x}
    OBVIOUS
  <2> HIDE DEF g
  <2>3. Total(g) = 1
    <3>1. Total(g) = Cardinality({y \in D : g[y] = 1})
      BY <2>1, TotalCounts
    <3>2. QED BY <2>2, <3>1, FS_Singleton
  <2>4. Total(g) <= Total(f) /\ Total(f) \in Int
    BY <1>1, <2>1, TotalLe, TotalInt
  <2>5. QED BY <2>3, <2>4
<1>4. QED BY <1>2, <1>3

\* Two ends of every pair: the degrees of a symmetric relation without loops add up to
\* twice the number of its pairs.
Degrees(D, E, A) == [p \in D |-> IF p \in A THEN Cardinality({q \in A : <<p, q>> \in E}) ELSE 0]
Pairs(E, A)      == {P \in SUBSET A : \E p, q \in P : P = {p, q} /\ <<p, q>> \in E}

\* One more element adds as many pairs as it has neighbours.
LEMMA PairsGrow ==
  ASSUME NEW A, IsFiniteSet(A), NEW E, NEW x \in A, <<x, x>> \notin E,
         \A p, q \in A : <<p, q>> \in E => <<q, p>> \in E
  PROVE  /\ Cardinality(Pairs(E, A)) =
              Cardinality(Pairs(E, A \ {x})) + Cardinality({q \in A \ {x} : <<x, q>> \in E})
         /\ Cardinality(Pairs(E, A)) \in Nat
<1> DEFINE B == A \ {x}
           N == {q \in B : <<x, q>> \in E}
           T == {{x, q} : q \in N}
           f == [q \in N |-> {x, q}]
<1>1. IsFiniteSet(N) /\ IsFiniteSet(Pairs(E, B))
  <2>1. N \in SUBSET A /\ Pairs(E, B) \in SUBSET SUBSET A
    BY DEF Pairs
  <2>2. IsFiniteSet(SUBSET A)
    BY FS_SUBSET
  <2>3. QED BY <2>1, <2>2, FS_Subset
<1>2. IsFiniteSet(T) /\ Cardinality(T) = Cardinality(N)
  <2>1. f \in [N -> T] /\ \A y \in T : \E q \in N : f[q] = y
    OBVIOUS
  <2>2. \A p, q \in N : f[p] = f[q] => p = q
    <3>1. \A p, q \in N : {x, p} = {x, q} => p = q
      OBVIOUS
    <3>2. QED BY <3>1
  <2> HIDE DEF f, T, N
  <2>3. ExistsBijection(N, T)
    BY <2>1, <2>2 DEF ExistsBijection, Bijection, Injection, Surjection, IsInjective
  <2>4. QED BY <1>1, <2>3, FS_Bijection
<1>3. Pairs(E, A) = Pairs(E, B) \cup T
  <2>1. ASSUME NEW P \in Pairs(E, A) PROVE P \in Pairs(E, B) \cup T
    <3>1. PICK p, q \in P : P = {p, q} /\ <<p, q>> \in E /\ P \subseteq A
      BY DEF Pairs
    <3>2. CASE x \in P
      <4>1. PICK r \in P : P = {x, r} /\ <<x, r>> \in E
        BY <3>1, <3>2
      <4>2. r \in N
        BY <3>1, <4>1
      <4>3. QED BY <4>1, <4>2
    <3>3. CASE x \notin P
      BY <3>1, <3>3 DEF Pairs
    <3>4. QED BY <3>2, <3>3
  <2>2. Pairs(E, B) \subseteq Pairs(E, A)
    BY DEF Pairs
  <2>3. T \subseteq Pairs(E, A)
    BY DEF Pairs
  <2>4. QED BY <2>1, <2>2, <2>3
<1>4. Pairs(E, B) \cap T = {}
  BY DEF Pairs
<1>5. /\ Cardinality(Pairs(E, A)) = Cardinality(Pairs(E, B)) + Cardinality(N)
      /\ Cardinality(Pairs(E, A)) \in Nat
  <2> HIDE DEF B, N, T
  <2>1. IsFiniteSet(Pairs(E, A)) /\ Cardinality(Pairs(E, A)) \in Nat
    BY <1>1, <1>2, <1>3, FS_Union, FS_CardinalityType
  <2>2. Cardinality(Pairs(E, B)) \in Nat /\ Cardinality(T) \in Nat
    BY <1>1, <1>2, FS_CardinalityType
  <2>3. Cardinality(Pairs(E, B) \cup T) =
          Cardinality(Pairs(E, B)) + Cardinality(T) - Cardinality(Pairs(E, B) \cap T)
    BY <1>1, <1>2, FS_Union
  <2>4. Cardinality(Pairs(E, B) \cap T) = 0
    BY <1>4, FS_EmptySet
  <2>5. QED BY <1>2, <1>3, <2>1, <2>2, <2>3, <2>4
<1>6. QED BY <1>5

\* The degrees of a symmetric relation add up to twice its pairs.
LEMMA Handshake ==
  ASSUME NEW D, IsFiniteSet(D), NEW E, \A p \in D : <<p, p>> \notin E,
         \A p, q \in D : <<p, q>> \in E => <<q, p>> \in E
  PROVE  \A A \in SUBSET D : /\ Total(Degrees(D, E, A)) = 2 * Cardinality(Pairs(E, A))
                             /\ Cardinality(Pairs(E, A)) \in Nat
<1> DEFINE T == {A \in SUBSET D : /\ Total(Degrees(D, E, A)) = 2 * Cardinality(Pairs(E, A))
                                 /\ Cardinality(Pairs(E, A)) \in Nat}
<1>1. \A A \in SUBSET D : Degrees(D, E, A) \in [D -> Int]
  <2> SUFFICES ASSUME NEW A \in SUBSET D PROVE Degrees(D, E, A) \in [D -> Int]
    OBVIOUS
  <2>1. \A p \in D : Cardinality({q \in A : <<p, q>> \in E}) \in Nat
    <3>1. \A p \in D : {q \in A : <<p, q>> \in E} \in SUBSET D
      OBVIOUS
    <3>2. QED BY <3>1, FS_Subset, FS_CardinalityType
  <2>2. QED BY <2>1 DEF Degrees
<1>2. ASSUME NEW A \in SUBSET D, \A r \in SUBSET A : r # A => r \in T PROVE A \in T
  <2>1. CASE A = {}
    <3>1. Pairs(E, {}) = {}
      BY DEF Pairs
    <3>2. \A p \in D : Degrees(D, E, {})[p] = 0
      BY DEF Degrees
    <3>3. Total(Degrees(D, E, {})) = 0
      BY <1>1, <3>2, TotalZero
    <3>4. QED BY <2>1, <3>1, <3>3, FS_EmptySet
  <2>2. ASSUME NEW x \in A PROVE A \in T
    <3> DEFINE B    == A \ {x}
               N    == {q \in B : <<x, q>> \in E}
               ones == [p \in D |-> IF p \in N THEN 1 ELSE 0]
               more == [p \in D |-> IF p = x THEN Cardinality(N) ELSE ones[p]]
    <3>1. B \in T /\ B \in SUBSET D /\ N \in SUBSET D /\ x \in D /\ x \notin N
      BY <1>2, <2>2
    <3>2. Cardinality(N) \in Nat /\ IsFiniteSet(N)
      BY <3>1, FS_Subset, FS_CardinalityType
    <3>3. Total(ones) = Cardinality(N)
      <4>1. ones \in [D -> Int] /\ \A p \in D : ones[p] \in {0, 1}
        OBVIOUS
      <4>2. {p \in D : ones[p] = 1} = N
        OBVIOUS
      <4> HIDE DEF ones, N
      <4>3. Total(ones) = Cardinality({p \in D : ones[p] = 1})
        BY <4>1, TotalCounts
      <4>4. QED BY <4>2, <4>3
    <3>4. Total(more) = 2 * Cardinality(N)
      <4>1. ones \in [D -> Int] /\ more \in [D -> Int] /\ ones[x] = 0 /\ more[x] = Cardinality(N)
        <5> HIDE DEF N
        <5>1. QED BY <3>1, <3>2
      <4>2. \A p \in D \ {x} : more[p] = ones[p]
        OBVIOUS
      <4> HIDE DEF ones, more, N
      <4>3. Total(more) = Total(ones) - ones[x] + more[x]
        BY <3>1, <4>1, <4>2, TotalUpdate
      <4>4. QED BY <3>2, <3>3, <4>1, <4>3
    <3>5. \A p \in D : Degrees(D, E, A)[p] = Degrees(D, E, B)[p] + more[p]
      <4> SUFFICES ASSUME NEW p \in D PROVE Degrees(D, E, A)[p] = Degrees(D, E, B)[p] + more[p]
        OBVIOUS
      <4> DEFINE QA == {q \in A : <<p, q>> \in E}
                 QB == {q \in B : <<p, q>> \in E}
      <4>1. QB \in SUBSET D /\ IsFiniteSet(QB) /\ Cardinality(QB) \in Nat
        <5>1. QB \in SUBSET D
          OBVIOUS
        <5>2. QED BY <5>1, FS_Subset, FS_CardinalityType
      <4>2. CASE p = x
        <5>1. QA = N
          BY <3>1, <4>2
        <5>2. Degrees(D, E, A)[p] = Cardinality(N) /\ Degrees(D, E, B)[p] = 0
          BY <2>2, <4>2, <5>1 DEF Degrees
        <5>3. QED BY <3>2, <4>2, <5>2
      <4>3. CASE p # x /\ p \in A
        <5>1. p \in N <=> <<p, x>> \in E
          BY <3>1, <4>3
        <5>2. QA = IF p \in N THEN QB \cup {x} ELSE QB
          BY <2>2, <5>1
        <5>3. Cardinality(QA) = Cardinality(QB) + (IF p \in N THEN 1 ELSE 0)
          <6>1. x \notin QB
            OBVIOUS
          <6> HIDE DEF QA, QB, N
          <6>2. CASE p \in N
            <7>1. QA = QB \cup {x}
              BY <5>2, <6>2
            <7>2. Cardinality(QB \cup {x}) = Cardinality(QB) + 1
              BY <4>1, <6>1, FS_AddElement
            <7>3. QED BY <6>2, <7>1, <7>2
          <6>3. CASE p \notin N
            BY <4>1, <5>2, <6>3
          <6>4. QED BY <6>2, <6>3
        <5>4. Degrees(D, E, A)[p] = Cardinality(QA) /\ Degrees(D, E, B)[p] = Cardinality(QB)
          BY <4>3 DEF Degrees
        <5>5. more[p] = IF p \in N THEN 1 ELSE 0
          BY <4>3
        <5>6. QED BY <5>3, <5>4, <5>5
      <4>4. CASE p \notin A
        <5>1. Degrees(D, E, A)[p] = 0 /\ Degrees(D, E, B)[p] = 0
          BY <4>4 DEF Degrees
        <5>2. more[p] = 0
          BY <2>2, <4>4
        <5>3. QED BY <5>1, <5>2
      <4>5. QED BY <4>2, <4>3, <4>4
    <3>6. Total(Degrees(D, E, A)) = Total(Degrees(D, E, B)) + Total(more)
      <4>1. more \in [D -> Int]
        <5> HIDE DEF N
        <5>1. QED BY <3>2
      <4> HIDE DEF more, B
      <4>2. Degrees(D, E, A) \in [D -> Int] /\ Degrees(D, E, B) \in [D -> Int]
        BY <1>1, <3>1
      <4>3. QED BY <3>5, <4>1, <4>2, TotalPlus
    <3>7. /\ Cardinality(Pairs(E, A)) = Cardinality(Pairs(E, B)) + Cardinality(N)
          /\ Cardinality(Pairs(E, A)) \in Nat
      <4>1. IsFiniteSet(A) /\ <<x, x>> \notin E /\ \A p, q \in A : <<p, q>> \in E => <<q, p>> \in E
        BY FS_Subset, <3>1
      <4>2. QED BY <2>2, <4>1, PairsGrow
    <3>8. /\ Total(Degrees(D, E, B)) = 2 * Cardinality(Pairs(E, B))
          /\ Cardinality(Pairs(E, B)) \in Nat
      BY <3>1
    <3> HIDE DEF B, N, more, ones
    <3>9. QED BY <3>2, <3>4, <3>6, <3>7, <3>8
  <2>3. QED BY <2>1, <2>2
<1>3. T = SUBSET D
  <2>1. T \in SUBSET SUBSET D
    OBVIOUS
  <2>2. \A s \in SUBSET D : (\A r \in SUBSET s : r # s => r \in T) => s \in T
    BY <1>2
  <2> HIDE DEF T
  <2>3. QED BY <2>1, <2>2, SubsetInduction
<1>4. QED BY <1>3

-----------------------------------------------------------------------------
(* Limits *)

\* Every step keeps the limits of the population.
LEMMA PopulationStep == SimInv /\ PopulationLimits /\ [Next]_vars => PopulationLimits'
<1> SUFFICES ASSUME SimInv, PopulationLimits, [Next]_vars PROVE PopulationLimits'
  OBVIOUS
<1> USE SizesNat
<1>1. /\ IsFiniteSet(peers) /\ IsFiniteSet(topics)
      /\ Cardinality(peers) \in Nat /\ Cardinality(topics) \in Nat
      /\ peers \subseteq created
  BY NamesAssumption, FS_Subset, FS_CardinalityType DEF SimInv, TypeOK
<1>2. ASSUME NEW p, CreatePeer(p) PROVE PopulationLimits'
  <2>1. p \notin peers /\ peers' = peers \cup {p} /\ topics' = topics
    BY <1>1, <1>2 DEF CreatePeer
  <2>2. Cardinality(peers') = Cardinality(peers) + 1
    BY <1>1, <2>1, FS_AddElement
  <2>3. Cardinality(peers) < MaxPeers
    BY <1>2 DEF CreatePeer
  <2>4. QED BY <1>1, <2>1, <2>2, <2>3 DEF PopulationLimits
<1>3. ASSUME NEW t, NEW C, CreateTopic(t, C) PROVE PopulationLimits'
  <2>1. t \notin topics /\ topics' = topics \cup {t} /\ peers' = peers
    BY <1>3 DEF CreateTopic, peerVars
  <2>2. Cardinality(topics') = Cardinality(topics) + 1
    BY <1>1, <2>1, FS_AddElement
  <2>3. Cardinality(topics) < MaxTopics
    BY <1>3 DEF CreateTopic
  <2>4. QED BY <1>1, <2>1, <2>2, <2>3 DEF PopulationLimits
<1>4. CASE RemovePeerState
  <2>1. PICK p \in peers : peers' = peers \ {p} /\ topics' = topics
    BY <1>4 DEF RemovePeerState
  <2>2. Cardinality(peers') = Cardinality(peers) - 1
    BY <1>1, <2>1, FS_RemoveElement
  <2>3. QED BY <1>1, <2>1, <2>2 DEF PopulationLimits
<1>5. CASE RemoveTopicState
  <2>1. PICK t \in topics : topics' = topics \ {t} /\ peers' = peers
    BY <1>5 DEF RemoveTopicState, peerVars
  <2>2. Cardinality(topics') = Cardinality(topics) - 1
    BY <1>1, <2>1, FS_RemoveElement
  <2>3. QED BY <1>1, <2>1, <2>2 DEF PopulationLimits
<1>6. CASE UNCHANGED <<peers, topics>>
  BY <1>6 DEF PopulationLimits
<1>7. BootPeersDone \/ BootAddTopicEnter \/ BootAddTopicDup \/ BootTopicsDone
        \/ AddRandomFriendState \/ GCState \/ JoinRandomTopicState
        \/ JoinFriendsTopicState \/ PeakRandTopicState \/ Environment \/ UNCHANGED vars
      => UNCHANGED <<peers, topics>>
  BY DEF BootPeersDone, BootAddTopicEnter, BootAddTopicDup, BootTopicsDone,
     AddRandomFriendState, GCState, JoinRandomTopicState, JoinFriendsTopicState,
     PeakRandTopicState, Environment, PeerReady, PeerTakes, topicPeerChange, vars, peerVars
<1>8. QED
  BY <1>2, <1>3, <1>4, <1>5, <1>6, <1>7
     DEF Next, Boot, Handler, BootAddPeer, BootAddTopic, AddPeerState, AddTopicState

\* A peer that already has all the friends it may have is never given another one, and
\* nothing else lengthens a list of friends.
LEMMA FriendLimitStep == SimInv /\ FriendLimit /\ [Next]_vars => FriendLimit'
<1> SUFFICES ASSUME SimInv, FriendLimit, [Next]_vars PROVE FriendLimit'
  OBVIOUS
<1> DEFINE limit == MaxFriendsPerPeer
<1>1. /\ simFriends \in [Peer -> [Peer -> Nat]] /\ IsFiniteSet(Peer) /\ peers \subseteq Peer
      /\ simFriends' \in [Peer -> [Peer -> Nat]] /\ limit \in Nat
  BY NamesAssumption, SizesAssumption, TypeStep DEF SimInv, TypeOK, Sizes
<1>2. \A p \in Peer : simFriends[p] \in [Peer -> Int] /\ simFriends'[p] \in [Peer -> Int]
  BY <1>1
<1>3. \A p \in peers : Total(simFriends[p]) <= limit
  BY DEF FriendLimit, NumFriends
<1>4. ASSUME \A p \in peers' : Total(simFriends'[p]) <= limit PROVE FriendLimit'
  BY <1>4 DEF FriendLimit, NumFriends
\* A list that does not grow keeps the limit.
<1>5. ASSUME NEW p \in peers, \A q \in Peer : simFriends'[p][q] <= simFriends[p][q]
      PROVE  Total(simFriends'[p]) <= limit
  <2>1. Total(simFriends'[p]) <= Total(simFriends[p])
    BY <1>1, <1>2, <1>5, TotalLe
  <2>2. Total(simFriends'[p]) \in Int /\ Total(simFriends[p]) \in Int
    BY <1>1, <1>2, TotalInt
  <2>3. QED BY <1>1, <1>3, <2>1, <2>2
<1>6. ASSUME NEW n \in Peer, CreatePeer(n) PROVE FriendLimit'
  <2>1. peers' = peers \cup {n} /\ simFriends' = simFriends /\ \A q \in Peer : simFriends[n][q] = 0
    BY <1>6 DEF CreatePeer, SimInv, NewPeersBlank
  <2>2. Total(simFriends[n]) = 0
    BY <1>1, <1>2, <2>1, TotalZero
  <2>3. QED BY <1>1, <1>3, <1>4, <2>1, <2>2
<1>7. CASE RemovePeerState
  <2>1. PICK g \in peers : peers' = peers \ {g} /\ simFriends' = [q \in Peer |->
             IF q \in peers \ {g} /\ IsFriend(g, q)
             THEN [simFriends[q] EXCEPT ![g] = 0] ELSE simFriends[q]]
    BY <1>7 DEF RemovePeerState
  <2>2. \A p \in peers', q \in Peer : simFriends'[p][q] <= simFriends[p][q]
    BY <1>1, <2>1
  <2>3. QED BY <1>4, <1>5, <2>1, <2>2
<1>8. CASE GCState
  <2>1. peers' = peers /\ \A p \in peers, q \in Peer : simFriends'[p][q] <= simFriends[p][q]
    BY <1>1, <1>8 DEF GCState, peerVars
  <2>2. QED BY <1>4, <1>5, <2>1
<1>9. CASE AddRandomFriendState
  <2>1. PICK x \in peers, y \in peers :
          AddRandomFriendEnter(x, y) /\ simFriends' = BothAppend(x, y)
    BY <1>9 DEF AddRandomFriendState, GetReadyPeers
  <2>2. x # y /\ Total(simFriends[x]) < limit /\ Total(simFriends[y]) < limit
    BY <2>1 DEF AddRandomFriendEnter, NumFriends
  <2>3. \A p, q \in Peer : simFriends'[p][q] =
          IF <<p, q>> \in {<<x, y>>, <<y, x>>} THEN simFriends[p][q] + 1 ELSE simFriends[p][q]
    BY <2>1 DEF BothAppend
  <2>4. peers' = peers
    BY <1>9 DEF AddRandomFriendState, peerVars
  \* Either end gets one entry more, and had room for it.
  <2>5. ASSUME NEW p \in peers, NEW q \in peers, p # q, Total(simFriends[p]) < limit,
               simFriends'[p][q] = simFriends[p][q] + 1,
               \A r \in Peer \ {q} : simFriends'[p][r] = simFriends[p][r]
        PROVE  Total(simFriends'[p]) <= limit
    <3>1. Total(simFriends'[p]) = Total(simFriends[p]) - simFriends[p][q] + simFriends'[p][q]
      <4>1. /\ simFriends[p] \in [Peer -> Int] /\ simFriends'[p] \in [Peer -> Int]
            /\ IsFiniteSet(Peer) /\ q \in Peer
        BY <1>1, <1>2
      <4>2. \A r \in Peer \ {q} : simFriends'[p][r] = simFriends[p][r]
        BY <2>5
      <4>3. QED BY <4>1, <4>2, TotalUpdate, Zenon
    <3>2. simFriends[p][q] \in Int /\ Total(simFriends[p]) \in Int
      BY <1>1, <1>2, TotalInt
    <3>3. QED BY <1>1, <2>5, <3>1, <3>2
  <2>6. Total(simFriends'[x]) <= limit
    <3>1. simFriends'[x][y] = simFriends[x][y] + 1
          /\ \A r \in Peer \ {y} : simFriends'[x][r] = simFriends[x][r]
      BY <1>1, <2>2, <2>3
    <3>2. QED BY <2>2, <2>5, <3>1
  <2>7. Total(simFriends'[y]) <= limit
    <3>1. simFriends'[y][x] = simFriends[y][x] + 1
          /\ \A r \in Peer \ {x} : simFriends'[y][r] = simFriends[y][r]
      BY <1>1, <2>2, <2>3
    <3>2. QED BY <2>2, <2>5, <3>1
  <2>8. ASSUME NEW p \in peers, p # x, p # y PROVE Total(simFriends'[p]) <= limit
    <3>1. \A q \in Peer : simFriends'[p][q] <= simFriends[p][q]
      BY <1>1, <2>3, <2>8
    <3>2. QED BY <1>5, <3>1
  <2>9. QED BY <1>4, <2>4, <2>6, <2>7, <2>8
<1>10. CASE UNCHANGED <<peers, simFriends>>
  BY <1>3, <1>4, <1>10
<1>11. BootPeersDone \/ BootAddTopicEnter \/ BootAddTopic \/ BootAddTopicDup
        \/ BootTopicsDone \/ AddTopicState \/ RemoveTopicState \/ JoinRandomTopicState
        \/ JoinFriendsTopicState \/ PeakRandTopicState \/ Environment \/ UNCHANGED vars
      => UNCHANGED <<peers, simFriends>>
  BY DEF BootPeersDone, BootAddTopicEnter, BootAddTopic, BootAddTopicDup, BootTopicsDone,
     AddTopicState, CreateTopic, RemoveTopicState, JoinRandomTopicState,
     JoinFriendsTopicState, PeakRandTopicState, Environment, PeerReady, PeerTakes,
     topicPeerChange, vars, peerVars
<1>12. QED
  BY <1>6, <1>7, <1>8, <1>9, <1>10, <1>11 DEF Next, Boot, Handler, BootAddPeer, AddPeerState

-----------------------------------------------------------------------------
(* Friends part only when they share no topic *)

\* Friends part in no step while they share a topic.
LEMMA PartingStep ==
  ASSUME SimInv, [Next]_vars, NEW p \in peers, NEW q \in peers, p \in peers', q \in peers',
         IsFriend(p, q), ~IsFriend(p, q)'
  PROVE  ~ShareTopic(p, q)
<1>1. /\ simFriends \in [Peer -> [Peer -> Nat]] /\ p \in Peer /\ q \in Peer
  BY DEF SimInv, TypeOK
<1>2. simFriends[p][q] > 0 /\ ~(simFriends'[p][q] > 0)
  BY DEF IsFriend
<1>3. CASE GCState
  <2>1. simFriends'[p][q] = IF KeepsFriend(p, q) THEN simFriends[p][q] ELSE 0
    BY <1>1, <1>3 DEF GCState
  <2>2. QED BY <1>2, <2>1 DEF KeepsFriend
<1>4. CASE RemovePeerState
  <2>1. PICK g \in peers : peers' = peers \ {g} /\ simFriends' = [r \in Peer |->
             IF r \in peers \ {g} /\ IsFriend(g, r)
             THEN [simFriends[r] EXCEPT ![g] = 0] ELSE simFriends[r]]
    BY <1>4 DEF RemovePeerState
  <2>2. simFriends'[p][q] = simFriends[p][q]
    BY <1>1, <2>1
  <2>3. QED BY <1>2, <2>2
<1>5. CASE AddRandomFriendState
  <2>1. PICK x \in Peer, y \in Peer : simFriends' = BothAppend(x, y)
    BY <1>5 DEF AddRandomFriendState, GetReadyPeers, SimInv, TypeOK
  <2>2. simFriends'[p][q] \in {simFriends[p][q], simFriends[p][q] + 1}
    BY <1>1, <2>1 DEF BothAppend
  <2>3. QED BY <1>1, <1>2, <2>2
<1>6. simFriends' = simFriends \/ GCState \/ RemovePeerState \/ AddRandomFriendState
  BY DEF Next, Boot, Handler, Environment, vars, BootAddPeer, BootPeersDone,
     BootAddTopicEnter, BootAddTopic, BootAddTopicDup, BootTopicsDone, AddPeerState,
     AddTopicState, RemoveTopicState, JoinRandomTopicState, JoinFriendsTopicState,
     PeakRandTopicState, PeerReady, PeerTakes, topicPeerChange, CreatePeer, CreateTopic
<1>7. QED BY <1>2, <1>3, <1>4, <1>5, <1>6

-----------------------------------------------------------------------------
(* What the peers hear *)

\* A queue that, of topic t, holds nothing or a join as the newest mutation.
HeardJoin(s, t) ==
  \/ \A i \in DOMAIN s : s[i].topic # t
  \/ \E i \in DOMAIN s : s[i] = Join(t) /\ \A j \in DOMAIN s : s[j].topic = t => j <= i

\* A peer's queue and the simulator's list agree on every topic that it lists, the
\* removal is the last mutation, and a peer to come has heard nothing: the id of
\* AddPeerState is new.
InboxInv ==
  /\ \A p \in peers, t \in Topic : ListsTopic(p, t) => HeardJoin(inbox[p], t)
  /\ NothingAfterRemoval
  /\ \A p \in Peer \ created : inbox[p] = <<>>

\* A join that is appended is heard, whatever came before.
LEMMA HeardAppendJoin ==
  ASSUME NEW s \in Seq(Mutation), NEW t \in Topic
  PROVE  HeardJoin(Append(s, Join(t)), t)
<1> DEFINE r == Append(s, Join(t))
<1>1. r \in Seq(Mutation) /\ Len(r) = Len(s) + 1 /\ r[Len(r)] = Join(t) /\ Len(r) \in Nat
  BY MutationsTyped
<1>2. Len(r) \in DOMAIN r /\ \A j \in DOMAIN r : j <= Len(r)
  BY <1>1
<1>3. QED BY <1>1, <1>2 DEF HeardJoin

\* What is said of another topic takes no join back.
LEMMA HeardAppendOther ==
  ASSUME NEW s \in Seq(Mutation), NEW t \in Topic, NEW m \in Mutation, m.topic # t,
         HeardJoin(s, t)
  PROVE  HeardJoin(Append(s, m), t)
<1> DEFINE r == Append(s, m)
<1>1. /\ r \in Seq(Mutation) /\ Len(s) \in Nat /\ Len(r) = Len(s) + 1 /\ r[Len(s) + 1] = m
      /\ DOMAIN s = 1..Len(s) /\ DOMAIN r = 1..(Len(s) + 1)
      /\ \A i \in 1..Len(s) : r[i] = s[i]
  OBVIOUS
<1>2. \A j \in DOMAIN r : r[j].topic = t => j \in DOMAIN s /\ s[j].topic = t
  BY <1>1
<1>3. CASE \A i \in DOMAIN s : s[i].topic # t
  BY <1>2, <1>3 DEF HeardJoin
<1>4. ASSUME NEW i \in DOMAIN s, s[i] = Join(t), \A j \in DOMAIN s : s[j].topic = t => j <= i
      PROVE  HeardJoin(r, t)
  <2>1. i \in DOMAIN r /\ r[i] = Join(t)
    BY <1>1, <1>4
  <2>2. \A j \in DOMAIN r : r[j].topic = t => j <= i
    BY <1>2, <1>4
  <2>3. QED BY <2>1, <2>2 DEF HeardJoin
<1>5. QED BY <1>3, <1>4 DEF HeardJoin

\* A join that is the newest mutation of its topic, or none at all, stays so as the first
\* mutation is taken.
LEMMA HeardTail ==
  ASSUME NEW s \in Seq(Mutation), s # <<>>, NEW t \in Topic, HeardJoin(s, t)
  PROVE  HeardJoin(Tail(s), t)
<1> DEFINE r == Tail(s)
<1>1. /\ r \in Seq(Mutation) /\ Len(s) \in Nat /\ Len(s) > 0 /\ Len(r) = Len(s) - 1
      /\ DOMAIN s = 1..Len(s) /\ DOMAIN r = 1..(Len(s) - 1)
      /\ \A i \in 1..(Len(s) - 1) : r[i] = s[i + 1]
  OBVIOUS
<1>2. \A j \in DOMAIN r : j \in Int /\ j + 1 \in DOMAIN s /\ r[j] = s[j + 1]
  BY <1>1
<1>3. CASE \A i \in DOMAIN s : s[i].topic # t
  BY <1>2, <1>3 DEF HeardJoin
<1>4. ASSUME NEW i \in DOMAIN s, s[i] = Join(t), \A j \in DOMAIN s : s[j].topic = t => j <= i
      PROVE  HeardJoin(r, t)
  <2>1. i \in Int /\ 1 <= i /\ i <= Len(s)
    BY <1>1
  <2>2. \A j \in DOMAIN r : r[j].topic = t => j + 1 <= i
    BY <1>2, <1>4
  <2>3. CASE i = 1
    <3>1. \A j \in DOMAIN r : r[j].topic # t
      BY <1>1, <2>2, <2>3
    <3>2. QED BY <3>1 DEF HeardJoin
  <2>4. CASE i # 1
    <3>1. i - 1 \in DOMAIN r /\ r[i - 1] = Join(t)
      BY <1>1, <1>4, <2>1, <2>4
    <3>2. \A j \in DOMAIN r : r[j].topic = t => j <= i - 1
      BY <1>2, <2>1, <2>2
    <3>3. QED BY <3>1, <3>2 DEF HeardJoin
  <2>5. QED BY <2>3, <2>4
<1>5. QED BY <1>3, <1>4 DEF HeardJoin

\* The joins of a peak.
LEMMA HeardPeak ==
  ASSUME NEW s \in Seq(Mutation), NEW t \in Topic, NEW u \in Topic, NEW k \in Nat,
         HeardJoin(s, t)
  PROVE  HeardJoin(s \o [i \in 1..k |-> Join(u)], t)
<1> DEFINE r == s \o [i \in 1..k |-> Join(u)]
<1>1. /\ Len(s) \in Nat /\ DOMAIN s = 1..Len(s)
      /\ [i \in 1..k |-> Join(u)] \in Seq(Mutation) /\ Len([i \in 1..k |-> Join(u)]) = k
  BY MutationsTyped, RepeatTyped
<1>2. /\ r \in Seq(Mutation) /\ Len(r) = Len(s) + k /\ DOMAIN r = 1..(Len(s) + k)
      /\ \A i \in 1..Len(s) : r[i] = s[i]
      /\ \A i \in (Len(s) + 1)..(Len(s) + k) : r[i] = Join(u)
  BY <1>1
<1>3. CASE u = t /\ k > 0
  <2>1. Len(s) + k \in DOMAIN r /\ r[Len(s) + k] = Join(t) /\ \A j \in DOMAIN r : j <= Len(s) + k
    BY <1>1, <1>2, <1>3
  <2>2. QED BY <2>1 DEF HeardJoin
<1>4. CASE u # t \/ k = 0
  <2>1. \A j \in DOMAIN r : r[j].topic = t => j \in DOMAIN s /\ s[j].topic = t
    BY <1>1, <1>2, <1>4 DEF Join
  <2>2. CASE \A i \in DOMAIN s : s[i].topic # t
    BY <2>1, <2>2 DEF HeardJoin
  <2>3. ASSUME NEW i \in DOMAIN s, s[i] = Join(t), \A j \in DOMAIN s : s[j].topic = t => j <= i
        PROVE  HeardJoin(r, t)
    <3>1. i \in DOMAIN r /\ r[i] = Join(t)
      BY <1>1, <1>2, <2>3
    <3>2. \A j \in DOMAIN r : r[j].topic = t => j <= i
      BY <2>1, <2>3
    <3>3. QED BY <3>1, <3>2 DEF HeardJoin
  <2>4. QED BY <2>2, <2>3 DEF HeardJoin
<1>5. QED BY <1>3, <1>4

\* A queue without a removal, and what keeps it so.
Quiet(s) == \A i \in DOMAIN s : s[i] # RemoveStart

\* A queue without a removal stays one under joins, leaves and reads.
LEMMA QuietKept ==
  ASSUME NEW s \in Seq(Mutation), Quiet(s)
  PROVE  /\ \A t \in Topic : Quiet(Append(s, Join(t))) /\ Quiet(Append(s, Leave(t)))
         /\ s # <<>> => Quiet(Tail(s))
         /\ \A t \in Topic, k \in Nat : Quiet(s \o [i \in 1..k |-> Join(t)])
<1>1. \A t \in Topic : Join(t) # RemoveStart /\ Leave(t) # RemoveStart
  BY DEF Join, Leave, RemoveStart
<1>2. ASSUME NEW m \in Mutation, m # RemoveStart PROVE Quiet(Append(s, m))
  BY <1>2 DEF Quiet
<1>3. ASSUME s # <<>> PROVE Quiet(Tail(s))
  <2>1. /\ Len(s) \in Nat /\ DOMAIN s = 1..Len(s) /\ DOMAIN Tail(s) = 1..(Len(s) - 1)
        /\ \A i \in 1..(Len(s) - 1) : Tail(s)[i] = s[i + 1] /\ i + 1 \in 1..Len(s)
    BY <1>3
  <2>2. QED BY <2>1 DEF Quiet
<1>4. ASSUME NEW t \in Topic, NEW k \in Nat PROVE Quiet(s \o [i \in 1..k |-> Join(t)])
  <2> DEFINE r == s \o [i \in 1..k |-> Join(t)]
  <2>1. /\ Len(s) \in Nat /\ DOMAIN s = 1..Len(s)
        /\ [i \in 1..k |-> Join(t)] \in Seq(Mutation) /\ Len([i \in 1..k |-> Join(t)]) = k
    BY MutationsTyped, RepeatTyped
  <2>2. /\ DOMAIN r = 1..(Len(s) + k)
        /\ \A i \in 1..Len(s) : r[i] = s[i]
        /\ \A i \in (Len(s) + 1)..(Len(s) + k) : r[i] = Join(t)
    BY <2>1
  <2>3. ASSUME NEW i \in DOMAIN r PROVE r[i] # RemoveStart
    <3>1. i \in 1..Len(s) \/ i \in (Len(s) + 1)..(Len(s) + k)
      BY <2>1, <2>2
    <3>2. QED BY <1>1, <2>1, <2>2, <3>1 DEF Quiet
  <2>4. QED BY <2>3 DEF Quiet
<1>5. QED BY <1>1, <1>2, <1>3, <1>4, MutationsTyped

\* What a removed peer has left to hear ends with the removal.
EndsRemoved(s) == s # <<>> => s[Len(s)] = RemoveStart

\* A queue that ends with the removal keeps it as its last until it is read.
LEMMA EndsRemovedTail ==
  ASSUME NEW s \in Seq(Mutation), s # <<>>, EndsRemoved(s)
  PROVE  EndsRemoved(Tail(s))
<1>1. ASSUME Tail(s) # <<>> PROVE Tail(s)[Len(Tail(s))] = s[Len(s)]
  <2>1. Len(s) \in Nat /\ Len(Tail(s)) = Len(s) - 1 /\ Tail(s) \in Seq(Mutation)
    OBVIOUS
  <2>2. Len(Tail(s)) > 0
    BY <1>1, <2>1
  <2>3. QED BY <2>1, <2>2
<1>2. QED BY <1>1 DEF EndsRemoved

\* What NothingAfterRemoval says of a peer that is there and of one that is not.
LEMMA RemovalParts ==
  NothingAfterRemoval <=>
    \A p \in created : IF p \in peers THEN Quiet(inbox[p]) ELSE EndsRemoved(inbox[p])
BY DEF NothingAfterRemoval, Quiet, EndsRemoved

\* Peers that enter a topic are told so.
LEMMA EnterTopicHeard ==
  ASSUME SimInv, InboxInv, NEW t \in Topic, NEW P, EnterTopic(P, t), P \subseteq peers,
         UNCHANGED <<peers, created>>
  PROVE  InboxInv'
<1>1. /\ inbox \in [Peer -> Seq(Mutation)] /\ peers \subseteq created /\ created \subseteq Peer
      /\ simTopics \in [Peer -> [Topic -> Nat]]
  BY DEF SimInv, TypeOK
<1>2. \A p \in Peer : inbox'[p] = IF p \in P THEN Append(inbox[p], Join(t)) ELSE inbox[p]
  BY DEF EnterTopic, Tell
<1>3. ASSUME NEW p \in peers, NEW u \in Topic, ListsTopic(p, u)'
      PROVE  HeardJoin(inbox'[p], u)
  <2>1. CASE p \in P /\ u = t
    BY <1>1, <1>2, <2>1, HeardAppendJoin
  <2>2. CASE ~(p \in P /\ u = t)
    <3>1. ListsTopic(p, u)
      BY <1>1, <1>3, <2>2 DEF EnterTopic, ListsTopic
    <3>2. HeardJoin(inbox[p], u)
      BY <3>1 DEF InboxInv
    <3>3. p \in P => Join(t).topic # u
      BY <2>2 DEF Join
    <3>4. QED BY <1>1, <1>2, <3>2, <3>3, MutationsTyped, HeardAppendOther
  <2>3. QED BY <2>1, <2>2
<1>4. NothingAfterRemoval'
  <2>1. \A p \in created : IF p \in peers THEN Quiet(inbox[p]) ELSE EndsRemoved(inbox[p])
    BY RemovalParts DEF InboxInv
  <2>2. \A p \in created : IF p \in peers THEN Quiet(inbox'[p]) ELSE EndsRemoved(inbox'[p])
    BY <1>1, <1>2, <2>1, QuietKept
  <2>3. QED BY <1>1, <1>2, <2>2 DEF NothingAfterRemoval, Quiet, EndsRemoved
<1>5. \A p \in Peer \ created : inbox'[p] = <<>>
  BY <1>1, <1>2 DEF InboxInv
<1>6. QED BY <1>3, <1>4, <1>5 DEF InboxInv

\* A new peer has nothing to read.
LEMMA CreatePeerHeard ==
  ASSUME SimInv, InboxInv, NEW n \in Peer, CreatePeer(n)
  PROVE  InboxInv'
<1>1. /\ n \notin created /\ peers' = peers \cup {n} /\ created' = created \cup {n}
      /\ UNCHANGED <<simTopics, inbox>>
  BY DEF CreatePeer, memberVars
<1>2. inbox[n] = <<>> /\ \A t \in Topic : ~ListsTopic(n, t)
  BY <1>1 DEF InboxInv, SimInv, NewPeersBlank, ListsTopic
<1>3. \A p \in peers', t \in Topic : ListsTopic(p, t)' => HeardJoin(inbox'[p], t)
  BY <1>1, <1>2 DEF InboxInv, ListsTopic
<1>4. NothingAfterRemoval'
  BY <1>1, <1>2 DEF InboxInv, NothingAfterRemoval
<1>5. QED BY <1>1, <1>3, <1>4 DEF InboxInv

\* A peer that is removed is told so last.
LEMMA RemovePeerHeard ==
  ASSUME SimInv, InboxInv, RemovePeerState
  PROVE  InboxInv'
<1>1. PICK g \in peers : peers' = peers \ {g} /\ Tell({g}, RemoveStart)
  BY DEF RemovePeerState
<1>2. UNCHANGED <<created, simTopics>>
  BY DEF RemovePeerState, memberVars
<1>3. inbox \in [Peer -> Seq(Mutation)] /\ peers \subseteq created /\ created \subseteq Peer
  BY DEF SimInv, TypeOK
<1>4. \A p \in Peer : inbox'[p] = IF p = g THEN Append(inbox[p], RemoveStart) ELSE inbox[p]
  BY <1>1 DEF Tell
<1>5. EndsRemoved(inbox'[g])
  <2>1. inbox[g] \in Seq(Mutation) /\ inbox'[g] = Append(inbox[g], RemoveStart)
    BY <1>3, <1>4
  <2>2. /\ Len(inbox'[g]) = Len(inbox[g]) + 1 /\ inbox'[g][Len(inbox[g]) + 1] = RemoveStart
    BY <2>1, MutationsTyped
  <2>3. QED BY <2>2 DEF EndsRemoved
<1>6. \A p \in peers', t \in Topic : ListsTopic(p, t)' => HeardJoin(inbox'[p], t)
  BY <1>1, <1>2, <1>3, <1>4 DEF InboxInv, ListsTopic
<1>7. NothingAfterRemoval'
  BY <1>1, <1>2, <1>3, <1>4, <1>5 DEF InboxInv, NothingAfterRemoval, EndsRemoved
<1>8. \A p \in Peer \ created' : inbox'[p] = <<>>
  BY <1>1, <1>2, <1>3, <1>4 DEF InboxInv
<1>9. QED BY <1>6, <1>7, <1>8 DEF InboxInv

\* The members of a topic that is removed are told so.
LEMMA RemoveTopicHeard ==
  ASSUME SimInv, InboxInv, RemoveTopicState
  PROVE  InboxInv'
<1>1. PICK t \in topics :
        /\ simTopics' = [p \in Peer |->
             IF p \in GetTopicPeers(t) THEN [simTopics[p] EXCEPT ![t] = @ - 1] ELSE simTopics[p]]
        /\ Tell(GetTopicPeers(t), Leave(t))
  BY DEF RemoveTopicState
<1>2. /\ inbox \in [Peer -> Seq(Mutation)] /\ peers \subseteq created /\ created \subseteq Peer
      /\ simTopics \in [Peer -> [Topic -> Nat]] /\ t \in Topic
      /\ UNCHANGED <<peers, created>> /\ GetTopicPeers(t) \subseteq peers
  BY DEF SimInv, TypeOK, RemoveTopicState, peerVars, GetTopicPeers, GetReadyPeers
<1>3. \A p \in Peer :
        inbox'[p] = IF p \in GetTopicPeers(t) THEN Append(inbox[p], Leave(t)) ELSE inbox[p]
  BY <1>1 DEF Tell
<1>4. ASSUME NEW p \in peers, NEW u \in Topic, ListsTopic(p, u)'
      PROVE  HeardJoin(inbox'[p], u)
  <2>1. CASE p \in GetTopicPeers(t)
    <3>1. u # t
      <4>1. simTopics[p][t] <= 1 /\ simTopics[p][t] > 0
        BY <1>2, <2>1 DEF SimInv, MembershipsOK, GetTopicPeers, ListsTopic
      <4>2. simTopics'[p][t] = 0
        BY <1>1, <1>2, <2>1, <4>1
      <4>3. QED BY <1>4, <4>2 DEF ListsTopic
    <3>2. HeardJoin(inbox[p], u)
      BY <1>1, <1>2, <1>4, <2>1, <3>1 DEF InboxInv, ListsTopic
    <3>3. Leave(t).topic # u
      BY <3>1 DEF Leave
    <3>4. QED BY <1>2, <1>3, <2>1, <3>2, <3>3, MutationsTyped, HeardAppendOther
  <2>2. CASE p \notin GetTopicPeers(t)
    BY <1>1, <1>2, <1>3, <1>4, <2>2 DEF InboxInv, ListsTopic
  <2>3. QED BY <2>1, <2>2
<1>5. NothingAfterRemoval'
  <2>1. \A p \in created : IF p \in peers THEN Quiet(inbox[p]) ELSE EndsRemoved(inbox[p])
    BY RemovalParts DEF InboxInv
  <2>2. \A p \in created : IF p \in peers THEN Quiet(inbox'[p]) ELSE EndsRemoved(inbox'[p])
    BY <1>2, <1>3, <2>1, QuietKept
  <2>3. QED BY <1>2, <1>3, <2>2 DEF NothingAfterRemoval, Quiet, EndsRemoved
<1>6. \A p \in Peer \ created : inbox'[p] = <<>>
  BY <1>2, <1>3 DEF InboxInv
<1>7. QED BY <1>2, <1>4, <1>5, <1>6 DEF InboxInv

\* A peak tells joins to peers that are there.
LEMMA PeakHeard ==
  ASSUME SimInv, InboxInv, PeakRandTopicState
  PROVE  InboxInv'
<1>1. PICK t \in topics, n \in [GetReadyPeers -> 0..PeakTopicPeers] :
        inbox' = [p \in Peer |->
          IF p \in GetReadyPeers THEN inbox[p] \o [i \in 1..n[p] |-> Join(t)] ELSE inbox[p]]
  BY DEF PeakRandTopicState
<1>2. /\ inbox \in [Peer -> Seq(Mutation)] /\ peers \subseteq created /\ created \subseteq Peer
      /\ t \in Topic /\ UNCHANGED <<peers, created, simTopics>> /\ GetReadyPeers \subseteq peers
  BY DEF SimInv, TypeOK, PeakRandTopicState, peerVars, memberVars, GetReadyPeers
<1>3. \A p \in GetReadyPeers : n[p] \in Nat
  BY <1>1, SizesNat
<1>4. ASSUME NEW p \in peers, NEW u \in Topic, ListsTopic(p, u)'
      PROVE  HeardJoin(inbox'[p], u)
  <2>1. HeardJoin(inbox[p], u)
    BY <1>2, <1>4 DEF InboxInv, ListsTopic
  <2>2. QED BY <1>1, <1>2, <1>3, <2>1, HeardPeak
<1>5. \A p \in peers : Quiet(inbox[p]) => Quiet(inbox'[p])
  BY <1>1, <1>2, <1>3, QuietKept
<1>6. \A p \in Peer \ peers : inbox'[p] = inbox[p]
  BY <1>1, <1>2
<1>7. NothingAfterRemoval'
  BY <1>2, <1>5, <1>6 DEF InboxInv, NothingAfterRemoval, Quiet
<1>8. QED BY <1>2, <1>4, <1>6, <1>7 DEF InboxInv

\* A peer that takes its first mutation still hears the last ones.
LEMMA PeerTakesHeard ==
  ASSUME SimInv, InboxInv, NEW g \in Peer, PeerTakes(g)
  PROVE  InboxInv'
<1>1. /\ inbox \in [Peer -> Seq(Mutation)] /\ peers \subseteq created /\ created \subseteq Peer
      /\ inbox[g] # <<>> /\ UNCHANGED <<peers, created, simTopics>>
  BY DEF SimInv, TypeOK, PeerTakes, peerVars, memberVars
<1>2. \A p \in Peer : inbox'[p] = IF p = g THEN Tail(inbox[g]) ELSE inbox[p]
  BY <1>1 DEF PeerTakes
<1>3. \A p \in peers, t \in Topic : ListsTopic(p, t)' => HeardJoin(inbox'[p], t)
  BY <1>1, <1>2, HeardTail DEF InboxInv, ListsTopic
<1>4. \A p \in created : IF p \in peers THEN Quiet(inbox[p]) ELSE EndsRemoved(inbox[p])
  BY RemovalParts DEF InboxInv
<1>5. \A p \in created : IF p \in peers THEN Quiet(inbox'[p]) ELSE EndsRemoved(inbox'[p])
  BY <1>1, <1>2, <1>4, QuietKept, EndsRemovedTail
<1>6. NothingAfterRemoval'
  BY <1>1, <1>5 DEF NothingAfterRemoval, Quiet, EndsRemoved
<1>7. \A p \in Peer \ created : inbox'[p] = <<>>
  BY <1>1, <1>2 DEF InboxInv
<1>8. QED BY <1>1, <1>3, <1>6, <1>7 DEF InboxInv

\* Every step keeps what the queues say.
LEMMA InboxStep == SimInv /\ InboxInv /\ [Next]_vars => InboxInv'
<1> SUFFICES ASSUME SimInv, InboxInv, [Next]_vars PROVE InboxInv'
  OBVIOUS
<1>1. peers \subseteq Peer /\ topics \subseteq Topic
  BY DEF SimInv, TypeOK
<1>2. CASE BootAddPeer \/ AddPeerState
  BY <1>2, CreatePeerHeard DEF BootAddPeer, AddPeerState
<1>3. CASE BootAddTopic \/ AddTopicState
  <2>1. PICK t \in Topic, C \in SUBSET Peer : CreateTopic(t, C)
    BY <1>3 DEF BootAddTopic, AddTopicState
  <2>2. EnterTopic(C, t) /\ C \subseteq peers /\ UNCHANGED <<peers, created>>
    BY <2>1 DEF CreateTopic, Room, GetReadyPeers, peerVars
  <2>3. QED BY <2>2, EnterTopicHeard
<1>4. CASE JoinRandomTopicState \/ JoinFriendsTopicState
  <2>1. /\ \E p \in peers, t \in Topic : EnterTopic({p}, t)
        /\ UNCHANGED <<peers, created>>
    BY <1>1, <1>4 DEF JoinRandomTopicState, JoinFriendsTopicState, GetReadyPeers, peerVars
  <2>2. QED BY <2>1, EnterTopicHeard
<1>5. CASE UNCHANGED <<peers, created, memberVars, inbox>>
  BY <1>5 DEF InboxInv, NothingAfterRemoval, ListsTopic, memberVars
<1>6. CASE AddRandomFriendState
  <2>1. /\ UNCHANGED <<peers, created>>
        /\ UNCHANGED <<memberVars, inbox>> \/ \E q \in peers, t \in Topic : EnterTopic({q}, t)
    BY <1>6 DEF AddRandomFriendState, GetReadyPeers, TopicsOf, peerVars
  <2>2. QED BY <1>5, <2>1, EnterTopicHeard
<1>7. CASE RemovePeerState
  BY <1>7, RemovePeerHeard
<1>8. CASE RemoveTopicState
  BY <1>8, RemoveTopicHeard
<1>9. CASE PeakRandTopicState
  BY <1>9, PeakHeard
<1>10. CASE \E p \in Peer : PeerTakes(p)
  BY <1>10, PeerTakesHeard
<1>11. BootPeersDone \/ BootAddTopicEnter \/ BootAddTopicDup \/ BootTopicsDone \/ GCState
         \/ PeerReady \/ (\E t \in Topic, d \in {-1, 1} : topicPeerChange(t, d))
         \/ UNCHANGED vars
       => UNCHANGED <<peers, created, memberVars, inbox>>
  BY DEF BootPeersDone, BootAddTopicEnter, BootAddTopicDup, BootTopicsDone, GCState,
     PeerReady, topicPeerChange, vars, peerVars
<1>12. QED
  BY <1>2, <1>3, <1>4, <1>5, <1>6, <1>7, <1>8, <1>9, <1>10, <1>11
     DEF Next, Boot, Handler, Environment

-----------------------------------------------------------------------------
(* Theorems *)

\* The invariants hold at the start.
LEMMA InitInv == Init => SimInv /\ PopulationLimits
<1> SUFFICES ASSUME Init PROVE SimInv /\ PopulationLimits
  OBVIOUS
<1> USE SizesNat DEF Init
<1>1. TypeOK
  BY DEF TypeOK
<1>2. NewPeersBlank
  BY DEF NewPeersBlank
<1>3. FriendshipsOK /\ MembershipsOK
  BY DEF FriendshipsOK, FriendshipsMutual, FriendsLive, MembershipsOK
<1>4. PopulationLimits
  BY FS_EmptySet DEF PopulationLimits
<1>5. QED BY <1>1, <1>2, <1>3, <1>4 DEF SimInv

\* Every step keeps the invariant of the simulator.
LEMMA InvStep == SimInv /\ [Next]_vars => SimInv'
BY TypeStep, BlankStep, FriendStep, MembershipStep DEF SimInv

\* The handlers keep every field of the simulator well typed, and new peers blank.
THEOREM Invariance == Spec => []SimInv
<1>1. Init => SimInv
  BY InitInv
<1>2. SimInv /\ [Next]_vars => SimInv'
  BY InvStep
<1>3. QED BY <1>1, <1>2, PTL DEF Spec

\* AddPeerState, AddTopicState and the rest keep the simulator's data typed.
THEOREM TypeCorrect == Spec => []TypeOK
<1>1. SimInv => TypeOK
  BY DEF SimInv
<1>2. QED BY <1>1, Invariance, PTL

\* Friendship stays mutual, single, and among living peers, whatever the handlers
\* AddRandomFriend, RemovePeer and GC do and in whatever order.
THEOREM FriendshipsCorrect == Spec => []FriendshipsOK
<1>1. SimInv => FriendshipsOK
  BY DEF SimInv
<1>2. QED BY <1>1, Invariance, PTL

\* A living peer lists existing topics only, once each, with a joining time.
THEOREM MembershipsCorrect == Spec => []MembershipsOK
<1>1. SimInv => MembershipsOK
  BY DEF SimInv
<1>2. QED BY <1>1, Invariance, PTL

\* The numbers of peers and topics never exceed MaxPeers and MaxTopics.
THEOREM PopulationBounded == Spec => []PopulationLimits
<1>1. Init => PopulationLimits
  BY InitInv
<1>2. SimInv /\ PopulationLimits /\ [Next]_vars => PopulationLimits'
  BY PopulationStep
<1>3. QED BY <1>1, <1>2, Invariance, PTL DEF Spec

\* config.go's limits: no handler makes more peers, topics or friends of a peer.
THEOREM WithinLimits == Spec => []LimitsHold
<1>1. Init => FriendLimit
  BY DEF Init, FriendLimit
<1>2. Spec => []FriendLimit
  BY <1>1, FriendLimitStep, Invariance, PTL DEF Spec
<1>3. QED BY <1>2, PopulationBounded, PTL DEF LimitsHold

\* GCState and RemovePeerState are the only handlers that end friendships, and
\* between two peers that stay only when they share no topic.
THEOREM PartingCorrect == Spec => FriendsPartOnlyUnshared
<1>1. SimInv /\ [Next]_vars =>
        [\A p, q \in peers \cap peers' :
           IsFriend(p, q) /\ ~IsFriend(p, q)' => ~ShareTopic(p, q)]_vars
  BY PartingStep
<1>2. QED BY <1>1, Invariance, PTL DEF Spec, FriendsPartOnlyUnshared

\* What a living peer lists is counted by its friends among the living.
LEMMA FriendsCounted ==
  ASSUME SimInv, NEW p \in peers
  PROVE  NumFriends(p) = Cardinality({q \in peers : IsFriend(p, q)})
<1>1. simFriends[p] \in [Peer -> Nat] /\ peers \subseteq Peer
  BY DEF SimInv, TypeOK
<1>2. \A q \in Peer : simFriends[p][q] \in {0, 1} /\ (simFriends[p][q] = 1 => q \in peers)
  <2> SUFFICES ASSUME NEW q \in Peer
      PROVE  simFriends[p][q] \in {0, 1} /\ (simFriends[p][q] = 1 => q \in peers)
    OBVIOUS
  <2>1. CASE q \in peers
    <3>1. simFriends[p][q] <= 1 /\ simFriends[p][q] \in Nat
      BY <1>1, <2>1 DEF SimInv, FriendshipsOK, FriendshipsMutual
    <3>2. QED BY <2>1, <3>1
  <2>2. CASE q \notin peers
    <3>1. ~(simFriends[p][q] > 0) /\ simFriends[p][q] \in Nat
      BY <1>1, <2>2 DEF SimInv, FriendshipsOK, FriendsLive, IsFriend
    <3>2. QED BY <3>1
  <2>3. QED BY <2>1, <2>2
<1>3. {q \in Peer : simFriends[p][q] = 1} = {q \in peers : IsFriend(p, q)}
  BY <1>1, <1>2 DEF IsFriend
<1>4. Total(simFriends[p]) = Cardinality({q \in Peer : simFriends[p][q] = 1})
  <2>1. simFriends[p] \in [Peer -> Int] /\ IsFiniteSet(Peer)
    BY <1>1, NamesAssumption
  <2>2. QED BY <1>2, <2>1, TotalCounts
<1>5. QED BY <1>3, <1>4 DEF NumFriends

\* RefreshMetricsState: half of the lengths of the friend lists is the number of pairs of
\* friends, and the peers that list a topic are all Connected.
THEOREM MetricsRight == Spec => []MetricsExact
<1>1. ASSUME SimInv
      PROVE  Friendships =
               Cardinality({P \in SUBSET peers : \E p, q \in P : P = {p, q} /\ IsFriend(p, q)})
  <2> DEFINE E == {e \in Peer \X Peer : e[1] \in peers /\ e[2] \in peers /\ IsFriend(e[1], e[2])}
             friends == [p \in Peer |-> IF p \in peers THEN NumFriends(p) ELSE 0]
  <2>1. peers \subseteq Peer /\ IsFiniteSet(Peer)
    BY <1>1, NamesAssumption DEF SimInv, TypeOK
  <2>2. \A p, q \in Peer : <<p, q>> \in E <=> p \in peers /\ q \in peers /\ IsFriend(p, q)
    OBVIOUS
  <2>3. \A p \in Peer : <<p, p>> \notin E
    BY <1>1, <2>1, <2>2 DEF SimInv, FriendshipsOK, FriendsLive
  <2>4. \A p, q \in Peer : <<p, q>> \in E => <<q, p>> \in E
    BY <1>1, <2>2 DEF SimInv, FriendshipsOK, FriendshipsMutual, IsFriend
  <2> HIDE DEF E
  <2>5. friends = Degrees(Peer, E, peers)
    <3>1. ASSUME NEW p \in peers PROVE NumFriends(p) = Cardinality({q \in peers : <<p, q>> \in E})
      <4>1. {q \in peers : <<p, q>> \in E} = {q \in peers : IsFriend(p, q)}
        BY <2>1, <2>2
      <4>2. QED BY <1>1, <4>1, FriendsCounted
    <3>2. QED BY <3>1 DEF Degrees
  <2>6. Pairs(E, peers) = {P \in SUBSET peers : \E p, q \in P : P = {p, q} /\ IsFriend(p, q)}
    BY <2>1, <2>2 DEF Pairs
  <2>7. Total(friends) = 2 * Cardinality(Pairs(E, peers)) /\ Cardinality(Pairs(E, peers)) \in Nat
    BY <2>1, <2>3, <2>4, <2>5, Handshake
  <2>8. Friendships = Total(friends) \div 2
    BY DEF Friendships
  <2> HIDE DEF friends
  <2>9. \A n \in Nat : (2 * n) \div 2 = n
    OBVIOUS
  <2>10. QED BY <2>6, <2>7, <2>8, <2>9
<1>2. ASSUME SimInv
      PROVE  PeersWithTopics = Cardinality({p \in peers : \E t \in topics : ListsTopic(p, t)})
  <2>1. ASSUME NEW p \in peers PROVE NumTopics(p) > 0 <=> \E t \in Topic : ListsTopic(p, t)
    <3>1. simTopics[p] \in [Topic -> Nat] /\ IsFiniteSet(Topic)
      BY <1>2, NamesAssumption DEF SimInv, TypeOK
    <3>2. QED BY <3>1, TotalPositive DEF NumTopics, ListsTopic
  <2>2. \A p \in peers, t \in Topic : ListsTopic(p, t) => t \in topics /\ p \in ready
    BY <1>2 DEF SimInv, MembershipsOK
  <2>3. topics \subseteq Topic
    BY <1>2 DEF SimInv, TypeOK
  <2>4. {p \in GetReadyPeers : NumTopics(p) > 0}
          = {p \in peers : \E t \in topics : ListsTopic(p, t)}
    BY <2>1, <2>2, <2>3 DEF GetReadyPeers
  <2>5. QED BY <2>4 DEF PeersWithTopics
<1>3. SimInv => MetricsExact
  BY <1>1, <1>2 DEF MetricsExact
<1>4. QED BY <1>3, Invariance, PTL

\* Every queue agrees with the simulator's list, and ends with the peer's removal.
THEOREM InboxInvariance == Spec => []InboxInv
<1>1. Init => InboxInv
  BY DEF Init, InboxInv, NothingAfterRemoval, ListsTopic
<1>2. SimInv /\ InboxInv /\ [Next]_vars => InboxInv'
  BY InboxStep
<1>3. QED BY <1>1, <1>2, Invariance, PTL DEF Spec

\* A peer is told of every change of its list: after what it has queued, it will be in
\* each topic that the simulator lists for it.
THEOREM JoinsHeard == Spec => []ListedMeansJoin
<1>1. ASSUME InboxInv PROVE ListedMeansJoin
  <2> SUFFICES ASSUME NEW p \in peers, NEW t \in Topic, ListsTopic(p, t), About(p, t) # {}
               PROVE  Newest(p, t) = Join(t)
    BY DEF ListedMeansJoin
  <2>1. PICK i \in DOMAIN inbox[p] :
          inbox[p][i] = Join(t) /\ \A j \in DOMAIN inbox[p] : inbox[p][j].topic = t => j <= i
    BY <1>1 DEF InboxInv, HeardJoin, About
  <2>2. i \in About(p, t) /\ \A j \in About(p, t) : j <= i
    BY <2>1 DEF About, Join
  <2> DEFINE Last(k) == \A j \in About(p, t) : j <= k
  <2>3. PICK k \in About(p, t) : Last(k) /\ k = CHOOSE x \in About(p, t) : Last(x)
    BY <2>2
  <2>4. k = i
    BY <2>2, <2>3 DEF About
  <2>5. QED BY <2>1, <2>3, <2>4 DEF Newest
<1>2. QED BY <1>1, InboxInvariance, PTL

\* A removed peer hears of its removal last, and a living one of none.
THEOREM RemovalHeardLast == Spec => []NothingAfterRemoval
<1>1. InboxInv => NothingAfterRemoval
  BY DEF InboxInv
<1>2. QED BY <1>1, InboxInvariance, PTL
=============================================================================
