--------------------------------- MODULE Sim ---------------------------------
(***************************************************************************)
(* The simulator's state machine (internal/sim/sim.go).  The machine runs  *)
(* one handler at a time, so a handler with its Enter guard is one action. *)
(* A heartbeat activates a random subset of the handlers, and a cancelled  *)
(* or deduplicated activation leaves no trace, so any handler may run      *)
(* next once the two requests queued by StartState have been served.       *)
(*                                                                         *)
(* Peers run their own machines; a handler only posts mutations to their   *)
(* queues (`inbox').  Here the peers are an environment: they become Ready *)
(* once, take their mutations in order, and report joins and leaves        *)
(* through topicPeerChange.  SimPeers puts the real ones in their place.   *)
(***************************************************************************)
EXTENDS Integers, Sequences, FiniteSets, Functions

CONSTANTS
  Peer,                 \* every peer id nextPeerNum will ever produce
  Topic,                \* the names randTopicName draws from
  InitialPeers, InitialTopics, InitialPeersPerTopic,    \* config.go, start values
  MaxPeers, MaxTopics,                                  \* config.go, limits
  MaxTopicPerPeer, MaxPeersPerTopic, MaxFriendsPerPeer,
  PeakTopicPeers,       \* joins requested by one peak
  PeakMinTopics,        \* 3 in PeakRandTopicEnter
  MaxInbox,             \* bound of this model: mutations waiting at one peer
  MaxCount,             \* bound of this model: |peersCount|
  NoTopic

Sizes == {InitialPeers, InitialTopics, InitialPeersPerTopic, MaxPeers, MaxTopics,
          MaxTopicPerPeer, MaxPeersPerTopic, MaxFriendsPerPeer, PeakTopicPeers,
          PeakMinTopics, MaxInbox, MaxCount}

ASSUME SizesAssumption == Sizes \subseteq Nat
ASSUME NamesAssumption == IsFiniteSet(Peer) /\ IsFiniteSet(Topic) /\ NoTopic \notin Topic

VARIABLES
  boot,             \* what StartState queued: the request being served
  left,             \* iterations left in that request's loop
  peers,            \* keys of Sim.peers
  created,          \* every id handed out so far: nextPeerNum never goes back
  ready,            \* peers whose machine has Ready active
  topics,           \* keys of Sim.topics
  peersCount,       \* Topic.peersCount
  simTopics,        \* Peer.simTopics, the number of times each topic is listed
  simTopicJoined,   \* Peer.simTopicJoined, its keys
  simFriends,       \* Peer.simFriends, the number of times each friend is listed
  inbox             \* mutations queued at each peer's machine, oldest first

bootVars   == <<boot, left>>
peerVars   == <<peers, created, ready>>
memberVars == <<simTopics, simTopicJoined>>
vars == <<bootVars, peerVars, topics, peersCount, memberVars, simFriends, inbox>>

-----------------------------------------------------------------------------
(* The mutations the simulator posts to a peer's machine. *)

Join(t)     == [state |-> "JoiningTopic", topic |-> t]
Leave(t)    == [state |-> "LeavingTopic", topic |-> t]
RemoveStart == [state |-> "RemoveStart",  topic |-> NoTopic]
Mutation    == [state : {"JoiningTopic", "LeavingTopic", "RemoveStart"},
                topic : Topic \cup {NoTopic}]

\* Post m to every peer of P.
Tell(P, m) == inbox' = [p \in Peer |-> IF p \in P THEN Append(inbox[p], m) ELSE inbox[p]]

-----------------------------------------------------------------------------
(* What the handlers read. *)

Total(f) == FoldFunction(LAMBDA a, b : a + b, 0, f)

ListsTopic(p, t) == simTopics[p][t] > 0
TopicsOf(p)      == {t \in Topic : ListsTopic(p, t)}
NumTopics(p)     == Total(simTopics[p])
IsFriend(p, q)   == simFriends[p][q] > 0
NumFriends(p)    == Total(simFriends[p])
ShareTopic(p, q) == TopicsOf(p) \cap TopicsOf(q) # {}

\* Mutants: a pick that includes removed peers, and a look-up that skips the topic.
GetReadyPeersEver       == ready
GetReadyPeers    == peers \cap ready
GetTopicPeersAny(t)     == GetReadyPeers
GetTopicPeers(t) == {p \in GetReadyPeers : ListsTopic(p, t)}
Room             == {p \in GetReadyPeers : NumTopics(p) < MaxTopicPerPeer}

\* The sim's side of a membership: the name is appended to simTopics and
\* stamped, and the peer is told to join.  Mutant: it is not told.
EnterTopicUntold(P, t) ==
  /\ simTopics' = [p \in Peer |-> [u \in Topic |->
       simTopics[p][u] + IF p \in P /\ u = t THEN 1 ELSE 0]]
  /\ simTopicJoined' = [p \in Peer |-> simTopicJoined[p] \cup IF p \in P THEN {t} ELSE {}]
  /\ UNCHANGED inbox
EnterTopic(P, t) ==
  /\ simTopics' = [p \in Peer |->
       IF p \in P THEN [simTopics[p] EXCEPT ![t] = @ + 1] ELSE simTopics[p]]
  /\ simTopicJoined' = [p \in Peer |->
       IF p \in P THEN simTopicJoined[p] \cup {t} ELSE simTopicJoined[p]]
  /\ Tell(P, Join(t))

-----------------------------------------------------------------------------
(* NewSim and StartState: AddPeer{initialPeers} and AddTopic{initialTopics} *)
(* are queued before the heartbeat can queue anything.                      *)
Init ==
  /\ boot = "AddPeer" /\ left = InitialPeers
  /\ peers = {} /\ created = {} /\ ready = {}
  /\ topics = {} /\ peersCount = [t \in Topic |-> 0]
  /\ simTopics = [p \in Peer |-> [t \in Topic |-> 0]]
  /\ simTopicJoined = [p \in Peer |-> {}]
  /\ simFriends = [p \in Peer |-> [q \in Peer |-> 0]]
  /\ inbox = [p \in Peer |-> <<>>]

Booted == boot = "done"

\* One iteration of AddPeerState's loop; the peer's Start is added at once and
\* it becomes Ready in its own time.
CreatePeer(p) ==
  /\ Cardinality(peers) < MaxPeers
  /\ p \in Peer \ created
  /\ peers' = peers \cup {p}
  /\ created' = created \cup {p}
  /\ UNCHANGED <<ready, topics, peersCount, memberVars, simFriends, inbox>>

\* One iteration of AddTopicState's loop: a new topic, and up to
\* initialPeersPerTopic random picks among the Ready peers with room.  A name
\* in use already, or a peer picked twice, wastes its iteration.
CreateTopic(t, C) ==
  /\ Cardinality(topics) < MaxTopics
  /\ t \notin topics
  /\ C \subseteq Room
  /\ Cardinality(C) <= InitialPeersPerTopic
  /\ Cardinality(C) <= Cardinality(peers)
  /\ Room # {} /\ InitialPeersPerTopic > 0 => C # {}
  /\ \A p \in C : ~ListsTopic(p, t)
  /\ topics' = topics \cup {t}
  /\ peersCount' = [peersCount EXCEPT ![t] = 0]
  /\ EnterTopic(C, t)
  /\ UNCHANGED <<peerVars, simFriends>>

BootAddPeer ==
  /\ boot = "AddPeer" /\ left > 0
  /\ left' = left - 1 /\ boot' = boot
  /\ \E p \in Peer : CreatePeer(p)

\* The loop is over, by its count or by the limit; AddTopic is next in the queue.
BootPeersDone ==
  /\ boot = "AddPeer"
  /\ left = 0 \/ Cardinality(peers) >= MaxPeers
  /\ boot' = "AddTopicEnter" /\ left' = 0
  /\ UNCHANGED <<peerVars, topics, peersCount, memberVars, simFriends, inbox>>

AddTopicEnter == Cardinality(topics) < MaxTopics /\ Room # {}

\* A refused Enter cancels the whole request: nothing queues it again.
BootAddTopicEnter ==
  /\ boot = "AddTopicEnter"
  /\ IF AddTopicEnter THEN boot' = "AddTopic" /\ left' = InitialTopics
                      ELSE boot' = "done" /\ left' = 0
  /\ UNCHANGED <<peerVars, topics, peersCount, memberVars, simFriends, inbox>>

BootAddTopic ==
  /\ boot = "AddTopic" /\ left > 0
  /\ left' = left - 1 /\ boot' = boot
  /\ \E t \in Topic, C \in SUBSET Peer : CreateTopic(t, C)

\* randTopicName drew a name in use: `continue'.
BootAddTopicDup ==
  /\ boot = "AddTopic" /\ left > 0 /\ topics # {}
  /\ Cardinality(topics) < MaxTopics
  /\ left' = left - 1 /\ boot' = boot
  /\ UNCHANGED <<peerVars, topics, peersCount, memberVars, simFriends, inbox>>

BootTopicsDone ==
  /\ boot = "AddTopic"
  /\ left = 0 \/ Cardinality(topics) >= MaxTopics
  /\ boot' = "done" /\ left' = 0
  /\ UNCHANGED <<peerVars, topics, peersCount, memberVars, simFriends, inbox>>

-----------------------------------------------------------------------------
(* The handlers a heartbeat may activate. *)

AddPeerState == Booted /\ UNCHANGED bootVars /\ \E p \in Peer : CreatePeer(p)

AddTopicState ==
  /\ Booted /\ UNCHANGED bootVars
  /\ AddTopicEnter
  /\ \E t \in Topic, C \in SUBSET Peer : CreateTopic(t, C)

\* Any peer may go, Ready or not; its friends forget it.
RemovePeerState ==
  /\ Booted
  /\ Cardinality(peers) > InitialPeers
  /\ \E p \in peers :
       /\ peers' = peers \ {p}
       /\ simFriends' = [q \in Peer |->
            IF q \in peers \ {p} /\ IsFriend(p, q)
            THEN [simFriends[q] EXCEPT ![p] = 0] ELSE simFriends[q]]
       /\ Tell({p}, RemoveStart)
  /\ UNCHANGED <<bootVars, created, ready, topics, peersCount, memberVars>>

\* slices.Delete drops one occurrence of the topic from each peer's list.
RemoveTopicState ==
  /\ Booted
  /\ \E t \in topics :
       LET members == GetTopicPeers(t) IN
       /\ topics' = topics \ {t}
       /\ simTopics' = [p \in Peer |->
            IF p \in members THEN [simTopics[p] EXCEPT ![t] = @ - 1] ELSE simTopics[p]]
       /\ simTopicJoined' = [p \in Peer |->
            IF p \in members THEN simTopicJoined[p] \ {t} ELSE simTopicJoined[p]]
       /\ Tell(members, Leave(t))
  /\ UNCHANGED <<bootVars, peerVars, peersCount, simFriends>>

\* Mutant: the limit of the second peer is forgotten.
AddRandomFriendEnterOneLimit(p, q) ==
  p # q /\ ~IsFriend(p, q) /\ TopicsOf(p) # {} /\ NumFriends(p) < MaxFriendsPerPeer
AddRandomFriendEnter(p, q) ==
  /\ p # q
  /\ ~IsFriend(p, q)
  /\ TopicsOf(p) # {}
  /\ NumFriends(p) < MaxFriendsPerPeer
  /\ NumFriends(q) < MaxFriendsPerPeer

\* Each of the two appends the other to its list.
BothAppend(p, q) ==
  [a \in Peer |-> [b \in Peer |->
     IF <<a, b>> \in {<<p, q>>, <<q, p>>} THEN simFriends[a][b] + 1 ELSE simFriends[a][b]]]

\* The new friend joins one of the first peer's topics unless it lists it already.
AddRandomFriendState ==
  /\ Booted
  /\ \E p, q \in GetReadyPeers :
       /\ AddRandomFriendEnter(p, q)
       /\ simFriends' = BothAppend(p, q)
       /\ \E t \in TopicsOf(p) :
            IF ListsTopic(q, t) THEN UNCHANGED <<memberVars, inbox>>
                                ELSE EnterTopic({q}, t)
  /\ UNCHANGED <<bootVars, peerVars, topics, peersCount>>

\* Friends that are gone or share no topic are dropped, on both sides.  Mutant: a
\* friend is kept only when it lists every topic of the peer.
KeepsFriendAllShared(p, q) == q \in peers /\ TopicsOf(p) \subseteq TopicsOf(q)
KeepsFriend(p, q) == q \in peers /\ ShareTopic(p, q)

GCState ==
  /\ Booted
  /\ simFriends' = [p \in Peer |->
       IF p \in peers
       THEN [q \in Peer |-> IF KeepsFriend(p, q) THEN simFriends[p][q] ELSE 0]
       ELSE simFriends[p]]
  /\ UNCHANGED <<bootVars, peerVars, topics, peersCount, memberVars, inbox>>

JoinRandomTopicEnter(p, t) == ~ListsTopic(p, t) /\ peersCount[t] < MaxPeersPerTopic

JoinRandomTopicState ==
  /\ Booted
  /\ \E p \in GetReadyPeers, t \in topics :
       JoinRandomTopicEnter(p, t) /\ EnterTopic({p}, t)
  /\ UNCHANGED <<bootVars, peerVars, topics, peersCount, simFriends>>

\* Mutant: a topic the peer lists already is not skipped.
JoinFriendsTopicEnterAgain(p, q, t) == IsFriend(p, q) /\ q \in peers /\ ListsTopic(q, t)
JoinFriendsTopicEnter(p, q, t) ==
  /\ IsFriend(p, q)
  /\ q \in peers
  /\ ListsTopic(q, t) /\ ~ListsTopic(p, t)

JoinFriendsTopicState ==
  /\ Booted
  /\ \E p \in GetReadyPeers, q \in Peer, t \in Topic :
       JoinFriendsTopicEnter(p, q, t) /\ EnterTopic({p}, t)
  /\ UNCHANGED <<bootVars, peerVars, topics, peersCount, simFriends>>

\* What RefreshMetricsState reads off the peers, in one pass: the lengths of their friend
\* lists, and which of those that are Connected list a topic.  Mutant: the lengths are
\* not halved.
FriendshipsDoubled == Total([p \in Peer |-> IF p \in peers THEN NumFriends(p) ELSE 0])
Friendships        == Total([p \in Peer |-> IF p \in peers THEN NumFriends(p) ELSE 0]) \div 2
PeersWithTopics    == Cardinality({p \in GetReadyPeers : NumTopics(p) > 0})

\* PeakTopicPeers picks, repetitions allowed: peer p is told n[p] times.  The
\* joins are not recorded in simTopics.
PeakRandTopicState ==
  /\ Booted
  /\ Cardinality(topics) >= PeakMinTopics
  /\ Cardinality(GetReadyPeers) >= 2 * PeakTopicPeers
  /\ \E t \in topics, n \in [GetReadyPeers -> 0..PeakTopicPeers] :
       /\ peersCount[t] < MaxPeersPerTopic
       /\ Total(n) = PeakTopicPeers
       /\ inbox' = [p \in Peer |->
            IF p \in GetReadyPeers THEN inbox[p] \o [i \in 1..n[p] |-> Join(t)]
                                   ELSE inbox[p]]
  /\ UNCHANGED <<bootVars, peerVars, topics, peersCount, memberVars, simFriends>>

\* Evaluated on the sim's queue for a peer that joined (+1) or left (-1); a
\* topic that is gone is only logged.
topicPeerChange(t, amount) ==
  /\ t \in topics
  /\ peersCount' = [peersCount EXCEPT ![t] = @ + amount]
  /\ peersCount'[t] \in -MaxCount..MaxCount
  /\ UNCHANGED <<bootVars, peerVars, topics, memberVars, simFriends, inbox>>

-----------------------------------------------------------------------------
(* The peers, as the simulator sees them. *)

\* A peer's machine activates Ready by itself and keeps it until Start is
\* removed (PeerMachine shows both).
PeerReady ==
  /\ \E p \in peers \ ready : ready' = ready \cup {p}
  /\ UNCHANGED <<bootVars, peers, created, topics, peersCount, memberVars, simFriends, inbox>>

PeerTakes(p) ==
  /\ inbox[p] # <<>>
  /\ inbox' = [inbox EXCEPT ![p] = Tail(@)]
  /\ UNCHANGED <<bootVars, peerVars, topics, peersCount, memberVars, simFriends>>

InboxBound == \A p \in Peer : Len(inbox[p]) <= MaxInbox

Boot == \/ BootAddPeer \/ BootPeersDone
        \/ BootAddTopicEnter \/ BootAddTopic \/ BootAddTopicDup \/ BootTopicsDone

Handler == \/ AddPeerState \/ RemovePeerState
           \/ AddTopicState \/ RemoveTopicState
           \/ AddRandomFriendState \/ GCState
           \/ JoinRandomTopicState \/ JoinFriendsTopicState
           \/ PeakRandTopicState

Environment == \/ PeerReady
               \/ \E p \in Peer : PeerTakes(p)
               \/ \E t \in Topic, d \in {-1, 1} : topicPeerChange(t, d)

Next == (Boot \/ Handler \/ Environment) /\ InboxBound'

Spec == Init /\ [][Next]_vars

-----------------------------------------------------------------------------
(* Properties *)

TypeOK ==
  /\ boot \in {"AddPeer", "AddTopicEnter", "AddTopic", "done"}
  /\ left \in Nat
  /\ peers \subseteq created /\ created \subseteq Peer /\ ready \subseteq created
  /\ topics \subseteq Topic
  /\ peersCount \in [Topic -> Int]
  /\ simTopics \in [Peer -> [Topic -> Nat]]
  /\ simTopicJoined \in [Peer -> SUBSET Topic]
  /\ simFriends \in [Peer -> [Peer -> Nat]]
  /\ inbox \in [Peer -> Seq(Mutation)]

\* Friendship is mutual, with a living peer other than oneself, and listed once:
\* AddRandomFriendState, RemovePeerState and GCState each edit both ends.
FriendshipsMutual ==
  \A p, q \in peers : simFriends[p][q] = simFriends[q][p] /\ simFriends[p][q] <= 1
FriendsLive ==
  \A p \in peers, q \in Peer : IsFriend(p, q) => q \in peers /\ q # p
FriendshipsOK == FriendshipsMutual /\ FriendsLive

\* A living peer lists only topics that exist, each once, and has a joining time
\* for exactly those.  RemoveTopicState looks only at Ready peers, so this needs
\* that no other peer lists a topic.
MembershipsOK ==
  \A p \in peers, t \in Topic :
    /\ simTopics[p][t] <= 1
    /\ ListsTopic(p, t) => t \in topics /\ p \in ready
    /\ ListsTopic(p, t) <=> t \in simTopicJoined[p]

\* A peer that does not exist yet has no friends and no topics: AddPeerState
\* stores a new object under an id that was never used.
NewPeersBlank ==
  \A p \in Peer \ created :
    /\ \A q \in Peer : simFriends[p][q] = 0
    /\ \A t \in Topic : simTopics[p][t] = 0
    /\ simTopicJoined[p] = {}

\* The inductive invariant of SimProofs.
SimInv == TypeOK /\ NewPeersBlank /\ FriendshipsOK /\ MembershipsOK

\* No handler makes more peers, topics or friends than config.go allows.
PopulationLimits == Cardinality(peers) <= MaxPeers /\ Cardinality(topics) <= MaxTopics
FriendLimit      == \A p \in peers : NumFriends(p) <= MaxFriendsPerPeer
LimitsHold       == PopulationLimits /\ FriendLimit

\* The metrics are exact whenever they are refreshed: half of the lengths is the number
\* of pairs of friends, and a peer that is passed over because it is not Connected lists
\* no topic.
MetricsExact ==
  /\ Friendships =
       Cardinality({P \in SUBSET peers : \E p, q \in P : P = {p, q} /\ IsFriend(p, q)})
  /\ PeersWithTopics = Cardinality({p \in peers : \E t \in topics : ListsTopic(p, t)})

\* Two living peers stop being friends only when they share no topic.
FriendsPartOnlyUnshared ==
  [][\A p, q \in peers \cap peers' :
       IsFriend(p, q) /\ ~IsFriend(p, q)' => ~ShareTopic(p, q)]_vars

\* A peer is told of every change of its list: the newest mutation that the
\* simulator posted about a topic a peer lists is a join, or a peer whose queue
\* holds a leave as the newest one does not list the topic.
About(p, t)  == {i \in DOMAIN inbox[p] : inbox[p][i].topic = t}
Newest(p, t) == inbox[p][CHOOSE i \in About(p, t) : \A j \in About(p, t) : j <= i]
ListedMeansJoin ==
  \A p \in peers, t \in Topic :
    ListsTopic(p, t) /\ About(p, t) # {} => Newest(p, t) = Join(t)

\* The removal of a peer is the last thing it hears of the simulator, and no living
\* peer hears of one.
NothingAfterRemoval ==
  \A p \in created :
    IF p \in peers THEN \A i \in DOMAIN inbox[p] : inbox[p][i] # RemoveStart
                   ELSE inbox[p] # <<>> => inbox[p][Len(inbox[p])] = RemoveStart

\* config.go, "start values": initialTopics topics exist once the requests of
\* StartState have been served.
InitialTopicsExist ==
  [][boot' = "done" /\ boot # "done" => Cardinality(topics') >= InitialTopics]_vars
=============================================================================
