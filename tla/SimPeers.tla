------------------------------ MODULE SimPeers ------------------------------
(***************************************************************************)
(* The simulator together with the topic side of its peers                 *)
(* (internal/sim/peer.go: JoiningTopic, LeavingTopic, TopicJoined,         *)
(* TopicLeft, StartEnd) and the goroutines they start.  A peer's machine   *)
(* handles one mutation of its queue at a time; joining runs in a          *)
(* goroutine (ps.Join, Subscribe, then an Eval that stores the             *)
(* subscription), and every change of a topic's peer count travels in a    *)
(* goroutine of its own, so joins, leaves and counts interleave freely.    *)
(*                                                                         *)
(* libp2p's pubsub is external: a topic has one handle per peer, Join      *)
(* fails while the handle is open, and Close gives it back.                *)
(***************************************************************************)
EXTENDS Sim, SequencesExt

CONSTANTS
  EvalTimeouts,     \* BOOLEAN: may Machine.Eval give up and return false?
  MaxAttempts,      \* bound of this model: goroutines of one peer joining one topic
  MaxChanges        \* bound of this model: topicPeerChange goroutines of one kind

ASSUME FlagsAssumption == EvalTimeouts \in BOOLEAN /\ {MaxAttempts, MaxChanges} \subseteq Nat

VARIABLES
  attempts,     \* join goroutines that have not called ps.Join yet
  holding,      \* topics joined at pubsub whose Eval has not run yet
  open,         \* pubsub topic handles that are open (external)
  subs,         \* keys of Peer.subs
  stopped,      \* peers whose Start was removed
  changes,      \* topicPeerChange goroutines under way
  removed       \* history: topics removed at least once

joinVars == <<attempts, holding, open>>
sideVars == <<joinVars, subs, stopped, changes, removed>>
simVars  == vars
allVars  == <<vars, sideVars>>

TopicJoined(t) == [state |-> "TopicJoined", topic |-> t]
TopicLeft(t)   == [state |-> "TopicLeft", topic |-> t]

PeersInit ==
  /\ Init
  /\ attempts = [p \in Peer |-> [t \in Topic |-> 0]]
  /\ holding = [p \in Peer |-> {}]
  /\ open = [p \in Peer |-> {}]
  /\ subs = [p \in Peer |-> {}]
  /\ stopped = {}
  /\ changes = [t \in Topic |-> [d \in {-1, 1} |-> 0]]
  /\ removed = {}

-----------------------------------------------------------------------------
(* The peer's machine: one mutation at a time, oldest first.  All but       *)
(* RemoveStart require Connected, which falls with Start.                   *)

Handles(p, state, t) ==
  inbox[p] # <<>> /\ Head(inbox[p]) = [state |-> state, topic |-> t]

Queue(p, s) == inbox' = [inbox EXCEPT ![p] = s]

SimUnchanged ==
  UNCHANGED <<bootVars, peerVars, topics, peersCount, memberVars, simFriends, removed>>

\* The work is left to a goroutine.
JoiningTopicState(p, t) ==
  /\ p \notin stopped
  /\ Handles(p, "JoiningTopic", t)
  /\ attempts[p][t] < MaxAttempts
  /\ attempts' = [attempts EXCEPT ![p][t] = @ + 1]
  /\ Queue(p, Tail(inbox[p]))
  /\ SimUnchanged /\ UNCHANGED <<holding, open, subs, stopped, changes>>

\* The topic is closed, dropped from Peer.subs, and TopicLeft is queued.
\* Mutant: the handle stays open.
CloseTopicLeavesHandle(p, t) ==
  /\ subs' = [subs EXCEPT ![p] = @ \ {t}] /\ UNCHANGED open
  /\ Queue(p, Append(Tail(inbox[p]), TopicLeft(t)))
CloseTopic(p, t) ==
  /\ subs' = [subs EXCEPT ![p] = @ \ {t}]
  /\ open' = [open EXCEPT ![p] = @ \ {t}]
  /\ Queue(p, Append(Tail(inbox[p]), TopicLeft(t)))

\* A topic without a subscription is only logged.
LeavingTopicState(p, t) ==
  /\ p \notin stopped
  /\ Handles(p, "LeavingTopic", t)
  /\ IF t \in subs[p]
     THEN CloseTopic(p, t)
     ELSE /\ UNCHANGED <<subs, open>>
          /\ Queue(p, Tail(inbox[p]))
  /\ SimUnchanged /\ UNCHANGED <<attempts, holding, stopped, changes>>

ReportChange(t, d) ==
  /\ changes[t][d] < MaxChanges
  /\ changes' = [changes EXCEPT ![t][d] = @ + 1]

TopicJoinedState(p, t) ==
  /\ p \notin stopped
  /\ Handles(p, "TopicJoined", t)
  /\ ReportChange(t, 1)
  /\ Queue(p, Tail(inbox[p]))
  /\ SimUnchanged /\ UNCHANGED <<joinVars, subs, stopped>>

TopicLeftState(p, t) ==
  /\ p \notin stopped
  /\ Handles(p, "TopicLeft", t)
  /\ ReportChange(t, -1)
  /\ Queue(p, Tail(inbox[p]))
  /\ SimUnchanged /\ UNCHANGED <<joinVars, subs, stopped>>

\* Start is removed: the leaves are queued, but only after Connected is gone.
StartEnd(p) ==
  /\ p \notin stopped
  /\ Handles(p, "RemoveStart", NoTopic)
  /\ stopped' = stopped \cup {p}
  /\ \E order \in SetToSeqs(subs[p]) :
       Queue(p, Tail(inbox[p]) \o [i \in DOMAIN order |-> Leave(order[i])])
  /\ SimUnchanged /\ UNCHANGED <<joinVars, subs, changes>>

\* A mutation whose Require is not met is cancelled; a disposed machine
\* ignores the rest.
Cancelled(p) ==
  /\ p \in stopped
  /\ inbox[p] # <<>>
  /\ Queue(p, Tail(inbox[p]))
  /\ SimUnchanged /\ UNCHANGED <<joinVars, subs, stopped, changes>>

PeerHandles(p) ==
  \/ \E t \in Topic : \/ JoiningTopicState(p, t) \/ LeavingTopicState(p, t)
                      \/ TopicJoinedState(p, t) \/ TopicLeftState(p, t)
  \/ StartEnd(p) \/ Cancelled(p)

-----------------------------------------------------------------------------
(* The goroutine of JoiningTopicState. *)

\* ps.Join and Subscribe succeed.  Mutant: a topic that is open is joined again.
PubsubJoinAgain(p, t) ==
  /\ attempts[p][t] > 0
  /\ attempts' = [attempts EXCEPT ![p][t] = @ - 1]
  /\ open' = [open EXCEPT ![p] = @ \cup {t}]
  /\ holding' = [holding EXCEPT ![p] = @ \cup {t}]
  /\ SimUnchanged /\ UNCHANGED <<inbox, subs, stopped, changes>>
PubsubJoin(p, t) ==
  /\ attempts[p][t] > 0
  /\ t \notin open[p]
  /\ attempts' = [attempts EXCEPT ![p][t] = @ - 1]
  /\ open' = [open EXCEPT ![p] = @ \cup {t}]
  /\ holding' = [holding EXCEPT ![p] = @ \cup {t}]
  /\ SimUnchanged /\ UNCHANGED <<inbox, subs, stopped, changes>>

\* ps.Join fails: the topic is open already, or the peer's context is done.
PubsubJoinFails(p, t) ==
  /\ attempts[p][t] > 0
  /\ t \in open[p] \/ p \in stopped
  /\ attempts' = [attempts EXCEPT ![p][t] = @ - 1]
  /\ SimUnchanged /\ UNCHANGED <<inbox, holding, open, subs, stopped, changes>>

\* The Eval stores the subscription, and TopicJoined is queued.
StoreSubscription(p, t) ==
  /\ t \in holding[p]
  /\ holding' = [holding EXCEPT ![p] = @ \ {t}]
  /\ subs' = [subs EXCEPT ![p] = @ \cup {t}]
  /\ Queue(p, Append(inbox[p], TopicJoined(t)))
  /\ SimUnchanged /\ UNCHANGED <<attempts, open, stopped, changes>>

\* The Eval is not served in time, or the machine is disposed: the goroutine
\* ends and nobody closes the handle.
StoreFails(p, t) ==
  /\ t \in holding[p]
  /\ EvalTimeouts \/ p \in stopped
  /\ holding' = [holding EXCEPT ![p] = @ \ {t}]
  /\ SimUnchanged /\ UNCHANGED <<inbox, attempts, open, subs, stopped, changes>>

CallsPubsub(p, t) == PubsubJoin(p, t) \/ PubsubJoinFails(p, t)
Stores(p, t)      == StoreSubscription(p, t) \/ StoreFails(p, t)

-----------------------------------------------------------------------------
(* The goroutine of TopicJoinedState and TopicLeftState. *)

\* The Eval of topicPeerChange; a topic that is gone is only logged.  Mutant: it is
\* counted all the same.
CountChangeUnchecked(t, d) ==
  /\ changes[t][d] > 0
  /\ changes' = [changes EXCEPT ![t][d] = @ - 1]
  /\ peersCount' = [peersCount EXCEPT ![t] = @ + d]
  /\ peersCount'[t] \in -MaxCount..MaxCount
  /\ UNCHANGED <<bootVars, peerVars, topics, memberVars, simFriends, inbox>>
  /\ UNCHANGED <<joinVars, subs, stopped, removed>>
CountChange(t, d) ==
  /\ changes[t][d] > 0
  /\ changes' = [changes EXCEPT ![t][d] = @ - 1]
  /\ IF t \in topics THEN topicPeerChange(t, d) ELSE UNCHANGED simVars
  /\ UNCHANGED <<joinVars, subs, stopped, removed>>

CountChangeLost(t, d) ==
  /\ EvalTimeouts
  /\ changes[t][d] > 0
  /\ changes' = [changes EXCEPT ![t][d] = @ - 1]
  /\ UNCHANGED <<simVars, joinVars, subs, stopped, removed>>

-----------------------------------------------------------------------------
SimStep ==
  /\ Boot \/ Handler \/ PeerReady
  /\ InboxBound'
  /\ removed' = removed \cup (topics \ topics')
  /\ UNCHANGED <<joinVars, subs, stopped, changes>>

PeersNext ==
  \/ SimStep
  \/ \E p \in Peer : PeerHandles(p)
  \/ \E p \in Peer, t \in Topic : CallsPubsub(p, t) \/ Stores(p, t)
  \/ \E t \in Topic, d \in {-1, 1} : CountChange(t, d) \/ CountChangeLost(t, d)

PeersSpec == PeersInit /\ [][PeersNext]_allVars

\* Queues are drained and goroutines are scheduled; nothing makes the
\* simulator's random handlers run.
Fairness ==
  /\ \A p \in Peer : WF_allVars(PeerHandles(p))
  /\ \A p \in Peer, t \in Topic : WF_allVars(CallsPubsub(p, t)) /\ WF_allVars(Stores(p, t))
  /\ \A t \in Topic, d \in {-1, 1} : WF_allVars(CountChange(t, d))

FairPeersSpec == PeersSpec /\ Fairness

-----------------------------------------------------------------------------
(* Properties *)

\* Every open pubsub handle is owned: by the one goroutine about to store it, or
\* by the subscription in Peer.subs, never by both, so storing overwrites no live
\* one.  A handle nobody owns would make every later join of the topic fail.
HandlesOwned ==
  \A p \in Peer : p \notin stopped =>
    /\ holding[p] \cap subs[p] = {}
    /\ open[p] = holding[p] \cup subs[p]

\* With Evals that time out and peers that stop, an open handle loses its owner only
\* where the Eval of the goroutine that joined is not served: no leave, no second join
\* under way and no removal of the peer, in whatever order, loses another.
Unowned(p) == open[p] \ (holding[p] \cup subs[p])
LostOnlyByEval == [][\A p \in Peer : Unowned(p)' \subseteq Unowned(p) \cup holding[p]]_allVars

Waiting(p, m)     == Cardinality({i \in DOMAIN inbox[p] : inbox[p][i] = m})
Reports(t)        == Total([p \in Peer |-> Waiting(p, TopicJoined(t)) - Waiting(p, TopicLeft(t))])
Subscribers(t)    == {p \in Peer : t \in subs[p]}

\* Counts are conserved: what a topic counts, plus the reports under way, is the
\* number of its subscribers, however often a peer was told to join (topics removed
\* before start a new count; a topic is left only when it is removed).
CountsConserved ==
  \A t \in topics \ removed :
    peersCount[t] + changes[t][1] - changes[t][-1] + Reports(t) = Cardinality(Subscribers(t))

\* Whatever the simulator lists for a peer the peer subscribes to, unless the
\* topic or the peer is removed first.
ListedIsSubscribed ==
  \A p \in Peer, t \in Topic :
    (p \in peers /\ ListsTopic(p, t)) ~>
      (t \in subs[p] \/ ~ListsTopic(p, t) \/ p \notin peers)

\* The real peers are an environment the simulator's specification allows: of a
\* peer's queue it sees what it posted itself.
FromSim(q) ==
  LET kept[n \in 0..Len(q)] ==
        IF n = 0 THEN <<>>
        ELSE IF q[n] \in Mutation THEN Append(kept[n - 1], q[n]) ELSE kept[n - 1]
  IN  kept[Len(q)]
Posted    == [p \in Peer |-> IF p \in stopped THEN <<>> ELSE FromSim(inbox[p])]
Abstract  == INSTANCE Sim WITH inbox <- Posted
ImplementsSim == Abstract!Spec
=============================================================================
