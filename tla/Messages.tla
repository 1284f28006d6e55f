------------------------------ MODULE Messages ------------------------------
(***************************************************************************)
(* How the simulator sends messages and counts their delivery: the handler *)
(* MsgRandomTopic and its goroutine, the peers' SendingMsgs and MsgsSent,  *)
(* the read loops that fill Peer.msgs, and VerifyMsgsRecv                  *)
(* (internal/sim/sim.go:555-646, internal/sim/peer.go:340-451).            *)
(*                                                                         *)
(* All peers are Ready and none is removed.  A peer lists topics           *)
(* (simTopics) and subscribes to them some time later.  Time is not        *)
(* counted: the timeout of a sender and the delay of a verification may    *)
(* fall anywhere, and of simTopicJoined only its order with the send time  *)
(* is kept (`before').  Tokens are taken to be distinct.                   *)
(***************************************************************************)
EXTENDS Integers, Sequences, FiniteSets, SequencesExt

CONSTANTS
  Peer, Topic,
  NoSend,
  Settled,          \* BOOLEAN: is every peer in every topic from the start, for good?
  MaxSends,         \* bound of this model: messages of MsgRandomTopic
  MaxQueue,         \* bound of this model: verifications waiting at the simulator
  MaxMsgsPerPeer    \* config.go: maxMsgsPerPeer

ASSUME MessagesAssumption ==
  Settled \in BOOLEAN /\ {MaxSends, MaxQueue} \subseteq Nat /\ MaxMsgsPerPeer \in Nat \ {0}

Send   == 1..MaxSends
Id     == Send \X {1, 2}

VARIABLES
  send,         \* the author and the topic of each send
  stage,        \* the goroutine of MsgRandomTopicState
  work,         \* the author's machine and its goroutine
  published,    \* how many of the two messages are published
  before,       \* peers with simTopicJoined[topic] before the send time
  listed,       \* Peer.simTopics
  subs,         \* Peer.subs
  net,          \* messages on their way to a subscription (external)
  loops,        \* the readLoop of each subscription, inside storeMsg or not
  msgs,         \* Peer.msgs
  delivered,    \* history: what storeMsg was called with
  queue,        \* the simulator's queue: Add(VerifyMsgsRecv) of a send, 0 for Remove
  verifying,    \* VerifyMsgsRecv is active
  recv, miss    \* what Metrics.MsgsRecv and MsgsMiss count: <<peer, message>>

senderVars == <<send, stage, before>>
workVars   == <<work, published>>
memberVars == <<listed, subs>>
readVars   == <<net, loops, msgs, delivered>>
verifyVars == <<queue, verifying, recv, miss>>
vars == <<senderVars, workVars, memberVars, readVars, verifyVars>>

\* The two messages of a send: the author's id, the same in every send, and a
\* random one.
Content(id) == IF id[2] = 1 THEN [own |-> send[id[1]].peer] ELSE [random |-> id[1]]

Idle == [step |-> "idle", copy |-> <<>>]

Init ==
  /\ send = [n \in Send |-> NoSend] /\ stage = [n \in Send |-> "none"]
  /\ before = [n \in Send |-> {}]
  /\ work = [n \in Send |-> "none"] /\ published = [n \in Send |-> 0]
  /\ listed = [p \in Peer |-> IF Settled THEN Topic ELSE {}]
  /\ subs = [p \in Peer |-> IF Settled THEN Topic ELSE {}]
  /\ net = [p \in Peer |-> [t \in Topic |-> {}]]
  /\ loops = [p \in Peer |-> [t \in Topic |-> Idle]]
  /\ msgs = [p \in Peer |-> <<>>] /\ delivered = [p \in Peer |-> <<>>]
  /\ queue = <<>> /\ verifying = FALSE /\ recv = {} /\ miss = {}

GetTopicPeers(t) == {p \in Peer : t \in listed[p]}
Queue(m) == Len(queue) < MaxQueue /\ queue' = Append(queue, m)

-----------------------------------------------------------------------------
(* Memberships, as far as messages depend on them. *)

\* The simulator lists a topic and stamps it: later than every send so far.
Lists(p, t) ==
  /\ t \notin listed[p]
  /\ listed' = [listed EXCEPT ![p] = @ \cup {t}]
  /\ before' = [n \in Send |-> 
       IF stage[n] # "none" /\ send[n].topic = t THEN before[n] \ {p} ELSE before[n]]
  /\ UNCHANGED <<send, stage, workVars, subs, readVars, verifyVars>>

\* RemoveTopicState, for one of the topic's peers.
Unlists(p, t) ==
  /\ t \in listed[p] /\ ~Settled
  /\ listed' = [listed EXCEPT ![p] = @ \ {t}]
  /\ UNCHANGED <<senderVars, workVars, subs, readVars, verifyVars>>

\* The peer's machine catches up with JoiningTopic or LeavingTopic.
Subscribes(p, t) ==
  /\ t \in listed[p] /\ t \notin subs[p]
  /\ subs' = [subs EXCEPT ![p] = @ \cup {t}]
  /\ UNCHANGED <<senderVars, workVars, listed, readVars, verifyVars>>

\* The subscription is cancelled; what was under way to it is lost.
Unsubscribes(p, t) ==
  /\ t \notin listed[p] /\ t \in subs[p]
  /\ subs' = [subs EXCEPT ![p] = @ \ {t}]
  /\ net' = [net EXCEPT ![p][t] = {}]
  /\ UNCHANGED <<senderVars, workVars, listed, loops, msgs, delivered, verifyVars>>

-----------------------------------------------------------------------------
(* The author. *)

MsgRandomTopicEnter(p, t) == t \in listed[p] /\ Cardinality(GetTopicPeers(t)) >= 2

MsgRandomTopicState(n, p, t) ==
  /\ stage[n] = "none" /\ \A m \in 1..(n - 1) : stage[m] # "none"
  /\ MsgRandomTopicEnter(p, t)
  /\ send' = [send EXCEPT ![n] = [peer |-> p, topic |-> t]]
  /\ stage' = [stage EXCEPT ![n] = "started"]
  /\ UNCHANGED <<before, workVars, memberVars, readVars, verifyVars>>

\* The goroutine registers for MsgsSent with its token, then adds SendingMsgs.
SenderAsks(n) ==
  /\ stage[n] = "started"
  /\ stage' = [stage EXCEPT ![n] = "asked"]
  /\ work' = [work EXCEPT ![n] = "queued"]
  /\ UNCHANGED <<send, before, published, memberVars, readVars, verifyVars>>

\* sendT is read after that.
SenderStamps(n) ==
  /\ stage[n] = "asked"
  /\ stage' = [stage EXCEPT ![n] = "waiting"]
  /\ before' = [before EXCEPT ![n] = GetTopicPeers(send[n].topic)]
  /\ UNCHANGED <<send, workVars, memberVars, readVars, verifyVars>>

\* Mutant: the sender waits for MsgsSent only.
SenderTimesOutNever(n) ==
  /\ stage[n] = "waiting" /\ work[n] = "sent"
  /\ stage' = [stage EXCEPT ![n] = "ended"]
  /\ UNCHANGED <<send, before, workVars, memberVars, readVars, verifyVars>>
SenderTimesOut(n) ==
  /\ stage[n] = "waiting"
  /\ stage' = [stage EXCEPT ![n] = "ended"]
  /\ UNCHANGED <<send, before, workVars, memberVars, readVars, verifyVars>>

SenderHears(n) ==
  /\ stage[n] = "waiting" /\ work[n] = "sent"
  /\ stage' = [stage EXCEPT ![n] = "delayed"]
  /\ UNCHANGED <<send, before, workVars, memberVars, readVars, verifyVars>>

SenderVerifies(n) ==
  /\ stage[n] = "delayed"
  /\ stage' = [stage EXCEPT ![n] = "ended"]
  /\ Queue(n)
  /\ UNCHANGED <<send, before, workVars, memberVars, readVars, verifying, recv, miss>>

\* Without a subscription the request is only logged: nothing will be reported.
SendingMsgsState(n) ==
  /\ work[n] = "queued"
  /\ work' = [work EXCEPT ![n] =
       IF send[n].topic \in subs[send[n].peer] THEN "publishing" ELSE "ended"]
  /\ UNCHANGED <<senderVars, published, memberVars, readVars, verifyVars>>

\* Pubsub carries a message to every other subscription of the topic.
Receivers(n) == {q \in Peer \ {send[n].peer} : send[n].topic \in subs[q]}

Publish(n) ==
  /\ work[n] = "publishing" /\ published[n] < 2
  /\ published' = [published EXCEPT ![n] = @ + 1]
  /\ \E id \in {<<n, published'[n]>>} :
       net' = [q \in Peer |-> IF q \in Receivers(n)
         THEN [net[q] EXCEPT ![send[n].topic] = @ \cup {id}] ELSE net[q]]
  /\ UNCHANGED <<senderVars, work, memberVars, loops, msgs, delivered, verifyVars>>

\* The subscription was cancelled meanwhile, and its context with it.
PublishFails(n) ==
  /\ work[n] = "publishing" /\ published[n] < 2
  /\ send[n].topic \notin subs[send[n].peer]
  /\ work' = [work EXCEPT ![n] = "ended"]
  /\ UNCHANGED <<senderVars, published, memberVars, readVars, verifyVars>>

\* Both are published: MsgsSent is added with the token, and handled.  Mutant: it
\* is added by the handler instead of the goroutine.
MsgsSentStateAtOnce(n) ==
  /\ work[n] = "publishing"
  /\ work' = [work EXCEPT ![n] = "sent"]
  /\ UNCHANGED <<senderVars, published, memberVars, readVars, verifyVars>>
MsgsSentState(n) ==
  /\ work[n] = "publishing" /\ published[n] = 2
  /\ work' = [work EXCEPT ![n] = "sent"]
  /\ UNCHANGED <<senderVars, published, memberVars, readVars, verifyVars>>

-----------------------------------------------------------------------------
(* The readers.  A peer has a readLoop per subscription, and they share      *)
(* Peer.msgs without a lock: storeMsg reads it, writes it back with the      *)
(* message, and then cuts it.                                                *)

LastMsgs(s) == IF Len(s) > MaxMsgsPerPeer
               THEN SubSeq(s, Len(s) - MaxMsgsPerPeer + 1, Len(s)) ELSE s

ReadLoopTakes(p, t) ==
  /\ loops[p][t].step = "idle"
  /\ \E id \in net[p][t] :
       /\ net' = [net EXCEPT ![p][t] = @ \ {id}]
       /\ delivered' = [delivered EXCEPT ![p] = Append(@, id)]
       /\ loops' = [loops EXCEPT ![p][t] =
            [step |-> "append", copy |-> Append(msgs[p], Content(id))]]
  /\ UNCHANGED <<senderVars, workVars, memberVars, msgs, verifyVars>>

StoreAppends(p, t) ==
  /\ loops[p][t].step = "append"
  /\ msgs' = [msgs EXCEPT ![p] = loops[p][t].copy]
  /\ loops' = [loops EXCEPT ![p][t] = [step |-> "cut", copy |-> <<>>]]
  /\ UNCHANGED <<senderVars, workVars, memberVars, net, delivered, verifyVars>>

\* Mutants: the first messages are kept; nothing is cut.
StoreCutsTail(p, t) ==
  /\ loops[p][t].step = "cut"
  /\ msgs' = [msgs EXCEPT ![p] = IF Len(@) > MaxMsgsPerPeer THEN SubSeq(@, 1, MaxMsgsPerPeer) ELSE @]
  /\ loops' = [loops EXCEPT ![p][t] = Idle]
  /\ UNCHANGED <<senderVars, workVars, memberVars, net, delivered, verifyVars>>
StoreCutsNot(p, t) ==
  /\ loops[p][t].step = "cut"
  /\ loops' = [loops EXCEPT ![p][t] = Idle]
  /\ UNCHANGED <<senderVars, workVars, memberVars, msgs, net, delivered, verifyVars>>
StoreCuts(p, t) ==
  /\ loops[p][t].step = "cut"
  /\ msgs' = [msgs EXCEPT ![p] = LastMsgs(@)]
  /\ loops' = [loops EXCEPT ![p][t] = Idle]
  /\ UNCHANGED <<senderVars, workVars, memberVars, net, delivered, verifyVars>>

\* The other half of GCState.
GCMsgs ==
  /\ msgs' = [p \in Peer |-> LastMsgs(msgs[p])]
  /\ UNCHANGED <<senderVars, workVars, memberVars, net, loops, delivered, verifyVars>>

-----------------------------------------------------------------------------
(* The simulator's queue. *)

Examined(n) == (GetTopicPeers(send[n].topic) \ {send[n].peer}) \cap before[n]
\* Mutant: any message will do.
StoredAny(p, id) == msgs[p] # <<>>
Stored(p, id) == Content(id) \in ToSet(msgs[p])

VerifyMsgsRecvState(n) ==
  /\ queue # <<>> /\ Head(queue) = n /\ ~verifying
  /\ verifying' = TRUE
  /\ queue' = Append(Tail(queue), 0)
  /\ \E checks \in {Examined(n) \X ({n} \X {1, 2})} :
       /\ recv' = recv \cup {c \in checks : Stored(c[1], c[2])}
       /\ miss' = miss \cup {c \in checks : ~Stored(c[1], c[2])}
  /\ UNCHANGED <<senderVars, workVars, memberVars, readVars>>

\* The state is not Multi: added while it is active, it runs no handler.
VerifyMsgsRecvDropped(n) ==
  /\ queue # <<>> /\ Head(queue) = n /\ verifying
  /\ queue' = Tail(queue)
  /\ UNCHANGED <<senderVars, workVars, memberVars, readVars, verifying, recv, miss>>

VerifyMsgsRecvRemoved ==
  /\ queue # <<>> /\ Head(queue) = 0
  /\ verifying' = FALSE /\ queue' = Tail(queue)
  /\ UNCHANGED <<senderVars, workVars, memberVars, readVars, recv, miss>>

-----------------------------------------------------------------------------
Membership == \E p \in Peer, t \in Topic :
  Lists(p, t) \/ Unlists(p, t) \/ Subscribes(p, t) \/ Unsubscribes(p, t)
Sender(n) == \/ SenderAsks(n) \/ SenderStamps(n) \/ SenderTimesOut(n)
             \/ SenderHears(n) \/ SenderVerifies(n)
Author(n) == SendingMsgsState(n) \/ Publish(n) \/ PublishFails(n) \/ MsgsSentState(n)
Reader    == \E p \in Peer, t \in Topic :
  ReadLoopTakes(p, t) \/ StoreAppends(p, t) \/ StoreCuts(p, t)
Verifier  == \/ \E n \in Send : VerifyMsgsRecvState(n) \/ VerifyMsgsRecvDropped(n)
             \/ VerifyMsgsRecvRemoved

Next ==
  \/ Membership
  \/ \E n \in Send, p \in Peer, t \in Topic : MsgRandomTopicState(n, p, t)
  \/ \E n \in Send : Sender(n) \/ Author(n)
  \/ Reader \/ GCMsgs \/ Verifier

Spec == Init /\ [][Next]_vars

\* Goroutines are scheduled, a sender's timer fires, and the simulator drains its queue.
FairSpec == Spec /\ WF_vars(Verifier) /\ \A n \in Send : WF_vars(Sender(n))

-----------------------------------------------------------------------------
(* Properties *)

\* Nothing is verified before both messages are on their way: the sender waits for
\* the MsgsSent of its own token, and the author reports only after publishing.
VerifiedAfterPublished ==
  \A n \in Send :
    n \in ToSet(queue) \/ (\E c \in recv \cup miss : c[2][1] = n) => published[n] = 2

\* sim.go:478, "peers keep only last N msgs": between two calls of storeMsg a peer
\* holds exactly the last maxMsgsPerPeer messages read for it.
Resting(p) == \A t \in Topic : loops[p][t] = Idle
KeepsLastMsgs == \A p \in Peer :
  Resting(p) => msgs[p] = LastMsgs([i \in DOMAIN delivered[p] |-> Content(delivered[p][i])])

\* However its read loops race, a peer at rest holds no more than maxMsgsPerPeer.
BufferBounded == \A p \in Peer : Resting(p) => Len(msgs[p]) <= MaxMsgsPerPeer

\* sim.go:626, "verify that all topic peers received the msg": a message counts as
\* received by a peer only when pubsub brought it there.
RecvMeansDelivered == \A c \in recv : c[2] \in ToSet(delivered[c[1]])

\* What RecvMeansDelivered leaves of the promise: the random message of a send
\* cannot be mistaken for another, so it counts as received only where it was read.
FreshRecvMeansDelivered == \A c \in recv : c[2][2] = 2 => c[2] \in ToSet(delivered[c[1]])

\* A sender does not wait for ever, whether or not its author can publish.
EverySendEnds == \A n \in Send : stage[n] = "started" ~> stage[n] = "ended"
=============================================================================
