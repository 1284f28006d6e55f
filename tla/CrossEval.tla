------------------------------ MODULE CrossEval ------------------------------
(***************************************************************************)
(* How the machines of the simulator and of its peers wait for each other, *)
(* over one topic and its machine.  A queue is worked through by whoever   *)
(* adds to it while nobody else does (asyncmachine, external): a goroutine,*)
(* or a handler of the simulator, which then waits for the peer's handlers.*)
(* MsgsSentState (internal/sim/peer.go:378) in turn waits in an Eval for   *)
(* the simulator, and only the Eval's timeout ends that; TopicJoinedState  *)
(* and TopicLeftState leave their Eval to a goroutine.                     *)
(*                                                                         *)
(* All peers are Ready and their own Evals are served: SimPeers covers     *)
(* what happens when they are not.                                         *)
(***************************************************************************)
EXTENDS TopicMachine, Sequences, FiniteSetsExt

CONSTANTS
  Peer, Nobody,
  MaxWork       \* bound of this model: mutations and Evals under way when the
                \* simulator starts a handler

ASSUME PeerAssumption == Nobody \notin Peer /\ MaxWork \in Nat

VARIABLES
  exists,       \* the topic is a key of Sim.topics
  removed,      \* history: it was removed once
  listed,       \* peers that list it (simTopics)
  post, todo,   \* the mutation the simulator's handler posts, and to whom still
  simAt,        \* the peer whose queue the simulator's handler works through
  inbox,        \* mutations queued at each peer's machine, oldest first
  drain,        \* who works through them
  wait,         \* peers whose handler waits in topicMsgs
  jobs,         \* goroutines that will post to the peer's machine
  subs, open,   \* peers with a subscription; peers with an open pubsub handle
  changes,      \* topicPeerChange goroutines that wait in their Eval
  sent, lost    \* history: a message was sent; a count change was lost

topicVars == <<active, peersCount, recent, old>>
simVars   == <<exists, removed, listed, post, todo>>
peerVars  == <<inbox, drain, wait, jobs, subs, open>>
allVars   == <<topicVars, simVars, simAt, peerVars, changes, sent, lost>>

CrossInit ==
  /\ Init
  /\ exists = TRUE /\ removed = FALSE /\ listed = {}
  /\ post = "none" /\ todo = {} /\ simAt = Nobody
  /\ inbox = [p \in Peer |-> <<>>] /\ drain = [p \in Peer |-> "nobody"]
  /\ wait = {} /\ jobs = [p \in Peer |-> {}] /\ subs = {} /\ open = {}
  /\ changes = [d \in {-1, 1} |-> 0]
  /\ sent = FALSE /\ lost = FALSE

-----------------------------------------------------------------------------
(* The simulator's handlers, as far as they post to peers about the topic. *)

Idle == todo = {} /\ simAt = Nobody
Work == changes[-1] + changes[1] + Cardinality(wait)
        + MapThenSumSet(LAMBDA p : Len(inbox[p]) + Cardinality(jobs[p]), Peer)
Starts == Idle /\ Work < MaxWork

Posts(state, P) == post' = state /\ todo' = P

\* A name that was removed may come back: the topic is a new one.
AddTopicState(P) ==
  /\ Starts /\ ~exists
  /\ exists' = TRUE /\ listed' = P /\ Posts("JoiningTopic", P)
  /\ active' = {} /\ peersCount' = 0 /\ recent' = 0 /\ old' = 0
  /\ UNCHANGED <<removed, simAt, peerVars, changes, sent, lost>>

\* Mutant: the topic stays.
RemoveTopicStateKeeps ==
  /\ Starts /\ exists
  /\ listed' = {} /\ Posts("LeavingTopic", listed)
  /\ UNCHANGED <<exists, removed, topicVars, simAt, peerVars, changes, sent, lost>>
RemoveTopicState ==
  /\ Starts /\ exists
  /\ exists' = FALSE /\ removed' = TRUE
  /\ listed' = {} /\ Posts("LeavingTopic", listed)
  /\ UNCHANGED <<topicVars, simAt, peerVars, changes, sent, lost>>

\* JoinRandomTopicState, JoinFriendsTopicState, AddRandomFriendState.
JoinTopicState(p) ==
  /\ Starts /\ exists /\ p \notin listed
  /\ listed' = listed \cup {p} /\ Posts("JoiningTopic", {p})
  /\ UNCHANGED <<exists, removed, topicVars, simAt, peerVars, changes, sent, lost>>

\* The peers picked, each told once: more tells of one peer are further peaks.
PeakRandTopicState(P) ==
  /\ Starts /\ exists
  /\ Posts("JoiningTopic", P)
  /\ UNCHANGED <<exists, removed, listed, topicVars, simAt, peerVars, changes, sent, lost>>

\* Its goroutine posts SendingMsgs.
SendsUnderWay == {p \in Peer : p \in wait \/ jobs[p] \cap {"SendingMsgs", "MsgsSent"} # {}
                                \/ \E i \in DOMAIN inbox[p] : inbox[p][i] \in {"SendingMsgs", "MsgsSent"}}
MsgRandomTopicState(p) ==
  /\ Starts /\ p \in listed /\ Cardinality(listed) >= 2
  /\ recent + old + Cardinality(SendsUnderWay) < MaxLog
  /\ p \notin SendsUnderWay
  /\ jobs' = [jobs EXCEPT ![p] = @ \cup {"SendingMsgs"}]
  /\ UNCHANGED <<simVars, topicVars, simAt, inbox, drain, wait, subs, open, changes, sent, lost>>

\* The handler's Add1 to one peer.  It works through the queue itself unless
\* somebody does, and then only leaves the mutation.
SimPosts(p) ==
  /\ simAt = Nobody /\ p \in todo
  /\ todo' = todo \ {p}
  /\ inbox' = [inbox EXCEPT ![p] = Append(@, post)]
  /\ IF drain[p] = "nobody"
     THEN simAt' = p /\ drain' = [drain EXCEPT ![p] = "sim"]
     ELSE UNCHANGED <<simAt, drain>>
  /\ UNCHANGED <<exists, removed, listed, post, topicVars, wait, jobs, subs, open, changes, sent, lost>>

-----------------------------------------------------------------------------
(* A peer's machine. *)

\* Mutant: the count change is evaluated by the handler, which waits.
ReportsInHandler(p, d) ==
  /\ changes' = [changes EXCEPT ![d] = @ + 1] /\ wait' = wait \cup {p}
  /\ UNCHANGED <<jobs, subs, open, sent>>
Reports(p, d) ==
  changes' = [changes EXCEPT ![d] = @ + 1] /\ UNCHANGED <<wait, jobs, subs, open, sent>>

\* ps.Join fails while the handle is open.
Joining(p) ==
  /\ IF p \in open THEN UNCHANGED <<jobs, open>>
     ELSE jobs' = [jobs EXCEPT ![p] = @ \cup {"TopicJoined"}] /\ open' = open \cup {p}
  /\ UNCHANGED <<wait, subs, changes, sent>>

Sending(p) ==
  /\ jobs' = [jobs EXCEPT ![p] = @ \cup IF p \in subs THEN {"MsgsSent"} ELSE {}]
  /\ UNCHANGED <<wait, subs, open, changes, sent>>

Leaving(p) ==
  /\ subs' = subs \ {p} /\ open' = IF p \in subs THEN open \ {p} ELSE open
  /\ UNCHANGED <<wait, jobs, changes, sent>>

WaitsInHandler(p) ==
  wait' = wait \cup {p} /\ sent' = TRUE /\ UNCHANGED <<jobs, subs, open, changes>>

\* The next mutation, by whoever works through the queue.
PeerHandles(p) ==
  /\ drain[p] # "nobody" /\ p \notin wait /\ inbox[p] # <<>>
  /\ \/ Head(inbox[p]) = "JoiningTopic" /\ Joining(p)
     \/ Head(inbox[p]) = "LeavingTopic" /\ Leaving(p)
     \/ Head(inbox[p]) = "TopicJoined"  /\ Reports(p, 1)
     \/ Head(inbox[p]) = "TopicLeft"    /\ Reports(p, -1)
     \/ Head(inbox[p]) = "SendingMsgs"  /\ Sending(p)
     \/ Head(inbox[p]) = "MsgsSent"     /\ WaitsInHandler(p)
  /\ inbox' = [inbox EXCEPT ![p] = Tail(@) \o
       IF Head(@) = "LeavingTopic" /\ p \in subs THEN <<"TopicLeft">> ELSE <<>>]
  /\ UNCHANGED <<topicVars, simVars, simAt, drain, lost>>

\* The queue is empty: the Add1 that worked through it returns.
Drained(p) ==
  /\ drain[p] # "nobody" /\ p \notin wait /\ inbox[p] = <<>>
  /\ drain' = [drain EXCEPT ![p] = "nobody"]
  /\ simAt' = IF simAt = p THEN Nobody ELSE simAt
  /\ UNCHANGED <<topicVars, simVars, inbox, wait, jobs, subs, open, changes, sent, lost>>

\* A goroutine posts; that of a join has stored the subscription.
JobPosts(p, m) ==
  /\ m \in jobs[p]
  /\ jobs' = [jobs EXCEPT ![p] = @ \ {m}]
  /\ subs' = IF m = "TopicJoined" THEN subs \cup {p} ELSE subs
  /\ inbox' = [inbox EXCEPT ![p] = Append(@, m)]
  /\ drain' = [drain EXCEPT ![p] = IF @ = "nobody" THEN "goroutine" ELSE @]
  /\ UNCHANGED <<topicVars, simVars, simAt, wait, open, changes, sent, lost>>

-----------------------------------------------------------------------------
(* Evals at the simulator: served between two of its handlers. *)

\* An Eval of a handler runs, and the handler goes on.
Answered(p) == Idle /\ p \in wait /\ wait' = wait \ {p}

\* topicMsgs.
MsgsEval(p) ==
  /\ Answered(p)
  /\ IF exists THEN Msgs ELSE UNCHANGED topicVars
  /\ UNCHANGED <<simVars, simAt, inbox, drain, jobs, subs, open, changes, sent, lost>>

\* topicPeerChange.
ChangeEval(d) ==
  /\ Idle /\ changes[d] > 0
  /\ changes' = [changes EXCEPT ![d] = @ - 1]
  /\ IF exists THEN PeerChange(d) ELSE UNCHANGED topicVars
  /\ UNCHANGED <<simVars, simAt, peerVars, sent, lost>>

\* The simulator works through the queue of a peer that waits for the simulator.
\* Handlers are short: only then an Eval waits for so long that it gives up.
HeldUp == simAt \in wait

\* Mutant: the Eval is tried again.
MsgsEvalTimesOutAgain(p) == HeldUp /\ p \in wait /\ UNCHANGED allVars
MsgsEvalTimesOut(p) ==
  /\ HeldUp /\ p \in wait
  /\ wait' = wait \ {p}
  /\ UNCHANGED <<topicVars, simVars, simAt, inbox, drain, jobs, subs, open, changes, sent, lost>>

ChangeEvalTimesOut(d) ==
  /\ HeldUp /\ changes[d] > 0
  /\ changes' = [changes EXCEPT ![d] = @ - 1] /\ lost' = TRUE
  /\ UNCHANGED <<topicVars, simVars, simAt, peerVars, sent>>

TimePasses ==
  WindowPasses /\ UNCHANGED <<simVars, simAt, peerVars, changes, sent, lost>>

-----------------------------------------------------------------------------
SimStep(p) == JoinTopicState(p) \/ MsgRandomTopicState(p)

CrossNext ==
  \/ RemoveTopicState \/ TimePasses
  \/ \E P \in SUBSET Peer \ {{}} : AddTopicState(P) \/ PeakRandTopicState(P)
  \/ \E p \in Peer : \/ SimStep(p) \/ SimPosts(p) \/ PeerHandles(p) \/ Drained(p)
                     \/ \E m \in {"TopicJoined", "SendingMsgs", "MsgsSent"} : JobPosts(p, m)
                     \/ MsgsEval(p) \/ MsgsEvalTimesOut(p)
  \/ \E d \in {-1, 1} : ChangeEval(d) \/ ChangeEvalTimesOut(d)

CrossSpec == CrossInit /\ [][CrossNext]_allVars

\* Queues are worked through and timers fire.  An Eval is not overtaken for ever by
\* handlers, as the simulator's queue is served in turn: MsgsEval is the one action
\* that answers.
FairCrossSpec ==
  /\ CrossSpec
  /\ \A p \in Peer : /\ WF_allVars(SimPosts(p)) /\ WF_allVars(PeerHandles(p) \/ Drained(p))
                     /\ WF_allVars(MsgsEvalTimesOut(p)) /\ SF_wait(Answered(p))

-----------------------------------------------------------------------------
(* Properties *)

\* The machines do not wait for each other for ever: a handler of the simulator that
\* works through a peer's queue returns, and a handler of a peer that waits for the
\* simulator gets its answer or gives up.
HandlersReturn ==
  \A p \in Peer : /\ simAt = p ~> simAt # p
                  /\ p \in wait ~> p \notin wait

\* Joins and leaves never hold up the simulator: their goroutines wait in place of
\* the handlers, so a change of the count is lost only where messages are sent.
OnlySendsLose == lost => sent

\* Until its name is used again a topic hears of joins only, of each peer once:
\* leaves are posted when it is gone.
FirstCountExact ==
  ~removed => /\ peersCount >= 0 /\ changes[-1] = 0
              /\ peersCount + changes[1] <= Cardinality(open)
=============================================================================
