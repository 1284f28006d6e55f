----------------------------- MODULE OtelTracer -----------------------------
(***************************************************************************)
(* The tracer that records what a pubsub instance does as spans            *)
(* (assets/pubsub_injects/psmon_pubsub.go, OtelPubsubTracer): two maps,    *)
(* each with a mutex.  Pubsub (external) calls it from several goroutines; *)
(* it announces the joins and leaves of a topic in turn, from one of them, *)
(* and the test harness (TestMain) calls End.                              *)
(***************************************************************************)
EXTENDS Integers, FiniteSets

CONSTANTS
  Thread, Loop,     \* the goroutines, and the one that joins and leaves
  Topic, Nobody

ASSUME TracerAssumption == Loop \in Thread /\ Nobody \notin Thread

\* The methods, by what they do: a join, a leave, an event of a topic (Graft, Prune,
\* DuplicateMessage, ..., DeliverMessage), an event of a group (RecvRPC, SendRPC,
\* DropRPC, ThrottlePeer), an event of a group without topicsMx (AddPeer,
\* RemovePeer), and End.
Op    == {"Join", "Leave", "topic event", "group event", "peer event", "End"}
Group == {"topic", "rpc", "peer"}
GroupOf(op) == CASE op = "Join" -> "topic" [] op = "group event" -> "rpc" [] OTHER -> "peer"

VARIABLES
  pc, op, topic,        \* per goroutine: where it is, in which method, on which topic
  topicsMx, groupsMx,   \* who holds them
  topics,               \* keys of t.topics
  open,                 \* topic spans that are open, per topic
  groups,               \* group spans started, per group
  joined,               \* topics pubsub is in
  ended                 \* End has run

vars == <<pc, op, topic, topicsMx, groupsMx, topics, open, groups, joined, ended>>

Init ==
  /\ pc = [g \in Thread |-> "idle"]
  /\ op = [g \in Thread |-> "none"] /\ topic \in {[g \in Thread |-> t] : t \in Topic}
  /\ topicsMx = Nobody /\ groupsMx = Nobody
  /\ topics = {} /\ open = [t \in Topic |-> 0]
  /\ groups = [n \in Group |-> 0]
  /\ joined = {} /\ ended = FALSE

Goto(g, l) == pc' = [pc EXCEPT ![g] = l]
Returns(g) == Goto(g, "idle") /\ op' = [op EXCEPT ![g] = "none"]

\* A method is called.
Calls(g, o, t) ==
  /\ pc[g] = "idle"
  /\ o \in {"Join", "Leave"} => g = Loop
  /\ o = "Join" => t \notin joined
  /\ o = "Leave" => t \in joined
  /\ joined' = CASE o = "Join" -> joined \cup {t} [] o = "Leave" -> joined \ {t} [] OTHER -> joined
  /\ op' = [op EXCEPT ![g] = o] /\ topic' = [topic EXCEPT ![g] = t]
  /\ Goto(g, IF o = "peer event" THEN "group" ELSE "lock")
  /\ UNCHANGED <<topicsMx, groupsMx, topics, open, groups, ended>>

\* Mutant: the lock is taken for granted.
LocksNot(g) ==
  /\ pc[g] = "lock" /\ topicsMx' = g
  /\ Goto(g, IF op[g] \in {"Join", "group event"} THEN "group" ELSE "map")
  /\ UNCHANGED <<op, topic, groupsMx, topics, open, groups, joined, ended>>
Locks(g) ==
  /\ pc[g] = "lock" /\ topicsMx = Nobody /\ topicsMx' = g
  /\ Goto(g, IF op[g] \in {"Join", "group event"} THEN "group" ELSE "map")
  /\ UNCHANGED <<op, topic, groupsMx, topics, open, groups, joined, ended>>

\* getGroupCtx: the span of the group is started by the first who asks for it.
\* Mutant: without groupsMx.
LocksGroupsNot(g) ==
  /\ pc[g] = "group" /\ groupsMx' = g
  /\ Goto(g, IF groups[GroupOf(op[g])] = 0 THEN "new group" ELSE "group done")
  /\ UNCHANGED <<op, topic, topicsMx, topics, open, groups, joined, ended>>
LocksGroups(g) ==
  /\ pc[g] = "group" /\ groupsMx = Nobody /\ groupsMx' = g
  /\ Goto(g, IF groups[GroupOf(op[g])] = 0 THEN "new group" ELSE "group done")
  /\ UNCHANGED <<op, topic, topicsMx, topics, open, groups, joined, ended>>

StartsGroup(g) ==
  /\ pc[g] = "new group"
  /\ groups' = [groups EXCEPT ![GroupOf(op[g])] = @ + 1]
  /\ Goto(g, "group done")
  /\ UNCHANGED <<op, topic, topicsMx, groupsMx, topics, open, joined, ended>>

UnlocksGroups(g) ==
  /\ pc[g] = "group done" /\ groupsMx' = Nobody
  /\ Goto(g, IF op[g] = "Join" THEN "map" ELSE "span")
  /\ UNCHANGED <<op, topic, topicsMx, topics, open, groups, joined, ended>>

\* Under topicsMx: the map is read or written.  Mutant: a leave
\* forgets the span.
EndsNot(t) == UNCHANGED open
Ends(t) == open' = [open EXCEPT ![t] = IF @ > 0 THEN @ - 1 ELSE @]

MapStep(g) ==
  /\ pc[g] = "map"
  /\ \/ /\ op[g] = "Join"
        /\ topics' = topics \cup {topic[g]}
        /\ open' = [open EXCEPT ![topic[g]] = @ + 1]
        /\ UNCHANGED ended /\ Goto(g, "unlock")
     \/ /\ op[g] = "Leave" /\ topic[g] \in topics
        /\ topics' = topics \ {topic[g]}
        /\ Ends(topic[g])
        /\ UNCHANGED ended /\ Goto(g, "unlock")
     \/ /\ op[g] = "topic event" /\ topic[g] \in topics
        /\ UNCHANGED <<topics, open, ended>> /\ Goto(g, "span")
     \/ /\ op[g] = "End"
        /\ open' = [t \in Topic |-> IF t \in topics /\ open[t] > 0 THEN open[t] - 1 ELSE open[t]]
        /\ ended' = TRUE
        /\ UNCHANGED topics /\ Goto(g, "unlock")
  /\ UNCHANGED <<op, topic, topicsMx, groupsMx, groups, joined>>

\* A topic nobody joined: logged, and the deferred unlock runs.  Mutant: it does not.
MissesLocked(g) ==
  /\ pc[g] = "map" /\ op[g] \in {"Leave", "topic event"} /\ topic[g] \notin topics
  /\ Returns(g)
  /\ UNCHANGED <<topic, topicsMx, groupsMx, topics, open, groups, joined, ended>>
Misses(g) ==
  /\ pc[g] = "map" /\ op[g] \in {"Leave", "topic event"} /\ topic[g] \notin topics
  /\ Goto(g, "unlock")
  /\ UNCHANGED <<op, topic, topicsMx, groupsMx, topics, open, groups, joined, ended>>

\* The span of the event, started at "span" and ended here.
EndsSpan(g) ==
  /\ pc[g] = "span"
  /\ IF op[g] = "peer event" THEN Returns(g) ELSE Goto(g, "unlock") /\ UNCHANGED op
  /\ UNCHANGED <<topic, topicsMx, groupsMx, topics, open, groups, joined, ended>>

Unlocks(g) ==
  /\ pc[g] = "unlock" /\ topicsMx' = Nobody
  /\ Returns(g)
  /\ UNCHANGED <<topic, groupsMx, topics, open, groups, joined, ended>>

Locking(g) == Locks(g) \/ LocksGroups(g)
Working(g) == \/ StartsGroup(g) \/ UnlocksGroups(g) \/ MapStep(g) \/ Misses(g)
              \/ EndsSpan(g) \/ Unlocks(g)

-----------------------------------------------------------------------------
(* Properties *)

\* An event of a topic is recorded while the topic's span is open: topicsMx is held
\* from the look-up to the end of the event's span.  (End closes the open spans.)
EventWithinTopic ==
  \A g \in Thread :
    pc[g] = "span" /\ op[g] = "topic event" => open[topic[g]] > 0 \/ ended

\* A group has one span, however many goroutines ask for it at once.
OneSpanPerGroup == \A n \in Group : groups[n] <= 1

\* No topic span is lost: the open ones are in the map, where Leave and End find
\* them, and there is one per topic.
OpenSpansKnown ==
  \A t \in Topic : open[t] <= 1 /\ (open[t] = 1 => t \in topics) /\ (~ended /\ t \in topics => open[t] = 1)
=============================================================================
