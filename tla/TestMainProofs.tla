--------------------------- MODULE TestMainProofs ---------------------------
(***************************************************************************)
(* What the tracer's mutexes and the flag of the test harness ensure, for  *)
(* every number of goroutines, topics and tests.                           *)
(***************************************************************************)
EXTENDS TestMain, TLAPS

Harness  == {Main, Timer}
InGroup  == {"group", "new group", "group done"}
Location == {"idle", "lock", "map", "span", "unlock"} \cup InGroup
Grouped  == {"Join", "group event", "peer event"}

\* The methods that pass each place.
MethodAt(l, o) ==
  \/ l = "idle" /\ o = "none"
  \/ l \in {"lock", "unlock"} /\ o \in Op \ {"peer event"}
  \/ l \in InGroup /\ o \in Grouped
  \/ l = "map" /\ o \in {"Join", "Leave", "topic event", "End"}
  \/ l = "span" /\ o \in {"topic event", "group event", "peer event"}

TracerTypeOK ==
  /\ pc \in [Thread -> Location] /\ op \in [Thread -> Op \cup {"none"}]
  /\ topic \in [Thread -> Topic]
  /\ topicsMx \in Thread \cup {Nobody} /\ groupsMx \in Thread \cup {Nobody}
  /\ topics \subseteq Topic /\ open \in [Topic -> Nat] /\ groups \in [Group -> Nat]
  /\ joined \subseteq Topic /\ ended \in BOOLEAN

HoldsTopics(g) == pc[g] \notin {"idle", "lock"} /\ op[g] # "peer event"
HoldsGroups(g) == pc[g] \in {"new group", "group done"}

\* Who is past a lock and not yet past its unlock is who holds it: the places of the
\* code say the same as the mutexes.
MutexesHeld ==
  \A g \in Thread :
    /\ MethodAt(pc[g], op[g])
    /\ HoldsTopics(g) <=> topicsMx = g
    /\ HoldsGroups(g) <=> groupsMx = g

\* Whoever is about to start a group's span is the first to.
GroupIsNew == \A g \in Thread : pc[g] = "new group" => groups[GroupOf(op[g])] = 0

\* An event that found its topic still finds it.
EventKnown ==
  \A g \in Thread : pc[g] = "span" /\ op[g] = "topic event" => topic[g] \in topics

\* The map follows what pubsub has joined, one method of the loop behind: a topic being
\* joined is not in the map yet, and one not joined is there until its Leave removes it.
JoinsAlternate ==
  /\ \A g \in Thread : op[g] \in {"Join", "Leave"} => g = Loop
  /\ op[Loop] = "Join" => topic[Loop] \in joined
  /\ \A t \in topics :
       \/ t \in joined /\ ~(op[Loop] = "Join" /\ topic[Loop] = t /\ pc[Loop] # "unlock")
       \/ op[Loop] = "Leave" /\ topic[Loop] = t /\ pc[Loop] \in {"lock", "map"}

TracerInv ==
  /\ TracerTypeOK /\ MutexesHeld
  /\ GroupIsNew /\ OneSpanPerGroup
  /\ EventKnown /\ JoinsAlternate /\ OpenSpansKnown

HarnessTypeOK ==
  /\ at \in [Harness -> {"wait", "test", "set", "ending", "flush", "shutdown", "exits", "returned"}]
  /\ disposed \in BOOLEAN /\ shut \in BOOLEAN /\ exportFailed \in BOOLEAN
  /\ started \in Nat /\ done \in Nat /\ exported \in Nat
  /\ exit \in {"none", "complete", "failed", "cut short"}

Ended     == {"flush", "shutdown", "exits"}   \* past the end of the spans
Flushed   == {"shutdown", "exits"}            \* past the flush
Disposing == {"set", "ending"} \cup Ended     \* past a test that found the flag down

\* Nothing is ended before the flag is up.
FlagFirst == shut \/ (\E h \in Harness : at[h] \in {"ending"} \cup Ended) => disposed

\* Once the main goroutine has found the flag down, the tests are over and nothing has
\* been ended yet: whoever ends, flushes or shuts down from then on does it with the
\* spans of all tests.
AllEnded ==
  at[Main] \in Disposing =>
    /\ shut \/ (\E h \in Harness : at[h] \in Ended) => done = started
    /\ shut \/ (\E h \in Harness : at[h] \in Flushed) => exported = started \/ exportFailed

HarnessInv == HarnessTypeOK /\ FlagFirst /\ AllEnded /\ LostOnlyByExport

MainInv == TracerInv /\ HarnessInv

-----------------------------------------------------------------------------
(* The tracer *)

\* A step of the tracer: a method is called, or one goes on.
TracerStep(g) == (\E o \in Op, t \in Topic : Calls(g, o, t)) \/ TracerSteps(g)

\* Every operation traces into a group.
LEMMA GroupOfTyped == \A o : GroupOf(o) \in Group
BY DEF GroupOf, Group

\* Nothing is held and nothing is open at the start.
LEMMA TracerInit == Init => TracerInv
<1> SUFFICES ASSUME Init PROVE TracerInv
  OBVIOUS
<1> USE DEF Init
<1>1. TracerTypeOK
  BY DEF TracerTypeOK, Location, Op, Group
<1>2. MutexesHeld
  BY TracerAssumption DEF MutexesHeld, MethodAt, HoldsTopics, HoldsGroups
<1>3. GroupIsNew /\ OneSpanPerGroup /\ EventKnown
  BY DEF GroupIsNew, OneSpanPerGroup, EventKnown
<1>4. JoinsAlternate /\ OpenSpansKnown
  BY TracerAssumption DEF JoinsAlternate, OpenSpansKnown
<1>5. QED BY <1>1, <1>2, <1>3, <1>4 DEF TracerInv

\* Every step keeps the types of the tracer.
LEMMA TracerTypeStep ==
  ASSUME TracerTypeOK, NEW g \in Thread, TracerStep(g)
  PROVE  TracerTypeOK'
<1>1. ASSUME NEW o \in Op, NEW t \in Topic, Calls(g, o, t) PROVE TracerTypeOK'
  BY <1>1 DEF TracerTypeOK, Calls, Goto, Location, InGroup
<1>2. CASE Locks(g)
  BY <1>2 DEF TracerTypeOK, Locks, Goto, Location, InGroup
<1>3. CASE LocksGroups(g)
  BY <1>3 DEF TracerTypeOK, LocksGroups, Goto, Location, InGroup
<1>4. CASE StartsGroup(g)
  <2>1. groups' \in [Group -> Nat]
    <3>1. groups \in [Group -> Nat]
      BY DEF TracerTypeOK
    <3>2. PICK n \in Group : groups' = [groups EXCEPT ![n] = @ + 1]
      BY <1>4, GroupOfTyped DEF StartsGroup
    <3>3. QED BY <3>1, <3>2
  <2>2. QED BY <1>4, <2>1 DEF TracerTypeOK, StartsGroup, Goto, Location, InGroup
<1>5. CASE UnlocksGroups(g)
  BY <1>5 DEF TracerTypeOK, UnlocksGroups, Goto, Location, InGroup
<1>6. CASE MapStep(g)
  <2>1. topics' \subseteq Topic /\ ended' \in BOOLEAN
    <3>1. topics \subseteq Topic /\ topic[g] \in Topic /\ ended \in BOOLEAN
      BY DEF TracerTypeOK
    <3>2. topics' \in {topics, topics \cup {topic[g]}, topics \ {topic[g]}} /\ ended' \in {ended, TRUE}
      BY <1>6 DEF MapStep
    <3>3. QED BY <3>1, <3>2
  <2>2. open' \in [Topic -> Nat]
    <3>1. open \in [Topic -> Nat] /\ topic[g] \in Topic
      BY DEF TracerTypeOK
    <3>2. CASE open' = [open EXCEPT ![topic[g]] = @ + 1]
      BY <3>1, <3>2
    <3>3. CASE open' = [open EXCEPT ![topic[g]] = IF @ > 0 THEN @ - 1 ELSE @]
      BY <3>1, <3>3
    <3>4. CASE open' = [t \in Topic |-> IF t \in topics /\ open[t] > 0 THEN open[t] - 1 ELSE open[t]]
      BY <3>1, <3>4
    <3>5. QED BY <1>6, <3>1, <3>2, <3>3, <3>4 DEF MapStep, Ends
  <2>3. pc' \in [Thread -> Location]
    BY <1>6 DEF MapStep, TracerTypeOK, Goto, Location
  <2>4. QED BY <1>6, <2>1, <2>2, <2>3 DEF MapStep, TracerTypeOK
<1>7. CASE Misses(g)
  BY <1>7 DEF TracerTypeOK, Misses, Goto, Location
<1>8. CASE EndsSpan(g)
  BY <1>8 DEF TracerTypeOK, EndsSpan, Goto, Returns, Location
<1>9. CASE Unlocks(g)
  BY <1>9 DEF TracerTypeOK, Unlocks, Goto, Returns, Location
<1>10. QED
  BY <1>1, <1>2, <1>3, <1>4, <1>5, <1>6, <1>7, <1>8, <1>9
  DEF TracerStep, TracerSteps, Locking, Working

\* A step moves its own goroutine only.
LEMMA OthersStay ==
  ASSUME TracerTypeOK, NEW g \in Thread, TracerStep(g), NEW h \in Thread \ {g}
  PROVE  pc'[h] = pc[h] /\ op'[h] = op[h] /\ topic'[h] = topic[h]
BY DEF TracerTypeOK, TracerStep, TracerSteps, Locking, Working, Goto, Returns, Calls, Locks,
       LocksGroups, StartsGroup, UnlocksGroups, MapStep, Misses, EndsSpan, Unlocks

\* The mutexes after a step, if they are right for the goroutine that makes it.
LEMMA MutexesAfter ==
  ASSUME TracerTypeOK, MutexesHeld, NEW g \in Thread, TracerStep(g),
         topicsMx' = topicsMx \/ {topicsMx, topicsMx'} \subseteq {g, Nobody},
         groupsMx' = groupsMx \/ {groupsMx, groupsMx'} \subseteq {g, Nobody},
         MethodAt(pc'[g], op'[g]),
         HoldsTopics(g)' <=> topicsMx' = g,
         HoldsGroups(g)' <=> groupsMx' = g
  PROVE  MutexesHeld'
<1> SUFFICES ASSUME NEW h \in Thread
             PROVE  /\ MethodAt(pc'[h], op'[h])
                    /\ HoldsTopics(h)' <=> topicsMx' = h
                    /\ HoldsGroups(h)' <=> groupsMx' = h
  BY DEF MutexesHeld
<1>1. CASE h = g
  BY <1>1 DEF HoldsTopics, HoldsGroups
<1>2. CASE h # g
  <2>1. pc'[h] = pc[h] /\ op'[h] = op[h]
    BY <1>2, OthersStay
  <2>2. /\ MethodAt(pc[h], op[h])
        /\ HoldsTopics(h) <=> topicsMx = h
        /\ HoldsGroups(h) <=> groupsMx = h
    BY DEF MutexesHeld
  <2>3. (topicsMx' = h <=> topicsMx = h) /\ (groupsMx' = h <=> groupsMx = h)
    BY <1>2, TracerAssumption
  <2>4. QED BY <2>1, <2>2, <2>3 DEF HoldsTopics, HoldsGroups
<1>3. QED BY <1>1, <1>2

\* A mutex is taken when nobody has it and given back by who has it.
LEMMA MutexStep ==
  ASSUME TracerTypeOK, MutexesHeld, NEW g \in Thread, TracerStep(g)
  PROVE  MutexesHeld'
<1> DEFINE Here == /\ MethodAt(pc[g], op[g])
                   /\ HoldsTopics(g) <=> topicsMx = g
                   /\ HoldsGroups(g) <=> groupsMx = g
<1>1. Here /\ pc \in [Thread -> Location] /\ op \in [Thread -> Op \cup {"none"}] /\ g # Nobody
  BY TracerAssumption DEF TracerTypeOK, MutexesHeld
<1> SUFFICES /\ topicsMx' = topicsMx \/ {topicsMx, topicsMx'} \subseteq {g, Nobody}
             /\ groupsMx' = groupsMx \/ {groupsMx, groupsMx'} \subseteq {g, Nobody}
             /\ MethodAt(pc'[g], op'[g])
             /\ HoldsTopics(g)' <=> topicsMx' = g
             /\ HoldsGroups(g)' <=> groupsMx' = g
  BY MutexesAfter
<1> USE <1>1 DEF HoldsTopics, HoldsGroups, MethodAt, Grouped, InGroup, Op, Goto, Returns
<1>2. ASSUME NEW o \in Op, NEW t \in Topic, Calls(g, o, t)
      PROVE  /\ UNCHANGED <<topicsMx, groupsMx>> /\ MethodAt(pc'[g], op'[g])
             /\ (HoldsTopics(g)' <=> topicsMx' = g) /\ (HoldsGroups(g)' <=> groupsMx' = g)
  BY <1>2 DEF Calls
<1>3. CASE Locks(g)
  BY <1>3 DEF Locks
<1>4. CASE LocksGroups(g)
  BY <1>4 DEF LocksGroups
<1>5. CASE StartsGroup(g)
  BY <1>5 DEF StartsGroup
<1>6. CASE UnlocksGroups(g)
  BY <1>6 DEF UnlocksGroups
<1>7. CASE MapStep(g)
  BY <1>7 DEF MapStep
<1>8. CASE Misses(g)
  BY <1>8 DEF Misses
<1>9. CASE EndsSpan(g)
  BY <1>9 DEF EndsSpan
<1>10. CASE Unlocks(g)
  BY <1>10 DEF Unlocks
<1>11. QED
  BY <1>2, <1>3, <1>4, <1>5, <1>6, <1>7, <1>8, <1>9, <1>10
  DEF TracerStep, TracerSteps, Locking, Working

\* Only a goroutine that holds groupsMx starts a span, and the others are not about to.
LEMMA GroupStep ==
  ASSUME TracerTypeOK, MutexesHeld, GroupIsNew, OneSpanPerGroup,
         NEW g \in Thread, TracerStep(g)
  PROVE  GroupIsNew' /\ OneSpanPerGroup'
<1>1. /\ pc \in [Thread -> Location] /\ op \in [Thread -> Op \cup {"none"}]
      /\ groups \in [Group -> Nat]
  BY DEF TracerTypeOK
<1>2. CASE StartsGroup(g)
  <2>1. PICK n \in Group : n = GroupOf(op[g])
    BY GroupOfTyped
  <2>2. groups[n] = 0 /\ groups' = [groups EXCEPT ![n] = @ + 1]
    BY <1>2, <2>1 DEF StartsGroup, GroupIsNew
  <2>3. OneSpanPerGroup'
    BY <1>1, <2>2 DEF OneSpanPerGroup
  <2>4. \A h \in Thread : pc'[h] # "new group"
    <3>1. \A h \in Thread : pc[h] = "new group" => groupsMx = h
      BY DEF MutexesHeld, HoldsGroups
    <3>2. \A h \in Thread : pc[h] = "new group" => h = g
      BY <1>2, <3>1 DEF StartsGroup
    <3>3. QED BY <1>1, <1>2, <3>2 DEF StartsGroup, Goto
  <2>5. QED BY <2>3, <2>4 DEF GroupIsNew
<1>3. CASE ~StartsGroup(g)
  <2>1. groups' = groups
    BY <1>3 DEF TracerStep, TracerSteps, Locking, Working, Calls, Locks, LocksGroups,
                UnlocksGroups, MapStep, Misses, EndsSpan, Unlocks
  <2>2. ASSUME NEW h \in Thread, pc'[h] = "new group"
        PROVE  groups[GroupOf(op'[h])] = 0
    <3>1. CASE pc[h] = "new group" /\ op'[h] = op[h]
      BY <3>1 DEF GroupIsNew
    <3>2. CASE h # g
      BY <2>2, <3>2, OthersStay DEF GroupIsNew
    <3>3. CASE h = g /\ pc[g] # "new group"
      <4>1. LocksGroups(g)
        BY <1>1, <1>3, <2>2, <3>3
        DEF TracerStep, TracerSteps, Locking, Working, Calls, Locks,
            UnlocksGroups, MapStep, Misses, EndsSpan, Unlocks, Goto, Returns
      <4>2. QED BY <1>1, <2>2, <3>3, <4>1 DEF LocksGroups, Goto
    <3>4. CASE h = g /\ pc[g] = "new group"
      BY <1>1, <1>3, <3>4
      DEF TracerStep, TracerSteps, Locking, Working, Calls, Locks, LocksGroups,
          UnlocksGroups, MapStep, Misses, EndsSpan, Unlocks
    <3>5. QED BY <3>1, <3>2, <3>3, <3>4
  <2>3. QED BY <2>1, <2>2 DEF GroupIsNew, OneSpanPerGroup
<1>4. QED BY <1>2, <1>3

\* Only a goroutine that holds topicsMx writes the map, and the others are not between
\* their look-up and the end of their span.
LEMMA EventStep ==
  ASSUME TracerTypeOK, MutexesHeld, EventKnown, NEW g \in Thread, TracerStep(g)
  PROVE  EventKnown'
<1>1. pc \in [Thread -> Location] /\ op \in [Thread -> Op \cup {"none"}]
  BY DEF TracerTypeOK
<1> SUFFICES ASSUME NEW h \in Thread, pc'[h] = "span", op'[h] = "topic event"
             PROVE  topic'[h] \in topics'
  BY DEF EventKnown
<1>2. CASE h # g
  <2>1. pc[h] = "span" /\ op[h] = "topic event" /\ topic'[h] = topic[h]
    BY <1>2, OthersStay
  <2>2. topicsMx = h
    BY <2>1 DEF MutexesHeld, HoldsTopics
  <2>3. ~MapStep(g)
    BY <1>2, <2>2 DEF MapStep, MutexesHeld, HoldsTopics, MethodAt
  <2>4. topics' = topics
    BY <2>3 DEF TracerStep, TracerSteps, Locking, Working, Calls, Locks, LocksGroups,
                StartsGroup, UnlocksGroups, Misses, EndsSpan, Unlocks
  <2>5. QED BY <2>1, <2>4 DEF EventKnown
<1>3. CASE h = g
  <2>1. MapStep(g)
    <3>1. MethodAt(pc[g], op[g])
      BY DEF MutexesHeld
    <3>2. QED
      BY <1>1, <1>3, <3>1
      DEF TracerStep, TracerSteps, Locking, Working, Calls, Locks, LocksGroups, MethodAt,
          InGroup, Grouped, StartsGroup, UnlocksGroups, Misses, EndsSpan, Unlocks, Goto, Returns
  <2>2. QED BY <1>1, <1>3, <2>1 DEF MapStep, Goto
<1>4. QED BY <1>2, <1>3

\* Joins and leaves alternate per topic and take their places in turn.
LEMMA AlternateStep ==
  ASSUME TracerTypeOK, MutexesHeld, JoinsAlternate, NEW g \in Thread, TracerStep(g)
  PROVE  JoinsAlternate'
<1>1. /\ pc \in [Thread -> Location] /\ op \in [Thread -> Op \cup {"none"}]
      /\ topic \in [Thread -> Topic] /\ Loop \in Thread
      /\ \A h \in Thread : MethodAt(pc[h], op[h])
  BY TracerAssumption DEF TracerTypeOK, MutexesHeld
<1>2. ASSUME NEW o \in Op, NEW t \in Topic, Calls(g, o, t) PROVE JoinsAlternate'
  BY <1>1, <1>2 DEF JoinsAlternate, Calls, Goto, MethodAt, InGroup
<1>3. CASE MapStep(g)
  <2>1. joined' = joined /\ op' = op /\ topic' = topic
    BY <1>3 DEF MapStep
  <2>2. CASE op[g] \in {"Join", "Leave"}
    BY <1>1, <1>3, <2>1, <2>2 DEF JoinsAlternate, MapStep, Goto
  <2>3. CASE op[g] \notin {"Join", "Leave"}
    <3>1. topics' = topics
      BY <1>3, <2>3 DEF MapStep
    <3>2. g = Loop => op[Loop] \notin {"Join", "Leave"}
      BY <2>3
    <3>3. g # Loop => pc'[Loop] = pc[Loop]
      BY <1>1, OthersStay
    <3>4. QED BY <2>1, <3>1, <3>2, <3>3 DEF JoinsAlternate
  <2>4. \A n \in Nat : n = 1 => n > 0
    OBVIOUS
  <2>5. QED BY <2>2, <2>3, <2>4
<1>4. CASE Misses(g)
  BY <1>1, <1>4 DEF JoinsAlternate, Misses, Goto
<1>5. CASE Unlocks(g)
  BY <1>1, <1>5 DEF JoinsAlternate, Unlocks, Goto, Returns
<1>6. CASE EndsSpan(g)
  BY <1>1, <1>6 DEF JoinsAlternate, EndsSpan, Goto, Returns, MethodAt, InGroup, Grouped
<1>7. CASE Locks(g)
  BY <1>1, <1>7 DEF JoinsAlternate, Locks, Goto
<1>8. CASE LocksGroups(g)
  BY <1>1, <1>8 DEF JoinsAlternate, LocksGroups, Goto, MethodAt, InGroup, Grouped
<1>9. CASE StartsGroup(g)
  BY <1>1, <1>9 DEF JoinsAlternate, StartsGroup, Goto, MethodAt, InGroup, Grouped
<1>10. CASE UnlocksGroups(g)
  BY <1>1, <1>10 DEF JoinsAlternate, UnlocksGroups, Goto, MethodAt, InGroup, Grouped
<1>11. QED
  BY <1>2, <1>3, <1>4, <1>5, <1>6, <1>7, <1>8, <1>9, <1>10
  DEF TracerStep, TracerSteps, Locking, Working

\* Nothing but the step at the map opens or ends a topic span.
LEMMA SpansStep ==
  ASSUME TracerTypeOK, MutexesHeld, JoinsAlternate, OpenSpansKnown,
         NEW g \in Thread, TracerStep(g)
  PROVE  OpenSpansKnown'
<1>1. topic \in [Thread -> Topic] /\ topics \subseteq Topic /\ open \in [Topic -> Nat]
  BY DEF TracerTypeOK
<1>2. CASE MapStep(g)
  <2>1. CASE op[g] = "Join"
    <3>1. g = Loop /\ topic[g] \notin topics
      BY <1>2, <2>1 DEF JoinsAlternate, MapStep
    <3>2. open[topic[g]] = 0
      BY <1>1, <3>1 DEF OpenSpansKnown
    <3>3. /\ topics' = topics \cup {topic[g]} /\ ended' = ended
          /\ open' = [open EXCEPT ![topic[g]] = @ + 1]
      BY <1>2, <2>1 DEF MapStep
    <3>4. QED BY <1>1, <3>2, <3>3 DEF OpenSpansKnown
  <2>2. CASE op[g] = "Leave"
    <3>1. topics' = topics \ {topic[g]} /\ ended' = ended /\ Ends(topic[g])
      BY <1>2, <2>2 DEF MapStep
    <3>2. topic[g] \in Topic /\ open[topic[g]] \in {0, 1}
      BY <1>1 DEF OpenSpansKnown
    <3>3. \A t \in Topic : open'[t] = IF t = topic[g] THEN 0 ELSE open[t]
      BY <1>1, <3>1, <3>2 DEF Ends
    <3>4. ASSUME NEW t \in Topic
          PROVE  /\ open'[t] <= 1 /\ (open'[t] = 1 => t \in topics')
                 /\ (~ended' /\ t \in topics' => open'[t] = 1)
      <4>1. CASE t = topic[g]
        BY <3>1, <3>3, <4>1
      <4>2. CASE t # topic[g]
        BY <3>1, <3>3, <4>2 DEF OpenSpansKnown
      <4>3. QED BY <4>1, <4>2
    <3>5. QED BY <3>4 DEF OpenSpansKnown
  <2>3. CASE op[g] = "topic event"
    <3>1. UNCHANGED <<topics, open, ended>>
      BY <1>2, <2>3 DEF MapStep
    <3>2. QED BY <3>1 DEF OpenSpansKnown
  <2>4. CASE op[g] = "End"
    BY <1>1, <1>2, <2>4 DEF MapStep, OpenSpansKnown
  <2>5. QED BY <1>2, <2>1, <2>2, <2>3, <2>4 DEF MapStep
<1>3. CASE ~MapStep(g)
  <2>1. UNCHANGED <<open, topics, ended>>
    BY <1>3 DEF TracerStep, TracerSteps, Locking, Working, Calls, Locks, LocksGroups,
                StartsGroup, UnlocksGroups, Misses, EndsSpan, Unlocks
  <2>2. QED BY <2>1 DEF OpenSpansKnown
<1>4. QED BY <1>2, <1>3

\* Every step of the tracer keeps its invariant.
LEMMA TracerInvStep ==
  ASSUME TracerInv, NEW g \in Thread, TracerStep(g)
  PROVE  TracerInv'
BY TracerTypeStep, MutexStep, GroupStep, EventStep, AlternateStep, SpansStep DEF TracerInv

\* So does a step of something else.
LEMMA TracerStutter == TracerInv /\ UNCHANGED vars => TracerInv'
<1> SUFFICES ASSUME TracerInv, UNCHANGED vars PROVE TracerInv'
  OBVIOUS
<1> USE DEF TracerInv, vars
<1>1. TracerTypeOK' /\ MutexesHeld'
  BY DEF TracerTypeOK, MutexesHeld, HoldsTopics, HoldsGroups
<1>2. GroupIsNew' /\ OneSpanPerGroup' /\ EventKnown'
  BY DEF GroupIsNew, OneSpanPerGroup, EventKnown
<1>3. JoinsAlternate'
  BY DEF JoinsAlternate
<1>4. OpenSpansKnown'
  BY DEF OpenSpansKnown
<1>5. QED BY <1>1, <1>2, <1>3, <1>4

-----------------------------------------------------------------------------
(* The test harness *)

\* The two goroutines of the harness are two.
LEMMA HarnessDistinct ==
  /\ Main \in Thread /\ Timer \in Thread /\ Main # Timer
  /\ Main \in Harness /\ Timer \in Harness
BY MainAssumption DEF Harness

\* Whatever the program does, the tracer makes a step of its own or none.
LEMMA TracerPart ==
  ASSUME MainNext
  PROVE  UNCHANGED vars \/ \E g \in Thread : TracerStep(g)
<1>1. CASE StartTest \/ BatcherExports
  BY <1>1 DEF StartTest, BatcherExports
<1>2. ASSUME NEW g \in Thread, PubsubCalls(g) \/ TracerSteps(g)
      PROVE  TracerStep(g)
  BY <1>2 DEF PubsubCalls, TracerStep
<1>3. ASSUME NEW h \in Harness, Wakes(h) \/ Disposes(h)
      PROVE  UNCHANGED vars \/ TracerStep(h)
  <2>1. CASE CallsEnd(h)
    BY <2>1 DEF CallsEnd, TracerStep, Op
  <2>2. CASE ~CallsEnd(h)
    BY <1>3, <2>2 DEF Wakes, Disposes, TestsDisposed, EndsTopSpans, FlushesSpans, ShutsDown, Exits
  <2>3. QED BY <2>1, <2>2
<1>4. QED BY <1>1, <1>2, <1>3, HarnessDistinct DEF MainNext, Harness

\* Whatever the program does, the invariant of the tracer holds.
LEMMA TracerKept == TracerInv /\ [MainNext]_allVars => TracerInv'
BY TracerPart, TracerInvStep, TracerStutter DEF allVars

\* What a step of the harness does, and that nothing else changes its state.
LEMMA HarnessStep ==
  ASSUME HarnessInv, [MainNext]_allVars
  PROVE  HarnessInv'
<1> USE HarnessDistinct
    DEF HarnessInv, HarnessTypeOK, FlagFirst, AllEnded, LostOnlyByExport,
        Ended, Flushed, Disposing, Harness
<1>1. CASE UNCHANGED harness
  BY <1>1 DEF harness
<1>2. CASE exit = "none" /\ StartTest
  BY <1>2 DEF StartTest
<1>3. CASE exit = "none" /\ BatcherExports
  BY <1>3 DEF BatcherExports, Exports
<1>4. ASSUME exit = "none", NEW h \in Harness, Wakes(h) PROVE HarnessInv'
  BY <1>4 DEF Wakes, Moves
<1>5. ASSUME exit = "none", NEW h \in Harness, TestsDisposed(h) PROVE HarnessInv'
  BY <1>5 DEF TestsDisposed, Moves
<1>6. ASSUME exit = "none", NEW h \in Harness, CallsEnd(h) PROVE HarnessInv'
  BY <1>6 DEF CallsEnd, Moves
<1>7. ASSUME exit = "none", NEW h \in Harness, EndsTopSpans(h) PROVE HarnessInv'
  BY <1>7 DEF EndsTopSpans, Moves
<1>8. ASSUME exit = "none", NEW h \in Harness, FlushesSpans(h) PROVE HarnessInv'
  BY <1>8 DEF FlushesSpans, Moves, Exports
<1>9. ASSUME exit = "none", NEW h \in Harness, ShutsDown(h) PROVE HarnessInv'
  BY <1>9 DEF ShutsDown, Moves, Exports
<1>10. ASSUME exit = "none", NEW h \in Harness, Exits(h) PROVE HarnessInv'
  BY <1>10 DEF Exits, Moves
<1>11. QED
  BY <1>1, <1>2, <1>3, <1>4, <1>5, <1>6, <1>7, <1>8, <1>9, <1>10
  DEF MainNext, Disposes, PubsubCalls, allVars, harness

\* The invariant of the program holds at the start.
LEMMA MainInit_MainInv == MainInit => MainInv
<1> SUFFICES ASSUME MainInit PROVE MainInv
  OBVIOUS
<1>1. TracerInv
  BY TracerInit DEF MainInit
<1>2. HarnessInv
  BY HarnessDistinct
  DEF MainInit, HarnessInv, HarnessTypeOK, FlagFirst, AllEnded, LostOnlyByExport,
      Ended, Flushed, Disposing, Harness
<1>3. QED BY <1>1, <1>2 DEF MainInv

\* Every step of the program keeps it.
LEMMA MainInvStep == MainInv /\ [MainNext]_allVars => MainInv'
BY TracerKept, HarnessStep DEF MainInv

-----------------------------------------------------------------------------
(* Theorems *)

\* The mutexes of the tracer exclude, its map follows what pubsub has joined, and the
\* flag of the harness is respected: the inductive invariant of the program.
THEOREM MainInvariance == MainSpec => []MainInv
<1>1. MainInit => MainInv
  BY MainInit_MainInv
<1>2. MainInv /\ [MainNext]_allVars => MainInv'
  BY MainInvStep
<1>3. QED BY <1>1, <1>2, PTL DEF MainSpec

\* Two goroutines are never both between lock and unlock of a mutex, and a goroutine
\* that waits for topicsMx holds no mutex: the two are taken in one order
\* (psmon_pubsub.go: every method locks topicsMx before getGroupCtx locks groupsMx).
LockOrder ==
  \A g, h \in Thread :
    /\ HoldsTopics(g) /\ HoldsTopics(h) => g = h
    /\ HoldsGroups(g) /\ HoldsGroups(h) => g = h
    /\ pc[g] = "lock" => topicsMx # g /\ groupsMx # g
    /\ pc[g] = "group" => groupsMx # g

\* Whoever waits for a mutex of the tracer holds none that comes after it: topicsMx is
\* taken before groupsMx (LockOrder).
THEOREM LocksOrdered == MainSpec => []LockOrder
<1>1. MainInv => LockOrder
  BY DEF MainInv, TracerInv, MutexesHeld, LockOrder, HoldsTopics, HoldsGroups
<1>2. QED BY <1>1, MainInvariance, PTL

\* An event is recorded within the span of its topic.
THEOREM EventsWithinTopics == MainSpec => []EventWithinTopic
<1>1. ASSUME MainInv PROVE \A t \in topics : open[t] > 0 \/ ended
  <2>1. \A t \in topics : open[t] \in Nat /\ (ended \/ open[t] = 1)
    BY <1>1 DEF MainInv, TracerInv, TracerTypeOK, OpenSpansKnown
  <2>2. QED BY <2>1
<1>2. ASSUME MainInv PROVE EventWithinTopic
  BY <1>1, <1>2 DEF MainInv, TracerInv, EventKnown, EventWithinTopic
<1>3. QED BY <1>2, MainInvariance, PTL

\* A group's span is started once, by whichever goroutine asks first.
THEOREM GroupSpansOnce == MainSpec => []OneSpanPerGroup
<1>1. MainInv => OneSpanPerGroup
  BY DEF MainInv, TracerInv
<1>2. QED BY <1>1, MainInvariance, PTL

\* No topic span is lost: Leave and End find every open one in the map.
THEOREM NoSpanLost == MainSpec => []OpenSpansKnown
<1>1. MainInv => OpenSpansKnown
  BY DEF MainInv, TracerInv
<1>2. QED BY <1>1, MainInvariance, PTL

\* A process that ends complete has exported the spans of all its tests, or an export
\* failed: no interleaving of the two goroutines of RunTestMain loses one.
THEOREM TestsExported == MainSpec => []LostOnlyByExport
<1>1. MainInv => LostOnlyByExport
  BY DEF MainInv, HarnessInv
<1>2. QED BY <1>1, MainInvariance, PTL
=============================================================================
