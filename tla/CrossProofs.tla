---------------------------- MODULE CrossProofs -----------------------------
(***************************************************************************)
(* The counts and the states of a topic, and what the waits of the         *)
(* machines may cost, for every number of peers.                           *)
(***************************************************************************)
EXTENDS CrossEval, SequenceTheorems, FiniteSetTheorems, TLAPS

Mutation == {"JoiningTopic", "LeavingTopic", "TopicJoined", "TopicLeft", "SendingMsgs", "MsgsSent"}
Job      == {"TopicJoined", "SendingMsgs", "MsgsSent"}

Has(s, m) == \E i \in DOMAIN s : s[i] = m
Once(s)   == \A i, j \in DOMAIN s : s[i] = "TopicJoined" /\ s[j] = "TopicJoined" => i = j

\* Peaking stands on HasPeers, and a machine that was ever indexed is Stale unless
\* Active or Peaking keeps it out.
Shape(a) ==
  /\ "Peaking" \in a => "HasPeers" \in a
  /\ "Stale" \in a => "Active" \notin a /\ "Peaking" \notin a
  /\ a # {} /\ "Active" \notin a /\ "Peaking" \notin a => "Stale" \in a

\* The states of the topic's machine agree with its indexes.
TopicInv ==
  /\ active \in SUBSET States /\ peersCount \in Int /\ recent \in Nat /\ old \in Nat
  /\ Shape(active)
  /\ CountStatesExact
  /\ "Stale" \in active => recent = 0

CrossTypeOK ==
  /\ exists \in BOOLEAN /\ removed \in BOOLEAN
  /\ post \in {"none", "JoiningTopic", "LeavingTopic"} /\ todo \subseteq Peer
  /\ todo # {} => post # "none"
  /\ listed \subseteq Peer
  /\ inbox \in [Peer -> Seq(Mutation)] /\ jobs \in [Peer -> SUBSET Job]
  /\ changes \in [{-1, 1} -> Nat]
  /\ open \subseteq Peer /\ IsFiniteSet(open)

\* Whoever waits for the simulator, or has timed out, has sent messages.
WaitsAreSends == wait # {} => sent

\* Before the topic is removed for the first time nobody is told to leave it, and
\* a join is reported once: by the one who opened the handle.
Pending == {p \in open : "TopicJoined" \in jobs[p] \/ Has(inbox[p], "TopicJoined")}
JoinsOnly ==
  /\ exists /\ post # "LeavingTopic" /\ changes[-1] = 0
  /\ \A p \in Peer :
       /\ ~Has(inbox[p], "LeavingTopic") /\ ~Has(inbox[p], "TopicLeft")
       /\ Once(inbox[p])
       /\ "TopicJoined" \in jobs[p] => ~Has(inbox[p], "TopicJoined")
       /\ "TopicJoined" \in jobs[p] \/ Has(inbox[p], "TopicJoined") => p \in open
JoinsCounted ==
  /\ peersCount >= 0
  /\ peersCount + changes[1] + Cardinality(Pending) <= Cardinality(open)

CrossInv == /\ TopicInv /\ CrossTypeOK /\ WaitsAreSends /\ OnlySendsLose
            /\ ~removed => JoinsOnly /\ JoinsCounted

-----------------------------------------------------------------------------
(* The machine of a topic *)

\* A set of states, by its members.
Like(b, stale, hasPeers, act, peaking) ==
  /\ b \in SUBSET States
  /\ ("Stale" \in b <=> stale) /\ ("HasPeers" \in b <=> hasPeers)
  /\ ("Active" \in b <=> act) /\ ("Peaking" \in b <=> peaking)

\* A set of the topic's states is known by its four members.
LEMMA SameMembers ==
  ASSUME NEW a \in SUBSET States, NEW b \in SUBSET States
  PROVE  /\ a = b <=> Like(b, "Stale" \in a, "HasPeers" \in a, "Active" \in a, "Peaking" \in a)
         /\ a # {} <=> "Stale" \in a \/ "HasPeers" \in a \/ "Active" \in a \/ "Peaking" \in a
<1>1. \A s \in States : s = "Stale" \/ s = "HasPeers" \/ s = "Active" \/ s = "Peaking"
  BY DEF States
<1>2. Like(b, "Stale" \in a, "HasPeers" \in a, "Active" \in a, "Peaking" \in a) => a = b
  <2> SUFFICES ASSUME Like(b, "Stale" \in a, "HasPeers" \in a, "Active" \in a, "Peaking" \in a)
      PROVE  \A s \in States : s \in a <=> s \in b
    OBVIOUS
  <2>1. QED BY <1>1 DEF Like
<1>3. a = b => Like(b, "Stale" \in a, "HasPeers" \in a, "Active" \in a, "Peaking" \in a)
  BY DEF Like
<1>4. a # {} <=> "Stale" \in a \/ "HasPeers" \in a \/ "Active" \in a \/ "Peaking" \in a
  BY <1>1
<1>5. QED BY <1>2, <1>3, <1>4

\* What the relations of ss_topic.go come to: Peaking requires HasPeers, and Active
\* and Peaking remove Stale.
LEMMA Relations ==
  ASSUME NEW S \in SUBSET States, NEW by \in SUBSET States
  PROVE  /\ Like(Machine!Satisfied(S), "Stale" \in S, "HasPeers" \in S, "Active" \in S,
                 "Peaking" \in S /\ "HasPeers" \in S)
         /\ Like(Machine!Without(S, by), "Stale" \in S /\ "Active" \notin by /\ "Peaking" \notin by,
                 "HasPeers" \in S, "Active" \in S, "Peaking" \in S)
         /\ Machine!WithAdded(S) = S
<1> DEFINE Req == [Nothing EXCEPT !["Peaking"] = {"HasPeers"}]
           Rem == [Nothing EXCEPT !["Active"] = {"Stale"}, !["Peaking"] = {"Stale"}]
<1>1. \A s \in States : Nothing[s] = {}
  BY DEF Nothing
<1>2. \A s \in States : Req[s] = IF s = "Peaking" THEN {"HasPeers"} ELSE {}
  BY DEF Nothing, States
<1>3. \A s \in States : Rem[s] = IF s = "Peaking" \/ s = "Active" THEN {"Stale"} ELSE {}
  BY DEF Nothing, States
<1>4. \A T \in SUBSET States : Machine!Supported(T) = {s \in T : s = "Peaking" => "HasPeers" \in T}
  BY <1>2 DEF Machine!Supported
<1>5. Machine!Satisfied(S) = {s \in S : s = "Peaking" => "HasPeers" \in S}
  BY <1>4 DEF Machine!Satisfied
<1>6. ASSUME NEW s \in S
      PROVE  (\A r \in by \ {s} : s \notin Rem[r]) <=>
               (s = "Stale" => "Active" \notin by /\ "Peaking" \notin by)
  <2> HIDE DEF Rem
  <2>1. CASE s = "Stale"
    <3>1. \A r \in by : s \in Rem[r] <=> r = "Peaking" \/ r = "Active"
      BY <1>3, <2>1
    <3>2. "Peaking" # s /\ "Active" # s
      BY <2>1
    <3>3. QED BY <2>1, <3>1, <3>2
  <2>2. CASE s # "Stale"
    BY <1>3, <2>2
  <2>3. QED BY <2>1, <2>2
<1>7. Machine!Without(S, by) = {s \in S : \A r \in by \ {s} : s \notin Rem[r]}
  BY DEF Machine!Without
<1>8. Machine!WithAdded(S) = S
  BY <1>1 DEF Machine!WithAdded
<1> HIDE DEF Rem
<1>9. Machine!Without(S, by) =
        {s \in S : s = "Stale" => "Active" \notin by /\ "Peaking" \notin by}
  BY <1>6, <1>7
<1>10. QED BY <1>5, <1>8, <1>9 DEF Like

\* A topic machine falls back to Stale.
LEMMA AutoStale ==
  ASSUME NEW a \in SUBSET States, "Peaking" \in a => "HasPeers" \in a
  PROVE  Like(Machine!AutoTarget(a), "Stale" \in a \/ ("Active" \notin a /\ "Peaking" \notin a),
              "HasPeers" \in a, "Active" \in a, "Peaking" \in a)
<1> DEFINE Rem  == [Nothing EXCEPT !["Active"] = {"Stale"}, !["Peaking"] = {"Stale"}]
           free == {s \in {"Stale"} \ a : \A r \in a : s \notin Rem[r]}
           new  == free \cap Machine!Satisfied(a \cup free)
           full == a \cup new
           kept == Machine!Without(full, new)
<1>1. \A s \in States : Rem[s] = IF s = "Peaking" \/ s = "Active" THEN {"Stale"} ELSE {}
  BY DEF Nothing, States
<1>2. Machine!AutoTarget(a) = Machine!Satisfied(kept)
  BY DEF Machine!AutoTarget
<1> HIDE DEF Rem
<1>3. free = IF "Stale" \in a \/ "Active" \in a \/ "Peaking" \in a THEN {} ELSE {"Stale"}
  BY <1>1
<1>4. "Stale" \in States
  BY DEF States
<1> HIDE DEF free
<1>5. new = free
  <2> DEFINE S == a \cup free
  <2>1. S \in SUBSET States /\ ("Stale" \in S <=> "Stale" \in a \/ "Stale" \in free)
    BY <1>3, <1>4
  <2> HIDE DEF S
  <2>2. "Stale" \in Machine!Satisfied(S) <=> "Stale" \in S
    BY <2>1, Relations DEF Like
  <2>3. free \subseteq {"Stale"}
    BY <1>3
  <2>4. QED BY <2>1, <2>2, <2>3 DEF S
<1> HIDE DEF new
<1>6. /\ full \in SUBSET States /\ new \in SUBSET States
      /\ Like(full, "Stale" \in a \/ ("Active" \notin a /\ "Peaking" \notin a),
              "HasPeers" \in a, "Active" \in a, "Peaking" \in a)
      /\ "Active" \notin new /\ "Peaking" \notin new
  BY <1>3, <1>4, <1>5 DEF Like
<1> HIDE DEF full
<1>7. /\ kept \in SUBSET States
      /\ Like(kept, "Stale" \in a \/ ("Active" \notin a /\ "Peaking" \notin a),
              "HasPeers" \in a, "Active" \in a, "Peaking" \in a)
  BY <1>6, Relations DEF Like
<1> HIDE DEF kept
<1>8. QED BY <1>2, <1>7, Relations DEF Like

\* One Add1 or Remove1 of IndexesToStates sets its state, and no other but Stale,
\* except that Peaking goes, and cannot come, without HasPeers.
LEMMA SetShape ==
  ASSUME NEW a \in SUBSET States, Shape(a), NEW on \in BOOLEAN,
         NEW name \in {"HasPeers", "Peaking", "Active"}
  PROVE  /\ Set(a, name, on) \in SUBSET States /\ Shape(Set(a, name, on))
         /\ name \in Set(a, name, on) <=> on /\ (name = "Peaking" => "HasPeers" \in a)
         /\ name # "HasPeers" => ("HasPeers" \in Set(a, name, on) <=> "HasPeers" \in a)
         /\ name = "Active" => ("Peaking" \in Set(a, name, on) <=> "Peaking" \in a)
<1> DEFINE Result(b) ==
      /\ b \in SUBSET States /\ Shape(b)
      /\ name \in b <=> on /\ (name = "Peaking" => "HasPeers" \in a)
      /\ name # "HasPeers" => ("HasPeers" \in b <=> "HasPeers" \in a)
      /\ name = "Active" => ("Peaking" \in b <=> "Peaking" \in a)
<1>1. {name} \in SUBSET States /\ a \cup {name} \in SUBSET States /\ a \ {name} \in SUBSET States
  BY DEF States
<1>2. CASE on
  <2> DEFINE more == a \cup {name}
             kept == Machine!Without(more, {name})
             t    == Machine!Satisfied(kept)
  <2>1. /\ more \in SUBSET States
        /\ Like(more, "Stale" \in a, "HasPeers" \in a \/ name = "HasPeers",
                "Active" \in a \/ name = "Active", "Peaking" \in a \/ name = "Peaking")
    BY <1>1 DEF Like
  <2>2. Machine!AddTarget(a, {name}) = t
    BY <1>1, Relations DEF Machine!AddTarget
  <2>3. Set(a, name, on) = IF name \notin t THEN a
                           ELSE IF t = a THEN a ELSE Machine!AutoTarget(t)
    BY <1>2, <2>2 DEF Set, Machine!AfterAdd, Machine!Accepted, Machine!Settle
  <2> HIDE DEF more
  <2>4. /\ kept \in SUBSET States
        /\ Like(kept, "Stale" \in more /\ name = "HasPeers",
                "HasPeers" \in more, "Active" \in more, "Peaking" \in more)
    <3>1. ("Active" \in {name} <=> name = "Active") /\ ("Peaking" \in {name} <=> name = "Peaking")
      OBVIOUS
    <3>2. QED BY <1>1, <2>1, <3>1, Relations DEF Like
  <2> HIDE DEF kept
  <2>5. /\ t \in SUBSET States
        /\ Like(t, "Stale" \in kept, "HasPeers" \in kept, "Active" \in kept,
                "Peaking" \in kept /\ "HasPeers" \in kept)
    BY <2>4, Relations DEF Like
  <2> HIDE DEF t
  <2>6. Like(Machine!AutoTarget(t), "Stale" \in t \/ ("Active" \notin t /\ "Peaking" \notin t),
             "HasPeers" \in t, "Active" \in t, "Peaking" \in t)
    BY <2>5, AutoStale DEF Like
  <2>7. t = a <=> Like(a, "Stale" \in t, "HasPeers" \in t, "Active" \in t, "Peaking" \in t)
    BY <2>5, SameMembers
  <2> DEFINE auto == Machine!AutoTarget(t)
  <2>8. /\ auto \in SUBSET States
        /\ auto # {} <=> "Stale" \in auto \/ "HasPeers" \in auto \/ "Active" \in auto \/ "Peaking" \in auto
        /\ a # {} <=> "Stale" \in a \/ "HasPeers" \in a \/ "Active" \in a \/ "Peaking" \in a
    BY <2>6, SameMembers DEF Like
  <2> HIDE DEF auto
  <2>9. QED
    <3>1. CASE name = "HasPeers"
      BY <1>2, <2>1, <2>3, <2>4, <2>5, <2>6, <2>7, <2>8, <3>1 DEF Shape, Like, auto
    <3>2. CASE name = "Peaking"
      BY <1>2, <2>1, <2>3, <2>4, <2>5, <2>6, <2>7, <2>8, <3>2 DEF Shape, Like, auto
    <3>3. CASE name = "Active"
      BY <1>2, <2>1, <2>3, <2>4, <2>5, <2>6, <2>7, <2>8, <3>3 DEF Shape, Like, auto
    <3>4. QED BY <3>1, <3>2, <3>3
<1>3. CASE ~on
  <2> DEFINE less == a \ {name}
             t    == Machine!Satisfied(less)
             auto == Machine!AutoTarget(t)
  <2>1. /\ less \in SUBSET States
        /\ Like(less, "Stale" \in a, "HasPeers" \in a /\ name # "HasPeers",
                "Active" \in a /\ name # "Active", "Peaking" \in a /\ name # "Peaking")
    BY <1>1 DEF Like
  <2>2. Set(a, name, on) = IF t = a THEN a ELSE auto
    BY <1>3 DEF Set, Machine!AfterRemove, Machine!RemoveTarget, Machine!Settle
  <2> HIDE DEF less
  <2>3. /\ t \in SUBSET States
        /\ Like(t, "Stale" \in less, "HasPeers" \in less, "Active" \in less,
                "Peaking" \in less /\ "HasPeers" \in less)
    BY <2>1, Relations DEF Like
  <2> HIDE DEF t
  <2>4. Like(auto, "Stale" \in t \/ ("Active" \notin t /\ "Peaking" \notin t),
             "HasPeers" \in t, "Active" \in t, "Peaking" \in t)
    BY <2>1, <2>3, AutoStale DEF Like
  <2> HIDE DEF auto
  <2>5. t = a <=> Like(a, "Stale" \in t, "HasPeers" \in t, "Active" \in t, "Peaking" \in t)
    BY <2>3, SameMembers
  <2>6. /\ auto \in SUBSET States
        /\ auto # {} <=> "Stale" \in auto \/ "HasPeers" \in auto \/ "Active" \in auto \/ "Peaking" \in auto
        /\ a # {} <=> "Stale" \in a \/ "HasPeers" \in a \/ "Active" \in a \/ "Peaking" \in a
    BY <2>4, SameMembers DEF Like
  <2>7. QED
    <3>1. CASE name = "HasPeers"
      BY <1>3, <2>1, <2>2, <2>3, <2>4, <2>5, <2>6, <3>1 DEF Shape, Like
    <3>2. CASE name = "Peaking"
      BY <1>3, <2>1, <2>2, <2>3, <2>4, <2>5, <2>6, <3>2 DEF Shape, Like
    <3>3. CASE name = "Active"
      BY <1>3, <2>1, <2>2, <2>3, <2>4, <2>5, <2>6, <3>3 DEF Shape, Like
    <3>4. QED BY <3>1, <3>2, <3>3
<1>4. QED BY <1>2, <1>3

\* IndexesToStates derives the states from the indexes, whatever they were before.
LEMMA IndexedExact ==
  ASSUME NEW a \in SUBSET States, Shape(a), NEW count \in Int, NEW log \in Nat
  PROVE  LET b == Indexed(a, count, log) IN
         /\ b \in SUBSET States /\ Shape(b)
         /\ "HasPeers" \in b <=> count # 0
         /\ "Peaking" \in b <=> count >= TopicPeakingMinPeers
         /\ "Active" \in b <=> log # 0
<1> DEFINE h == Set(a, "HasPeers", count # 0)
           k == Set(h, "Peaking", count >= TopicPeakingMinPeers)
           b == Set(k, "Active", log # 0)
<1>1. h \in SUBSET States /\ Shape(h) /\ ("HasPeers" \in h <=> count # 0)
  BY SetShape
<1> HIDE DEF h
<1>2. /\ k \in SUBSET States /\ Shape(k)
      /\ "Peaking" \in k <=> count >= TopicPeakingMinPeers /\ "HasPeers" \in h
      /\ "HasPeers" \in k <=> "HasPeers" \in h
  <2>1. (count >= TopicPeakingMinPeers) \in BOOLEAN
    OBVIOUS
  <2>2. QED BY <1>1, <2>1, SetShape
<1> HIDE DEF k
<1>3. /\ b \in SUBSET States /\ Shape(b)
      /\ "Active" \in b <=> log # 0
      /\ "HasPeers" \in b <=> "HasPeers" \in k
      /\ "Peaking" \in b <=> "Peaking" \in k
  BY <1>2, SetShape
<1>4. count >= TopicPeakingMinPeers => count # 0
  BY TopicAssumption
<1>5. Indexed(a, count, log) = b
  BY DEF Indexed, h, k
<1> HIDE DEF b
<1>6. QED BY <1>1, <1>2, <1>3, <1>4, <1>5

-----------------------------------------------------------------------------
(* The topic *)

\* What touches the topic: a new topic, an Eval, or the window passing by.
LEMMA TopicMoves ==
  ASSUME [CrossNext]_allVars
  PROVE  \/ UNCHANGED topicVars
         \/ active' = {} /\ peersCount' = 0 /\ recent' = 0 /\ old' = 0
         \/ Msgs \/ WindowPasses \/ \E d \in {-1, 1} : PeerChange(d)
<1>1. CASE UNCHANGED allVars
  BY <1>1 DEF allVars
<1>2. CASE RemoveTopicState \/ TimePasses
  BY <1>2 DEF RemoveTopicState, TimePasses
<1>3. ASSUME NEW P \in SUBSET Peer \ {{}}, AddTopicState(P) \/ PeakRandTopicState(P)
      PROVE  UNCHANGED topicVars \/ (active' = {} /\ peersCount' = 0 /\ recent' = 0 /\ old' = 0)
  BY <1>3 DEF AddTopicState, PeakRandTopicState
<1>4. ASSUME NEW p \in Peer, SimStep(p) \/ SimPosts(p) \/ Drained(p) \/ MsgsEvalTimesOut(p)
      PROVE  UNCHANGED topicVars
  BY <1>4
  DEF SimStep, JoinTopicState, MsgRandomTopicState, SimPosts, Drained, MsgsEvalTimesOut
<1>5. ASSUME NEW p \in Peer, PeerHandles(p) \/ \E m \in Job : JobPosts(p, m)
      PROVE  UNCHANGED topicVars
  BY <1>5 DEF PeerHandles, JobPosts
<1>6. ASSUME NEW p \in Peer, MsgsEval(p) PROVE UNCHANGED topicVars \/ Msgs
  BY <1>6 DEF MsgsEval
<1>7. ASSUME NEW d \in {-1, 1}, ChangeEval(d) \/ ChangeEvalTimesOut(d)
      PROVE  UNCHANGED topicVars \/ PeerChange(d)
  BY <1>7 DEF ChangeEval, ChangeEvalTimesOut
<1>8. QED
  BY <1>1, <1>2, <1>3, <1>4, <1>5, <1>6, <1>7 DEF CrossNext, TimePasses, Job

\* Every step keeps the invariant of the topic's machine.
LEMMA TopicStep ==
  ASSUME TopicInv, [CrossNext]_allVars PROVE TopicInv'
<1>1. /\ active \in SUBSET States /\ peersCount \in Int /\ recent \in Nat /\ old \in Nat
      /\ Shape(active)
  BY DEF TopicInv
<1>2. CASE UNCHANGED topicVars
  BY <1>2 DEF TopicInv, topicVars, Shape, CountStatesExact
<1>3. CASE active' = {} /\ peersCount' = 0 /\ recent' = 0 /\ old' = 0
  BY <1>3, TopicAssumption DEF TopicInv, Shape, CountStatesExact
<1>4. CASE WindowPasses
  BY <1>4 DEF WindowPasses, TopicInv, Shape, CountStatesExact
<1>5. ASSUME peersCount' \in Int, recent' \in Nat, IndexesToStates PROVE TopicInv'
  <2> DEFINE b == Indexed(active, peersCount', recent')
  <2>1. /\ b \in SUBSET States /\ Shape(b)
        /\ "HasPeers" \in b <=> peersCount' # 0
        /\ "Peaking" \in b <=> peersCount' >= TopicPeakingMinPeers
        /\ "Active" \in b <=> recent' # 0
    BY <1>1, <1>5, IndexedExact
  <2> HIDE DEF b
  <2>2. active' = b /\ old' = 0
    BY <1>5 DEF IndexesToStates, b
  <2>3. QED BY <1>5, <2>1, <2>2 DEF TopicInv, Shape, CountStatesExact
<1>6. ASSUME NEW d \in {-1, 1}, PeerChange(d) PROVE TopicInv'
  <2>1. peersCount' \in Int /\ recent' \in Nat /\ IndexesToStates
    BY <1>1, <1>6 DEF PeerChange
  <2>2. QED BY <1>5, <2>1
<1>7. CASE Msgs
  <2>1. peersCount' \in Int /\ recent' \in Nat /\ IndexesToStates
    BY <1>1, <1>7 DEF Msgs
  <2>2. QED BY <1>5, <2>1
<1>8. QED BY <1>2, <1>3, <1>4, <1>6, <1>7, TopicMoves

\* Whoever waits for the simulator has sent messages, and a count change is lost
\* only while somebody does.
LEMMA WaitsStep ==
  ASSUME WaitsAreSends, OnlySendsLose, [CrossNext]_allVars
  PROVE  WaitsAreSends' /\ OnlySendsLose'
<1>1. ASSUME UNCHANGED <<sent, lost>>, wait' \subseteq wait PROVE WaitsAreSends' /\ OnlySendsLose'
  BY <1>1 DEF WaitsAreSends, OnlySendsLose
<1>2. CASE UNCHANGED allVars
  BY <1>1, <1>2 DEF allVars, peerVars
<1>3. CASE RemoveTopicState \/ TimePasses
  BY <1>1, <1>3 DEF RemoveTopicState, TimePasses, peerVars
<1>4. ASSUME NEW P \in SUBSET Peer \ {{}}, AddTopicState(P) \/ PeakRandTopicState(P)
      PROVE  WaitsAreSends' /\ OnlySendsLose'
  BY <1>1, <1>4 DEF AddTopicState, PeakRandTopicState, peerVars
<1>5. ASSUME NEW p \in Peer, SimStep(p) \/ SimPosts(p) \/ Drained(p)
      PROVE  WaitsAreSends' /\ OnlySendsLose'
  BY <1>1, <1>5 DEF SimStep, JoinTopicState, MsgRandomTopicState, SimPosts, Drained, peerVars
<1>6. ASSUME NEW p \in Peer, \E m \in Job : JobPosts(p, m) PROVE WaitsAreSends' /\ OnlySendsLose'
  BY <1>1, <1>6 DEF JobPosts
<1>7. ASSUME NEW p \in Peer, MsgsEval(p) \/ MsgsEvalTimesOut(p)
      PROVE  WaitsAreSends' /\ OnlySendsLose'
  BY <1>1, <1>7 DEF MsgsEval, MsgsEvalTimesOut, Answered
<1>8. ASSUME NEW p \in Peer, PeerHandles(p) PROVE WaitsAreSends' /\ OnlySendsLose'
  <2>1. lost' = lost /\ ((wait' = wait /\ sent' = sent) \/ sent' = TRUE)
    BY <1>8 DEF PeerHandles, Joining, Leaving, Reports, Sending, WaitsInHandler
  <2>2. QED BY <2>1 DEF WaitsAreSends, OnlySendsLose
<1>9. ASSUME NEW d \in {-1, 1}, ChangeEval(d) PROVE WaitsAreSends' /\ OnlySendsLose'
  BY <1>1, <1>9 DEF ChangeEval, peerVars
<1>10. ASSUME NEW d \in {-1, 1}, ChangeEvalTimesOut(d) PROVE WaitsAreSends' /\ OnlySendsLose'
  BY <1>10 DEF ChangeEvalTimesOut, HeldUp, peerVars, WaitsAreSends, OnlySendsLose
<1>11. QED
  BY <1>2, <1>3, <1>4, <1>5, <1>6, <1>7, <1>8, <1>9, <1>10 DEF CrossNext, Job

-----------------------------------------------------------------------------
(* Mutations *)

\* What is in a queue of reports when one is appended.
LEMMA AppendHas ==
  ASSUME NEW s \in Seq(Mutation), NEW x \in Mutation
  PROVE  /\ Append(s, x) \in Seq(Mutation)
         /\ \A m : Has(Append(s, x), m) <=> Has(s, m) \/ x = m
         /\ Once(s) /\ (x = "TopicJoined" => ~Has(s, x)) => Once(Append(s, x))
<1> DEFINE r == Append(s, x)
<1>1. /\ Len(s) \in Nat /\ DOMAIN s = 1..Len(s) /\ DOMAIN r = 1..(Len(s) + 1)
      /\ r[Len(s) + 1] = x /\ (\A i \in 1..Len(s) : r[i] = s[i]) /\ r \in Seq(Mutation)
  OBVIOUS
<1> HIDE DEF r
<1>2. /\ \A i \in DOMAIN r : i \in DOMAIN s \/ i = Len(s) + 1
      /\ \A i \in DOMAIN s : i \in DOMAIN r /\ r[i] = s[i]
      /\ Len(s) + 1 \in DOMAIN r
  BY <1>1
<1>3. \A m : Has(r, m) <=> Has(s, m) \/ x = m
  BY <1>1, <1>2 DEF Has
<1>4. Once(s) /\ (x = "TopicJoined" => ~Has(s, x)) => Once(r)
  BY <1>1, <1>2 DEF Has, Once
<1>5. QED BY <1>1, <1>3, <1>4 DEF r

\* What is in a queue of reports when the first one is taken.
LEMMA TailHas ==
  ASSUME NEW s \in Seq(Mutation), s # <<>>
  PROVE  /\ Tail(s) \in Seq(Mutation) /\ Head(s) \in Mutation /\ Has(s, Head(s))
         /\ \A m : Has(Tail(s), m) => Has(s, m)
         /\ \A m : Has(s, m) /\ m # Head(s) => Has(Tail(s), m)
         /\ Once(s) => Once(Tail(s)) /\ (Head(s) = "TopicJoined" => ~Has(Tail(s), "TopicJoined"))
<1> DEFINE r == Tail(s)
           n == Len(s)
<1>1. /\ n \in Nat /\ n > 0 /\ DOMAIN s = 1..n /\ Head(s) = s[1]
      /\ DOMAIN r = 1..(n - 1)
      /\ \A i \in 1..(n - 1) : r[i] = s[i + 1]
      /\ r \in Seq(Mutation) /\ Head(s) \in Mutation
  OBVIOUS
<1> HIDE DEF r, n
<1>2. /\ \A i \in DOMAIN r : i + 1 \in DOMAIN s /\ i + 1 # 1 /\ r[i] = s[i + 1] /\ i \in Int
      /\ \A i \in DOMAIN s : i = 1 \/ (i - 1 \in DOMAIN r /\ r[i - 1] = s[i])
      /\ 1 \in DOMAIN s
  BY <1>1
<1>3. Has(s, Head(s)) /\ \A m : Has(r, m) => Has(s, m)
  BY <1>1, <1>2 DEF Has
<1>4. \A m : Has(s, m) /\ m # Head(s) => Has(r, m)
  BY <1>1, <1>2 DEF Has
<1>5. ASSUME Once(s) PROVE Once(r) /\ (Head(s) = "TopicJoined" => ~Has(r, "TopicJoined"))
  <2>1. \A i, j \in DOMAIN r : r[i] = "TopicJoined" /\ r[j] = "TopicJoined" => i + 1 = j + 1
    BY <1>2, <1>5 DEF Once
  <2>2. \A i, j \in DOMAIN r : i + 1 = j + 1 => i = j
    BY <1>2
  <2>3. Head(s) = "TopicJoined" => ~Has(r, "TopicJoined")
    BY <1>1, <1>2, <1>5 DEF Has, Once
  <2>4. QED BY <2>1, <2>2, <2>3 DEF Once
<1>6. QED BY <1>1, <1>3, <1>4, <1>5 DEF r

\* What a peer's handler leaves of its queue: the rest, and a report of a leave.
LEMMA HandlesTyped ==
  ASSUME CrossTypeOK, NEW p \in Peer, PeerHandles(p)
  PROVE  /\ UNCHANGED <<exists, removed, listed, post, todo, topicVars>>
         /\ inbox[p] \in Seq(Mutation) /\ inbox[p] # <<>>
         /\ \E r \in Seq(Mutation) :
              /\ inbox' = [inbox EXCEPT ![p] = r]
              /\ Head(inbox[p]) # "LeavingTopic" => r = Tail(inbox[p])
<1> DEFINE s == inbox[p]
           more == IF Head(s) = "LeavingTopic" /\ p \in subs THEN <<"TopicLeft">> ELSE <<>>
           r == Tail(s) \o more
<1>1. s \in Seq(Mutation) /\ s # <<>> /\ Tail(s) \in Seq(Mutation)
  BY TailHas DEF CrossTypeOK, PeerHandles
<1>2. more \in Seq(Mutation)
  <2>1. <<"TopicLeft">> \in Seq(Mutation) /\ <<>> \in Seq(Mutation)
    BY DEF Mutation
  <2>2. QED BY <2>1
<1>3. inbox' = [inbox EXCEPT ![p] = r]
  BY DEF PeerHandles
<1>4. Head(s) # "LeavingTopic" => r = Tail(s)
  BY <1>1
<1>5. r \in Seq(Mutation)
  BY <1>1, <1>2
<1>6. UNCHANGED <<exists, removed, listed, post, todo, topicVars>>
  BY DEF PeerHandles, simVars
<1> HIDE DEF r
<1>7. QED BY <1>1, <1>3, <1>4, <1>5, <1>6

\* Every step keeps the types of the queue and of the waits.
LEMMA CrossTypeStep ==
  ASSUME CrossTypeOK, [CrossNext]_allVars PROVE CrossTypeOK'
<1>1. /\ inbox \in [Peer -> Seq(Mutation)] /\ jobs \in [Peer -> SUBSET Job]
      /\ changes \in [{-1, 1} -> Nat] /\ open \subseteq Peer /\ IsFiniteSet(open)
      /\ todo \subseteq Peer /\ listed \subseteq Peer
  BY DEF CrossTypeOK
<1>2. CASE UNCHANGED allVars
  BY <1>2 DEF CrossTypeOK, allVars, simVars, peerVars
<1>3. CASE RemoveTopicState \/ TimePasses
  BY <1>3 DEF CrossTypeOK, RemoveTopicState, TimePasses, Posts, simVars, peerVars
<1>4. ASSUME NEW P \in SUBSET Peer \ {{}}, AddTopicState(P) \/ PeakRandTopicState(P)
      PROVE  CrossTypeOK'
  BY <1>4 DEF CrossTypeOK, AddTopicState, PeakRandTopicState, Posts, peerVars
<1>5. ASSUME NEW p \in Peer, JoinTopicState(p) PROVE CrossTypeOK'
  BY <1>5 DEF CrossTypeOK, JoinTopicState, Posts, peerVars
<1>6. ASSUME NEW p \in Peer, MsgRandomTopicState(p) PROVE CrossTypeOK'
  <2>1. jobs' \in [Peer -> SUBSET Job]
    BY <1>1, <1>6 DEF MsgRandomTopicState, Job
  <2>2. QED BY <1>6, <2>1 DEF CrossTypeOK, MsgRandomTopicState, simVars
<1>7. ASSUME NEW p \in Peer, SimPosts(p) PROVE CrossTypeOK'
  <2>1. post \in Mutation
    BY <1>7 DEF CrossTypeOK, SimPosts, Mutation
  <2>2. inbox' \in [Peer -> Seq(Mutation)]
    BY <1>1, <1>7, <2>1 DEF SimPosts
  <2>3. QED BY <1>7, <2>2 DEF CrossTypeOK, SimPosts
<1>8. ASSUME NEW p \in Peer, Drained(p) PROVE CrossTypeOK'
  BY <1>8 DEF CrossTypeOK, Drained, simVars
<1>9. ASSUME NEW p \in Peer, NEW m \in Job, JobPosts(p, m) PROVE CrossTypeOK'
  <2>1. inbox' \in [Peer -> Seq(Mutation)]
    BY <1>1, <1>9 DEF JobPosts, Job, Mutation
  <2>2. jobs' \in [Peer -> SUBSET Job]
    BY <1>1, <1>9 DEF JobPosts
  <2>3. QED BY <1>9, <2>1, <2>2 DEF CrossTypeOK, JobPosts, simVars
<1>10. ASSUME NEW p \in Peer, MsgsEval(p) \/ MsgsEvalTimesOut(p) PROVE CrossTypeOK'
  BY <1>10 DEF CrossTypeOK, MsgsEval, MsgsEvalTimesOut, simVars
<1>11. ASSUME NEW p \in Peer, PeerHandles(p) PROVE CrossTypeOK'
  <2>1. inbox' \in [Peer -> Seq(Mutation)]
    BY <1>1, <1>11, HandlesTyped
  <2>2. UNCHANGED <<exists, removed, listed, post, todo>>
    BY <1>11, HandlesTyped
  <2>3. IsFiniteSet(open \cup {p}) /\ IsFiniteSet(open \ {p})
    BY <1>1, FS_AddElement, FS_RemoveElement
  <2>4. jobs' \in [Peer -> SUBSET Job] /\ changes' \in [{-1, 1} -> Nat]
        /\ open' \subseteq Peer /\ IsFiniteSet(open')
    <3>1. CASE Joining(p)
      BY <1>1, <2>3, <3>1 DEF Joining, Job
    <3>2. CASE Leaving(p)
      BY <1>1, <2>3, <3>2 DEF Leaving
    <3>3. CASE Reports(p, 1) \/ Reports(p, -1)
      BY <1>1, <3>3 DEF Reports
    <3>4. CASE Sending(p)
      BY <1>1, <3>4 DEF Sending, Job
    <3>5. CASE WaitsInHandler(p)
      BY <1>1, <3>5 DEF WaitsInHandler
    <3>6. QED BY <1>11, <3>1, <3>2, <3>3, <3>4, <3>5 DEF PeerHandles
  <2>5. QED BY <2>1, <2>2, <2>4 DEF CrossTypeOK
<1>12. ASSUME NEW d \in {-1, 1}, ChangeEval(d) \/ ChangeEvalTimesOut(d) PROVE CrossTypeOK'
  <2>1. changes' \in [{-1, 1} -> Nat]
    BY <1>1, <1>12 DEF ChangeEval, ChangeEvalTimesOut
  <2>2. QED BY <1>12, <2>1 DEF CrossTypeOK, ChangeEval, ChangeEvalTimesOut, simVars, peerVars
<1>13. QED
  BY <1>2, <1>3, <1>4, <1>5, <1>6, <1>7, <1>8, <1>9, <1>10, <1>11, <1>12
  DEF CrossNext, SimStep, Job

-----------------------------------------------------------------------------
(* Joins, before the topic is removed *)

\* A step that moves joins along, and neither starts nor reports one.
LEMMA JoinsKept ==
  ASSUME JoinsOnly, JoinsCounted, UNCHANGED <<exists, changes, peersCount, open>>,
         post' # "LeavingTopic",
         \A p \in Peer :
           /\ ~Has(inbox'[p], "LeavingTopic") /\ ~Has(inbox'[p], "TopicLeft")
           /\ Once(inbox'[p])
           /\ "TopicJoined" \in jobs'[p] => ~Has(inbox'[p], "TopicJoined")
           /\ "TopicJoined" \in jobs'[p] \/ Has(inbox'[p], "TopicJoined") <=>
                "TopicJoined" \in jobs[p] \/ Has(inbox[p], "TopicJoined"),
         open \subseteq Peer
  PROVE  JoinsOnly' /\ JoinsCounted'
<1>1. Pending' = Pending
  BY DEF Pending, Has
<1>2. JoinsCounted'
  BY <1>1 DEF JoinsCounted
<1>3. JoinsOnly'
  BY DEF JoinsOnly, Has, Once
<1>4. QED BY <1>2, <1>3

\* What JoinsKept asks of the queues and goroutines holds where they do not change.
LEMMA JoinsQuiet ==
  ASSUME JoinsOnly, JoinsCounted, open \subseteq Peer, post' # "LeavingTopic",
         UNCHANGED <<exists, changes, peersCount, open, inbox, jobs>>
  PROVE  JoinsOnly' /\ JoinsCounted'
<1>1. \A p \in Peer :
        /\ ~Has(inbox'[p], "LeavingTopic") /\ ~Has(inbox'[p], "TopicLeft")
        /\ Once(inbox'[p])
        /\ "TopicJoined" \in jobs'[p] => ~Has(inbox'[p], "TopicJoined")
        /\ "TopicJoined" \in jobs'[p] \/ Has(inbox'[p], "TopicJoined") <=>
             "TopicJoined" \in jobs[p] \/ Has(inbox[p], "TopicJoined")
  BY DEF JoinsOnly
<1>2. QED BY <1>1, JoinsKept

\* A handler of a peer, before the topic is removed.
LEMMA JoinsHandled ==
  ASSUME CrossTypeOK, peersCount \in Int, JoinsOnly, JoinsCounted,
         NEW p \in Peer, PeerHandles(p)
  PROVE  JoinsOnly' /\ JoinsCounted'
<1>1. /\ inbox \in [Peer -> Seq(Mutation)] /\ jobs \in [Peer -> SUBSET Job]
      /\ changes \in [{-1, 1} -> Nat] /\ open \subseteq Peer /\ IsFiniteSet(open)
  BY DEF CrossTypeOK
<1> DEFINE s == inbox[p]
           m == Head(s)
           r == Tail(s)
<1>2. /\ s \in Seq(Mutation) /\ s # <<>> /\ r \in Seq(Mutation)
      /\ Has(s, m)
      /\ \A x : Has(r, x) => Has(s, x)
      /\ \A x : Has(s, x) /\ x # m => Has(r, x)
      /\ Once(s) => Once(r) /\ (m = "TopicJoined" => ~Has(r, "TopicJoined"))
  BY HandlesTyped, TailHas
<1>3. m # "LeavingTopic" /\ m # "TopicLeft"
  BY <1>2 DEF JoinsOnly
<1>4. /\ inbox' = [inbox EXCEPT ![p] = r]
      /\ UNCHANGED <<exists, post, peersCount>>
  BY <1>3, HandlesTyped DEF topicVars
<1> HIDE DEF s, m, r
<1>5. s = inbox[p] /\ (m = "JoiningTopic" \/ m = "TopicJoined" \/ m = "SendingMsgs" \/ m = "MsgsSent")
  BY <1>3 DEF s, m, PeerHandles
<1>6. \A q \in Peer : inbox'[q] = IF q = p THEN r ELSE inbox[q]
  BY <1>1, <1>4
<1>7. \A q \in Peer : /\ ~Has(inbox'[q], "LeavingTopic") /\ ~Has(inbox'[q], "TopicLeft")
                      /\ Once(inbox'[q])
  BY <1>2, <1>5, <1>6 DEF JoinsOnly
<1>8. Pending \subseteq open /\ IsFiniteSet(Pending) /\ Cardinality(Pending) \in Nat
      /\ Cardinality(open) \in Nat
  <2>1. Pending \subseteq open
    BY DEF Pending
  <2>2. QED BY <1>1, <2>1, FS_Subset, FS_CardinalityType
<1>9. CASE m = "SendingMsgs" \/ m = "MsgsSent" \/ (m = "JoiningTopic" /\ p \in open)
  <2>1. /\ UNCHANGED <<changes, open>>
        /\ \A q \in Peer : "TopicJoined" \in jobs'[q] <=> "TopicJoined" \in jobs[q]
    <3>1. Sending(p) \/ WaitsInHandler(p) \/ (Joining(p) /\ p \in open)
      BY <1>9 DEF PeerHandles, m, s
    <3>2. CASE Sending(p)
      BY <1>1, <3>2 DEF Sending
    <3>3. CASE WaitsInHandler(p) \/ (Joining(p) /\ p \in open)
      BY <3>3 DEF WaitsInHandler, Joining
    <3>4. QED BY <3>1, <3>2, <3>3
  <2>2. \A q \in Peer : Has(inbox'[q], "TopicJoined") <=> Has(inbox[q], "TopicJoined")
    BY <1>2, <1>5, <1>6, <1>9
  <2>3. post' # "LeavingTopic"
    BY <1>4 DEF JoinsOnly
  <2>4. \A q \in Peer : "TopicJoined" \in jobs'[q] => ~Has(inbox'[q], "TopicJoined")
    BY <2>1, <2>2 DEF JoinsOnly
  <2>5. QED BY <1>1, <1>4, <1>7, <2>1, <2>2, <2>3, <2>4, JoinsKept
<1>10. CASE m = "JoiningTopic" /\ p \notin open
  <2>1. /\ UNCHANGED changes /\ open' = open \cup {p}
        /\ jobs' = [jobs EXCEPT ![p] = @ \cup {"TopicJoined"}]
    BY <1>10 DEF PeerHandles, Joining, m, s
  <2>2. \A q \in Peer : "TopicJoined" \in jobs'[q] <=> "TopicJoined" \in jobs[q] \/ q = p
    BY <1>1, <2>1
  <2>3. \A q \in Peer : Has(inbox'[q], "TopicJoined") <=> Has(inbox[q], "TopicJoined")
    BY <1>2, <1>5, <1>6, <1>10
  <2>4. "TopicJoined" \notin jobs[p] /\ ~Has(inbox[p], "TopicJoined") /\ p \notin Pending
    BY <1>10 DEF JoinsOnly, Pending
  <2>5. JoinsOnly'
    <3>1. \A q \in Peer :
            /\ "TopicJoined" \in jobs'[q] => ~Has(inbox'[q], "TopicJoined")
            /\ "TopicJoined" \in jobs'[q] \/ Has(inbox'[q], "TopicJoined") => q \in open'
      BY <2>1, <2>2, <2>3, <2>4 DEF JoinsOnly
    <3>2. exists' /\ post' # "LeavingTopic" /\ changes'[-1] = 0
      BY <1>4, <2>1 DEF JoinsOnly
    <3>3. QED BY <1>7, <3>1, <3>2 DEF JoinsOnly, Has, Once
  <2>6. Pending' = Pending \cup {p}
    <3>1. Pending' = {q \in open' : "TopicJoined" \in jobs'[q] \/ Has(inbox'[q], "TopicJoined")}
      BY DEF Pending, Has
    <3>2. QED BY <1>1, <2>1, <2>2, <2>3, <2>4, <3>1 DEF Pending
  <2>7. /\ Cardinality(Pending') = Cardinality(Pending) + 1
        /\ Cardinality(open') = Cardinality(open) + 1
    BY <1>1, <1>8, <1>10, <2>1, <2>4, <2>6, FS_AddElement
  <2>8. JoinsCounted'
    BY <1>1, <1>4, <1>8, <2>1, <2>7 DEF JoinsCounted
  <2>9. QED BY <2>5, <2>8
<1>11. CASE m = "TopicJoined"
  <2>1. UNCHANGED <<jobs, open>> /\ changes' = [changes EXCEPT ![1] = @ + 1]
    BY <1>11 DEF PeerHandles, Reports, m, s
  <2>2. /\ \A q \in Peer : q # p => inbox'[q] = inbox[q]
        /\ ~Has(inbox'[p], "TopicJoined") /\ Has(inbox[p], "TopicJoined")
        /\ "TopicJoined" \notin jobs[p] /\ p \in open
    BY <1>2, <1>5, <1>6, <1>11 DEF JoinsOnly
  <2>3. JoinsOnly'
    <3>1. \A q \in Peer :
            /\ "TopicJoined" \in jobs'[q] => ~Has(inbox'[q], "TopicJoined")
            /\ "TopicJoined" \in jobs'[q] \/ Has(inbox'[q], "TopicJoined") => q \in open'
      BY <2>1, <2>2 DEF JoinsOnly
    <3>2. exists' /\ post' # "LeavingTopic" /\ changes'[-1] = 0
      BY <1>1, <1>4, <2>1 DEF JoinsOnly
    <3>3. QED BY <1>7, <3>1, <3>2 DEF JoinsOnly, Has, Once
  <2>4. Pending' = Pending \ {p} /\ p \in Pending
    <3>1. Pending' = {q \in open' : "TopicJoined" \in jobs'[q] \/ Has(inbox'[q], "TopicJoined")}
      BY DEF Pending, Has
    <3>2. QED BY <1>1, <2>1, <2>2, <3>1 DEF Pending
  <2>5. Cardinality(Pending') = Cardinality(Pending) - 1
    BY <1>8, <2>4, FS_RemoveElement
  <2>6. changes'[1] = changes[1] + 1 /\ changes[1] \in Nat
    BY <1>1, <2>1
  <2>7. JoinsCounted'
    BY <1>4, <1>8, <2>1, <2>5, <2>6 DEF JoinsCounted
  <2>8. QED BY <2>3, <2>7
<1>12. QED BY <1>5, <1>9, <1>10, <1>11

\* Until the topic is removed, every step keeps the reports of joins and their count.
LEMMA JoinsStep ==
  ASSUME TopicInv, CrossTypeOK, ~removed => JoinsOnly /\ JoinsCounted, [CrossNext]_allVars, ~removed'
  PROVE  JoinsOnly' /\ JoinsCounted'
<1>1. /\ inbox \in [Peer -> Seq(Mutation)] /\ jobs \in [Peer -> SUBSET Job]
      /\ changes \in [{-1, 1} -> Nat] /\ open \subseteq Peer /\ peersCount \in Int
  BY DEF CrossTypeOK, TopicInv
<1>2. removed' = removed \/ RemoveTopicState
  BY DEF CrossNext, allVars, simVars, TimePasses, AddTopicState, PeakRandTopicState, SimStep,
         JoinTopicState, MsgRandomTopicState, SimPosts, PeerHandles, Drained, JobPosts, MsgsEval,
         MsgsEvalTimesOut, ChangeEval, ChangeEvalTimesOut
<1>3. ~RemoveTopicState /\ ~removed
  BY <1>2 DEF RemoveTopicState
<1>4. JoinsOnly /\ JoinsCounted /\ post # "LeavingTopic" /\ exists /\ changes[-1] = 0
  BY <1>3 DEF JoinsOnly
<1>5. ASSUME UNCHANGED <<exists, changes, peersCount, open, inbox, jobs>>,
             post' = post \/ post' = "JoiningTopic"
      PROVE  JoinsOnly' /\ JoinsCounted'
  BY <1>1, <1>4, <1>5, JoinsQuiet
<1>6. CASE UNCHANGED allVars
  BY <1>5, <1>6 DEF allVars, topicVars, simVars, peerVars
<1>7. CASE TimePasses
  BY <1>5, <1>7 DEF TimePasses, WindowPasses, simVars, peerVars
<1>8. ASSUME NEW P \in SUBSET Peer \ {{}}, AddTopicState(P) \/ PeakRandTopicState(P)
      PROVE  JoinsOnly' /\ JoinsCounted'
  BY <1>4, <1>5, <1>8 DEF AddTopicState, PeakRandTopicState, Posts, topicVars, peerVars
<1>9. ASSUME NEW p \in Peer, JoinTopicState(p) \/ Drained(p) \/ MsgsEvalTimesOut(p)
      PROVE  JoinsOnly' /\ JoinsCounted'
  BY <1>5, <1>9 DEF JoinTopicState, Drained, MsgsEvalTimesOut, Posts, topicVars, simVars, peerVars
<1>10. ASSUME NEW p \in Peer, MsgsEval(p) PROVE JoinsOnly' /\ JoinsCounted'
  <2>1. peersCount' = peersCount
    BY <1>10 DEF MsgsEval, Msgs, topicVars
  <2>2. QED BY <1>5, <1>10, <2>1 DEF MsgsEval, simVars
<1>11. ASSUME NEW p \in Peer, MsgRandomTopicState(p) PROVE JoinsOnly' /\ JoinsCounted'
  <2>1. UNCHANGED <<exists, post, changes, peersCount, open, inbox>>
    BY <1>11 DEF MsgRandomTopicState, simVars, topicVars
  <2>2. \A q \in Peer : "TopicJoined" \in jobs'[q] <=> "TopicJoined" \in jobs[q]
    BY <1>1, <1>11 DEF MsgRandomTopicState
  <2>3. \A q \in Peer :
          /\ ~Has(inbox'[q], "LeavingTopic") /\ ~Has(inbox'[q], "TopicLeft")
          /\ Once(inbox'[q])
          /\ "TopicJoined" \in jobs'[q] => ~Has(inbox'[q], "TopicJoined")
    BY <1>4, <2>1, <2>2 DEF JoinsOnly
  <2>4. QED BY <1>1, <1>4, <2>1, <2>2, <2>3, JoinsKept
<1>12. ASSUME NEW p \in Peer, SimPosts(p) PROVE JoinsOnly' /\ JoinsCounted'
  <2>1. UNCHANGED <<exists, post, changes, peersCount, open, jobs>>
        /\ inbox' = [inbox EXCEPT ![p] = Append(inbox[p], post)]
        /\ post = "JoiningTopic"
    BY <1>4, <1>12 DEF SimPosts, topicVars, CrossTypeOK
  <2>2. /\ \A m : Has(Append(inbox[p], post), m) <=> Has(inbox[p], m) \/ m = post
        /\ Once(inbox[p]) => Once(Append(inbox[p], post))
    <3>1. post \in Mutation /\ inbox[p] \in Seq(Mutation) /\ post # "TopicJoined"
      BY <1>1, <2>1 DEF Mutation
    <3>2. QED BY <3>1, AppendHas
  <2>3. \A q \in Peer : inbox'[q] = IF q = p THEN Append(inbox[p], post) ELSE inbox[q]
    BY <1>1, <2>1
  <2>4. \A q \in Peer :
          /\ ~Has(inbox'[q], "LeavingTopic") /\ ~Has(inbox'[q], "TopicLeft")
          /\ Once(inbox'[q])
          /\ Has(inbox'[q], "TopicJoined") <=> Has(inbox[q], "TopicJoined")
    BY <1>4, <2>1, <2>2, <2>3 DEF JoinsOnly
  <2>5. \A q \in Peer : "TopicJoined" \in jobs'[q] => ~Has(inbox'[q], "TopicJoined")
    BY <1>4, <2>1, <2>4 DEF JoinsOnly
  <2>6. QED BY <1>1, <1>4, <2>1, <2>4, <2>5, JoinsKept
<1>13. ASSUME NEW p \in Peer, NEW m \in Job, JobPosts(p, m) PROVE JoinsOnly' /\ JoinsCounted'
  <2>1. UNCHANGED <<exists, post, changes, peersCount, open>>
        /\ inbox' = [inbox EXCEPT ![p] = Append(inbox[p], m)]
        /\ jobs' = [jobs EXCEPT ![p] = jobs[p] \ {m}] /\ m \in jobs[p]
    BY <1>13 DEF JobPosts, topicVars, simVars
  <2>2. m \in Mutation /\ m # "LeavingTopic" /\ m # "TopicLeft" /\ inbox[p] \in Seq(Mutation)
    BY <1>1 DEF Job, Mutation
  <2>3. m = "TopicJoined" => ~Has(inbox[p], m)
    BY <1>4, <2>1 DEF JoinsOnly
  <2>4. /\ \A x : Has(Append(inbox[p], m), x) <=> Has(inbox[p], x) \/ x = m
        /\ Once(inbox[p]) => Once(Append(inbox[p], m))
    BY <2>2, <2>3, AppendHas
  <2>5. \A q \in Peer : inbox'[q] = IF q = p THEN Append(inbox[p], m) ELSE inbox[q]
    BY <1>1, <2>1
  <2>6. \A q \in Peer : jobs'[q] = IF q = p THEN jobs[p] \ {m} ELSE jobs[q]
    BY <1>1, <2>1
  <2>7. \A q \in Peer :
          /\ ~Has(inbox'[q], "LeavingTopic") /\ ~Has(inbox'[q], "TopicLeft")
          /\ Once(inbox'[q])
    BY <1>4, <2>2, <2>4, <2>5 DEF JoinsOnly
  <2>8. \A q \in Peer :
          /\ "TopicJoined" \in jobs'[q] => ~Has(inbox'[q], "TopicJoined")
          /\ "TopicJoined" \in jobs'[q] \/ Has(inbox'[q], "TopicJoined") <=>
               "TopicJoined" \in jobs[q] \/ Has(inbox[q], "TopicJoined")
    BY <1>4, <2>1, <2>3, <2>4, <2>5, <2>6 DEF JoinsOnly
  <2>9. post' # "LeavingTopic"
    BY <1>4, <2>1
  <2>10. QED BY <1>1, <1>4, <2>1, <2>7, <2>8, <2>9, JoinsKept
<1>14. ASSUME NEW p \in Peer, PeerHandles(p) PROVE JoinsOnly' /\ JoinsCounted'
  BY <1>1, <1>4, <1>14, JoinsHandled
<1>15. ASSUME NEW d \in {-1, 1}, ChangeEval(d) \/ ChangeEvalTimesOut(d)
       PROVE  JoinsOnly' /\ JoinsCounted'
  <2>1. d = 1 /\ changes' = [changes EXCEPT ![1] = changes[1] - 1] /\ changes[1] \in Nat
        /\ changes[1] > 0
    BY <1>1, <1>4, <1>15 DEF ChangeEval, ChangeEvalTimesOut
  <2>2. peersCount' = peersCount \/ peersCount' = peersCount + 1
    BY <1>4, <1>15, <2>1 DEF ChangeEval, ChangeEvalTimesOut, PeerChange, topicVars
  <2>3. UNCHANGED <<exists, post, open, inbox, jobs>>
    BY <1>15 DEF ChangeEval, ChangeEvalTimesOut, simVars, peerVars
  <2>4. changes'[1] = changes[1] - 1 /\ changes'[-1] = 0
    BY <1>1, <1>4, <2>1
  <2>5. Pending' = Pending
    BY <2>3 DEF Pending
  <2>6. Cardinality(Pending) \in Nat /\ Cardinality(open) \in Nat
    <3>1. Pending \subseteq open /\ IsFiniteSet(open)
      BY DEF Pending, CrossTypeOK
    <3>2. QED BY <3>1, FS_Subset, FS_CardinalityType
  <2>7. JoinsCounted'
    BY <1>1, <1>4, <2>1, <2>2, <2>3, <2>4, <2>5, <2>6 DEF JoinsCounted
  <2>8. JoinsOnly'
    BY <1>4, <2>3, <2>4 DEF JoinsOnly
  <2>9. QED BY <2>7, <2>8
<1>16. QED
  BY <1>3, <1>6, <1>7, <1>8, <1>9, <1>10, <1>11, <1>12, <1>13, <1>14, <1>15
  DEF CrossNext, SimStep, Job

\* The invariant holds at the start.
LEMMA CrossInvInit == CrossInit => CrossInv
<1> SUFFICES ASSUME CrossInit PROVE CrossInv
  OBVIOUS
<1>1. TopicInv
  BY TopicAssumption DEF CrossInit, Init, TopicInv, Shape, CountStatesExact
<1>2. IsFiniteSet({}) /\ Cardinality({}) = 0
  BY FS_EmptySet
<1>3. CrossTypeOK
  <2>1. inbox \in [Peer -> Seq(Mutation)] /\ jobs \in [Peer -> SUBSET Job]
    BY DEF CrossInit
  <2>2. changes \in [{-1, 1} -> Nat]
    BY DEF CrossInit
  <2>3. QED BY <1>2, <2>1, <2>2 DEF CrossInit, CrossTypeOK
<1>4. WaitsAreSends /\ OnlySendsLose
  BY DEF CrossInit, WaitsAreSends, OnlySendsLose
<1>5. JoinsOnly
  BY DEF CrossInit, JoinsOnly, Has, Once
<1>6. JoinsCounted
  <2>1. open = {} /\ Pending = {} /\ peersCount = 0 /\ changes[1] = 0
    BY DEF CrossInit, Init, Pending
  <2>2. QED BY <1>2, <2>1 DEF JoinsCounted
<1>7. QED BY <1>1, <1>3, <1>4, <1>5, <1>6 DEF CrossInv

\* The invariant of the waiting machines, for every number of peers and evaluations.
THEOREM CrossInvariance == CrossSpec => []CrossInv
<1>1. CrossInit => CrossInv
  BY CrossInvInit
<1>2. CrossInv /\ [CrossNext]_allVars => CrossInv'
  BY TopicStep, CrossTypeStep, WaitsStep, JoinsStep DEF CrossInv
<1>3. QED BY <1>1, <1>2, PTL DEF CrossSpec

\* HasPeers and Peaking say what the count says, whatever was active before, however
\* reports overtake each other and whichever of them are lost.
THEOREM CountStatesFollow == CrossSpec => []CountStatesExact
<1>1. CrossInv => CountStatesExact
  BY DEF CrossInv, TopicInv
<1>2. QED BY <1>1, CrossInvariance, PTL

\* ss_topic.go:25: a Stale topic has no recent messages, and an indexed topic is Stale
\* exactly when it is neither Active nor Peaking.
THEOREM StaleFollows == CrossSpec => []StaleExact
<1>1. CrossInv => StaleExact
  BY DEF CrossInv, TopicInv, Shape, StaleExact
<1>2. QED BY <1>1, CrossInvariance, PTL

\* peer.go:298 and :337: the reports of joins and leaves wait in goroutines, so that only
\* a peer that sends can make the simulator wait for long enough to lose a report.
THEOREM SendsLose == CrossSpec => []OnlySendsLose
<1>1. CrossInv => OnlySendsLose
  BY DEF CrossInv
<1>2. QED BY <1>1, CrossInvariance, PTL

\* Until a topic is removed its count never exceeds the handles that are open, and
\* never falls below zero: every peer is counted once, at most.
THEOREM FirstCount == CrossSpec => []FirstCountExact
<1>1. CrossInv => FirstCountExact
  <2> SUFFICES ASSUME CrossInv, ~removed PROVE FirstCountExact
    BY DEF FirstCountExact
  <2>1. JoinsOnly /\ JoinsCounted /\ IsFiniteSet(open) /\ peersCount \in Int
        /\ changes \in [{-1, 1} -> Nat]
    BY DEF CrossInv, CrossTypeOK, TopicInv
  <2>2. Cardinality(Pending) \in Nat /\ Cardinality(open) \in Nat
    <3>1. Pending \subseteq open
      BY DEF Pending
    <3>2. QED BY <2>1, <3>1, FS_Subset, FS_CardinalityType
  <2>3. QED BY <2>1, <2>2 DEF JoinsOnly, JoinsCounted, FirstCountExact
<1>2. QED BY <1>1, CrossInvariance, PTL
=============================================================================
