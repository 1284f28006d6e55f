-------------------------- MODULE PeerMachineProofs --------------------------
(***************************************************************************)
(* The life of a peer: which states it can be in, and what the goroutines  *)
(* of its handlers have filled by then, for every length of its queue.     *)
(***************************************************************************)
EXTENDS PeerMachine, SequenceTheorems, FiniteSetTheorems, TLAPS

Topical == Work \cup Reports

\* The states that the simulator ever makes active.
Live == {"Start", "Ready", "Exception", "FwdToSim", "Connecting", "Connected",
         "GenIdentity", "IdentityReady"} \cup Topical

\* A started machine, before its Auto states: what stands on what, and one state of a
\* group keeps out the others.
Founded(a) ==
  /\ a \subseteq Live
  /\ "Connected" \in a => "Start" \in a
  /\ "Connected" \in a <=> "Ready" \in a
  /\ \A s \in Topical : s \in a => "Connected" \in a
  /\ "GenIdentity" \in a <=> "IdentityReady" \notin a
  /\ "Connecting" \in a => "Start" \in a /\ "IdentityReady" \in a /\ "Connected" \notin a

\* And after them: a started machine with its identity connects unless it has.
Connects(a) == "Start" \in a /\ "IdentityReady" \in a /\ "Connected" \notin a
Shape(a)    == Founded(a) /\ (Connects(a) => "Connecting" \in a)

\* Once it has Connected, a started peer keeps it.
Served == "Start" \in active => "Connected" \in active

\* The mutations of a peer after Start, and what each may wait for.
Mutation ==
  {AddOf({"IdentityReady"}), AddOf({"Exception"}), AddOf({"Ready", "Connected"}), RemoveOf("Start")}
    \cup {AddOf({s}) : s \in Topical}
    \cup {[op |-> "remove", states |-> S] : S \in SUBSET Topical}
Allowed == {m \in Mutation :
  /\ m = RemoveOf("Start") => released
  /\ m = AddOf({"IdentityReady"}) => key
  /\ m = AddOf({"Ready", "Connected"}) => ps
  /\ \A s \in Topical : m = AddOf({s}) => Served}

\* Before its first turn a peer waits for Start, and at most for its removal.
Fresh ==
  /\ active = {} /\ gen = "none" /\ conn = "none" /\ jobs = {} /\ senders = FALSE /\ hosts = 0
  /\ key = FALSE /\ ps = FALSE /\ released \in BOOLEAN /\ disposed = "no"
  /\ queue = IF released THEN <<AddOf({"Start"}), RemoveOf("Start")>> ELSE <<AddOf({"Start"})>>

\* Afterwards: the goroutines run once, in the order of the states, and fill the peer
\* before they say so.
Lively ==
  /\ Shape(active)
  /\ queue \in Seq(Allowed)
  /\ gen \in {"none", "started", "loading", "loaded"}
  /\ conn \in {"none", "started", "dialing", "host", "pubsub"}
  /\ jobs \subseteq Reports /\ {key, ps, senders, released} \subseteq BOOLEAN
  /\ gen = "loaded" \/ "IdentityReady" \in active => key
  /\ conn # "none" \/ hosts # 0 => "IdentityReady" \in active
  /\ hosts \in {0, 1} /\ (conn \in {"started", "dialing"} => hosts = 0)
  /\ conn = "pubsub" \/ "Connected" \in active => ps
  /\ jobs # {} \/ senders => Served

PeerInv == Fresh \/ Lively

-----------------------------------------------------------------------------
(* ss_peer.go, as a live peer uses it *)

\* Which names of states stand for what.
LEMMA Names ==
  /\ Live \subseteq States /\ AutoStates \subseteq Live
  /\ \A s \in Topical : s \notin {"Start", "Ready", "Exception", "FwdToSim", "Connecting",
                                  "Connected", "GenIdentity", "IdentityReady", "Disconnecting"}
<1>1. Live \subseteq States
  BY DEF Live, States, Topical, groupConnected, groupIdentityReady
<1>2. AutoStates \subseteq Live
  BY DEF Live, AutoStates
<1>3. Topical = {"JoiningTopic", "LeavingTopic", "SendingMsgs", "TopicJoined", "TopicLeft", "MsgsSent"}
  BY DEF Topical, Work, Reports
<1>4. QED BY <1>1, <1>2, <1>3

\* The Require relation, state by state.
LEMMA RequireIs ==
  /\ Require["Ready"] = {"Start", "Connected"} /\ Require["Connecting"] = {"Start", "IdentityReady"}
  /\ Require["Connected"] = {"Start"} /\ \A s \in Topical : Require[s] = {"Connected"}
  /\ \A s \in {"Start", "Exception", "FwdToSim", "GenIdentity", "IdentityReady"} : Require[s] = {}
<1>1. /\ Require["Ready"] = {"Start", "Connected"}
      /\ Require["Connecting"] = {"Start", "IdentityReady"} /\ Require["Connected"] = {"Start"}
  BY DEF Require, States, groupConnected, Work, Reports
<1>2. ASSUME NEW s \in Topical PROVE Require[s] = {"Connected"}
  <2>1. s \in States
    BY Names DEF Live
  <2>2. QED BY <2>1, Names DEF Require, Topical, Work, Reports
<1>3. ASSUME NEW s \in {"Start", "Exception", "FwdToSim", "GenIdentity", "IdentityReady"}
      PROVE  Require[s] = {}
  <2>1. s \in States /\ s \notin Topical
    BY DEF States, groupIdentityReady, Topical, Work, Reports
  <2>2. QED BY <2>1 DEF Require, Topical
<1>4. QED BY <1>1, <1>2, <1>3

\* The Remove relation: two groups whose members replace each other.
LEMMA RemovesIs ==
  \A r, s \in Live :
    s \in Removes[r] <=>
      \/ r \in {"Connecting", "Connected"} /\ s \in {"Connecting", "Connected"}
      \/ r \in groupIdentityReady /\ s \in groupIdentityReady
<1> SUFFICES ASSUME NEW r \in Live, NEW s \in Live
    PROVE  s \in Removes[r] <=>
             \/ r \in {"Connecting", "Connected"} /\ s \in {"Connecting", "Connected"}
             \/ r \in groupIdentityReady /\ s \in groupIdentityReady
  OBVIOUS
<1>1. r \in States /\ r # "Disconnecting" /\ s # "Disconnecting"
  BY Names DEF Live
<1>2. Removes[r] = IF r \in groupConnected THEN groupConnected
                   ELSE IF r \in groupIdentityReady THEN groupIdentityReady ELSE {}
  <2>1. CASE r \in groupConnected
    <3>1. r \in {"Connecting", "Connected"}
      BY <1>1, <2>1 DEF groupConnected
    <3>2. Removes["Connecting"] = groupConnected /\ Removes["Connected"] = groupConnected
      BY DEF Removes, States, groupConnected, groupIdentityReady
    <3>3. QED BY <2>1, <3>1, <3>2
  <2>2. CASE r \notin groupConnected
    BY <1>1, <2>2 DEF Removes
  <2>3. QED BY <2>1, <2>2
<1>3. groupConnected \cap groupIdentityReady = {}
  BY DEF groupConnected, groupIdentityReady
<1>4. QED BY <1>1, <1>2, <1>3 DEF groupConnected

\* The Add relation: a report brings FwdToSim.
LEMMA AddsIs ==
  \A S \in SUBSET Live : Machine!WithAdded(S) = IF S \cap Reports = {} THEN S ELSE S \cup {"FwdToSim"}
<1>1. \A s \in Live : Adds[s] = IF s \in Reports THEN {"FwdToSim"} ELSE {}
  <2> SUFFICES ASSUME NEW s \in Live
      PROVE  Adds[s] = IF s \in Reports THEN {"FwdToSim"} ELSE {}
    OBVIOUS
  <2>1. s \in States /\ s # "EventHostConnected"
    BY Names DEF Live, Topical, Work, Reports
  <2>2. QED BY <2>1 DEF Adds
<1>2. QED BY <1>1 DEF Machine!WithAdded

\* What is left of a set when states without their requirements go.
LEMMA SatisfiedIs ==
  ASSUME NEW S
  PROVE  /\ Machine!Satisfied(S) \subseteq S
         /\ \A s \in Machine!Satisfied(S) : Require[s] \subseteq S
         /\ (\A s \in S : Require[s] \subseteq S) => Machine!Satisfied(S) = S
BY DEF Machine!Satisfied, Machine!Supported

\* What is founded has all it requires.
LEMMA FoundedSatisfied ==
  ASSUME NEW a, Founded(a)
  PROVE  Machine!Satisfied(a) = a
<1>1. \A s \in a : Require[s] \subseteq a
  BY RequireIs DEF Founded, Live
<1>2. QED BY <1>1, SatisfiedIs

\* A founded machine activates Connecting by itself, when it can, and nothing else.
LEMMA AutoIs ==
  ASSUME NEW a, Founded(a)
  PROVE  Machine!AutoTarget(a) = IF Connects(a) THEN a \cup {"Connecting"} ELSE a
<1> DEFINE free == {s \in AutoStates \ a : \A r \in a : s \notin Removes[r]}
           new  == free \cap Machine!Satisfied(a \cup free)
           full == a \cup new
<1>1. Machine!AutoTarget(a) = Machine!Satisfied(Machine!Without(full, new))
  BY DEF Machine!AutoTarget
<1>2. a \subseteq Live /\ AutoStates \subseteq Live /\ AutoStates = {"Ready", "GenIdentity", "Connecting"}
  <2>1. a \subseteq Live
    BY DEF Founded
  <2>2. AutoStates = {"Ready", "GenIdentity", "Connecting"}
    BY DEF AutoStates
  <2>3. QED BY <2>1, <2>2, Names
<1>3. free \subseteq AutoStates
  OBVIOUS
<1>4. "GenIdentity" \notin free
  <2>1. "IdentityReady" \in a => "GenIdentity" \in Removes["IdentityReady"]
    BY <1>2, RemovesIs DEF groupIdentityReady, Live
  <2>2. QED BY <2>1 DEF Founded
<1>5. "Connecting" \in free <=> "Connecting" \notin a /\ "Connected" \notin a
  <2>1. \A r \in a : "Connecting" \in Removes[r] <=> r \in {"Connecting", "Connected"}
    BY <1>2, RemovesIs DEF groupIdentityReady
  <2>2. QED BY <1>2, <2>1
<1> HIDE DEF free
<1>6. "Ready" \notin new
  <2>1. ASSUME "Ready" \in new PROVE FALSE
    <3>1. "Connected" \in a \cup free /\ "Ready" \in free
      BY <2>1, SatisfiedIs, RequireIs
    <3>2. "Connected" \notin free
      BY <1>2, <1>3
    <3>3. "Ready" \in a
      BY <3>1, <3>2 DEF Founded
    <3>4. QED BY <3>1, <3>3 DEF free
  <2>2. QED BY <2>1
<1>7. "Connecting" \in new <=> Connects(a) /\ "Connecting" \notin a
  <2>1. ASSUME "Connecting" \in new PROVE Connects(a) /\ "Connecting" \notin a
    <3>1. {"Start", "IdentityReady"} \subseteq a \cup free
      BY <2>1, SatisfiedIs, RequireIs
    <3>2. "Start" \notin free /\ "IdentityReady" \notin free
      BY <1>2, <1>3
    <3>3. QED BY <1>5, <2>1, <3>1, <3>2 DEF Connects
  <2>2. ASSUME Connects(a), "Connecting" \notin a PROVE "Connecting" \in new
    <3>1. "Connecting" \in free /\ "Start" \in a /\ "IdentityReady" \in a
      BY <1>5, <2>2 DEF Connects
    <3>2. {"Start", "IdentityReady", "Connecting"} \subseteq Machine!Supported(a \cup free)
      BY <3>1, RequireIs DEF Machine!Supported
    <3>3. "Connecting" \in Machine!Satisfied(a \cup free)
      BY <3>2, RequireIs DEF Machine!Satisfied, Machine!Supported
    <3>4. QED BY <3>1, <3>3
  <2>3. QED BY <2>1, <2>2
<1>8. new = IF Connects(a) /\ "Connecting" \notin a THEN {"Connecting"} ELSE {}
  <2>1. new \subseteq {"Connecting"}
    BY <1>2, <1>3, <1>4, <1>6
  <2>2. QED BY <1>7, <2>1
<1> HIDE DEF new
<1>9. full = IF Connects(a) THEN a \cup {"Connecting"} ELSE a
  BY <1>8
<1>10. Machine!Without(full, new) = full
  <2>1. ASSUME NEW s \in full, NEW r \in new \ {s} PROVE s \notin Removes[r]
    <3>1. r = "Connecting" /\ Connects(a) /\ s \in a
      BY <1>8, <2>1
    <3>2. s # "Connected" /\ s # "Connecting" /\ s \in Live
      BY <1>2, <2>1, <3>1 DEF Connects
    <3>3. r \in Live /\ r \notin groupIdentityReady
      BY <3>1 DEF Live, groupIdentityReady
    <3>4. QED BY <3>2, <3>3, RemovesIs
  <2>2. QED BY <2>1 DEF Machine!Without
<1>11. Founded(full)
  <2>1. "Connecting" \in Live
    BY DEF Live
  <2>2. QED BY <1>9, <2>1, Names DEF Founded, Connects
<1>12. QED BY <1>1, <1>9, <1>10, <1>11, FoundedSatisfied

\* A transition to a founded target settles there, and in Connecting.
LEMMA SettleIs ==
  ASSUME NEW a, NEW b, Shape(a), Founded(b)
  PROVE  /\ Machine!Settle(a, b) = IF Connects(b) THEN b \cup {"Connecting"} ELSE b
         /\ Shape(Machine!Settle(a, b))
<1>1. Machine!Settle(a, b) = IF Connects(b) THEN b \cup {"Connecting"} ELSE b
  <2>1. CASE b = a
    BY <2>1 DEF Machine!Settle, Shape
  <2>2. CASE b # a
    BY <2>2, AutoIs DEF Machine!Settle
  <2>3. QED BY <2>1, <2>2
<1>2. "Connecting" \in Live
  BY DEF Live
<1>3. QED BY <1>1, <1>2, Names DEF Shape, Founded, Connects

-----------------------------------------------------------------------------
(* What each mutation does to a live machine *)

\* What a set loses to the states that remove members of it.
LEMMA WithoutIs ==
  ASSUME NEW S \in SUBSET Live, NEW by \in SUBSET Live
  PROVE  Machine!Without(S, by) =
           {s \in S : /\ s = "Connecting" => "Connected" \notin by
                      /\ s = "Connected" => "Connecting" \notin by
                      /\ s = "GenIdentity" => "IdentityReady" \notin by
                      /\ s = "IdentityReady" => "GenIdentity" \notin by}
<1>1. ASSUME NEW s \in S
      PROVE  (\A r \in by \ {s} : s \notin Removes[r]) <=>
               /\ s = "Connecting" => "Connected" \notin by
               /\ s = "Connected" => "Connecting" \notin by
               /\ s = "GenIdentity" => "IdentityReady" \notin by
               /\ s = "IdentityReady" => "GenIdentity" \notin by
  <2>1. \A r \in by : s \in Removes[r] <=>
          \/ r \in {"Connecting", "Connected"} /\ s \in {"Connecting", "Connected"}
          \/ r \in {"GenIdentity", "IdentityReady"} /\ s \in {"GenIdentity", "IdentityReady"}
    BY RemovesIs DEF groupIdentityReady
  <2>2. CASE s \in {"Connecting", "Connected"}
    BY <2>1, <2>2
  <2>3. CASE s \in {"GenIdentity", "IdentityReady"}
    BY <2>1, <2>3
  <2>4. CASE s \notin {"Connecting", "Connected", "GenIdentity", "IdentityReady"}
    BY <2>1, <2>4
  <2>5. QED BY <2>2, <2>3, <2>4
<1>2. QED BY <1>1 DEF Machine!Without

\* An accepted addition with a founded target.
LEMMA AddIs ==
  ASSUME NEW a, NEW called \in SUBSET Live, NEW b, Founded(b), called \subseteq b,
         Machine!Without(a \cup Machine!WithAdded(called), Machine!WithAdded(called)) = b
  PROVE  Machine!AfterAdd(a, called) = Machine!Settle(a, b)
<1>1. Machine!AddTarget(a, called) = b
  BY FoundedSatisfied DEF Machine!AddTarget
<1>2. QED BY <1>1 DEF Machine!AfterAdd, Machine!Accepted

\* What adding IdentityReady comes to.
LEMMA AddIdentity ==
  ASSUME NEW a, Shape(a)
  PROVE  /\ Founded((a \cup {"IdentityReady"}) \ {"GenIdentity"})
         /\ Machine!AfterAdd(a, {"IdentityReady"}) =
              Machine!Settle(a, (a \cup {"IdentityReady"}) \ {"GenIdentity"})
<1> DEFINE called == {"IdentityReady"}
           b == (a \cup called) \ {"GenIdentity"}
<1>1. a \subseteq Live /\ called \subseteq Live /\ called \cap Reports = {}
  BY DEF Shape, Founded, Live, Reports
<1>2. Founded(b)
  BY <1>1, Names DEF Shape, Founded
<1>3. Machine!WithAdded(called) = called
  BY <1>1, AddsIs
<1>4. Machine!Without(a \cup called, called) = b
  <2>1. a \cup called \in SUBSET Live
    BY <1>1
  <2>2. QED BY <1>1, <2>1, WithoutIs
<1>5. QED BY <1>1, <1>2, <1>3, <1>4, AddIs

\* What adding Ready and Connected comes to.
LEMMA AddConnected ==
  ASSUME NEW a, Shape(a), "Start" \in a
  PROVE  /\ Founded((a \cup {"Ready", "Connected"}) \ {"Connecting"})
         /\ Machine!AfterAdd(a, {"Ready", "Connected"}) =
              Machine!Settle(a, (a \cup {"Ready", "Connected"}) \ {"Connecting"})
<1> DEFINE called == {"Ready", "Connected"}
           b == (a \cup called) \ {"Connecting"}
<1>1. a \subseteq Live /\ called \subseteq Live /\ called \cap Reports = {}
  BY DEF Shape, Founded, Live, Reports
<1>2. Founded(b)
  BY <1>1, Names DEF Shape, Founded
<1>3. Machine!WithAdded(called) = called
  BY <1>1, AddsIs
<1>4. Machine!Without(a \cup called, called) = b
  <2>1. a \cup called \in SUBSET Live
    BY <1>1
  <2>2. QED BY <1>1, <2>1, WithoutIs
<1>5. QED BY <1>1, <1>2, <1>3, <1>4, AddIs

\* Without Start or Connected what stands on them is cancelled.
LEMMA AddCancelled ==
  ASSUME NEW a, Shape(a), NEW called \in SUBSET Live,
         \/ "Start" \notin a /\ called = {"Ready", "Connected"}
         \/ "Connected" \notin a /\ \E s \in Topical : called = {s}
  PROVE  Machine!AfterAdd(a, called) = a
<1> DEFINE w == Machine!WithAdded(called)
           S == a \cup w
           t == Machine!AddTarget(a, called)
<1>1. w \subseteq called \cup {"FwdToSim"}
  BY AddsIs
<1>2. t = Machine!Satisfied(Machine!Without(S, w))
  BY DEF Machine!AddTarget
<1>3. Machine!Without(S, w) \subseteq S
  BY DEF Machine!Without
<1> HIDE DEF w, t
<1>4. \A s \in t : Require[s] \subseteq S
  BY <1>2, <1>3, SatisfiedIs
<1>5. ~(called \subseteq t)
  <2>1. CASE "Start" \notin a /\ called = {"Ready", "Connected"}
    BY <1>1, <1>4, <2>1, RequireIs
  <2>2. ASSUME NEW s \in Topical, "Connected" \notin a, called = {s} PROVE ~(called \subseteq t)
    <3>1. Require[s] = {"Connected"} /\ s # "Connected"
      BY RequireIs, Names
    <3>2. QED BY <1>1, <1>4, <2>2, <3>1
  <2>3. QED BY <2>1, <2>2
<1>6. QED BY <1>5 DEF Machine!AfterAdd, Machine!Accepted, t

\* What adding Exception comes to.
LEMMA AddException ==
  ASSUME NEW a, Shape(a)
  PROVE  /\ Founded(a \cup {"Exception"})
         /\ Machine!AfterAdd(a, {"Exception"}) = Machine!Settle(a, a \cup {"Exception"})
<1> DEFINE called == {"Exception"}
           b == a \cup called
<1>1. a \subseteq Live /\ called \subseteq Live /\ called \cap Reports = {}
  BY DEF Shape, Founded, Live, Reports
<1>2. Founded(b)
  BY <1>1, Names DEF Shape, Founded
<1>3. Machine!WithAdded(called) = called
  BY <1>1, AddsIs
<1>4. Machine!Without(a \cup called, called) = b
  <2>1. a \cup called \in SUBSET Live
    BY <1>1
  <2>2. QED BY <1>1, <2>1, WithoutIs
<1>5. QED BY <1>1, <1>2, <1>3, <1>4, AddIs

\* What adding a state of a topic comes to.
LEMMA AddTopical ==
  ASSUME NEW a, Shape(a), NEW s \in Topical, "Connected" \in a
  PROVE  \E b : /\ Founded(b) /\ a \subseteq b /\ b \subseteq a \cup {s, "FwdToSim"}
                /\ Machine!AfterAdd(a, {s}) = Machine!Settle(a, b)
<1> DEFINE called == {s}
           w == Machine!WithAdded(called)
           b == a \cup w
<1>1. a \subseteq Live /\ called \subseteq Live /\ "FwdToSim" \in Live
  BY DEF Shape, Founded, Live
<1>2. called \subseteq w /\ w \subseteq {s, "FwdToSim"}
  BY <1>1, AddsIs
<1> HIDE DEF w
<1>3. \A r \in w : r \notin {"Connecting", "Connected", "GenIdentity", "IdentityReady", "Ready", "Start"}
  BY <1>2, Names
<1>4. Founded(b)
  <2>1. /\ b \subseteq Live /\ "Connected" \in b
        /\ \A r \in {"Connecting", "Connected", "GenIdentity", "IdentityReady", "Ready", "Start"} :
             r \in b <=> r \in a
    BY <1>1, <1>2, <1>3
  <2> HIDE DEF b
  <2>2. QED BY <2>1 DEF Shape, Founded
<1>5. Machine!Without(a \cup w, w) = b
  <2>1. a \cup w \in SUBSET Live /\ w \in SUBSET Live
    BY <1>1, <1>2
  <2>2. QED BY <1>3, <2>1, WithoutIs
<1>6. Machine!AfterAdd(a, called) = Machine!Settle(a, b)
  BY <1>1, <1>2, <1>4, <1>5, AddIs DEF w
<1>7. QED BY <1>2, <1>4, <1>6

\* What removing Start comes to: the states that require it go with it.
LEMMA RemoveStart ==
  ASSUME NEW a, Shape(a)
  PROVE  LET b == a \ ({"Start", "Ready", "Connecting", "Connected"} \cup Topical)
         IN  Founded(b) /\ Machine!AfterRemove(a, {"Start"}) = Machine!Settle(a, b)
<1> DEFINE b  == a \ ({"Start", "Ready", "Connecting", "Connected"} \cup Topical)
           b1 == a \ {"Start", "Ready", "Connecting", "Connected"}
<1>1. a \subseteq Live
  BY DEF Shape, Founded
<1>2. Machine!Supported(a \ {"Start"}) = b1
  <2>1. ASSUME NEW s \in a, s # "Start" PROVE Require[s] \subseteq a \ {"Start"} <=> s \in b1
    <3>1. CASE s \in {"Ready", "Connecting", "Connected"}
      BY <3>1, RequireIs
    <3>2. CASE s \in Topical
      BY <2>1, <3>2, RequireIs, Names DEF Shape, Founded
    <3>3. CASE s \in {"Exception", "FwdToSim", "GenIdentity", "IdentityReady"}
      BY <2>1, <3>3, RequireIs
    <3>4. QED BY <1>1, <2>1, <3>1, <3>2, <3>3 DEF Live
  <2>2. QED BY <2>1 DEF Machine!Supported
<1>3. Machine!Supported(b1) = b
  <2>1. ASSUME NEW s \in b1 PROVE Require[s] \subseteq b1 <=> s \in b
    <3>1. CASE s \in Topical
      BY <2>1, <3>1, RequireIs
    <3>2. CASE s \in {"Exception", "FwdToSim", "GenIdentity", "IdentityReady"}
      BY <2>1, <3>2, RequireIs, Names
    <3>3. QED BY <1>1, <2>1, <3>1, <3>2 DEF Live
  <2>2. QED BY <2>1 DEF Machine!Supported
<1>4. Machine!RemoveTarget(a, {"Start"}) = b
  BY <1>2, <1>3 DEF Machine!RemoveTarget, Machine!Satisfied
<1>5. Founded(b)
  BY <1>1, Names DEF Shape, Founded
<1>6. QED BY <1>4, <1>5 DEF Machine!AfterRemove

\* What removing states of topics comes to.
LEMMA RemoveTopical ==
  ASSUME NEW a, Shape(a), NEW S \in SUBSET Topical
  PROVE  Founded(a \ S) /\ Machine!AfterRemove(a, S) = Machine!Settle(a, a \ S)
<1>1. Founded(a \ S)
  <2>1. \A r \in S : r \notin {"Connecting", "Connected", "GenIdentity", "IdentityReady", "Ready", "Start"}
    BY Names
  <2>2. QED BY <2>1 DEF Shape, Founded
<1>2. Machine!RemoveTarget(a, S) = a \ S
  BY <1>1, FoundedSatisfied DEF Machine!RemoveTarget
<1>3. QED BY <1>1, <1>2 DEF Machine!AfterRemove

\* What one turn may change of the states that others rely on.
Turns(a, m, b) ==
  /\ Shape(b)
  /\ "Start" \in b => "Start" \in a
  /\ m # RemoveOf("Start") => /\ "Start" \in a => "Start" \in b
                              /\ "Ready" \in a => "Ready" \in b
  /\ "Connected" \in a /\ "Start" \in b => "Connected" \in b
  /\ "Connected" \in b => "Connected" \in a \/ m = AddOf({"Ready", "Connected"})
  /\ "IdentityReady" \in a => "IdentityReady" \in b
  /\ "IdentityReady" \in b => "IdentityReady" \in a \/ m = AddOf({"IdentityReady"})
  /\ "GenIdentity" \in b => "GenIdentity" \in a
  /\ "Connecting" \in b => "Connecting" \in a \/ "IdentityReady" \notin a

\* Every mutation the code makes turns the machine as the lemmas above say.
LEMMA AfterTurns ==
  ASSUME Shape(active), NEW m \in Mutation
  PROVE  Turns(active, m, After(m))
<1> DEFINE a == active
<1>1. ASSUME NEW b, Founded(b), After(m) = Machine!Settle(a, b)
      PROVE  Shape(After(m)) /\ After(m) = IF Connects(b) THEN b \cup {"Connecting"} ELSE b
  BY <1>1, SettleIs
<1>2. CASE m = AddOf({"IdentityReady"})
  <2> DEFINE b == (a \cup {"IdentityReady"}) \ {"GenIdentity"}
  <2>1. After(m) = Machine!AfterAdd(a, {"IdentityReady"})
    BY <1>2 DEF After, AddOf
  <2>2. Founded(b) /\ After(m) = Machine!Settle(a, b)
    BY <2>1, AddIdentity
  <2>3. Shape(After(m)) /\ After(m) = IF Connects(b) THEN b \cup {"Connecting"} ELSE b
    BY <1>1, <2>2
  <2>4. QED BY <1>2, <2>3 DEF Turns, Shape, Founded, Connects
<1>3. CASE m = AddOf({"Ready", "Connected"})
  <2> DEFINE b == (a \cup {"Ready", "Connected"}) \ {"Connecting"}
  <2>1. After(m) = Machine!AfterAdd(a, {"Ready", "Connected"})
    BY <1>3 DEF After, AddOf
  <2>2. CASE "Start" \in a
    <3>1. Founded(b) /\ After(m) = Machine!Settle(a, b)
      BY <2>1, <2>2, AddConnected
    <3>2. Shape(After(m)) /\ After(m) = IF Connects(b) THEN b \cup {"Connecting"} ELSE b
      BY <1>1, <3>1
    <3>3. QED BY <1>3, <2>2, <3>2 DEF Turns, Shape, Founded, Connects
  <2>3. CASE "Start" \notin a
    <3>1. After(m) = a
      <4>1. {"Ready", "Connected"} \in SUBSET Live
        BY DEF Live
      <4>2. QED BY <2>1, <2>3, <4>1, AddCancelled
    <3>2. QED BY <3>1 DEF Turns
  <2>4. QED BY <2>2, <2>3
<1>4. CASE m = AddOf({"Exception"})
  <2> DEFINE b == a \cup {"Exception"}
  <2>1. After(m) = Machine!AfterAdd(a, {"Exception"})
    BY <1>4 DEF After, AddOf
  <2>2. Founded(b) /\ After(m) = Machine!Settle(a, b)
    BY <2>1, AddException
  <2>3. Shape(After(m)) /\ After(m) = IF Connects(b) THEN b \cup {"Connecting"} ELSE b
    BY <1>1, <2>2
  <2>4. QED BY <2>3 DEF Turns, Shape, Founded, Connects
<1>5. ASSUME NEW s \in Topical, m = AddOf({s}) PROVE Turns(a, m, After(m))
  <2>1. After(m) = Machine!AfterAdd(a, {s})
    BY <1>5 DEF After, AddOf
  <2>2. CASE "Connected" \in a
    <3>1. PICK b : /\ Founded(b) /\ a \subseteq b /\ b \subseteq a \cup {s, "FwdToSim"}
                   /\ After(m) = Machine!Settle(a, b)
      BY <2>1, <2>2, AddTopical
    <3>2. Shape(After(m)) /\ After(m) = IF Connects(b) THEN b \cup {"Connecting"} ELSE b
      BY <1>1, <3>1
    <3>3. \A r \in {"Connecting", "Connected", "GenIdentity", "IdentityReady", "Ready", "Start"} :
            r \in b <=> r \in a
      BY <3>1, Names
    <3>4. ~Connects(b)
      BY <2>2, <3>3 DEF Connects
    <3>5. QED BY <3>2, <3>3, <3>4 DEF Turns
  <2>3. CASE "Connected" \notin a
    <3>1. After(m) = a
      <4>1. {s} \in SUBSET Live
        BY DEF Live
      <4>2. QED BY <2>1, <2>3, <4>1, AddCancelled
    <3>2. QED BY <3>1 DEF Turns
  <2>4. QED BY <2>2, <2>3
<1>6. CASE m = RemoveOf("Start")
  <2> DEFINE b == a \ ({"Start", "Ready", "Connecting", "Connected"} \cup Topical)
  <2>1. After(m) = Machine!AfterRemove(a, {"Start"})
    BY <1>6 DEF After, RemoveOf
  <2>2. Founded(b) /\ After(m) = Machine!Settle(a, b)
    BY <2>1, RemoveStart
  <2>3. Shape(After(m)) /\ After(m) = IF Connects(b) THEN b \cup {"Connecting"} ELSE b
    BY <1>1, <2>2
  <2>4. ~Connects(b) /\ \A r \in {"GenIdentity", "IdentityReady"} : r \in b <=> r \in a
    BY Names DEF Connects
  <2>5. QED BY <1>6, <2>3, <2>4 DEF Turns, RemoveOf
<1>7. ASSUME NEW S \in SUBSET Topical, m = [op |-> "remove", states |-> S]
      PROVE  Turns(a, m, After(m))
  <2> DEFINE b == a \ S
  <2>1. After(m) = Machine!AfterRemove(a, S)
    BY <1>7 DEF After
  <2>2. Founded(b) /\ After(m) = Machine!Settle(a, b)
    BY <2>1, RemoveTopical
  <2>3. Shape(After(m)) /\ After(m) = IF Connects(b) THEN b \cup {"Connecting"} ELSE b
    BY <1>1, <2>2
  <2>4. \A r \in {"Connecting", "Connected", "GenIdentity", "IdentityReady", "Ready", "Start"} :
          r \in b <=> r \in a
    BY Names
  <2>5. QED BY <2>3, <2>4 DEF Turns, Shape, Connects
<1>8. QED BY <1>2, <1>3, <1>4, <1>5, <1>6, <1>7 DEF Mutation

-----------------------------------------------------------------------------
(* The first turn *)

\* The first mutation of a peer's life.
LEMMA StartIs == Machine!AfterAdd({}, {"Start"}) = {"Start", "GenIdentity"}
<1> DEFINE a    == {"Start"}
           free == {s \in AutoStates \ a : \A r \in a : s \notin Removes[r]}
           new  == free \cap Machine!Satisfied(a \cup free)
<1>1. a \in SUBSET Live /\ AutoStates = {"Ready", "GenIdentity", "Connecting"}
  BY DEF Live, AutoStates
<1>2. Machine!WithAdded(a) = a
  <2>1. a \cap Reports = {}
    BY DEF Reports
  <2>2. QED BY <1>1, <2>1, AddsIs
<1>3. Machine!Without(a, a) = a
  BY <1>1, WithoutIs
<1>4. Machine!AddTarget({}, a) = a
  <2>1. Machine!Satisfied(a) = a
    BY RequireIs, SatisfiedIs
  <2>2. {} \cup a = a
    OBVIOUS
  <2>3. QED BY <1>2, <1>3, <2>1, <2>2 DEF Machine!AddTarget
<1>5. free = {"Ready", "GenIdentity", "Connecting"}
  <2>1. \A s \in AutoStates : s \notin Removes["Start"]
    BY <1>1, Names, RemovesIs DEF groupIdentityReady
  <2>2. QED BY <1>1, <2>1
<1>6. Machine!Satisfied(a \cup free) = {"Start", "GenIdentity"}
  <2>1. Machine!Supported(a \cup free) = {"Start", "GenIdentity"}
    BY <1>5, RequireIs DEF Machine!Supported
  <2>2. Machine!Supported({"Start", "GenIdentity"}) = {"Start", "GenIdentity"}
    BY RequireIs DEF Machine!Supported
  <2>3. QED BY <2>1, <2>2 DEF Machine!Satisfied
<1>7. new = {"GenIdentity"}
  BY <1>5, <1>6
<1>8. Machine!AutoTarget(a) = Machine!Satisfied(Machine!Without(a \cup new, new))
  BY DEF Machine!AutoTarget
<1>9. Machine!Without({"Start", "GenIdentity"}, {"GenIdentity"}) = {"Start", "GenIdentity"}
  <2>1. {"Start", "GenIdentity"} \in SUBSET Live /\ {"GenIdentity"} \in SUBSET Live
    BY DEF Live
  <2>2. QED BY <2>1, WithoutIs
<1>10. Machine!Satisfied({"Start", "GenIdentity"}) = {"Start", "GenIdentity"}
  BY RequireIs, SatisfiedIs
<1>11. Machine!AutoTarget(a) = {"Start", "GenIdentity"}
  <2>1. a \cup {"GenIdentity"} = {"Start", "GenIdentity"}
    OBVIOUS
  <2>2. QED BY <1>7, <1>8, <1>9, <1>10, <2>1
<1> HIDE DEF new, free
<1>12. a # {}
  OBVIOUS
<1>13. QED BY <1>4, <1>11, <1>12 DEF Machine!AfterAdd, Machine!Accepted, Machine!Settle

\* Only Start, and its removal, can wait at a fresh peer.
LEMMA FreshStep ==
  ASSUME Fresh, [Next]_vars PROVE PeerInv'
<1>1. CASE UNCHANGED vars
  BY <1>1 DEF vars, PeerInv, Fresh
<1>2. CASE SimRemoves
  <2>1. released' = TRUE /\ queue' = <<AddOf({"Start"}), RemoveOf("Start")>>
    <3>1. ~released /\ queue = <<AddOf({"Start"})>> /\ queue' = Append(queue, RemoveOf("Start"))
      BY <1>2 DEF SimRemoves, Post, Fresh
    <3>2. ASSUME NEW x, NEW y PROVE Append(<<x>>, y) = <<x, y>>
      <4>1. <<x>> \in Seq({x, y}) /\ <<x, y>> \in Seq({x, y})
        OBVIOUS
      <4>2. Len(Append(<<x>>, y)) = 2 /\ \A i \in 1..2 : Append(<<x>>, y)[i] = <<x, y>>[i]
        BY <4>1, AppendProperties
      <4>3. Append(<<x>>, y) \in Seq({x, y})
        BY <4>1, AppendProperties
      <4>4. QED BY <4>1, <4>2, <4>3, SeqEqual
    <3>3. QED BY <1>2, <3>1, <3>2 DEF SimRemoves
  <2>2. UNCHANGED <<active, gen, conn, key, hosts, ps, jobs, senders, disposed>>
    BY <1>2 DEF SimRemoves
  <2>3. QED BY <2>1, <2>2 DEF PeerInv, Fresh
<1>3. ASSUME NEW found \in BOOLEAN, NEW n \in 0..1, Turn(found, n) PROVE PeerInv'
  <2> DEFINE m == Head(queue)
             after == After(m)
  <2>1. m = AddOf({"Start"}) /\ Tail(queue) = IF released THEN <<RemoveOf("Start")>> ELSE <<>>
    BY DEF Fresh
  <2>2. after = {"Start", "GenIdentity"}
    <3>1. after = Machine!AfterAdd({}, {"Start"})
      BY <2>1 DEF After, AddOf, Fresh
    <3>2. QED BY <3>1, StartIs
  <2>3. Handled(m, after) = {}
    <3>1. m.states = {"Start"} /\ "Start" \notin Work \cup Reports
      BY <2>1 DEF AddOf, Work, Reports
    <3>2. QED BY <3>1 DEF Handled
  <2>4. Runs(m, after, "GenIdentity") /\ ~Runs(m, after, "Connecting") /\ ~Ended(after)
    BY <2>2 DEF Runs, Ended, Fresh
  <2> HIDE DEF m, after
  <2>5. /\ active' = after /\ gen' = "started" /\ conn' = conn /\ jobs' = jobs
        /\ disposed' = disposed
        /\ queue' = Tail(queue) \o <<>> \o <<>>
    BY <1>3, <2>3, <2>4 DEF Turn, TakesBack, LeavesAtEnd, m, after
  <2>6. UNCHANGED <<key, hosts, ps, senders, released>>
    BY <1>3 DEF Turn
  <2>7. queue' = IF released THEN <<RemoveOf("Start")>> ELSE <<>>
    <3>1. \A x : (<<x>> \o <<>> \o <<>> = <<x>>) /\ (<<>> \o <<>> \o <<>> = <<>>)
      OBVIOUS
    <3>2. QED BY <2>1, <2>5, <3>1
  <2>8. queue' \in Seq(Allowed')
    <3>1. released => RemoveOf("Start") \in Allowed'
      <4>1. RemoveOf("Start") \in Mutation
        BY DEF Mutation
      <4>2. \A S : RemoveOf("Start") # AddOf(S)
        BY DEF RemoveOf, AddOf
      <4>3. QED BY <2>6, <4>1, <4>2 DEF Allowed
    <3>2. QED BY <2>7, <3>1
  <2>9. Shape(active)'
    <3>1. active' = {"Start", "GenIdentity"}
      BY <2>2, <2>5
    <3>2. QED BY <3>1, Names DEF Shape, Founded, Connects, Live
  <2>10. QED
    <3>1. active' = {"Start", "GenIdentity"}
      BY <2>2, <2>5
    <3>2. /\ gen' = "started" /\ conn' = "none" /\ jobs' = {} /\ hosts' = 0
          /\ key' = FALSE /\ ps' = FALSE /\ senders' = FALSE /\ released' \in BOOLEAN
      BY <2>5, <2>6 DEF Fresh
    <3>3. "IdentityReady" \notin active' /\ "Connected" \notin active'
      BY <3>1
    <3>4. QED BY <2>8, <2>9, <3>2, <3>3 DEF PeerInv, Lively
<1>4. QED
  BY <1>1, <1>2, <1>3
  DEF Next, MachineTurn, Disposal, Identity, Connection, GenStarts, GenLoads, GenReports,
      GenFails, ConnStarts, ConnHost, ConnPubsub, ConnReports, ConnFails, JobEnds, SimAsks,
      SimStartsSender, SenderPosts, Picked, Fresh

-----------------------------------------------------------------------------
(* Later turns, and the goroutines *)

\* A sequence over S is one over every larger set.
LEMMA SeqLarger ==
  ASSUME NEW S, NEW T, S \subseteq T, NEW s \in Seq(S) PROVE s \in Seq(T)
<1>1. s \in [1..Len(s) -> S] /\ Len(s) \in Nat
  OBVIOUS
<1>2. s \in [1..Len(s) -> T]
  BY <1>1
<1>3. QED BY <1>1, <1>2

\* What a mutation waits for is there to stay.
LEMMA AllowedGrows ==
  ASSUME key => key', ps => ps', released => released', Served => Served'
  PROVE  Allowed \subseteq Allowed' /\ \A q \in Seq(Allowed) : q \in Seq(Allowed')
<1>1. Allowed \subseteq Allowed'
  BY DEF Allowed
<1>2. QED BY <1>1, SeqLarger

\* A queue of what may be asked for stays one as more may be asked for.
LEMMA PostKept ==
  ASSUME queue \in Seq(Allowed), key => key', ps => ps', released => released', Served => Served',
         NEW m \in Allowed', Post(m)
  PROVE  queue' \in Seq(Allowed')
<1>1. queue \in Seq(Allowed')
  BY AllowedGrows
<1>2. queue' = queue \/ queue' = Append(queue, m)
  BY DEF Post
<1>3. QED BY <1>1, <1>2

\* The goroutines and the simulator leave the machine's states alone.
LEMMA OthersStep ==
  ASSUME Lively,
         \/ Disposal \/ Identity \/ Connection
         \/ \E r \in Reports : JobEnds(r)
         \/ \E s \in Work : SimAsks(s)
         \/ SimStartsSender \/ SenderPosts \/ SimRemoves
  PROVE  Lively' /\ active' = active
<1>1. /\ Shape(active) /\ queue \in Seq(Allowed)
      /\ gen \in {"none", "started", "loading", "loaded"}
      /\ conn \in {"none", "started", "dialing", "host", "pubsub"}
      /\ jobs \subseteq Reports /\ {key, ps, senders, released} \subseteq BOOLEAN
      /\ gen = "loaded" \/ "IdentityReady" \in active => key
      /\ conn # "none" \/ hosts # 0 => "IdentityReady" \in active
      /\ hosts \in {0, 1} /\ (conn \in {"started", "dialing"} => hosts = 0)
      /\ conn = "pubsub" \/ "Connected" \in active => ps
      /\ jobs # {} \/ senders => Served
  BY DEF Lively
<1>2. active' = active /\ (Served => Served')
  BY DEF Disposal, Identity, Connection, GenStarts, GenLoads, GenReports,
         GenFails, ConnStarts, ConnHost, ConnPubsub, ConnReports, ConnFails, JobEnds, SimAsks,
         SimStartsSender, SenderPosts, SimRemoves, Served
<1>3. Shape(active)'
  BY <1>1, <1>2 DEF Shape, Founded, Connects
\* A mutation that asks for nothing, and one about a topic.
<1>4. AddOf({"Exception"}) \in Allowed'
  <2>1. /\ {"Exception"} # {"IdentityReady"} /\ {"Exception"} # {"Ready", "Connected"}
        /\ \A s \in Topical : {"Exception"} # {s}
    BY Names
  <2>2. AddOf({"Exception"}) # RemoveOf("Start") /\ \A S, T : AddOf(S) = AddOf(T) => S = T
    BY DEF AddOf, RemoveOf
  <2>3. QED BY <2>1, <2>2 DEF Allowed, Mutation
<1>5. ASSUME NEW s \in Topical, Served PROVE AddOf({s}) \in Allowed'
  <2>1. {s} # {"IdentityReady"} /\ {s} # {"Ready", "Connected"}
    BY Names
  <2>2. AddOf({s}) # RemoveOf("Start") /\ \A S, T : AddOf(S) = AddOf(T) => S = T
    BY DEF AddOf, RemoveOf
  <2>3. QED BY <1>2, <1>5, <2>1, <2>2 DEF Allowed, Mutation
<1>6. ASSUME UNCHANGED <<gen, conn, key, hosts, ps, released>>, queue' \in Seq(Allowed'),
             jobs' \subseteq Reports, senders' \in BOOLEAN, jobs' # {} \/ senders' => Served
      PROVE  Lively'
  BY <1>1, <1>2, <1>3, <1>6 DEF Lively
<1>7. CASE Disposal
  BY <1>1, <1>6, <1>7 DEF Disposal
<1>8. CASE Identity
  <2>1. UNCHANGED <<conn, hosts, ps, jobs, senders, released>> /\ (key => key') /\ key' \in BOOLEAN
    BY <1>1, <1>8 DEF Identity, GenStarts, GenLoads, GenReports, GenFails
  <2>2. /\ gen' \in {"none", "started", "loading", "loaded"}
        /\ gen' = "loaded" => key'
    BY <1>1, <1>8 DEF Identity, GenStarts, GenLoads, GenReports, GenFails
  <2>3. queue' \in Seq(Allowed')
    <3>1. CASE GenStarts \/ GenLoads
      BY <1>1, <1>2, <2>1, <3>1, AllowedGrows DEF GenStarts, GenLoads
    <3>2. CASE GenReports
      <4>1. key' /\ Post(AddOf({"IdentityReady"}))
        BY <1>1, <3>2 DEF GenReports
      <4>2. AddOf({"IdentityReady"}) \in Allowed'
        <5>1. {"IdentityReady"} # {"Ready", "Connected"} /\ \A s \in Topical : {"IdentityReady"} # {s}
          BY Names
        <5>2. AddOf({"IdentityReady"}) # RemoveOf("Start") /\ \A S, T : AddOf(S) = AddOf(T) => S = T
          BY DEF AddOf, RemoveOf
        <5>3. QED BY <4>1, <5>1, <5>2 DEF Allowed, Mutation
      <4>3. QED BY <1>1, <1>2, <2>1, <4>1, <4>2, PostKept
    <3>3. CASE GenFails
      BY <1>1, <1>2, <1>4, <2>1, <3>3, PostKept DEF GenFails
    <3>4. QED BY <1>8, <3>1, <3>2, <3>3 DEF Identity
  <2>4. QED BY <1>1, <1>2, <1>3, <2>1, <2>2, <2>3 DEF Lively
<1>9. CASE Connection
  <2>1. UNCHANGED <<gen, key, jobs, senders, released>> /\ (ps => ps') /\ ps' \in BOOLEAN
    BY <1>1, <1>9 DEF Connection, ConnStarts, ConnHost, ConnPubsub, ConnReports, ConnFails
  <2>2. /\ conn' \in {"none", "started", "dialing", "host", "pubsub"}
        /\ conn # "none" /\ (conn' = "pubsub" => ps')
        /\ hosts' \in {0, 1} /\ (conn' \in {"started", "dialing"} => hosts' = 0)
    BY <1>1, <1>9 DEF Connection, ConnStarts, ConnHost, ConnPubsub, ConnReports, ConnFails
  <2>3. queue' \in Seq(Allowed')
    <3>1. CASE ConnStarts \/ ConnHost \/ ConnPubsub
      BY <1>1, <1>2, <2>1, <3>1, AllowedGrows DEF ConnStarts, ConnHost, ConnPubsub
    <3>2. CASE ConnReports
      <4>1. ps' /\ Post(AddOf({"Ready", "Connected"}))
        BY <1>1, <3>2 DEF ConnReports
      <4>2. AddOf({"Ready", "Connected"}) \in Allowed'
        <5>1. {"Ready", "Connected"} # {"IdentityReady"} /\ \A s \in Topical : {"Ready", "Connected"} # {s}
          BY Names
        <5>2. /\ AddOf({"Ready", "Connected"}) # RemoveOf("Start")
              /\ \A S, T : AddOf(S) = AddOf(T) => S = T
          BY DEF AddOf, RemoveOf
        <5>3. QED BY <4>1, <5>1, <5>2 DEF Allowed, Mutation
      <4>3. QED BY <1>1, <1>2, <2>1, <4>1, <4>2, PostKept
    <3>3. CASE ConnFails
      BY <1>1, <1>2, <1>4, <2>1, <3>3, PostKept DEF ConnFails
    <3>4. QED BY <1>9, <3>1, <3>2, <3>3 DEF Connection
  <2>4. QED BY <1>1, <1>2, <1>3, <2>1, <2>2, <2>3 DEF Lively
<1>10. ASSUME NEW r \in Reports, JobEnds(r) PROVE Lively'
  <2>1. UNCHANGED <<gen, conn, key, hosts, ps, senders, released>> /\ Served /\ jobs' \subseteq jobs
    BY <1>1, <1>10 DEF JobEnds
  <2>2. AddOf({r}) \in Allowed'
    BY <1>5, <2>1 DEF Topical
  <2>3. queue' \in Seq(Allowed')
    <3>1. CASE Post(AddOf({r}))
      BY <1>1, <1>2, <2>1, <2>2, <3>1, PostKept
    <3>2. CASE UNCHANGED queue
      BY <1>1, <1>2, <2>1, <3>2, AllowedGrows
    <3>3. QED BY <1>10, <3>1, <3>2 DEF JobEnds
  <2>4. QED BY <1>1, <1>6, <2>1, <2>3
<1>11. ASSUME Picked PROVE Served
  BY <1>1, <1>11 DEF Picked, Shape, Founded, Served
<1>12. ASSUME NEW s \in Work, SimAsks(s) PROVE Lively'
  <2>1. UNCHANGED <<gen, conn, key, hosts, ps, jobs, senders, released>> /\ Served
    BY <1>11, <1>12 DEF SimAsks
  <2>2. AddOf({s}) \in Allowed'
    BY <1>5, <2>1 DEF Topical
  <2>3. queue' \in Seq(Allowed')
    BY <1>1, <1>2, <1>12, <2>1, <2>2, PostKept DEF SimAsks
  <2>4. QED BY <1>1, <1>6, <2>1, <2>3
<1>13. CASE SimStartsSender
  <2>1. UNCHANGED <<gen, conn, key, hosts, ps, jobs, queue, released>> /\ Served /\ senders' = TRUE
    BY <1>11, <1>13 DEF SimStartsSender
  <2>2. queue' \in Seq(Allowed')
    <3>1. UNCHANGED <<key, ps, released, queue>>
      BY <2>1
    <3>2. queue \in Seq(Allowed')
      BY <1>1, <1>2, <3>1, AllowedGrows
    <3>3. QED BY <3>1, <3>2
  <2>3. UNCHANGED <<gen, conn, key, hosts, ps, released>> /\ jobs' \subseteq Reports
    BY <1>1, <2>1
  <2>4. senders' \in BOOLEAN
    BY <1>13 DEF SimStartsSender
  <2>5. jobs' # {} \/ senders' => Served
    <3>1. Served
      BY <1>11, <1>13 DEF SimStartsSender
    <3>2. QED BY <3>1
  <2>6. QED BY <1>2, <1>6, <2>2, <2>3, <2>4, <2>5
<1>14. CASE SenderPosts
  <2>1. UNCHANGED <<gen, conn, key, hosts, ps, jobs, released>> /\ Served /\ senders' = FALSE
    BY <1>1, <1>14 DEF SenderPosts
  <2>2. AddOf({"SendingMsgs"}) \in Allowed'
    BY <1>5, <2>1 DEF Topical, Work
  <2>3. UNCHANGED <<gen, conn, key, hosts, ps, released>> /\ jobs' \subseteq Reports
    BY <1>1, <2>1
  <2>4. queue' \in Seq(Allowed')
    <3>1. Post(AddOf({"SendingMsgs"}))
      BY <1>14 DEF SenderPosts
    <3>2. QED BY <1>1, <1>2, <2>2, <2>3, <3>1, PostKept
  <2>5. senders' \in BOOLEAN
    BY <1>14 DEF SenderPosts
  <2>6. jobs' # {} \/ senders' => Served
    <3>1. Served
      BY <1>1, <1>14 DEF SenderPosts
    <3>2. QED BY <3>1
  <2>7. QED BY <1>2, <1>6, <2>3, <2>4, <2>5, <2>6
<1>15. CASE SimRemoves
  <2>1. UNCHANGED <<gen, conn, key, hosts, ps, jobs, senders>> /\ released' = TRUE
    BY <1>15 DEF SimRemoves
  <2>2. RemoveOf("Start") \in Allowed'
    <3>1. \A S : RemoveOf("Start") # AddOf(S)
      BY DEF RemoveOf, AddOf
    <3>2. QED BY <2>1, <3>1 DEF Allowed, Mutation
  <2>3. queue' \in Seq(Allowed')
    BY <1>1, <1>2, <1>15, <2>1, <2>2, PostKept DEF SimRemoves
  <2>4. QED BY <1>1, <1>2, <1>3, <2>1, <2>3 DEF Lively
<1>16. QED
  BY <1>2, <1>7, <1>8, <1>9, <1>10, <1>12, <1>13, <1>14, <1>15
\* A turn of a live machine.
LEMMA LivelyTurn ==
  ASSUME Lively, NEW found \in BOOLEAN, NEW n \in 0..1, Turn(found, n)
  PROVE  /\ Lively'
         /\ \E m \in Allowed : Turns(active, m, active') /\ m = Head(queue)
<1> DEFINE m       == Head(queue)
           after   == After(m)
           handled == Handled(m, after)
<1>1. /\ Shape(active) /\ queue \in Seq(Allowed) /\ queue # <<>>
      /\ gen \in {"none", "started", "loading", "loaded"}
      /\ conn \in {"none", "started", "dialing", "host", "pubsub"}
      /\ jobs \subseteq Reports /\ {key, ps, senders, released} \subseteq BOOLEAN
      /\ gen = "loaded" \/ "IdentityReady" \in active => key
      /\ conn # "none" \/ hosts # 0 => "IdentityReady" \in active
      /\ hosts \in {0, 1} /\ (conn \in {"started", "dialing"} => hosts = 0)
      /\ conn = "pubsub" \/ "Connected" \in active => ps
      /\ jobs # {} \/ senders => Served
  BY DEF Lively, Turn
<1>2. m \in Allowed /\ Tail(queue) \in Seq(Allowed)
  BY <1>1
<1>3. Turns(active, m, after)
  BY <1>1, <1>2, AfterTurns DEF Allowed
<1>4. /\ active' = after
      /\ gen' = IF Runs(m, after, "GenIdentity") THEN "started" ELSE gen
      /\ conn' = IF Runs(m, after, "Connecting") THEN "started" ELSE conn
      /\ jobs' = jobs \cup {Report[s] : s \in handled \cap DOMAIN Report}
      /\ queue' = Tail(queue) \o TakesBack(handled, found) \o LeavesAtEnd(after, n)
  BY DEF Turn
<1>5. UNCHANGED <<key, hosts, ps, released>>
  BY DEF Turn
<1>6. UNCHANGED senders
  BY DEF Turn
<1>7. m.op = "remove" => m.states \cap {"GenIdentity", "Connecting"} = {}
  <2>1. m.op = "remove" => m = RemoveOf("Start") \/ m.states \in SUBSET Topical
    BY <1>2 DEF Allowed, Mutation, AddOf
  <2>2. QED BY <2>1, Names DEF RemoveOf
<1> HIDE DEF m, after, handled
<1>8. gen' = gen
  <2>1. "GenIdentity" \in after => "GenIdentity" \in active
    BY <1>3 DEF Turns
  <2>2. "GenIdentity" \notin Work \cup Reports
    BY DEF Work, Reports
  <2>3. ~Runs(m, after, "GenIdentity")
    BY <1>7, <2>1, <2>2 DEF Runs
  <2>4. QED BY <1>4, <2>3
<1>9. conn' = conn \/ (conn' = "started" /\ conn = "none" /\ hosts = 0 /\ "IdentityReady" \in after)
  <2>1. CASE Runs(m, after, "Connecting")
    <3>1. "Connecting" \notin Work \cup Reports
      BY DEF Work, Reports
    <3>2. "Connecting" \in after /\ "Connecting" \notin active
      BY <1>7, <2>1, <3>1 DEF Runs
    <3>3. "IdentityReady" \notin active /\ "IdentityReady" \in after
      BY <1>3, <3>2 DEF Turns, Shape, Founded
    <3>4. QED BY <1>1, <1>4, <2>1, <3>3
  <2>2. QED BY <1>4, <2>1
<1>10. Shape(after) /\ Shape(active')
  BY <1>3, <1>4 DEF Turns
<1>11. Served => Served'
  BY <1>3, <1>4 DEF Turns, Served
<1>12. handled \subseteq Topical /\ (handled # {} => Served')
  <2>1. handled \subseteq Topical /\ handled \subseteq after
    BY DEF handled, Handled, Runs, Topical
  <2>2. QED BY <1>4, <1>10, <2>1 DEF Shape, Founded, Served
<1>13. Ended(after) => Served'
  BY <1>4 DEF Ended, Served
<1>14. jobs' \subseteq Reports /\ (jobs' # {} => Served')
  <2>1. \A s \in DOMAIN Report : Report[s] \in Reports
    BY DEF Report, Reports
  <2>2. jobs' \subseteq Reports
    BY <1>1, <1>4, <2>1
  <2>3. jobs' # {} => jobs # {} \/ handled # {}
    BY <1>4
  <2>4. QED BY <1>1, <1>11, <1>12, <2>2, <2>3
<1>15. Allowed \subseteq Allowed' /\ Tail(queue) \in Seq(Allowed')
  BY <1>2, <1>5, <1>11, AllowedGrows
<1>16. ASSUME NEW s \in Topical, Served' PROVE AddOf({s}) \in Allowed'
  <2>1. {s} # {"IdentityReady"} /\ {s} # {"Ready", "Connected"}
    BY Names
  <2>2. AddOf({s}) # RemoveOf("Start") /\ \A S, T : AddOf(S) = AddOf(T) => S = T
    BY DEF AddOf, RemoveOf
  <2>3. QED BY <1>16, <2>1, <2>2 DEF Allowed, Mutation
<1>17. TakesBack(handled, found) \in Seq(Allowed')
  <2>1. handled # {} => [op |-> "remove", states |-> handled] \in Allowed'
    <3>1. \A S : [op |-> "remove", states |-> handled] # AddOf(S)
      BY DEF AddOf
    <3>2. [op |-> "remove", states |-> handled] = RemoveOf("Start") => handled = {"Start"}
      BY DEF RemoveOf
    <3>3. handled # {"Start"}
      BY <1>12, Names
    <3>4. QED BY <1>12, <3>1, <3>2, <3>3 DEF Allowed, Mutation
  <2>2. handled # {} => AddOf({"TopicLeft"}) \in Allowed'
    BY <1>12, <1>16 DEF Topical, Reports
  <2>3. \A x, y \in Allowed' : <<x>> \o <<y>> \in Seq(Allowed') /\ <<x>> \o <<>> \in Seq(Allowed')
    OBVIOUS
  <2>4. QED BY <2>1, <2>2, <2>3 DEF TakesBack
<1>18. LeavesAtEnd(after, n) \in Seq(Allowed')
  <2>1. Ended(after) => AddOf({"LeavingTopic"}) \in Allowed'
    BY <1>13, <1>16 DEF Topical, Work
  <2>2. QED BY <2>1 DEF LeavesAtEnd
<1>19. queue' \in Seq(Allowed')
  BY <1>4, <1>15, <1>17, <1>18
<1>20. "IdentityReady" \in after => key
  <2>1. "IdentityReady" \in after => "IdentityReady" \in active \/ m = AddOf({"IdentityReady"})
    BY <1>3 DEF Turns
  <2>2. QED BY <1>1, <1>2, <2>1 DEF Allowed
<1>21. "Connected" \in after => ps
  <2>1. "Connected" \in after => "Connected" \in active \/ m = AddOf({"Ready", "Connected"})
    BY <1>3 DEF Turns
  <2>2. QED BY <1>1, <1>2, <2>1 DEF Allowed
<1>22. "IdentityReady" \in active => "IdentityReady" \in after
  BY <1>3 DEF Turns
<1>23. Lively'
  <2>1. {key, ps, senders, released}' \subseteq BOOLEAN
    BY <1>1, <1>5, <1>6
  <2>2. /\ gen' \in {"none", "started", "loading", "loaded"}
        /\ gen' = "loaded" \/ "IdentityReady" \in active' => key'
    BY <1>1, <1>4, <1>5, <1>8, <1>20
  <2>3. /\ conn' \in {"none", "started", "dialing", "host", "pubsub"}
        /\ conn' # "none" \/ hosts' # 0 => "IdentityReady" \in active'
        /\ hosts' \in {0, 1} /\ (conn' \in {"started", "dialing"} => hosts' = 0)
    BY <1>1, <1>4, <1>5, <1>9, <1>22
  <2>4. conn' = "pubsub" \/ "Connected" \in active' => ps'
    BY <1>1, <1>4, <1>5, <1>9, <1>21
  <2>5. jobs' # {} \/ senders' => Served'
    <3>1. senders' => Served'
      BY <1>1, <1>6, <1>11
    <3>2. QED BY <1>14, <3>1
  <2>6. QED BY <1>10, <1>14, <1>19, <2>1, <2>2, <2>3, <2>4, <2>5 DEF Lively
<1>24. QED BY <1>2, <1>3, <1>4, <1>23 DEF m
-----------------------------------------------------------------------------
(* The invariant, and what it says *)

\* Through every step a peer is fresh or lively (peer.go, all handlers).
THEOREM PeerInvariance == Spec => []PeerInv
<1>1. Init => PeerInv
  BY DEF Init, PeerInv, Fresh
<1>2. PeerInv /\ [Next]_vars => PeerInv'
  <2> SUFFICES ASSUME Lively, [Next]_vars PROVE Lively'
    BY FreshStep DEF PeerInv
  <2>1. CASE UNCHANGED vars
    BY <2>1 DEF vars, Lively, Shape, Founded, Connects, Served, Allowed
  <2>2. CASE MachineTurn
    BY <2>2, LivelyTurn DEF MachineTurn
  <2>3. CASE ~MachineTurn /\ Next
    BY <2>3, OthersStep DEF Next
  <2>4. QED BY <2>1, <2>2, <2>3
<1>3. QED BY <1>1, <1>2, PTL DEF Spec

\* ss_peer.go:94: at most one state of each group is active.
THEOREM OneOfEach == Spec => []GroupsExclusive
<1>1. ASSUME PeerInv PROVE GroupsExclusive
  <2>1. \E c, i \in Live : active \cap groupConnected \subseteq {c}
                        /\ active \cap groupIdentityReady \subseteq {i}
    <3>1. "Disconnecting" \notin active /\ {"Connecting", "Connected"} \subseteq Live
          /\ groupIdentityReady \subseteq Live
      BY <1>1, Names DEF PeerInv, Fresh, Lively, Shape, Founded, Live, groupIdentityReady
    <3>2. ~({"Connecting", "Connected"} \subseteq active) /\ ~(groupIdentityReady \subseteq active)
      BY <1>1 DEF PeerInv, Fresh, Lively, Shape, Founded, groupIdentityReady
    <3>3. \E c \in Live : active \cap groupConnected \subseteq {c}
      BY <3>1, <3>2 DEF groupConnected
    <3>4. \E i \in Live : active \cap groupIdentityReady \subseteq {i}
      BY <3>1, <3>2 DEF groupIdentityReady
    <3>5. QED BY <3>3, <3>4
  <2>2. ASSUME NEW S, NEW x, S \subseteq {x} PROVE Cardinality(S) <= 1
    <3>1. S = {} \/ S = {x}
      BY <2>2
    <3>2. Cardinality({}) = 0 /\ Cardinality({x}) = 1
      BY FS_EmptySet, FS_Singleton
    <3>3. QED BY <3>1, <3>2
  <2>3. QED BY <2>1, <2>2 DEF GroupsExclusive
<1>2. QED BY <1>1, PeerInvariance, PTL

\* peer.go:200-340: a connecting peer has its key, a connected one its pubsub instance.
THEOREM FilledFirst == Spec => []FilledInTime
<1>1. PeerInv => FilledInTime
  BY DEF PeerInv, Fresh, Lively, FilledInTime
<1>2. QED BY <1>1, PeerInvariance, PTL

\* peer.go, ConnectingState: no second host, whatever is added, removed or fails.
THEOREM HostOnce == Spec => []OneHost
<1>1. PeerInv => OneHost
  BY DEF PeerInv, Fresh, Lively, OneHost
<1>2. QED BY <1>1, PeerInvariance, PTL

\* What waits about a topic at a started peer finds Connected.
THEOREM WorkGetsDone == Spec => []WorkNotCancelled
<1>1. ASSUME PeerInv, "Start" \in active, NEW i \in DOMAIN queue,
             queue[i].op = "add", queue[i].states \subseteq Work \cup Reports
      PROVE  "Connected" \in active
  <2>1. queue \in Seq(Allowed)
    BY <1>1 DEF PeerInv, Fresh, Lively
  <2>2. queue[i] \in Allowed
    BY <1>1, <2>1
  <2>3. \E s \in Topical : queue[i] = AddOf({s})
    BY <1>1, <2>2, Names DEF Allowed, Mutation, AddOf, RemoveOf, Topical
  <2>4. QED BY <1>1, <2>2, <2>3 DEF Allowed, Served
<1>2. PeerInv => WorkNotCancelled
  BY <1>1 DEF WorkNotCancelled
<1>3. QED BY <1>2, PeerInvariance, PTL

\* A peer the simulator may pick stays Ready: no turn of its machine and no goroutine
\* takes Ready back before Start is removed.
THEOREM PickedStaysReady == Spec => ReadyStays
<1>1. ASSUME PeerInv, [Next]_vars, Picked PROVE "Ready" \in active'
  <2>1. Lively
    BY <1>1 DEF PeerInv, Fresh, Picked
  <2>2. ASSUME NEW found \in BOOLEAN, NEW n \in 0..1, Turn(found, n) PROVE "Ready" \in active'
    <3>1. PICK m \in Allowed : Turns(active, m, active')
      BY <2>1, <2>2, LivelyTurn
    <3>2. m # RemoveOf("Start")
      BY <1>1 DEF Allowed, Picked
    <3>3. QED BY <1>1, <3>1, <3>2 DEF Turns, Picked
  <2>3. CASE UNCHANGED vars
    BY <1>1, <2>3 DEF vars, Picked
  <2>4. CASE ~MachineTurn /\ Next
    <3>1. active' = active
      BY <2>1, <2>4, OthersStep DEF Next
    <3>2. QED BY <1>1, <3>1 DEF Picked
  <2>5. QED BY <1>1, <2>2, <2>3, <2>4 DEF MachineTurn
<1>2. PeerInv /\ [Next]_vars => [Picked => "Ready" \in active']_vars
  BY <1>1
<1>3. QED BY <1>2, PeerInvariance, PTL DEF Spec, ReadyStays
=============================================================================
