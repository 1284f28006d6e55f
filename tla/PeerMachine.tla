----------------------------- MODULE PeerMachine -----------------------------
(***************************************************************************)
(* The life of one simulated peer (internal/sim/peer.go with the states of *)
(* internal/sim/states/peer/ss_peer.go): its machine, the queue of         *)
(* mutations the machine works through, and the goroutines its handlers    *)
(* start, which create the identity, the libp2p host and the pubsub        *)
(* instance outside the machine and report back by queueing a mutation.    *)
(***************************************************************************)
EXTENDS Integers, Sequences, FiniteSets

CONSTANTS
  MaxQueue,     \* bound of this model: mutations waiting at the machine
  Failures      \* BOOLEAN: may LoadIdentity, libp2p.New or NewGossipSub fail?

ASSUME PeerAssumption == MaxQueue \in Nat /\ Failures \in BOOLEAN

VARIABLES
  active,       \* active states
  queue,        \* mutations, oldest first
  gen,          \* the goroutine of GenIdentityState
  conn,         \* the goroutine of ConnectingState
  key,          \* Peer.key is loaded
  hosts,        \* libp2p hosts created (none is ever closed)
  ps,           \* Peer.ps is set
  jobs,         \* what the goroutines of the topic handlers will report
  senders,      \* a goroutine of MsgRandomTopicState that holds this peer
  released,     \* the simulator asked for the removal of Start
  disposed      \* "no", "asked" for by StartEnd, or "done"

vars == <<active, queue, gen, conn, key, hosts, ps, jobs, senders, released, disposed>>

-----------------------------------------------------------------------------
(* ss_peer.go *)

groupConnected     == {"Connecting", "Connected", "Disconnecting"}
groupIdentityReady == {"GenIdentity", "IdentityReady"}
\* Multi states whose handlers work on a topic, and what each reports.
Work    == {"JoiningTopic", "LeavingTopic", "SendingMsgs"}
Reports == {"TopicJoined", "TopicLeft", "MsgsSent"}

States == {"Start", "IsDHT", "Ready", "BootstrapsConnected", "EventHostConnected",
           "FwdToSim", "Exception"}
            \cup groupConnected \cup groupIdentityReady \cup Work \cup Reports

Require == [s \in States |->
  CASE s = "Ready"                            -> {"Start", "Connected"}
    [] s = "Connecting"                       -> {"Start", "IdentityReady"}
    [] s \in {"Connected", "EventHostConnected"} -> {"Start"}
    [] s \in Work \cup Reports                -> {"Connected"}
    [] OTHER                                  -> {}]
Adds == [s \in States |->
  CASE s = "EventHostConnected" -> {"Connected"}
    [] s \in Reports            -> {"FwdToSim"}
    [] OTHER                    -> {}]
\* Mutant: Connected does not keep Connecting out.
RemovesLoose == [s \in States |->
  CASE s \in {"Connecting", "Disconnecting"} -> groupConnected
    [] s \in groupIdentityReady              -> groupIdentityReady
    [] OTHER                                 -> {}]
Removes == [s \in States |->
  CASE s = "Disconnecting"         -> groupConnected \cup {"BootstrapsConnected"}
    [] s \in groupConnected        -> groupConnected
    [] s \in groupIdentityReady    -> groupIdentityReady
    [] OTHER                       -> {}]
AutoStates == {"Ready", "GenIdentity", "Connecting"}

Machine == INSTANCE AsyncMachine WITH
  State <- States, Require <- Require, Adds <- Adds, Removes <- Removes, Auto <- AutoStates

AddOf(S)    == [op |-> "add", states |-> S]
RemoveOf(s) == [op |-> "remove", states |-> {s}]
\* Work that a goroutine reports when it is done.
Report == [s \in {"JoiningTopic", "SendingMsgs"} |->
             IF s = "JoiningTopic" THEN "TopicJoined" ELSE "MsgsSent"]

-----------------------------------------------------------------------------
\* newPeer and the Add1(Start) of AddPeerState.
Init ==
  /\ active = {} /\ queue = <<AddOf({"Start"})>>
  /\ gen = "none" /\ conn = "none"
  /\ key = FALSE /\ hosts = 0 /\ ps = FALSE
  /\ jobs = {} /\ senders = FALSE /\ released = FALSE /\ disposed = "no"

After(m) == IF m.op = "add" THEN Machine!AfterAdd(active, m.states)
                            ELSE Machine!AfterRemove(active, m.states)

\* A state's handler runs when the state becomes active (an Auto state that is taken
\* back becomes active again at once), and for a Multi state whenever it is added.
Runs(m, after, s) ==
  /\ s \in after
  /\ \/ s \notin active
     \/ m.op = "remove" /\ s \in m.states
     \/ m.op = "add" /\ s \in m.states /\ s \in Work \cup Reports

\* What handlers queue: a work or report state takes itself back, and a leave
\* that found its subscription reports it.  Mutant: the handler takes Connected back.
TakesBackConnected(handled, found) ==
  IF handled = {} THEN <<>> ELSE <<[op |-> "remove", states |-> {"Connected"}]>>
Handled(m, after) == {s \in m.states \cap (Work \cup Reports) : Runs(m, after, s)}
TakesBack(handled, found) ==
  IF handled = {} THEN <<>>
  ELSE <<[op |-> "remove", states |-> handled]>>
         \o (IF found /\ "LeavingTopic" \in handled THEN <<AddOf({"TopicLeft"})>> ELSE <<>>)

\* StartEnd queues a leave for each subscription and asks for the disposal.
Ended(after) == "Start" \in active /\ "Start" \notin after
LeavesAtEnd(after, n) == IF Ended(after) THEN [i \in 1..n |-> AddOf({"LeavingTopic"})] ELSE <<>>

\* The machine's turn: the oldest mutation, the auto transition after it, and
\* the handlers of the states that became active.  `found' and `n' stand for
\* Peer.subs, which only a running pubsub fills.
Turn(found, n) ==
  /\ queue # <<>> /\ disposed # "done"
  /\ (found \/ n > 0) => ps
  /\ \E m \in {Head(queue)} : \E after \in {After(m)} : \E handled \in {Handled(m, after)} :
     /\ active' = after
     /\ gen' = IF Runs(m, after, "GenIdentity") THEN "started" ELSE gen
     /\ conn' = IF Runs(m, after, "Connecting") THEN "started" ELSE conn
     /\ jobs' = jobs \cup {Report[s] : s \in handled \cap DOMAIN Report}
     /\ disposed' = IF Ended(after) THEN "asked" ELSE disposed
     /\ queue' = Tail(queue) \o TakesBack(handled, found) \o LeavesAtEnd(after, n)
  /\ UNCHANGED <<key, hosts, ps, senders, released>>

\* Dispose runs on its own; from then on the machine ignores mutations and
\* every state context is done.
Disposal ==
  /\ disposed = "asked"
  /\ disposed' = "done" /\ queue' = <<>>
  /\ UNCHANGED <<active, gen, conn, key, hosts, ps, jobs, senders, released>>

Post(m) ==
  IF disposed = "done" THEN UNCHANGED queue
  ELSE Len(queue) < MaxQueue /\ queue' = Append(queue, m)

-----------------------------------------------------------------------------
(* The goroutine of GenIdentityState: the context is checked first, and not *)
(* again.                                                                    *)
GenStarts ==
  /\ gen = "started"
  /\ gen' = IF "GenIdentity" \in active /\ disposed # "done" THEN "loading" ELSE "none"
  /\ UNCHANGED <<active, queue, conn, key, hosts, ps, jobs, senders, released, disposed>>

GenLoads ==
  /\ gen = "loading"
  /\ key' = TRUE /\ gen' = "loaded"
  /\ UNCHANGED <<active, queue, conn, hosts, ps, jobs, senders, released, disposed>>

\* Mutant: the identity is never reported.
GenReportsNot ==
  /\ gen = "loaded" /\ gen' = "none"
  /\ UNCHANGED <<active, queue, conn, key, hosts, ps, jobs, senders, released, disposed>>
GenReports ==
  /\ gen = "loaded"
  /\ gen' = "none"
  /\ Post(AddOf({"IdentityReady"}))
  /\ UNCHANGED <<active, conn, key, hosts, ps, jobs, senders, released, disposed>>

GenFails ==
  /\ Failures /\ gen = "loading"
  /\ gen' = "none"
  /\ Post(AddOf({"Exception"}))
  /\ UNCHANGED <<active, conn, key, hosts, ps, jobs, senders, released, disposed>>

(* The goroutine of ConnectingState. *)
ConnStarts ==
  /\ conn = "started"
  /\ conn' = IF "Connecting" \in active /\ disposed # "done" THEN "dialing" ELSE "none"
  /\ UNCHANGED <<active, queue, gen, key, hosts, ps, jobs, senders, released, disposed>>

ConnHost ==
  /\ conn = "dialing"
  /\ hosts' = hosts + 1 /\ conn' = "host"
  /\ UNCHANGED <<active, queue, gen, key, ps, jobs, senders, released, disposed>>

ConnPubsub ==
  /\ conn = "host"
  /\ ps' = TRUE /\ conn' = "pubsub"
  /\ UNCHANGED <<active, queue, gen, key, hosts, jobs, senders, released, disposed>>

\* Mutants: the connection is reported before there is a pubsub instance; the
\* goroutine takes Connecting back first, as other handlers take back their states.
ConnReportsRemoves ==
  /\ conn = "pubsub" /\ conn' = "none"
  /\ disposed # "done" /\ Len(queue) < MaxQueue
  /\ queue' = queue \o <<RemoveOf("Connecting"), AddOf({"Ready", "Connected"})>>
  /\ UNCHANGED <<active, gen, key, hosts, ps, jobs, senders, released, disposed>>
ConnReportsEarly ==
  /\ conn = "host" /\ conn' = "none"
  /\ Post(AddOf({"Ready", "Connected"}))
  /\ UNCHANGED <<active, gen, key, hosts, ps, jobs, senders, released, disposed>>
ConnReports ==
  /\ conn = "pubsub"
  /\ conn' = "none"
  /\ Post(AddOf({"Ready", "Connected"}))
  /\ UNCHANGED <<active, gen, key, hosts, ps, jobs, senders, released, disposed>>

ConnFails ==
  /\ Failures /\ conn \in {"dialing", "host"}
  /\ conn' = "none"
  /\ Post(AddOf({"Exception"}))
  /\ UNCHANGED <<active, gen, key, hosts, ps, jobs, senders, released, disposed>>

(* The goroutines of JoiningTopicState and SendingMsgsState: they report, or *)
(* end without a word after an error.                                        *)
JobEnds(r) ==
  /\ r \in jobs /\ jobs' = jobs \ {r}
  /\ Post(AddOf({r})) \/ UNCHANGED queue
  /\ UNCHANGED <<active, gen, conn, key, hosts, ps, senders, released, disposed>>

-----------------------------------------------------------------------------
(* The simulator.  It picks peers that have Ready active and that it has not *)
(* removed; the goroutine of MsgRandomTopicState posts some time later.      *)
\* Mutant: any peer is picked.
PickedUnready == ~released
Picked == "Ready" \in active /\ ~released

SimAsks(s) ==
  /\ Picked /\ s \in {"JoiningTopic", "LeavingTopic"}
  /\ Post(AddOf({s}))
  /\ UNCHANGED <<active, gen, conn, key, hosts, ps, jobs, senders, released, disposed>>

SimStartsSender ==
  /\ Picked /\ ~senders /\ senders' = TRUE
  /\ UNCHANGED <<active, queue, gen, conn, key, hosts, ps, jobs, released, disposed>>

SenderPosts ==
  /\ senders /\ senders' = FALSE
  /\ Post(AddOf({"SendingMsgs"}))
  /\ UNCHANGED <<active, gen, conn, key, hosts, ps, jobs, released, disposed>>

SimRemoves ==
  /\ ~released /\ released' = TRUE
  /\ Post(RemoveOf("Start"))
  /\ UNCHANGED <<active, gen, conn, key, hosts, ps, jobs, senders, disposed>>

-----------------------------------------------------------------------------
MachineTurn == \E found \in BOOLEAN, n \in 0..1 : Turn(found, n)
Identity    == GenStarts \/ GenLoads \/ GenReports \/ GenFails
Connection  == ConnStarts \/ ConnHost \/ ConnPubsub \/ ConnReports \/ ConnFails

Next ==
  \/ MachineTurn \/ Disposal \/ Identity \/ Connection
  \/ \E r \in Reports : JobEnds(r)
  \/ \E s \in Work : SimAsks(s)
  \/ SimStartsSender \/ SenderPosts \/ SimRemoves

Spec == Init /\ [][Next]_vars

\* The machine drains its queue and goroutines are scheduled.  The first conjunct
\* is WF_vars(MachineTurn), with ENABLED written out: a turn is possible exactly
\* when a mutation waits at a machine that is not disposed.
MachineFairness ==
  []<>(queue = <<>> \/ disposed = "done") \/ []<><<MachineTurn>>_vars
FairSpec == Spec /\ MachineFairness /\ WF_vars(Identity) /\ WF_vars(Connection)

-----------------------------------------------------------------------------
(* Properties *)

\* ss_peer.go:94, "groups of mutually exclusive states".
GroupsExclusive ==
  /\ Cardinality(active \cap groupConnected) <= 1
  /\ Cardinality(active \cap groupIdentityReady) <= 1

\* Goroutines fill the peer before the machine says so: a connecting peer has its
\* key, and a peer that can be asked to join has its pubsub instance.
FilledInTime ==
  /\ conn # "none" => key
  /\ "Connected" \in active => ps

\* A peer makes one host in its life.
OneHost == hosts <= 1

\* A peer that is Ready stays so until its Start is removed: the simulator reads
\* Ready once, when it picks the peer, and posts a mutation that requires
\* Connected some time later.
ReadyStays == [][Picked => "Ready" \in active']_vars

\* A topic mutation is never cancelled while the peer has Start: whatever waits in
\* the queue of a started peer finds Connected, which it requires.
WorkNotCancelled ==
  "Start" \in active =>
    \A i \in DOMAIN queue :
      queue[i].op = "add" /\ queue[i].states \subseteq Work \cup Reports => "Connected" \in active

\* A started peer becomes Ready unless it is removed first or an error is reported.
BecomesReady ==
  "Start" \in active ~> (active \cap {"Ready", "Exception"} # {} \/ released)
=============================================================================
