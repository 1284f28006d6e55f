# A TLA+ model of go-libp2p-pubsub-benchmark

The repository holds two programs and the instrumentation they share:

* **the simulator** (`cmd/sim`, `internal/sim`): some tens of libp2p peers that join
  and leave pubsub topics, make friends and send messages at random;
* **the benchmark** (`cmd/bench`, `internal/bench`): runs `TestSimpleDiscovery` of two
  versions of go-libp2p-pubsub, turns the execution traces into results and the
  results into charts;
* **the instrumentation** (`pkg/psmon`, `assets/pubsub_injects`): a test harness and a
  pubsub tracer that export spans.

The simulator is a set of state machines of the library asyncmachine-go: one for
the simulator, one per peer, one per topic. A machine has a queue of mutations (add
or remove states) and works through it one at a time; relations between states
(require, add, remove, auto) decide what a mutation does or cancel it, and the
handlers of the states that become active run. Handlers post mutations to other
machines, start goroutines, and may have a function evaluated on another machine's
queue (`Eval`). What is hard in this code happens between those queues.

## Inventory

| Component | State | Operations | Interacts through | Correct when |
|---|---|---|---|---|
| Sim machine, `sim.go` | `peers`, `topics`, `nextPeerNum`; of each peer `simTopics`, `simTopicJoined`, `simFriends` | StartState, HeartbeatState, AddPeer, RemovePeer, AddTopic, RemoveTopic, AddRandomFriend, GC, JoinRandomTopic, JoinFriendsTopic, PeakRandTopic | mutations posted to peers; `topicPeerChange`, `topicMsgs` from peers | friendships are mutual, memberships consistent, limits kept |
| Peer, topics, `peer.go:248-338` | `subs`, pubsub's topic handles | JoiningTopic, TopicJoined, LeavingTopic, TopicLeft, StartEnd | goroutines; Eval on its own queue; `topicPeerChange` | no handle or subscription is lost; counts follow subscriptions |
| Peer, lifecycle, `peer.go:53-182`, `ss_peer.go` | machine states, `key`, `host`, `ps` | GenIdentity, Connecting, Ready, disposal | goroutines that report by mutations | one host; nothing used before it is set; becomes Ready |
| Messages, `sim.go:555-646`, `peer.go:340-451` | `msgs`, the metrics | MsgRandomTopic, SendingMsgs, MsgsSent, readLoop, storeMsg, VerifyMsgsRecv | a goroutine per send, one per subscription | counts what was delivered; the buffer holds the last messages |
| Topic machine, `topic.go`, `ss_topic.go` | `peersCount`, `msgsLog`, four states | IndexesToStates | Evals on the simulator's queue | the states say what the indexes say |
| Metrics, frequencies, `sim.go:680-726`, `utils.go` | sums, delays | RefreshMetrics, getStateFreq | reads the machines | the sums say what an observer would count |
| Discovery, `discovery.go` | registrations | Advertise, FindPeers | called by pubsub, one mutex | not modelled |
| Test runner, `bench.go:124-183, 699-791` | trace files | CmdGenTraces, RunDiscoveryTest | a test process; an unbuffered channel; a timer | runs do not overlap; a timeout leaves no trace |
| Charts, `bench.go:205-561` | points, collected values | renderChart | result files | a point per combination, of its own runs |
| Trace results, `bench.go:185-197, 627-695, 825-908` | sums | TracesToResults, ResultsToText, CmdParseResults | trace files; a pool with a file per task | sums agree with the events; a run that passed has a result |
| Pubsub tracer, `psmon_pubsub.go` | two maps with a mutex each, spans | the methods of a RawTracer, End | called by pubsub's goroutines | events lie inside their topic's span; no deadlock |
| Test harness, `psmon.go` | spans, `disposed` | RunTestMain, StartTest, endTestMain | a timer goroutine | no span of a test is lost to the race of the two that end them |
| Commands, `cmd/` | none | flags, waiting, the steps of `bench all` | start the above | steps in the right order |

The behaviours that are hard to test are listed line by line in `PROJECT.json`
under `hazards`, each with the properties about it.

## Modules

    AsyncMachine ......... the relations of asyncmachine-go (external)
      TopicMachine ....... a topic's states
        CrossEval ........ with the queues of the simulator and its peers, and their Evals
          CrossProofs
      PeerMachine ........ a peer's life
        PeerMachineProofs
    Sim .................. the simulator's handlers, peers as an environment
      SimProofs
      SimPeers ........... with the peers' queues and goroutines; implements Sim
        SimPeersProofs ... which extend SimProofs
    Messages ............. sends, read loops, verification
      MessagesProofs
    BenchRun ............. the test runner of the benchmark
      BenchResults ....... with the parsing of its traces and the charts' reading
    BenchChart ........... the points of a chart
        BenchProofs ...... about BenchResults and BenchChart
    TraceResults ......... a trace, event by event
      TraceProofs
    OtelTracer ........... the tracer of a pubsub instance
      TestMain ........... with the test harness that ends it
        TestMainProofs

A module `XProofs` proves about the module above it.
A module `MCx` adds model values, and symmetry where safety alone is checked, to module `x`; the other modules are
run as they are. A definition that ends in a word such as *Late*, *Not* or *Anyway*
and stands before the one it varies, with a comment that says *Mutant*, is a
plausible mistake in that definition; no specification uses it. `PROJECT.json`
pairs each property with the mistake that breaks it.

### Sim

The machine handles one mutation at a time, and an Enter guard and its handler run
without anything between them, so each is one action. A heartbeat adds a random
subset of states; an activation that is cancelled changes nothing; so after the two
requests of StartState any handler may run next. `boot` and `left` serve those two
requests iteration by iteration: they come first in the queue, but peers may become
Ready between them. `AddTopicEnter` is where the second request may be lost.

`simTopics` and `simFriends` are bags (`[Peer -> [Topic -> Nat]]`), because the
code's are slices in which a duplicate could stand; their order only feeds random
picks. Of `simTopicJoined` the keys are kept. `inbox` is what a handler posted to a
peer. `created` remembers every id: `nextPeerNum` never goes back. A removed
peer keeps its record, since goroutines may still hold it. `ready` is the peers with
Ready active; `PeerMachine` shows that a picked peer stays Ready.

### SimPeers

Replaces the environment of Sim by the peers' topic side. JoiningTopicState hands
the work to a goroutine (`attempts`), which calls `ps.Join` and Subscribe
(`PubsubJoin`), then stores the subscription by an Eval and reports it
(`StoreSubscription`). LeavingTopicState closes. TopicJoined and TopicLeft each start
a goroutine (`changes`) that evaluates `topicPeerChange` at the simulator. `EvalTimeouts`
lets an Eval give up, as the library does after a timeout. pubsub is external: one
open handle per topic and peer, and Join fails while it is open.

`ImplementsSim` is the refinement: with `inbox` mapped to `Posted`, what the simulator
posted and the peer has not handled yet (`FromSim` leaves out the peer's own reports), and
to nothing once Start is removed, every step of SimPeers is a step of Sim or a stutter.
It is checked by a run and proved, so what is proved of Sim holds of the composition
(`PeersKeepSim`).

### PeerMachine, TopicMachine, AsyncMachine

`AsyncMachine` states how the library resolves one mutation: what it adds and removes
with the relations, when it is cancelled, and the auto transition that follows. It is
external: derived from how this repository declares and uses states. It
is instantiated twice, with the tables of `ss_peer.go` and `ss_topic.go`.

`PeerMachine` has the machine's queue, and the goroutines of GenIdentity and Connecting
step by step: each reads its context once, works outside the machine, and reports.
`found` and `n` stand for what `Peer.subs` holds, which SimPeers models.
`TopicMachine` has the two indexes and the three mutations of IndexesToStates. A log
entry is recent or old; its amount is never read. CrossEval runs it.

### CrossEval

Handlers of one machine wait for those of another in two ways. A mutation is posted by whoever adds it, who then
works through the target's queue unless somebody does so already: so a handler of the simulator that posts to a peer
may have to run the peer's handlers first (`simAt`, `drain`). And `MsgsSentState` calls `topicMsgs` directly
(`peer.go:380`), so a peer's handler waits for the simulator's queue (`wait`). When the simulator works through the
queue of a peer that waits for it, neither goes on until the Eval times out (`HeldUp`). The joins and leaves avoid
that by a goroutine per report (`peer.go:298, 337`).

One topic, two peers and their queues, with TopicMachine as the topic: handlers of the simulator that post about it,
the peers' handlers, goroutines and Evals. `HandlersReturn` says that both sides always go on, `OnlySendsLose` that only
`MsgsSentState` can cause a held-up queue and so a lost count, `FirstCountExact` that until the topic's name is used
again its count is that of its joins. After that a late leave may make a new topic's count wrong or negative
(`utils.go:274` draws from names without asking), which no text of the repository excludes.
It leaves out what SimPeers covers: peers that are not Ready and Evals of the peers' own.

### Messages

A send is one run of MsgRandomTopic: `stage` is its goroutine at the simulator, `work` its
author, `published` how many of the two messages are out. The first message is the
author's id, the second a random one; `Content` keeps that. `loops` is one read loop per
subscription, and storeMsg is three steps (read, write, cut), as the loops share
`Peer.msgs` without a lock. `net` loses nothing but what a cancelled subscription had not read.
Times are orders: `before` is the set of peers stamped before the send, and a timeout may fall anywhere.
The queue of the simulator holds verifications and the removals of the state; a
verification that finds the state active is dropped, as VerifyMsgsRecv is not Multi.

### BenchRun, BenchResults, BenchChart, TraceResults

`BenchRun` has the runner, the goroutine around `cmd.Output`, and a process in the stages
building, binary and tracing; what was started is killed, the test binary is not. What was started is a shell, and that killing it
also ends `go test` while it builds holds for a shell that replaces itself by its last command: `RunsSerial` relies on that.
Warm-up runs use the combinations, and trace paths, of the first runs.
`BenchResults` goes on where CmdGenTraces ends: `bench all` parses every trace in a pool, a task per combination,
waits for the pool and draws the charts, which take a missing result for a failed run. `gob` is whose
trace a result came from. Left-over binaries write all the while, so a trace may be replaced between a task's opening
and its end. A trace cut off by a failure, or written to by an orphan, gives a result or an error. `PassedIsCharted` has one exception,
a combination that timed out before: its binary may make its trace after that of the run that passed.
`BenchChart` is renderChart's loop with a run in place of its value and the set of
values in place of their median; `failuresCount` tells the failure charts, whose
Getter has a value for a missing result, from the others.
`TraceResults` reads one event per step from any trace in which goroutines may be
older than the trace. It has no run: its two balances are proved for every trace.

### OtelTracer

Each method is a path through the two mutexes: `lock`, `group`, `map`, `span`, `unlock`. Methods
with the same path are one `Op`. Pubsub announces joins and leaves of a topic in turn
from one goroutine (`Loop`), everything else from any. The group span is in the map while it is started, as the
code holds groupsMx throughout. OtelTracer states the methods only; TestMain runs them.

### TestMain

RunTestMain with the tests' main goroutine, its timer, and the goroutines of pubsub, all in one process. `disposed` is
tested and set in two steps, as no lock covers it, so both may get past the test; `CallsEnd` is End of the
tracer in OtelTracer, with its mutex; then the spans of the tests end, ForceFlush, Shutdown, and the exit, a step each,
since the other goroutine may be anywhere in between. m.Run may never return: then only the timer ends the process.

The provider is external: until it is shut down it takes spans that end (`done`), later ones it drops; it exports in batches of
its own accord (`BatcherExports`), when it is flushed and when it is shut down, and each export may fail (`Exports`). endTestMain
only logs an error of ForceFlush or Shutdown (`psmon.go:221, 229`) and goes on, a batch's own error does not reach it at all,
and the process ends as if nothing had happened: so a complete run may have exported nothing, and `LostOnlyByExport` says
that this is then the export's failure (an unreachable collector, or a full queue of the provider, which counts as a failed export here) and never the race: nobody shuts
the provider down before the spans of all tests have ended. The process may also end while the timer is still flushing, when the main
goroutine finds `disposed` set and returns (`cut short`): `LostOnlyByExport` leaves that exit out, as no text
says what must be exported then. The cooldown sleeps guarantee no order and are left out; so is the closing of the log, after which
the other goroutine's errors go nowhere. Without tracing endTestMain only closes the log, which is left out.

## Runs

Each run's question is in `PROJECT.json`; the bounds are these.

| Run | Bounds | Why they suffice |
|---|---|---|
| MCSim | 3 peers, 2 topics, friend limit 1, inbox 1 | three peers are needed for a friend's friend; two topics for a friendship that shares one and loses it; limits of 1 are reached at once; with one mutation in an inbox the run sees what is posted to whom and when, but no order within a queue: `JoinsHeard` and `RemovalHeardLast` prove `ListedMeansJoin` and `NothingAfterRemoval` for any bound |
| MCSimStart | 2 peers, 2 topics | expected violation |
| SimPeersCounts | 2 peers, 1 topic, one join goroutine per peer, one change of each kind | a join that overlaps a leave, and reports that overtake each other; peers are not removed (as shipped: `maxPeers` 30 < `initialPeers` 50) and Evals are served |
| SimPeersRefines | the same, with removal and lost Evals | every step is compared with Sim; a handle loses its owner only by an Eval that is not served (`LostOnlyByEval`) |
| CrossEvalRun | 2 peers, 1 topic, count -4..4, log 1, peaking at 2, at most 2 mutations or Evals under way when the simulator starts a handler | two peers are needed for one to wait while the simulator works through the other's queue; the count goes below zero, to, below and above the threshold; with two reports under way they overtake each other |
| PeerMachineRun | queue 3, failures | every overlap of two goroutines and the simulator's mutations |
| MessagesTwoTopics | 2 peers, 2 topics, 2 sends, buffer 1 | two read loops of one peer race, and a buffer of one is overrun at once |
| MessagesOneSend | 2 peers, 1 topic, 1 send, buffer 1, memberships change | a subscription that comes or goes at any moment of a send; its two messages overrun the buffer |
| MessagesRecv | 2 peers, 1 topic, 2 sends, buffer 2 | expected violation |
| ChartPoints | 2 hosts x 2 messages x 3 iterations, every subset of missing results, both kinds of chart | each kind of neighbour: next iteration, message count, host count, end |
| BenchRuns | 1 warm-up, 2 combinations | a run with a predecessor of the same path and one of another; two tasks in the pool |
| TestMainRun | 2 pubsub goroutines, main and timer, 1 topic, 1 test | one joins and leaves, the other records, two end; both mutexes contended by all four |

Each run has the invariants of its system in one composition; a type invariant is run for Sim, and the
inductive invariants of the proofs have the types of their modules as a part.

Deadlock is checked in CrossEvalRun, whose system never stops, and off where it may: peer ids, sends,
combinations and traces end, and a test process exits.

### Where the code does something else

Two runs show the code doing something else than a line of the repository says
(`findings` in `PROJECT.json` quotes the lines):

* MCSimStart: the start request for topics is lost when no peer is Ready yet, so the
  simulation may start without a topic;
* MessagesRecv: the first message of a send is the author's id, in every send the same, and a
  verification takes an older copy for the new message. `FreshRecvMeansDelivered` is what remains.

More of this kind came up while modelling. Each bounds a property above, and none has a run:

* `maxTopicPerPeer` and `maxPeersPerTopic` are checked on some of the ways into a topic only
  (not by AddRandomFriend, `sim.go:445`, nor by JoinFriendsTopic, `sim.go:531`), and a topic's count
  grows only when the join is reported, so `LimitsHold` leaves them out;
* a removed peer is never subtracted from its topics: the leaves that StartEnd queues
  (`peer.go:117`) require Connected, which fell with Start. SimPeersCounts keeps the peers;
* a peer that a peak sent to a topic (`sim.go:672`) does not list it, and stays when the topic is removed;
* a topic stays Active when its messages grow old, until the next report (`sim.go:869`);
* `simTopicJoined` is the time of the request (`sim.go:631`), so a peer may miss a message it could
  not receive;
* two read loops of a peer share `Peer.msgs` without a lock (`peer.go:385`) and may lose a message:
  `KeepsLastMsgs` is run with one topic, `BufferBounded` with two;
* after a combination with fewer than two values `continue` skips the reset (`bench.go:486-489`), and
  the next point mixes configurations: `PointsExact` assumes enough values;
* killing `go test` (`bench.go:751`) leaves a running test binary, which may make the trace after its removal, even in
  place of a later run's of the same combination;
* a measured run that fails early leaves the trace of its warm-up, and a test that fails after its trace was made leaves that
  (`bench.go:740-762` drops the error): the failure charts count neither;
* a peer's send holds up the simulator while it works through that peer's queue (`peer.go:380`), until an Eval times out;
* a reused topic name inherits the count changes of the old topic (`sim.go:843`);
* under "Total allocated heap" the number of goroutines is printed (`bench.go:191`; `ResultsToText`).

### Fairness

* SimPeers: queues are drained (`WF` of `PeerHandles`), goroutines are scheduled (`CallsPubsub`,
  `Stores`, `CountChange`). Nothing is assumed of the random handlers.
* PeerMachine: the machine takes a turn while it has a mutation, goroutines are scheduled.
  Nothing is assumed of the simulator.
* Messages: the goroutine of a send is scheduled and its timer fires; the simulator drains its queue.
  Nothing is assumed of the author or of the network.
* CrossEval: queues are worked through and the Eval's timer fires (`WF` of `SimPosts`, of `PeerHandles` or `Drained`, of
  `MsgsEvalTimesOut`); an Eval that waits is served in turn at the simulator's queue, which is `SF` of `Answered`. Only an Eval
  that waits for the queue its caller's machine holds up times out: handlers are short.
* BenchResults: the runner and its pool are scheduled and its timer fires. Nothing is assumed of the test.
* TestMain: goroutines inside the tracer are scheduled, and so are the main goroutine and the timer once they woke up; the
  timer wakes up; ForceFlush and Shutdown return, as the provider gives up on an export after a time. Taking a mutex is strongly fair for the harness at topicsMx and for whoever holds topicsMx at
  groupsMx, since Go hands a mutex to a goroutine that waited for a millisecond. Nothing is assumed of m.Run.

## Proofs

Every invariant and action property that a passing run checks is also a theorem, for all values of the
constants that the assumptions of its module allow; so is the refinement. The refinement, and with it `LimitsHold`, `FriendshipsOK` and
`MembershipsOK` for SimPeers, are proved without any hypothesis of their own. Four theorems have one:

| Theorem | Hypothesis | Why |
|---|---|---|
| `HandlesKept` (HandlesOwned) | Evals are served (`~EvalTimeouts`) | an Eval that times out does leave a handle without an owner (`peer.go:285`); nothing else does, which `HandlesLostByEval` (LostOnlyByEval) proves without the hypothesis |
| `CountsAddUp` (CountsConserved) | Evals are served; `MaxPeers <= InitialPeers`, as shipped (`config.go:24, 31`) | a removed peer is never subtracted from its topics; with these sizes no peer is removed |
| `OneTopicKeepsLast` (KeepsLastMsgs) | one topic | with two, the read loops do lose messages (`peer.go:385`) |
| `TraceBalanced` | finitely many goroutines, samples are naturals | the trace is a file |

The assumptions on constants are named in the modules that declare them. `TopicAssumption` asks that
`TopicPeakingMinPeers` be positive (`config.go:55`): with 0 an empty topic would be Peaking without HasPeers,
which it requires.

Few of the properties are inductive as they stand. What each proof adds to them:

* **SimProofs**. `SimInv`: types, friendships, memberships, and `NewPeersBlank`: AddPeerState makes a peer about which the
  other parts say nothing before, so an id that was not handed out has no friends and no topics. Memberships need that a
  listed topic belongs to a Ready peer, as RemoveTopicState looks at Ready peers only. The limits follow from
  the guards, with the cardinality of a set with one more element and the sum of a function that changes in one place. `InboxInv`:
  of a topic that is listed, the queue holds nothing or a join as the newest mutation, for which a new peer must have an empty
  queue. `MetricsRight` is a double count: the degrees of a mutual relation without loops add up to twice its pairs
  (`Handshake`), adding one peer after another.
* **SimPeersProofs**. `HandlesInv` is the property and its types. The refinement needs `QueuesInv`: nothing of the simulator follows
  the removal of Start in a queue, a living peer has no removal in its queue, and only removed peers have stopped. With it
  `FromSim` of a queue turns every append and take into an append, a take or nothing. `OfSim` is SimProofs with
  `Posted` for its `inbox`; its definitions are those of the instance that `ImplementsSim` names, which `SameInit` to `SameSpec`
  say, so its theorems apply. `CountsAddUp` needs what those give (memberships, handles, that all peers stay) and that
  a name never used is one nobody holds, joins, or reports about (`Untouched`): its balance starts at zero. Each step
  then moves one unit from one term of the balance to another: a subscription to a queue, a queue to a goroutine, a goroutine to the count.
* **PeerMachineProofs**. A peer has not had its first turn (`Fresh`), or its active states have a `Shape`: Connected and Ready stand and
  fall together, topical states stand on Connected, exactly one of GenIdentity and IdentityReady is active, and whoever may connect
  does. Each mutation the code makes keeps it through the library's rules (`AddConnected`, `RemoveStart`, ...). What
  waits in the queue is tied to what has happened (`Allowed`): a report of the identity to the key, one of the connection
  to pubsub, one about a topic to a peer that had Connected. The goroutines' stages then bound the hosts.
* **CrossProofs**. `TopicInv`: the states agree with the indexes, Peaking stands on HasPeers, and a machine that was indexed is Stale
  unless Active or Peaking keeps it out. Until a topic is removed nobody is told to leave it (`JoinsOnly`), a peer reports a join once, and
  count, reports under way and peers that have yet to report never exceed the open handles (`JoinsCounted`). `OnlySendsLose`
  needs that a peer that waits for the simulator has sent a message.
* **MessagesProofs**. The stages of the sender and of its author go together (`StagesAgree`): MsgsSent stands for two
  published messages. Messages on their way belong to sends that have begun, so their texts do not change (`TextsSettled`), and a random
  text is in a buffer, or in a loop's copy of it, only where it was read (`FreshKept`). With one topic the loop's copy, and what it
  has written and not cut yet, end with the last messages read (`OneLoop`).
* **BenchProofs**. `RunInv`: the runs to come have not begun, the process of the current run is alive or has exited while the runner waits
  (`CurrentRun`), who speaks for a process has seen it exit (`ExitSeen`), and the trace of a run that is tracing or
  has passed is its own unless an earlier run of the combination timed out (`TraceKept`). `ResultsInv` follows that trace
  to the result and the chart. For the charts, `DivMod` to `NextCombo` say what the nested loops of the combinations count: the
  k-th one is in group (k - 1) \div Iters, groups follow each other, and hosts and messages tell them apart. `LinesInv` keeps the
  points before the group of `prevCombo` and apart from what is collected; `PointsInv` says, where values are enough, that a point begins exactly when the
  last iteration of a group has been read, with all the values of the group collected, so that `continue` is never taken.
* **TestMainProofs**. `MutexesHeld`: the places of the code between a lock and its unlock say who holds the mutex. From it follow
  `GroupIsNew` (who starts a group's span is the first to) and `EventKnown` (who found a topic still finds it).
  `JoinsAlternate` relates the tracer's map with what pubsub has joined, one method behind. `LocksOrdered` is the order of the two mutexes, the
  reason why `ProcessEnds` holds. For the harness, whose flag no lock covers, `FlagFirst` says that nothing is ended before the flag is up; so
  whoever has found it down knows that nothing was ended before its tests were over, and from then on both goroutines end,
  flush and shut down with the spans of all tests (`AllEnded`), in whatever order.
* **TraceProofs**. A goroutine is never alive and gone, and the older ones are one of both, so none is counted twice.

Some of these are about data defined by recursion: the sums of a function (`Total`, a fold) and the filter `FromSim`. No induction
theorem can be used, as they take an operator; the proofs take a smallest counterexample instead, among the subsets of a
finite set by cardinality (`SubsetInduction`, from WFMin) or among the lengths of a sequence.

Lemmas about operators come before the sections that use them, every action has a step or a lemma of its own under each
part of an invariant, and the theorems stand at the end of their sections.

Only model-checked: all liveness (`ListedIsSubscribed`, `BecomesReady`, `HandlersReturn`, `EverySendEnds`, `ChartsDrawn`,
`ProcessEnds`), whose fairness needs ENABLED. The two expected violations are TLC's.

## Not modelled

* DHT and mDNS discovery and `initDHTPeer`: never called.
* The mock discovery server (`discovery.go`): two maps under one mutex, so every call is atomic. It never drops a
  registration and hands out arbitrary ones, so removed peers may crowd out living ones; what that leads to, dials
  and meshes, happens inside libp2p and pubsub, and nothing here observes it.
* Connections, streams and Prometheus among the metrics, what OpenTelemetry's export does beyond succeeding or failing, and printing: they do not feed back.
  (`printMetrics` runs in the heartbeat's goroutine, `sim.go:219`, and reads maps that handlers write.)
* Random delays (`getStateFreq`): replaced by any order.
* Handlers that the library gives up on after its handler timeout: none here runs for long, except while it is held up
  as in CrossEval, where the Eval's timeout is the one that matters.
* `SetUpMach`, reading the environment, arguments: configuration before the start.
* libp2p, pubsub and the state machine library are external and modelled as far as `src/` uses them.

## Plan

Done, in this order: Sim, SimPeers, TopicMachine, PeerMachine, Messages, BenchRun, BenchChart,
TraceResults, OtelTracer, CrossEval, TestMain, BenchResults.

Then the proofs: first SimProofs and TraceProofs, then those of the other modules and of the refinement.

Next:

1. the safety that liveness rests on, as theorems: that whoever waits in CrossEval is at a queue somebody works through or is
   held up by an Eval that may time out, and that a mutex of TestMain has a holder that can go on;
2. SimPeers with the lifecycle of PeerMachine in place of `PeerReady`, if it stays within TLC's reach.
