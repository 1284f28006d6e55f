------------------------------ MODULE TestMain ------------------------------
(***************************************************************************)
(* A test binary with tracing on (pkg/psmon/psmon.go): RunTestMain runs    *)
(* the tests in the main goroutine and a timer in another, and either ends *)
(* the spans, flushes them and lets the process exit.  They share the flag *)
(* `disposed', which both test and set without a lock.  The tests register *)
(* their spans, and their pubsub goroutines call the tracer of OtelTracer. *)
(***************************************************************************)
EXTENDS OtelTracer

CONSTANTS
  Main, Timer,  \* goroutines of RunTestMain
  MaxTests      \* bound of this model: calls of StartTest

ASSUME MainAssumption ==
  /\ {Main, Timer} \subseteq Thread \ {Loop} /\ Main # Timer
  /\ MaxTests \in Nat

VARIABLES
  at,            \* where Main and Timer are
  disposed,
  started,       \* TopSpans: tests that registered a span
  done,          \* how many of them ended their span before the provider was shut down
  shut,          \* the provider is
  exported,      \* how many of them it has exported
  exportFailed,  \* an export of theirs has failed; the error goes to a log only
  exit           \* how the process ended

harness == <<at, disposed, started, done, shut, exported, exportFailed, exit>>
allVars == <<vars, harness>>

MainInit ==
  /\ Init
  /\ at = [h \in {Main, Timer} |-> "wait"]
  /\ disposed = FALSE
  /\ started = 0 /\ done = 0 /\ exported = 0
  /\ shut = FALSE /\ exportFailed = FALSE
  /\ exit = "none"

Moves(h, l) == at' = [at EXCEPT ![h] = l]

\* The tests.
StartTest ==
  /\ at[Main] = "wait" /\ started < MaxTests
  /\ started' = started + 1
  /\ UNCHANGED <<vars, at, disposed, done, shut, exported, exportFailed, exit>>

PubsubCalls(g) ==
  /\ g \notin {Main, Timer}
  /\ \E o \in Op \ {"End"}, t \in Topic : Calls(g, o, t)
  /\ UNCHANGED harness

\* m.Run returns, or the timer's sleep is over.
Wakes(h) ==
  /\ at[h] = "wait" /\ Moves(h, "test")
  /\ UNCHANGED <<vars, disposed, started, done, shut, exported, exportFailed, exit>>

\* `if disposed { return }': the process lives on without the timer, not without the
\* main goroutine.  Mutant: the main goroutine does not ask.
TestsDisposedOnlyTimer(h) ==
  /\ at[h] = "test"
  /\ Moves(h, IF disposed /\ h = Timer THEN "returned" ELSE "set")
  /\ UNCHANGED <<vars, disposed, started, done, shut, exported, exportFailed, exit>>
TestsDisposed(h) ==
  /\ at[h] = "test"
  /\ Moves(h, IF disposed THEN "returned" ELSE "set")
  /\ exit' = IF disposed /\ h = Main THEN "cut short" ELSE exit
  /\ UNCHANGED <<vars, disposed, started, done, shut, exported, exportFailed>>

\* `disposed = true', and endTestMain calls End of the pubsub tracer, which locks.
CallsEnd(h) ==
  /\ at[h] = "set" /\ Moves(h, "ending")
  /\ disposed' = TRUE
  /\ \E t \in Topic : Calls(h, "End", t)
  /\ UNCHANGED <<started, done, shut, exported, exportFailed, exit>>

\* It returned; the spans in TopSpans and the root span.  A span that ends after the
\* shutdown of the provider is dropped.
EndsTopSpans(h) ==
  /\ at[h] = "ending" /\ pc[h] = "idle" /\ Moves(h, "flush")
  /\ done' = IF shut THEN done ELSE started
  /\ UNCHANGED <<vars, disposed, started, shut, exported, exportFailed, exit>>

\* A running provider exports what has ended, or fails to.
Exports ==
  \/ exported' = done /\ UNCHANGED exportFailed
  \/ exported < done /\ exportFailed' = TRUE /\ UNCHANGED exported

\* It does so in batches of its own accord,
BatcherExports ==
  /\ ~shut /\ exported < done /\ Exports
  /\ UNCHANGED <<vars, at, disposed, started, done, shut, exit>>

\* and when ForceFlush asks for it: endTestMain logs the error and goes on.
FlushesSpans(h) ==
  /\ at[h] = "flush" /\ Moves(h, "shutdown")
  /\ IF shut THEN UNCHANGED <<exported, exportFailed>> ELSE Exports
  /\ UNCHANGED <<vars, disposed, started, done, shut, exit>>

\* Shutdown exports what is left and fails likewise; a second one does nothing.
ShutsDown(h) ==
  /\ at[h] = "shutdown" /\ Moves(h, "exits")
  /\ IF shut THEN UNCHANGED <<exported, exportFailed>> ELSE Exports
  /\ shut' = TRUE
  /\ UNCHANGED <<vars, disposed, started, done, exit>>

\* The main goroutine returns, or the timer calls os.Exit(1).
Exits(h) ==
  /\ at[h] = "exits" /\ Moves(h, "returned")
  /\ exit' = IF h = Main THEN "complete" ELSE "failed"
  /\ UNCHANGED <<vars, disposed, started, done, shut, exported, exportFailed>>

Disposes(h) == \/ TestsDisposed(h) \/ CallsEnd(h) \/ EndsTopSpans(h)
               \/ FlushesSpans(h) \/ ShutsDown(h) \/ Exits(h)

TracerSteps(g) == Locking(g) \/ Working(g)

\* Nothing runs once the process has ended.
MainNext ==
  /\ exit = "none"
  /\ \/ StartTest \/ BatcherExports
     \/ \E g \in Thread : \/ PubsubCalls(g)
                          \/ TracerSteps(g) /\ UNCHANGED harness
     \/ \E h \in {Main, Timer} : Wakes(h) \/ Disposes(h)

MainSpec == MainInit /\ [][MainNext]_allVars

\* Goroutines are scheduled and the timer fires; tests may hang: m.Run need not return.
\* A mutex of Go starves nobody: not the harness at topicsMx, and not whoever holds
\* topicsMx at groupsMx.
Running(A) == exit = "none" /\ A /\ UNCHANGED harness
FairMainSpec ==
  /\ MainSpec
  /\ \A g \in Thread : WF_vars(Running(TracerSteps(g)))
  /\ SF_vars(Running(\E h \in {Main, Timer} : Locks(h)))
  /\ SF_vars(Running(\E g \in Thread : topicsMx = g /\ LocksGroups(g)))
  /\ \A h \in {Main, Timer} : WF_allVars(exit = "none" /\ Disposes(h))
  /\ WF_allVars(exit = "none" /\ Wakes(Timer))

-----------------------------------------------------------------------------
(* Properties *)

\* The process ends, even if a test hangs, whatever its goroutines do in the
\* tracer: its mutexes are taken in one order and always given back, so End returns.
ProcessEnds == <>(exit # "none")

\* Both goroutines may end the spans, flush them and shut the provider down, in any
\* interleaving (psmon.go:102-117).  Where the main goroutine gets to the end, neither
\* has shut the provider down before the spans of all tests were with it: a span is
\* missing from the export only if the export itself failed.
LostOnlyByExport == exit = "complete" => exported = started \/ exportFailed
=============================================================================
