------------------------------ MODULE BenchRun ------------------------------
(***************************************************************************)
(* The benchmark's test runner (internal/bench/bench.go): CmdGenTraces     *)
(* runs the test combinations one after the other, the first few of them   *)
(* once more to warm up, and RunDiscoveryTest runs one of them: a goroutine*)
(* waits for `go test', while the runner waits for the goroutine or for    *)
(* testTimeout.                                                            *)
(*                                                                         *)
(* The test process is external: `go test' builds a binary and runs it,    *)
(* the binary creates the trace file when it starts.  Killing `go test'    *)
(* does not kill the binary.                                               *)
(***************************************************************************)
EXTENDS Integers, FiniteSets

CONSTANTS
  Warmups,      \* warmedUps
  Combos        \* number of test combinations

ASSUME BenchAssumption == Warmups \in Nat /\ Combos \in Nat \ {0} /\ Warmups <= Combos

Run == 1..(Warmups + Combos)
\* The combination of a run, and with it the path of its trace (getTraceFilePath).
\* Mutant: the path leaves the iteration out.
ComboNoIter(r) == 1
Combo(r) == IF r <= Warmups THEN r ELSE r - Warmups
NoRun == 0

VARIABLES
  run,          \* the current run of CmdGenTraces
  main,         \* where RunDiscoveryTest is
  output,       \* per run: the goroutine around cmd.Output
  proc,         \* per run: the test process
  passed,       \* per run: the process ended with success
  verdict,      \* per run: what RunDiscoveryTest returned
  traces        \* per combination: the run that made the file, if there is one

vars == <<run, main, output, proc, passed, verdict, traces>>

Init ==
  /\ run = 1 /\ main = "start"
  /\ output = [r \in Run |-> "none"]
  /\ proc = [r \in Run |-> "none"]
  /\ passed = [r \in Run |-> FALSE]
  /\ verdict = [r \in Run |-> "none"]
  /\ traces = [c \in 1..Combos |-> NoRun]      \* CmdGenTraces empties the directory

-----------------------------------------------------------------------------
(* RunDiscoveryTest *)

Start ==
  /\ main = "start" /\ run \in Run
  /\ main' = "select"
  /\ output' = [output EXCEPT ![run] = "waiting"]
  /\ proc' = [proc EXCEPT ![run] = "building"]
  /\ UNCHANGED <<run, passed, verdict, traces>>

\* The goroutine hands over an error or nil; `done' has no buffer.
Receive ==
  /\ main = "select" /\ output[run] \in {"error", "nil"}
  /\ main' = "stat"
  /\ output' = [output EXCEPT ![run] = IF @ = "error" THEN "checking" ELSE "ended"]
  /\ UNCHANGED <<run, proc, passed, verdict, traces>>

\* Killing `go test' ends it, unless the binary runs already.
Killed(p) == CASE p = "building" -> "exited" [] p = "binary" -> "orphan"
               [] p = "tracing" -> "traced orphan" [] OTHER -> p

\* Mutants: the process is left alone; the timer waits for the process.
TimeoutLate ==
  /\ main = "select" /\ proc[run] = "exited"
  /\ main' = "remove"
  /\ UNCHANGED <<run, output, proc, passed, verdict, traces>>
TimeoutSpares ==
  /\ main = "select"
  /\ main' = "remove"
  /\ UNCHANGED <<run, output, proc, passed, verdict, traces>>
Timeout ==
  /\ main = "select"
  /\ main' = "remove"
  /\ proc' = [proc EXCEPT ![run] = Killed(@)]
  /\ UNCHANGED <<run, output, passed, verdict, traces>>

Return(v) ==
  /\ verdict' = [verdict EXCEPT ![run] = v]
  /\ main' = "start" /\ run' = run + 1

RemoveTrace ==
  /\ main = "remove"
  /\ traces' = [traces EXCEPT ![Combo(run)] = NoRun]
  /\ Return("timeout")
  /\ UNCHANGED <<output, proc, passed>>

\* The error of the test is gone: os.Stat has the last word.
Stat ==
  /\ main = "stat"
  /\ Return(IF traces[Combo(run)] # NoRun THEN "ok" ELSE "missing")
  /\ UNCHANGED <<output, proc, passed, traces>>

-----------------------------------------------------------------------------
(* The goroutine: with an error it sends twice. *)

OutputReturns(r) ==
  /\ output[r] = "waiting" /\ proc[r] = "exited"
  /\ output' = [output EXCEPT ![r] = IF passed[r] THEN "checking" ELSE "error"]
  /\ UNCHANGED <<run, main, proc, passed, verdict, traces>>

\* Mutant: the result of a test that passed is sent twice as well.
OutputChecksTwice(r) ==
  /\ output[r] = "checking"
  /\ output' = [output EXCEPT ![r] = "error"]
  /\ UNCHANGED <<run, main, proc, passed, verdict, traces>>
OutputChecks(r) ==
  /\ output[r] = "checking"
  /\ output' = [output EXCEPT ![r] = "nil"]
  /\ UNCHANGED <<run, main, proc, passed, verdict, traces>>

-----------------------------------------------------------------------------
(* The process. *)

Builds(r) ==
  /\ proc[r] = "building"
  /\ proc' = [proc EXCEPT ![r] = "binary"]
  /\ UNCHANGED <<run, main, output, passed, verdict, traces>>

CreatesTrace(r) ==
  /\ proc[r] \in {"binary", "orphan"}
  /\ proc' = [proc EXCEPT ![r] = IF @ = "binary" THEN "tracing" ELSE "traced orphan"]
  /\ traces' = [traces EXCEPT ![Combo(r)] = r]
  /\ UNCHANGED <<run, main, output, passed, verdict>>

\* A build may fail, a binary may fail to create its trace, a test may fail.  `go
\* test' that was killed did not succeed.
Exits(r) ==
  /\ proc[r] \in {"building", "binary", "tracing", "orphan", "traced orphan"}
  /\ \E ok \in BOOLEAN :
       /\ ok => proc[r] = "tracing"
       /\ passed' = [passed EXCEPT ![r] = ok]
  /\ proc' = [proc EXCEPT ![r] = "exited"]
  /\ UNCHANGED <<run, main, output, verdict, traces>>

-----------------------------------------------------------------------------
Runner  == Start \/ Receive \/ Timeout \/ RemoveTrace \/ Stat
Process == \E r \in Run : Builds(r) \/ CreatesTrace(r) \/ Exits(r)
Next    == Runner \/ Process \/ \E r \in Run : OutputReturns(r) \/ OutputChecks(r)

-----------------------------------------------------------------------------
(* Properties *)

\* Runs do not overlap: when the next one starts, the process of every earlier run
\* has ended, unless it timed out with its binary running.
RunsSerial ==
  \A r \in Run : r < run =>
    \/ proc[r] = "exited"
    \/ verdict[r] = "timeout" /\ proc[r] \in {"orphan", "traced orphan"}

\* The goroutine of a run that passed in time does not outlive it: it is left
\* behind, blocked on `done', only after an error or a timeout.
LeakOnlyAfterFailure ==
  \A r \in Run : r < run /\ output[r] # "ended" => verdict[r] = "timeout" \/ ~passed[r]
=============================================================================
