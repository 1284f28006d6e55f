---------------------------- MODULE BenchResults ----------------------------
(***************************************************************************)
(* The full benchmark (`bench all', cmd/bench/cmd_bench.go): CmdGenTraces  *)
(* runs the tests, CmdParseResults turns every trace into a result, one    *)
(* task of a pool per combination, and the charts count a combination      *)
(* without a result as a failed run.  Binaries of tests that timed out run *)
(* on all the while and write where the tasks read.                        *)
(***************************************************************************)
EXTENDS BenchRun

VARIABLES
  task,         \* per combination: its task in the pool
  gob,          \* per combination: the run whose result was stored
  charted       \* per combination: the run the charts show, or a failed run

resultVars == <<task, gob, charted>>
allVars == <<vars, resultVars>>

ResultsInit ==
  /\ Init
  /\ task = [c \in 1..Combos |-> "none"]
  /\ gob = [c \in 1..Combos |-> NoRun]
  /\ charted = <<>>

GenTraces == Next /\ UNCHANGED resultVars

\* CmdParseResults starts when CmdGenTraces has returned.
Generated == run \notin Run

\* A task opens the trace, or ends without one.
OpensTrace(c) ==
  /\ Generated /\ task[c] = "none"
  /\ task' = [task EXCEPT ![c] = IF traces[c] = NoRun THEN "done" ELSE "open"]
  /\ UNCHANGED <<vars, gob, charted>>

\* The trace of a test that passed is complete.  One of a test that failed may be cut
\* off, and an orphan of the same combination writes to the same path.
Complete(c) ==
  /\ passed[traces[c]]
  /\ \A r \in Run : Combo(r) = c => verdict[r] # "timeout"

\* TracesToResults reads the trace, and the result is stored; or it reports an error.
\* An incomplete trace may do either.
StoresResult(c) ==
  /\ task[c] = "open"
  /\ task' = [task EXCEPT ![c] = "done"]
  /\ \/ gob' = [gob EXCEPT ![c] = traces[c]]
     \/ ~Complete(c) /\ UNCHANGED gob
  /\ UNCHANGED <<vars, charted>>

\* CmdGenCharts reads the results when p.Wait has returned.  Mutant: at once.
ChartsEarly ==
  /\ Generated /\ charted = <<>>
  /\ charted' = gob /\ UNCHANGED <<vars, task, gob>>
Charts ==
  /\ Generated /\ charted = <<>> /\ \A c \in 1..Combos : task[c] = "done"
  /\ charted' = gob /\ UNCHANGED <<vars, task, gob>>

ResultsNext == \/ GenTraces \/ Charts
               \/ \E c \in 1..Combos : OpensTrace(c) \/ StoresResult(c)

ResultsSpec == ResultsInit /\ [][ResultsNext]_allVars

\* The runner and the pool are scheduled and the runner's timer fires; a test may hang.
FairResultsSpec ==
  /\ ResultsSpec
  /\ WF_allVars(Runner /\ UNCHANGED resultVars)
  /\ WF_allVars(Charts \/ \E c \in 1..Combos : OpensTrace(c) \/ StoresResult(c))

-----------------------------------------------------------------------------
(* Properties *)

\* A run that passed in time is the one the charts show for its combination, whatever
\* the other runs did, and however late binaries of theirs came: no run counts as
\* failed, and no warm-up in its place, unless an earlier run of the same combination
\* timed out and wrote to its path.
PassedIsCharted ==
  charted # <<>> =>
    \A r \in Run \ 1..Warmups :
      passed[r] /\ verdict[r] = "ok" =>
        \/ charted[Combo(r)] = r
        \/ \E s \in Run : s < r /\ Combo(s) = Combo(r) /\ verdict[s] = "timeout"

\* The benchmark ends with its charts, even when tests hang.
ChartsDrawn == <>(charted # <<>>)
=============================================================================
