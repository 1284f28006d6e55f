----------------------------- MODULE BenchProofs -----------------------------
(***************************************************************************)
(* What the runs of the benchmark and its charts may be relied on for, for *)
(* every number of warm-ups, hosts, messages and iterations.               *)
(***************************************************************************)
EXTENDS BenchResults, BenchChart, TLAPS, FiniteSetTheorems

BenchTypeOK ==
  /\ run \in 1..(Warmups + Combos + 1) /\ main \in {"start", "select", "stat", "remove"}
  /\ output \in [Run -> {"none", "waiting", "error", "checking", "nil", "ended"}]
  /\ proc \in [Run -> {"none", "building", "binary", "tracing", "orphan", "traced orphan", "exited"}]
  /\ passed \in [Run -> BOOLEAN]
  /\ verdict \in [Run -> {"none", "ok", "missing", "timeout"}]
  /\ traces \in [1..Combos -> Run \cup {NoRun}]

\* Runs to come have not begun.
NotBegun(r) == proc[r] = "none" /\ output[r] = "none" /\ verdict[r] = "none" /\ ~passed[r]

\* The current run: its process is alive or has exited while the runner waits, and is
\* out of the runner's way when it does not.
CurrentRun ==
  /\ main = "start" /\ run \in Run => NotBegun(run)
  /\ main # "start" => run \in Run /\ verdict[run] = "none"
  /\ main = "select" => proc[run] \in {"building", "binary", "tracing", "exited"}
  /\ main = "stat" => proc[run] = "exited" /\ (output[run] = "ended" \/ ~passed[run])
  /\ main = "remove" => proc[run] \in {"exited", "orphan", "traced orphan"}

\* Who speaks for a process, and who passed, has seen it exit.
ExitSeen ==
  \A r \in Run :
    /\ output[r] \notin {"none", "waiting"} => proc[r] = "exited"
    /\ passed[r] => proc[r] = "exited"
    /\ output[r] = "error" => ~passed[r]

\* A trace that no other run may touch: a test that is running or has passed finds
\* its own file, unless its runner gave up on it.
Undisturbed(r) == \A s \in Run : s < r /\ Combo(s) = Combo(r) => verdict[s] # "timeout"
TraceKept ==
  \A r \in Run \ 1..Warmups :
    Undisturbed(r) /\ (proc[r] = "tracing" \/ passed[r]) =>
      traces[Combo(r)] = r \/ verdict[r] = "timeout"

RunInv ==
  /\ BenchTypeOK
  /\ \A r \in Run : r > run => NotBegun(r)
  /\ CurrentRun /\ ExitSeen
  /\ RunsSerial /\ LeakOnlyAfterFailure
  /\ TraceKept

\* The pool and the charts begin when all runs have returned.
Passed(r) == passed[r] /\ verdict[r] = "ok" /\ Undisturbed(r)
ResultsTypeOK ==
  /\ task \in [1..Combos -> {"none", "open", "done"}]
  /\ gob \in [1..Combos -> Run \cup {NoRun}]
ResultKept ==
  /\ (\E c \in 1..Combos : task[c] # "none") \/ charted # <<>> => Generated
  /\ \A r \in Run \ 1..Warmups : Passed(r) =>
       /\ task[Combo(r)] = "done" => gob[Combo(r)] = r
       /\ charted # <<>> => charted[Combo(r)] = r

ResultsInv == RunInv /\ ResultsTypeOK /\ ResultKept

-----------------------------------------------------------------------------

\* The sizes of a benchmark, and which runs there are.
LEMMA Numbers ==
  /\ Warmups \in Nat /\ Combos \in Nat /\ Combos > 0 /\ Warmups <= Combos
  /\ \A r : r \in Run <=> r \in Int /\ 1 <= r /\ r <= Warmups + Combos
BY BenchAssumption DEF Run

\* Past the warm-ups, no two runs share a combination, and a warm-up comes first.
LEMMA ComboFacts ==
  /\ \A r \in Run : Combo(r) \in 1..Combos
  /\ \A r \in Run \ 1..Warmups, s \in Run : Combo(s) = Combo(r) => s = r \/ s < r
BY Numbers DEF Combo

\* Nothing has run at the start.
LEMMA BenchInit == Init => RunInv
<1> SUFFICES ASSUME Init PROVE RunInv
  OBVIOUS
<1> USE Numbers DEF Init
<1>1. BenchTypeOK
  BY DEF BenchTypeOK
<1>2. \A r \in Run : NotBegun(r)
  BY DEF NotBegun
<1>3. CurrentRun /\ ExitSeen
  BY <1>2 DEF CurrentRun, ExitSeen
<1>4. RunsSerial /\ LeakOnlyAfterFailure /\ TraceKept
  BY DEF RunsSerial, LeakOnlyAfterFailure, TraceKept
<1>5. QED BY <1>1, <1>2, <1>3, <1>4 DEF RunInv

\* While the runner is busy its run exists.
LEMMA BusyRun ==
  ASSUME RunInv
  PROVE  /\ run \in Int /\ NoRun \notin Run
         /\ main # "start" => run \in Run /\ run + 1 \in 1..(Warmups + Combos + 1)
<1>1. run \in 1..(Warmups + Combos + 1) /\ (main # "start" => run \in Run)
  BY DEF RunInv, BenchTypeOK, CurrentRun
<1>2. QED BY <1>1, Numbers DEF NoRun

\* Every step keeps the types.
LEMMA BenchTypeStep ==
  ASSUME RunInv, Next PROVE BenchTypeOK'
<1>1. BenchTypeOK
  BY DEF RunInv
<1> USE <1>1, Numbers, ComboFacts, BusyRun DEF BenchTypeOK, Return
<1>2. CASE Start
  BY <1>2 DEF Start
<1>3. CASE Receive
  BY <1>3 DEF Receive
<1>4. CASE Timeout
  BY <1>4 DEF Timeout, Killed
<1>5. CASE RemoveTrace
  BY <1>5 DEF RemoveTrace
<1>6. CASE Stat
  BY <1>6 DEF Stat
<1>7. ASSUME NEW r \in Run, OutputReturns(r) PROVE BenchTypeOK'
  BY <1>7 DEF OutputReturns
<1>8. ASSUME NEW r \in Run, OutputChecks(r) PROVE BenchTypeOK'
  BY <1>8 DEF OutputChecks
<1>9. ASSUME NEW r \in Run, Builds(r) PROVE BenchTypeOK'
  BY <1>9 DEF Builds
<1>10. ASSUME NEW r \in Run, CreatesTrace(r) PROVE BenchTypeOK'
  BY <1>10 DEF CreatesTrace
<1>11. ASSUME NEW r \in Run, Exits(r) PROVE BenchTypeOK'
  <2>1. PICK ok \in BOOLEAN : passed' = [passed EXCEPT ![r] = ok]
    BY <1>11 DEF Exits
  <2>2. passed' \in [Run -> BOOLEAN]
    BY <2>1
  <2>3. QED BY <1>11, <2>2 DEF Exits
<1>12. QED
  BY <1>2, <1>3, <1>4, <1>5, <1>6, <1>7, <1>8, <1>9, <1>10, <1>11 DEF Next, Runner, Process

\* A run begins when the runner gets to it, and only then.
LEMMA NotBegunStep ==
  ASSUME RunInv, Next PROVE \A r \in Run : r > run' => NotBegun(r)'
<1> SUFFICES ASSUME NEW q \in Run, q > run' PROVE NotBegun(q)'
  OBVIOUS
<1>c. (q > run => NotBegun(q)) /\ run \in Int /\ q \in Int
  BY Numbers, BusyRun DEF RunInv
<1>1. /\ output \in [Run -> {"none", "waiting", "error", "checking", "nil", "ended"}]
      /\ proc \in [Run -> {"none", "building", "binary", "tracing", "orphan", "traced orphan", "exited"}]
      /\ passed \in [Run -> BOOLEAN]
      /\ verdict \in [Run -> {"none", "ok", "missing", "timeout"}]
  BY DEF RunInv, BenchTypeOK
<1>a. run' = run \/ run' = run + 1
  BY DEF Next, Runner, Process, Start, Receive, Timeout, RemoveTrace, Stat, Return,
              OutputReturns, OutputChecks, Builds, CreatesTrace, Exits
<1>b. q > run /\ q # run
  BY <1>c, <1>a
<1> USE <1>1, <1>c, <1>b DEF NotBegun
<1>2. CASE Start
  BY <1>2 DEF Start
<1>3. CASE Receive
  BY <1>3 DEF Receive
<1>4. CASE Timeout
  BY <1>4 DEF Timeout
<1>5. CASE RemoveTrace
  BY <1>5 DEF RemoveTrace, Return
<1>6. CASE Stat
  BY <1>6 DEF Stat, Return
<1>7. ASSUME NEW r \in Run, OutputReturns(r) PROVE NotBegun(q)'
  BY <1>7 DEF OutputReturns
<1>8. ASSUME NEW r \in Run, OutputChecks(r) PROVE NotBegun(q)'
  BY <1>8 DEF OutputChecks
<1>9. ASSUME NEW r \in Run, Builds(r) PROVE NotBegun(q)'
  BY <1>9 DEF Builds
<1>10. ASSUME NEW r \in Run, CreatesTrace(r) PROVE NotBegun(q)'
  BY <1>10 DEF CreatesTrace
<1>11. ASSUME NEW r \in Run, Exits(r) PROVE NotBegun(q)'
  BY <1>11 DEF Exits
<1>12. QED
  BY <1>2, <1>3, <1>4, <1>5, <1>6, <1>7, <1>8, <1>9, <1>10, <1>11 DEF Next, Runner, Process

\* Every step keeps what an exit implies.
LEMMA ExitStep ==
  ASSUME RunInv, Next PROVE ExitSeen'
<1>1. BenchTypeOK /\ ExitSeen /\ CurrentRun /\ \A r \in Run : r > run => NotBegun(r)
  BY DEF RunInv
<1> USE <1>1, Numbers DEF BenchTypeOK, ExitSeen, CurrentRun, NotBegun, Return
<1>2. CASE Start
  BY <1>2 DEF Start
<1>3. CASE Receive
  BY <1>3 DEF Receive
<1>4. CASE Timeout
  BY <1>4 DEF Timeout, Killed
<1>5. CASE RemoveTrace
  BY <1>5 DEF RemoveTrace
<1>6. CASE Stat
  BY <1>6 DEF Stat
<1>7. ASSUME NEW r \in Run, OutputReturns(r) PROVE ExitSeen'
  BY <1>7 DEF OutputReturns
<1>8. ASSUME NEW r \in Run, OutputChecks(r) PROVE ExitSeen'
  BY <1>8 DEF OutputChecks
<1>9. ASSUME NEW r \in Run, Builds(r) PROVE ExitSeen'
  BY <1>9 DEF Builds
<1>10. ASSUME NEW r \in Run, CreatesTrace(r) PROVE ExitSeen'
  BY <1>10 DEF CreatesTrace
<1>11. ASSUME NEW r \in Run, Exits(r) PROVE ExitSeen'
  BY <1>11 DEF Exits
<1>12. QED
  BY <1>2, <1>3, <1>4, <1>5, <1>6, <1>7, <1>8, <1>9, <1>10, <1>11 DEF Next, Runner, Process

\* The runner goes on to the next run.
LEMMA Returning ==
  ASSUME RunInv, RemoveTrace \/ Stat
  PROVE  /\ run \in Run /\ main' = "start" /\ run' = run + 1 /\ UNCHANGED <<output, proc, passed>>
         /\ verdict' \in [Run -> {"none", "ok", "missing", "timeout"}]
         /\ \A r \in Run : /\ r # run => verdict'[r] = verdict[r]
                           /\ r < run' => r = run \/ r < run
                           /\ r = run' => r > run /\ r # run
<1>1. run \in Run /\ run \in Int
  BY BusyRun DEF RemoveTrace, Stat
<1>2. main' = "start" /\ run' = run + 1 /\ UNCHANGED <<output, proc, passed>>
  BY DEF RemoveTrace, Stat, Return
<1>3. PICK v \in {"ok", "missing", "timeout"} : verdict' = [verdict EXCEPT ![run] = v]
  BY DEF RemoveTrace, Stat, Return
<1>4. verdict \in [Run -> {"none", "ok", "missing", "timeout"}]
  BY DEF RunInv, BenchTypeOK
<1>5. \A r \in Run : (r < run + 1 => r = run \/ r < run) /\ (r = run + 1 => r > run /\ r # run)
  BY <1>1, Numbers
<1>6. verdict' \in [Run -> {"none", "ok", "missing", "timeout"}]
  BY <1>1, <1>3, <1>4
<1>7. \A r \in Run : r # run => verdict'[r] = verdict[r]
  BY <1>1, <1>3, <1>4
<1>8. QED BY <1>1, <1>2, <1>5, <1>6, <1>7

\* Every step keeps the shape of the current run.
LEMMA CurrentStep ==
  ASSUME RunInv, Next PROVE CurrentRun'
<1>1. BenchTypeOK /\ ExitSeen /\ CurrentRun /\ \A r \in Run : r > run => NotBegun(r)
  BY DEF RunInv
<1>2. CASE Start
  BY <1>1, <1>2, BusyRun, Numbers DEF Start, BenchTypeOK, ExitSeen, CurrentRun, NotBegun
<1>3. CASE Receive
  BY <1>1, <1>3, BusyRun, Numbers DEF Receive, BenchTypeOK, ExitSeen, CurrentRun, NotBegun
<1>4. CASE Timeout
  BY <1>1, <1>4, BusyRun, Numbers DEF Timeout, Killed, BenchTypeOK, ExitSeen, CurrentRun, NotBegun
<1>5. CASE RemoveTrace
  <2>1. main' = "start" /\ (run' \in Run => run' > run /\ run' # run)
    BY <1>5, Returning
  <2>2. ASSUME run' \in Run PROVE NotBegun(run)'
    BY <1>1, <1>5, <2>1, <2>2, Returning DEF NotBegun
  <2>3. QED BY <2>1, <2>2 DEF CurrentRun
<1>6. CASE Stat
  <2>1. main' = "start" /\ (run' \in Run => run' > run /\ run' # run)
    BY <1>6, Returning
  <2>2. ASSUME run' \in Run PROVE NotBegun(run)'
    BY <1>1, <1>6, <2>1, <2>2, Returning DEF NotBegun
  <2>3. QED BY <2>1, <2>2 DEF CurrentRun
<1>7. ASSUME NEW r \in Run, OutputReturns(r) PROVE CurrentRun'
  BY <1>1, <1>7, BusyRun, Numbers DEF OutputReturns, BenchTypeOK, ExitSeen, CurrentRun, NotBegun
<1>8. ASSUME NEW r \in Run, OutputChecks(r) PROVE CurrentRun'
  BY <1>1, <1>8, BusyRun, Numbers DEF OutputChecks, BenchTypeOK, ExitSeen, CurrentRun, NotBegun
<1>9. ASSUME NEW r \in Run, Builds(r) PROVE CurrentRun'
  BY <1>1, <1>9, BusyRun, Numbers DEF Builds, BenchTypeOK, ExitSeen, CurrentRun, NotBegun
<1>10. ASSUME NEW r \in Run, CreatesTrace(r) PROVE CurrentRun'
  BY <1>1, <1>10, BusyRun, Numbers DEF CreatesTrace, BenchTypeOK, ExitSeen, CurrentRun, NotBegun
<1>11. ASSUME NEW r \in Run, Exits(r) PROVE CurrentRun'
  BY <1>1, <1>11, BusyRun, Numbers DEF Exits, BenchTypeOK, ExitSeen, CurrentRun, NotBegun
<1>12. QED
  BY <1>2, <1>3, <1>4, <1>5, <1>6, <1>7, <1>8, <1>9, <1>10, <1>11 DEF Next, Runner, Process

\* A run is left behind when its process has exited or its time is over.
LEMMA SerialStep ==
  ASSUME RunInv, Next PROVE RunsSerial'
<1>1. BenchTypeOK /\ RunsSerial /\ CurrentRun
  BY DEF RunInv
<1>2. CASE Start
  <2>1. run' = run /\ \A r \in Run : r < run => r # run
    BY <1>2, Numbers DEF Start
  <2>2. UNCHANGED <<verdict, passed>> /\ \A r \in Run : r # run => proc'[r] = proc[r]
    BY <1>1, <1>2 DEF Start, BenchTypeOK
  <2>3. QED BY <1>1, <2>1, <2>2 DEF RunsSerial
<1>3. CASE Receive
  BY <1>1, <1>3, BusyRun, Numbers DEF Receive, BenchTypeOK, RunsSerial, CurrentRun
<1>4. CASE Timeout
  BY <1>1, <1>4, BusyRun, Numbers DEF Timeout, Killed, BenchTypeOK, RunsSerial, CurrentRun
<1>5. CASE RemoveTrace
  <2>1. proc[run] = "exited" \/ (verdict'[run] = "timeout" /\ proc[run] \in {"orphan", "traced orphan"})
    BY <1>1, <1>5, BusyRun DEF RemoveTrace, Return, BenchTypeOK, CurrentRun
  <2>2. QED BY <1>1, <1>5, <2>1, Returning DEF RunsSerial
<1>6. CASE Stat
  <2>1. proc[run] = "exited" \/ (verdict'[run] = "timeout" /\ proc[run] \in {"orphan", "traced orphan"})
    BY <1>1, <1>6, BusyRun DEF Stat, Return, BenchTypeOK, CurrentRun
  <2>2. QED BY <1>1, <1>6, <2>1, Returning DEF RunsSerial
<1>7. ASSUME NEW r \in Run, OutputReturns(r) PROVE RunsSerial'
  BY <1>1, <1>7, BusyRun, Numbers DEF OutputReturns, BenchTypeOK, RunsSerial, CurrentRun
<1>8. ASSUME NEW r \in Run, OutputChecks(r) PROVE RunsSerial'
  BY <1>1, <1>8, BusyRun, Numbers DEF OutputChecks, BenchTypeOK, RunsSerial, CurrentRun
<1>9. ASSUME NEW r \in Run, Builds(r) PROVE RunsSerial'
  BY <1>1, <1>9, BusyRun, Numbers DEF Builds, BenchTypeOK, RunsSerial, CurrentRun
<1>10. ASSUME NEW r \in Run, CreatesTrace(r) PROVE RunsSerial'
  BY <1>1, <1>10, BusyRun, Numbers DEF CreatesTrace, BenchTypeOK, RunsSerial, CurrentRun
<1>11. ASSUME NEW r \in Run, Exits(r) PROVE RunsSerial'
  BY <1>1, <1>11, BusyRun, Numbers DEF Exits, BenchTypeOK, RunsSerial, CurrentRun
<1>12. QED
  BY <1>2, <1>3, <1>4, <1>5, <1>6, <1>7, <1>8, <1>9, <1>10, <1>11 DEF Next, Runner, Process

\* Every step of a runner that has had no failure leaves no process behind.
LEMMA LeakStep ==
  ASSUME RunInv, Next PROVE LeakOnlyAfterFailure'
<1>1. BenchTypeOK /\ LeakOnlyAfterFailure /\ CurrentRun /\ ExitSeen /\ RunsSerial
  BY DEF RunInv
<1>2. CASE Start
  <2>1. run' = run /\ \A r \in Run : r < run => r # run
    BY <1>2, Numbers DEF Start
  <2>2. UNCHANGED <<verdict, passed>> /\ \A r \in Run : r # run => output'[r] = output[r]
    BY <1>1, <1>2 DEF Start, BenchTypeOK
  <2>3. QED BY <1>1, <2>1, <2>2 DEF LeakOnlyAfterFailure
<1>3. CASE Receive
  BY <1>1, <1>3, BusyRun, Numbers DEF Receive, BenchTypeOK, LeakOnlyAfterFailure, CurrentRun, RunsSerial, ExitSeen
<1>4. CASE Timeout
  BY <1>1, <1>4, BusyRun, Numbers DEF Timeout, Killed, BenchTypeOK, LeakOnlyAfterFailure, CurrentRun, RunsSerial, ExitSeen
<1>5. CASE RemoveTrace
  <2>1. output[run] = "ended" \/ verdict'[run] = "timeout" \/ ~passed[run]
    BY <1>1, <1>5, BusyRun DEF RemoveTrace, Return, BenchTypeOK, CurrentRun
  <2>2. QED BY <1>1, <1>5, <2>1, Returning DEF LeakOnlyAfterFailure
<1>6. CASE Stat
  <2>1. output[run] = "ended" \/ verdict'[run] = "timeout" \/ ~passed[run]
    BY <1>1, <1>6, BusyRun DEF Stat, Return, BenchTypeOK, CurrentRun
  <2>2. QED BY <1>1, <1>6, <2>1, Returning DEF LeakOnlyAfterFailure
<1>7. ASSUME NEW r \in Run, OutputReturns(r) PROVE LeakOnlyAfterFailure'
  BY <1>1, <1>7, BusyRun, Numbers DEF OutputReturns, BenchTypeOK, LeakOnlyAfterFailure, CurrentRun, RunsSerial, ExitSeen
<1>8. ASSUME NEW r \in Run, OutputChecks(r) PROVE LeakOnlyAfterFailure'
  BY <1>1, <1>8, BusyRun, Numbers DEF OutputChecks, BenchTypeOK, LeakOnlyAfterFailure, CurrentRun, RunsSerial, ExitSeen
<1>9. ASSUME NEW r \in Run, Builds(r) PROVE LeakOnlyAfterFailure'
  BY <1>1, <1>9, BusyRun, Numbers DEF Builds, BenchTypeOK, LeakOnlyAfterFailure, CurrentRun, RunsSerial, ExitSeen
<1>10. ASSUME NEW r \in Run, CreatesTrace(r) PROVE LeakOnlyAfterFailure'
  BY <1>1, <1>10, BusyRun, Numbers DEF CreatesTrace, BenchTypeOK, LeakOnlyAfterFailure, CurrentRun, RunsSerial, ExitSeen
<1>11. ASSUME NEW r \in Run, Exits(r) PROVE LeakOnlyAfterFailure'
  BY <1>1, <1>11, BusyRun, Numbers DEF Exits, BenchTypeOK, LeakOnlyAfterFailure, CurrentRun, RunsSerial, ExitSeen
<1>12. QED
  BY <1>2, <1>3, <1>4, <1>5, <1>6, <1>7, <1>8, <1>9, <1>10, <1>11 DEF Next, Runner, Process

\* A verdict is final.
LEMMA VerdictStays ==
  ASSUME RunInv, Next, NEW r \in Run, verdict[r] # "none"
  PROVE  verdict'[r] = verdict[r]
<1>1. CASE RemoveTrace \/ Stat
  <2>1. r # run
    BY <1>1 DEF RunInv, CurrentRun, RemoveTrace, Stat
  <2>2. QED BY <1>1, <2>1, Returning
<1>2. CASE ~(RemoveTrace \/ Stat)
  BY <1>2 DEF Next, Runner, Process, Start, Receive, Timeout, OutputReturns, OutputChecks,
              Builds, CreatesTrace, Exits
<1>3. QED BY <1>1, <1>2

\* A trace is lost to a warm-up of its combination that timed out, or to its own
\* timeout, and to nothing else.
LEMMA TraceStep ==
  ASSUME RunInv, Next PROVE TraceKept'
<1> SUFFICES ASSUME NEW r \in Run \ 1..Warmups, Undisturbed(r)', proc'[r] = "tracing" \/ passed'[r]
             PROVE  traces'[Combo(r)] = r \/ verdict'[r] = "timeout"
  BY DEF TraceKept
<1>1. BenchTypeOK /\ \A s \in Run : Combo(s) \in 1..Combos
  BY ComboFacts DEF RunInv
<1>2. Undisturbed(r)
  BY VerdictStays DEF Undisturbed
<1>3. proc[r] = "tracing" \/ passed[r] => traces[Combo(r)] = r \/ verdict[r] = "timeout"
  BY <1>2 DEF RunInv, TraceKept
<1>4. verdict[r] = "timeout" => verdict'[r] = "timeout"
  BY VerdictStays
<1>5. ASSUME NEW t \in Run, CreatesTrace(t) PROVE traces'[Combo(r)] = r \/ verdict'[r] = "timeout"
  <2>1. traces' = [traces EXCEPT ![Combo(t)] = t] /\ passed' = passed
    BY <1>5 DEF CreatesTrace
  <2>2. CASE t = r
    BY <1>1, <2>1, <2>2 DEF BenchTypeOK
  <2>3. CASE t # r
    <3>1. proc[r] = "tracing" \/ passed[r]
      BY <1>1, <1>5, <2>1, <2>3 DEF CreatesTrace, BenchTypeOK
    <3>2. ~(r > run)
      BY <3>1 DEF RunInv, NotBegun
    <3>3. CASE Combo(t) = Combo(r)
      <4>1. t < r
        BY <2>3, <3>3, ComboFacts
      <4>2. t < run
        BY <3>2, <4>1, BusyRun, Numbers
      <4>3. verdict[t] # "timeout"
        BY <1>2, <3>3, <4>1 DEF Undisturbed
      <4>4. proc[t] = "exited"
        BY <4>2, <4>3 DEF RunInv, RunsSerial
      <4>5. QED BY <1>5, <4>4 DEF CreatesTrace
    <3>4. CASE Combo(t) # Combo(r)
      BY <1>1, <1>3, <1>4, <2>1, <3>1, <3>4 DEF BenchTypeOK
    <3>5. QED BY <3>3, <3>4
  <2>4. QED BY <2>2, <2>3
<1>6. CASE RemoveTrace
  <2>1. /\ run \in Run /\ UNCHANGED <<proc, passed>>
        /\ traces' = [traces EXCEPT ![Combo(run)] = NoRun]
    BY <1>6, BusyRun DEF RemoveTrace
  <2>2. verdict'[run] = "timeout"
    BY <1>1, <1>6, <2>1 DEF RemoveTrace, Return, BenchTypeOK
  <2>3. Combo(run) = Combo(r) => run = r
    BY <2>1, <2>2, ComboFacts DEF Undisturbed
  <2>4. Combo(run) # Combo(r) => traces'[Combo(r)] = traces[Combo(r)]
    BY <1>1, <2>1 DEF BenchTypeOK
  <2>5. QED BY <1>3, <1>4, <2>1, <2>2, <2>3, <2>4
<1>7. ASSUME NEW t \in Run, Exits(t) PROVE traces'[Combo(r)] = r \/ verdict'[r] = "timeout"
  <2>1. PICK ok \in BOOLEAN : (ok => proc[t] = "tracing") /\ passed' = [passed EXCEPT ![t] = ok]
    BY <1>7 DEF Exits
  <2>2. proc[r] = "tracing" \/ passed[r]
    BY <1>1, <1>7, <2>1 DEF Exits, BenchTypeOK
  <2>3. QED BY <1>3, <1>4, <1>7, <2>2 DEF Exits
<1>8. CASE Start \/ Receive \/ Timeout \/ Stat \/ \E t \in Run : OutputReturns(t) \/ OutputChecks(t) \/ Builds(t)
  <2>1. UNCHANGED <<traces, passed>>
    BY <1>8 DEF Start, Receive, Timeout, Stat, OutputReturns, OutputChecks, Builds
  <2>2. proc'[r] = "tracing" => proc[r] = "tracing"
    <3>1. UNCHANGED proc
          \/ \E t \in Run :
               \E l \in {"building", "binary", "exited", "orphan", "traced orphan", proc[t]} :
                 proc' = [proc EXCEPT ![t] = l]
      BY <1>8, BusyRun DEF Start, Receive, Timeout, Stat, OutputReturns, OutputChecks, Builds, Killed
    <3>2. QED BY <1>1, <3>1 DEF BenchTypeOK
  <2>3. QED BY <1>3, <1>4, <2>1, <2>2
<1>9. QED BY <1>5, <1>6, <1>7, <1>8 DEF Next, Runner, Process

\* Every step keeps the invariant of the runner.
LEMMA RunInvStep == RunInv /\ [Next]_vars => RunInv'
<1> SUFFICES ASSUME RunInv, [Next]_vars PROVE RunInv'
  OBVIOUS
<1>1. CASE Next
  BY <1>1, BenchTypeStep, NotBegunStep, CurrentStep, ExitStep, SerialStep, LeakStep, TraceStep
  DEF RunInv
<1>2. CASE UNCHANGED vars
  <2> USE <1>2 DEF vars, RunInv
  <2>1. BenchTypeOK' /\ \A r \in Run : (r > run => NotBegun(r))'
    BY DEF BenchTypeOK, NotBegun
  <2>2. CurrentRun' /\ ExitSeen'
    BY DEF CurrentRun, ExitSeen, NotBegun
  <2>3. RunsSerial' /\ LeakOnlyAfterFailure'
    BY DEF RunsSerial, LeakOnlyAfterFailure
  <2>4. TraceKept'
    BY DEF TraceKept, Undisturbed
  <2>5. QED BY <2>1, <2>2, <2>3, <2>4
<1>3. QED BY <1>1, <1>2

-----------------------------------------------------------------------------
(* Results and charts *)

\* At the start there are no results.
LEMMA ResultsStart == ResultsInit => ResultsInv
<1> SUFFICES ASSUME ResultsInit PROVE ResultsInv
  OBVIOUS
<1>1. RunInv
  BY BenchInit DEF ResultsInit
<1>2. ResultsTypeOK
  BY DEF ResultsInit, ResultsTypeOK
<1>3. ResultKept
  BY ComboFacts DEF ResultsInit, ResultKept
<1>4. QED BY <1>1, <1>2, <1>3 DEF ResultsInv

\* When all runs have returned, what is left of the processes passes no more.
LEMMA AfterRuns ==
  ASSUME RunInv, Next, Generated, NEW r \in Run
  PROVE  Generated' /\ (Passed(r)' => Passed(r))
<1>1. main = "start" /\ ~Runner
  BY DEF RunInv, CurrentRun, Generated, Runner, Start, Receive, Timeout, RemoveTrace, Stat
<1>2. UNCHANGED <<run, verdict>>
  BY <1>1 DEF Next, Process, OutputReturns, OutputChecks, Builds, CreatesTrace, Exits
<1>3. r < run
  <2>1. run \in 1..(Warmups + Combos + 1) /\ ~(run \in Run)
    BY DEF RunInv, BenchTypeOK, Generated
  <2>2. QED BY <2>1, Numbers
<1>4. proc[r] # "tracing"
  BY <1>3 DEF RunInv, RunsSerial
<1>5. passed'[r] => passed[r]
  <2>1. CASE UNCHANGED passed
    BY <2>1
  <2>2. ASSUME NEW t \in Run, Exits(t) PROVE passed'[r] => passed[r]
    <3>1. PICK ok \in BOOLEAN : (ok => proc[t] = "tracing") /\ passed' = [passed EXCEPT ![t] = ok]
      BY <2>2 DEF Exits
    <3>2. passed \in [Run -> BOOLEAN]
      BY DEF RunInv, BenchTypeOK
    <3>3. QED BY <1>4, <3>1, <3>2
  <2>3. QED
    BY <1>1, <2>1, <2>2 DEF Next, Process, OutputReturns, OutputChecks, Builds, CreatesTrace
<1>6. QED BY <1>2, <1>5 DEF Generated, Passed, Undisturbed

\* The trace of a test that passed undisturbed is its own, and complete.
LEMMA PassedTrace ==
  ASSUME RunInv, NEW r \in Run \ 1..Warmups, Passed(r)
  PROVE  traces[Combo(r)] = r /\ Complete(Combo(r))
<1>1. traces[Combo(r)] = r
  BY DEF RunInv, TraceKept, Passed
<1>2. \A s \in Run : Combo(s) = Combo(r) => verdict[s] # "timeout"
  BY ComboFacts DEF Passed, Undisturbed
<1>3. QED BY <1>1, <1>2 DEF Complete, Passed

\* Reading a trace, and the steps of the runner, keep the results of the runs that passed.
LEMMA ResultsStep ==
  ASSUME ResultsInv, ResultsNext PROVE ResultsTypeOK' /\ ResultKept'
<1>1. RunInv /\ ResultsTypeOK /\ ResultKept /\ \A r \in Run : Combo(r) \in 1..Combos
  BY ComboFacts DEF ResultsInv
<1>2. CASE GenTraces
  <2>1. Next /\ UNCHANGED <<task, gob, charted>>
    BY <1>2 DEF GenTraces, resultVars
  <2>2. CASE Generated
    <3>1. \A r \in Run : Generated' /\ (Passed(r)' => Passed(r))
      BY <1>1, <2>1, <2>2, AfterRuns
    <3>2. Generated'
      BY <3>1, Numbers
    <3>3. QED BY <1>1, <2>1, <3>1, <3>2 DEF ResultKept, ResultsTypeOK
  <2>3. CASE ~Generated
    BY <1>1, <2>1, <2>3 DEF ResultKept, ResultsTypeOK
  <2>4. QED BY <2>2, <2>3
<1>3. CASE Charts
  <2>1. Generated /\ charted' = gob /\ (\A c \in 1..Combos : task[c] = "done") /\ UNCHANGED <<vars, task, gob>>
    BY <1>3 DEF Charts
  <2>2. Generated' /\ \A r \in Run : Passed(r)' = Passed(r)
    BY <2>1 DEF vars, Generated, Passed, Undisturbed
  <2>3. QED BY <1>1, <2>1, <2>2 DEF ResultKept, ResultsTypeOK
<1>4. ASSUME NEW c \in 1..Combos, OpensTrace(c) PROVE ResultsTypeOK' /\ ResultKept'
  <2>1. /\ Generated /\ task[c] = "none" /\ UNCHANGED <<vars, gob, charted>>
        /\ task' = [task EXCEPT ![c] = IF traces[c] = NoRun THEN "done" ELSE "open"]
    BY <1>4 DEF OpensTrace
  <2>2. Generated' /\ \A r \in Run : Passed(r)' = Passed(r)
    BY <2>1 DEF vars, Generated, Passed, Undisturbed
  <2>3. \A r \in Run \ 1..Warmups : Passed(r) => traces[Combo(r)] # NoRun
    BY <1>1, PassedTrace, BusyRun
  <2>4. QED BY <1>1, <2>1, <2>2, <2>3 DEF ResultKept, ResultsTypeOK
<1>5. ASSUME NEW c \in 1..Combos, StoresResult(c) PROVE ResultsTypeOK' /\ ResultKept'
  <2>1. /\ task[c] = "open" /\ UNCHANGED <<vars, charted>>
        /\ task' = [task EXCEPT ![c] = "done"]
        /\ gob' = [gob EXCEPT ![c] = traces[c]] \/ (~Complete(c) /\ UNCHANGED gob)
    BY <1>5 DEF StoresResult
  <2>2. (Generated' <=> Generated) /\ \A r \in Run : Passed(r)' = Passed(r)
    BY <2>1 DEF vars, Generated, Passed, Undisturbed
  <2>3. \A r \in Run \ 1..Warmups :
          Passed(r) /\ Combo(r) = c => traces[c] = r /\ Complete(c)
    BY <1>1, PassedTrace
  <2>4. traces[c] \in Run \cup {NoRun}
    BY <1>1 DEF RunInv, BenchTypeOK
  <2>5. ResultsTypeOK'
    BY <1>1, <2>1, <2>4 DEF ResultsTypeOK
  <2>6. ASSUME NEW r \in Run \ 1..Warmups, Passed(r)
        PROVE  /\ task'[Combo(r)] = "done" => gob'[Combo(r)] = r
               /\ charted' # <<>> => charted'[Combo(r)] = r
    <3>1. CASE Combo(r) = c
      BY <1>1, <2>1, <2>3, <2>6, <3>1 DEF ResultKept, ResultsTypeOK
    <3>2. CASE Combo(r) # c
      BY <1>1, <2>1, <2>6, <3>2 DEF ResultKept, ResultsTypeOK
    <3>3. QED BY <3>1, <3>2
  <2>7. Generated
    BY <1>1, <2>1 DEF ResultKept
  <2>8. QED BY <2>2, <2>5, <2>6, <2>7 DEF ResultKept
<1>6. QED BY <1>2, <1>3, <1>4, <1>5 DEF ResultsNext

\* Every step keeps the invariant of runner and results.
LEMMA ResultsInvStep == ResultsInv /\ [ResultsNext]_allVars => ResultsInv'
<1> SUFFICES ASSUME ResultsInv, [ResultsNext]_allVars PROVE ResultsInv'
  OBVIOUS
<1>1. CASE ResultsNext
  <2>1. [Next]_vars
    BY <1>1 DEF ResultsNext, GenTraces, Charts, OpensTrace, StoresResult
  <2>2. QED BY <1>1, <2>1, RunInvStep, ResultsStep DEF ResultsInv
<1>2. CASE UNCHANGED allVars
  <2>1. RunInv'
    BY <1>2, RunInvStep DEF allVars, ResultsInv
  <2>2. ResultsTypeOK' /\ ResultKept'
    BY <1>2 DEF allVars, vars, resultVars, ResultsInv, ResultsTypeOK, ResultKept, Generated, Passed,
                Undisturbed
  <2>3. QED BY <2>1, <2>2 DEF ResultsInv
<1>3. QED BY <1>1, <1>2

-----------------------------------------------------------------------------
(* Theorems *)

\* Runs and their processes keep to the order in which CmdGenTraces starts them, and
\* a trace that may be read is its run's own: the inductive invariant of the benchmark.
THEOREM BenchInvariance == ResultsSpec => []ResultsInv
<1>1. ResultsInit => ResultsInv
  BY ResultsStart
<1>2. ResultsInv /\ [ResultsNext]_allVars => ResultsInv'
  BY ResultsInvStep
<1>3. QED BY <1>1, <1>2, PTL DEF ResultsSpec

\* When RunDiscoveryTest returns, its process is gone or it was given up on.
THEOREM SerialRuns == ResultsSpec => []RunsSerial
<1>1. ResultsInv => RunsSerial
  BY DEF ResultsInv, RunInv
<1>2. QED BY <1>1, BenchInvariance, PTL

\* The goroutine around cmd.Output is left blocked on `done' only after a failure.
THEOREM NoLeakAfterSuccess == ResultsSpec => []LeakOnlyAfterFailure
<1>1. ResultsInv => LeakOnlyAfterFailure
  BY DEF ResultsInv, RunInv
<1>2. QED BY <1>1, BenchInvariance, PTL

\* A run that passed is charted, whatever processes of other runs still do.
THEOREM PassedRunsCharted == ResultsSpec => []PassedIsCharted
<1>1. ResultsInv => PassedIsCharted
  BY DEF ResultsInv, ResultKept, Passed, Undisturbed, PassedIsCharted
<1>2. QED BY <1>1, BenchInvariance, PTL
-----------------------------------------------------------------------------
(* The charts: division, as the nested loops of the combinations count. *)

\* What the library leaves out of division: quotient, remainder, and how they recompose.
LEMMA DivMod ==
  ASSUME NEW a \in Nat, NEW d \in Nat \ {0}
  PROVE  a \div d \in Nat /\ a % d \in 0..(d - 1) /\ a = d * (a \div d) + (a % d)
<1>1. d \in Int /\ d > 0 /\ a \in Int /\ a >= 0
  OBVIOUS
<1>2. a = d * (a \div d) + (a % d)
  BY <1>1, Z3
<1>3. a \div d \in Nat /\ a % d \in 0..(d - 1)
  OBVIOUS
<1>4. QED BY <1>2, <1>3, Zenon

\* Multiplying by a number that is not negative keeps the order.
LEMMA TimesLe ==
  ASSUME NEW d \in Nat, NEW a \in Int, NEW b \in Int, a <= b
  PROVE  d * a <= d * b /\ d * a \in Int /\ d * b \in Int
OBVIOUS

\* Quotient and remainder are the only ones.
LEMMA DivUnique ==
  ASSUME NEW d \in Nat \ {0}, NEW q \in Int, NEW r \in 0..(d - 1), d * q + r \in Nat
  PROVE  (d * q + r) \div d = q /\ (d * q + r) % d = r
<1> DEFINE a == d * q + r
           p == a \div d
           s == a % d
<1>1. p \in Nat /\ s \in 0..(d - 1) /\ a = d * p + s
  BY DivMod
<1>2. ~(p < q)
  <2>1. SUFFICES ASSUME p + 1 <= q PROVE FALSE
    BY <1>1
  <2>2. d * (p + 1) <= d * q
    BY <1>1, <2>1, TimesLe
  <2>3. d * (p + 1) = d * p + d
    BY <1>1
  <2> DEFINE x == d * p  y == d * q
  <2>4. x \in Int /\ y \in Int /\ x + d <= y /\ x + s = y + r
    BY <1>1, <2>2, <2>3
  <2> HIDE DEF x, y, p, s
  <2>5. QED BY <1>1, <2>4
<1>3. ~(q < p)
  <2>1. SUFFICES ASSUME q + 1 <= p PROVE FALSE
    BY <1>1
  <2>2. d * (q + 1) <= d * p
    BY <1>1, <2>1, TimesLe
  <2>3. d * (q + 1) = d * q + d
    OBVIOUS
  <2> DEFINE x == d * p  y == d * q
  <2>4. x \in Int /\ y \in Int /\ y + d <= x /\ x + s = y + r
    BY <1>1, <2>2, <2>3
  <2> HIDE DEF x, y, p, s
  <2>5. QED BY <1>1, <2>4
<1>4. p = q
  BY <1>1, <1>2, <1>3
<1>5. s = r
  <2> DEFINE x == d * p
  <2>1. x \in Int /\ x + s = x + r
    BY <1>1, <1>4
  <2> HIDE DEF x, s
  <2>2. QED BY <1>1, <2>1
<1>6. QED BY <1>4, <1>5

\* Dividing by a product is dividing twice, as the nested loops count.
LEMMA DivNested ==
  ASSUME NEW a \in Nat, NEW b \in Nat \ {0}, NEW c \in Nat \ {0}
  PROVE  a \div (b * c) = (a \div c) \div b
<1> DEFINE q == a \div c  r == a % c  p == q \div b  s == q % b  d == b * c  e == c * s + r
<1>1. q \in Nat /\ r \in 0..(c - 1) /\ a = c * q + r
  BY DivMod
<1>2. p \in Nat /\ s \in 0..(b - 1) /\ q = b * p + s
  BY <1>1, DivMod
<1> HIDE DEF q, r, p, s
<1>3. a = d * p + e
  BY <1>1, <1>2
<1>4. d \in Nat \ {0} /\ e \in 0..(d - 1)
  <2>1. d \in Nat \ {0}
    OBVIOUS
  <2>2. c * s <= c * (b - 1) /\ c * s \in Int /\ c * s >= 0
    BY <1>2, TimesLe
  <2>3. c * (b - 1) = d - c
    OBVIOUS
  <2> DEFINE x == c * s
  <2>4. x \in Int /\ x >= 0 /\ x <= d - c
    BY <2>2, <2>3
  <2> HIDE DEF x, d
  <2>5. x + r \in 0..(d - 1)
    BY <1>1, <2>1, <2>4
  <2>6. QED BY <2>1, <2>5 DEF x
<1> HIDE DEF d, e
<1>5. a \div d = p
  BY <1>2, <1>3, <1>4, DivUnique
<1>6. QED BY <1>5 DEF d, p, q

-----------------------------------------------------------------------------
(* The combinations, group by group: a group has the runs of one point. *)

\* The group of the k-th combination, counted from 1, and its iteration.
G(k) == ((k - 1) \div Iters) + 1
It(k) == ((k - 1) % Iters) + 1
Groups == HostsSteps * MsgsSteps
GroupOf(c) == (c.hosts - 1) * MsgsSteps + c.msgs

\* The sizes of a chart, and that its combinations are whole groups.
LEMMA ChartSizes ==
  /\ HostsSteps \in Nat \ {0} /\ MsgsSteps \in Nat \ {0} /\ Iters \in Nat \ {0} /\ Iters >= 2
  /\ Groups \in Nat \ {0} /\ NumCombos \in Nat \ {0} /\ NumCombos = Groups * Iters
<1>1. HostsSteps \in Nat \ {0} /\ MsgsSteps \in Nat \ {0} /\ Iters \in Nat \ {0} /\ Iters >= 2
  BY ChartAssumption
<1>2. Groups \in Nat \ {0}
  BY <1>1 DEF Groups
<1>3. NumCombos = Groups * Iters
  BY DEF NumCombos, Groups
<1>4. \A x, y \in Nat \ {0} : x * y \in Nat \ {0}
  OBVIOUS
<1>5. QED BY <1>1, <1>2, <1>3, <1>4

\* Where the k-th combination stands.
LEMMA Placed ==
  ASSUME NEW k \in 1..NumCombos
  PROVE  G(k) \in 1..Groups /\ It(k) \in 1..Iters /\ k = Iters * (G(k) - 1) + It(k)
<1> DEFINE q == (k - 1) \div Iters  r == (k - 1) % Iters
<1>1. k \in Nat /\ k - 1 \in Nat /\ Iters \in Nat \ {0} /\ Groups \in Nat
  BY ChartSizes
<1>2. q \in Nat /\ r \in 0..(Iters - 1) /\ k - 1 = Iters * q + r
  BY <1>1, DivMod
<1> HIDE DEF q, r
<1>3. q < Groups
  <2>1. SUFFICES ASSUME Groups <= q PROVE FALSE
    BY <1>1, <1>2
  <2>2. Iters * Groups <= Iters * q
    BY <1>1, <1>2, <2>1, TimesLe
  <2>3. Iters * Groups = NumCombos
    BY ChartSizes
  <2> DEFINE x == Iters * q
  <2>4. x \in Int /\ k - 1 = x + r /\ NumCombos <= x
    BY <1>1, <1>2, <2>2, <2>3
  <2> HIDE DEF x
  <2>5. QED BY <1>1, <1>2, <2>4, ChartSizes
<1>4. G(k) = q + 1 /\ It(k) = r + 1
  BY DEF G, It, q, r
<1>5. k = Iters * q + (r + 1)
  <2> DEFINE x == Iters * q
  <2>1. x \in Int /\ k - 1 = x + r
    BY <1>1, <1>2
  <2> HIDE DEF x
  <2>2. k = x + (r + 1)
    BY <1>1, <1>2, <2>1
  <2>3. QED BY <2>2 DEF x
<1>6. (q + 1) - 1 = q
  BY <1>2
<1>7. QED BY <1>1, <1>2, <1>3, <1>4, <1>5, <1>6

\* Its fields; hosts and msgs tell the groups apart.
LEMMA ComboIs ==
  ASSUME NEW k \in 1..NumCombos
  PROVE  LET c == getAllTestCombos[k] IN
         /\ c = [hosts |-> c.hosts, msgs |-> c.msgs, iter |-> c.iter]
         /\ c.hosts \in 1..HostsSteps /\ c.msgs \in 1..MsgsSteps /\ c.iter = It(k)
         /\ GroupOf(c) = G(k) /\ c \in TestCombos
<1> DEFINE q == (k - 1) \div Iters  c == getAllTestCombos[k]
           h == q \div MsgsSteps  m == q % MsgsSteps
<1>1. k - 1 \in Nat /\ Iters \in Nat \ {0} /\ MsgsSteps \in Nat \ {0} /\ HostsSteps \in Nat
  BY ChartSizes
<1>2. q \in Nat /\ q < Groups
  BY <1>1, Placed, DivMod, ChartSizes DEF G
<1>3. (k - 1) \div (MsgsSteps * Iters) = h
  BY <1>1, DivNested
<1>4. c = [hosts |-> h + 1, msgs |-> m + 1, iter |-> It(k)]
  BY <1>3 DEF getAllTestCombos, It
<1> HIDE DEF q
<1>5. h \in Nat /\ m \in 0..(MsgsSteps - 1) /\ q = MsgsSteps * h + m
  BY <1>1, <1>2, DivMod
<1> HIDE DEF h, m
<1>6. h < HostsSteps
  <2>1. SUFFICES ASSUME HostsSteps <= h PROVE FALSE
    BY <1>1, <1>5
  <2>2. MsgsSteps * HostsSteps <= MsgsSteps * h
    BY <1>1, <1>5, <2>1, TimesLe
  <2>3. MsgsSteps * HostsSteps = Groups
    BY <1>1 DEF Groups
  <2> DEFINE x == MsgsSteps * h
  <2>4. x \in Int /\ q = x + m /\ Groups <= x
    BY <1>1, <1>5, <2>2, <2>3
  <2> HIDE DEF x
  <2>5. QED BY <1>2, <1>5, <2>4, ChartSizes
<1>7. GroupOf(c) = q + 1
  <2>1. (h + 1) - 1 = h
    BY <1>5
  <2>2. GroupOf(c) = h * MsgsSteps + (m + 1)
    BY <1>4, <2>1 DEF GroupOf
  <2>3. h * MsgsSteps = MsgsSteps * h
    BY <1>1, <1>5
  <2> DEFINE x == MsgsSteps * h
  <2>4. x \in Int /\ q = x + m /\ GroupOf(c) = x + (m + 1)
    BY <1>1, <1>5, <2>2, <2>3
  <2> HIDE DEF x
  <2>5. QED BY <1>5, <2>4
<1>8. c \in TestCombos
  BY DEF TestCombos, ToSet, getAllTestCombos
<1>9. G(k) = q + 1
  BY DEF G, q
<1> HIDE DEF c
<1>10. QED BY <1>1, <1>4, <1>5, <1>6, <1>7, <1>8, <1>9 DEF c

\* The position of a combination.
Index(c) == Iters * (GroupOf(c) - 1) + c.iter

\* Every combination has one position, and the position its combination.
LEMMA IndexOf ==
  /\ \A k \in 1..NumCombos : Index(getAllTestCombos[k]) = k
  /\ \A c \in TestCombos : /\ Index(c) \in 1..NumCombos /\ c = getAllTestCombos[Index(c)]
                           /\ GroupOf(c) = G(Index(c)) /\ c.iter = It(Index(c))
                           /\ GroupOf(c) \in 1..Groups /\ c.hosts \in 1..HostsSteps
                           /\ c.msgs \in 1..MsgsSteps /\ c.iter \in 1..Iters
<1>1. ASSUME NEW k \in 1..NumCombos PROVE Index(getAllTestCombos[k]) = k
  BY Placed, ComboIs DEF Index
<1>2. ASSUME NEW c \in TestCombos PROVE \E k \in 1..NumCombos : c = getAllTestCombos[k]
  <2>1. DOMAIN getAllTestCombos = 1..NumCombos
    BY DEF getAllTestCombos
  <2>2. QED BY <2>1 DEF TestCombos, ToSet
<1>3. ASSUME NEW c \in TestCombos
      PROVE  /\ Index(c) \in 1..NumCombos /\ c = getAllTestCombos[Index(c)]
             /\ GroupOf(c) = G(Index(c)) /\ c.iter = It(Index(c))
             /\ GroupOf(c) \in 1..Groups /\ c.hosts \in 1..HostsSteps
             /\ c.msgs \in 1..MsgsSteps /\ c.iter \in 1..Iters
  <2>1. PICK k \in 1..NumCombos : c = getAllTestCombos[k]
    BY <1>2
  <2>2. Index(c) = k
    BY <1>1, <2>1
  <2>3. QED BY <2>1, <2>2, Placed, ComboIs
<1>4. QED BY <1>1, <1>3

\* A later combination is in the same group or a later one; with a smaller iteration
\* it is in a later one.
LEMMA LaterGroup ==
  ASSUME NEW j \in 1..NumCombos, NEW k \in 1..NumCombos, j < k
  PROVE  G(j) <= G(k) /\ (It(j) > It(k) => G(j) < G(k))
<1> DEFINE a == G(j) - 1  b == G(k) - 1  x == Iters * a  y == Iters * b
<1>1. /\ a \in Nat /\ b \in Nat /\ It(j) \in 1..Iters /\ It(k) \in 1..Iters /\ Iters \in Nat \ {0}
      /\ j = x + It(j) /\ k = y + It(k) /\ G(j) = a + 1 /\ G(k) = b + 1 /\ j \in Int /\ k \in Int
  BY Placed, ChartSizes
<1>2. x \in Int /\ y \in Int
  BY <1>1
<1>3. ~(b < a)
  <2>1. SUFFICES ASSUME b <= a - 1 PROVE FALSE
    BY <1>1
  <2>2. y <= Iters * (a - 1)
    BY <1>1, <2>1, TimesLe
  <2>3. Iters * (a - 1) = x - Iters
    BY <1>1
  <2> HIDE DEF x, y, a, b
  <2>4. QED BY <1>1, <1>2, <2>2, <2>3
<1>4. ASSUME It(j) > It(k), a = b PROVE FALSE
  <2>1. x = y
    BY <1>4
  <2> HIDE DEF x, y, a, b
  <2>2. QED BY <1>1, <1>2, <1>4, <2>1
<1> HIDE DEF x, y, a, b
<1>5. QED BY <1>1, <1>3, <1>4

\* Iterations follow one another, then groups.
LEMMA NextCombo ==
  /\ G(1) = 1 /\ It(1) = 1 /\ G(NumCombos) = Groups /\ It(NumCombos) = Iters
  /\ \A k \in 1..(NumCombos - 1) :
       IF It(k) < Iters THEN G(k + 1) = G(k) /\ It(k + 1) = It(k) + 1
                        ELSE G(k + 1) = G(k) + 1 /\ It(k + 1) = 1
<1>1. Iters \in Nat \ {0} /\ Groups \in Nat \ {0} /\ NumCombos \in Nat \ {0}
  BY ChartSizes
<1>2. ASSUME NEW q \in Nat, NEW r \in 0..(Iters - 1), NEW k \in Nat, k - 1 = Iters * q + r, k # 0
      PROVE  G(k) = q + 1 /\ It(k) = r + 1
  <2>1. Iters * q + r \in Nat
    BY <1>2
  <2>2. (Iters * q + r) \div Iters = q /\ (Iters * q + r) % Iters = r
    BY <1>1, <2>1, DivUnique
  <2>3. (k - 1) \div Iters = q /\ (k - 1) % Iters = r
    BY <1>2, <2>2
  <2>4. QED BY <2>3 DEF G, It
<1>3. G(1) = 1 /\ It(1) = 1
  <2>1. 1 - 1 = Iters * 0 + 0 /\ 0 \in 0..(Iters - 1)
    BY <1>1
  <2>2. QED BY <1>2, <2>1
<1>4. G(NumCombos) = Groups /\ It(NumCombos) = Iters
  <2>1. NumCombos - 1 = Iters * (Groups - 1) + (Iters - 1)
    BY <1>1, ChartSizes
  <2>2. Groups - 1 \in Nat /\ Iters - 1 \in 0..(Iters - 1) /\ (Groups - 1) + 1 = Groups /\ (Iters - 1) + 1 = Iters
    BY <1>1
  <2>3. QED BY <1>1, <1>2, <2>1, <2>2
<1>5. ASSUME NEW k \in 1..(NumCombos - 1)
      PROVE  IF It(k) < Iters THEN G(k + 1) = G(k) /\ It(k + 1) = It(k) + 1
                              ELSE G(k + 1) = G(k) + 1 /\ It(k + 1) = 1
  <2> DEFINE q == G(k) - 1  r == It(k)
  <2>1. k \in 1..NumCombos /\ k + 1 \in Nat /\ k + 1 # 0 /\ (k + 1) - 1 = k
    BY <1>1
  <2>2. q \in Nat /\ r \in 1..Iters /\ k = Iters * q + r /\ G(k) = q + 1
    BY <1>1, <2>1, Placed
  <2> HIDE DEF q, r
  <2>3. CASE r < Iters
    <3>1. r \in 0..(Iters - 1)
      BY <1>1, <2>2, <2>3
    <3>2. QED BY <1>2, <2>1, <2>2, <2>3, <3>1 DEF r
  <2>4. CASE r = Iters
    <3>1. k = Iters * (q + 1) + 0
      BY <1>1, <2>2, <2>4
    <3>2. q + 1 \in Nat /\ 0 \in 0..(Iters - 1)
      BY <1>1, <2>2
    <3>3. G(k + 1) = (q + 1) + 1 /\ It(k + 1) = 0 + 1
      BY <1>2, <2>1, <3>1, <3>2
    <3>4. ~(It(k) < Iters)
      BY <1>1, <2>4 DEF r
    <3>5. QED BY <2>2, <3>3, <3>4
  <2>5. QED BY <1>1, <2>2, <2>3, <2>4
<1>6. QED BY <1>3, <1>4, <1>5

\* The numbers of hosts and messages tell the groups apart.
LEMMA GroupInjective ==
  ASSUME NEW c \in TestCombos, NEW d \in TestCombos
  PROVE  GroupOf(c) = GroupOf(d) <=> c.hosts = d.hosts /\ c.msgs = d.msgs
<1>1. SUFFICES ASSUME GroupOf(c) = GroupOf(d) PROVE c.hosts = d.hosts /\ c.msgs = d.msgs
  BY DEF GroupOf
<1> DEFINE M == MsgsSteps
           a == c.hosts - 1  b == d.hosts - 1  x == c.msgs - 1  y == d.msgs - 1
<1>2. /\ M \in Nat \ {0} /\ a \in Nat /\ b \in Nat /\ x \in 0..(M - 1) /\ y \in 0..(M - 1)
      /\ c.hosts = a + 1 /\ d.hosts = b + 1 /\ c.msgs = x + 1 /\ d.msgs = y + 1
  BY IndexOf, ChartSizes
<1>3. a * M + (x + 1) = b * M + (y + 1)
  BY <1>1, <1>2 DEF GroupOf
<1> HIDE DEF a, b, x, y, M
<1>4. M * a + x \in Nat /\ M * b + y \in Nat /\ M * a + x = M * b + y
  <2> DEFINE u == a * M  v == b * M
  <2>1. M * a = u /\ M * b = v /\ u \in Nat /\ v \in Nat /\ u + (x + 1) = v + (y + 1)
    BY <1>2, <1>3
  <2> HIDE DEF u, v
  <2>2. u + x \in Nat /\ v + y \in Nat /\ u + x = v + y
    BY <1>2, <2>1
  <2>3. QED BY <2>1, <2>2
<1>5. (M * a + x) \div M = a /\ (M * a + x) % M = x
  <2>1. M \in Nat \ {0} /\ a \in Int /\ x \in 0..(M - 1) /\ M * a + x \in Nat
    BY <1>2, <1>4
  <2>2. QED BY <2>1, DivUnique
<1>6. (M * b + y) \div M = b /\ (M * b + y) % M = y
  <2>1. M \in Nat \ {0} /\ b \in Int /\ y \in 0..(M - 1) /\ M * b + y \in Nat
    BY <1>2, <1>4
  <2>2. QED BY <2>1, DivUnique
<1>7. a = b /\ x = y
  BY <1>4, <1>5, <1>6
<1>8. QED BY <1>2, <1>7

-----------------------------------------------------------------------------
(* The lines of a chart, whatever runs failed. *)

Point == [hosts : 1..HostsSteps, msgs : 1..MsgsSteps, vals : Seq(TestCombos)]

Early(S, n) == \A c \in S : Index(c) < n

\* What holds of the points that are put when the next combination is n.
PointsOrdered(points, n) ==
  /\ \A i \in DOMAIN points : Len(points[i].vals) >= 2 /\ Early(ToSet(points[i].vals), n)
  /\ \A i, j \in DOMAIN points : i < j =>
       /\ ToSet(points[i].vals) \cap ToSet(points[j].vals) = {}
       /\ GroupOf(points[i]) < GroupOf(points[j])

\* Every point is before the group of prevCombo, and shares no run with iterVals,
\* until the last point is put.
LinesInv ==
  /\ next \in 1..(NumCombos + 2)
  /\ iterVals \in Seq(TestCombos) /\ verPoints \in Seq(Point)
  /\ IF next = 1 THEN prevCombo = NoCombo /\ iterVals = <<>> /\ verPoints = <<>>
     ELSE prevCombo \in TestCombos /\ Index(prevCombo) < next
  /\ Early(ToSet(iterVals), next)
  /\ PointsOrdered(verPoints, next)
  /\ next <= NumCombos + 1 => \A i \in DOMAIN verPoints :
       /\ GroupOf(verPoints[i]) < GroupOf(prevCombo)
       /\ ToSet(verPoints[i].vals) \cap ToSet(iterVals) = {}

\* The elements of a sequence that grows.
LEMMA SetAppend ==
  ASSUME NEW S, NEW s \in Seq(S), NEW x \in S
  PROVE  ToSet(Append(s, x)) = ToSet(s) \cup {x}
<1>1. /\ Len(s) \in Nat /\ DOMAIN s = 1..Len(s) /\ DOMAIN Append(s, x) = 1..(Len(s) + 1)
      /\ Append(s, x)[Len(s) + 1] = x /\ \A i \in 1..Len(s) : Append(s, x)[i] = s[i]
  OBVIOUS
<1>2. \A i \in 1..(Len(s) + 1) : i \in 1..Len(s) \/ i = Len(s) + 1
  BY <1>1
<1>3. 1..Len(s) \subseteq 1..(Len(s) + 1) /\ Len(s) + 1 \in 1..(Len(s) + 1)
  BY <1>1
<1> DEFINE r == Append(s, x)  n == Len(s)
<1>4. /\ DOMAIN s = 1..n /\ DOMAIN r = 1..(n + 1) /\ r[n + 1] = x /\ \A i \in 1..n : r[i] = s[i]
      /\ \A i \in 1..(n + 1) : i \in 1..n \/ i = n + 1
      /\ 1..n \subseteq 1..(n + 1) /\ n + 1 \in 1..(n + 1)
  BY <1>1, <1>2, <1>3
<1> HIDE DEF r, n
<1>5. ToSet(r) = ToSet(s) \cup {x}
  BY <1>4 DEF ToSet
<1>6. QED BY <1>5 DEF r

\* An empty sequence has no elements.
LEMMA SetEmpty == ToSet(<<>>) = {}
BY DEF ToSet

\* The elements of a sequence over S are in S.
LEMMA SetTyped == ASSUME NEW S, NEW s \in Seq(S) PROVE ToSet(s) \subseteq S
BY DEF ToSet

\* A point that is put when two values are there, after all groups with a point.
LEMMA PutPoint ==
  ASSUME LinesInv, next # 1, next <= NumCombos + 1, Len(iterVals) >= 2, updateVerPoints(prevCombo, iterVals)
  PROVE  /\ verPoints' \in Seq(Point) /\ PointsOrdered(verPoints', next)
         /\ \A i \in DOMAIN verPoints' : /\ GroupOf(verPoints'[i]) <= GroupOf(prevCombo)
                                         /\ Early(ToSet(verPoints'[i].vals), next)
<1> DEFINE pt == [hosts |-> prevCombo.hosts, msgs |-> prevCombo.msgs, vals |-> iterVals]
           n == Len(verPoints)
<1>1. prevCombo \in TestCombos /\ verPoints \in Seq(Point) /\ iterVals \in Seq(TestCombos)
  BY DEF LinesInv
<1>2. /\ prevCombo.hosts \in 1..HostsSteps /\ prevCombo.msgs \in 1..MsgsSteps
      /\ GroupOf(prevCombo) \in Int
  BY <1>1, IndexOf
<1>3. pt \in Point /\ GroupOf(pt) = GroupOf(prevCombo) /\ pt.vals = iterVals
  BY <1>1, <1>2 DEF Point, GroupOf
<1>4. verPoints' = Append(verPoints, pt)
  BY DEF updateVerPoints
<1> HIDE DEF pt
<1>5. /\ verPoints' \in Seq(Point) /\ n \in Nat /\ DOMAIN verPoints = 1..n
      /\ DOMAIN verPoints' = 1..(n + 1) /\ verPoints'[n + 1] = pt
      /\ \A i \in 1..n : verPoints'[i] = verPoints[i]
  BY <1>1, <1>3, <1>4
<1> HIDE DEF n
<1>6. \A i \in DOMAIN verPoints' : i \in DOMAIN verPoints \/ i = n + 1
  BY <1>5
<1>7. ASSUME NEW i \in DOMAIN verPoints'
      PROVE  /\ Len(verPoints'[i].vals) >= 2 /\ Early(ToSet(verPoints'[i].vals), next)
             /\ GroupOf(verPoints'[i]) <= GroupOf(prevCombo)
  <2>1. CASE i \in DOMAIN verPoints
    <3>1. /\ Len(verPoints[i].vals) >= 2 /\ Early(ToSet(verPoints[i].vals), next)
          /\ GroupOf(verPoints[i]) < GroupOf(prevCombo)
      BY <2>1 DEF LinesInv, PointsOrdered
    <3>2. verPoints[i] \in Point
      BY <1>1, <2>1
    <3>3. GroupOf(verPoints[i]) \in Int
      BY <3>2, ChartSizes DEF Point, GroupOf
    <3>4. verPoints'[i] = verPoints[i]
      BY <1>5, <2>1
    <3>5. QED BY <1>2, <3>1, <3>3, <3>4
  <2>2. CASE i = n + 1
    BY <1>2, <1>3, <1>5, <2>2 DEF LinesInv
  <2>3. QED BY <1>6, <2>1, <2>2
<1>8. ASSUME NEW i \in DOMAIN verPoints', NEW j \in DOMAIN verPoints', i < j
      PROVE  /\ ToSet(verPoints'[i].vals) \cap ToSet(verPoints'[j].vals) = {}
             /\ GroupOf(verPoints'[i]) < GroupOf(verPoints'[j])
  <2>1. i \in DOMAIN verPoints /\ verPoints'[i] = verPoints[i]
    BY <1>5, <1>8
  <2>2. CASE j \in DOMAIN verPoints
    <3>1. verPoints'[j] = verPoints[j]
      BY <1>5, <2>2
    <3>2. QED BY <1>8, <2>1, <2>2, <3>1 DEF LinesInv, PointsOrdered
  <2>3. CASE j = n + 1
    BY <1>3, <1>5, <2>1, <2>3 DEF LinesInv
  <2>4. QED BY <1>6, <2>2, <2>3
<1>9. QED BY <1>5, <1>7, <1>8 DEF PointsOrdered

\* What is early for one position is early for the next one.
LEMMA EarlyLater ==
  ASSUME NEW S \in SUBSET TestCombos, NEW n \in Int, Early(S, n)
  PROVE  Early(S, n + 1)
<1>1. \A c \in S : Index(c) \in Int
  BY IndexOf
<1>2. QED BY <1>1 DEF Early

\* So points that were in order stay in order as the loop goes on.
LEMMA OrderedLater ==
  ASSUME NEW points \in Seq(Point), NEW n \in Int, PointsOrdered(points, n)
  PROVE  PointsOrdered(points, n + 1)
<1>1. ASSUME NEW i \in DOMAIN points PROVE Early(ToSet(points[i].vals), n + 1)
  <2>1. points[i] \in Point
    BY <1>1
  <2>2. points[i].vals \in Seq(TestCombos)
    BY <2>1 DEF Point
  <2>3. ToSet(points[i].vals) \subseteq TestCombos
    BY <2>2, SetTyped
  <2>4. QED BY <2>3, EarlyLater DEF PointsOrdered
<1>2. QED BY <1>1 DEF PointsOrdered

\* What the values collected so far become.
LEMMA CollectedIs ==
  ASSUME NEW s \in Seq(TestCombos), NEW c \in TestCombos
  PROVE  /\ Collected(s, c) \in Seq(TestCombos)
         /\ ToSet(Collected(s, c)) = ToSet(s) \cup IF Getter(c) THEN {c} ELSE {}
<1>1. CASE Getter(c)
  BY <1>1, SetAppend DEF Collected
<1>2. CASE ~Getter(c)
  BY <1>2 DEF Collected
<1>3. QED BY <1>1, <1>2

\* A chart begins without points.
LEMMA LinesInit == ChartInit => LinesInv
<1> SUFFICES ASSUME ChartInit PROVE LinesInv
  OBVIOUS
<1>1. next \in 1..(NumCombos + 2) /\ next = 1
  BY ChartSizes DEF ChartInit
<1>2. /\ iterVals = <<>> /\ verPoints = <<>> /\ prevCombo = NoCombo
      /\ iterVals \in Seq(TestCombos) /\ verPoints \in Seq(Point) /\ DOMAIN verPoints = {}
  BY DEF ChartInit
<1>3. Early(ToSet(iterVals), next) /\ PointsOrdered(verPoints, next)
  BY <1>2, SetEmpty DEF Early, PointsOrdered
<1>4. QED BY <1>1, <1>2, <1>3 DEF LinesInv

\* Each turn of the loop, and the point after it, keep the lines well formed.
LEMMA LinesStep == LinesInv /\ [ChartNext]_chartVars => LinesInv'
<1> SUFFICES ASSUME LinesInv, [ChartNext]_chartVars PROVE LinesInv'
  OBVIOUS
<1>1. NumCombos \in Nat \ {0} /\ next \in 1..(NumCombos + 2)
  BY ChartSizes DEF LinesInv
<1>2. CASE Skip
  <2>1. /\ next <= NumCombos /\ next' = next + 1
        /\ UNCHANGED <<prevCombo, iterVals, verPoints>>
    BY <1>2 DEF Skip
  <2>2. next # 1
    <3>1. SUFFICES ASSUME next = 1 PROVE FALSE
      OBVIOUS
    <3>2. prevCombo.iter = 0 /\ next \in 1..NumCombos
      BY <1>1, <3>1 DEF LinesInv, NoCombo
    <3>3. getAllTestCombos[next].iter \in 1..Iters
      BY <3>2, ComboIs, Placed
    <3>4. QED BY <1>2, <3>2, <3>3, ChartSizes DEF Skip, NewPoint
  <2>3. next' \in 1..(NumCombos + 2) /\ next' # 1
    BY <1>1, <2>1, <2>2
  <2>4. /\ prevCombo \in TestCombos /\ Index(prevCombo) < next + 1
        /\ Early(ToSet(iterVals), next + 1) /\ PointsOrdered(verPoints, next + 1)
    <3>1. prevCombo \in TestCombos /\ Index(prevCombo) \in Int /\ Index(prevCombo) < next
      BY <2>2, IndexOf DEF LinesInv
    <3>2. ToSet(iterVals) \subseteq TestCombos
      BY SetTyped DEF LinesInv
    <3>3. Early(ToSet(iterVals), next + 1)
      BY <1>1, <3>2, EarlyLater DEF LinesInv
    <3>4. PointsOrdered(verPoints, next + 1)
      BY <1>1, OrderedLater DEF LinesInv
    <3>5. QED BY <1>1, <3>1, <3>3, <3>4
  <2>5. next <= NumCombos + 1
    BY <1>1, <2>1
  <2>6. QED BY <2>1, <2>3, <2>4, <2>5 DEF LinesInv
<1>3. CASE Collect
  <2> DEFINE combo == getAllTestCombos[next]
  <2>1. /\ next \in 1..NumCombos /\ next' = next + 1 /\ prevCombo' = combo
        /\ UNCHANGED <<failuresCount, results>>
    BY <1>1, <1>3 DEF Collect
  <2>2. /\ combo \in TestCombos /\ Index(combo) = next /\ GroupOf(combo) = G(next)
        /\ combo.iter = It(next) /\ combo.iter \in 1..Iters /\ GroupOf(combo) \in Int
    <3>1. combo \in TestCombos /\ GroupOf(combo) = G(next) /\ combo.iter = It(next)
      BY <2>1, ComboIs
    <3>2. Index(combo) = next
      BY <2>1, IndexOf
    <3>3. It(next) \in 1..Iters /\ G(next) \in Int
      BY <2>1, Placed
    <3>4. QED BY <3>1, <3>2, <3>3
  <2>3. IF NewPoint(combo)
        THEN /\ Len(iterVals) >= 2 /\ updateVerPoints(prevCombo, iterVals)
             /\ iterVals' = Collected(<<>>, combo)
        ELSE UNCHANGED verPoints /\ iterVals' = Collected(iterVals, combo)
    BY <1>3 DEF Collect
  <2> HIDE DEF combo
  <2>4. next # 1 => /\ prevCombo \in TestCombos /\ Index(prevCombo) < next
                    /\ Index(prevCombo) \in 1..NumCombos /\ GroupOf(prevCombo) = G(Index(prevCombo))
                    /\ prevCombo.iter = It(Index(prevCombo)) /\ GroupOf(prevCombo) \in Int
    <3>1. SUFFICES ASSUME next # 1 PROVE prevCombo \in TestCombos /\ Index(prevCombo) < next
      BY IndexOf
    <3>2. QED BY <3>1 DEF LinesInv
  <2>5. next = 1 => ~NewPoint(combo)
    BY <2>2, ChartSizes DEF LinesInv, NewPoint, NoCombo
  <2>6. /\ next' \in 1..(NumCombos + 2) /\ next' # 1 /\ prevCombo' \in TestCombos
        /\ Index(prevCombo') < next' /\ next' <= NumCombos + 1
    BY <1>1, <2>1, <2>2
  <2>7. CASE NewPoint(combo)
    <3>1. next <= NumCombos + 1
      BY <1>1, <2>1
    <3>2. /\ next # 1 /\ next <= NumCombos + 1 /\ Len(iterVals) >= 2
          /\ updateVerPoints(prevCombo, iterVals) /\ iterVals' = Collected(<<>>, combo)
      BY <2>3, <2>5, <2>7, <3>1, Zenon
    <3>3. /\ verPoints' \in Seq(Point) /\ PointsOrdered(verPoints', next)
          /\ \A i \in DOMAIN verPoints' : /\ GroupOf(verPoints'[i]) <= GroupOf(prevCombo)
                                          /\ Early(ToSet(verPoints'[i].vals), next)
      BY <3>2, PutPoint
    <3>4. PointsOrdered(verPoints', next')
      BY <1>1, <2>1, <3>3, OrderedLater
    <3>5. iterVals' \in Seq(TestCombos) /\ ToSet(iterVals') \subseteq {combo}
      <4>1. <<>> \in Seq(TestCombos)
        OBVIOUS
      <4>2. QED BY <2>2, <3>2, <4>1, CollectedIs, SetEmpty
    <3>6. Early(ToSet(iterVals'), next')
      BY <1>1, <2>1, <2>2, <3>5 DEF Early
    <3>7. GroupOf(prevCombo) < GroupOf(combo)
      BY <2>1, <2>2, <2>4, <2>7, <3>2, LaterGroup DEF NewPoint
    <3>8. ASSUME NEW i \in DOMAIN verPoints'
          PROVE  /\ GroupOf(verPoints'[i]) < GroupOf(combo)
                 /\ ToSet(verPoints'[i].vals) \cap ToSet(iterVals') = {}
      <4>1. verPoints'[i] \in Point
        BY <3>3
      <4>2. GroupOf(verPoints'[i]) \in Int
        BY <4>1, ChartSizes DEF Point, GroupOf
      <4>3. GroupOf(verPoints'[i]) < GroupOf(combo)
        BY <2>2, <2>4, <3>2, <3>3, <3>7, <4>2
      <4>4. combo \notin ToSet(verPoints'[i].vals)
        BY <1>1, <2>2, <3>3 DEF Early
      <4>5. QED BY <3>5, <4>3, <4>4
    <3>9. QED BY <2>1, <2>6, <3>3, <3>4, <3>5, <3>6, <3>8 DEF LinesInv
  <2>8. CASE ~NewPoint(combo)
    <3>1. verPoints' = verPoints /\ iterVals' = Collected(iterVals, combo)
      BY <2>3, <2>8
    <3>2. PointsOrdered(verPoints, next') /\ verPoints \in Seq(Point) /\ iterVals \in Seq(TestCombos)
      BY <1>1, <2>1, OrderedLater DEF LinesInv
    <3>3. iterVals' \in Seq(TestCombos) /\ ToSet(iterVals') \subseteq ToSet(iterVals) \cup {combo}
      BY <2>2, <3>1, <3>2, CollectedIs
    <3>4. Early(ToSet(iterVals'), next')
      <4>1. ToSet(iterVals) \subseteq TestCombos
        BY <3>2, SetTyped
      <4>2. Early(ToSet(iterVals), next')
        BY <1>1, <2>1, <4>1, EarlyLater DEF LinesInv
      <4>3. QED BY <1>1, <2>1, <2>2, <3>3, <4>2 DEF Early
    <3>5. ASSUME NEW i \in DOMAIN verPoints
          PROVE  /\ GroupOf(verPoints[i]) < GroupOf(combo)
                 /\ ToSet(verPoints[i].vals) \cap ToSet(iterVals') = {}
      <4>1. next # 1
        BY <3>5 DEF LinesInv
      <4>2. GroupOf(prevCombo) <= GroupOf(combo)
        BY <2>1, <2>2, <2>4, <4>1, LaterGroup
      <4>3. verPoints[i] \in Point
        BY <3>2
      <4>4. GroupOf(verPoints[i]) \in Int
        BY <4>3, ChartSizes DEF Point, GroupOf
      <4>5. next <= NumCombos + 1
        BY <1>1, <2>1
      <4>6. /\ GroupOf(verPoints[i]) < GroupOf(prevCombo)
            /\ ToSet(verPoints[i].vals) \cap ToSet(iterVals) = {}
            /\ Early(ToSet(verPoints[i].vals), next)
        BY <3>5, <4>5 DEF LinesInv, PointsOrdered
      <4>7. combo \notin ToSet(verPoints[i].vals)
        BY <1>1, <2>2, <4>6 DEF Early
      <4>8. GroupOf(verPoints[i]) < GroupOf(combo)
        BY <2>2, <2>4, <4>1, <4>2, <4>4, <4>6
      <4>9. QED BY <3>3, <4>6, <4>7, <4>8
    <3>6. QED BY <2>1, <2>6, <3>1, <3>2, <3>3, <3>4, <3>5 DEF LinesInv
  <2>9. QED BY <2>7, <2>8
<1>4. CASE LastPoint
  <2>1. next = NumCombos + 1 /\ next' = next + 1 /\ UNCHANGED <<prevCombo, iterVals>>
    BY <1>4 DEF LastPoint
  <2>2. /\ next # 1 /\ next <= NumCombos + 1 /\ next' \in 1..(NumCombos + 2) /\ next' # 1
        /\ ~(next' <= NumCombos + 1) /\ next \in Int
    BY <1>1, <2>1
  <2>3. prevCombo \in TestCombos /\ Index(prevCombo) < next'
    <3>1. prevCombo \in TestCombos /\ Index(prevCombo) \in Int /\ Index(prevCombo) < next
      BY <2>2, IndexOf DEF LinesInv
    <3>2. QED BY <2>1, <2>2, <3>1
  <2>4. Early(ToSet(iterVals), next')
    <3>1. ToSet(iterVals) \subseteq TestCombos
      BY SetTyped DEF LinesInv
    <3>2. QED BY <2>1, <2>2, <3>1, EarlyLater DEF LinesInv
  <2>5. verPoints' \in Seq(Point) /\ PointsOrdered(verPoints', next')
    <3>1. CASE Len(iterVals) > 1
      <4>1. Len(iterVals) >= 2 /\ updateVerPoints(prevCombo, iterVals)
        <5>1. iterVals \in Seq(TestCombos)
          BY DEF LinesInv
        <5>2. QED BY <1>4, <3>1, <5>1 DEF LastPoint
      <4>2. verPoints' \in Seq(Point) /\ PointsOrdered(verPoints', next)
        BY <2>2, <4>1, PutPoint
      <4>3. QED BY <2>1, <2>2, <4>2, OrderedLater
    <3>2. CASE ~(Len(iterVals) > 1)
      <4>1. verPoints' = verPoints
        BY <1>4, <3>2 DEF LastPoint
      <4>2. QED BY <2>1, <2>2, <4>1, OrderedLater DEF LinesInv
    <3>3. QED BY <3>1, <3>2
  <2>6. QED BY <2>1, <2>2, <2>3, <2>4, <2>5 DEF LinesInv
<1>5. CASE UNCHANGED chartVars
  BY <1>5 DEF chartVars, LinesInv
<1>6. QED BY <1>2, <1>3, <1>4, <1>5 DEF ChartNext

\* Whatever runs failed, a point summarises two values at least, no run is used twice,
\* and a line goes from left to right (LinesWellFormed).
THEOREM LinesAreWellFormed == ChartSpec => []LinesWellFormed
<1>1. LinesInv => LinesWellFormed
  <2> SUFFICES ASSUME LinesInv PROVE LinesWellFormed
    OBVIOUS
  <2>1. ASSUME NEW i \in DOMAIN verPoints, NEW j \in DOMAIN verPoints, i < j,
               verPoints[i].hosts = verPoints[j].hosts
        PROVE  verPoints[i].msgs < verPoints[j].msgs
    <3>1. verPoints[i] \in Point /\ verPoints[j] \in Point
      BY DEF LinesInv
    <3> DEFINE x == (verPoints[j].hosts - 1) * MsgsSteps
    <3>2. x \in Int /\ verPoints[i].msgs \in Int /\ verPoints[j].msgs \in Int
      BY <3>1, ChartSizes DEF Point
    <3>3. x + verPoints[i].msgs < x + verPoints[j].msgs
      BY <2>1 DEF LinesInv, PointsOrdered, GroupOf
    <3> HIDE DEF x
    <3>4. QED BY <3>2, <3>3
  <2>2. QED BY <2>1 DEF LinesInv, PointsOrdered, LinesWellFormed
<1>2. QED BY <1>1, LinesInit, LinesStep, PTL DEF ChartSpec

-----------------------------------------------------------------------------
(* The points of a chart, when every group has two values. *)

HasValue == {c \in TestCombos : Getter(c)}
Enough == failuresCount \/ EnoughValues

\* The runs with a value that belong to one point.
SamePoint(V, pt) == {c \in V : c.hosts = pt.hosts /\ c.msgs = pt.msgs}
PointOf(V, i, pt) ==
  /\ i = GroupOf(pt) /\ ToSet(pt.vals) = SamePoint(V, pt) /\ IsInjective(pt.vals)

\* Before the n-th combination: the groups that are over have their points, and the
\* values of the group of the last combination are collected.
Collecting(V, n, prev, vals, points) ==
  /\ prev = getAllTestCombos[n - 1] /\ Len(points) = G(n - 1) - 1
  /\ ToSet(vals) = {c \in V : GroupOf(c) = G(n - 1) /\ Index(c) < n} /\ IsInjective(vals)

PointsInv ==
  Enough =>
    /\ next \in 2..(NumCombos + 1) => Collecting(HasValue, next, prevCombo, iterVals, verPoints)
    /\ next = NumCombos + 2 => Len(verPoints) = Groups
    /\ \A i \in DOMAIN verPoints : PointOf(HasValue, i, verPoints[i])

\* A sequence without duplicates stays so when something new is appended.
LEMMA InjectiveAppend ==
  ASSUME NEW S, NEW s \in Seq(S), NEW x \in S, IsInjective(s), x \notin ToSet(s)
  PROVE  IsInjective(Append(s, x))
<1> DEFINE r == Append(s, x)  n == Len(s)
<1>1. /\ n \in Nat /\ DOMAIN s = 1..n /\ DOMAIN r = 1..(n + 1)
      /\ r[n + 1] = x /\ \A i \in 1..n : r[i] = s[i]
  OBVIOUS
<1>2. \A i \in 1..(n + 1) : i \in 1..n \/ i = n + 1
  BY <1>1
<1> HIDE DEF r, n
<1>3. \A i \in DOMAIN s : r[i] # x
  BY <1>1 DEF ToSet
<1>4. ASSUME NEW i \in DOMAIN r, NEW j \in DOMAIN r, r[i] = r[j] PROVE i = j
  <2>1. CASE i \in DOMAIN s /\ j \in DOMAIN s
    BY <1>1, <1>4, <2>1 DEF IsInjective
  <2>2. CASE i = n + 1 /\ j = n + 1
    BY <2>2
  <2>3. CASE i \in DOMAIN s /\ j = n + 1
    BY <1>1, <1>3, <1>4, <2>3
  <2>4. CASE i = n + 1 /\ j \in DOMAIN s
    BY <1>1, <1>3, <1>4, <2>4
  <2>5. QED BY <1>1, <1>2, <2>1, <2>2, <2>3, <2>4
<1>5. IsInjective(r)
  BY <1>4 DEF IsInjective
<1>6. QED BY <1>5 DEF r

\* Two values that differ are two at least.
LEMMA TwoValues ==
  ASSUME NEW S, NEW s \in Seq(S), NEW a \in ToSet(s), NEW b \in ToSet(s), a # b
  PROVE  Len(s) >= 2
<1>1. PICK i \in DOMAIN s, j \in DOMAIN s : s[i] = a /\ s[j] = b
  BY DEF ToSet
<1>2. i \in 1..Len(s) /\ j \in 1..Len(s) /\ i # j /\ Len(s) \in Nat
  BY <1>1
<1>3. QED BY <1>2

\* The values of the group that ends with the k-th combination.
LEMMA GroupHasTwo ==
  ASSUME Enough, NEW k \in 1..NumCombos, It(k) = Iters
  PROVE  \E a, b \in SamePoint(HasValue, getAllTestCombos[k]) : a # b
<1> DEFINE c == getAllTestCombos[k]
<1>1. c \in TestCombos /\ c.hosts \in 1..HostsSteps /\ c.msgs \in 1..MsgsSteps /\ GroupOf(c) = G(k)
  BY ComboIs
<1>2. CASE failuresCount
  <2>1. NumCombos \in Nat \ {0} /\ Iters \in Nat /\ Iters >= 2
    BY ChartSizes
  <2>2. k # 1
    BY <2>1, NextCombo
  <2>3. k - 1 \in 1..(NumCombos - 1) /\ (k - 1) + 1 = k /\ k - 1 \in 1..NumCombos
    BY <2>1, <2>2
  <2>4. G(k) = G(k - 1)
    <3>1. IF It(k - 1) < Iters THEN G(k) = G(k - 1) /\ It(k) = It(k - 1) + 1
                               ELSE G(k) = G(k - 1) + 1 /\ It(k) = 1
      BY <2>3, NextCombo
    <3>2. QED BY <2>1, <3>1
  <2> DEFINE d == getAllTestCombos[k - 1]
  <2>5. d \in TestCombos /\ GroupOf(d) = G(k - 1)
    BY <2>3, ComboIs
  <2>6. Index(c) = k /\ Index(d) = k - 1
    BY <2>3, IndexOf
  <2> HIDE DEF d, c
  <2>7. c # d
    BY <2>3, <2>6
  <2>8. d.hosts = c.hosts /\ d.msgs = c.msgs
    BY <1>1, <2>4, <2>5, GroupInjective
  <2>9. c \in SamePoint(HasValue, c) /\ d \in SamePoint(HasValue, c)
    BY <1>1, <1>2, <2>5, <2>8 DEF SamePoint, HasValue, Getter
  <2>10. QED BY <2>7, <2>9 DEF c
<1>3. CASE EnoughValues
  <2> HIDE DEF c
  <2>1. SUFFICES ASSUME \A a, b \in SamePoint(HasValue, c) : a = b PROVE FALSE
    BY DEF c
  <2>2. SamePoint(HasValue, c) = Values(c.hosts, c.msgs)
    BY DEF SamePoint, HasValue, Values, RunsOf
  <2>3. Cardinality(SamePoint(HasValue, c)) >= 2
    BY <1>1, <1>3, <2>2 DEF EnoughValues
  <2>4. CASE SamePoint(HasValue, c) = {}
    BY <2>3, <2>4, FS_EmptySet
  <2>5. CASE SamePoint(HasValue, c) # {}
    <3>1. PICK a : SamePoint(HasValue, c) = {a}
      BY <2>1, <2>5
    <3>2. QED BY <2>3, <3>1, FS_Singleton
  <2>6. QED BY <2>4, <2>5
<1>4. QED BY <1>2, <1>3 DEF Enough

\* A group that is over: its values are all collected.
LEMMA GroupOver ==
  ASSUME LinesInv, PointsInv, Enough, next \in 2..(NumCombos + 1), It(next - 1) = Iters
  PROVE  /\ ToSet(iterVals) = SamePoint(HasValue, prevCombo) /\ Len(iterVals) >= 2
         /\ GroupOf(prevCombo) = G(next - 1)
<1> DEFINE k == next - 1  c == getAllTestCombos[k]
<1>1. k \in 1..NumCombos /\ NumCombos \in Nat /\ next = k + 1
  BY ChartSizes
<1>2. /\ prevCombo = c /\ IsInjective(iterVals)
      /\ ToSet(iterVals) = {d \in HasValue : GroupOf(d) = G(k) /\ Index(d) < next}
  BY DEF PointsInv, Collecting
<1>3. c \in TestCombos /\ GroupOf(c) = G(k)
  BY <1>1, ComboIs
<1>4. ASSUME NEW d \in TestCombos, GroupOf(d) = G(k) PROVE Index(d) < next
  <2> DEFINE x == Iters * (G(k) - 1)
  <2>1. k = x + It(k) /\ Index(d) = x + d.iter
    BY <1>1, <1>4, Placed DEF Index
  <2>2. x \in Int /\ d.iter \in 1..Iters /\ Iters \in Nat
    BY <1>1, Placed, IndexOf, ChartSizes
  <2> HIDE DEF x, k
  <2>3. It(k) = Iters
    BY DEF k
  <2>4. QED BY <1>1, <2>1, <2>2, <2>3
<1> HIDE DEF c, k
<1>5. HasValue \subseteq TestCombos
  BY DEF HasValue
<1>6. ToSet(iterVals) = SamePoint(HasValue, c)
  BY <1>2, <1>3, <1>4, <1>5, GroupInjective DEF SamePoint
<1>7. \E a, b \in SamePoint(HasValue, c) : a # b
  BY <1>1, GroupHasTwo DEF c, k
<1>8. Len(iterVals) >= 2
  <2>1. iterVals \in Seq(TestCombos)
    BY DEF LinesInv
  <2>2. QED BY <1>6, <1>7, <2>1, TwoValues
<1>9. QED BY <1>2, <1>3, <1>6, <1>8 DEF k

\* The point of a group that is over.
LEMMA PutExactly ==
  ASSUME LinesInv, PointsInv, Enough, next \in 2..(NumCombos + 1), It(next - 1) = Iters,
         updateVerPoints(prevCombo, iterVals)
  PROVE  /\ Len(verPoints') = G(next - 1)
         /\ \A i \in DOMAIN verPoints' : PointOf(HasValue, i, verPoints'[i])
<1> DEFINE pt == [hosts |-> prevCombo.hosts, msgs |-> prevCombo.msgs, vals |-> iterVals]
           n == Len(verPoints)  k == next - 1
<1>1. k \in 1..NumCombos /\ NumCombos \in Nat
  BY ChartSizes
<1>2. Len(verPoints) = G(k) - 1 /\ IsInjective(iterVals)
  BY DEF PointsInv, Collecting
<1>3. G(k) \in Int
  BY <1>1, Placed
<1>4. verPoints' = Append(verPoints, pt)
  BY DEF updateVerPoints
<1>5. pt.hosts = prevCombo.hosts /\ pt.msgs = prevCombo.msgs /\ pt.vals = iterVals
  OBVIOUS
<1>6. ToSet(iterVals) = SamePoint(HasValue, prevCombo) /\ GroupOf(prevCombo) = G(k)
  BY GroupOver
<1> HIDE DEF pt, k
<1>7. PointOf(HasValue, G(k), pt)
  BY <1>2, <1>5, <1>6 DEF PointOf, SamePoint, GroupOf
<1>8. /\ n \in Nat /\ DOMAIN verPoints = 1..n /\ DOMAIN verPoints' = 1..(n + 1)
      /\ Len(verPoints') = n + 1
      /\ verPoints'[n + 1] = pt /\ \A i \in 1..n : verPoints'[i] = verPoints[i]
  BY <1>4 DEF LinesInv
<1>9. n + 1 = G(k)
  BY <1>2, <1>3, <1>8
<1> HIDE DEF n
<1>10. ASSUME NEW i \in DOMAIN verPoints' PROVE PointOf(HasValue, i, verPoints'[i])
  <2>1. CASE i = n + 1
    BY <1>7, <1>8, <1>9, <2>1
  <2>2. CASE i \in DOMAIN verPoints
    BY <1>8, <2>2 DEF PointsInv
  <2>3. i = n + 1 \/ i \in DOMAIN verPoints
    BY <1>8
  <2>4. QED BY <2>1, <2>2, <2>3
<1>11. QED BY <1>8, <1>9, <1>10 DEF k

\* What is collected with the n-th combination.
LEMMA CollectExactly ==
  ASSUME NEW n \in 1..NumCombos, NEW s \in Seq(TestCombos), IsInjective(s),
         \/ ToSet(s) = {} /\ (n = 1 \/ (n - 1 \in 1..NumCombos /\ G(n - 1) < G(n)))
         \/ /\ n - 1 \in 1..NumCombos /\ G(n - 1) = G(n)
            /\ ToSet(s) = {c \in HasValue : GroupOf(c) = G(n - 1) /\ Index(c) < n}
  PROVE  LET r == Collected(s, getAllTestCombos[n]) IN
         /\ ToSet(r) = {c \in HasValue : GroupOf(c) = G(n) /\ Index(c) < n + 1}
         /\ IsInjective(r)
<1> DEFINE d == getAllTestCombos[n]  r == Collected(s, d)
<1>1. d \in TestCombos /\ GroupOf(d) = G(n) /\ Index(d) = n
  BY ComboIs, IndexOf
<1>2. ToSet(r) = ToSet(s) \cup IF Getter(d) THEN {d} ELSE {}
  BY <1>1, CollectedIs
<1>3. /\ \A c \in HasValue : c \in TestCombos /\ Index(c) \in Int /\ (Index(c) = n => c = d)
      /\ d \in HasValue <=> Getter(d)
  BY <1>1, IndexOf DEF HasValue
<1>4. ToSet(s) = {c \in HasValue : GroupOf(c) = G(n) /\ Index(c) < n}
  <2>1. ASSUME NEW c \in HasValue, GroupOf(c) = G(n), Index(c) < n,
               n = 1 \/ (n - 1 \in 1..NumCombos /\ G(n - 1) < G(n))
        PROVE  FALSE
    <3>1. Index(c) \in 1..NumCombos /\ G(Index(c)) = G(n)
      BY <1>3, <2>1, IndexOf
    <3>2. n # 1 /\ n - 1 \in 1..NumCombos /\ G(n - 1) < G(n)
      BY <2>1, <3>1
    <3>3. Index(c) < n - 1 \/ Index(c) = n - 1
      BY <2>1, <3>1
    <3>4. G(Index(c)) <= G(n - 1)
      BY <3>1, <3>2, <3>3, LaterGroup, Placed
    <3>5. G(n - 1) \in Int /\ G(n) \in Int
      BY <3>2, Placed
    <3>6. QED BY <3>1, <3>2, <3>4, <3>5
  <2>2. QED BY <2>1
<1> HIDE DEF d, r
<1>5. d \notin ToSet(s)
  BY <1>1, <1>4
<1>6. ToSet(r) = {c \in HasValue : GroupOf(c) = G(n) /\ Index(c) < n + 1}
  <2>1. ASSUME NEW c \in HasValue
        PROVE  c \in ToSet(r) <=> GroupOf(c) = G(n) /\ Index(c) < n + 1
    <3>1. Index(c) < n + 1 <=> Index(c) < n \/ Index(c) = n
      BY <1>3
    <3>2. QED BY <1>1, <1>2, <1>3, <1>4, <2>1, <3>1
  <2>2. ToSet(r) \subseteq HasValue
    BY <1>2, <1>3, <1>4
  <2>3. QED BY <2>1, <2>2
<1>7. IsInjective(r)
  <2>1. CASE Getter(d)
    BY <1>1, <1>5, <2>1, InjectiveAppend DEF Collected, r
  <2>2. CASE ~Getter(d)
    BY <2>2 DEF Collected, r
  <2>3. QED BY <2>1, <2>2
<1>8. QED BY <1>6, <1>7 DEF d, r

\* At the start no combination has been read.
LEMMA PointsInit == ChartInit => PointsInv
<1> SUFFICES ASSUME ChartInit PROVE PointsInv
  OBVIOUS
<1>1. next \notin 2..(NumCombos + 1) /\ next # NumCombos + 2 /\ DOMAIN verPoints = {}
  BY ChartSizes DEF ChartInit
<1>2. QED BY <1>1 DEF PointsInv

\* Each turn of the loop keeps the values of the current group, and puts its point when
\* it is over.
LEMMA PointsStep == LinesInv /\ PointsInv /\ [ChartNext]_chartVars => PointsInv'
<1> SUFFICES ASSUME LinesInv, PointsInv, [ChartNext]_chartVars, Enough' PROVE PointsInv'
  BY DEF PointsInv
<1>1. NumCombos \in Nat \ {0} /\ next \in 1..(NumCombos + 2) /\ Iters \in Nat /\ Iters >= 2
  BY ChartSizes DEF LinesInv
<1>2. UNCHANGED <<failuresCount, results>>
  BY DEF ChartNext, Skip, Collect, LastPoint, chartVars
<1>3. HasValue' = HasValue /\ Enough
  BY <1>2 DEF HasValue, Enough, Getter, EnoughValues, Values
<1>4. \A i \in DOMAIN verPoints : PointOf(HasValue, i, verPoints[i])
  BY <1>3 DEF PointsInv
\* A new point begins exactly when the last iteration of a group has been read.
<1>5. ASSUME next \in 2..NumCombos
      PROVE  /\ next - 1 \in 1..NumCombos /\ prevCombo.iter = It(next - 1)
             /\ getAllTestCombos[next].iter = It(next)
             /\ NewPoint(getAllTestCombos[next]) <=> It(next - 1) = Iters
             /\ IF It(next - 1) = Iters THEN G(next) = G(next - 1) + 1 ELSE G(next) = G(next - 1)
             /\ G(next - 1) \in Int /\ G(next) \in Int
  <2>1. next - 1 \in 1..NumCombos /\ next - 1 \in 1..(NumCombos - 1) /\ (next - 1) + 1 = next
        /\ next \in 1..NumCombos /\ next \in 2..(NumCombos + 1)
    BY <1>1, <1>5
  <2>2. prevCombo = getAllTestCombos[next - 1]
    BY <1>3, <2>1 DEF PointsInv, Collecting
  <2>3. prevCombo.iter = It(next - 1) /\ getAllTestCombos[next].iter = It(next)
    BY <2>1, <2>2, ComboIs
  <2>4. IF It(next - 1) < Iters THEN G(next) = G(next - 1) /\ It(next) = It(next - 1) + 1
                                ELSE G(next) = G(next - 1) + 1 /\ It(next) = 1
    BY <2>1, NextCombo
  <2>5. It(next - 1) \in 1..Iters /\ It(next) \in 1..Iters /\ G(next - 1) \in Int /\ G(next) \in Int
    BY <2>1, Placed
  <2>6. NewPoint(getAllTestCombos[next]) <=> It(next - 1) > It(next)
    BY <2>3 DEF NewPoint
  <2>7. It(next - 1) > It(next) <=> It(next - 1) = Iters
    BY <1>1, <2>4, <2>5
  <2>8. QED BY <1>1, <2>1, <2>3, <2>4, <2>5, <2>6, <2>7
<1>6. next = 1 /\ next <= NumCombos => ~NewPoint(getAllTestCombos[next])
  <2>1. SUFFICES ASSUME next = 1 PROVE ~NewPoint(getAllTestCombos[1])
    OBVIOUS
  <2>2. getAllTestCombos[1].iter = 1
    <3>1. 1 \in 1..NumCombos
      BY <1>1
    <3>2. QED BY <3>1, ComboIs, NextCombo
  <2>3. prevCombo.iter = 0
    BY <2>1 DEF LinesInv, NoCombo
  <2>4. QED BY <2>2, <2>3 DEF NewPoint
<1>7. CASE Skip
  <2>1. next \in 2..NumCombos
    BY <1>1, <1>6, <1>7 DEF Skip
  <2>2. next \in 2..(NumCombos + 1) /\ It(next - 1) = Iters
    <3>1. NewPoint(getAllTestCombos[next])
      BY <1>7 DEF Skip
    <3>2. It(next - 1) = Iters
      BY <1>5, <2>1, <3>1
    <3>3. next \in 2..(NumCombos + 1)
      BY <1>1, <2>1
    <3>4. QED BY <3>2, <3>3
  <2>3. Len(iterVals) >= 2 /\ Len(iterVals) \in Nat
    BY <1>3, <2>2, GroupOver DEF LinesInv
  <2>4. QED BY <1>7, <2>3 DEF Skip
<1>8. CASE Collect
  <2> DEFINE combo == getAllTestCombos[next]
  <2>1. /\ next \in 1..NumCombos /\ next' = next + 1 /\ prevCombo' = combo
    BY <1>1, <1>8 DEF Collect
  <2>2. IF NewPoint(combo)
        THEN updateVerPoints(prevCombo, iterVals) /\ iterVals' = Collected(<<>>, combo)
        ELSE UNCHANGED verPoints /\ iterVals' = Collected(iterVals, combo)
    BY <1>8 DEF Collect
  <2>3. next' - 1 = next /\ next' \in 2..(NumCombos + 1) /\ next' # NumCombos + 2
    BY <1>1, <2>1
  <2>4. <<>> \in Seq(TestCombos) /\ IsInjective(<<>>)
    BY DEF IsInjective
  <2>5. SUFFICES /\ Len(verPoints') = G(next) - 1
                 /\ ToSet(iterVals') = {c \in HasValue : GroupOf(c) = G(next) /\ Index(c) < next + 1}
                 /\ IsInjective(iterVals')
                 /\ \A i \in DOMAIN verPoints' : PointOf(HasValue, i, verPoints'[i])
    BY <1>3, <2>1, <2>3 DEF PointsInv, Collecting
  <2>6. CASE next = 1
    <3>1. verPoints' = <<>> /\ iterVals' = Collected(<<>>, combo)
      BY <1>6, <2>1, <2>2, <2>6 DEF LinesInv
    <3>2. Len(verPoints') = G(next) - 1 /\ DOMAIN verPoints' = {}
      BY <2>6, <3>1, NextCombo
    <3>3. /\ ToSet(iterVals') = {c \in HasValue : GroupOf(c) = G(next) /\ Index(c) < next + 1}
          /\ IsInjective(iterVals')
      <4> DEFINE s == <<>>
      <4>1. s \in Seq(TestCombos) /\ IsInjective(s) /\ ToSet(s) = {}
        BY <2>4, SetEmpty
      <4>2. iterVals' = Collected(s, combo)
        BY <3>1
      <4>3. ToSet(s) = {} /\ (next = 1 \/ (next - 1 \in 1..NumCombos /\ G(next - 1) < G(next)))
        BY <2>6, <4>1
      <4> HIDE DEF s
      <4>4. QED BY <2>1, <4>1, <4>2, <4>3, CollectExactly
    <3>4. QED BY <3>2, <3>3
  <2>7. CASE next # 1
    <3>1. next \in 2..NumCombos
      BY <1>1, <2>1, <2>7
    <3>2. next \in 2..(NumCombos + 1)
      BY <1>1, <3>1
    <3>3. /\ Len(verPoints) = G(next - 1) - 1 /\ IsInjective(iterVals)
          /\ ToSet(iterVals) = {c \in HasValue : GroupOf(c) = G(next - 1) /\ Index(c) < next}
      BY <1>3, <3>2 DEF PointsInv, Collecting
    <3>4. CASE It(next - 1) = Iters
      <4>1. updateVerPoints(prevCombo, iterVals) /\ iterVals' = Collected(<<>>, combo)
        BY <1>5, <2>2, <3>1, <3>4
      <4>2. /\ Len(verPoints') = G(next - 1)
            /\ \A i \in DOMAIN verPoints' : PointOf(HasValue, i, verPoints'[i])
        BY <1>3, <3>2, <3>4, <4>1, PutExactly
      <4>3. G(next) = G(next - 1) + 1 /\ G(next - 1) \in Int /\ next - 1 \in 1..NumCombos
        BY <1>5, <3>1, <3>4
      <4>4. Len(verPoints') = G(next) - 1 /\ G(next - 1) < G(next)
        BY <4>2, <4>3
      <4>5. QED BY <2>1, <2>4, <4>1, <4>2, <4>3, <4>4, CollectExactly, SetEmpty
    <3>5. CASE It(next - 1) # Iters
      <4>1. verPoints' = verPoints /\ iterVals' = Collected(iterVals, combo)
        BY <1>5, <2>2, <3>1, <3>5
      <4>2. G(next) = G(next - 1) /\ next - 1 \in 1..NumCombos
        BY <1>5, <3>1, <3>5
      <4>3. iterVals \in Seq(TestCombos)
        BY DEF LinesInv
      <4>4. QED BY <1>4, <2>1, <3>3, <4>1, <4>2, <4>3, CollectExactly
    <3>6. QED BY <3>4, <3>5
  <2>8. QED BY <2>6, <2>7
<1>9. CASE LastPoint
  <2>1. next = NumCombos + 1 /\ next' = NumCombos + 2
    BY <1>1, <1>9 DEF LastPoint
  <2>2. next \in 2..(NumCombos + 1) /\ next - 1 = NumCombos /\ next' \notin 2..(NumCombos + 1)
    BY <1>1, <2>1
  <2>3. It(next - 1) = Iters /\ G(next - 1) = Groups
    BY <2>2, NextCombo
  <2>4. Len(iterVals) >= 2 /\ Len(iterVals) \in Nat
    BY <1>3, <2>2, <2>3, GroupOver DEF LinesInv
  <2>5. updateVerPoints(prevCombo, iterVals)
    BY <1>9, <2>4 DEF LastPoint
  <2>6. /\ Len(verPoints') = Groups
        /\ \A i \in DOMAIN verPoints' : PointOf(HasValue, i, verPoints'[i])
    BY <1>3, <2>2, <2>3, <2>5, PutExactly
  <2>7. QED BY <1>3, <2>2, <2>6 DEF PointsInv
<1>10. CASE UNCHANGED chartVars
  BY <1>3, <1>10 DEF chartVars, PointsInv
<1>11. QED BY <1>7, <1>8, <1>9, <1>10 DEF ChartNext

\* With two values for every combination of hosts and messages, or in a chart of
\* failures, a finished chart has one point for each, in order, that summarises exactly
\* the values of its own runs, each once (PointsExact).
THEOREM PointsAreExact == ChartSpec => []PointsExact
<1>1. ChartInit => LinesInv /\ PointsInv
  BY LinesInit, PointsInit
<1>2. LinesInv /\ PointsInv /\ [ChartNext]_chartVars => (LinesInv /\ PointsInv)'
  BY LinesStep, PointsStep
<1>3. PointsInv => PointsExact
  <2> SUFFICES ASSUME PointsInv, Drawn, Enough PROVE
        /\ Len(verPoints) = HostsSteps * MsgsSteps
        /\ \A i \in DOMAIN verPoints :
             /\ i = (verPoints[i].hosts - 1) * MsgsSteps + verPoints[i].msgs
             /\ ToSet(verPoints[i].vals) = Values(verPoints[i].hosts, verPoints[i].msgs)
             /\ IsInjective(verPoints[i].vals)
    BY DEF PointsExact, Enough
  <2>1. Len(verPoints) = HostsSteps * MsgsSteps
    BY DEF PointsInv, Drawn, Groups
  <2>2. \A h, m : Values(h, m) = {c \in HasValue : c.hosts = h /\ c.msgs = m}
    BY DEF Values, RunsOf, HasValue
  <2>3. QED BY <2>1, <2>2 DEF PointsInv, PointOf, GroupOf, SamePoint
<1>4. QED BY <1>1, <1>2, <1>3, PTL DEF ChartSpec

=============================================================================
