----------------------------- MODULE BenchChart -----------------------------
(***************************************************************************)
(* How a chart of the benchmark is drawn (internal/bench/bench.go:461-561):*)
(* renderChart walks the test combinations of one version in order, hosts, *)
(* then messages, then iterations, collects the values of the runs that    *)
(* left results, and puts a point when the iteration number falls back.    *)
(* Every chart does this with a Getter of its own; a value is represented  *)
(* here by the run it comes from, and a point by the values it summarises. *)
(***************************************************************************)
EXTENDS Integers, Sequences, FiniteSets, SequencesExt, Functions

CONSTANTS
  HostsSteps, MsgsSteps,    \* how many host and message counts are tested
  Iters                     \* testIters

ASSUME ChartAssumption ==
  {HostsSteps, MsgsSteps} \subseteq Nat \ {0} /\ Iters \in Nat \ {0, 1}

\* getAllTestCombos: three nested loops.
NumCombos == HostsSteps * MsgsSteps * Iters
getAllTestCombos == [k \in 1..NumCombos |->
  [hosts |-> ((k - 1) \div (MsgsSteps * Iters)) + 1,
   msgs  |-> (((k - 1) \div Iters) % MsgsSteps) + 1,
   iter  |-> ((k - 1) % Iters) + 1]]
TestCombos == ToSet(getAllTestCombos)
NoCombo == [hosts |-> 0, msgs |-> 0, iter |-> 0]

VARIABLES
  failuresCount,  \* the chart's Getter has a value for a run without results
  results,        \* the runs with a result file
  next,         \* index of the next combination
  prevCombo, iterVals,
  verPoints     \* the points of the version, in the order they are put

chartVars == <<failuresCount, results, next, prevCombo, iterVals, verPoints>>

RunsOf(h, m) == {c \in TestCombos : c.hosts = h /\ c.msgs = m}

ChartInit ==
  /\ failuresCount \in BOOLEAN /\ results \in SUBSET TestCombos
  /\ next = 1 /\ prevCombo = NoCombo /\ iterVals = <<>> /\ verPoints = <<>>

\* Mutant: a chart of failures has no value for a run that failed.
GetterFound(combo) == combo \in results
Getter(combo) == combo \in results \/ failuresCount

updateVerPoints(combo, values) ==
  verPoints' = Append(verPoints, [hosts |-> combo.hosts, msgs |-> combo.msgs, vals |-> values])

\* The values so far, and the one of this combination if it has any.
\* Mutant: what was collected for the last point is kept.
CollectedOn(vals, combo) == IF Getter(combo) THEN Append(iterVals, combo) ELSE iterVals
Collected(vals, combo) == IF Getter(combo) THEN Append(vals, combo) ELSE vals

\* The body of the loop; with too few values at a new point it is left early, and
\* prevCombo stays as it is.
NewPoint(combo) == prevCombo.iter > combo.iter

Skip ==
  /\ next <= NumCombos
  /\ NewPoint(getAllTestCombos[next]) /\ Len(iterVals) < 2
  /\ next' = next + 1
  /\ UNCHANGED <<failuresCount, results, prevCombo, iterVals, verPoints>>

Collect ==
  /\ next <= NumCombos
  /\ \E combo \in {getAllTestCombos[next]} :
       /\ IF NewPoint(combo)
          THEN /\ Len(iterVals) >= 2
               /\ updateVerPoints(prevCombo, iterVals)
               /\ iterVals' = Collected(<<>>, combo)
          ELSE UNCHANGED verPoints /\ iterVals' = Collected(iterVals, combo)
       /\ prevCombo' = combo
  /\ next' = next + 1 /\ UNCHANGED <<failuresCount, results>>

\* After the loop.  Mutant: a single value is a point.
LastPointAlways ==
  /\ next = NumCombos + 1 /\ next' = next + 1
  /\ updateVerPoints(prevCombo, iterVals)
  /\ UNCHANGED <<failuresCount, results, prevCombo, iterVals>>
LastPoint ==
  /\ next = NumCombos + 1
  /\ next' = next + 1
  /\ IF Len(iterVals) > 1 THEN updateVerPoints(prevCombo, iterVals) ELSE UNCHANGED verPoints
  /\ UNCHANGED <<failuresCount, results, prevCombo, iterVals>>

ChartNext == Skip \/ Collect \/ LastPoint

ChartSpec == ChartInit /\ [][ChartNext]_chartVars

-----------------------------------------------------------------------------
(* Properties *)

Drawn == next = NumCombos + 2

Values(h, m) == {c \in RunsOf(h, m) : Getter(c)}
EnoughValues == \A h \in 1..HostsSteps, m \in 1..MsgsSteps : Cardinality(Values(h, m)) >= 2

\* When every combination of hosts and messages has two values at least, a finished
\* chart has one point for each, in order, that summarises exactly the values of its
\* own runs, each once.  (The values of a chart of failures are always enough.)
PointsExact ==
  Drawn /\ (failuresCount \/ EnoughValues) =>
    /\ Len(verPoints) = HostsSteps * MsgsSteps
    /\ \A i \in DOMAIN verPoints :
         LET pt == verPoints[i] IN
         /\ i = (pt.hosts - 1) * MsgsSteps + pt.msgs
         /\ ToSet(pt.vals) = Values(pt.hosts, pt.msgs)
         /\ IsInjective(pt.vals)

\* Whatever runs failed: a point summarises two values at least, no run is used
\* twice, and a line goes from left to right.
LinesWellFormed ==
  /\ \A i \in DOMAIN verPoints : Len(verPoints[i].vals) >= 2
  /\ \A i, j \in DOMAIN verPoints : i < j =>
       /\ ToSet(verPoints[i].vals) \cap ToSet(verPoints[j].vals) = {}
       /\ verPoints[i].hosts = verPoints[j].hosts => verPoints[i].msgs < verPoints[j].msgs
=============================================================================
