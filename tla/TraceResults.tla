---------------------------- MODULE TraceResults ----------------------------
(***************************************************************************)
(* How a Go execution trace becomes the numbers of the benchmark           *)
(* (internal/bench/bench.go): TracesToResults reads the events one by one, *)
(* ResultsToText writes the sums.  The trace is external: a program whose  *)
(* goroutines, some of them older than the trace, come and go, and whose   *)
(* heap is sampled.  Numbers are unbounded here: the 64 bits of the code   *)
(* are not reached.  Checked by proof only (TraceProofs).                  *)
(***************************************************************************)
EXTENDS Integers, FiniteSets

CONSTANTS
  Goroutine,
  Heaps         \* sizes a sample of the heap, or a swept range, may have

VARIABLES
  older,        \* goroutines older than the trace
  alive,        \* goroutines alive where the trace has been read to
  gone,         \* goroutines that have ended
  shrunk,       \* how much the samples went down in all
  createdGoroutines, activeGoroutines,
  maxHeap, allocatedHeap, lastHeap, gced

goVars   == <<older, alive, gone, createdGoroutines, activeGoroutines>>
heapVars == <<shrunk, maxHeap, allocatedHeap, lastHeap>>
vars == <<goVars, heapVars, gced>>

Init ==
  /\ older \in SUBSET Goroutine /\ alive = older /\ gone = {}
  /\ createdGoroutines = 0 /\ activeGoroutines = 0
  /\ shrunk = 0 /\ maxHeap = 0 /\ allocatedHeap = 0 /\ lastHeap = 0 /\ gced = 0

-----------------------------------------------------------------------------
(* One event each. *)

\* A transition from GoNotExist.
GoroutineCreated(g) ==
  /\ g \notin alive \cup gone
  /\ alive' = alive \cup {g}
  /\ createdGoroutines' = createdGoroutines + 1
  /\ activeGoroutines' = activeGoroutines + 1
  /\ UNCHANGED <<older, gone, heapVars, gced>>

\* A transition to GoNotExist, of whatever goroutine.
GoroutineEnds(g) ==
  /\ g \in alive
  /\ alive' = alive \ {g} /\ gone' = gone \cup {g}
  /\ activeGoroutines' = activeGoroutines - 1
  /\ UNCHANGED <<older, createdGoroutines, heapVars, gced>>

Growth(heap) == IF lastHeap < heap THEN heap - lastHeap ELSE 0

\* A sample of /memory/classes/heap/objects:bytes.
HeapSampled(heap) ==
  /\ allocatedHeap' = allocatedHeap + Growth(heap)
  /\ maxHeap' = IF heap > maxHeap THEN heap ELSE maxHeap
  /\ lastHeap' = heap
  /\ shrunk' = shrunk + (IF heap < lastHeap THEN lastHeap - heap ELSE 0)
  /\ UNCHANGED <<goVars, gced>>

\* The end of a range that swept or reclaimed memory.
RangeEnds(bytes) ==
  /\ gced' = gced + bytes
  /\ UNCHANGED <<goVars, heapVars>>

Next ==
  \/ \E g \in Goroutine : GoroutineCreated(g) \/ GoroutineEnds(g)
  \/ \E h \in Heaps : HeapSampled(h) \/ RangeEnds(h)

Spec == Init /\ [][Next]_vars

\* What is printed, with the heading of each number.
ResultsToText ==
  [CreatedGoroutines  |-> createdGoroutines,
   FinalGoroutines    |-> activeGoroutines,
   TotalAllocatedHeap |-> activeGoroutines,     \* not allocatedHeap
   MaxHeap            |-> maxHeap,
   FinalHeap          |-> lastHeap,
   GCed               |-> gced]

-----------------------------------------------------------------------------
(* Properties *)

TypeOK ==
  /\ older \subseteq Goroutine /\ alive \subseteq Goroutine /\ gone \subseteq Goroutine
  /\ createdGoroutines \in Nat /\ activeGoroutines \in Int
  /\ {shrunk, maxHeap, allocatedHeap, lastHeap, gced} \subseteq Nat

\* The counts of goroutines say what has changed since the trace began: goroutines
\* older than the trace are never counted in, but counted out when they end.
GoroutinesBalanced ==
  /\ createdGoroutines = Cardinality((alive \cup gone) \ older)
  /\ activeGoroutines = Cardinality(alive) - Cardinality(older)

\* The sums of the heap agree: what was allocated is what is left and what was
\* given back, and no less than the largest sample.
HeapBalanced ==
  /\ allocatedHeap = lastHeap + shrunk
  /\ lastHeap <= maxHeap /\ maxHeap <= allocatedHeap
=============================================================================
