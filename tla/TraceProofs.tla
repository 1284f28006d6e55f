----------------------------- MODULE TraceProofs -----------------------------
(***************************************************************************)
(* That the sums of TracesToResults add up, for every trace: whatever      *)
(* goroutines and samples it has, and in whatever order.                   *)
(***************************************************************************)
EXTENDS TraceResults, TLAPS, FiniteSetTheorems

\* A goroutine older than the trace is alive or gone, and none is both: a new one is
\* neither, so it is counted once.
TraceInv ==
  /\ TypeOK
  /\ older \subseteq alive \cup gone /\ alive \cap gone = {}
  /\ GoroutinesBalanced
  /\ HeapBalanced

\* The invariant holds at the start.
LEMMA TraceInit == ASSUME IsFiniteSet(Goroutine) PROVE Init => TraceInv
<1> SUFFICES ASSUME Init PROVE TraceInv
  OBVIOUS
<1> USE DEF Init
<1>1. TypeOK /\ HeapBalanced
  BY DEF TypeOK, HeapBalanced
<1>2. older \subseteq alive \cup gone /\ alive \cap gone = {}
  OBVIOUS
<1>3. GoroutinesBalanced
  <2>1. (alive \cup gone) \ older = {}
    OBVIOUS
  <2>2. Cardinality(alive) \in Nat
    BY FS_Subset, FS_CardinalityType
  <2>3. QED BY <2>1, <2>2, FS_EmptySet DEF GoroutinesBalanced
<1>4. QED BY <1>1, <1>2, <1>3 DEF TraceInv

\* A new goroutine is counted as created and as active.
LEMMA CreatedStep ==
  ASSUME IsFiniteSet(Goroutine), TraceInv, NEW g \in Goroutine, GoroutineCreated(g)
  PROVE  TraceInv'
<1> USE DEF GoroutineCreated
<1>1. TypeOK'
  BY DEF TraceInv, TypeOK, heapVars
<1>2. HeapBalanced'
  BY DEF TraceInv, HeapBalanced, heapVars
<1>3. (older \subseteq alive \cup gone /\ alive \cap gone = {})'
  BY DEF TraceInv
<1>4. GoroutinesBalanced'
  <2> DEFINE born == (alive \cup gone) \ older
  <2>1. IsFiniteSet(alive) /\ IsFiniteSet(older) /\ IsFiniteSet(born)
    BY FS_Subset DEF TraceInv, TypeOK
  <2>2. /\ Cardinality(alive) \in Nat /\ Cardinality(older) \in Nat
        /\ Cardinality(born) \in Nat
    BY <2>1, FS_CardinalityType
  <2>3. Cardinality(alive') = Cardinality(alive) + 1
    <3>1. alive' = alive \cup {g} /\ g \notin alive
      OBVIOUS
    <3>2. QED BY <2>1, <3>1, FS_AddElement
  <2>4. Cardinality(born') = Cardinality(born) + 1
    <3>1. born' = born \cup {g} /\ g \notin born
      BY DEF TraceInv
    <3>2. QED BY <2>1, <3>1, FS_AddElement
  <2>5. createdGoroutines' = Cardinality(born')
    BY <2>2, <2>4 DEF TraceInv, GoroutinesBalanced
  <2>6. activeGoroutines' = Cardinality(alive') - Cardinality(older')
    BY <2>2, <2>3 DEF TraceInv, GoroutinesBalanced
  <2>7. QED BY <2>5, <2>6 DEF GoroutinesBalanced
<1>5. QED BY <1>1, <1>2, <1>3, <1>4 DEF TraceInv

\* A goroutine that ends is no longer active; whether it was created in the trace is settled.
LEMMA EndsStep ==
  ASSUME IsFiniteSet(Goroutine), TraceInv, NEW g \in Goroutine, GoroutineEnds(g)
  PROVE  TraceInv'
<1> USE DEF GoroutineEnds
<1>1. TypeOK'
  BY DEF TraceInv, TypeOK, heapVars
<1>2. HeapBalanced'
  BY DEF TraceInv, HeapBalanced, heapVars
<1>3. (older \subseteq alive \cup gone /\ alive \cap gone = {})'
  BY DEF TraceInv
<1>4. GoroutinesBalanced'
  <2>1. IsFiniteSet(alive) /\ IsFiniteSet(older)
    BY FS_Subset DEF TraceInv, TypeOK
  <2>2. Cardinality(alive) \in Nat /\ Cardinality(older) \in Nat
    BY <2>1, FS_CardinalityType
  <2>3. Cardinality(alive') = Cardinality(alive) - 1
    BY <2>1, FS_RemoveElement
  <2>4. (alive \cup gone)' = alive \cup gone
    OBVIOUS
  <2>5. createdGoroutines' = Cardinality((alive' \cup gone') \ older')
    BY <2>4 DEF TraceInv, GoroutinesBalanced
  <2>6. activeGoroutines' = Cardinality(alive') - Cardinality(older')
    BY <2>2, <2>3 DEF TraceInv, GoroutinesBalanced
  <2>7. QED BY <2>5, <2>6 DEF GoroutinesBalanced
<1>5. QED BY <1>1, <1>2, <1>3, <1>4 DEF TraceInv

\* A heap sample adds its growth, or what it shrank by.
LEMMA SampleStep ==
  ASSUME Heaps \subseteq Nat, TraceInv, NEW heap \in Heaps, HeapSampled(heap)
  PROVE  TraceInv'
<1> USE DEF HeapSampled, Growth
<1>1. TypeOK'
  BY DEF TraceInv, TypeOK, goVars
<1>2. HeapBalanced'
  BY DEF TraceInv, TypeOK, HeapBalanced
<1>3. (older \subseteq alive \cup gone /\ alive \cap gone = {} /\ GoroutinesBalanced)'
  BY DEF TraceInv, GoroutinesBalanced, goVars
<1>4. QED BY <1>1, <1>2, <1>3 DEF TraceInv

\* The end of a range adds to what was collected and leaves both sums alone.
LEMMA RangeStep ==
  ASSUME Heaps \subseteq Nat, TraceInv, NEW bytes \in Heaps, RangeEnds(bytes)
  PROVE  TraceInv'
BY DEF RangeEnds, TraceInv, TypeOK, GoroutinesBalanced, HeapBalanced, goVars, heapVars

\* Every event of a trace keeps the invariant.
LEMMA TraceStep ==
  ASSUME IsFiniteSet(Goroutine), Heaps \subseteq Nat
  PROVE  TraceInv /\ [Next]_vars => TraceInv'
<1> SUFFICES ASSUME TraceInv, [Next]_vars PROVE TraceInv'
  OBVIOUS
<1>1. ASSUME NEW g \in Goroutine, GoroutineCreated(g) PROVE TraceInv'
  BY <1>1, CreatedStep
<1>2. ASSUME NEW g \in Goroutine, GoroutineEnds(g) PROVE TraceInv'
  BY <1>2, EndsStep
<1>3. ASSUME NEW h \in Heaps, HeapSampled(h) PROVE TraceInv'
  BY <1>3, SampleStep
<1>4. ASSUME NEW h \in Heaps, RangeEnds(h) PROVE TraceInv'
  BY <1>4, RangeStep
<1>5. CASE UNCHANGED vars
  BY <1>5 DEF TraceInv, TypeOK, GoroutinesBalanced, HeapBalanced, vars, goVars, heapVars
<1>6. QED BY <1>1, <1>2, <1>3, <1>4, <1>5 DEF Next

\* TracesToResults, read up to any event: created goroutines are those born in the
\* trace, the final ones the change since it began, and the allocated heap is what
\* the last sample shows and what earlier ones gave back.
THEOREM TraceBalanced ==
  ASSUME IsFiniteSet(Goroutine), Heaps \subseteq Nat
  PROVE  Spec => [](TypeOK /\ GoroutinesBalanced /\ HeapBalanced)
<1>1. Init => TraceInv
  BY TraceInit
<1>2. TraceInv /\ [Next]_vars => TraceInv'
  BY TraceStep
<1>3. TraceInv => TypeOK /\ GoroutinesBalanced /\ HeapBalanced
  BY DEF TraceInv
<1>4. QED BY <1>1, <1>2, <1>3, PTL DEF Spec
=============================================================================
