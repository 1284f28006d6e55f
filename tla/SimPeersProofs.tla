--------------------------- MODULE SimPeersProofs ---------------------------
(***************************************************************************)
(* The peers and their simulator, for every number of peers and topics:    *)
(* who holds a topic and who subscribes to it, that the simulator of Sim   *)
(* is what the queues of the peers' mutations come to (so that what is     *)
(* proved of Sim holds with the peers), and that the counts of a topic     *)
(* and the reports on their way add up.                                    *)
(***************************************************************************)
EXTENDS SimPeers, SimProofs, SequenceTheorems

HandlesType ==
  /\ holding \in [Peer -> SUBSET Topic]
  /\ open \in [Peer -> SUBSET Topic]
  /\ subs \in [Peer -> SUBSET Topic]

HandlesInv == HandlesType /\ HandlesOwned

\* At the start no peer holds anything.
LEMMA HandlesInit == PeersInit => HandlesInv
BY DEF PeersInit, HandlesInv, HandlesType, HandlesOwned

\* A step of the machine of one peer: only its handler of LeavingTopic changes who
\* holds what, and it drops the subscription with the handle.
LEMMA HandlesPeerStep ==
  ASSUME HandlesInv, NEW p \in Peer, PeerHandles(p)
  PROVE  HandlesInv'
<1> USE DEF HandlesInv, HandlesType, HandlesOwned
<1>1. ASSUME NEW t \in Topic, JoiningTopicState(p, t) \/ TopicJoinedState(p, t) \/ TopicLeftState(p, t)
      PROVE  HandlesInv'
  BY <1>1 DEF JoiningTopicState, TopicJoinedState, TopicLeftState, joinVars
<1>2. ASSUME NEW t \in Topic, LeavingTopicState(p, t)
      PROVE  HandlesInv'
  <2>1. CASE t \in subs[p]
    <3>1. /\ subs' = [subs EXCEPT ![p] = @ \ {t}]
          /\ open' = [open EXCEPT ![p] = @ \ {t}]
          /\ holding' = holding /\ stopped' = stopped
      BY <1>2, <2>1 DEF LeavingTopicState, CloseTopic
    <3>2. HandlesType'
      BY <3>1
    <3>3. ASSUME NEW q \in Peer, q \notin stopped'
          PROVE  holding'[q] \cap subs'[q] = {} /\ open'[q] = holding'[q] \cup subs'[q]
      <4>1. CASE q = p
        BY <2>1, <3>1, <3>3, <4>1
      <4>2. CASE q # p
        BY <3>1, <3>3, <4>2
      <4>3. QED BY <4>1, <4>2
    <3>4. QED BY <3>2, <3>3
  <2>2. CASE t \notin subs[p]
    BY <1>2, <2>2 DEF LeavingTopicState
  <2>3. QED BY <2>1, <2>2
<1>3. CASE StartEnd(p)
  BY <1>3 DEF StartEnd, joinVars
<1>4. CASE Cancelled(p)
  BY <1>4 DEF Cancelled, joinVars
<1>5. QED BY <1>1, <1>2, <1>3, <1>4 DEF PeerHandles

\* A step of a goroutine that joins.  Only a stopped peer's fails to store what it
\* joined while Evals are served.
LEMMA HandlesJoinStep ==
  ASSUME HandlesInv, ~EvalTimeouts, NEW p \in Peer, NEW t \in Topic,
         CallsPubsub(p, t) \/ Stores(p, t)
  PROVE  HandlesInv'
<1> USE DEF HandlesInv, HandlesType, HandlesOwned
<1>1. CASE PubsubJoin(p, t)
  <2>1. /\ t \notin open[p]
        /\ open' = [open EXCEPT ![p] = @ \cup {t}]
        /\ holding' = [holding EXCEPT ![p] = @ \cup {t}]
        /\ subs' = subs /\ stopped' = stopped
    BY <1>1 DEF PubsubJoin
  <2>2. HandlesType'
    BY <2>1
  <2>3. ASSUME NEW q \in Peer, q \notin stopped'
        PROVE  holding'[q] \cap subs'[q] = {} /\ open'[q] = holding'[q] \cup subs'[q]
    <3>1. CASE q = p
      BY <2>1, <2>3, <3>1
    <3>2. CASE q # p
      BY <2>1, <2>3, <3>2
    <3>3. QED BY <3>1, <3>2
  <2>4. QED BY <2>2, <2>3
<1>2. CASE PubsubJoinFails(p, t)
  BY <1>2 DEF PubsubJoinFails
<1>3. CASE StoreSubscription(p, t)
  <2>1. /\ t \in holding[p]
        /\ holding' = [holding EXCEPT ![p] = @ \ {t}]
        /\ subs' = [subs EXCEPT ![p] = @ \cup {t}]
        /\ open' = open /\ stopped' = stopped
    BY <1>3 DEF StoreSubscription
  <2>2. HandlesType'
    BY <2>1
  <2>3. ASSUME NEW q \in Peer, q \notin stopped'
        PROVE  holding'[q] \cap subs'[q] = {} /\ open'[q] = holding'[q] \cup subs'[q]
    <3>1. CASE q = p
      BY <2>1, <2>3, <3>1
    <3>2. CASE q # p
      BY <2>1, <2>3, <3>2
    <3>3. QED BY <3>1, <3>2
  <2>4. QED BY <2>2, <2>3
<1>4. CASE StoreFails(p, t)
  <2>1. /\ p \in stopped
        /\ holding' = [holding EXCEPT ![p] = @ \ {t}]
        /\ subs' = subs /\ open' = open /\ stopped' = stopped
    BY <1>4 DEF StoreFails
  <2>2. HandlesType'
    BY <2>1
  <2>3. \A q \in Peer : q \notin stopped => holding'[q] = holding[q]
    BY <2>1
  <2>4. QED BY <2>1, <2>2, <2>3
<1>5. QED BY <1>1, <1>2, <1>3, <1>4 DEF CallsPubsub, Stores

\* HandlesInv is inductive while Evals are served.
LEMMA HandlesStep ==
  ASSUME HandlesInv, ~EvalTimeouts, [PeersNext]_allVars
  PROVE  HandlesInv'
<1>1. CASE SimStep \/ UNCHANGED allVars
  BY <1>1 DEF HandlesInv, HandlesType, HandlesOwned, SimStep, allVars, sideVars, joinVars
<1>2. ASSUME NEW p \in Peer, PeerHandles(p)
      PROVE  HandlesInv'
  BY <1>2, HandlesPeerStep
<1>3. ASSUME NEW p \in Peer, NEW t \in Topic, CallsPubsub(p, t) \/ Stores(p, t)
      PROVE  HandlesInv'
  BY <1>3, HandlesJoinStep
<1>4. ASSUME NEW t \in Topic, NEW d \in {-1, 1}, CountChange(t, d) \/ CountChangeLost(t, d)
      PROVE  HandlesInv'
  BY <1>4 DEF HandlesInv, HandlesType, HandlesOwned, CountChange, CountChangeLost, joinVars
<1>5. QED BY <1>1, <1>2, <1>3, <1>4 DEF PeersNext

\* While Evals are served, every open pubsub handle of a peer that runs has one
\* owner, a goroutine about to store it or Peer.subs (HandlesOwned).
THEOREM HandlesKept ==
  ASSUME ~EvalTimeouts
  PROVE  PeersSpec => []HandlesOwned
<1>1. HandlesInv /\ [PeersNext]_allVars => HandlesInv'
  BY HandlesStep
<1>2. HandlesInv => HandlesOwned
  BY DEF HandlesInv
<1>3. QED BY <1>1, <1>2, HandlesInit, PTL DEF PeersSpec

\* Handles without an owner come from goroutines about to store one, whatever step is
\* taken.
LEMMA UnownedStep ==
  ASSUME HandlesType, [PeersNext]_allVars
  PROVE  HandlesType' /\ \A q \in Peer : Unowned(q)' \subseteq Unowned(q) \cup holding[q]
<1> USE DEF HandlesType, Unowned
<1> DEFINE Goal == HandlesType' /\ \A q \in Peer : Unowned(q)' \subseteq Unowned(q) \cup holding[q]
<1>1. CASE UNCHANGED <<holding, open, subs>>
  BY <1>1
<1>2. ASSUME NEW p \in Peer, NEW t \in Topic, LeavingTopicState(p, t), t \in subs[p]
      PROVE  Goal
  <2>1. /\ subs' = [subs EXCEPT ![p] = @ \ {t}]
        /\ open' = [open EXCEPT ![p] = @ \ {t}]
        /\ holding' = holding
    BY <1>2 DEF LeavingTopicState, CloseTopic
  <2>2. HandlesType'
    BY <2>1
  <2>3. ASSUME NEW q \in Peer
        PROVE  Unowned(q)' \subseteq Unowned(q) \cup holding[q]
    <3>1. CASE q = p
      BY <2>1, <3>1
    <3>2. CASE q # p
      BY <2>1, <3>2
    <3>3. QED BY <3>1, <3>2
  <2>4. QED BY <2>2, <2>3
<1>3. ASSUME NEW p \in Peer, NEW t \in Topic, PubsubJoin(p, t)
      PROVE  Goal
  <2>1. /\ open' = [open EXCEPT ![p] = @ \cup {t}]
        /\ holding' = [holding EXCEPT ![p] = @ \cup {t}]
        /\ subs' = subs
    BY <1>3 DEF PubsubJoin
  <2>2. HandlesType'
    BY <2>1
  <2>3. ASSUME NEW q \in Peer
        PROVE  Unowned(q)' \subseteq Unowned(q) \cup holding[q]
    <3>1. CASE q = p
      BY <2>1, <3>1
    <3>2. CASE q # p
      BY <2>1, <3>2
    <3>3. QED BY <3>1, <3>2
  <2>4. QED BY <2>2, <2>3
<1>4. ASSUME NEW p \in Peer, NEW t \in Topic, Stores(p, t)
      PROVE  Goal
  <2>1. /\ holding' = [holding EXCEPT ![p] = @ \ {t}] /\ open' = open
        /\ subs' = subs \/ subs' = [subs EXCEPT ![p] = @ \cup {t}]
    BY <1>4 DEF Stores, StoreSubscription, StoreFails
  <2>2. HandlesType'
    BY <2>1
  <2>3. ASSUME NEW q \in Peer
        PROVE  Unowned(q)' \subseteq Unowned(q) \cup holding[q]
    <3>1. CASE q = p
      BY <2>1, <3>1
    <3>2. CASE q # p
      BY <2>1, <3>2
    <3>3. QED BY <3>1, <3>2
  <2>4. QED BY <2>2, <2>3
<1>5. ASSUME NEW p \in Peer, PeerHandles(p)
      PROVE  Goal
  BY <1>1, <1>2, <1>5
  DEF PeerHandles, JoiningTopicState, LeavingTopicState, TopicJoinedState, TopicLeftState,
      StartEnd, Cancelled, joinVars
<1>6. ASSUME NEW p \in Peer, NEW t \in Topic, PubsubJoinFails(p, t)
      PROVE  Goal
  BY <1>1, <1>6 DEF PubsubJoinFails
<1>7. CASE \/ SimStep \/ UNCHANGED allVars
           \/ \E t \in Topic, d \in {-1, 1} : CountChange(t, d) \/ CountChangeLost(t, d)
  BY <1>1, <1>7 DEF SimStep, CountChange, CountChangeLost, allVars, sideVars, joinVars
<1>8. QED BY <1>3, <1>4, <1>5, <1>6, <1>7 DEF PeersNext, CallsPubsub

\* A handle loses its owner only where the Eval of its goroutine is not served
\* (LostOnlyByEval), also when Evals time out and peers are removed.
THEOREM HandlesLostByEval == PeersSpec => LostOnlyByEval
<1>1. PeersInit => HandlesType
  BY DEF PeersInit, HandlesType
<1>2. HandlesType /\ [PeersNext]_allVars => HandlesType'
  BY UnownedStep
<1>3. HandlesType /\ [PeersNext]_allVars
        => [\A p \in Peer : Unowned(p)' \subseteq Unowned(p) \cup holding[p]]_allVars
  BY UnownedStep
<1>4. QED BY <1>1, <1>2, <1>3, PTL DEF PeersSpec, LostOnlyByEval

-----------------------------------------------------------------------------
(* What FromSim makes of a queue.  Its recursion runs over the length, and is  *)
(* reasoned about through a smallest exception, as are the sums of SimProofs.  *)

\* Induction up to n, T being the numbers with the property.
LEMMA UpTo ==
  ASSUME NEW n \in Nat, NEW T, 0 \in T, \A i \in 0..n : i # n /\ i \in T => i + 1 \in T
  PROVE  0..n \subseteq T
<1> DEFINE Bad == (0..n) \ T
<1>1. SUFFICES ASSUME Bad # {} PROVE FALSE
  OBVIOUS
<1>2. Bad \in SUBSET Nat
  OBVIOUS
<1>3. PICK k \in Bad : \A j \in Bad : k <= j
  <2> HIDE DEF Bad
  <2>1. QED BY <1>1, <1>2, LeastNat
<1>4. k # 0 /\ k \in 0..n /\ k \notin T
  OBVIOUS
<1>5. k - 1 \in 0..n /\ k - 1 # n /\ k - 1 \in T
  BY <1>3, <1>4
<1>6. (k - 1) + 1 = k
  BY <1>4
<1>7. QED BY <1>4, <1>5, <1>6

\* Appending to the right part of a concatenation appends to the whole.
LEMMA AppendRight ==
  ASSUME NEW S, NEW s \in Seq(S), NEW t \in Seq(S), NEW e \in S
  PROVE  Append(s \o t, e) = s \o Append(t, e)
<1> DEFINE a == Append(s \o t, e)
           b == s \o Append(t, e)
<1>1. a \in Seq(S) /\ b \in Seq(S) /\ Len(a) = Len(b) /\ \A i \in 1..Len(a) : a[i] = b[i]
  OBVIOUS
<1> HIDE DEF a, b
<1>2. a = b
  BY <1>1, SeqEqual
<1>3. QED BY <1>2 DEF a, b

\* What FromSim keeps of the first n messages.
KeptStep(q, g, n) ==
  IF n = 0 THEN <<>>
  ELSE IF q[n] \in Mutation THEN Append(g[n - 1], q[n]) ELSE g[n - 1]
Kept(q, n) == CHOOSE g : g = [i \in 0..n |-> KeptStep(q, g, i)]

\* FromSim unfolded: Kept is its recursion.
LEMMA FromSimIs ==
  ASSUME NEW q
  PROVE  FromSim(q) = Kept(q, Len(q))[Len(q)]
BY DEF FromSim, Kept, KeptStep

\* The recursion of FromSim has a solution up to every length of the queue.
LEMMA KeptExists ==
  ASSUME NEW M, NEW q \in Seq(M), NEW n \in 0..Len(q)
  PROVE  \E g \in [0..n -> Seq(Mutation)] : \A i \in 0..n : g[i] = KeptStep(q, g, i)
<1> DEFINE Good(k) == \E g \in [0..k -> Seq(Mutation)] : \A i \in 0..k : g[i] = KeptStep(q, g, i)
           T == {k \in 0..n : Good(k)}
<1>1. Len(q) \in Nat
  OBVIOUS
<1>2. Good(0)
  <2> DEFINE g == [i \in 0..0 |-> <<>>]
  <2>1. g \in [0..0 -> Seq(Mutation)]
    OBVIOUS
  <2>2. \A i \in 0..0 : g[i] = KeptStep(q, g, i)
    BY DEF KeptStep
  <2>3. QED BY <2>1, <2>2
<1>3. ASSUME NEW k \in 0..n, k # n, Good(k) PROVE Good(k + 1)
  <2>1. PICK g \in [0..k -> Seq(Mutation)] : \A i \in 0..k : g[i] = KeptStep(q, g, i)
    BY <1>3
  <2> DEFINE h == [i \in 0..(k + 1) |-> KeptStep(q, g, i)]
  <2>2. \A i \in 0..(k + 1) : i # 0 => i - 1 \in 0..k
    BY <1>3
  <2>3. \A i \in 0..k : h[i] = g[i]
    BY <2>1
  <2>4. \A i \in 0..(k + 1) : h[i] = KeptStep(q, h, i)
    BY <2>2, <2>3 DEF KeptStep
  <2>5. \A i \in 0..(k + 1) : h[i] \in Seq(Mutation)
    BY <2>2 DEF KeptStep
  <2>6. h \in [0..(k + 1) -> Seq(Mutation)]
    BY <2>5
  <2> HIDE DEF h
  <2>7. QED BY <2>4, <2>6
<1> HIDE DEF Good
<1>4. n \in Nat
  BY <1>1
<1>5. 0 \in T
  BY <1>2, <1>4
<1>6. \A i \in 0..n : i # n /\ i \in T => i + 1 \in T
  BY <1>3, <1>4
<1> HIDE DEF T
<1>7. 0..n \subseteq T
  BY <1>4, <1>5, <1>6, UpTo
<1>8. n \in T
  BY <1>4, <1>7
<1>9. QED BY <1>8 DEF T, Good

\* Kept solves it, and its values are queues of the simulator's mutations.
LEMMA KeptIs ==
  ASSUME NEW M, NEW q \in Seq(M)
  PROVE  /\ Kept(q, Len(q)) \in [0..Len(q) -> Seq(Mutation)]
         /\ \A i \in 0..Len(q) : Kept(q, Len(q))[i] = KeptStep(q, Kept(q, Len(q)), i)
<1> DEFINE n == Len(q)
<1>1. n \in 0..Len(q) /\ n \in Nat
  OBVIOUS
<1> HIDE DEF n
<1>2. PICK g \in [0..n -> Seq(Mutation)] : \A i \in 0..n : g[i] = KeptStep(q, g, i)
  BY <1>1, KeptExists
<1>3. g = [i \in 0..n |-> KeptStep(q, g, i)]
  BY <1>2
<1>4. Kept(q, n) = [i \in 0..n |-> KeptStep(q, Kept(q, n), i)]
  BY <1>3 DEF Kept
<1> DEFINE h == Kept(q, n)
<1>5. \A i \in 0..n : h[i] = KeptStep(q, h, i)
  BY <1>4
<1>6. DOMAIN h = 0..n
  BY <1>4
<1> HIDE DEF h
<1> DEFINE T == {i \in 0..n : h[i] \in Seq(Mutation)}
<1>7. 0 \in T
  <2>1. 0 \in 0..n /\ h[0] = KeptStep(q, h, 0)
    BY <1>1, <1>5
  <2>2. h[0] = <<>>
    BY <2>1 DEF KeptStep
  <2>3. <<>> \in Seq(Mutation)
    OBVIOUS
  <2>4. QED BY <2>1, <2>2, <2>3
<1>8. \A i \in 0..n : i # n /\ i \in T => i + 1 \in T
  <2> SUFFICES ASSUME NEW i \in 0..n, i # n, h[i] \in Seq(Mutation) PROVE i + 1 \in T
    OBVIOUS
  <2>1. i + 1 \in 0..n /\ i + 1 # 0 /\ (i + 1) - 1 = i
    BY <1>1
  <2>2. h[i + 1] = KeptStep(q, h, i + 1)
    BY <1>5, <2>1
  <2>3. h[i + 1] \in Seq(Mutation)
    BY <2>1, <2>2 DEF KeptStep
  <2>4. QED BY <2>1, <2>3
<1>9. 0..n \subseteq T
  <2> HIDE DEF T
  <2>1. QED BY <1>1, <1>7, <1>8, UpTo
<1>10. \A i \in 0..n : h[i] \in Seq(Mutation)
  BY <1>9
<1>11. h = [i \in 0..n |-> h[i]]
  BY <1>4, <1>6 DEF h
<1>12. h \in [0..n -> Seq(Mutation)]
  BY <1>10, <1>11
<1>13. QED BY <1>5, <1>12 DEF h, n

\* The result is one of the simulator's mutations only, not longer than the queue.
LEMMA FromSimTyped ==
  ASSUME NEW M, NEW q \in Seq(M)
  PROVE  FromSim(q) \in Seq(Mutation) /\ Len(FromSim(q)) <= Len(q)
<1> DEFINE n == Len(q)
           g == Kept(q, n)
           T == {i \in 0..n : Len(g[i]) <= i}
<1>1. n \in Nat /\ FromSim(q) = g[n]
  BY FromSimIs
<1>2. g \in [0..n -> Seq(Mutation)] /\ \A i \in 0..n : g[i] = KeptStep(q, g, i)
  BY KeptIs
<1> HIDE DEF g, n
<1>3. 0 \in T
  <2>1. 0 \in 0..n /\ g[0] = KeptStep(q, g, 0)
    BY <1>1, <1>2
  <2>2. QED BY <2>1 DEF KeptStep
<1>4. ASSUME NEW i \in 0..n, i # n, i \in T PROVE i + 1 \in T
  <2>1. i + 1 \in 0..n /\ i + 1 # 0 /\ (i + 1) - 1 = i
    BY <1>1, <1>4
  <2>2. g[i + 1] = IF q[i + 1] \in Mutation THEN Append(g[i], q[i + 1]) ELSE g[i]
    BY <1>2, <2>1 DEF KeptStep
  <2>3. g[i] \in Seq(Mutation) /\ Len(g[i]) <= i
    BY <1>2, <1>4
  <2>4. Len(g[i + 1]) <= i + 1
    BY <2>2, <2>3
  <2>5. QED BY <2>1, <2>4
<1>5. 0..n \subseteq T
  <2> HIDE DEF T
  <2>1. QED BY <1>1, <1>3, <1>4, UpTo
<1>6. n \in T /\ n \in 0..n
  BY <1>1, <1>5
<1>7. QED BY <1>1, <1>2, <1>6 DEF n

\* Of an empty queue nothing is kept.
LEMMA FromSimEmpty == FromSim(<<>>) = <<>>
<1>1. <<>> \in Seq(Mutation) /\ Len(<<>>) = 0
  OBVIOUS
<1>2. FromSim(<<>>) \in Seq(Mutation) /\ Len(FromSim(<<>>)) <= Len(<<>>)
  BY <1>1, FromSimTyped
<1>3. QED BY <1>1, <1>2

\* A message queued last is kept last.
LEMMA FromSimAppend ==
  ASSUME NEW M, NEW q \in Seq(M), NEW m \in M
  PROVE  FromSim(Append(q, m)) = IF m \in Mutation THEN Append(FromSim(q), m) ELSE FromSim(q)
<1> DEFINE n == Len(q)
           r == Append(q, m)
           g == Kept(q, n)
           h == Kept(r, n + 1)
           T == {i \in 0..n : h[i] = g[i]}
<1>1. /\ n \in Nat /\ r \in Seq(M) /\ Len(r) = n + 1
      /\ r[n + 1] = m /\ \A i \in 1..n : r[i] = q[i]
  OBVIOUS
<1>2. FromSim(q) = g[n] /\ FromSim(r) = h[n + 1]
  BY <1>1, FromSimIs
<1>3. \A i \in 0..n : g[i] = KeptStep(q, g, i)
  BY KeptIs
<1>4. \A i \in 0..(n + 1) : h[i] = KeptStep(r, h, i)
  <2> HIDE DEF r
  <2>1. \A i \in 0..Len(r) : Kept(r, Len(r))[i] = KeptStep(r, Kept(r, Len(r)), i)
    BY <1>1, KeptIs
  <2>2. QED BY <1>1, <2>1
<1> HIDE DEF g, h, n, r
<1>5. 0 \in T
  <2>1. 0 \in 0..n /\ g[0] = KeptStep(q, g, 0) /\ h[0] = KeptStep(r, h, 0)
    BY <1>1, <1>3, <1>4
  <2>2. QED BY <2>1 DEF KeptStep
<1>6. ASSUME NEW i \in 0..n, i # n, i \in T PROVE i + 1 \in T
  <2>1. i + 1 \in 0..n /\ i + 1 \in 0..(n + 1) /\ i + 1 \in 1..n /\ i + 1 # 0 /\ (i + 1) - 1 = i
    BY <1>1, <1>6
  <2>2. g[i + 1] = KeptStep(q, g, i + 1) /\ h[i + 1] = KeptStep(r, h, i + 1)
    BY <1>3, <1>4, <2>1
  <2>3. r[i + 1] = q[i + 1] /\ h[i] = g[i]
    BY <1>1, <1>6, <2>1
  <2>4. h[i + 1] = g[i + 1]
    BY <2>1, <2>2, <2>3 DEF KeptStep
  <2>5. QED BY <2>1, <2>4
<1>7. 0..n \subseteq T
  <2> HIDE DEF T
  <2>1. QED BY <1>1, <1>5, <1>6, UpTo
<1>8. h[n] = g[n]
  BY <1>1, <1>7
<1>9. n + 1 \in 0..(n + 1) /\ n + 1 # 0 /\ (n + 1) - 1 = n
  BY <1>1
<1>10. h[n + 1] = KeptStep(r, h, n + 1)
  BY <1>4, <1>9
<1>11. h[n + 1] = IF m \in Mutation THEN Append(g[n], m) ELSE g[n]
  BY <1>1, <1>8, <1>9, <1>10 DEF KeptStep
<1>12. QED BY <1>2, <1>11 DEF r

\* The oldest message is kept first.
LEMMA FromSimTail ==
  ASSUME NEW M, NEW q \in Seq(M), q # <<>>
  PROVE  FromSim(q) = IF Head(q) \in Mutation THEN <<Head(q)>> \o FromSim(Tail(q))
                                              ELSE FromSim(Tail(q))
<1> DEFINE n == Len(q) - 1
           r == Tail(q)
           g == Kept(q, n + 1)
           h == Kept(r, n)
           first == IF Head(q) \in Mutation THEN <<Head(q)>> ELSE <<>>
           T == {i \in 0..n : g[i + 1] = first \o h[i]}
<1>1. /\ n \in Nat /\ r \in Seq(M) /\ Len(r) = n /\ Len(q) = n + 1
      /\ q[1] = Head(q) /\ \A i \in 1..n : r[i] = q[i + 1]
  OBVIOUS
<1>2. FromSim(q) = g[n + 1] /\ FromSim(r) = h[n]
  BY <1>1, FromSimIs
<1>3. \A i \in 0..(n + 1) : g[i] = KeptStep(q, g, i)
  <2>1. \A i \in 0..Len(q) : Kept(q, Len(q))[i] = KeptStep(q, Kept(q, Len(q)), i)
    BY KeptIs
  <2>2. QED BY <1>1, <2>1
<1>4. (\A i \in 0..n : h[i] = KeptStep(r, h, i)) /\ h \in [0..n -> Seq(Mutation)]
  <2> HIDE DEF r
  <2>1. /\ \A i \in 0..Len(r) : Kept(r, Len(r))[i] = KeptStep(r, Kept(r, Len(r)), i)
        /\ Kept(r, Len(r)) \in [0..Len(r) -> Seq(Mutation)]
    BY <1>1, KeptIs
  <2>2. QED BY <1>1, <2>1
<1> HIDE DEF g, h, n, r
<1>5. first \in Seq(Mutation)
  OBVIOUS
<1>6. 0 \in T
  <2>1. 0 \in 0..n /\ 0 \in 0..(n + 1) /\ 1 \in 0..(n + 1)
    BY <1>1
  <2>2. g[0] = <<>> /\ h[0] = <<>>
    BY <1>3, <1>4, <2>1 DEF KeptStep
  <2>3. g[1] = IF q[1] \in Mutation THEN Append(g[1 - 1], q[1]) ELSE g[1 - 1]
    BY <1>3, <2>1 DEF KeptStep
  <2>4. 1 - 1 = 0 /\ 0 + 1 = 1
    OBVIOUS
  <2>5. Append(<<>>, Head(q)) = <<Head(q)>>
    OBVIOUS
  <2>6. g[1] = first
    BY <1>1, <2>2, <2>3, <2>4, <2>5
  <2>7. first \o <<>> = first
    BY <1>5
  <2>8. QED BY <2>1, <2>2, <2>4, <2>6, <2>7
<1>7. ASSUME NEW i \in 0..n, i # n, i \in T PROVE i + 1 \in T
  <2>1. /\ i + 1 \in 0..n /\ i + 1 \in 1..n /\ i + 1 # 0 /\ (i + 1) - 1 = i
        /\ (i + 1) + 1 \in 0..(n + 1) /\ (i + 1) + 1 # 0 /\ ((i + 1) + 1) - 1 = i + 1
    BY <1>1, <1>7
  <2>2. g[(i + 1) + 1] = KeptStep(q, g, (i + 1) + 1) /\ h[i + 1] = KeptStep(r, h, i + 1)
    BY <1>3, <1>4, <2>1
  <2>3. r[i + 1] = q[(i + 1) + 1] /\ g[i + 1] = first \o h[i] /\ h[i] \in Seq(Mutation)
    BY <1>1, <1>4, <1>7, <2>1
  <2> DEFINE m == q[(i + 1) + 1]
  <2>4. /\ g[(i + 1) + 1] = IF m \in Mutation THEN Append(first \o h[i], m) ELSE first \o h[i]
        /\ h[i + 1] = IF m \in Mutation THEN Append(h[i], m) ELSE h[i]
    BY <2>1, <2>2, <2>3 DEF KeptStep
  <2> HIDE DEF m, first
  <2>5. m \in Mutation => Append(first \o h[i], m) = first \o Append(h[i], m)
    <3> DEFINE u == h[i]
               S == Mutation
    <3>1. u \in Seq(S) /\ first \in Seq(S)
      BY <1>5, <2>3
    <3> HIDE DEF u, S
    <3>2. m \in S => first \o Append(u, m) = Append(first \o u, m)
      BY <3>1, AppendRight
    <3>3. QED BY <3>2 DEF u, S
  <2>6. g[(i + 1) + 1] = first \o h[i + 1]
    BY <2>4, <2>5
  <2>7. QED BY <2>1, <2>6
<1>8. 0..n \subseteq T
  <2> HIDE DEF T
  <2>1. QED BY <1>1, <1>6, <1>7, UpTo
<1>9. n \in 0..n
  BY <1>1
<1>10. n \in T
  BY <1>8, <1>9
<1>11. g[n + 1] = first \o h[n] /\ h[n] \in Seq(Mutation)
  BY <1>4, <1>9, <1>10
<1>12. FromSim(q) = first \o FromSim(r) /\ FromSim(r) \in Seq(Mutation)
  BY <1>2, <1>11
<1>13. <<>> \o FromSim(r) = FromSim(r)
  BY <1>12
<1>14. QED BY <1>12, <1>13 DEF r

\* A queue without mutations of the simulator has nothing of it.
LEMMA FromSimNone ==
  ASSUME NEW M, NEW q \in Seq(M), \A i \in DOMAIN q : q[i] \notin Mutation
  PROVE  FromSim(q) = <<>>
<1> DEFINE n == Len(q)
           g == Kept(q, n)
           T == {i \in 0..n : g[i] = <<>>}
<1>1. n \in Nat /\ FromSim(q) = g[n] /\ \A i \in 1..n : q[i] \notin Mutation
  BY FromSimIs
<1>2. \A i \in 0..n : g[i] = KeptStep(q, g, i)
  BY KeptIs
<1> HIDE DEF g, n
<1>3. 0 \in T
  <2>1. 0 \in 0..n /\ g[0] = KeptStep(q, g, 0)
    BY <1>1, <1>2
  <2>2. QED BY <2>1 DEF KeptStep
<1>4. ASSUME NEW i \in 0..n, i # n, i \in T PROVE i + 1 \in T
  <2>1. i + 1 \in 0..n /\ i + 1 \in 1..n /\ i + 1 # 0 /\ (i + 1) - 1 = i
    BY <1>1, <1>4
  <2>2. g[i + 1] = g[i]
    BY <1>1, <1>2, <2>1 DEF KeptStep
  <2>3. QED BY <1>4, <2>1, <2>2
<1>5. 0..n \subseteq T
  <2> HIDE DEF T
  <2>1. QED BY <1>1, <1>3, <1>4, UpTo
<1>6. n \in 0..n
  BY <1>1
<1>7. n \in T
  BY <1>5, <1>6
<1>8. QED BY <1>1, <1>7

\* Repeated mutations, as a peak posts them, are kept one and all.
LEMMA FromSimRepeat ==
  ASSUME NEW M, Mutation \subseteq M, NEW q \in Seq(M), NEW m \in Mutation, NEW n \in Nat
  PROVE  FromSim(q \o [i \in 1..n |-> m]) = FromSim(q) \o [i \in 1..n |-> m]
<1> DEFINE r(k) == [i \in 1..k |-> m]
           T == {k \in 0..n : FromSim(q \o r(k)) = FromSim(q) \o r(k)}
<1>1. FromSim(q) \in Seq(Mutation)
  BY FromSimTyped
<1>2. \A k \in Nat : r(k) \in Seq(Mutation) /\ r(k) \in Seq(M)
  BY RepeatTyped
<1>3. ASSUME NEW k \in Nat PROVE r(k + 1) = Append(r(k), m)
  <2> DEFINE a == r(k + 1)
             b == Append(r(k), m)
  <2>1. a \in Seq(Mutation) /\ b \in Seq(Mutation)
    BY <1>2
  <2>2. Len(a) = k + 1 /\ Len(b) = k + 1 /\ \A i \in 1..(k + 1) : a[i] = b[i]
    OBVIOUS
  <2> HIDE DEF a, b
  <2>3. a = b
    BY <2>1, <2>2, SeqEqual
  <2>4. QED BY <2>3 DEF a, b
<1>4. r(0) = <<>>
  OBVIOUS
<1> HIDE DEF r
<1>5. 0 \in T
  <2>1. q \o r(0) = q /\ FromSim(q) \o r(0) = FromSim(q)
    BY <1>1, <1>4
  <2>2. 0 \in 0..n
    OBVIOUS
  <2>3. FromSim(q \o r(0)) = FromSim(q) \o r(0)
    BY <2>1
  <2>4. QED BY <2>2, <2>3
<1>6. ASSUME NEW k \in 0..n, k # n, k \in T PROVE k + 1 \in T
  <2>1. k \in Nat /\ k + 1 \in 0..n /\ m \in M
    BY <1>6
  <2> DEFINE u == r(k)
             v == FromSim(q)
  <2>2. q \o r(k) \in Seq(M) /\ u \in Seq(M) /\ u \in Seq(Mutation) /\ v \in Seq(Mutation)
    BY <1>1, <1>2, <2>1
  <2>3. r(k + 1) = Append(u, m)
    BY <1>3, <2>1
  <2> HIDE DEF u, v
  <2>4. q \o Append(u, m) = Append(q \o u, m)
    BY <2>1, <2>2, AppendRight
  <2>5. q \o r(k + 1) = Append(q \o r(k), m)
    BY <2>3, <2>4 DEF u
  <2>6. FromSim(Append(q \o r(k), m)) = Append(FromSim(q \o r(k)), m)
    BY <2>1, <2>2, FromSimAppend
  <2>7. FromSim(q \o r(k)) = FromSim(q) \o r(k)
    BY <1>6
  <2>8. Append(FromSim(q) \o r(k), m) = FromSim(q) \o Append(r(k), m)
    <3>1. v \o Append(u, m) = Append(v \o u, m)
      <4>1. v \in Seq(M)
        BY <2>2
      <4>2. QED BY <2>1, <2>2, <4>1, AppendRight
    <3>2. QED BY <3>1 DEF u, v
  <2>9. QED BY <1>3, <2>1, <2>5, <2>6, <2>7, <2>8
<1>7. 0..n \subseteq T
  <2> HIDE DEF T
  <2>1. QED BY <1>5, <1>6, UpTo
<1>8. n \in T
  BY <1>7
<1>9. QED BY <1>8 DEF r

-----------------------------------------------------------------------------
(* What the queues of the peers hold. *)

Message == Mutation \cup {TopicJoined(t) : t \in Topic} \cup {TopicLeft(t) : t \in Topic}

\* The names of messages do not collide.
LEMMA MessageFacts ==
  /\ Mutation \subseteq Message
  /\ RemoveStart \in Mutation
  /\ \A t \in Topic :
       /\ Join(t) \in Mutation /\ Join(t) # RemoveStart
       /\ Leave(t) \in Mutation /\ Leave(t) # RemoveStart
       /\ TopicJoined(t) \in Message \ Mutation /\ TopicLeft(t) \in Message \ Mutation
BY DEF Message, Mutation, TopicJoined, TopicLeft, Join, Leave, RemoveStart

\* Nothing of the simulator comes after the removal.
Over(s) == \A i, j \in DOMAIN s : i < j /\ s[i] = RemoveStart => s[j] \notin Mutation

\* What appending a message does to the order of a queue.
LEMMA QueueAppend ==
  ASSUME NEW s \in Seq(Message), NEW m \in Message
  PROVE  /\ Append(s, m) \in Seq(Message)
         /\ Quiet(s) /\ m # RemoveStart => Quiet(Append(s, m))
         /\ Over(s) /\ (Quiet(s) \/ m \notin Mutation) => Over(Append(s, m))
<1> DEFINE r == Append(s, m)
<1>1. /\ r \in Seq(Message) /\ Len(s) \in Nat /\ DOMAIN s = 1..Len(s)
      /\ DOMAIN r = 1..(Len(s) + 1) /\ r[Len(s) + 1] = m /\ \A i \in 1..Len(s) : r[i] = s[i]
  OBVIOUS
<1> HIDE DEF r
<1>2. \A i \in DOMAIN r : i \in DOMAIN s \/ i = Len(s) + 1
  BY <1>1
<1>3. Quiet(s) /\ m # RemoveStart => Quiet(r)
  BY <1>1, <1>2 DEF Quiet
<1>4. ASSUME Over(s), Quiet(s) \/ m \notin Mutation, NEW i \in DOMAIN r, NEW j \in DOMAIN r,
             i < j, r[i] = RemoveStart
      PROVE  r[j] \notin Mutation
  <2>1. i \in DOMAIN s /\ s[i] = RemoveStart
    BY <1>1, <1>2, <1>4
  <2>2. CASE j \in DOMAIN s
    BY <1>1, <1>4, <2>1, <2>2 DEF Over
  <2>3. CASE j = Len(s) + 1
    BY <1>1, <1>4, <2>1, <2>3 DEF Quiet
  <2>4. QED BY <1>2, <1>4, <2>2, <2>3
<1>5. Over(s) /\ (Quiet(s) \/ m \notin Mutation) => Over(r)
  BY <1>4 DEF Over
<1>6. QED BY <1>1, <1>3, <1>5 DEF r

\* What taking the oldest message does to it.
LEMMA QueueTail ==
  ASSUME NEW s \in Seq(Message), s # <<>>
  PROVE  /\ Tail(s) \in Seq(Message) /\ Head(s) \in Message
         /\ Quiet(s) => Quiet(Tail(s)) /\ Head(s) # RemoveStart
         /\ Over(s) => Over(Tail(s))
         /\ Over(s) /\ Head(s) = RemoveStart => \A i \in DOMAIN Tail(s) : Tail(s)[i] \notin Mutation
<1> DEFINE r == Tail(s)
<1>1. /\ r \in Seq(Message) /\ Head(s) \in Message /\ Len(s) \in Nat \ {0} /\ DOMAIN s = 1..Len(s)
      /\ DOMAIN r = 1..(Len(s) - 1) /\ s[1] = Head(s) /\ \A i \in 1..(Len(s) - 1) : r[i] = s[i + 1]
  OBVIOUS
<1> HIDE DEF r
<1>2. \A i \in DOMAIN r : i + 1 \in DOMAIN s /\ r[i] = s[i + 1] /\ i + 1 > 1 /\ i \in Nat
  BY <1>1
<1>3. 1 \in DOMAIN s
  BY <1>1
<1>4. Quiet(s) => Quiet(r) /\ Head(s) # RemoveStart
  BY <1>1, <1>2, <1>3 DEF Quiet
<1>5. Over(s) => Over(r)
  BY <1>2 DEF Over
<1>6. Over(s) /\ Head(s) = RemoveStart => \A i \in DOMAIN r : r[i] \notin Mutation
  BY <1>1, <1>2, <1>3 DEF Over
<1>7. QED BY <1>1, <1>4, <1>5, <1>6 DEF r

\* A peak's joins leave a queue without a removal.
LEMMA QueueRepeat ==
  ASSUME NEW s \in Seq(Message), Quiet(s), NEW t \in Topic, NEW k \in Nat
  PROVE  /\ s \o [i \in 1..k |-> Join(t)] \in Seq(Message)
         /\ Quiet(s \o [i \in 1..k |-> Join(t)])
<1> DEFINE a == [i \in 1..k |-> Join(t)]
           r == s \o a
<1>1. a \in Seq(Message) /\ Len(a) = k /\ \A i \in 1..k : a[i] = Join(t)
  BY MessageFacts
<1> HIDE DEF a
<1>2. /\ r \in Seq(Message) /\ Len(s) \in Nat /\ DOMAIN s = 1..Len(s)
      /\ DOMAIN r = 1..(Len(s) + k) /\ \A i \in 1..Len(s) : r[i] = s[i]
      /\ \A i \in (Len(s) + 1)..(Len(s) + k) : r[i] = a[i - Len(s)] /\ i - Len(s) \in 1..k
  BY <1>1
<1> HIDE DEF r
<1>3. \A i \in DOMAIN r : i \in 1..Len(s) \/ i \in (Len(s) + 1)..(Len(s) + k)
  BY <1>2
<1>4. \A i \in DOMAIN r : r[i] # RemoveStart
  BY <1>1, <1>2, <1>3, MessageFacts DEF Quiet
<1>5. QED BY <1>2, <1>4 DEF Quiet, r, a

\* A queue without a removal has nothing behind it.
LEMMA QuietOver == ASSUME NEW s, Quiet(s) PROVE Over(s)
BY DEF Quiet, Over

\* What the queue of a peer that runs may hold.
Orderly(p) ==
  /\ inbox[p] \in Seq(Message)
  /\ Over(inbox[p])
  /\ p \in peers \/ p \notin created => Quiet(inbox[p])

QueuesInv ==
  /\ peers \subseteq created /\ created \subseteq Peer /\ topics \subseteq Topic
  /\ stopped \subseteq created \ peers
  /\ DOMAIN inbox = Peer
  /\ \A p \in Peer \ stopped : Orderly(p)

\* Empty queues are orderly.
LEMMA QueuesInit == PeersInit => QueuesInv
BY DEF PeersInit, Init, QueuesInv, Orderly, Quiet, Over

\* A handler that posts nothing, or posts to peers that live.
LEMMA QueuesTold ==
  ASSUME QueuesInv, UNCHANGED <<peers, created, stopped>>, topics' \subseteq Topic,
         \/ inbox' = inbox
         \/ \E P \in SUBSET peers, t \in Topic : Tell(P, Join(t)) \/ Tell(P, Leave(t))
  PROVE  QueuesInv'
<1>1. CASE inbox' = inbox
  BY <1>1 DEF QueuesInv, Orderly
<1>2. ASSUME NEW P \in SUBSET peers, NEW t \in Topic, NEW m \in {Join(t), Leave(t)}, Tell(P, m)
      PROVE  QueuesInv'
  <2>1. m \in Mutation /\ m \in Message /\ m # RemoveStart
    BY MessageFacts
  <2>2. /\ DOMAIN inbox' = Peer
        /\ \A p \in Peer : inbox'[p] = IF p \in P THEN Append(inbox[p], m) ELSE inbox[p]
    BY <1>2 DEF Tell
  <2>3. ASSUME NEW p \in Peer \ stopped PROVE Orderly(p)'
    <3>1. Orderly(p)
      BY DEF QueuesInv
    <3>2. CASE p \in P
      <4>1. inbox'[p] = Append(inbox[p], m) /\ Quiet(inbox[p])
        BY <2>2, <3>1, <3>2 DEF Orderly
      <4>2. /\ Append(inbox[p], m) \in Seq(Message) /\ Quiet(Append(inbox[p], m))
            /\ Over(Append(inbox[p], m))
        BY <2>1, <3>1, <4>1, QueueAppend DEF Orderly
      <4>3. QED BY <4>1, <4>2 DEF Orderly
    <3>3. CASE p \notin P
      BY <2>2, <3>1, <3>3 DEF Orderly
    <3>4. QED BY <3>2, <3>3
  <2>4. QED BY <2>2, <2>3 DEF QueuesInv
<1>3. QED BY <1>1, <1>2

\* A new peer has an empty queue.
LEMMA QueuesCreate ==
  ASSUME QueuesInv, NEW p \in Peer, CreatePeer(p), stopped' = stopped
  PROVE  QueuesInv'
BY DEF QueuesInv, Orderly, CreatePeer

\* The removal is posted to a peer that lives, so it is the first one.
LEMMA QueuesRemove ==
  ASSUME QueuesInv, RemovePeerState, stopped' = stopped
  PROVE  QueuesInv'
<1>1. PICK p \in peers : peers' = peers \ {p} /\ Tell({p}, RemoveStart)
  BY DEF RemovePeerState
<1>2. created' = created /\ topics' = topics /\ p \in Peer /\ p \in created
  BY DEF RemovePeerState, QueuesInv
<1>3. /\ DOMAIN inbox' = Peer
      /\ \A q \in Peer : inbox'[q] = IF q = p THEN Append(inbox[q], RemoveStart) ELSE inbox[q]
  BY <1>1 DEF Tell
<1>4. ASSUME NEW q \in Peer \ stopped PROVE Orderly(q)'
  <2>1. Orderly(q)
    BY DEF QueuesInv
  <2>2. CASE q = p
    <3>1. inbox'[q] = Append(inbox[q], RemoveStart) /\ Quiet(inbox[q])
      BY <1>1, <1>3, <2>1, <2>2 DEF Orderly
    <3>2. Append(inbox[q], RemoveStart) \in Seq(Message) /\ Over(Append(inbox[q], RemoveStart))
      BY <2>1, <3>1, MessageFacts, QueueAppend DEF Orderly
    <3>3. QED BY <1>1, <1>2, <2>2, <3>1, <3>2 DEF Orderly
  <2>3. CASE q # p
    BY <1>1, <1>2, <1>3, <2>1, <2>3 DEF Orderly
  <2>4. QED BY <2>2, <2>3
<1>5. QED BY <1>1, <1>2, <1>3, <1>4 DEF QueuesInv

\* A peak posts to Ready peers only.
LEMMA QueuesPeak ==
  ASSUME QueuesInv, PeakRandTopicState, stopped' = stopped
  PROVE  QueuesInv'
<1>1. PICK t \in topics, n \in [GetReadyPeers -> 0..PeakTopicPeers] :
        inbox' = [p \in Peer |->
          IF p \in GetReadyPeers THEN inbox[p] \o [i \in 1..n[p] |-> Join(t)] ELSE inbox[p]]
  BY DEF PeakRandTopicState
<1>2. /\ t \in Topic /\ UNCHANGED <<peers, created, topics>> /\ GetReadyPeers \subseteq peers
  BY DEF QueuesInv, PeakRandTopicState, peerVars, GetReadyPeers
<1>3. \A p \in GetReadyPeers : n[p] \in Nat
  BY <1>1, SizesNat
<1>4. /\ DOMAIN inbox' = Peer
      /\ \A p \in Peer : inbox'[p] = IF p \in GetReadyPeers
                                    THEN inbox[p] \o [i \in 1..n[p] |-> Join(t)] ELSE inbox[p]
  BY <1>1
<1>5. ASSUME NEW p \in Peer \ stopped PROVE Orderly(p)'
  <2>1. Orderly(p)
    BY DEF QueuesInv
  <2>2. CASE p \in GetReadyPeers
    <3>1. inbox'[p] = inbox[p] \o [i \in 1..n[p] |-> Join(t)] /\ Quiet(inbox[p])
      BY <1>2, <1>4, <2>1, <2>2 DEF Orderly
    <3>2. inbox'[p] \in Seq(Message) /\ Quiet(inbox'[p])
      BY <1>2, <1>3, <2>1, <2>2, <3>1, QueueRepeat DEF Orderly
    <3>3. Over(inbox'[p])
      BY <3>2, QuietOver
    <3>4. QED BY <3>2, <3>3 DEF Orderly
  <2>3. CASE p \notin GetReadyPeers
    BY <1>2, <1>4, <2>1, <2>3 DEF Orderly
  <2>4. QED BY <2>2, <2>3
<1>6. QED BY <1>2, <1>4, <1>5 DEF QueuesInv

\* Every handler of the simulator leaves the queues orderly.
LEMMA QueuesSimStep ==
  ASSUME QueuesInv, SimStep
  PROVE  QueuesInv'
<1>1. stopped' = stopped /\ (Boot \/ Handler \/ PeerReady)
  BY DEF SimStep
<1>2. ASSUME NEW t \in Topic, NEW C \in SUBSET Peer, CreateTopic(t, C) PROVE QueuesInv'
  <2>1. /\ UNCHANGED <<peers, created>> /\ topics' \subseteq Topic /\ C \in SUBSET peers
        /\ Tell(C, Join(t))
    BY <1>2 DEF CreateTopic, EnterTopic, QueuesInv, peerVars, Room, GetReadyPeers
  <2>2. QED BY <1>1, <2>1, QueuesTold
<1>3. ASSUME NEW q \in GetReadyPeers, NEW t \in Topic, EnterTopic({q}, t), UNCHANGED <<peerVars, topics>>
      PROVE  QueuesInv'
  <2>1. /\ UNCHANGED <<peers, created>> /\ topics' \subseteq Topic /\ {q} \in SUBSET peers
        /\ Tell({q}, Join(t))
    BY <1>3 DEF EnterTopic, QueuesInv, peerVars, GetReadyPeers
  <2>2. QED BY <1>1, <2>1, QueuesTold
<1>4. ASSUME UNCHANGED <<peers, created, topics, inbox>> PROVE QueuesInv'
  BY <1>1, <1>4 DEF QueuesInv, Orderly
<1>5. CASE BootAddPeer \/ AddPeerState
  BY <1>1, <1>5, QueuesCreate DEF BootAddPeer, AddPeerState
<1>6. CASE BootAddTopic \/ AddTopicState
  BY <1>2, <1>6 DEF BootAddTopic, AddTopicState
<1>7. CASE BootPeersDone \/ BootAddTopicEnter \/ BootAddTopicDup \/ BootTopicsDone \/ GCState \/ PeerReady
  BY <1>4, <1>7 DEF BootPeersDone, BootAddTopicEnter, BootAddTopicDup, BootTopicsDone, GCState, PeerReady, peerVars
<1>8. CASE RemovePeerState
  BY <1>1, <1>8, QueuesRemove
<1>9. CASE RemoveTopicState
  <2>1. PICK t \in topics : topics' = topics \ {t} /\ Tell(GetTopicPeers(t), Leave(t))
    BY <1>9 DEF RemoveTopicState
  <2>2. /\ UNCHANGED <<peers, created>> /\ topics' \subseteq Topic /\ GetTopicPeers(t) \in SUBSET peers
        /\ t \in Topic
    BY <1>9, <2>1 DEF RemoveTopicState, QueuesInv, peerVars, GetReadyPeers, GetTopicPeers
  <2>3. QED BY <1>1, <2>1, <2>2, QueuesTold
<1>10. CASE AddRandomFriendState
  <2>1. PICK p \in GetReadyPeers, q \in GetReadyPeers :
          \E t \in TopicsOf(p) : IF ListsTopic(q, t) THEN UNCHANGED <<memberVars, inbox>>
                                                   ELSE EnterTopic({q}, t)
    BY <1>10 DEF AddRandomFriendState
  <2>2. PICK t \in TopicsOf(p) : IF ListsTopic(q, t) THEN UNCHANGED <<memberVars, inbox>>
                                                   ELSE EnterTopic({q}, t)
    BY <2>1
  <2>3. t \in Topic /\ UNCHANGED <<peerVars, topics>>
    BY <1>10 DEF TopicsOf, AddRandomFriendState
  <2>4. QED BY <1>3, <1>4, <2>2, <2>3 DEF peerVars
<1>11. CASE JoinRandomTopicState
  BY <1>3, <1>11 DEF JoinRandomTopicState, QueuesInv
<1>12. CASE JoinFriendsTopicState
  BY <1>3, <1>12 DEF JoinFriendsTopicState
<1>13. CASE PeakRandTopicState
  BY <1>1, <1>13, QueuesPeak
<1>14. QED
  BY <1>1, <1>5, <1>6, <1>7, <1>8, <1>9, <1>10, <1>11, <1>12, <1>13 DEF Boot, Handler

\* A peer that runs takes its oldest message and may queue one of its own.
LEMMA QueuesTaken ==
  ASSUME QueuesInv, NEW p \in Peer \ stopped, inbox[p] # <<>>, stopped' = stopped,
         UNCHANGED <<peers, created, topics>>,
         \/ Queue(p, Tail(inbox[p]))
         \/ \E t \in Topic : Queue(p, Append(Tail(inbox[p]), TopicLeft(t)))
  PROVE  QueuesInv' /\ \/ Posted'[p] = Posted[p]
                       \/ Posted[p] # <<>> /\ Posted'[p] = Tail(Posted[p])
<1> DEFINE s == inbox[p]
<1>1. PICK r : /\ Queue(p, r)
               /\ r = Tail(s) \/ \E t \in Topic : r = Append(Tail(s), TopicLeft(t))
  OBVIOUS
<1>2. inbox'[p] = r /\ (\A q \in Peer \ {p} : inbox'[q] = inbox[q]) /\ DOMAIN inbox' = Peer
  BY <1>1 DEF Queue, QueuesInv
<1>3. Orderly(p) /\ s \in Seq(Message)
  BY DEF QueuesInv, Orderly
<1>4. Posted[p] = FromSim(s) /\ Posted'[p] = FromSim(r)
  BY <1>2 DEF Posted
<1> HIDE DEF s
<1>5. /\ Tail(s) \in Seq(Message) /\ Over(Tail(s)) /\ (Quiet(s) => Quiet(Tail(s)))
      /\ s # <<>> /\ Head(s) \in Message
  BY <1>3, QueueTail DEF s, Orderly
<1>6. /\ r \in Seq(Message) /\ Over(r) /\ (Quiet(s) => Quiet(r))
      /\ FromSim(r) = FromSim(Tail(s))
  <2>1. CASE r = Tail(s)
    BY <1>5, <2>1
  <2>2. ASSUME NEW t \in Topic, r = Append(Tail(s), TopicLeft(t))
        PROVE  /\ r \in Seq(Message) /\ Over(r) /\ (Quiet(s) => Quiet(r))
               /\ FromSim(r) = FromSim(Tail(s))
    <3>1. TopicLeft(t) \in Message /\ TopicLeft(t) \notin Mutation /\ TopicLeft(t) # RemoveStart
      BY MessageFacts
    <3>2. r \in Seq(Message) /\ Over(r) /\ (Quiet(s) => Quiet(r))
      BY <1>5, <2>2, <3>1, QueueAppend
    <3>3. FromSim(r) = FromSim(Tail(s))
      BY <1>5, <2>2, <3>1, FromSimAppend
    <3>4. QED BY <3>2, <3>3
  <2>3. QED BY <1>1, <2>1, <2>2 DEF s
<1>7. ASSUME NEW q \in Peer \ stopped PROVE Orderly(q)'
  <2>1. CASE q = p
    BY <1>2, <1>3, <1>6, <2>1 DEF Orderly, s
  <2>2. CASE q # p
    BY <1>2, <1>7, <2>2 DEF Orderly, QueuesInv
  <2>3. QED BY <2>1, <2>2
<1>8. QueuesInv'
  BY <1>2, <1>7 DEF QueuesInv
<1>9. FromSim(Tail(s)) = FromSim(s) \/ (FromSim(s) # <<>> /\ FromSim(Tail(s)) = Tail(FromSim(s)))
  <2> DEFINE u == FromSim(Tail(s))
  <2>1. u \in Seq(Mutation)
    BY <1>5, FromSimTyped
  <2>2. FromSim(s) = IF Head(s) \in Mutation THEN <<Head(s)>> \o u ELSE u
    BY <1>3, <1>5, FromSimTail
  <2> HIDE DEF u
  <2>3. ASSUME Head(s) \in Mutation PROVE <<Head(s)>> \o u # <<>> /\ Tail(<<Head(s)>> \o u) = u
    <3> DEFINE a == <<Head(s)>> \o u
    <3>1. /\ a \in Seq(Mutation) /\ Len(a) = Len(u) + 1 /\ Len(u) \in Nat
          /\ \A i \in 1..Len(u) : a[i + 1] = u[i]
      BY <2>1, <2>3
    <3> HIDE DEF a
    <3>2. a # <<>>
      BY <3>1
    <3>3. Tail(a) \in Seq(Mutation) /\ Len(Tail(a)) = Len(u) /\ \A i \in 1..Len(u) : Tail(a)[i] = u[i]
      BY <3>1, <3>2
    <3>4. Tail(a) = u
      BY <2>1, <3>3, SeqEqual
    <3>5. QED BY <3>2, <3>4 DEF a
  <2>4. QED BY <2>2, <2>3 DEF u
<1>10. QED BY <1>4, <1>6, <1>8, <1>9

\* StartEnd: nothing the simulator posted is left behind the removal.
LEMMA QueuesEnd ==
  ASSUME QueuesInv, NEW p \in Peer, StartEnd(p)
  PROVE  QueuesInv' /\ Posted[p] # <<>> /\ Posted'[p] = Tail(Posted[p])
<1> DEFINE s == inbox[p]
<1>1. /\ p \notin stopped /\ s # <<>> /\ Head(s) = RemoveStart /\ stopped' = stopped \cup {p}
      /\ UNCHANGED <<peers, created, topics>>
  BY DEF StartEnd, Handles, RemoveStart, SimUnchanged, peerVars
<1>2. PICK r : Queue(p, r)
  BY DEF StartEnd
<1>3. (\A q \in Peer \ {p} : inbox'[q] = inbox[q]) /\ DOMAIN inbox' = Peer
  BY <1>2 DEF Queue, QueuesInv
<1>4. Orderly(p)
  BY <1>1 DEF QueuesInv
<1>5. s \in Seq(Message) /\ Over(s) /\ p \in created \ peers
  BY <1>1, <1>4, QueueTail DEF Orderly, QueuesInv
<1>6. QueuesInv'
  BY <1>1, <1>3, <1>5 DEF QueuesInv, Orderly
<1>7. Posted[p] = FromSim(s) /\ Posted'[p] = <<>>
  BY <1>1 DEF Posted
<1> HIDE DEF s
<1>8. FromSim(Tail(s)) = <<>>
  <2>1. Tail(s) \in Seq(Message) /\ \A i \in DOMAIN Tail(s) : Tail(s)[i] \notin Mutation
    BY <1>1, <1>5, QueueTail
  <2>2. QED BY <2>1, FromSimNone
<1>9. FromSim(s) = <<RemoveStart>> \o <<>>
  BY <1>1, <1>5, <1>8, MessageFacts, FromSimTail
<1>10. QED BY <1>6, <1>7, <1>9

\* The machine of one peer: every step is stuttering or PeerTakes to the simulator.
LEMMA QueuesPeerStep ==
  ASSUME QueuesInv, NEW p \in Peer, PeerHandles(p)
  PROVE  /\ QueuesInv'
         /\ \A q \in Peer \ {p} : Posted'[q] = Posted[q]
         /\ \/ Posted'[p] = Posted[p]
            \/ Posted[p] # <<>> /\ Posted'[p] = Tail(Posted[p])
<1>1. UNCHANGED <<bootVars, peerVars, topics, peersCount, memberVars, simFriends, removed>>
  BY DEF PeerHandles, JoiningTopicState, LeavingTopicState, TopicJoinedState, TopicLeftState,
     StartEnd, Cancelled, SimUnchanged
<1>2. \E r : Queue(p, r)
  BY DEF PeerHandles, JoiningTopicState, LeavingTopicState, CloseTopic, TopicJoinedState,
     TopicLeftState, StartEnd, Cancelled
<1>3. \A q \in Peer \ {p} : inbox'[q] = inbox[q] /\ (q \in stopped' <=> q \in stopped)
  BY <1>2 DEF Queue, QueuesInv, PeerHandles, JoiningTopicState, LeavingTopicState, TopicJoinedState,
     TopicLeftState, StartEnd, Cancelled
<1>4. \A q \in Peer \ {p} : Posted'[q] = Posted[q]
  BY <1>3 DEF Posted
<1>5. ASSUME NEW t \in Topic,
             \/ JoiningTopicState(p, t) \/ LeavingTopicState(p, t)
             \/ TopicJoinedState(p, t) \/ TopicLeftState(p, t)
      PROVE  QueuesInv' /\ \/ Posted'[p] = Posted[p]
                           \/ Posted[p] # <<>> /\ Posted'[p] = Tail(Posted[p])
  <2>1. p \notin stopped /\ inbox[p] # <<>> /\ stopped' = stopped
    BY <1>5 DEF JoiningTopicState, LeavingTopicState, TopicJoinedState, TopicLeftState, Handles
  <2>2. \/ Queue(p, Tail(inbox[p]))
        \/ \E u \in Topic : Queue(p, Append(Tail(inbox[p]), TopicLeft(u)))
    BY <1>5 DEF JoiningTopicState, LeavingTopicState, TopicJoinedState, TopicLeftState, CloseTopic
  <2>3. UNCHANGED <<peers, created, topics>>
    BY <1>1 DEF peerVars
  <2>4. QED BY <2>1, <2>2, <2>3, QueuesTaken
<1>6. CASE Cancelled(p)
  <2>1. stopped' = stopped /\ p \in stopped /\ UNCHANGED <<peers, created, topics>>
    BY <1>1, <1>6 DEF Cancelled, peerVars
  <2>2. Posted'[p] = Posted[p]
    BY <2>1 DEF Posted
  <2>3. DOMAIN inbox' = Peer
    BY <1>2 DEF Queue, QueuesInv
  <2>4. \A q \in Peer \ stopped : Orderly(q)'
    BY <1>3, <2>1 DEF Orderly, QueuesInv
  <2>5. QueuesInv'
    BY <2>1, <2>3, <2>4 DEF QueuesInv
  <2>6. QED BY <1>4, <2>2, <2>5
<1>7. CASE StartEnd(p)
  BY <1>4, <1>7, QueuesEnd
<1>8. QED BY <1>4, <1>5, <1>6, <1>7 DEF PeerHandles

\* Steps of goroutines queue nothing of the simulator's.
LEMMA QueuesGoroutine ==
  ASSUME QueuesInv, NEW p \in Peer, NEW t \in Topic, CallsPubsub(p, t) \/ Stores(p, t)
  PROVE  QueuesInv' /\ \A q \in Peer : Posted'[q] = Posted[q]
<1>1. UNCHANGED <<peers, created, topics, stopped>>
  BY DEF CallsPubsub, Stores, PubsubJoin, PubsubJoinFails, StoreSubscription, StoreFails,
     SimUnchanged, peerVars
<1>2. CASE inbox' = inbox
  BY <1>1, <1>2 DEF QueuesInv, Orderly, Posted
<1>3. CASE StoreSubscription(p, t)
  <2>1. Queue(p, Append(inbox[p], TopicJoined(t)))
    BY <1>3 DEF StoreSubscription
  <2>2. /\ inbox'[p] = Append(inbox[p], TopicJoined(t)) /\ DOMAIN inbox' = Peer
        /\ \A q \in Peer \ {p} : inbox'[q] = inbox[q]
    BY <2>1 DEF Queue, QueuesInv
  <2>3. /\ TopicJoined(t) \in Message /\ TopicJoined(t) \notin Mutation
        /\ TopicJoined(t) # RemoveStart
    BY MessageFacts
  <2>4. ASSUME NEW q \in Peer \ stopped PROVE Orderly(q)'
    <3>1. Orderly(q)
      BY DEF QueuesInv
    <3>2. CASE q = p
      <4>1. /\ Append(inbox[p], TopicJoined(t)) \in Seq(Message)
            /\ Over(Append(inbox[p], TopicJoined(t)))
            /\ Quiet(inbox[p]) => Quiet(Append(inbox[p], TopicJoined(t)))
        BY <2>3, <3>1, <3>2, QueueAppend DEF Orderly
      <4>2. QED BY <1>1, <2>2, <3>1, <3>2, <4>1 DEF Orderly
    <3>3. CASE q # p
      BY <1>1, <2>2, <3>1, <3>3 DEF Orderly
    <3>4. QED BY <3>2, <3>3
  <2>5. QueuesInv'
    BY <1>1, <2>2, <2>4 DEF QueuesInv
  <2>6. p \notin stopped => FromSim(inbox'[p]) = FromSim(inbox[p])
    BY <2>2, <2>3, FromSimAppend DEF QueuesInv, Orderly
  <2>7. \A q \in Peer : Posted'[q] = Posted[q]
    BY <1>1, <2>2, <2>6 DEF Posted
  <2>8. QED BY <2>5, <2>7
<1>4. QED
  BY <1>2, <1>3 DEF CallsPubsub, Stores, PubsubJoin, PubsubJoinFails, StoreFails

\* Reports post nothing.
LEMMA QueuesCount ==
  ASSUME QueuesInv, NEW t \in Topic, NEW d \in {-1, 1}, CountChange(t, d) \/ CountChangeLost(t, d)
  PROVE  QueuesInv' /\ \A q \in Peer : Posted'[q] = Posted[q]
<1>1. UNCHANGED <<peers, created, topics, inbox, stopped>>
  BY DEF CountChange, CountChangeLost, topicPeerChange, simVars, vars, peerVars
<1>2. QED BY <1>1 DEF QueuesInv, Orderly, Posted

\* QueuesInv is inductive.
LEMMA QueuesStep == QueuesInv /\ [PeersNext]_allVars => QueuesInv'
<1> SUFFICES ASSUME QueuesInv, [PeersNext]_allVars PROVE QueuesInv'
  OBVIOUS
<1>1. CASE UNCHANGED allVars
  BY <1>1 DEF QueuesInv, Orderly, allVars, sideVars, vars, peerVars
<1>2. QED
  BY <1>1, QueuesSimStep, QueuesPeerStep, QueuesGoroutine, QueuesCount DEF PeersNext

-----------------------------------------------------------------------------
(* SimPeers implements Sim: what it posted and the peer has not handled yet is the *)
(* simulator's view of a queue.                                                *)

\* The instance of Sim counts alike.
LEMMA SameCardinality == \A S : Abstract!Cardinality(S) = Cardinality(S)
BY DEF Cardinality, Abstract!Cardinality

\* What the handlers read is the same, as none of them reads a queue.
LEMMA SameReads ==
  /\ Abstract!GetReadyPeers = GetReadyPeers
  /\ \A f : Abstract!Total(f) = Total(f)
  /\ Abstract!Room = Room
  /\ \A p : Abstract!TopicsOf(p) = TopicsOf(p)
  /\ \A p, q : Abstract!IsFriend(p, q) = IsFriend(p, q)
  /\ \A p, t : Abstract!ListsTopic(p, t) = ListsTopic(p, t)
  /\ \A t : Abstract!GetTopicPeers(t) = GetTopicPeers(t)
  /\ \A p : Abstract!NumTopics(p) = NumTopics(p)
  /\ \A p : Abstract!NumFriends(p) = NumFriends(p)
<1>1. \A f : Abstract!Total(f) = Total(f)
  BY DEF Total, FoldFunction, FoldFunctionOnSet, MapThenFoldSet,
     Abstract!Total, Abstract!FoldFunction, Abstract!FoldFunctionOnSet, Abstract!MapThenFoldSet
<1>2. /\ \A p : Abstract!NumTopics(p) = NumTopics(p)
      /\ \A p : Abstract!NumFriends(p) = NumFriends(p)
  BY <1>1 DEF NumTopics, NumFriends, Abstract!NumTopics, Abstract!NumFriends
<1>3. Abstract!GetReadyPeers = GetReadyPeers
  BY DEF GetReadyPeers, Abstract!GetReadyPeers
<1>4. Abstract!Room = Room
  BY <1>2, <1>3 DEF Room, Abstract!Room
<1>5. \A p, t : Abstract!ListsTopic(p, t) = ListsTopic(p, t)
  BY DEF ListsTopic, Abstract!ListsTopic
<1>6. \A p, q : Abstract!IsFriend(p, q) = IsFriend(p, q)
  BY DEF IsFriend, Abstract!IsFriend
<1>7. \A p : Abstract!TopicsOf(p) = TopicsOf(p)
  BY <1>5 DEF TopicsOf, Abstract!TopicsOf
<1>8. \A t : Abstract!GetTopicPeers(t) = GetTopicPeers(t)
  BY <1>3, <1>5 DEF GetTopicPeers, Abstract!GetTopicPeers
<1>9. QED BY <1>1, <1>2, <1>3, <1>4, <1>5, <1>6, <1>7, <1>8

\* Posting to living peers looks the same to the simulator.
LEMMA MapTell ==
  ASSUME QueuesInv, stopped' = stopped, NEW P \in SUBSET peers, NEW m \in Mutation, Tell(P, m)
  PROVE  Abstract!Tell(P, m)
<1>1. ASSUME NEW p \in Peer
      PROVE  Posted'[p] = IF p \in P THEN Append(Posted[p], m) ELSE Posted[p]
  <2>1. inbox'[p] = IF p \in P THEN Append(inbox[p], m) ELSE inbox[p]
    BY DEF Tell
  <2>2. CASE p \in stopped
    BY <2>2 DEF Posted, QueuesInv
  <2>3. CASE p \notin stopped
    <3>1. inbox[p] \in Seq(Message) /\ m \in Message
      BY <2>3, MessageFacts DEF QueuesInv, Orderly
    <3>2. FromSim(Append(inbox[p], m)) = Append(FromSim(inbox[p]), m)
      BY <3>1, FromSimAppend
    <3>3. QED BY <2>1, <2>3, <3>2 DEF Posted
  <2>4. QED BY <2>2, <2>3
<1>2. Posted' = [p \in Peer |-> IF p \in P THEN Append(Posted[p], m) ELSE Posted[p]]
  BY <1>1 DEF Posted
<1>3. QED BY <1>2 DEF Abstract!Tell

\* A queue that is left alone is posted the same.
LEMMA MapSame ==
  ASSUME UNCHANGED <<inbox, stopped>>
  PROVE  Posted' = Posted
BY DEF Posted

\* EnterTopic of the composition is that of Sim.
LEMMA MapEnterTopic ==
  ASSUME QueuesInv, stopped' = stopped, NEW P \in SUBSET peers, NEW t \in Topic, EnterTopic(P, t)
  PROVE  Abstract!EnterTopic(P, t)
<1>1. Abstract!Tell(P, Join(t))
  BY MapTell, MessageFacts DEF EnterTopic
<1>2. QED BY <1>1 DEF EnterTopic, Abstract!EnterTopic, Join, Abstract!Join

\* So is the creation of a topic.
LEMMA MapCreateTopic ==
  ASSUME QueuesInv, stopped' = stopped, NEW t \in Topic, NEW C \in SUBSET Peer, CreateTopic(t, C)
  PROVE  Abstract!CreateTopic(t, C)
<1>1. C \in SUBSET peers /\ EnterTopic(C, t)
  BY DEF CreateTopic, Room, GetReadyPeers
<1>2. Abstract!EnterTopic(C, t)
  BY <1>1, MapEnterTopic
<1>3. Abstract!Room = Room /\ (\A p \in C : ~Abstract!ListsTopic(p, t))
  BY SameReads DEF CreateTopic
<1>4. UNCHANGED <<Abstract!peerVars, simFriends>>
  BY DEF CreateTopic, peerVars, Abstract!peerVars
<1>5. QED BY <1>2, <1>3, <1>4, SameCardinality DEF CreateTopic, Abstract!CreateTopic

\* The repeated joins of a peak map one by one.
LEMMA MapPeak ==
  ASSUME QueuesInv, stopped' = stopped, PeakRandTopicState
  PROVE  Abstract!PeakRandTopicState
<1>1. PICK t \in topics, n \in [GetReadyPeers -> 0..PeakTopicPeers] :
        /\ peersCount[t] < MaxPeersPerTopic
        /\ Total(n) = PeakTopicPeers
        /\ inbox' = [p \in Peer |->
             IF p \in GetReadyPeers THEN inbox[p] \o [i \in 1..n[p] |-> Join(t)] ELSE inbox[p]]
  BY DEF PeakRandTopicState
<1>2. t \in Topic /\ GetReadyPeers \subseteq peers /\ \A p \in GetReadyPeers : n[p] \in Nat
  BY <1>1, SizesNat DEF QueuesInv, GetReadyPeers
<1>3. ASSUME NEW p \in Peer
      PROVE  Posted'[p] = IF p \in GetReadyPeers THEN Posted[p] \o [i \in 1..n[p] |-> Join(t)]
                                                 ELSE Posted[p]
  <2>1. inbox'[p] = IF p \in GetReadyPeers THEN inbox[p] \o [i \in 1..n[p] |-> Join(t)] ELSE inbox[p]
    BY <1>1
  <2>2. CASE p \in stopped
    BY <1>2, <2>2 DEF Posted, QueuesInv
  <2>3. CASE p \notin stopped
    <3>1. inbox[p] \in Seq(Message) /\ Mutation \subseteq Message /\ Join(t) \in Mutation
      BY <1>2, <2>3, MessageFacts DEF QueuesInv, Orderly
    <3>2. p \in GetReadyPeers =>
            FromSim(inbox[p] \o [i \in 1..n[p] |-> Join(t)]) = FromSim(inbox[p]) \o [i \in 1..n[p] |-> Join(t)]
      BY <1>2, <3>1, FromSimRepeat
    <3>3. QED BY <2>1, <2>3, <3>2 DEF Posted
  <2>4. QED BY <2>2, <2>3
<1>4. Abstract!GetReadyPeers = GetReadyPeers /\ Abstract!Total(n) = PeakTopicPeers
  BY <1>1, SameReads
<1>5. \A p \in Peer : Posted'[p] = IF p \in Abstract!GetReadyPeers
                                  THEN Posted[p] \o [i \in 1..n[p] |-> Abstract!Join(t)] ELSE Posted[p]
  BY <1>3, <1>4 DEF Join, Abstract!Join
<1>6. Posted' = [p \in Peer |-> IF p \in Abstract!GetReadyPeers
                                THEN Posted[p] \o [i \in 1..n[p] |-> Abstract!Join(t)] ELSE Posted[p]]
  BY <1>5 DEF Posted
<1>7. n \in [Abstract!GetReadyPeers -> 0..PeakTopicPeers] /\ peersCount[t] < MaxPeersPerTopic
  BY <1>1, <1>4
<1>8. Cardinality(topics) >= PeakMinTopics /\ Cardinality(GetReadyPeers) >= 2 * PeakTopicPeers
  BY DEF PeakRandTopicState
<1>9. /\ Abstract!Cardinality(topics) >= PeakMinTopics
      /\ Abstract!Cardinality(Abstract!GetReadyPeers) >= 2 * PeakTopicPeers
  BY <1>4, <1>8, SameCardinality
<1>10. /\ Abstract!Booted
      /\ UNCHANGED <<Abstract!bootVars, Abstract!peerVars, topics, peersCount, Abstract!memberVars, simFriends>>
  BY DEF PeakRandTopicState, Abstract!Booted, Booted,
     bootVars, Abstract!bootVars, peerVars, Abstract!peerVars, memberVars, Abstract!memberVars
<1>11. QED BY <1>6, <1>4, <1>9, <1>10, <1>7 DEF Abstract!PeakRandTopicState

\* The two ways to add a peer.
LEMMA MapAddPeer ==
  ASSUME stopped' = stopped, BootAddPeer \/ AddPeerState
  PROVE  Abstract!BootAddPeer \/ Abstract!AddPeerState
<1>1. PICK p \in Peer : CreatePeer(p)
  BY DEF BootAddPeer, AddPeerState
<1>2. Posted' = Posted
  BY <1>1 DEF CreatePeer, Posted
<1>3. Abstract!CreatePeer(p)
  BY <1>1, <1>2, SameCardinality DEF CreatePeer, Abstract!CreatePeer, memberVars, Abstract!memberVars
<1>4. QED
  BY <1>3 DEF BootAddPeer, AddPeerState, Abstract!BootAddPeer, Abstract!AddPeerState,
     Booted, Abstract!Booted, bootVars, Abstract!bootVars

\* The two ways to add a topic.
LEMMA MapAddTopic ==
  ASSUME QueuesInv, stopped' = stopped, BootAddTopic \/ AddTopicState
  PROVE  Abstract!BootAddTopic \/ Abstract!AddTopicState
<1>1. PICK t \in Topic, C \in SUBSET Peer : CreateTopic(t, C)
  BY DEF BootAddTopic, AddTopicState
<1>2. Abstract!CreateTopic(t, C)
  BY <1>1, MapCreateTopic
<1>3. AddTopicEnter => Abstract!AddTopicEnter
  BY SameReads, SameCardinality DEF AddTopicEnter, Abstract!AddTopicEnter
<1>4. QED
  BY <1>2, <1>3 DEF BootAddTopic, AddTopicState, Abstract!BootAddTopic, Abstract!AddTopicState,
     Booted, Abstract!Booted, bootVars, Abstract!bootVars

\* Steps that post nothing.
LEMMA MapBoot ==
  ASSUME stopped' = stopped,
         BootPeersDone \/ BootAddTopicEnter \/ BootAddTopicDup \/ BootTopicsDone
  PROVE  \/ Abstract!BootPeersDone \/ Abstract!BootAddTopicEnter
         \/ Abstract!BootAddTopicDup \/ Abstract!BootTopicsDone
<1>1. /\ UNCHANGED <<peerVars, topics, peersCount, memberVars, simFriends>> /\ Posted' = Posted
      /\ UNCHANGED <<Abstract!peerVars, Abstract!memberVars>>
  BY DEF BootPeersDone, BootAddTopicEnter, BootAddTopicDup, BootTopicsDone, Posted,
     peerVars, Abstract!peerVars, memberVars, Abstract!memberVars
<1>2. AddTopicEnter = Abstract!AddTopicEnter
  BY SameReads, SameCardinality DEF AddTopicEnter, Abstract!AddTopicEnter
<1>3. CASE BootPeersDone
  BY <1>1, <1>3, SameCardinality DEF BootPeersDone, Abstract!BootPeersDone
<1>4. CASE BootAddTopicEnter
  BY <1>1, <1>2, <1>4 DEF BootAddTopicEnter, Abstract!BootAddTopicEnter
<1>5. CASE BootAddTopicDup
  BY <1>1, <1>5, SameCardinality DEF BootAddTopicDup, Abstract!BootAddTopicDup
<1>6. CASE BootTopicsDone
  BY <1>1, <1>6, SameCardinality DEF BootTopicsDone, Abstract!BootTopicsDone
<1>7. QED BY <1>3, <1>4, <1>5, <1>6

\* The removal is posted to a peer that is not stopped.
LEMMA MapRemovePeer ==
  ASSUME QueuesInv, stopped' = stopped, RemovePeerState
  PROVE  Abstract!RemovePeerState
<1>1. PICK p \in peers :
        /\ peers' = peers \ {p}
        /\ simFriends' = [q \in Peer |->
             IF q \in peers \ {p} /\ IsFriend(p, q)
             THEN [simFriends[q] EXCEPT ![p] = 0] ELSE simFriends[q]]
        /\ Tell({p}, RemoveStart)
  BY DEF RemovePeerState
<1>2. Abstract!Tell({p}, Abstract!RemoveStart)
  BY <1>1, MapTell, MessageFacts DEF RemoveStart, Abstract!RemoveStart
<1>3. simFriends' = [q \in Peer |->
             IF q \in peers \ {p} /\ Abstract!IsFriend(p, q)
             THEN [simFriends[q] EXCEPT ![p] = 0] ELSE simFriends[q]]
  BY <1>1 DEF IsFriend, Abstract!IsFriend
<1>4. /\ Abstract!Booted /\ Abstract!Cardinality(peers) > InitialPeers
      /\ UNCHANGED <<Abstract!bootVars, created, ready, topics, peersCount, Abstract!memberVars>>
  BY SameCardinality DEF RemovePeerState, Booted, Abstract!Booted, bootVars, Abstract!bootVars,
     memberVars, Abstract!memberVars
<1>5. QED BY <1>1, <1>2, <1>3, <1>4 DEF Abstract!RemovePeerState

\* The leaves go to Ready peers, which are not stopped.
LEMMA MapRemoveTopic ==
  ASSUME QueuesInv, stopped' = stopped, RemoveTopicState
  PROVE  Abstract!RemoveTopicState
<1>1. PICK t \in topics :
        /\ topics' = topics \ {t}
        /\ simTopics' = [p \in Peer |->
             IF p \in GetTopicPeers(t) THEN [simTopics[p] EXCEPT ![t] = @ - 1] ELSE simTopics[p]]
        /\ simTopicJoined' = [p \in Peer |->
             IF p \in GetTopicPeers(t) THEN simTopicJoined[p] \ {t} ELSE simTopicJoined[p]]
        /\ Tell(GetTopicPeers(t), Leave(t))
  BY DEF RemoveTopicState
<1>2. GetTopicPeers(t) \in SUBSET peers /\ t \in Topic
  BY DEF QueuesInv, GetReadyPeers, GetTopicPeers
<1>3. Abstract!Tell(GetTopicPeers(t), Abstract!Leave(t))
  BY <1>1, <1>2, MapTell, MessageFacts DEF Leave, Abstract!Leave
<1>4. Abstract!GetTopicPeers(t) = GetTopicPeers(t)
  BY SameReads
<1>5. /\ Abstract!Booted
      /\ UNCHANGED <<Abstract!bootVars, Abstract!peerVars, peersCount, simFriends>>
  BY DEF RemoveTopicState, Booted, Abstract!Booted, bootVars, Abstract!bootVars,
     peerVars, Abstract!peerVars
<1>6. QED BY <1>1, <1>3, <1>4, <1>5 DEF Abstract!RemoveTopicState

\* GC posts nothing.
LEMMA MapGC ==
  ASSUME stopped' = stopped, GCState
  PROVE  Abstract!GCState
<1>1. \A p, q : Abstract!KeepsFriend(p, q) = KeepsFriend(p, q)
  BY SameReads DEF KeepsFriend, Abstract!KeepsFriend, ShareTopic, Abstract!ShareTopic
<1>2. Posted' = Posted
  BY DEF GCState, Posted
<1>3. /\ Abstract!Booted
      /\ UNCHANGED <<Abstract!bootVars, Abstract!peerVars, topics, peersCount, Abstract!memberVars>>
  BY DEF GCState, Booted, Abstract!Booted, bootVars, Abstract!bootVars,
     peerVars, Abstract!peerVars, memberVars, Abstract!memberVars
<1>4. simFriends' = [p \in Peer |->
        IF p \in peers
        THEN [q \in Peer |-> IF Abstract!KeepsFriend(p, q) THEN simFriends[p][q] ELSE 0]
        ELSE simFriends[p]]
  BY <1>1 DEF GCState
<1>5. QED BY <1>2, <1>3, <1>4 DEF Abstract!GCState

\* The new friend joins a topic or has it already.
LEMMA MapAddRandomFriend ==
  ASSUME QueuesInv, stopped' = stopped, AddRandomFriendState
  PROVE  Abstract!AddRandomFriendState
<1>1. PICK p \in GetReadyPeers, q \in GetReadyPeers :
        /\ AddRandomFriendEnter(p, q)
        /\ simFriends' = BothAppend(p, q)
        /\ \E t \in TopicsOf(p) : IF ListsTopic(q, t) THEN UNCHANGED <<memberVars, inbox>>
                                                     ELSE EnterTopic({q}, t)
  BY DEF AddRandomFriendState
<1>2. PICK t \in TopicsOf(p) : IF ListsTopic(q, t) THEN UNCHANGED <<memberVars, inbox>>
                                                ELSE EnterTopic({q}, t)
  BY <1>1
<1>3. t \in Topic /\ {q} \in SUBSET peers
  BY DEF TopicsOf, GetReadyPeers
<1>4. p \in Abstract!GetReadyPeers /\ q \in Abstract!GetReadyPeers /\ t \in Abstract!TopicsOf(p)
  BY SameReads
<1>5. IF Abstract!ListsTopic(q, t) THEN UNCHANGED <<Abstract!memberVars, Posted>>
                                   ELSE Abstract!EnterTopic({q}, t)
  BY <1>2, <1>3, MapEnterTopic, MapSame, SameReads DEF memberVars, Abstract!memberVars
<1>6. Abstract!AddRandomFriendEnter(p, q)
  BY <1>1, SameReads DEF AddRandomFriendEnter, Abstract!AddRandomFriendEnter
<1>7. simFriends' = Abstract!BothAppend(p, q)
  BY <1>1 DEF BothAppend, Abstract!BothAppend
<1>8. /\ Abstract!Booted
      /\ UNCHANGED <<Abstract!bootVars, Abstract!peerVars, topics, peersCount>>
  BY DEF AddRandomFriendState, Booted, Abstract!Booted, bootVars, Abstract!bootVars,
     peerVars, Abstract!peerVars
<1>9. QED BY <1>4, <1>5, <1>6, <1>7, <1>8 DEF Abstract!AddRandomFriendState

\* The two handlers that join one peer to one topic.
LEMMA MapJoins ==
  ASSUME QueuesInv, stopped' = stopped, JoinRandomTopicState \/ JoinFriendsTopicState
  PROVE  Abstract!JoinRandomTopicState \/ Abstract!JoinFriendsTopicState
<1>1. /\ Abstract!Booted
      /\ UNCHANGED <<Abstract!bootVars, Abstract!peerVars, topics, peersCount, simFriends>>
  BY DEF JoinRandomTopicState, JoinFriendsTopicState, Booted, Abstract!Booted, bootVars,
     Abstract!bootVars, peerVars, Abstract!peerVars
<1>2. CASE JoinRandomTopicState
  <2>1. PICK p \in GetReadyPeers, t \in topics : JoinRandomTopicEnter(p, t) /\ EnterTopic({p}, t)
    BY <1>2 DEF JoinRandomTopicState
  <2>2. t \in Topic /\ {p} \in SUBSET peers
    BY DEF QueuesInv, GetReadyPeers
  <2>3. p \in Abstract!GetReadyPeers /\ Abstract!JoinRandomTopicEnter(p, t) /\ Abstract!EnterTopic({p}, t)
    BY <2>1, <2>2, MapEnterTopic, SameReads DEF JoinRandomTopicEnter, Abstract!JoinRandomTopicEnter
  <2>4. QED BY <1>1, <2>3 DEF Abstract!JoinRandomTopicState
<1>3. CASE JoinFriendsTopicState
  <2>1. PICK p \in GetReadyPeers, q \in Peer, t \in Topic :
          JoinFriendsTopicEnter(p, q, t) /\ EnterTopic({p}, t)
    BY <1>3 DEF JoinFriendsTopicState
  <2>2. {p} \in SUBSET peers
    BY DEF GetReadyPeers
  <2>3. p \in Abstract!GetReadyPeers /\ Abstract!JoinFriendsTopicEnter(p, q, t) /\ Abstract!EnterTopic({p}, t)
    BY <2>1, <2>2, MapEnterTopic, SameReads DEF JoinFriendsTopicEnter, Abstract!JoinFriendsTopicEnter
  <2>4. QED BY <1>1, <2>3 DEF Abstract!JoinFriendsTopicState
<1>4. QED BY <1>2, <1>3

\* A peer becomes Ready; the steps of the start that post nothing.
LEMMA MapReady ==
  ASSUME stopped' = stopped, PeerReady
  PROVE  Abstract!PeerReady
<1>1. Posted' = Posted
  BY DEF PeerReady, Posted
<1>2. QED
  BY <1>1 DEF PeerReady, Abstract!PeerReady, bootVars, Abstract!bootVars, memberVars, Abstract!memberVars

\* Every handler of the simulator is the handler of Sim.
LEMMA MapSimStep ==
  ASSUME QueuesInv, SimStep
  PROVE  Abstract!Boot \/ Abstract!Handler \/ Abstract!Environment
<1>1. stopped' = stopped /\ (Boot \/ Handler \/ PeerReady)
  BY DEF SimStep
<1>2. CASE Boot
  <2>1. \/ BootAddPeer \/ AddPeerState \/ BootAddTopic \/ AddTopicState
        \/ (BootPeersDone \/ BootAddTopicEnter \/ BootAddTopicDup \/ BootTopicsDone)
    BY <1>2 DEF Boot
  <2>2. \/ (Abstract!BootAddPeer \/ Abstract!AddPeerState)
        \/ (Abstract!BootAddTopic \/ Abstract!AddTopicState)
        \/ (\/ Abstract!BootPeersDone \/ Abstract!BootAddTopicEnter
            \/ Abstract!BootAddTopicDup \/ Abstract!BootTopicsDone)
    BY <1>1, <2>1, MapAddPeer, MapAddTopic, MapBoot
  <2>3. QED BY <2>2 DEF Abstract!Boot, Abstract!Handler
<1>3. CASE Handler
  <2>1. \/ AddPeerState \/ AddTopicState \/ RemovePeerState \/ RemoveTopicState
        \/ AddRandomFriendState \/ GCState \/ PeakRandTopicState
        \/ (JoinRandomTopicState \/ JoinFriendsTopicState)
    BY <1>3 DEF Handler
  <2>2. \/ (Abstract!BootAddPeer \/ Abstract!AddPeerState)
        \/ (Abstract!BootAddTopic \/ Abstract!AddTopicState)
        \/ Abstract!RemovePeerState \/ Abstract!RemoveTopicState \/ Abstract!AddRandomFriendState
        \/ Abstract!GCState \/ Abstract!PeakRandTopicState
        \/ (Abstract!JoinRandomTopicState \/ Abstract!JoinFriendsTopicState)
    BY <1>1, <2>1, MapAddPeer, MapAddTopic, MapRemovePeer, MapRemoveTopic, MapAddRandomFriend,
       MapGC, MapPeak, MapJoins
  <2>3. QED BY <2>2 DEF Abstract!Boot, Abstract!Handler
<1>4. CASE PeerReady
  BY <1>1, <1>4, MapReady DEF Abstract!Environment
<1>5. QED BY <1>1, <1>2, <1>3, <1>4

\* A queue of a peer that runs holds no more of the simulator's than it holds.
LEMMA BoundSimStep ==
  ASSUME QueuesInv, SimStep
  PROVE  Abstract!InboxBound'
<1>1. InboxBound' /\ QueuesInv'
  BY QueuesSimStep DEF SimStep
<1>2. ASSUME NEW p \in Peer PROVE Len(Posted'[p]) <= MaxInbox
  <2>1. CASE p \in stopped'
    <3>1. MaxInbox \in Nat
      BY SizesAssumption DEF Sizes
    <3>2. QED BY <2>1, <3>1 DEF Posted
  <2>2. CASE p \notin stopped'
    <3>1. inbox'[p] \in Seq(Message) /\ Len(inbox'[p]) <= MaxInbox
      BY <1>1, <2>2 DEF QueuesInv, Orderly, InboxBound
    <3>2. FromSim(inbox'[p]) \in Seq(Mutation) /\ Len(FromSim(inbox'[p])) <= Len(inbox'[p])
      BY <3>1, FromSimTyped
    <3>3. MaxInbox \in Nat
      BY SizesAssumption DEF Sizes
    <3>4. Posted'[p] = FromSim(inbox'[p])
      BY <2>2 DEF Posted
    <3>5. QED BY <3>1, <3>2, <3>3, <3>4
  <2>3. QED BY <2>1, <2>2
<1>3. QED BY <1>2 DEF Abstract!InboxBound

\* What is posted are the simulator's mutations.
LEMMA PostedTyped == QueuesInv => Posted \in [Peer -> Seq(Mutation)]
<1> SUFFICES ASSUME QueuesInv, NEW p \in Peer PROVE Posted[p] \in Seq(Mutation)
  BY DEF Posted
<1>1. CASE p \in stopped
  BY <1>1 DEF Posted
<1>2. CASE p \notin stopped
  BY <1>2, FromSimTyped DEF Posted, QueuesInv, Orderly
<1>3. QED BY <1>1, <1>2

\* A peer's handler takes a mutation of the simulator (PeerTakes) or stutters.
LEMMA MapPeerStep ==
  ASSUME QueuesInv, Abstract!InboxBound, NEW p \in Peer, PeerHandles(p)
  PROVE  [Abstract!Next]_(Abstract!vars) /\ Abstract!InboxBound'
<1>1. /\ \A q \in Peer \ {p} : Posted'[q] = Posted[q]
      /\ \/ Posted'[p] = Posted[p]
         \/ Posted[p] # <<>> /\ Posted'[p] = Tail(Posted[p])
  BY QueuesPeerStep
<1>2. UNCHANGED <<bootVars, peerVars, topics, peersCount, memberVars, simFriends>>
  BY DEF PeerHandles, JoiningTopicState, LeavingTopicState, TopicJoinedState, TopicLeftState,
     StartEnd, Cancelled, SimUnchanged
<1>3. UNCHANGED <<Abstract!bootVars, Abstract!peerVars, topics, peersCount, Abstract!memberVars, simFriends>>
  BY <1>2 DEF bootVars, Abstract!bootVars, peerVars, Abstract!peerVars, memberVars, Abstract!memberVars
<1>4. CASE Posted'[p] = Posted[p]
  <2>1. Posted' = Posted
    BY <1>1, <1>4 DEF Posted
  <2>2. QED BY <1>3, <2>1 DEF Abstract!vars, Abstract!InboxBound
<1>5. CASE Posted[p] # <<>> /\ Posted'[p] = Tail(Posted[p])
  <2>1. Posted' = [Posted EXCEPT ![p] = Tail(@)]
    <3>1. \A q \in Peer : Posted'[q] = [Posted EXCEPT ![p] = Tail(@)][q]
      BY <1>1, <1>5 DEF Posted
    <3>2. DOMAIN Posted' = Peer /\ DOMAIN Posted = Peer /\ Posted' = [q \in Peer |-> Posted'[q]]
      BY DEF Posted
    <3>3. QED BY <3>1, <3>2
  <2>2. Abstract!PeerTakes(p)
    BY <1>3, <1>5, <2>1 DEF Abstract!PeerTakes
  <2>3. Abstract!InboxBound'
    <3>1. \A q \in Peer : Posted[q] \in Seq(Mutation) /\ Len(Posted[q]) <= MaxInbox
      BY PostedTyped DEF Abstract!InboxBound
    <3>2. MaxInbox \in Nat
      BY SizesAssumption DEF Sizes
    <3>3. Len(Posted'[p]) <= MaxInbox
      BY <1>5, <3>1, <3>2
    <3>4. QED BY <1>1, <3>1, <3>3 DEF Abstract!InboxBound
  <2>4. QED BY <2>2, <2>3 DEF Abstract!Next, Abstract!Environment
<1>6. QED BY <1>1, <1>4, <1>5

\* Goroutines stutter, but for the change of a count.
LEMMA MapGoroutine ==
  ASSUME QueuesInv, Abstract!InboxBound, NEW p \in Peer, NEW t \in Topic,
         CallsPubsub(p, t) \/ Stores(p, t)
  PROVE  UNCHANGED Abstract!vars /\ Abstract!InboxBound'
<1>1. \A q \in Peer : Posted'[q] = Posted[q]
  BY QueuesGoroutine
<1>2. Posted' = Posted
  BY <1>1 DEF Posted
<1>3. UNCHANGED <<bootVars, peerVars, topics, peersCount, memberVars, simFriends>>
  BY DEF CallsPubsub, Stores, PubsubJoin, PubsubJoinFails, StoreSubscription, StoreFails, SimUnchanged
<1>4. UNCHANGED <<Abstract!bootVars, Abstract!peerVars, topics, peersCount, Abstract!memberVars, simFriends>>
  BY <1>3 DEF bootVars, Abstract!bootVars, peerVars, Abstract!peerVars, memberVars, Abstract!memberVars
<1>5. QED BY <1>2, <1>4 DEF Abstract!vars, Abstract!InboxBound

\* A report that arrives is topicPeerChange, or a stutter when its topic is gone.
LEMMA MapCount ==
  ASSUME QueuesInv, Abstract!InboxBound, NEW t \in Topic, NEW d \in {-1, 1},
         CountChange(t, d) \/ CountChangeLost(t, d)
  PROVE  [Abstract!Next]_(Abstract!vars) /\ Abstract!InboxBound'
<1>1. UNCHANGED <<inbox, stopped, bootVars, peerVars, topics, memberVars, simFriends>>
  BY DEF CountChange, CountChangeLost, topicPeerChange, simVars, vars
<1>2. Posted' = Posted /\ Abstract!InboxBound'
  BY <1>1 DEF Posted, Abstract!InboxBound
<1>3. UNCHANGED <<Abstract!bootVars, Abstract!peerVars, topics, Abstract!memberVars, simFriends>>
  BY <1>1 DEF bootVars, Abstract!bootVars, peerVars, Abstract!peerVars, memberVars, Abstract!memberVars
<1>4. CASE peersCount' = peersCount
  BY <1>2, <1>3, <1>4 DEF Abstract!vars
<1>5. CASE topicPeerChange(t, d)
  <2>1. Abstract!topicPeerChange(t, d)
    BY <1>2, <1>3, <1>5 DEF topicPeerChange, Abstract!topicPeerChange
  <2>2. QED BY <1>2, <2>1 DEF Abstract!Next, Abstract!Environment
<1>6. QED BY <1>2, <1>4, <1>5 DEF CountChange, CountChangeLost, simVars, vars

\* Initial states map to initial states.
LEMMA MapInit == PeersInit => QueuesInv /\ Abstract!InboxBound /\ Abstract!Init
<1> SUFFICES ASSUME PeersInit PROVE QueuesInv /\ Abstract!InboxBound /\ Abstract!Init
  OBVIOUS
<1>1. Posted = [p \in Peer |-> <<>>]
  BY FromSimEmpty DEF PeersInit, Init, Posted
<1>2. Abstract!Init
  BY <1>1 DEF PeersInit, Init, Abstract!Init
<1>3. MaxInbox \in Nat
  BY SizesAssumption DEF Sizes
<1>4. Abstract!InboxBound
  BY <1>1, <1>3 DEF Abstract!InboxBound
<1>5. QED BY <1>2, <1>4, QueuesInit

\* Every step maps to a step or a stutter.
LEMMA MapStep ==
  QueuesInv /\ Abstract!InboxBound /\ [PeersNext]_allVars
    => [Abstract!Next]_(Abstract!vars) /\ Abstract!InboxBound'
<1> SUFFICES ASSUME QueuesInv, Abstract!InboxBound, [PeersNext]_allVars
    PROVE  [Abstract!Next]_(Abstract!vars) /\ Abstract!InboxBound'
  OBVIOUS
<1>1. CASE SimStep
  BY <1>1, MapSimStep, BoundSimStep DEF Abstract!Next
<1>2. ASSUME NEW p \in Peer, PeerHandles(p)
      PROVE  [Abstract!Next]_(Abstract!vars) /\ Abstract!InboxBound'
  BY <1>2, MapPeerStep
<1>3. ASSUME NEW p \in Peer, NEW t \in Topic, CallsPubsub(p, t) \/ Stores(p, t)
      PROVE  [Abstract!Next]_(Abstract!vars) /\ Abstract!InboxBound'
  BY <1>3, MapGoroutine
<1>4. ASSUME NEW t \in Topic, NEW d \in {-1, 1}, CountChange(t, d) \/ CountChangeLost(t, d)
      PROVE  [Abstract!Next]_(Abstract!vars) /\ Abstract!InboxBound'
  BY <1>4, MapCount
<1>5. CASE UNCHANGED allVars
  <2>1. UNCHANGED Abstract!vars
    BY <1>5 DEF allVars, sideVars, vars, bootVars, peerVars, memberVars, Posted,
       Abstract!vars, Abstract!bootVars, Abstract!peerVars, Abstract!memberVars
  <2>2. Posted' = Posted
    BY <2>1 DEF Abstract!vars
  <2>3. QED BY <2>1, <2>2 DEF Abstract!InboxBound
<1>6. QED BY <1>1, <1>2, <1>3, <1>4, <1>5 DEF PeersNext

\* The simulator with the real peers is the simulator of Sim, whose peers are an
\* environment (ImplementsSim).
THEOREM PeersImplementSim == PeersSpec => ImplementsSim
<1>1. QueuesInv /\ Abstract!InboxBound /\ [PeersNext]_allVars
        => (QueuesInv /\ Abstract!InboxBound)'
  BY QueuesStep, MapStep
<1>2. QueuesInv /\ Abstract!InboxBound /\ [PeersNext]_allVars => [Abstract!Next]_(Abstract!vars)
  BY MapStep
<1>3. QED BY <1>1, <1>2, MapInit, PTL DEF PeersSpec, ImplementsSim, Abstract!Spec

-----------------------------------------------------------------------------
(* What is proved of Sim holds of SimPeers: the definitions of the two instances *)
(* of Sim, Abstract and that of its proofs, are the same.                       *)

OfSim == INSTANCE SimProofs WITH inbox <- Posted

\* The initial states of the two instances are the same.
LEMMA SameInit == Abstract!Init <=> OfSim!Init
  BY DEF Abstract!Init, OfSim!Init

\* As are the variables,
LEMMA SameVars == Abstract!vars = OfSim!vars
  BY DEF Abstract!vars, OfSim!vars, Abstract!bootVars, OfSim!bootVars, Abstract!peerVars,
     OfSim!peerVars, Abstract!memberVars, OfSim!memberVars

\* the start,
LEMMA SameBoot == Abstract!Boot <=> OfSim!Boot
  BY DEF Abstract!Boot, OfSim!Boot, Abstract!BootAddPeer, OfSim!BootAddPeer,
     Abstract!BootPeersDone, OfSim!BootPeersDone, Abstract!BootAddTopicEnter,
     OfSim!BootAddTopicEnter, Abstract!BootAddTopic, OfSim!BootAddTopic,
     Abstract!BootAddTopicDup, OfSim!BootAddTopicDup, Abstract!BootTopicsDone,
     OfSim!BootTopicsDone, Abstract!CreatePeer, OfSim!CreatePeer, Abstract!CreateTopic,
     OfSim!CreateTopic, Abstract!AddTopicEnter, OfSim!AddTopicEnter, Abstract!Booted,
     OfSim!Booted, Abstract!GetReadyPeers, OfSim!GetReadyPeers, Abstract!GetTopicPeers,
     OfSim!GetTopicPeers, Abstract!Room, OfSim!Room, Abstract!ListsTopic, OfSim!ListsTopic,
     Abstract!TopicsOf, OfSim!TopicsOf, Abstract!NumTopics, OfSim!NumTopics,
     Abstract!NumFriends, OfSim!NumFriends, Abstract!IsFriend, OfSim!IsFriend,
     Abstract!EnterTopic, OfSim!EnterTopic, Abstract!Tell, OfSim!Tell, Abstract!Join,
     OfSim!Join, Abstract!Leave, OfSim!Leave, Abstract!RemoveStart, OfSim!RemoveStart,
     Abstract!Cardinality, OfSim!Cardinality, Abstract!Total, OfSim!Total,
     Abstract!FoldFunction, OfSim!FoldFunction, Abstract!FoldFunctionOnSet,
     OfSim!FoldFunctionOnSet, Abstract!MapThenFoldSet, OfSim!MapThenFoldSet, Abstract!bootVars,
     OfSim!bootVars, Abstract!peerVars, OfSim!peerVars, Abstract!memberVars, OfSim!memberVars

\* the handlers,
LEMMA SameHandler == Abstract!Handler <=> OfSim!Handler
  BY DEF Abstract!Handler, OfSim!Handler, Abstract!BootAddPeer, OfSim!BootAddPeer,
     Abstract!BootPeersDone, OfSim!BootPeersDone, Abstract!BootAddTopicEnter,
     OfSim!BootAddTopicEnter, Abstract!BootAddTopic, OfSim!BootAddTopic,
     Abstract!BootAddTopicDup, OfSim!BootAddTopicDup, Abstract!BootTopicsDone,
     OfSim!BootTopicsDone, Abstract!CreatePeer, OfSim!CreatePeer, Abstract!CreateTopic,
     OfSim!CreateTopic, Abstract!AddTopicEnter, OfSim!AddTopicEnter, Abstract!Booted,
     OfSim!Booted, Abstract!AddPeerState, OfSim!AddPeerState, Abstract!RemovePeerState,
     OfSim!RemovePeerState, Abstract!AddTopicState, OfSim!AddTopicState,
     Abstract!RemoveTopicState, OfSim!RemoveTopicState, Abstract!AddRandomFriendState,
     OfSim!AddRandomFriendState, Abstract!GCState, OfSim!GCState,
     Abstract!JoinRandomTopicState, OfSim!JoinRandomTopicState, Abstract!JoinFriendsTopicState,
     OfSim!JoinFriendsTopicState, Abstract!PeakRandTopicState, OfSim!PeakRandTopicState,
     Abstract!AddRandomFriendEnter, OfSim!AddRandomFriendEnter, Abstract!BothAppend,
     OfSim!BothAppend, Abstract!KeepsFriend, OfSim!KeepsFriend, Abstract!ShareTopic,
     OfSim!ShareTopic, Abstract!JoinRandomTopicEnter, OfSim!JoinRandomTopicEnter,
     Abstract!JoinFriendsTopicEnter, OfSim!JoinFriendsTopicEnter, Abstract!GetReadyPeers,
     OfSim!GetReadyPeers, Abstract!GetTopicPeers, OfSim!GetTopicPeers, Abstract!Room,
     OfSim!Room, Abstract!ListsTopic, OfSim!ListsTopic, Abstract!TopicsOf, OfSim!TopicsOf,
     Abstract!NumTopics, OfSim!NumTopics, Abstract!NumFriends, OfSim!NumFriends,
     Abstract!IsFriend, OfSim!IsFriend, Abstract!EnterTopic, OfSim!EnterTopic, Abstract!Tell,
     OfSim!Tell, Abstract!Join, OfSim!Join, Abstract!Leave, OfSim!Leave, Abstract!RemoveStart,
     OfSim!RemoveStart, Abstract!Cardinality, OfSim!Cardinality, Abstract!Total, OfSim!Total,
     Abstract!FoldFunction, OfSim!FoldFunction, Abstract!FoldFunctionOnSet,
     OfSim!FoldFunctionOnSet, Abstract!MapThenFoldSet, OfSim!MapThenFoldSet, Abstract!bootVars,
     OfSim!bootVars, Abstract!peerVars, OfSim!peerVars, Abstract!memberVars, OfSim!memberVars

\* the environment,
LEMMA SameEnv == Abstract!Environment <=> OfSim!Environment
  BY DEF Abstract!Environment, OfSim!Environment, Abstract!PeerReady, OfSim!PeerReady,
     Abstract!PeerTakes, OfSim!PeerTakes, Abstract!topicPeerChange, OfSim!topicPeerChange,
     Abstract!Cardinality, OfSim!Cardinality, Abstract!Total, OfSim!Total,
     Abstract!FoldFunction, OfSim!FoldFunction, Abstract!FoldFunctionOnSet,
     OfSim!FoldFunctionOnSet, Abstract!MapThenFoldSet, OfSim!MapThenFoldSet, Abstract!bootVars,
     OfSim!bootVars, Abstract!peerVars, OfSim!peerVars, Abstract!memberVars, OfSim!memberVars

\* and so the steps.
LEMMA SameNext == [Abstract!Next]_(Abstract!vars) <=> [OfSim!Next]_(OfSim!vars)
BY SameVars, SameBoot, SameHandler, SameEnv DEF Abstract!Next, OfSim!Next, Abstract!InboxBound, OfSim!InboxBound, Abstract!vars, OfSim!vars, Abstract!bootVars, OfSim!bootVars, Abstract!peerVars, OfSim!peerVars, Abstract!memberVars, OfSim!memberVars

\* So are their specifications.
LEMMA SameSpec == Abstract!Spec => OfSim!Spec
BY SameInit, SameNext, PTL DEF Abstract!Spec, OfSim!Spec

\* The instance's assumptions are those of Sim.
LEMMA OfSimAssumptions == OfSim!SizesAssumption /\ OfSim!NamesAssumption
BY SizesAssumption, NamesAssumption DEF OfSim!SizesAssumption, OfSim!NamesAssumption,
   OfSim!Sizes, Sizes, OfSim!IsFiniteSet, IsFiniteSet

\* The invariant of SimProofs and the limits, of the instance.
LEMMA OfSimInv == PeersSpec => [](OfSim!SimInv /\ OfSim!LimitsHold)
<1>1. PeersSpec => OfSim!Spec
  BY PeersImplementSim, SameSpec DEF ImplementsSim
<1>2. OfSim!Spec => []OfSim!SimInv
  BY OfSimAssumptions, OfSim!Invariance
<1>3. OfSim!Spec => []OfSim!LimitsHold
  BY OfSimAssumptions, OfSim!WithinLimits
<1>4. QED BY <1>1, <1>2, <1>3, PTL

\* What they say in terms of this module.
LEMMA OfSimMeans ==
  OfSim!SimInv /\ OfSim!LimitsHold
    => /\ FriendshipsOK /\ MembershipsOK /\ LimitsHold
       /\ peersCount \in [Topic -> Int] /\ topics \subseteq Topic
<1>1. OfSim!FriendshipsOK <=> FriendshipsOK
  BY DEF FriendshipsOK, FriendshipsMutual, FriendsLive, IsFriend,
     OfSim!FriendshipsOK, OfSim!FriendshipsMutual, OfSim!FriendsLive, OfSim!IsFriend
<1>2. OfSim!MembershipsOK <=> MembershipsOK
  BY DEF MembershipsOK, ListsTopic, OfSim!MembershipsOK, OfSim!ListsTopic
<1>3. OfSim!LimitsHold <=> LimitsHold
  BY DEF LimitsHold, PopulationLimits, FriendLimit, NumFriends, Total, FoldFunction,
     FoldFunctionOnSet, MapThenFoldSet, Cardinality,
     OfSim!LimitsHold, OfSim!PopulationLimits, OfSim!FriendLimit, OfSim!NumFriends, OfSim!Total,
     OfSim!FoldFunction, OfSim!FoldFunctionOnSet, OfSim!MapThenFoldSet, OfSim!Cardinality
<1>4. QED BY <1>1, <1>2, <1>3 DEF OfSim!SimInv, OfSim!TypeOK

\* What SimProofs proves of the simulator holds with the real peers, whose goroutines
\* interleave with its handlers: friendships, memberships and limits (FriendshipsOK,
\* MembershipsOK, LimitsHold).
THEOREM PeersKeepSim == PeersSpec => [](FriendshipsOK /\ MembershipsOK /\ LimitsHold)
BY OfSimInv, OfSimMeans, PTL

-----------------------------------------------------------------------------
(* How often a message waits in a queue, and how the counts are conserved. *)

\* How often a message waits in a queue.
Times(s, m) == Cardinality({i \in DOMAIN s : s[i] = m})

\* One message more.
LEMMA TimesAppend ==
  ASSUME NEW s \in Seq(Message), NEW x \in Message, NEW m
  PROVE  /\ Times(s, m) \in Nat
         /\ Times(Append(s, x), m) = Times(s, m) + IF x = m THEN 1 ELSE 0
<1> DEFINE n == Len(s)
           A == {i \in DOMAIN s : s[i] = m}
           B == {i \in DOMAIN Append(s, x) : Append(s, x)[i] = m}
<1>1. /\ n \in Nat /\ DOMAIN s = 1..n /\ DOMAIN Append(s, x) = 1..(n + 1)
      /\ Append(s, x)[n + 1] = x /\ \A i \in 1..n : Append(s, x)[i] = s[i]
  OBVIOUS
<1>2. IsFiniteSet(1..n)
  BY <1>1, FS_Interval
<1>3. IsFiniteSet(A) /\ Cardinality(A) \in Nat
  <2>1. A \subseteq 1..n
    BY <1>1
  <2>2. QED BY <1>2, <2>1, FS_Subset, FS_CardinalityType
<1>4. \A i \in 1..(n + 1) : i \in 1..n \/ i = n + 1
  BY <1>1
<1>5. n + 1 \notin A /\ 1..n \subseteq 1..(n + 1) /\ n + 1 \in 1..(n + 1)
  BY <1>1
<1>6. CASE x = m
  <2>1. B = A \cup {n + 1}
    BY <1>1, <1>4, <1>5, <1>6
  <2>2. Cardinality(A \cup {n + 1}) = Cardinality(A) + 1
    BY <1>3, <1>5, FS_AddElement
  <2>3. QED BY <1>3, <1>6, <2>1, <2>2 DEF Times
<1>7. CASE x # m
  <2>1. B = A
    BY <1>1, <1>4, <1>5, <1>7
  <2>2. Times(s, m) = Cardinality(A) /\ Times(Append(s, x), m) = Cardinality(B)
    BY DEF Times
  <2> HIDE DEF A, B
  <2>3. QED BY <1>3, <1>7, <2>1, <2>2
<1>8. QED BY <1>6, <1>7

\* The oldest message less.
LEMMA TimesTail ==
  ASSUME NEW s \in Seq(Message), s # <<>>, NEW m
  PROVE  /\ Times(Tail(s), m) \in Nat
         /\ Times(s, m) = Times(Tail(s), m) + IF Head(s) = m THEN 1 ELSE 0
<1> DEFINE n == Len(s) - 1
           A == {i \in DOMAIN s : s[i] = m}
           B == {i \in DOMAIN Tail(s) : Tail(s)[i] = m}
           C == A \ {1}
           f == [i \in B |-> i + 1]
<1>1. /\ n \in Nat /\ DOMAIN s = 1..(n + 1) /\ DOMAIN Tail(s) = 1..n /\ s[1] = Head(s)
      /\ \A i \in 1..n : Tail(s)[i] = s[i + 1]
  OBVIOUS
<1>2. IsFiniteSet(1..n)
  BY <1>1, FS_Interval
<1>3. IsFiniteSet(B) /\ Cardinality(B) \in Nat
  <2>1. B \subseteq 1..n
    BY <1>1
  <2>2. QED BY <1>2, <2>1, FS_Subset, FS_CardinalityType
<1>4. f \in Bijection(B, C)
  <2>1. f \in [B -> C]
    BY <1>1
  <2>2. \A i, j \in B : f[i] = f[j] => i = j
    BY <1>1
  <2>3. ASSUME NEW j \in C PROVE \E i \in B : f[i] = j
    <3>1. j - 1 \in 1..n /\ (j - 1) + 1 = j /\ s[j] = m
      BY <1>1
    <3>2. j - 1 \in B
      BY <1>1, <3>1
    <3>3. QED BY <3>1, <3>2
  <2> HIDE DEF f
  <2>4. QED BY <2>1, <2>2, <2>3 DEF Bijection, Injection, IsInjective, Surjection
<1>5. IsFiniteSet(C) /\ Cardinality(C) = Cardinality(B)
  <2>1. ExistsBijection(B, C)
    BY <1>4 DEF ExistsBijection
  <2>2. QED BY <1>3, <2>1, FS_Bijection
<1>6. 1 \in 1..(n + 1) /\ 1 \notin C
  BY <1>1
<1>7. CASE Head(s) = m
  <2>1. A = C \cup {1}
    BY <1>1, <1>6, <1>7
  <2>2. Cardinality(C \cup {1}) = Cardinality(C) + 1
    BY <1>5, <1>6, FS_AddElement
  <2>3. QED BY <1>3, <1>5, <1>7, <2>1, <2>2 DEF Times
<1>8. CASE Head(s) # m
  <2>1. A = C
    BY <1>1, <1>8
  <2>2. Times(s, m) = Cardinality(A) /\ Times(Tail(s), m) = Cardinality(B)
    BY DEF Times
  <2> HIDE DEF A, B, C
  <2>3. QED BY <1>3, <1>5, <1>8, <2>1, <2>2
<1>9. QED BY <1>7, <1>8

\* Other messages do not count.
LEMMA TimesRepeat ==
  ASSUME NEW s \in Seq(Message), NEW x \in Message, NEW k \in Nat, NEW m, x # m
  PROVE  Times(s \o [i \in 1..k |-> x], m) = Times(s, m)
<1> DEFINE a == [i \in 1..k |-> x]
           r == s \o a
<1>1. a \in Seq(Message) /\ Len(a) = k /\ \A i \in 1..k : a[i] = x
  OBVIOUS
<1> HIDE DEF a
<1>2. /\ Len(s) \in Nat /\ DOMAIN s = 1..Len(s)
      /\ DOMAIN r = 1..(Len(s) + k) /\ \A i \in 1..Len(s) : r[i] = s[i]
      /\ \A i \in (Len(s) + 1)..(Len(s) + k) : r[i] = a[i - Len(s)] /\ i - Len(s) \in 1..k
  BY <1>1
<1> HIDE DEF r
<1>3. \A i \in DOMAIN r : i \in 1..Len(s) \/ i \in (Len(s) + 1)..(Len(s) + k)
  BY <1>2
<1>4. DOMAIN s \subseteq DOMAIN r
  BY <1>2
<1>5. {i \in DOMAIN r : r[i] = m} = {i \in DOMAIN s : s[i] = m}
  BY <1>1, <1>2, <1>3, <1>4
<1>6. QED BY <1>5 DEF Times, r, a

\* A queue without a message about topic t.
Silent(s, t) == \A i \in DOMAIN s : s[i].topic # t

\* A message about another topic keeps a queue silent.
LEMMA SilentAppend ==
  ASSUME NEW s \in Seq(Message), NEW x \in Message, NEW t, Silent(s, t), x.topic # t
  PROVE  Silent(Append(s, x), t)
BY DEF Silent

\* So does taking the oldest, which is about another topic.
LEMMA SilentTail ==
  ASSUME NEW s \in Seq(Message), s # <<>>, NEW t, Silent(s, t)
  PROVE  Silent(Tail(s), t) /\ Head(s).topic # t
<1>1. /\ Len(s) \in Nat \ {0} /\ DOMAIN s = 1..Len(s) /\ DOMAIN Tail(s) = 1..(Len(s) - 1)
      /\ s[1] = Head(s) /\ \A i \in 1..(Len(s) - 1) : Tail(s)[i] = s[i + 1]
  OBVIOUS
<1>2. \A i \in 1..(Len(s) - 1) : i + 1 \in 1..Len(s)
  BY <1>1
<1>3. 1 \in 1..Len(s)
  BY <1>1
<1>4. QED BY <1>1, <1>2, <1>3 DEF Silent

\* And any number of messages about another topic.
LEMMA SilentRepeat ==
  ASSUME NEW s \in Seq(Message), NEW x \in Message, NEW k \in Nat, NEW t, Silent(s, t), x.topic # t
  PROVE  Silent(s \o [i \in 1..k |-> x], t)
<1> DEFINE a == [i \in 1..k |-> x]
           r == s \o a
<1>1. a \in Seq(Message) /\ Len(a) = k /\ \A i \in 1..k : a[i] = x
  OBVIOUS
<1> HIDE DEF a
<1>2. /\ Len(s) \in Nat /\ DOMAIN s = 1..Len(s)
      /\ DOMAIN r = 1..(Len(s) + k) /\ \A i \in 1..Len(s) : r[i] = s[i]
      /\ \A i \in (Len(s) + 1)..(Len(s) + k) : r[i] = a[i - Len(s)] /\ i - Len(s) \in 1..k
  BY <1>1
<1> HIDE DEF r
<1>3. \A i \in DOMAIN r : i \in 1..Len(s) \/ i \in (Len(s) + 1)..(Len(s) + k)
  BY <1>2
<1>4. QED BY <1>1, <1>2, <1>3 DEF Silent, r, a

\* A silent queue has no report about the topic.
LEMMA SilentTimes ==
  ASSUME NEW s, NEW t, Silent(s, t)
  PROVE  Times(s, TopicJoined(t)) = 0 /\ Times(s, TopicLeft(t)) = 0
<1>1. TopicJoined(t).topic = t /\ TopicLeft(t).topic = t
  BY DEF TopicJoined, TopicLeft
<1>2. {i \in DOMAIN s : s[i] = TopicJoined(t)} = {} /\ {i \in DOMAIN s : s[i] = TopicLeft(t)} = {}
  BY <1>1 DEF Silent
<1>3. QED BY <1>2, FS_EmptySet DEF Times

\* Which topic a message is about; a mutation is not a report.
LEMMA MessageTopics ==
  \A t \in Topic : /\ Join(t).topic = t /\ Leave(t).topic = t
                   /\ TopicJoined(t).topic = t /\ TopicLeft(t).topic = t
                   /\ Join(t) # TopicJoined(t) /\ Leave(t) # TopicJoined(t)
BY DEF Join, Leave, TopicJoined, TopicLeft

\* While no peer is removed.
Staying == created = peers /\ stopped = {}

\* What a handler may post to p, and about which topics.
Posts(p) ==
  \/ inbox'[p] = inbox[p]
  \/ \E t \in topics \cup topics' :
       \/ inbox'[p] = Append(inbox[p], Join(t)) \/ inbox'[p] = Append(inbox[p], Leave(t))
       \/ \E k \in Nat : inbox'[p] = inbox[p] \o [i \in 1..k |-> Join(t)]

\* What a handler does to topics and their counts.
Counts ==
  /\ \A t \in topics \cap topics' : peersCount'[t] = peersCount[t]
  /\ \A t \in topics' \ topics : peersCount'[t] = 0

\* Telling some peers to join or leave is a post.
LEMMA PostsTold ==
  ASSUME NEW P, NEW t \in topics \cup topics', Tell(P, Join(t)) \/ Tell(P, Leave(t))
  PROVE  \A p \in Peer : Posts(p)
BY DEF Tell, Posts

\* What the handlers post, and what they do to counts: a new topic counts 0.
LEMMA SimEffect ==
  ASSUME QueuesInv, MembershipsOK, peersCount \in [Topic -> Int], SimStep, ~RemovePeerState
  PROVE  Counts /\ \A p \in Peer : Posts(p)
<1>1. (Boot \/ Handler \/ PeerReady) /\ topics \subseteq Topic
  BY DEF SimStep, QueuesInv
<1>2. ASSUME NEW t \in Topic, NEW C \in SUBSET Peer, CreateTopic(t, C)
      PROVE  Counts /\ \A p \in Peer : Posts(p)
  <2>1. /\ t \in topics' /\ topics' = topics \cup {t} /\ peersCount' = [peersCount EXCEPT ![t] = 0]
        /\ Tell(C, Join(t)) /\ t \notin topics
    BY <1>2 DEF CreateTopic, EnterTopic
  <2>2. Counts
    BY <1>1, <2>1 DEF Counts
  <2>3. QED BY <2>1, <2>2, PostsTold
<1>3. ASSUME NEW q, NEW t \in topics, EnterTopic({q}, t), UNCHANGED <<topics, peersCount>>
      PROVE  Counts /\ \A p \in Peer : Posts(p)
  <2>1. Tell({q}, Join(t))
    BY <1>3 DEF EnterTopic
  <2>2. Counts
    BY <1>3 DEF Counts
  <2>3. QED BY <2>1, <2>2, PostsTold
<1>4. ASSUME UNCHANGED <<topics, peersCount, inbox>>
      PROVE  Counts /\ \A p \in Peer : Posts(p)
  BY <1>4 DEF Counts, Posts
<1>5. CASE BootAddPeer \/ AddPeerState
  BY <1>4, <1>5 DEF BootAddPeer, AddPeerState, CreatePeer
<1>6. CASE BootAddTopic \/ AddTopicState
  BY <1>2, <1>6 DEF BootAddTopic, AddTopicState
<1>7. CASE BootPeersDone \/ BootAddTopicEnter \/ BootAddTopicDup \/ BootTopicsDone \/ GCState \/ PeerReady
  BY <1>4, <1>7 DEF BootPeersDone, BootAddTopicEnter, BootAddTopicDup, BootTopicsDone, GCState, PeerReady
<1>8. CASE RemoveTopicState
  <2>1. PICK t \in topics : topics' = topics \ {t} /\ Tell(GetTopicPeers(t), Leave(t))
    BY <1>8 DEF RemoveTopicState
  <2>2. Counts
    BY <1>8, <2>1 DEF RemoveTopicState, Counts
  <2>3. QED BY <2>1, <2>2, PostsTold
<1>9. CASE AddRandomFriendState
  <2>1. PICK p \in GetReadyPeers, q \in GetReadyPeers :
          \E t \in TopicsOf(p) : IF ListsTopic(q, t) THEN UNCHANGED <<memberVars, inbox>>
                                                   ELSE EnterTopic({q}, t)
    BY <1>9 DEF AddRandomFriendState
  <2>2. PICK t \in TopicsOf(p) : IF ListsTopic(q, t) THEN UNCHANGED <<memberVars, inbox>>
                                                   ELSE EnterTopic({q}, t)
    BY <2>1
  <2>3. t \in topics /\ UNCHANGED <<topics, peersCount>>
    BY <1>9 DEF TopicsOf, AddRandomFriendState, MembershipsOK, GetReadyPeers
  <2>4. QED BY <1>3, <1>4, <2>2, <2>3
<1>10. CASE JoinRandomTopicState
  BY <1>3, <1>10 DEF JoinRandomTopicState
<1>11. CASE JoinFriendsTopicState
  <2>1. PICK p \in GetReadyPeers, q \in Peer, t \in Topic :
          JoinFriendsTopicEnter(p, q, t) /\ EnterTopic({p}, t)
    BY <1>11 DEF JoinFriendsTopicState
  <2>2. t \in topics /\ UNCHANGED <<topics, peersCount>>
    BY <1>11, <2>1 DEF JoinFriendsTopicState, JoinFriendsTopicEnter, MembershipsOK
  <2>3. QED BY <1>3, <2>1, <2>2
<1>12. CASE PeakRandTopicState
  <2>1. PICK t \in topics, n \in [GetReadyPeers -> 0..PeakTopicPeers] :
          inbox' = [p \in Peer |->
            IF p \in GetReadyPeers THEN inbox[p] \o [i \in 1..n[p] |-> Join(t)] ELSE inbox[p]]
    BY <1>12 DEF PeakRandTopicState
  <2>2. \A p \in GetReadyPeers : n[p] \in Nat
    BY <2>1, SizesNat
  <2>3. Counts
    BY <1>12 DEF PeakRandTopicState, Counts
  <2>4. ASSUME NEW p \in Peer PROVE Posts(p)
    BY <2>1, <2>2 DEF Posts
  <2>5. QED BY <2>3, <2>4
<1>13. QED
  BY <1>1, <1>5, <1>6, <1>7, <1>8, <1>9, <1>10, <1>11, <1>12 DEF Boot, Handler

\* With the limits as shipped no peer is ever removed: MaxPeers is below InitialPeers.
LEMMA NobodyLeaves ==
  ASSUME MaxPeers <= InitialPeers, QueuesInv, PopulationLimits, Staying
  PROVE  ~RemovePeerState /\ \A p \in Peer : Quiet(inbox[p]) /\ ~StartEnd(p) /\ ~Cancelled(p)
<1>1. IsFiniteSet(peers) /\ Cardinality(peers) \in Nat
  BY NamesAssumption, FS_Subset, FS_CardinalityType DEF QueuesInv
<1>2. ~RemovePeerState
  BY <1>1, SizesNat DEF RemovePeerState, PopulationLimits
<1>3. ASSUME NEW p \in Peer PROVE Quiet(inbox[p]) /\ ~StartEnd(p) /\ ~Cancelled(p)
  <2>1. Orderly(p) /\ Quiet(inbox[p]) /\ p \notin stopped
    BY DEF QueuesInv, Orderly, Staying
  <2>2. inbox[p] # <<>> => Head(inbox[p]) # RemoveStart
    BY <2>1, QueueTail DEF Orderly
  <2>3. QED BY <2>1, <2>2 DEF StartEnd, Handles, RemoveStart, Cancelled
<1>4. QED BY <1>2, <1>3

\* So nobody ever leaves.
LEMMA StayingStep ==
  ASSUME MaxPeers <= InitialPeers, QueuesInv, PopulationLimits, Staying, [PeersNext]_allVars
  PROVE  Staying'
<1>1. ~RemovePeerState /\ \A p \in Peer : Quiet(inbox[p]) /\ ~StartEnd(p) /\ ~Cancelled(p)
  BY NobodyLeaves
<1>2. CASE SimStep
  <2>1. ASSUME NEW p, CreatePeer(p) PROVE created' = peers'
    BY <2>1 DEF CreatePeer, Staying
  <2>2. ASSUME NEW t, NEW C, CreateTopic(t, C) PROVE created' = peers'
    BY <2>2 DEF CreateTopic, Staying, peerVars
  <2>3. created' = peers'
    BY <1>1, <1>2, <2>1, <2>2 DEF SimStep, Staying, Boot, Handler, BootAddPeer, AddPeerState, BootAddTopic,
       AddTopicState, BootPeersDone, BootAddTopicEnter, BootAddTopicDup, BootTopicsDone,
       RemoveTopicState, AddRandomFriendState, GCState, JoinRandomTopicState, JoinFriendsTopicState,
       PeakRandTopicState, PeerReady, peerVars
  <2>4. QED BY <1>2, <2>3 DEF SimStep, Staying
<1>3. ASSUME NEW p \in Peer, PeerHandles(p) PROVE Staying'
  BY <1>1, <1>3 DEF PeerHandles, JoiningTopicState, LeavingTopicState, TopicJoinedState,
     TopicLeftState, SimUnchanged, peerVars, Staying
<1>4. ASSUME NEW p \in Peer, NEW t \in Topic, CallsPubsub(p, t) \/ Stores(p, t) PROVE Staying'
  BY <1>4 DEF CallsPubsub, Stores, PubsubJoin, PubsubJoinFails, StoreSubscription, StoreFails,
     SimUnchanged, peerVars, Staying
<1>5. ASSUME NEW t \in Topic, NEW d \in {-1, 1}, CountChange(t, d) \/ CountChangeLost(t, d)
      PROVE  Staying'
  BY <1>5 DEF CountChange, CountChangeLost, topicPeerChange, simVars, vars, peerVars, Staying
<1>6. CASE UNCHANGED allVars
  BY <1>6 DEF allVars, sideVars, vars, peerVars, Staying
<1>7. QED BY <1>2, <1>3, <1>4, <1>5, <1>6 DEF PeersNext

\* Nothing was ever done about a topic.
Untouched(t) ==
  /\ \A p \in Peer : /\ attempts[p][t] = 0 /\ t \notin holding[p] /\ t \notin subs[p]
                     /\ Silent(inbox[p], t)
  /\ \A d \in {-1, 1} : changes[t][d] = 0

Net(s, t)   == Times(s, TopicJoined(t)) - Times(s, TopicLeft(t))
Balanced(t) == peersCount[t] + changes[t][1] - changes[t][-1] + Reports(t) = Cardinality(Subscribers(t))

CountsType ==
  /\ changes \in [Topic -> [{-1, 1} -> Int]]
  /\ attempts \in [Peer -> [Topic -> Int]]

\* What the other theorems give, in every state.
Settled ==
  /\ QueuesInv /\ HandlesInv /\ MembershipsOK /\ PopulationLimits /\ Staying
  /\ peersCount \in [Topic -> Int]

CountsInv ==
  /\ CountsType
  /\ \A t \in Topic \ (topics \cup removed) : Untouched(t)
  /\ \A t \in topics \ removed : Balanced(t)

\* The balance of a queue is a number.
LEMMA NetTyped ==
  ASSUME NEW s \in Seq(Message), NEW t \in Topic
  PROVE  Net(s, t) \in Int
<1>1. Times(s, TopicJoined(t)) \in Nat /\ Times(s, TopicLeft(t)) \in Nat
  BY MessageFacts, TimesAppend
<1>2. QED BY <1>1 DEF Net

\* While nobody leaves every queue is typed.
LEMMA InboxTyped == QueuesInv /\ Staying => \A p \in Peer : inbox[p] \in Seq(Message)
BY DEF QueuesInv, Orderly, Staying

\* Reports as a sum of the queues' balances.
LEMMA ReportsAre ==
  ASSUME \A p \in Peer : inbox[p] \in Seq(Message), NEW t \in Topic
  PROVE  /\ Reports(t) = Total([p \in Peer |-> Net(inbox[p], t)])
         /\ [p \in Peer |-> Net(inbox[p], t)] \in [Peer -> Int]
         /\ IsFiniteSet(Peer)
<1>1. \A p \in Peer : Net(inbox[p], t) \in Int
  BY NetTyped
<1>2. Reports(t) = Total([p \in Peer |-> Net(inbox[p], t)])
  BY DEF Reports, Waiting, Net, Times
<1>3. QED BY <1>1, <1>2, NamesAssumption

\* The reports under way when the queue of one peer changes.
LEMMA ReportsMove ==
  ASSUME \A q \in Peer : inbox[q] \in Seq(Message) /\ inbox'[q] \in Seq(Message),
         NEW p \in Peer, NEW t \in Topic,
         \A q \in Peer \ {p} : Net(inbox'[q], t) = Net(inbox[q], t)
  PROVE  /\ Reports(t)' = Reports(t) - Net(inbox[p], t) + Net(inbox'[p], t)
         /\ Reports(t) \in Int /\ Net(inbox[p], t) \in Int /\ Net(inbox'[p], t) \in Int
<1> DEFINE f == [q \in Peer |-> Net(inbox[q], t)]
           g == [q \in Peer |-> Net(inbox'[q], t)]
<1>1. Reports(t) = Total(f) /\ f \in [Peer -> Int] /\ IsFiniteSet(Peer)
  BY ReportsAre
<1>2. Reports(t)' = Total(g)
  BY DEF Reports, Waiting, Net, Times
<1>3. g \in [Peer -> Int]
  BY NetTyped
<1>4. (\A q \in Peer \ {p} : g[q] = f[q]) /\ f[p] = Net(inbox[p], t) /\ g[p] = Net(inbox'[p], t)
  OBVIOUS
<1> HIDE DEF f, g
<1>5. Total(g) = Total(f) - f[p] + g[p]
  <2> DEFINE D == Peer
  <2>1. IsFiniteSet(D) /\ f \in [D -> Int] /\ g \in [D -> Int] /\ p \in D
    BY <1>1, <1>3
  <2>2. \A x \in D \ {p} : g[x] = f[x]
    BY <1>4
  <2> HIDE DEF D
  <2>3. QED BY <2>1, <2>2, TotalUpdate, Zenon
<1>6. Total(f) \in Int
  BY <1>1, TotalInt
<1>7. f[p] \in Int /\ g[p] \in Int
  BY <1>1, <1>3
<1>8. QED BY <1>1, <1>2, <1>4, <1>5, <1>6, <1>7

\* Reports stay when every queue's balance does.
LEMMA ReportsSame ==
  ASSUME NEW t \in Topic, \A q \in Peer : Net(inbox'[q], t) = Net(inbox[q], t)
  PROVE  Reports(t)' = Reports(t)
<1>1. [q \in Peer |-> Net(inbox'[q], t)] = [q \in Peer |-> Net(inbox[q], t)]
  OBVIOUS
<1>2. /\ Reports(t) = Total([q \in Peer |-> Net(inbox[q], t)])
      /\ Reports(t)' = Total([q \in Peer |-> Net(inbox'[q], t)])
  BY DEF Reports, Waiting, Net, Times
<1>3. QED BY <1>1, <1>2

\* A topic nobody has heard of has no report and no subscriber.
LEMMA UntouchedBalanced ==
  ASSUME QueuesInv, Staying, NEW t \in Topic, Untouched(t)
  PROVE  Reports(t) = 0 /\ Cardinality(Subscribers(t)) = 0
<1> DEFINE f == [p \in Peer |-> Net(inbox[p], t)]
<1>1. Reports(t) = Total(f) /\ f \in [Peer -> Int] /\ IsFiniteSet(Peer)
  BY InboxTyped, ReportsAre
<1>2. \A p \in Peer : f[p] = 0
  BY SilentTimes DEF Net, Untouched
<1> HIDE DEF f
<1>3. Total(f) = 0
  BY <1>1, <1>2, TotalZero
<1>4. Subscribers(t) = {}
  BY DEF Subscribers, Untouched
<1>5. QED BY <1>1, <1>3, <1>4, FS_EmptySet

\* Both queues of a step are typed.
LEMMA TypedQueues ==
  ASSUME Settled, Settled'
  PROVE  \A p \in Peer : inbox[p] \in Seq(Message) /\ inbox'[p] \in Seq(Message)
BY DEF Settled, QueuesInv, Orderly, Staying

\* The subscribers are finitely many, before and after a step.
LEMMA SubscribersCounted ==
  ASSUME NEW t
  PROVE  /\ IsFiniteSet(Subscribers(t)) /\ Cardinality(Subscribers(t)) \in Nat
         /\ IsFiniteSet(Subscribers(t)') /\ Cardinality(Subscribers(t)') \in Nat
<1>1. Subscribers(t) \subseteq Peer /\ Subscribers(t)' \subseteq Peer
  BY DEF Subscribers
<1>2. QED BY <1>1, NamesAssumption, FS_Subset, FS_CardinalityType

\* The arithmetic of BalancedMoves.
LEMMA BalanceSum ==
  \A a, b, c, n, r, k, A, B, C, N, K \in Int :
    a + b - c + r = k /\ A + B - C + N - (a + b - c + n) = K - k
      => A + B - C + (r - n + N) = K
OBVIOUS

\* A step that changes what one peer queues keeps a topic balanced when it moves as
\* many reports as it moves subscribers.
LEMMA BalancedMoves ==
  ASSUME Settled, Settled', CountsType, CountsType', NEW p \in Peer, NEW t \in Topic, Balanced(t),
         \A q \in Peer \ {p} : inbox'[q] = inbox[q],
         peersCount'[t] + changes'[t][1] - changes'[t][-1] + Net(inbox'[p], t)
           - (peersCount[t] + changes[t][1] - changes[t][-1] + Net(inbox[p], t))
           = Cardinality(Subscribers(t)') - Cardinality(Subscribers(t))
  PROVE  Balanced(t)'
<1>1. /\ Reports(t)' = Reports(t) - Net(inbox[p], t) + Net(inbox'[p], t)
      /\ Reports(t) \in Int /\ Net(inbox[p], t) \in Int /\ Net(inbox'[p], t) \in Int
  BY TypedQueues, ReportsMove
<1>2. /\ peersCount[t] \in Int /\ peersCount'[t] \in Int
      /\ changes[t][1] \in Int /\ changes'[t][1] \in Int
      /\ changes[t][-1] \in Int /\ changes'[t][-1] \in Int
  BY DEF Settled, CountsType
<1>3. Cardinality(Subscribers(t)) \in Int /\ Cardinality(Subscribers(t)') \in Int
  BY SubscribersCounted
<1>4. peersCount[t] + changes[t][1] - changes[t][-1] + Reports(t) = Cardinality(Subscribers(t))
  BY DEF Balanced
<1> DEFINE a == peersCount[t]  b == changes[t][1]  c == changes[t][-1]  n == Net(inbox[p], t)
           A == peersCount'[t] B == changes'[t][1] C == changes'[t][-1] N == Net(inbox'[p], t)
           r == Reports(t) R == Reports(t)' k == Cardinality(Subscribers(t))
           K == Cardinality(Subscribers(t)')
<1>5. A + B - C + N - (a + b - c + n) = K - k
  OBVIOUS
<1>6. /\ a \in Int /\ b \in Int /\ c \in Int /\ n \in Int /\ r \in Int /\ k \in Int
      /\ A \in Int /\ B \in Int /\ C \in Int /\ N \in Int /\ K \in Int
      /\ R = r - n + N /\ a + b - c + r = k
  BY <1>1, <1>2, <1>3, <1>4
<1>7. A + B - C + R = K
  <2> HIDE DEF a, b, c, n, r, k, A, B, C, N, R, K
  <2>1. QED BY <1>5, <1>6, BalanceSum
<1>8. QED BY <1>7 DEF Balanced

\* A step that leaves queues, counts and subscriptions alone.
LEMMA BalancedSame ==
  ASSUME UNCHANGED <<peersCount, changes, inbox, subs>>, NEW t, Balanced(t)
  PROVE  Balanced(t)'
BY DEF Balanced, Reports, Waiting, Subscribers

\* What a handler posts moves no report, and is about the topics there are.
LEMMA NetPosts ==
  ASSUME NEW p \in Peer, inbox[p] \in Seq(Message), topics \cup topics' \subseteq Topic,
         Posts(p), NEW t \in Topic
  PROVE  /\ Net(inbox'[p], t) = Net(inbox[p], t)
         /\ Silent(inbox[p], t) /\ t \notin topics \cup topics' => Silent(inbox'[p], t)
<1> DEFINE s == inbox[p]  r == inbox'[p]
<1>1. CASE r = s
  BY <1>1
<1>2. ASSUME NEW u \in topics \cup topics', NEW m \in {Join(u), Leave(u)}, r = Append(s, m)
      PROVE  Net(r, t) = Net(s, t) /\ (Silent(s, t) /\ t # u => Silent(r, t))
  <2>1. m \in Message /\ m # TopicJoined(t) /\ m # TopicLeft(t) /\ m.topic = u
    BY <1>2, MessageFacts, MessageTopics
  <2>2. s \in Seq(Message)
    OBVIOUS
  <2> HIDE DEF s, r
  <2>3. Times(r, TopicJoined(t)) = Times(s, TopicJoined(t)) /\ Times(r, TopicLeft(t)) = Times(s, TopicLeft(t))
    BY <1>2, <2>1, <2>2, TimesAppend
  <2>4. Silent(s, t) /\ t # u => Silent(r, t)
    BY <1>2, <2>1, <2>2, SilentAppend
  <2>5. QED BY <2>3, <2>4 DEF Net
<1>3. ASSUME NEW u \in topics \cup topics', NEW k \in Nat, r = s \o [i \in 1..k |-> Join(u)]
      PROVE  Net(r, t) = Net(s, t) /\ (Silent(s, t) /\ t # u => Silent(r, t))
  <2>1. /\ Join(u) \in Message /\ Join(u) # TopicJoined(t) /\ Join(u) # TopicLeft(t)
        /\ Join(u).topic = u
    BY MessageFacts, MessageTopics
  <2>2. s \in Seq(Message)
    OBVIOUS
  <2> HIDE DEF s, r
  <2>3. Times(r, TopicJoined(t)) = Times(s, TopicJoined(t)) /\ Times(r, TopicLeft(t)) = Times(s, TopicLeft(t))
    BY <1>3, <2>1, <2>2, TimesRepeat
  <2>4. Silent(s, t) /\ t # u => Silent(r, t)
    BY <1>3, <2>1, <2>2, SilentRepeat
  <2>5. QED BY <2>3, <2>4 DEF Net
<1>4. (r = s) \/ \E u \in topics \cup topics' :
        \/ r = Append(s, Join(u)) \/ r = Append(s, Leave(u))
        \/ \E k \in Nat : r = s \o [i \in 1..k |-> Join(u)]
  BY DEF Posts
<1>5. QED BY <1>1, <1>2, <1>3, <1>4

\* At the start there are no topics, and none is touched.
LEMMA CountsInit == PeersInit => CountsInv
BY DEF PeersInit, Init, CountsInv, CountsType, Untouched, Silent

\* A handler of the simulator: a new topic counts 0, and nobody has heard of it.
LEMMA CountsSimStep ==
  ASSUME MaxPeers <= InitialPeers, Settled, Settled', CountsInv, SimStep
  PROVE  CountsInv'
<1>1. Counts /\ \A p \in Peer : Posts(p)
  BY NobodyLeaves, SimEffect DEF Settled
<1>2. /\ UNCHANGED <<attempts, holding, subs, changes>>
      /\ removed' = removed \cup (topics \ topics')
  BY DEF SimStep, joinVars
<1>3. CountsType'
  BY <1>2 DEF CountsInv, CountsType
<1>4. ASSUME NEW p \in Peer, NEW t \in Topic
      PROVE  /\ Net(inbox'[p], t) = Net(inbox[p], t)
             /\ Silent(inbox[p], t) /\ t \notin topics \cup topics' => Silent(inbox'[p], t)
  <2>1. inbox[p] \in Seq(Message) /\ topics \cup topics' \subseteq Topic
    BY TypedQueues DEF Settled, QueuesInv
  <2>2. QED BY <1>1, <2>1, NetPosts
<1>5. ASSUME NEW t \in Topic \ (topics' \cup removed') PROVE Untouched(t)'
  <2>1. t \notin topics \cup topics' /\ t \notin removed
    BY <1>2
  <2>2. Untouched(t)
    BY <2>1 DEF CountsInv
  <2>3. \A p \in Peer : Silent(inbox'[p], t)
    BY <1>4, <2>1, <2>2 DEF Untouched
  <2>4. QED BY <1>2, <2>2, <2>3 DEF Untouched
<1>6. ASSUME NEW t \in topics' \ removed' PROVE Balanced(t)'
  <2>1. t \in Topic /\ t \notin removed
    BY <1>2 DEF Settled, QueuesInv
  <2>2. Reports(t)' = Reports(t) /\ Subscribers(t)' = Subscribers(t) /\ changes' = changes
    BY <1>2, <1>4, <2>1, ReportsSame DEF Subscribers
  <2>3. CASE t \in topics
    BY <1>1, <2>1, <2>2, <2>3 DEF Counts, CountsInv, Balanced
  <2>4. CASE t \notin topics
    <3>1. Untouched(t) /\ peersCount'[t] = 0
      BY <1>1, <2>1, <2>4 DEF CountsInv, Counts
    <3>2. Reports(t) = 0 /\ Cardinality(Subscribers(t)) = 0
      BY <2>1, <3>1, UntouchedBalanced DEF Settled
    <3>3. changes[t][1] = 0 /\ changes[t][-1] = 0
      BY <3>1 DEF Untouched
    <3>4. QED BY <2>2, <3>1, <3>2, <3>3 DEF Balanced
  <2>5. QED BY <2>3, <2>4
<1>7. QED BY <1>3, <1>5, <1>6 DEF CountsInv

\* How the oldest message leaves the reports of a queue.
LEMMA NetTail ==
  ASSUME NEW s \in Seq(Message), s # <<>>, NEW t \in Topic
  PROVE  /\ Tail(s) \in Seq(Message) /\ Net(s, t) \in Int /\ Net(Tail(s), t) \in Int
         /\ Net(Tail(s), t) = Net(s, t) - (IF Head(s) = TopicJoined(t) THEN 1 ELSE 0)
                                        + (IF Head(s) = TopicLeft(t) THEN 1 ELSE 0)
<1>1. Tail(s) \in Seq(Message)
  OBVIOUS
<1> DEFINE a == Times(s, TopicJoined(t))  b == Times(s, TopicLeft(t))
           A == Times(Tail(s), TopicJoined(t)) B == Times(Tail(s), TopicLeft(t))
<1>2. /\ A \in Nat /\ a = A + IF Head(s) = TopicJoined(t) THEN 1 ELSE 0
      /\ B \in Nat /\ b = B + IF Head(s) = TopicLeft(t) THEN 1 ELSE 0
  BY TimesTail
<1>3. Net(s, t) = a - b /\ Net(Tail(s), t) = A - B
  BY DEF Net
<1> HIDE DEF a, b, A, B
<1>4. QED BY <1>1, <1>2, <1>3

\* How a new message leaves the balance of a queue.
LEMMA NetAppend ==
  ASSUME NEW s \in Seq(Message), NEW m \in Message, NEW t \in Topic
  PROVE  /\ Net(s, t) \in Int /\ Net(Append(s, m), t) \in Int
         /\ Net(Append(s, m), t) = Net(s, t) + (IF m = TopicJoined(t) THEN 1 ELSE 0)
                                             - (IF m = TopicLeft(t) THEN 1 ELSE 0)
<1> DEFINE a == Times(s, TopicJoined(t))  b == Times(s, TopicLeft(t))
           A == Times(Append(s, m), TopicJoined(t)) B == Times(Append(s, m), TopicLeft(t))
<1>1. /\ a \in Nat /\ A = a + IF m = TopicJoined(t) THEN 1 ELSE 0
      /\ b \in Nat /\ B = b + IF m = TopicLeft(t) THEN 1 ELSE 0
  BY TimesAppend
<1>2. Net(s, t) = a - b /\ Net(Append(s, m), t) = A - B
  BY DEF Net
<1> HIDE DEF a, b, A, B
<1>3. QED BY <1>1, <1>2

\* Reports tell topics and directions apart.
LEMMA ReportNames ==
  \A t, u : /\ TopicJoined(u) = TopicJoined(t) <=> u = t
            /\ TopicLeft(u) = TopicLeft(t) <=> u = t
            /\ TopicJoined(u) # TopicLeft(t)
BY DEF TopicJoined, TopicLeft

\* A step of one peer about topic u, which is none that is untouched, keeps the others so.
LEMMA UntouchedKept ==
  ASSUME Settled, Settled', CountsInv, NEW p \in Peer, NEW u \in Topic, ~Untouched(u),
         topics' = topics, removed' = removed,
         \A q \in Peer \ {p} : inbox'[q] = inbox[q],
         \A t \in Topic \ {u} : Silent(inbox[p], t) => Silent(inbox'[p], t),
         \A q \in Peer, t \in Topic \ {u} :
           /\ attempts'[q][t] = attempts[q][t]
           /\ (t \in holding'[q] => t \in holding[q]) /\ (t \in subs'[q] => t \in subs[q]),
         \A t \in Topic \ {u} : changes'[t] = changes[t]
  PROVE  \A t \in Topic \ (topics' \cup removed') : Untouched(t)'
<1> SUFFICES ASSUME NEW t \in Topic \ (topics \cup removed) PROVE Untouched(t)'
  OBVIOUS
<1>1. Untouched(t) /\ t # u
  BY DEF CountsInv
<1>2. QED BY <1>1 DEF Untouched

\* The machine of a peer takes its oldest message, which is about a topic that is touched.
LEMMA CountsPeerStep ==
  ASSUME MaxPeers <= InitialPeers, Settled, Settled', CountsInv, NEW p \in Peer, PeerHandles(p)
  PROVE  CountsInv'
<1> DEFINE s == inbox[p]
<1>1. PICK u \in Topic : \/ JoiningTopicState(p, u) \/ LeavingTopicState(p, u)
                         \/ TopicJoinedState(p, u) \/ TopicLeftState(p, u)
  BY NobodyLeaves DEF PeerHandles, Settled
<1>2. /\ s # <<>> /\ s \in Seq(Message) /\ Head(s).topic = u
      /\ topics' = topics /\ removed' = removed /\ peersCount' = peersCount
  BY <1>1, TypedQueues DEF JoiningTopicState, LeavingTopicState, TopicJoinedState, TopicLeftState,
     Handles, SimUnchanged
<1>3. PICK r : Queue(p, r) /\ (r = Tail(s) \/ r = Append(Tail(s), TopicLeft(u)))
  BY <1>1 DEF JoiningTopicState, LeavingTopicState, CloseTopic, TopicJoinedState, TopicLeftState
<1>4. (\A q \in Peer \ {p} : inbox'[q] = inbox[q]) /\ inbox'[p] = r
  BY <1>3 DEF Queue, Settled, QueuesInv
<1>5. Tail(s) \in Seq(Message) /\ TopicLeft(u) \in Message /\ TopicLeft(u).topic = u
  BY <1>2, MessageFacts, MessageTopics
<1>6. ASSUME NEW t, Silent(s, t) PROVE t # u /\ Silent(r, t)
  <2>1. Silent(Tail(s), t) /\ t # u
    BY <1>2, <1>6, SilentTail
  <2>2. QED BY <1>3, <1>5, <2>1, SilentAppend
<1>7. ~Untouched(u)
  BY <1>6 DEF Untouched
<1>8. /\ CountsType'
      /\ \A q \in Peer, t \in Topic \ {u} :
           /\ attempts'[q][t] = attempts[q][t]
           /\ (t \in holding'[q] => t \in holding[q]) /\ (t \in subs'[q] => t \in subs[q])
      /\ \A t \in Topic \ {u} : changes'[t] = changes[t]
  <2>1. CountsType /\ HandlesType
    BY DEF CountsInv, Settled, HandlesInv
  <2>2. CASE JoiningTopicState(p, u)
    BY <2>1, <2>2 DEF CountsType, JoiningTopicState
  <2>3. CASE LeavingTopicState(p, u)
    <3>1. UNCHANGED <<attempts, holding, changes>>
      BY <2>3 DEF LeavingTopicState
    <3>2. \A q \in Peer : subs'[q] \subseteq subs[q]
      BY <2>1, <2>3 DEF LeavingTopicState, CloseTopic, HandlesType
    <3>3. QED BY <2>1, <3>1, <3>2 DEF CountsType
  <2>4. ASSUME NEW d \in {-1, 1}, ReportChange(u, d), UNCHANGED <<attempts, holding, subs>>
        PROVE  /\ CountsType'
               /\ \A q \in Peer, t \in Topic \ {u} :
                    /\ attempts'[q][t] = attempts[q][t]
                    /\ (t \in holding'[q] => t \in holding[q])
                    /\ (t \in subs'[q] => t \in subs[q])
               /\ \A t \in Topic \ {u} : changes'[t] = changes[t]
    BY <2>1, <2>4 DEF CountsType, ReportChange
  <2>5. CASE TopicJoinedState(p, u)
    BY <2>4, <2>5 DEF TopicJoinedState, joinVars
  <2>6. CASE TopicLeftState(p, u)
    BY <2>4, <2>6 DEF TopicLeftState, joinVars
  <2>7. QED BY <1>1, <2>2, <2>3, <2>5, <2>6
<1>9. \A t \in Topic \ (topics' \cup removed') : Untouched(t)'
  BY <1>2, <1>4, <1>6, <1>7, <1>8, UntouchedKept
<1>10. ASSUME NEW t \in topics' \ removed' PROVE Balanced(t)'
  <2> DEFINE n == Net(inbox[p], t)  N == Net(inbox'[p], t)
             k == Cardinality(Subscribers(t))  K == Cardinality(Subscribers(t)')
             a == peersCount[t]  b == changes[t][1]  c == changes[t][-1]
             A == peersCount'[t] B == changes'[t][1] C == changes'[t][-1]
  <2>1. t \in Topic /\ Balanced(t)
    BY <1>2 DEF CountsInv, Settled, QueuesInv
  <2>2. /\ n \in Int /\ Net(Tail(s), t) \in Int
        /\ Net(Tail(s), t) = n - (IF Head(s) = TopicJoined(t) THEN 1 ELSE 0)
                               + (IF Head(s) = TopicLeft(t) THEN 1 ELSE 0)
    BY <1>2, <2>1, NetTail
  <2>3. a \in Int /\ b \in Int /\ c \in Int /\ k \in Int /\ A = a
    BY <1>2, <2>1, SubscribersCounted DEF Settled, CountsInv, CountsType
  <2>4. SUFFICES A + B - C + N - (a + b - c + n) = K - k
    BY <1>4, <1>8, <2>1, BalancedMoves DEF CountsInv
  <2>5. CASE JoiningTopicState(p, u)
    <3>1. Head(s) = Join(u) /\ r = Tail(s) /\ changes' = changes /\ subs' = subs
      BY <1>4, <2>5 DEF JoiningTopicState, Handles, Join, Queue, Settled, QueuesInv
    <3>2. N = n
      BY <1>4, <2>1, <2>2, <3>1 DEF Join, TopicJoined, TopicLeft
    <3>3. K = k /\ B = b /\ C = c
      BY <3>1 DEF Subscribers
    <3> HIDE DEF n, N, k, K, a, b, c, A, B, C
    <3>4. QED BY <2>2, <2>3, <3>2, <3>3
  <2>6. CASE LeavingTopicState(p, u) /\ u \in subs[p]
    <3>1. /\ Head(s) = Leave(u) /\ r = Append(Tail(s), TopicLeft(u))
          /\ changes' = changes /\ subs' = [subs EXCEPT ![p] = @ \ {u}]
      BY <1>4, <2>6 DEF LeavingTopicState, CloseTopic, Handles, Leave, Queue, Settled, QueuesInv
    <3>2. Net(Tail(s), t) = n
      BY <2>1, <2>2, <3>1 DEF Leave, TopicJoined, TopicLeft
    <3>3. N = n - (IF t = u THEN 1 ELSE 0)
      <4>1. /\ Net(r, t) = Net(Tail(s), t) + (IF TopicLeft(u) = TopicJoined(t) THEN 1 ELSE 0)
                                           - (IF TopicLeft(u) = TopicLeft(t) THEN 1 ELSE 0)
        BY <1>5, <2>1, <3>1, NetAppend
      <4>2. TopicLeft(u) # TopicJoined(t) /\ (TopicLeft(u) = TopicLeft(t) <=> u = t)
        BY ReportNames
      <4>3. QED BY <1>4, <2>2, <3>2, <4>1, <4>2
    <3>4. K = k - (IF t = u THEN 1 ELSE 0)
      <4>1. CASE t = u
        <5>1. Subscribers(t)' = Subscribers(t) \ {p} /\ p \in Subscribers(t)
          BY <2>6, <3>1, <4>1 DEF Subscribers, Settled, HandlesInv, HandlesType
        <5>2. QED BY <4>1, <5>1, SubscribersCounted, FS_RemoveElement
      <4>2. CASE t # u
        <5>1. Subscribers(t)' = Subscribers(t)
          BY <3>1, <4>2 DEF Subscribers, Settled, HandlesInv, HandlesType
        <5>2. QED BY <2>3, <4>2, <5>1
      <4>3. QED BY <4>1, <4>2
    <3>5. B = b /\ C = c
      BY <3>1
    <3> HIDE DEF n, N, k, K, a, b, c, A, B, C
    <3>6. QED BY <2>2, <2>3, <3>3, <3>4, <3>5
  <2>7. CASE LeavingTopicState(p, u) /\ u \notin subs[p]
    <3>1. Head(s) = Leave(u) /\ r = Tail(s) /\ changes' = changes /\ subs' = subs
      BY <1>4, <2>7 DEF LeavingTopicState, Handles, Leave, Queue, Settled, QueuesInv
    <3>2. N = n
      BY <1>4, <2>1, <2>2, <3>1 DEF Leave, TopicJoined, TopicLeft
    <3>3. K = k /\ B = b /\ C = c
      BY <3>1 DEF Subscribers
    <3> HIDE DEF n, N, k, K, a, b, c, A, B, C
    <3>4. QED BY <2>2, <2>3, <3>2, <3>3
  <2>8. CASE TopicJoinedState(p, u)
    <3>1. /\ Head(s) = TopicJoined(u) /\ r = Tail(s) /\ subs' = subs
          /\ changes' = [changes EXCEPT ![u][1] = @ + 1]
      BY <1>4, <2>8 DEF TopicJoinedState, ReportChange, Handles, TopicJoined, Queue, Settled, QueuesInv
    <3>2. N = n - (IF t = u THEN 1 ELSE 0)
      BY <1>4, <2>1, <2>2, <3>1, ReportNames
    <3>3. K = k /\ C = c /\ B = b + (IF t = u THEN 1 ELSE 0)
      BY <2>1, <2>3, <3>1 DEF Subscribers, CountsInv, CountsType
    <3> HIDE DEF n, N, k, K, a, b, c, A, B, C
    <3>4. QED BY <2>2, <2>3, <3>2, <3>3
  <2>9. CASE TopicLeftState(p, u)
    <3>1. /\ Head(s) = TopicLeft(u) /\ r = Tail(s) /\ subs' = subs
          /\ changes' = [changes EXCEPT ![u][-1] = @ + 1]
      BY <1>4, <2>9 DEF TopicLeftState, ReportChange, Handles, TopicLeft, Queue, Settled, QueuesInv
    <3>2. N = n + (IF t = u THEN 1 ELSE 0)
      BY <1>4, <2>1, <2>2, <3>1, ReportNames
    <3>3. K = k /\ B = b /\ C = c + (IF t = u THEN 1 ELSE 0)
      BY <2>1, <2>3, <3>1 DEF Subscribers, CountsInv, CountsType
    <3> HIDE DEF n, N, k, K, a, b, c, A, B, C
    <3>4. QED BY <2>2, <2>3, <3>2, <3>3
  <2>10. QED BY <1>1, <2>5, <2>6, <2>7, <2>8, <2>9
<1>11. QED BY <1>8, <1>9, <1>10 DEF CountsInv

\* A goroutine that joins: a stored subscription is a report more.
LEMMA CountsJoinStep ==
  ASSUME ~EvalTimeouts, Settled, Settled', CountsInv, NEW p \in Peer, NEW u \in Topic,
         CallsPubsub(p, u) \/ Stores(p, u)
  PROVE  CountsInv'
<1>1. PubsubJoin(p, u) \/ PubsubJoinFails(p, u) \/ StoreSubscription(p, u)
  BY DEF CallsPubsub, Stores, StoreFails, Settled, Staying
<1>2. CountsType /\ HandlesType /\ inbox[p] \in Seq(Message) /\ DOMAIN inbox = Peer
  BY TypedQueues DEF CountsInv, Settled, HandlesInv, QueuesInv
<1>3. topics' = topics /\ removed' = removed /\ peersCount' = peersCount /\ changes' = changes
  BY <1>1 DEF PubsubJoin, PubsubJoinFails, StoreSubscription, SimUnchanged
<1>4. ~Untouched(u)
  BY <1>1, <1>2 DEF CountsType, Untouched, PubsubJoin, PubsubJoinFails, StoreSubscription
<1>5. /\ CountsType'
      /\ \A q \in Peer \ {p} : inbox'[q] = inbox[q]
      /\ \A q \in Peer, t \in Topic \ {u} :
           /\ attempts'[q][t] = attempts[q][t]
           /\ (t \in holding'[q] => t \in holding[q]) /\ (t \in subs'[q] => t \in subs[q])
  <2>1. CASE PubsubJoin(p, u)
    BY <1>2, <1>3, <2>1 DEF CountsType, HandlesType, PubsubJoin
  <2>2. CASE PubsubJoinFails(p, u)
    BY <1>2, <1>3, <2>2 DEF CountsType, PubsubJoinFails
  <2>3. CASE StoreSubscription(p, u)
    BY <1>2, <1>3, <2>3 DEF CountsType, HandlesType, StoreSubscription, Queue
  <2>4. QED BY <1>1, <2>1, <2>2, <2>3
<1>6. inbox' = inbox \/ inbox'[p] = Append(inbox[p], TopicJoined(u))
  BY <1>1, <1>2 DEF PubsubJoin, PubsubJoinFails, StoreSubscription, Queue
<1>7. TopicJoined(u) \in Message /\ TopicJoined(u).topic = u
  BY MessageFacts, MessageTopics
<1>8. \A t \in Topic \ {u} : Silent(inbox[p], t) => Silent(inbox'[p], t)
  BY <1>2, <1>6, <1>7, SilentAppend
<1>9. \A t \in Topic \ (topics' \cup removed') : Untouched(t)'
  BY <1>3, <1>4, <1>5, <1>8, UntouchedKept
<1>10. ASSUME NEW t \in topics' \ removed' PROVE Balanced(t)'
  <2> DEFINE n == Net(inbox[p], t)  N == Net(inbox'[p], t)
             k == Cardinality(Subscribers(t))  K == Cardinality(Subscribers(t)')
             a == peersCount[t]  b == changes[t][1]  c == changes[t][-1]
             A == peersCount'[t] B == changes'[t][1] C == changes'[t][-1]
  <2>1. t \in Topic /\ Balanced(t)
    BY <1>3 DEF CountsInv, Settled, QueuesInv
  <2>2. CASE PubsubJoin(p, u) \/ PubsubJoinFails(p, u)
    BY <1>3, <2>1, <2>2, BalancedSame DEF PubsubJoin, PubsubJoinFails
  <2>3. CASE StoreSubscription(p, u)
    <3>1. A + B - C + N - (a + b - c + n) = K - k
      <4>1. a \in Int /\ b \in Int /\ c \in Int /\ k \in Int /\ A = a /\ B = b /\ C = c
        BY <1>2, <1>3, <2>1, SubscribersCounted DEF Settled, CountsType
      <4>2. n \in Int /\ N = n + IF t = u THEN 1 ELSE 0
        <5>1. inbox'[p] = Append(inbox[p], TopicJoined(u))
          BY <1>2, <2>3 DEF StoreSubscription, Queue
        <5>2. /\ n \in Int
              /\ N = n + (IF TopicJoined(u) = TopicJoined(t) THEN 1 ELSE 0)
                       - (IF TopicJoined(u) = TopicLeft(t) THEN 1 ELSE 0)
          BY <1>2, <1>7, <2>1, <5>1, NetAppend
        <5>3. (TopicJoined(u) = TopicJoined(t) <=> u = t) /\ TopicJoined(u) # TopicLeft(t)
          BY ReportNames
        <5> HIDE DEF n, N
        <5>4. QED BY <5>2, <5>3
      <4>3. u \notin subs[p] /\ subs' = [subs EXCEPT ![p] = @ \cup {u}]
        BY <2>3 DEF StoreSubscription, Settled, HandlesInv, HandlesOwned, Staying
      <4>4. K = k + IF t = u THEN 1 ELSE 0
        <5>1. CASE t = u
          <6>1. Subscribers(t)' = Subscribers(t) \cup {p} /\ p \notin Subscribers(t)
            BY <1>2, <4>3, <5>1 DEF Subscribers, HandlesType
          <6>2. QED BY <5>1, <6>1, SubscribersCounted, FS_AddElement
        <5>2. CASE t # u
          <6>1. Subscribers(t)' = Subscribers(t)
            BY <1>2, <4>3, <5>2 DEF Subscribers, HandlesType
          <6>2. QED BY <4>1, <5>2, <6>1
        <5>3. QED BY <5>1, <5>2
      <4> HIDE DEF n, N, k, K, a, b, c, A, B, C
      <4>5. QED BY <4>1, <4>2, <4>4
    <3>2. QED BY <1>2, <1>5, <2>1, <3>1, BalancedMoves
  <2>4. QED BY <1>1, <2>2, <2>3
<1>11. QED BY <1>5, <1>9, <1>10 DEF CountsInv

\* A report that arrives moves into the count of its topic.
LEMMA CountsCountStep ==
  ASSUME ~EvalTimeouts, Settled, Settled', CountsInv, NEW u \in Topic, NEW d \in {-1, 1},
         CountChange(u, d) \/ CountChangeLost(u, d)
  PROVE  CountsInv'
<1>1. /\ changes[u][d] > 0 /\ changes' = [changes EXCEPT ![u][d] = @ - 1]
      /\ UNCHANGED <<joinVars, subs, removed>>
      /\ IF u \in topics THEN topicPeerChange(u, d) ELSE UNCHANGED simVars
  BY DEF CountChange, CountChangeLost
<1>2. UNCHANGED <<topics, inbox, attempts, holding, subs, removed>>
  BY <1>1 DEF topicPeerChange, simVars, vars, joinVars
<1>3. CountsType /\ peersCount \in [Topic -> Int] /\ peersCount' \in [Topic -> Int]
  BY DEF CountsInv, Settled
<1>4. CountsType'
  BY <1>1, <1>2, <1>3 DEF CountsType
<1>5. ~Untouched(u)
  BY <1>1, <1>3 DEF Untouched, CountsType
<1>6. ASSUME NEW t \in Topic \ (topics' \cup removed') PROVE Untouched(t)'
  <2>1. Untouched(t) /\ t # u
    BY <1>2, <1>5 DEF CountsInv
  <2>2. changes'[t] = changes[t]
    BY <1>1, <2>1
  <2>3. QED BY <1>2, <2>1, <2>2 DEF Untouched
<1>7. ASSUME NEW t \in topics' \ removed' PROVE Balanced(t)'
  <2> DEFINE a == peersCount[t]  b == changes[t][1]  c == changes[t][-1]
             A == peersCount'[t] B == changes'[t][1] C == changes'[t][-1]
             r == Reports(t)  k == Cardinality(Subscribers(t))
  <2>1. t \in Topic /\ t \in topics /\ Balanced(t)
    BY <1>2 DEF CountsInv, Settled, QueuesInv
  <2>2. Reports(t)' = r /\ Subscribers(t)' = Subscribers(t)
    BY <1>2 DEF Reports, Waiting, Subscribers
  <2>3. r \in Int
    <3>1. /\ r = Total([p \in Peer |-> Net(inbox[p], t)])
          /\ [p \in Peer |-> Net(inbox[p], t)] \in [Peer -> Int] /\ IsFiniteSet(Peer)
      BY <2>1, TypedQueues, ReportsAre
    <3>2. QED BY <3>1, TotalInt
  <2>4. a \in Int /\ b \in Int /\ c \in Int /\ a + b - c + r = k
    BY <1>3, <2>1 DEF CountsType, Balanced
  <2>5. A + B - C = a + b - c
    <3>1. CASE t # u
      <4>1. A = a /\ B = b /\ C = c
        BY <1>1, <2>1, <1>3, <3>1 DEF topicPeerChange, simVars, vars, CountsType
      <4>2. QED BY <4>1
    <3>2. CASE t = u
      <4>1. A = a + d
        BY <1>1, <1>3, <2>1, <3>2 DEF topicPeerChange
      <4>2. d = 1 => B = b - 1 /\ C = c
        BY <1>1, <1>3, <3>2 DEF CountsType
      <4>3. d = -1 => B = b /\ C = c - 1
        BY <1>1, <1>3, <3>2 DEF CountsType
      <4> HIDE DEF a, b, c, A, B, C
      <4>4. QED BY <2>4, <4>1, <4>2, <4>3
    <3>3. QED BY <3>1, <3>2
  <2>6. A + B - C + r = k
    <3> HIDE DEF a, b, c, A, B, C, r, k
    <3>1. QED BY <2>4, <2>5
  <2>7. QED BY <2>2, <2>6 DEF Balanced
<1>8. QED BY <1>4, <1>6, <1>7 DEF CountsInv

\* CountsInv is inductive under Settled.
LEMMA CountsStep ==
  ASSUME ~EvalTimeouts, MaxPeers <= InitialPeers, Settled, Settled', CountsInv, [PeersNext]_allVars
  PROVE  CountsInv'
<1>1. CASE UNCHANGED allVars
  <2>1. UNCHANGED <<topics, removed, peersCount, changes, inbox, subs, attempts, holding>>
    BY <1>1 DEF allVars, sideVars, vars, joinVars
  <2>2. CountsType' /\ \A t \in Topic \ (topics' \cup removed') : Untouched(t)'
    BY <2>1 DEF CountsInv, CountsType, Untouched
  <2>3. \A t \in topics' \ removed' : Balanced(t)'
    BY <2>1, BalancedSame DEF CountsInv
  <2>4. QED BY <2>2, <2>3 DEF CountsInv
<1>2. ASSUME NEW p \in Peer, PeerHandles(p) PROVE CountsInv'
  BY <1>2, CountsPeerStep
<1>3. ASSUME NEW p \in Peer, NEW t \in Topic, CallsPubsub(p, t) \/ Stores(p, t) PROVE CountsInv'
  BY <1>3, CountsJoinStep
<1>4. ASSUME NEW t \in Topic, NEW d \in {-1, 1}, CountChange(t, d) \/ CountChangeLost(t, d)
      PROVE  CountsInv'
  BY <1>4, CountsCountStep
<1>5. QED BY <1>1, <1>2, <1>3, <1>4, CountsSimStep DEF PeersNext

\* While no peer is removed and Evals are served, a topic's count and the reports under
\* way make its number of subscribers (CountsConserved).  The limits as shipped remove no
\* peer: maxPeers is 30, below the initialPeers of 50 that RemovePeer must leave.
THEOREM CountsAddUp ==
  ASSUME ~EvalTimeouts, MaxPeers <= InitialPeers
  PROVE  PeersSpec => []CountsConserved
<1>1. PeersInit => QueuesInv /\ HandlesInv /\ Staying /\ CountsInv
  BY QueuesInit, HandlesInit, CountsInit DEF PeersInit, Init, Staying
<1>2. QueuesInv /\ [PeersNext]_allVars => QueuesInv'
  BY QueuesStep
<1>3. HandlesInv /\ [PeersNext]_allVars => HandlesInv'
  BY HandlesStep
<1>4. PeersSpec => [](MembershipsOK /\ PopulationLimits /\ peersCount \in [Topic -> Int])
  <2>1. OfSim!SimInv /\ OfSim!LimitsHold
          => MembershipsOK /\ PopulationLimits /\ peersCount \in [Topic -> Int]
    BY OfSimMeans DEF LimitsHold
  <2>2. QED BY <2>1, OfSimInv, PTL
<1>5. QueuesInv /\ PopulationLimits /\ Staying /\ [PeersNext]_allVars => Staying'
  BY StayingStep
<1>6. QueuesInv /\ HandlesInv /\ Staying /\ MembershipsOK /\ PopulationLimits
        /\ peersCount \in [Topic -> Int] => Settled
  BY DEF Settled
<1>7. Settled /\ Settled' /\ CountsInv /\ [PeersNext]_allVars => CountsInv'
  BY CountsStep
<1>8. CountsInv => CountsConserved
  BY DEF CountsInv, CountsConserved, Balanced
<1>9. PeersSpec => []Settled
  BY <1>1, <1>2, <1>3, <1>4, <1>5, <1>6, PTL DEF PeersSpec
<1>10. QED BY <1>1, <1>7, <1>8, <1>9, PTL DEF PeersSpec

=============================================================================
