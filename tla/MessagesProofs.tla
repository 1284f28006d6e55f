--------------------------- MODULE MessagesProofs ---------------------------
(***************************************************************************)
(* What the verification of messages may be relied on for, and the buffers *)
(* it reads, for every number of peers, topics and sends.                  *)
(***************************************************************************)
EXTENDS Messages, SequenceTheorems, TLAPS

Text    == [own : Peer] \cup [random : Send]
Loop    == [step : {"idle", "append", "cut"}, copy : Seq(Text)]
Asked   == [peer : Peer, topic : Topic]
Check   == Peer \X Id

SenderTypeOK ==
  /\ send \in [Send -> Asked \cup {NoSend}]
  /\ stage \in [Send -> {"none", "started", "asked", "waiting", "delayed", "ended"}]
  /\ work \in [Send -> {"none", "queued", "publishing", "sent", "ended"}]
  /\ published \in [Send -> 0..2]
  /\ queue \in Seq(Send \cup {0})
  /\ recv \subseteq Check /\ miss \subseteq Check

ReaderTypeOK ==
  /\ net \in [Peer -> [Topic -> SUBSET Id]]
  /\ loops \in [Peer -> [Topic -> Loop]]
  /\ msgs \in [Peer -> Seq(Text)]
  /\ delivered \in [Peer -> Seq(Id)]

\* The stages of the sender and of its author go together: MsgsSent stands for two
\* published messages, and a verification is asked for after MsgsSent.
StagesAgree ==
  \A n \in Send :
    /\ stage[n] # "none" => send[n] \in Asked
    /\ work[n] # "none" => stage[n] \notin {"none", "started"}
    /\ work[n] = "sent" => published[n] = 2
    /\ stage[n] = "delayed" => work[n] = "sent"
    /\ n \in ToSet(queue) => work[n] = "sent"
    /\ \A c \in recv \cup miss : c[2][1] = n => work[n] = "sent"

\* A message on its way, or read, is of a send that has begun: its text is settled.
Begun(id) == work[id[1]] # "none"
TextsSettled ==
  \A p \in Peer :
    /\ \A t \in Topic : \A id \in net[p][t] : Begun(id)
    /\ \A id \in ToSet(delivered[p]) : Begun(id)

\* A random message is nowhere but where it was read.
Random(n) == [random |-> n]
FreshFrom(s, p) == \A n \in Send : Random(n) \in ToSet(s) => <<n, 2>> \in ToSet(delivered[p])
FreshKept ==
  /\ \A p \in Peer : FreshFrom(msgs[p], p) /\ \A t \in Topic : FreshFrom(loops[p][t].copy, p)
  /\ FreshRecvMeansDelivered

MsgInv == /\ SenderTypeOK /\ ReaderTypeOK /\ StagesAgree
          /\ TextsSettled /\ FreshKept /\ BufferBounded

\* With one topic a peer has one read loop: what the loop holds, and what it has
\* written and not cut yet, end with the last messages read for the peer.
Texts(p) == [i \in DOMAIN delivered[p] |-> Content(delivered[p][i])]
OneLoop ==
  \A p \in Peer, t \in Topic :
    /\ loops[p][t].step = "idle"   => msgs[p] = LastMsgs(Texts(p))
    /\ loops[p][t].step = "append" => LastMsgs(loops[p][t].copy) = LastMsgs(Texts(p))
    /\ loops[p][t].step = "cut"    => LastMsgs(msgs[p]) = LastMsgs(Texts(p))

-----------------------------------------------------------------------------
(* Sequences, and the cut *)

\* What the sizes of the model are.
LEMMA Bounds == /\ MaxSends \in Nat /\ MaxMsgsPerPeer \in Nat /\ MaxMsgsPerPeer > 0
                /\ 0 \notin Send /\ Send \subseteq Nat
BY MessagesAssumption DEF Send

\* The elements of a sequence that grows.
LEMMA ToSetAppend ==
  ASSUME NEW S, NEW s \in Seq(S), NEW x \in S
  PROVE  ToSet(Append(s, x)) = ToSet(s) \cup {x}
<1> DEFINE r == Append(s, x)
<1>1. /\ Len(s) \in Nat /\ DOMAIN s = 1..Len(s) /\ DOMAIN r = 1..(Len(s) + 1)
      /\ r[Len(s) + 1] = x /\ \A i \in 1..Len(s) : r[i] = s[i]
  OBVIOUS
<1>2. ASSUME NEW y \in ToSet(r) PROVE y \in ToSet(s) \cup {x}
  <2>1. PICK i \in DOMAIN r : y = r[i]
    BY <1>2 DEF ToSet
  <2>2. i \in 1..Len(s) \/ i = Len(s) + 1
    BY <1>1
  <2>3. QED BY <1>1, <2>1, <2>2 DEF ToSet
<1>3. ASSUME NEW y \in ToSet(s) PROVE y \in ToSet(r)
  <2>1. PICK i \in DOMAIN s : y = s[i]
    BY <1>3 DEF ToSet
  <2>2. i \in DOMAIN r /\ y = r[i]
    BY <1>1, <2>1
  <2>3. QED BY <2>2 DEF ToSet
<1>4. x \in ToSet(r)
  <2>1. Len(s) + 1 \in DOMAIN r /\ x = r[Len(s) + 1]
    BY <1>1
  <2>2. QED BY <2>1 DEF ToSet
<1>5. QED BY <1>2, <1>3, <1>4

\* The elements of a sequence whose first one is taken.
LEMMA ToSetTail ==
  ASSUME NEW S, NEW s \in Seq(S), s # <<>>
  PROVE  /\ Head(s) \in ToSet(s) /\ ToSet(Tail(s)) \subseteq ToSet(s)
         /\ Tail(s) \in Seq(S) /\ Head(s) \in S
<1>1. /\ Len(s) \in Nat /\ Len(s) > 0 /\ DOMAIN s = 1..Len(s) /\ Head(s) = s[1]
      /\ DOMAIN Tail(s) = 1..(Len(s) - 1)
      /\ \A i \in 1..(Len(s) - 1) : Tail(s)[i] = s[i + 1] /\ i + 1 \in 1..Len(s)
      /\ Tail(s) \in Seq(S) /\ Head(s) \in S
  OBVIOUS
<1>2. 1 \in DOMAIN s
  BY <1>1
<1>3. QED BY <1>1, <1>2 DEF ToSet

\* The cut of a buffer keeps its last messages, in order.
LEMMA LastMsgsElements ==
  ASSUME NEW S, NEW s \in Seq(S)
  PROVE  /\ LastMsgs(s) \in Seq(S)
         /\ Len(LastMsgs(s)) = IF Len(s) > MaxMsgsPerPeer THEN MaxMsgsPerPeer ELSE Len(s)
         /\ \A i \in 1..Len(LastMsgs(s)) : LastMsgs(s)[i] = s[Len(s) - Len(LastMsgs(s)) + i]
<1>1. Len(s) \in Nat /\ DOMAIN s = 1..Len(s) /\ \A i \in 1..Len(s) : s[i] \in S
  OBVIOUS
<1>2. CASE ~(Len(s) > MaxMsgsPerPeer)
  <2>1. LastMsgs(s) = s
    BY <1>2 DEF LastMsgs
  <2>2. \A i \in 1..Len(s) : Len(s) - Len(s) + i = i
    BY <1>1
  <2>3. QED BY <1>2, <2>1, <2>2
<1>3. CASE Len(s) > MaxMsgsPerPeer
  <2> DEFINE m == Len(s) - MaxMsgsPerPeer + 1
  <2>1. LastMsgs(s) = SubSeq(s, m, Len(s))
    BY <1>3 DEF LastMsgs
  <2>2. m \in Int /\ Len(s) \in Int /\ 1 <= m /\ m <= Len(s)
    BY <1>1, <1>3, Bounds
  <2>3. \A i \in m..Len(s) : s[i] \in S
    BY <1>1, <2>2
  <2>4. /\ SubSeq(s, m, Len(s)) \in Seq(S)
        /\ Len(SubSeq(s, m, Len(s))) = IF m <= Len(s) THEN Len(s) - m + 1 ELSE 0
        /\ \A i \in 1..(Len(s) - m + 1) : SubSeq(s, m, Len(s))[i] = s[m + i - 1]
    <3> HIDE DEF m
    <3>1. QED BY <2>2, <2>3, SubSeqProperties
  <2>5. Len(s) - m + 1 = MaxMsgsPerPeer
    BY <1>1, Bounds
  <2>6. \A i \in 1..MaxMsgsPerPeer : m + i - 1 = Len(s) - MaxMsgsPerPeer + i
    BY <1>1, Bounds
  <2>7. QED BY <1>3, <2>1, <2>2, <2>4, <2>5, <2>6
<1>4. QED BY <1>2, <1>3

\* The cut bounds, keeps only what was there, and does nothing the second time.
LEMMA LastMsgsCuts ==
  ASSUME NEW S, NEW s \in Seq(S)
  PROVE  /\ LastMsgs(s) \in Seq(S) /\ Len(LastMsgs(s)) <= MaxMsgsPerPeer
         /\ ToSet(LastMsgs(s)) \subseteq ToSet(s)
         /\ LastMsgs(LastMsgs(s)) = LastMsgs(s)
<1>1. Len(s) \in Nat /\ DOMAIN s = 1..Len(s)
  OBVIOUS
<1>2. LastMsgs(s) \in Seq(S) /\ Len(LastMsgs(s)) <= MaxMsgsPerPeer /\ Len(LastMsgs(s)) <= Len(s)
  BY <1>1, LastMsgsElements, Bounds
<1>3. LastMsgs(LastMsgs(s)) = LastMsgs(s)
  <2>1. ~(Len(LastMsgs(s)) > MaxMsgsPerPeer)
    BY <1>2, Bounds
  <2>2. \A r : ~(Len(r) > MaxMsgsPerPeer) => LastMsgs(r) = r
    BY DEF LastMsgs
  <2>3. QED BY <2>1, <2>2
<1>4. ToSet(LastMsgs(s)) \subseteq ToSet(s)
  <2>1. \A i \in DOMAIN LastMsgs(s) : i \in 1..Len(LastMsgs(s))
    BY <1>2
  <2>2. \A i \in 1..Len(LastMsgs(s)) : Len(s) - Len(LastMsgs(s)) + i \in DOMAIN s
    BY <1>1, <1>2
  <2>3. QED BY <2>1, <2>2, LastMsgsElements DEF ToSet
<1>5. QED BY <1>2, <1>3, <1>4

\* Cutting before a message is appended, as well as after, loses nothing.
LEMMA LastMsgsAppend ==
  ASSUME NEW S, NEW s \in Seq(S), NEW x \in S
  PROVE  LastMsgs(Append(LastMsgs(s), x)) = LastMsgs(Append(s, x))
<1> DEFINE c == LastMsgs(s)
           l == Append(c, x)
           r == Append(s, x)
<1>1. /\ Len(s) \in Nat /\ c \in Seq(S) /\ Len(c) \in Nat
      /\ Len(c) = IF Len(s) > MaxMsgsPerPeer THEN MaxMsgsPerPeer ELSE Len(s)
      /\ \A i \in 1..Len(c) : c[i] = s[Len(s) - Len(c) + i]
  BY LastMsgsElements
<1>2. /\ l \in Seq(S) /\ Len(l) = Len(c) + 1 /\ l[Len(c) + 1] = x
      /\ \A i \in 1..Len(c) : l[i] = c[i]
  BY <1>1
<1>3. /\ r \in Seq(S) /\ Len(r) = Len(s) + 1 /\ r[Len(s) + 1] = x
      /\ \A i \in 1..Len(s) : r[i] = s[i]
  OBVIOUS
<1> HIDE DEF c, l, r
<1>4. /\ LastMsgs(l) \in Seq(S) /\ LastMsgs(r) \in Seq(S)
      /\ Len(LastMsgs(l)) = IF Len(l) > MaxMsgsPerPeer THEN MaxMsgsPerPeer ELSE Len(l)
      /\ Len(LastMsgs(r)) = IF Len(r) > MaxMsgsPerPeer THEN MaxMsgsPerPeer ELSE Len(r)
      /\ \A i \in 1..Len(LastMsgs(l)) : LastMsgs(l)[i] = l[Len(l) - Len(LastMsgs(l)) + i]
      /\ \A i \in 1..Len(LastMsgs(r)) : LastMsgs(r)[i] = r[Len(r) - Len(LastMsgs(r)) + i]
  BY <1>2, <1>3, LastMsgsElements
<1>5. Len(LastMsgs(l)) = Len(LastMsgs(r))
  BY <1>1, <1>2, <1>3, <1>4, Bounds
<1>6. ASSUME NEW i \in 1..Len(LastMsgs(l)) PROVE LastMsgs(l)[i] = LastMsgs(r)[i]
  <2> DEFINE k == Len(LastMsgs(l))
             a == Len(l) - k + i
             b == Len(r) - k + i
  <2>1. k \in Nat /\ k <= Len(l) /\ k <= Len(r) /\ Len(LastMsgs(r)) = k
    BY <1>1, <1>2, <1>3, <1>4, <1>5, Bounds
  <2>2. i \in 1..k /\ LastMsgs(l)[i] = l[a] /\ LastMsgs(r)[i] = r[b]
    BY <1>4, <2>1
  <2>3. a \in 1..Len(l) /\ b \in 1..Len(r) /\ b = a + (Len(s) - Len(c))
    <3>1. Len(s) \in Nat /\ Len(c) \in Nat /\ Len(r) = Len(s) + 1 /\ Len(l) = Len(c) + 1
      BY <1>1, <1>2, <1>3
    <3>2. k \in Nat /\ i \in Int /\ 1 <= i /\ i <= k /\ k <= Len(l) /\ k <= Len(r)
      BY <2>1, <2>2
    <3>3. \A x1, y1, y2 \in Nat, j \in Int :
            1 <= j /\ j <= x1 /\ x1 <= y1 + 1 /\ x1 <= y2 + 1 =>
              /\ (y1 + 1) - x1 + j \in 1..(y1 + 1) /\ (y2 + 1) - x1 + j \in 1..(y2 + 1)
              /\ (y2 + 1) - x1 + j = ((y1 + 1) - x1 + j) + (y2 - y1)
      OBVIOUS
    <3> HIDE DEF k
    <3>4. QED BY <3>1, <3>2, <3>3
  <2> HIDE DEF a, b
  <2>4. CASE a = Len(c) + 1
    BY <1>1, <1>2, <1>3, <2>2, <2>3, <2>4
  <2>5. CASE a # Len(c) + 1
    <3>1. a \in 1..Len(c) /\ b \in 1..Len(s) /\ b = Len(s) - Len(c) + a
      BY <1>1, <1>2, <1>3, <2>3, <2>5
    <3>2. QED BY <1>1, <1>2, <1>3, <2>2, <3>1
  <2>6. QED BY <2>4, <2>5
<1>7. LastMsgs(l) = LastMsgs(r)
  BY <1>4, <1>5, <1>6, SeqEqual
<1>8. QED BY <1>7 DEF c, l, r

-----------------------------------------------------------------------------
(* Senders, authors and the queue *)

\* The actions that touch none of what a sender and its verification keep.
SenderVars == <<send, stage, work, published, queue, recv, miss>>

\* Subscriptions, read loops and the collector leave the senders alone.
LEMMA SenderQuiet ==
  (\E p \in Peer, t \in Topic :
     \/ Lists(p, t) \/ Unlists(p, t) \/ Subscribes(p, t) \/ Unsubscribes(p, t)
     \/ ReadLoopTakes(p, t) \/ StoreAppends(p, t) \/ StoreCuts(p, t))
  \/ GCMsgs \/ UNCHANGED vars
  => UNCHANGED SenderVars
BY DEF SenderVars, Lists, Unlists, Subscribes, Unsubscribes, ReadLoopTakes, StoreAppends,
       StoreCuts, GCMsgs, vars, senderVars, workVars, memberVars, readVars, verifyVars

\* What a verification adds is checks of its own send.
LEMMA ChecksTyped ==
  ASSUME NEW n \in Send, VerifyMsgsRecvState(n)
  PROVE  /\ (recv \cup miss)' \subseteq (recv \cup miss) \cup (Peer \X ({n} \X {1, 2}))
         /\ recv \subseteq Check /\ miss \subseteq Check => recv' \subseteq Check /\ miss' \subseteq Check
<1>1. PICK checks : /\ checks = Examined(n) \X ({n} \X {1, 2})
                    /\ recv' = recv \cup {c \in checks : Stored(c[1], c[2])}
                    /\ miss' = miss \cup {c \in checks : ~Stored(c[1], c[2])}
  BY DEF VerifyMsgsRecvState
<1>2. Examined(n) \subseteq Peer
  BY DEF Examined, GetTopicPeers
<1>3. checks \subseteq Peer \X ({n} \X {1, 2}) /\ checks \subseteq Check
  BY <1>1, <1>2 DEF Check, Id
<1>4. QED BY <1>1, <1>3

\* Every step keeps the types of the senders.
LEMMA SenderTypeStep ==
  ASSUME SenderTypeOK, [Next]_vars PROVE SenderTypeOK'
<1> USE DEF SenderTypeOK
<1>1. CASE UNCHANGED SenderVars
  BY <1>1 DEF SenderVars
<1>2. ASSUME NEW n \in Send, NEW p \in Peer, NEW t \in Topic, MsgRandomTopicState(n, p, t)
      PROVE  SenderTypeOK'
  BY <1>2 DEF MsgRandomTopicState, Asked, workVars, verifyVars
<1>3. ASSUME NEW n \in Send, SenderAsks(n) \/ SenderStamps(n) \/ SenderTimesOut(n) \/ SenderHears(n)
      PROVE  SenderTypeOK'
  BY <1>3 DEF SenderAsks, SenderStamps, SenderTimesOut, SenderHears, workVars, verifyVars
<1>4. ASSUME NEW n \in Send, SenderVerifies(n) PROVE SenderTypeOK'
  BY <1>4 DEF SenderVerifies, Queue, workVars
<1>5. ASSUME NEW n \in Send, SendingMsgsState(n) \/ PublishFails(n) \/ MsgsSentState(n)
      PROVE  SenderTypeOK'
  BY <1>5 DEF SendingMsgsState, PublishFails, MsgsSentState, senderVars, verifyVars
<1>6. ASSUME NEW n \in Send, Publish(n) PROVE SenderTypeOK'
  <2>1. published' \in [Send -> 0..2]
    BY <1>6 DEF Publish
  <2>2. QED BY <1>6, <2>1 DEF Publish, senderVars, verifyVars
<1>7. ASSUME NEW n \in Send, VerifyMsgsRecvState(n) PROVE SenderTypeOK'
  <2>1. queue' \in Seq(Send \cup {0})
    <3>1. queue' = Append(Tail(queue), 0) /\ queue # <<>>
      BY <1>7 DEF VerifyMsgsRecvState
    <3>2. QED BY <3>1, ToSetTail
  <2>2. recv' \subseteq Check /\ miss' \subseteq Check
    BY <1>7, ChecksTyped
  <2>3. QED BY <1>7, <2>1, <2>2 DEF VerifyMsgsRecvState, senderVars, workVars
<1>8. ASSUME (\E n \in Send : VerifyMsgsRecvDropped(n)) \/ VerifyMsgsRecvRemoved PROVE SenderTypeOK'
  <2>1. queue' = Tail(queue) /\ queue # <<>> /\ UNCHANGED <<send, stage, work, published, recv, miss>>
    BY <1>8 DEF VerifyMsgsRecvDropped, VerifyMsgsRecvRemoved, senderVars, workVars
  <2>2. QED BY <2>1, ToSetTail
<1>9. QED
  BY <1>1, <1>2, <1>3, <1>4, <1>5, <1>6, <1>7, <1>8, SenderQuiet
  DEF Next, Membership, Sender, Author, Reader, Verifier

\* Reported is reported: a send whose messages are published stays so.
LEMMA StagesStep ==
  ASSUME SenderTypeOK, StagesAgree, [Next]_vars PROVE StagesAgree'
<1>1. /\ stage \in [Send -> {"none", "started", "asked", "waiting", "delayed", "ended"}]
      /\ work \in [Send -> {"none", "queued", "publishing", "sent", "ended"}]
      /\ published \in [Send -> 0..2] /\ queue \in Seq(Send \cup {0})
      /\ send \in [Send -> Asked \cup {NoSend}]
  BY DEF SenderTypeOK
<1>2. CASE UNCHANGED SenderVars
  BY <1>2 DEF SenderVars, StagesAgree
<1>3. ASSUME NEW n \in Send, NEW p \in Peer, NEW t \in Topic, MsgRandomTopicState(n, p, t)
      PROVE  StagesAgree'
  BY <1>1, <1>3 DEF MsgRandomTopicState, StagesAgree, Asked, workVars, verifyVars
<1>4. ASSUME NEW n \in Send, SenderAsks(n) PROVE StagesAgree'
  BY <1>1, <1>4 DEF SenderAsks, StagesAgree, verifyVars
<1>5. ASSUME NEW n \in Send, SenderStamps(n) \/ SenderTimesOut(n) \/ SenderHears(n)
      PROVE  StagesAgree'
  BY <1>1, <1>5 DEF SenderStamps, SenderTimesOut, SenderHears, StagesAgree, workVars, verifyVars
<1>6. ASSUME NEW n \in Send, SenderVerifies(n) PROVE StagesAgree'
  <2>1. ToSet(queue') = ToSet(queue) \cup {n}
    <3>1. queue' = Append(queue, n)
      BY <1>6 DEF SenderVerifies, Queue
    <3>2. QED BY <1>1, <3>1, ToSetAppend
  <2>2. QED BY <1>1, <1>6, <2>1 DEF SenderVerifies, StagesAgree, workVars
<1>7. ASSUME NEW n \in Send, SendingMsgsState(n) \/ PublishFails(n) \/ MsgsSentState(n)
      PROVE  StagesAgree'
  <2>1. /\ UNCHANGED <<send, stage, published, queue, recv, miss>> /\ work[n] \in {"queued", "publishing"}
        /\ \E l \in {"publishing", "ended", "sent"} :
             (l = "sent" => published[n] = 2) /\ work' = [work EXCEPT ![n] = l]
    BY <1>7 DEF SendingMsgsState, PublishFails, MsgsSentState, senderVars, verifyVars
  <2>2. QED BY <1>1, <2>1 DEF StagesAgree
<1>8. ASSUME NEW n \in Send, Publish(n) PROVE StagesAgree'
  <2>1. UNCHANGED <<send, stage, work, queue, recv, miss>> /\ work[n] = "publishing"
        /\ published' = [published EXCEPT ![n] = @ + 1]
    BY <1>8 DEF Publish, senderVars, verifyVars
  <2>2. QED BY <1>1, <2>1 DEF StagesAgree
<1>9. ASSUME NEW n \in Send, VerifyMsgsRecvState(n) PROVE StagesAgree'
  <2>1. /\ queue # <<>> /\ Head(queue) = n /\ queue' = Append(Tail(queue), 0)
        /\ UNCHANGED <<send, stage, work, published>>
    BY <1>9 DEF VerifyMsgsRecvState, senderVars, workVars
  <2>2. ToSet(queue') \subseteq ToSet(queue) \cup {0} /\ n \in ToSet(queue)
    <3>1. /\ Tail(queue) \in Seq(Send \cup {0}) /\ ToSet(Tail(queue)) \subseteq ToSet(queue)
          /\ Head(queue) \in ToSet(queue)
      BY <1>1, <2>1, ToSetTail
    <3>2. 0 \in Send \cup {0}
      OBVIOUS
    <3>3. ToSet(Append(Tail(queue), 0)) = ToSet(Tail(queue)) \cup {0}
      <4> DEFINE r == Tail(queue)
      <4>1. r \in Seq(Send \cup {0})
        BY <3>1
      <4> HIDE DEF r
      <4>2. ToSet(Append(r, 0)) = ToSet(r) \cup {0}
        BY <3>2, <4>1, ToSetAppend
      <4>3. QED BY <4>2 DEF r
    <3>4. QED BY <2>1, <3>1, <3>3
  <2>3. \A c \in (recv \cup miss)' : c \in recv \cup miss \/ c[2][1] = n
    BY <1>9, ChecksTyped
  <2>4. QED BY <2>1, <2>2, <2>3, Bounds DEF StagesAgree
<1>10. ASSUME (\E n \in Send : VerifyMsgsRecvDropped(n)) \/ VerifyMsgsRecvRemoved PROVE StagesAgree'
  <2>1. queue' = Tail(queue) /\ queue # <<>> /\ UNCHANGED <<send, stage, work, published, recv, miss>>
    BY <1>10 DEF VerifyMsgsRecvDropped, VerifyMsgsRecvRemoved, senderVars, workVars
  <2>2. ToSet(queue') \subseteq ToSet(queue)
    BY <1>1, <2>1, ToSetTail
  <2>3. QED BY <2>1, <2>2 DEF StagesAgree
<1>11. QED
  BY <1>2, <1>3, <1>4, <1>5, <1>6, <1>7, <1>8, <1>9, <1>10, SenderQuiet
  DEF Next, Membership, Sender, Author, Reader, Verifier

-----------------------------------------------------------------------------
(* Readers *)

\* A send that has begun keeps its author, so its messages keep their text.
LEMMA TextStays ==
  ASSUME SenderTypeOK, StagesAgree, [Next]_vars, NEW id \in Id, Begun(id)
  PROVE  Content(id) \in Text /\ Content(id)' = Content(id) /\ Begun(id)'
<1>1. /\ send \in [Send -> Asked \cup {NoSend}] /\ id[1] \in Send /\ id[2] \in {1, 2}
      /\ work \in [Send -> {"none", "queued", "publishing", "sent", "ended"}]
      /\ stage \in [Send -> {"none", "started", "asked", "waiting", "delayed", "ended"}]
      /\ work[id[1]] # "none" /\ stage[id[1]] # "none" /\ send[id[1]] \in Asked
  BY DEF SenderTypeOK, StagesAgree, Begun, Id
<1>2. Content(id) \in Text
  <2>1. send[id[1]].peer \in Peer
    BY <1>1 DEF Asked
  <2>2. CASE id[2] = 1
    BY <2>1, <2>2 DEF Content, Text
  <2>3. CASE id[2] # 1
    BY <1>1, <2>3 DEF Content, Text
  <2>4. QED BY <2>2, <2>3
<1>3. send'[id[1]] = send[id[1]] /\ work'[id[1]] # "none"
  <2>1. CASE UNCHANGED SenderVars
    BY <1>1, <2>1 DEF SenderVars
  <2>2. ASSUME NEW n \in Send, NEW p \in Peer, NEW t \in Topic, MsgRandomTopicState(n, p, t)
        PROVE  send'[id[1]] = send[id[1]] /\ work'[id[1]] # "none"
    BY <1>1, <2>2 DEF MsgRandomTopicState, workVars
  <2>3. ASSUME NEW n \in Send, Sender(n)
        PROVE  send'[id[1]] = send[id[1]] /\ work'[id[1]] # "none"
    BY <1>1, <2>3
    DEF Sender, SenderAsks, SenderStamps, SenderTimesOut, SenderHears, SenderVerifies, workVars
  <2>4. ASSUME NEW n \in Send, Author(n)
        PROVE  send'[id[1]] = send[id[1]] /\ work'[id[1]] # "none"
    BY <1>1, <2>4
    DEF Author, SendingMsgsState, Publish, PublishFails, MsgsSentState, senderVars
  <2>5. CASE Verifier
    BY <1>1, <2>5
    DEF Verifier, VerifyMsgsRecvState, VerifyMsgsRecvDropped, VerifyMsgsRecvRemoved,
        senderVars, workVars
  <2>6. QED
    BY <2>1, <2>2, <2>3, <2>4, <2>5, SenderQuiet DEF Next, Membership, Reader
<1>4. QED BY <1>1, <1>2, <1>3 DEF Content, Begun

\* Only the read loops and the garbage collection touch what a peer has read.
LEMMA ReaderMoves ==
  ASSUME [Next]_vars
  PROVE  \/ UNCHANGED <<loops, msgs, delivered>>
         \/ \E p \in Peer, t \in Topic :
              ReadLoopTakes(p, t) \/ StoreAppends(p, t) \/ StoreCuts(p, t)
         \/ GCMsgs
<1>1. CASE UNCHANGED vars
  BY <1>1 DEF vars, readVars
<1>2. CASE Membership
  BY <1>2 DEF Membership, Lists, Unlists, Subscribes, Unsubscribes, readVars
<1>3. CASE \E n \in Send, p \in Peer, t \in Topic : MsgRandomTopicState(n, p, t)
  BY <1>3 DEF MsgRandomTopicState, readVars
<1>4. ASSUME NEW n \in Send, Sender(n) PROVE UNCHANGED <<loops, msgs, delivered>>
  BY <1>4
  DEF Sender, SenderAsks, SenderStamps, SenderTimesOut, SenderHears, SenderVerifies, readVars
<1>5. ASSUME NEW n \in Send, Author(n) PROVE UNCHANGED <<loops, msgs, delivered>>
  BY <1>5 DEF Author, SendingMsgsState, Publish, PublishFails, MsgsSentState, readVars
<1>6. CASE Verifier
  BY <1>6
  DEF Verifier, VerifyMsgsRecvState, VerifyMsgsRecvDropped, VerifyMsgsRecvRemoved, readVars
<1>7. QED BY <1>1, <1>2, <1>3, <1>4, <1>5, <1>6 DEF Next, Reader

\* What is on its way to a subscription was there before, or is just published.
LEMMA NetStep ==
  ASSUME SenderTypeOK, ReaderTypeOK, [Next]_vars
  PROVE  /\ net' \in [Peer -> [Topic -> SUBSET Id]]
         /\ \A p \in Peer, t \in Topic : \A id \in net'[p][t] : id \in net[p][t] \/ Begun(id)
<1>1. /\ net \in [Peer -> [Topic -> SUBSET Id]] /\ published \in [Send -> 0..2]
      /\ work \in [Send -> {"none", "queued", "publishing", "sent", "ended"}]
  BY DEF SenderTypeOK, ReaderTypeOK
<1> DEFINE Goal == /\ net' \in [Peer -> [Topic -> SUBSET Id]]
                   /\ \A p \in Peer, t \in Topic :
                        \A id \in net'[p][t] : id \in net[p][t] \/ Begun(id)
<1>2. CASE UNCHANGED net
  BY <1>1, <1>2
<1>3. ASSUME NEW n \in Send, Publish(n) PROVE Goal
  <2>1. PICK id : /\ id = <<n, published'[n]>>
                  /\ net' = [q \in Peer |-> IF q \in Receivers(n)
                       THEN [net[q] EXCEPT ![send[n].topic] = @ \cup {id}] ELSE net[q]]
    BY <1>3 DEF Publish
  <2>2. id \in Id /\ Begun(id)
    <3>1. work[n] = "publishing" /\ published[n] < 2 /\ published' = [published EXCEPT ![n] = @ + 1]
      BY <1>3 DEF Publish
    <3>2. published'[n] \in {1, 2}
      BY <1>1, <3>1
    <3>3. QED BY <2>1, <3>1, <3>2 DEF Id, Begun
  <2>3. ASSUME NEW p \in Peer
        PROVE  /\ net'[p] \in [Topic -> SUBSET Id]
               /\ \A t \in Topic : net'[p][t] \subseteq net[p][t] \cup {id}
    <3>1. net'[p] = net[p] \/ net'[p] = [net[p] EXCEPT ![send[n].topic] = @ \cup {id}]
      BY <2>1
    <3>2. QED BY <1>1, <2>2, <3>1
  <2>4. net' \in [Peer -> [Topic -> SUBSET Id]]
    BY <2>1, <2>3
  <2>5. QED BY <2>2, <2>3, <2>4
<1>4. ASSUME NEW p \in Peer, NEW t \in Topic, Unsubscribes(p, t) \/ ReadLoopTakes(p, t) PROVE Goal
  <2>1. \E ids : ids \subseteq net[p][t] /\ net' = [net EXCEPT ![p][t] = ids]
    BY <1>4 DEF Unsubscribes, ReadLoopTakes
  <2>2. QED BY <1>1, <2>1
<1>5. ASSUME NEW p \in Peer, NEW t \in Topic,
             Lists(p, t) \/ Unlists(p, t) \/ Subscribes(p, t) \/ StoreAppends(p, t) \/ StoreCuts(p, t)
      PROVE  UNCHANGED net
  BY <1>5 DEF Lists, Unlists, Subscribes, StoreAppends, StoreCuts, readVars
<1>6. ASSUME NEW n \in Send, Sender(n) \/ SendingMsgsState(n) \/ PublishFails(n) \/ MsgsSentState(n)
      PROVE  UNCHANGED net
  BY <1>6
  DEF Sender, SenderAsks, SenderStamps, SenderTimesOut, SenderHears, SenderVerifies,
      SendingMsgsState, PublishFails, MsgsSentState, readVars
<1>7. CASE \E n \in Send, p \in Peer, t \in Topic : MsgRandomTopicState(n, p, t)
  BY <1>2, <1>7 DEF MsgRandomTopicState, readVars
<1>8. CASE Verifier \/ GCMsgs \/ UNCHANGED vars
  BY <1>2, <1>8
  DEF Verifier, VerifyMsgsRecvState, VerifyMsgsRecvDropped, VerifyMsgsRecvRemoved, GCMsgs,
      vars, readVars
<1>9. QED
  BY <1>2, <1>3, <1>4, <1>5, <1>6, <1>7, <1>8 DEF Next, Membership, Author, Reader

\* What one read loop does, with all types at hand.
LEMMA TakeTyped ==
  ASSUME SenderTypeOK, ReaderTypeOK, StagesAgree, TextsSettled, [Next]_vars,
         NEW p \in Peer, NEW t \in Topic, ReadLoopTakes(p, t)
  PROVE  \E id \in Id :
           /\ Begun(id) /\ Content(id) \in Text /\ Content(id)' = Content(id)
           /\ loops[p][t].step = "idle" /\ msgs' = msgs
           /\ delivered' = [delivered EXCEPT ![p] = Append(delivered[p], id)]
           /\ loops' = [loops EXCEPT ![p][t] =
                [step |-> "append", copy |-> Append(msgs[p], Content(id))]]
<1>1. PICK id \in net[p][t] :
        /\ delivered' = [delivered EXCEPT ![p] = Append(delivered[p], id)]
        /\ loops' = [loops EXCEPT ![p][t] =
             [step |-> "append", copy |-> Append(msgs[p], Content(id))]]
  BY DEF ReadLoopTakes
<1>2. id \in Id /\ Begun(id)
  BY DEF ReaderTypeOK, TextsSettled
<1>3. Content(id) \in Text /\ Content(id)' = Content(id)
  BY <1>2, TextStays
<1>4. loops[p][t].step = "idle" /\ msgs' = msgs
  BY DEF ReadLoopTakes
<1>5. QED BY <1>1, <1>2, <1>3, <1>4

\* Every step keeps the types of the readers.
LEMMA ReaderTypeStep ==
  ASSUME SenderTypeOK, ReaderTypeOK, StagesAgree, TextsSettled, [Next]_vars
  PROVE  ReaderTypeOK'
<1>1. /\ loops \in [Peer -> [Topic -> Loop]] /\ msgs \in [Peer -> Seq(Text)]
      /\ delivered \in [Peer -> Seq(Id)]
  BY DEF ReaderTypeOK
<1>2. net' \in [Peer -> [Topic -> SUBSET Id]]
  BY NetStep
<1>3. CASE UNCHANGED <<loops, msgs, delivered>>
  BY <1>1, <1>2, <1>3 DEF ReaderTypeOK
<1>4. ASSUME NEW p \in Peer, NEW t \in Topic, ReadLoopTakes(p, t) PROVE ReaderTypeOK'
  <2>1. PICK id \in Id :
          /\ Content(id) \in Text /\ msgs' = msgs
          /\ delivered' = [delivered EXCEPT ![p] = Append(delivered[p], id)]
          /\ loops' = [loops EXCEPT ![p][t] =
               [step |-> "append", copy |-> Append(msgs[p], Content(id))]]
    BY <1>4, TakeTyped
  <2>2. [step |-> "append", copy |-> Append(msgs[p], Content(id))] \in Loop
    BY <1>1, <2>1 DEF Loop
  <2>3. QED BY <1>1, <1>2, <2>1, <2>2 DEF ReaderTypeOK
<1>5. ASSUME NEW p \in Peer, NEW t \in Topic, StoreAppends(p, t) PROVE ReaderTypeOK'
  <2>1. [step |-> "cut", copy |-> <<>>] \in Loop /\ loops[p][t].copy \in Seq(Text)
    BY <1>1 DEF Loop
  <2>2. QED BY <1>1, <1>2, <1>5, <2>1 DEF StoreAppends, ReaderTypeOK
<1>6. ASSUME NEW p \in Peer, NEW t \in Topic, StoreCuts(p, t) PROVE ReaderTypeOK'
  <2>1. Idle \in Loop /\ LastMsgs(msgs[p]) \in Seq(Text)
    BY <1>1, LastMsgsCuts DEF Loop, Idle
  <2>2. QED BY <1>1, <1>2, <1>6, <2>1 DEF StoreCuts, ReaderTypeOK
<1>7. CASE GCMsgs
  <2>1. \A p \in Peer : LastMsgs(msgs[p]) \in Seq(Text)
    BY <1>1, LastMsgsCuts
  <2>2. QED BY <1>1, <1>2, <1>7, <2>1 DEF GCMsgs, ReaderTypeOK
<1>8. QED BY <1>3, <1>4, <1>5, <1>6, <1>7, ReaderMoves

\* Every step leaves on the way, and read, messages of sends that have begun only.
LEMMA TextsStep ==
  ASSUME SenderTypeOK, ReaderTypeOK, StagesAgree, TextsSettled, [Next]_vars
  PROVE  TextsSettled'
<1>1. net \in [Peer -> [Topic -> SUBSET Id]] /\ delivered \in [Peer -> Seq(Id)]
  BY DEF ReaderTypeOK
<1>2. \A id \in Id : Begun(id) => Begun(id)'
  BY TextStays
<1>3. \A p \in Peer, t \in Topic : \A id \in net'[p][t] : id \in Id /\ Begun(id)
  BY <1>1, NetStep DEF TextsSettled
<1>4. ASSUME NEW p \in Peer PROVE \A id \in ToSet(delivered'[p]) : id \in Id /\ Begun(id)
  <2>1. \A id \in ToSet(delivered[p]) : id \in Id /\ Begun(id)
    BY <1>1 DEF ToSet, TextsSettled
  <2>2. CASE delivered' = delivered
    BY <2>1, <2>2
  <2>3. ASSUME NEW q \in Peer, NEW t \in Topic, ReadLoopTakes(q, t)
        PROVE  \A id \in ToSet(delivered'[p]) : id \in Id /\ Begun(id)
    <3>1. PICK id \in Id :
            Begun(id) /\ delivered' = [delivered EXCEPT ![q] = Append(delivered[q], id)]
      BY <2>3, TakeTyped
    <3>2. ToSet(Append(delivered[q], id)) = ToSet(delivered[q]) \cup {id}
      BY <1>1, ToSetAppend
    <3>3. QED BY <1>1, <2>1, <3>1, <3>2
  <2>4. QED
    BY <2>2, <2>3, ReaderMoves DEF StoreAppends, StoreCuts, GCMsgs
<1>5. QED BY <1>2, <1>3, <1>4 DEF TextsSettled

\* What has been read stays read.
LEMMA DeliveredGrows ==
  ASSUME SenderTypeOK, ReaderTypeOK, StagesAgree, TextsSettled, [Next]_vars, NEW p \in Peer
  PROVE  ToSet(delivered[p]) \subseteq ToSet(delivered'[p])
<1>1. delivered \in [Peer -> Seq(Id)]
  BY DEF ReaderTypeOK
<1>2. ASSUME NEW q \in Peer, NEW t \in Topic, ReadLoopTakes(q, t)
      PROVE  ToSet(delivered[p]) \subseteq ToSet(delivered'[p])
  <2>1. PICK id \in Id : delivered' = [delivered EXCEPT ![q] = Append(delivered[q], id)]
    BY <1>2, TakeTyped
  <2>2. ToSet(Append(delivered[q], id)) = ToSet(delivered[q]) \cup {id}
    BY <1>1, ToSetAppend
  <2>3. QED BY <1>1, <2>1, <2>2
<1>3. QED BY <1>2, ReaderMoves DEF StoreAppends, StoreCuts, GCMsgs

\* The random message of a send has a text of its own.
LEMMA RandomText ==
  ASSUME NEW n \in Send, NEW id \in Id
  PROVE  /\ Content(id) = Random(n) => id = <<n, 2>>
         /\ Content(<<n, 2>>) = Random(n)
<1>1. id[1] \in Send /\ id[2] \in {1, 2} /\ id = <<id[1], id[2]>>
  BY DEF Id
<1>2. CASE id[2] = 1
  <2>1. DOMAIN Content(id) = {"own"} /\ DOMAIN Random(n) = {"random"}
    BY <1>2 DEF Content, Random
  <2>2. QED BY <2>1 DEF Content, Random
<1>3. CASE id[2] # 1
  <2>1. Content(id) = [random |-> id[1]] /\ Content(id).random = id[1] /\ Random(n).random = n
    BY <1>3 DEF Content, Random
  <2>2. QED BY <1>1, <1>3, <2>1 DEF Content, Random
<1>4. QED BY <1>2, <1>3

\* Every step of a peer's loops leaves in buffers and copies what the peer has received.
LEMMA FreshFromStep ==
  ASSUME SenderTypeOK, ReaderTypeOK, StagesAgree, TextsSettled, FreshKept, [Next]_vars,
         NEW p \in Peer
  PROVE  /\ FreshFrom(msgs[p], p)'
         /\ \A t \in Topic : FreshFrom(loops[p][t].copy, p)'
<1>1. /\ loops \in [Peer -> [Topic -> Loop]] /\ msgs \in [Peer -> Seq(Text)]
      /\ delivered \in [Peer -> Seq(Id)]
  BY DEF ReaderTypeOK
<1>2. ToSet(delivered[p]) \subseteq ToSet(delivered'[p])
  BY DeliveredGrows
<1>3. FreshFrom(msgs[p], p) /\ \A t \in Topic : FreshFrom(loops[p][t].copy, p)
  BY DEF FreshKept
\* Whatever holds only texts of a fresh sequence is fresh, then and afterwards.
<1>4. ASSUME NEW s, NEW r, FreshFrom(s, p), ToSet(r) \subseteq ToSet(s)
      PROVE  \A n \in Send : Random(n) \in ToSet(r) => <<n, 2>> \in ToSet(delivered'[p])
  BY <1>2, <1>4 DEF FreshFrom
<1> DEFINE Fresh(r) == \A n \in Send : Random(n) \in ToSet(r) => <<n, 2>> \in ToSet(delivered'[p])
<1>5. SUFFICES Fresh(msgs'[p]) /\ \A t \in Topic : Fresh(loops'[p][t].copy)
  BY DEF FreshFrom, Random
<1>6. Fresh(<<>>)
  <2>1. ToSet(<<>>) = {}
    BY DEF ToSet
  <2>2. QED BY <2>1
<1>7. Fresh(msgs[p]) /\ \A t \in Topic : Fresh(loops[p][t].copy)
  BY <1>3, <1>4
<1>8. Fresh(LastMsgs(msgs[p]))
  BY <1>1, <1>3, <1>4, LastMsgsCuts
<1>9. ASSUME NEW q \in Peer, NEW t \in Topic, ReadLoopTakes(q, t)
      PROVE  Fresh(msgs'[p]) /\ \A u \in Topic : Fresh(loops'[p][u].copy)
  <2>1. PICK id \in Id :
          /\ Content(id) \in Text /\ msgs' = msgs
          /\ delivered' = [delivered EXCEPT ![q] = Append(delivered[q], id)]
          /\ loops' = [loops EXCEPT ![q][t] =
               [step |-> "append", copy |-> Append(msgs[q], Content(id))]]
    BY <1>9, TakeTyped
  <2>2. ASSUME p = q PROVE Fresh(Append(msgs[p], Content(id)))
    <3>1. ToSet(Append(msgs[p], Content(id))) = ToSet(msgs[p]) \cup {Content(id)}
      BY <1>1, <2>1, ToSetAppend
    <3>2. ToSet(Append(delivered[p], id)) = ToSet(delivered[p]) \cup {id}
      BY <1>1, ToSetAppend
    <3>3. id \in ToSet(delivered'[p])
      BY <1>1, <2>1, <2>2, <3>2
    <3>4. \A n \in Send : Random(n) = Content(id) => <<n, 2>> = id
      BY RandomText
    <3>5. QED BY <1>7, <3>1, <3>3, <3>4
  <2>3. ASSUME NEW u \in Topic
        PROVE  \/ loops'[p][u] = loops[p][u]
               \/ p = q /\ loops'[p][u].copy = Append(msgs[p], Content(id))
    BY <1>1, <2>1
  <2> HIDE DEF Fresh
  <2>4. QED BY <1>7, <2>1, <2>2, <2>3
<1>10. ASSUME NEW q \in Peer, NEW t \in Topic, StoreAppends(q, t) \/ StoreCuts(q, t)
      PROVE  Fresh(msgs'[p]) /\ \A u \in Topic : Fresh(loops'[p][u].copy)
  <2>1. msgs'[p] \in {msgs[p], loops[p][t].copy, LastMsgs(msgs[p])}
    BY <1>1, <1>10 DEF StoreAppends, StoreCuts
  <2>2. ASSUME NEW u \in Topic PROVE loops'[p][u] = loops[p][u] \/ loops'[p][u].copy = <<>>
    <3>1. PICK l : l.copy = <<>> /\ loops' = [loops EXCEPT ![q][t] = l]
      BY <1>10 DEF StoreAppends, StoreCuts, Idle
    <3>2. loops'[p][u] = loops[p][u] \/ loops'[p][u] = l
      BY <1>1, <3>1
    <3>3. QED BY <3>1, <3>2
  <2> HIDE DEF Fresh
  <2>3. QED BY <1>6, <1>7, <1>8, <2>1, <2>2
<1> HIDE DEF Fresh
<1>11. CASE GCMsgs
  BY <1>7, <1>8, <1>11 DEF GCMsgs
<1>12. CASE UNCHANGED <<loops, msgs, delivered>>
  BY <1>7, <1>12
<1>13. QED BY <1>9, <1>10, <1>11, <1>12, ReaderMoves

\* Hence every step keeps it for all peers.
LEMMA FreshStep ==
  ASSUME SenderTypeOK, ReaderTypeOK, StagesAgree, TextsSettled, FreshKept, [Next]_vars
  PROVE  FreshKept'
<1>1. \A p \in Peer : FreshFrom(msgs[p], p)' /\ \A t \in Topic : FreshFrom(loops[p][t].copy, p)'
  BY FreshFromStep
<1>2. ASSUME NEW c \in recv', c[2][2] = 2 PROVE c[2] \in ToSet(delivered'[c[1]])
  <2>1. CASE c \in recv
    <3>1. c[1] \in Peer /\ c[2] \in ToSet(delivered[c[1]])
      BY <1>2, <2>1 DEF SenderTypeOK, Check, FreshKept, FreshRecvMeansDelivered
    <3>2. QED BY <3>1, DeliveredGrows
  <2>2. CASE c \notin recv
    <3>1. PICK n \in Send : VerifyMsgsRecvState(n)
      <4>1. ~ UNCHANGED SenderVars
        BY <2>2 DEF SenderVars
      <4>2. \A n \in Send, p \in Peer, t \in Topic : ~ MsgRandomTopicState(n, p, t)
        BY <2>2 DEF MsgRandomTopicState, verifyVars
      <4>3. \A n \in Send : ~ Sender(n)
        BY <2>2
        DEF Sender, SenderAsks, SenderStamps, SenderTimesOut, SenderHears, SenderVerifies, verifyVars
      <4>4. \A n \in Send : ~ Author(n)
        BY <2>2
        DEF Author, SendingMsgsState, Publish, PublishFails, MsgsSentState, verifyVars
      <4>5. ~ VerifyMsgsRecvRemoved /\ \A n \in Send : ~ VerifyMsgsRecvDropped(n)
        BY <2>2 DEF VerifyMsgsRecvRemoved, VerifyMsgsRecvDropped
      <4>6. QED
        BY <4>1, <4>2, <4>3, <4>4, <4>5, SenderQuiet DEF Next, Membership, Reader, Verifier
    <3>2. /\ c \in Examined(n) \X ({n} \X {1, 2}) /\ Stored(c[1], c[2])
      BY <2>2, <3>1 DEF VerifyMsgsRecvState
    <3>3. c[1] \in Peer /\ c[2] = <<n, 2>>
      <4>1. Examined(n) \subseteq Peer
        BY DEF Examined, GetTopicPeers
      <4>2. QED BY <1>2, <3>2, <4>1
    <3>4. Random(n) \in ToSet(msgs[c[1]])
      <4>1. <<n, 2>> \in Id
        BY DEF Id
      <4>2. Content(<<n, 2>>) = Random(n)
        BY <4>1, RandomText
      <4>3. QED BY <3>2, <3>3, <4>2 DEF Stored
    <3>5. c[2] \in ToSet(delivered[c[1]])
      BY <3>3, <3>4 DEF FreshKept, FreshFrom
    <3>6. QED BY <3>3, <3>5, DeliveredGrows
  <2>3. QED BY <2>1, <2>2
<1>3. QED BY <1>1, <1>2 DEF FreshKept, FreshRecvMeansDelivered, FreshFrom, Random

\* A peer at rest has cut what it wrote last.
LEMMA BufferStep ==
  ASSUME SenderTypeOK, ReaderTypeOK, StagesAgree, TextsSettled, BufferBounded, [Next]_vars
  PROVE  BufferBounded'
<1>1. /\ loops \in [Peer -> [Topic -> Loop]] /\ msgs \in [Peer -> Seq(Text)]
  BY DEF ReaderTypeOK
<1>2. SUFFICES ASSUME NEW p \in Peer, \A t \in Topic : loops'[p][t] = Idle
      PROVE  Len(msgs'[p]) <= MaxMsgsPerPeer
  BY DEF BufferBounded, Resting
<1>3. Len(LastMsgs(msgs[p])) <= MaxMsgsPerPeer
  BY <1>1, LastMsgsCuts
<1>4. ASSUME msgs'[p] = msgs[p], loops'[p] = loops[p] PROVE Len(msgs'[p]) <= MaxMsgsPerPeer
  BY <1>2, <1>4 DEF BufferBounded, Resting
<1>5. ASSUME NEW q \in Peer, NEW t \in Topic, ReadLoopTakes(q, t) \/ StoreAppends(q, t)
      PROVE  msgs'[p] = msgs[p] /\ loops'[p] = loops[p]
  <2>1. PICK l : /\ l.step \in {"append", "cut"} /\ loops' = [loops EXCEPT ![q][t] = l]
                 /\ \A r \in Peer : r # q => msgs'[r] = msgs[r]
    <3>1. CASE ReadLoopTakes(q, t)
      <4>1. PICK id : loops' = [loops EXCEPT ![q][t] =
                        [step |-> "append", copy |-> Append(msgs[q], Content(id))]]
        BY <3>1 DEF ReadLoopTakes
      <4>2. msgs' = msgs
        BY <3>1 DEF ReadLoopTakes
      <4>3. [step |-> "append", copy |-> Append(msgs[q], Content(id))].step = "append"
        OBVIOUS
      <4>4. QED BY <4>1, <4>2, <4>3
    <3>2. CASE StoreAppends(q, t)
      <4>1. /\ loops' = [loops EXCEPT ![q][t] = [step |-> "cut", copy |-> <<>>]]
            /\ msgs' = [msgs EXCEPT ![q] = loops[q][t].copy]
        BY <3>2 DEF StoreAppends
      <4>2. [step |-> "cut", copy |-> <<>>].step = "cut"
        OBVIOUS
      <4>3. \A r \in Peer : r # q => msgs'[r] = msgs[r]
        BY <1>1, <4>1
      <4>4. QED BY <4>1, <4>2, <4>3
    <3>3. QED BY <1>5, <3>1, <3>2
  <2>2. l # Idle
    BY <2>1 DEF Idle
  <2>3. p # q
    BY <1>1, <1>2, <2>1, <2>2
  <2>4. QED BY <1>1, <2>1, <2>3
<1>6. ASSUME NEW q \in Peer, NEW t \in Topic, StoreCuts(q, t)
      PROVE  Len(msgs'[p]) <= MaxMsgsPerPeer
  BY <1>1, <1>3, <1>4, <1>6 DEF StoreCuts
<1>7. CASE GCMsgs
  BY <1>3, <1>7 DEF GCMsgs
<1>8. QED BY <1>4, <1>5, <1>6, <1>7, ReaderMoves

\* The invariant holds at the start.
LEMMA MsgInvInit == Init => MsgInv
<1> SUFFICES ASSUME Init PROVE MsgInv
  OBVIOUS
<1>1. ToSet(<<>>) = {} /\ Idle \in Loop /\ Idle.copy = <<>>
  BY DEF ToSet, Idle, Loop
<1>2. SenderTypeOK
  BY DEF Init, SenderTypeOK
<1>3. ReaderTypeOK
  BY <1>1 DEF Init, ReaderTypeOK
<1>4. StagesAgree
  BY <1>1 DEF Init, StagesAgree
<1>5. TextsSettled
  BY <1>1 DEF Init, TextsSettled
<1>6. FreshKept
  BY <1>1 DEF Init, FreshKept, FreshFrom, FreshRecvMeansDelivered
<1>7. BufferBounded
  BY Bounds DEF Init, BufferBounded
<1>8. QED BY <1>2, <1>3, <1>4, <1>5, <1>6, <1>7 DEF MsgInv

\* The invariant of the messages: however many sends, peers and topics there are.
THEOREM MessagesInvariance == Spec => []MsgInv
<1>1. Init => MsgInv
  BY MsgInvInit
<1>2. MsgInv /\ [Next]_vars => MsgInv'
  BY SenderTypeStep, StagesStep, ReaderTypeStep, TextsStep, FreshStep, BufferStep DEF MsgInv
<1>3. QED BY <1>1, <1>2, PTL DEF Spec

\* Whatever the orders of senders, authors and timeouts, nothing is verified (and
\* no verification is queued) before both messages of the send are published.
THEOREM VerifiedLast == Spec => []VerifiedAfterPublished
<1>1. MsgInv => VerifiedAfterPublished
  BY DEF MsgInv, StagesAgree, VerifiedAfterPublished
<1>2. QED BY <1>1, MessagesInvariance, PTL

\* A random message counts as received by a peer only where pubsub brought it.
THEOREM FreshIsDelivered == Spec => []FreshRecvMeansDelivered
<1>1. MsgInv => FreshRecvMeansDelivered
  BY DEF MsgInv, FreshKept
<1>2. QED BY <1>1, MessagesInvariance, PTL

\* Unlocked as they are, the read loops of a peer leave no more than the last
\* maxMsgsPerPeer messages behind.
THEOREM BuffersBounded == Spec => []BufferBounded
<1>1. MsgInv => BufferBounded
  BY DEF MsgInv
<1>2. QED BY <1>1, MessagesInvariance, PTL

-----------------------------------------------------------------------------
(* One topic: one read loop per peer *)

\* What a peer has read follows what was delivered to it.
LEMMA TextsRead ==
  ASSUME SenderTypeOK, ReaderTypeOK, StagesAgree, TextsSettled, [Next]_vars, NEW p \in Peer
  PROVE  /\ Texts(p) \in Seq(Text)
         /\ delivered'[p] = delivered[p] => Texts(p)' = Texts(p)
         /\ \A id \in Id : Begun(id) /\ delivered'[p] = Append(delivered[p], id) =>
              Texts(p)' = Append(Texts(p), Content(id))
<1> DEFINE d == delivered[p]
<1>1. d \in Seq(Id) /\ Len(d) \in Nat /\ DOMAIN d = 1..Len(d)
  BY DEF ReaderTypeOK
<1>2. ASSUME NEW i \in DOMAIN d
      PROVE  Content(d[i]) \in Text
  <2>1. d[i] \in Id /\ Begun(d[i])
    BY <1>1 DEF TextsSettled, ToSet
  <2>2. QED BY <2>1, TextStays
<1>3. ASSUME NEW id \in Id, Begun(id)
      PROVE  Content(id) = IF id[2] = 1 THEN [own |-> send'[id[1]].peer] ELSE [random |-> id[1]]
  BY <1>3, TextStays DEF Content
<1>4. \A i \in DOMAIN d : Begun(d[i]) /\ d[i] \in Id
  BY <1>1 DEF TextsSettled, ToSet
<1>5. Texts(p) \in Seq(Text) /\ Len(Texts(p)) = Len(d)
  BY <1>1, <1>2 DEF Texts
<1>6. ASSUME delivered'[p] = d PROVE Texts(p)' = Texts(p)
  BY <1>3, <1>4, <1>6 DEF Texts, Content
<1>7. ASSUME NEW id \in Id, Begun(id), delivered'[p] = Append(d, id)
      PROVE  Texts(p)' = Append(Texts(p), Content(id))
  <2> DEFINE e == Append(d, id)
             T(x) == IF x[2] = 1 THEN [own |-> send'[x[1]].peer] ELSE [random |-> x[1]]
  <2>1. /\ DOMAIN e = 1..(Len(d) + 1) /\ e[Len(d) + 1] = id /\ \A i \in 1..Len(d) : e[i] = d[i]
    BY <1>1
  <2>2. Texts(p)' = [i \in DOMAIN e |-> T(e[i])]
    BY <1>7 DEF Texts, Content
  <2>3. Append(Texts(p), Content(id)) =
          [i \in 1..(Len(d) + 1) |-> IF i = Len(d) + 1 THEN Content(id) ELSE Texts(p)[i]]
    <3>1. Texts(p) \in Seq(Text) /\ Content(id) \in Text /\ Len(Texts(p)) = Len(d)
      BY <1>5, <1>7, TextStays
    <3>2. ASSUME NEW s \in Seq(Text), NEW x \in Text
          PROVE  Append(s, x) = [i \in 1..(Len(s) + 1) |-> IF i = Len(s) + 1 THEN x ELSE s[i]]
      <4> DEFINE r == [i \in 1..(Len(s) + 1) |-> IF i = Len(s) + 1 THEN x ELSE s[i]]
      <4>1. r \in Seq(Text) /\ Len(r) = Len(s) + 1
        <5>1. Len(s) \in Nat /\ \A i \in 1..Len(s) : s[i] \in Text
          OBVIOUS
        <5>2. \A i \in 1..(Len(s) + 1) : i \in 1..Len(s) \/ i = Len(s) + 1
          BY <5>1
        <5>3. r \in [1..(Len(s) + 1) -> Text]
          BY <5>1, <5>2
        <5>4. QED BY <5>1, <5>3
      <4>2. /\ Append(s, x) \in Seq(Text) /\ Len(Append(s, x)) = Len(s) + 1
            /\ \A i \in 1..(Len(s) + 1) :
                 Append(s, x)[i] = IF i = Len(s) + 1 THEN x ELSE s[i]
        OBVIOUS
      <4>3. \A i \in 1..(Len(s) + 1) : r[i] = IF i = Len(s) + 1 THEN x ELSE s[i]
        OBVIOUS
      <4> HIDE DEF r
      <4>4. Append(s, x) = r
        BY <4>1, <4>2, <4>3, SeqEqual
      <4>5. QED BY <4>4 DEF r
    <3>3. QED BY <3>1, <3>2
  <2>4. \A i \in 1..Len(d) : Texts(p)[i] = Content(d[i]) /\ T(d[i]) = Content(d[i])
    BY <1>1, <1>3, <1>4 DEF Texts
  <2>5. T(id) = Content(id)
    BY <1>3, <1>7
  <2>6. \A i \in 1..(Len(d) + 1) : i \in 1..Len(d) \/ i = Len(d) + 1
    BY <1>1
  <2>7. Len(d) + 1 \notin 1..Len(d)
    BY <1>1
  <2> HIDE DEF e, T
  <2>8. \A i \in 1..(Len(d) + 1) :
          T(e[i]) = IF i = Len(d) + 1 THEN Content(id) ELSE Texts(p)[i]
    BY <2>1, <2>4, <2>5, <2>6, <2>7
  <2>9. QED BY <2>1, <2>2, <2>3, <2>8
<1>8. QED BY <1>5, <1>6, <1>7

\* With one topic, every step keeps the buffer the tail of what was read.
LEMMA OneLoopStep ==
  ASSUME NEW t, Topic = {t}, MsgInv, OneLoop, [Next]_vars
  PROVE  OneLoop'
<1>1. /\ loops \in [Peer -> [Topic -> Loop]] /\ msgs \in [Peer -> Seq(Text)]
      /\ delivered \in [Peer -> Seq(Id)]
  BY DEF MsgInv, ReaderTypeOK
<1>2. /\ SenderTypeOK /\ ReaderTypeOK /\ StagesAgree /\ TextsSettled
  BY DEF MsgInv
<1>3. SUFFICES ASSUME NEW p \in Peer
      PROVE  /\ loops'[p][t].step = "idle"   => msgs'[p] = LastMsgs(Texts(p)')
             /\ loops'[p][t].step = "append" => LastMsgs(loops'[p][t].copy) = LastMsgs(Texts(p)')
             /\ loops'[p][t].step = "cut"    => LastMsgs(msgs'[p]) = LastMsgs(Texts(p)')
  BY DEF OneLoop, LastMsgs, Texts
<1> DEFINE l == loops[p][t]
           read == LastMsgs(Texts(p))
           Goal == /\ loops'[p][t].step = "idle"   => msgs'[p] = LastMsgs(Texts(p)')
                   /\ loops'[p][t].step = "append" => LastMsgs(loops'[p][t].copy) = LastMsgs(Texts(p)')
                   /\ loops'[p][t].step = "cut"    => LastMsgs(msgs'[p]) = LastMsgs(Texts(p)')
<1>4. /\ l.step = "idle"   => msgs[p] = read
      /\ l.step = "append" => LastMsgs(l.copy) = read
      /\ l.step = "cut"    => LastMsgs(msgs[p]) = read
  BY DEF OneLoop
<1>5. /\ Texts(p) \in Seq(Text)
      /\ delivered'[p] = delivered[p] => Texts(p)' = Texts(p)
      /\ \A id \in Id : Begun(id) /\ delivered'[p] = Append(delivered[p], id) =>
           Texts(p)' = Append(Texts(p), Content(id))
  BY <1>2, TextsRead
<1>6. LastMsgs(read) = read /\ LastMsgs(LastMsgs(msgs[p])) = LastMsgs(msgs[p])
  BY <1>1, <1>5, LastMsgsCuts
<1>7. ASSUME msgs'[p] = msgs[p], loops'[p] = loops[p], delivered'[p] = delivered[p] PROVE Goal
  BY <1>4, <1>5, <1>7
<1>8. ASSUME NEW q \in Peer, NEW u \in Topic, ReadLoopTakes(q, u) PROVE Goal
  <2>1. PICK id \in Id :
          /\ Begun(id) /\ Content(id) \in Text
          /\ loops[q][u].step = "idle" /\ msgs' = msgs
          /\ delivered' = [delivered EXCEPT ![q] = Append(delivered[q], id)]
          /\ loops' = [loops EXCEPT ![q][u] =
               [step |-> "append", copy |-> Append(msgs[q], Content(id))]]
    BY <1>2, <1>8, TakeTyped
  <2>2. CASE p # q
    <3>1. loops'[p] = loops[p] /\ delivered'[p] = delivered[p]
      BY <1>1, <2>1, <2>2
    <3> HIDE DEF Goal
    <3>2. QED BY <1>7, <2>1, <3>1
  <2>3. CASE p = q
    <3>1. u = t
      OBVIOUS
    <3>2. /\ loops'[p][t] = [step |-> "append", copy |-> Append(msgs[p], Content(id))]
          /\ delivered'[p] = Append(delivered[p], id) /\ msgs[p] = read
      BY <1>1, <1>4, <2>1, <2>3, <3>1
    <3>3. LastMsgs(Append(read, Content(id))) = LastMsgs(Append(Texts(p), Content(id)))
      BY <1>5, <2>1, LastMsgsAppend
    <3>4. Texts(p)' = Append(Texts(p), Content(id))
      BY <1>5, <2>1, <3>2
    <3> HIDE DEF read
    <3>5. QED BY <3>2, <3>3, <3>4
  <2>4. QED BY <2>2, <2>3
<1>9. ASSUME NEW q \in Peer, NEW u \in Topic, StoreAppends(q, u) PROVE Goal
  <2>1. /\ delivered'[p] = delivered[p] /\ u = t
        /\ loops[q][t].step = "append" /\ msgs' = [msgs EXCEPT ![q] = loops[q][t].copy]
        /\ loops' = [loops EXCEPT ![q][t] = [step |-> "cut", copy |-> <<>>]]
    BY <1>9 DEF StoreAppends
  <2>2. CASE p # q
    <3>1. loops'[p] = loops[p] /\ msgs'[p] = msgs[p]
      BY <1>1, <2>1, <2>2
    <3> HIDE DEF Goal
    <3>2. QED BY <1>7, <2>1, <3>1
  <2>3. CASE p = q
    <3>1. loops'[p][t].step = "cut" /\ msgs'[p] = l.copy /\ LastMsgs(l.copy) = read
      BY <1>1, <1>4, <2>1, <2>3
    <3>2. QED BY <1>5, <2>1, <3>1
  <2>4. QED BY <2>2, <2>3
<1>10. ASSUME NEW q \in Peer, NEW u \in Topic, StoreCuts(q, u) PROVE Goal
  <2>1. /\ delivered'[p] = delivered[p] /\ u = t
        /\ loops[q][t].step = "cut" /\ msgs' = [msgs EXCEPT ![q] = LastMsgs(msgs[q])]
        /\ loops' = [loops EXCEPT ![q][t] = Idle]
    BY <1>10 DEF StoreCuts
  <2>2. CASE p # q
    <3>1. loops'[p] = loops[p] /\ msgs'[p] = msgs[p]
      BY <1>1, <2>1, <2>2
    <3> HIDE DEF Goal
    <3>2. QED BY <1>7, <2>1, <3>1
  <2>3. CASE p = q
    <3>1. loops'[p][t] = Idle /\ msgs'[p] = LastMsgs(msgs[p]) /\ LastMsgs(msgs[p]) = read
      BY <1>1, <1>4, <2>1, <2>3
    <3>2. QED BY <1>5, <2>1, <3>1 DEF Idle
  <2>4. QED BY <2>2, <2>3
<1>11. CASE GCMsgs
  <2>1. delivered'[p] = delivered[p] /\ loops'[p] = loops[p] /\ msgs'[p] = LastMsgs(msgs[p])
    BY <1>11 DEF GCMsgs
  <2>2. QED BY <1>4, <1>5, <1>6, <2>1
<1>12. CASE UNCHANGED <<loops, msgs, delivered>>
  BY <1>4, <1>5, <1>12
<1>13. QED
  <2>1. CASE \E q \in Peer, u \in Topic :
               ReadLoopTakes(q, u) \/ StoreAppends(q, u) \/ StoreCuts(q, u)
    BY <1>8, <1>9, <1>10, <2>1
  <2>2. QED BY <1>11, <1>12, <2>1, ReaderMoves

\* sim.go:478 and peer.go:419: where a peer reads one topic only, its buffer holds
\* between two messages exactly the last maxMsgsPerPeer read.  With two topics the
\* read loops race for it, and only BuffersBounded is left.
THEOREM OneTopicKeepsLast ==
  ASSUME NEW t, Topic = {t}
  PROVE  Spec => []KeepsLastMsgs
<1>1. Init => OneLoop
  <2> SUFFICES ASSUME Init, NEW p \in Peer
      PROVE  msgs[p] = LastMsgs(Texts(p)) /\ loops[p][t].step = "idle"
    BY DEF OneLoop
  <2>1. msgs[p] = <<>> /\ delivered[p] = <<>> /\ loops[p][t].step = "idle"
    BY DEF Init, Idle
  <2>2. Texts(p) = <<>>
    BY <2>1 DEF Texts
  <2>3. LastMsgs(<<>>) = <<>>
    BY Bounds DEF LastMsgs
  <2>4. QED BY <2>1, <2>2, <2>3
<1>2. MsgInv /\ OneLoop /\ [Next]_vars => OneLoop'
  BY OneLoopStep
<1>3. OneLoop => KeepsLastMsgs
  BY DEF OneLoop, KeepsLastMsgs, Resting, Texts, Idle
<1>4. QED BY <1>1, <1>2, <1>3, MessagesInvariance, PTL DEF Spec
=============================================================================
