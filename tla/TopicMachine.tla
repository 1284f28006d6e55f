---------------------------- MODULE TopicMachine ----------------------------
(***************************************************************************)
(* One topic of the simulator (internal/sim/topic.go): its indexes, the    *)
(* peer count and the log of sent messages, and the machine whose states   *)
(* IndexesToStates derives from them.  The indexes change only inside an   *)
(* Eval on the simulator's queue, and the topic's machine has no other     *)
(* user, so a change with its re-indexing is one step.                     *)
(***************************************************************************)
EXTENDS Integers, FiniteSets

CONSTANTS
  TopicPeakingMinPeers,   \* config.go: topicPeakingMinPeers
  MaxCount,               \* bound of this model: |peersCount|
  MaxLog                  \* bound of this model: entries of msgsLog

ASSUME TopicAssumption ==
  {MaxCount, MaxLog} \subseteq Nat /\ TopicPeakingMinPeers \in Nat \ {0}

VARIABLES
  active,       \* active states of the topic's machine
  peersCount,
  recent,       \* entries of msgsLog younger than topicActiveWindow
  old           \* entries of msgsLog that have outlived it

States  == {"Stale", "HasPeers", "Active", "Peaking"}
Nothing == [s \in States |-> {}]
Machine == INSTANCE AsyncMachine WITH
  State   <- States,
  Auto    <- {"Stale"},
  Require <- [Nothing EXCEPT !["Peaking"] = {"HasPeers"}],
  Adds    <- Nothing,
  Removes <- [Nothing EXCEPT !["Active"] = {"Stale"}, !["Peaking"] = {"Stale"}]

Init == active = {} /\ peersCount = 0 /\ recent = 0 /\ old = 0

\* One Add1 or Remove1 of IndexesToStates.
Set(states, name, on) ==
  IF on THEN Machine!AfterAdd(states, {name}) ELSE Machine!AfterRemove(states, {name})

\* Mutant: Peaking starts one peer late.
IndexedLate(states, count, msgs) ==
  LET hasPeers == Set(states, "HasPeers", count # 0)
      peaking  == Set(hasPeers, "Peaking", count > TopicPeakingMinPeers)
  IN Set(peaking, "Active", msgs # 0)
Indexed(states, count, msgs) ==
  LET hasPeers == Set(states, "HasPeers", count # 0)
      peaking  == Set(hasPeers, "Peaking", count >= TopicPeakingMinPeers)
  IN Set(peaking, "Active", msgs # 0)

\* Entries outside the window are dropped on the way (disposeOldMsgs).  Mutant: the
\* states are derived before the log is written.
IndexesToStatesEarly ==
  /\ active' = Indexed(active, peersCount', recent)
  /\ old' = 0
IndexesToStates ==
  /\ active' = Indexed(active, peersCount', recent')
  /\ old' = 0

\* Sim.topicPeerChange: a report of a join or of a leave; reports may overtake
\* each other, so the count may be negative.
PeerChange(amount) ==
  /\ peersCount' = peersCount + amount
  /\ peersCount' \in -MaxCount..MaxCount
  /\ UNCHANGED recent
  /\ IndexesToStates

\* Sim.topicMsgs: a peer sent messages to the topic.
Msgs ==
  /\ recent + old < MaxLog
  /\ recent' = recent + 1
  /\ UNCHANGED peersCount
  /\ IndexesToStates

\* topicActiveWindow passes for the oldest entry; nothing re-indexes the topic.
\* Mutant: an entry that is not there grows old.
WindowPassesEmpty ==
  recent' = recent - 1 /\ old' = old + 1 /\ UNCHANGED <<active, peersCount>>
WindowPasses ==
  /\ recent > 0
  /\ recent' = recent - 1 /\ old' = old + 1
  /\ UNCHANGED <<active, peersCount>>

-----------------------------------------------------------------------------
(* Properties *)

\* Whatever order the reports come in and whatever relations fire on the way,
\* HasPeers and Peaking say what the count says.
CountStatesExact ==
  /\ "HasPeers" \in active <=> peersCount # 0
  /\ "Peaking" \in active <=> peersCount >= TopicPeakingMinPeers

\* ss_topic.go:25, "Stale means no recent msgs", and it is the state a topic
\* falls back to: an indexed topic is Stale unless it is Active or Peaking.
StaleExact ==
  /\ "Stale" \in active => recent = 0
  /\ active # {} => ("Stale" \in active <=> active \cap {"Active", "Peaking"} = {})
=============================================================================
