---------------------------- MODULE AsyncMachine ----------------------------
(***************************************************************************)
(* How asyncmachine-go (a library) turns a mutation into the next set of   *)
(* active states, as far as the state definitions of this repository use   *)
(* it: relations Require, Add and Remove, and Auto states.  The module is  *)
(* a set of operators; PeerMachine and TopicMachine instantiate it with    *)
(* their own state definitions.                                            *)
(***************************************************************************)
CONSTANTS
  State,      \* the names of the states
  Require,    \* [State -> SUBSET State]: active only together with these
  Adds,       \* [State -> SUBSET State]: activated along with it
  Removes,    \* [State -> SUBSET State]: deactivated and kept out by it
  Auto        \* states that activate themselves after a transition

\* S without the states whose requirements are not met.  Dropping one may leave
\* another without its own; a chain of requirements (JoiningTopic, Connected,
\* Start) has at most three states here, so two rounds reach the end of it.
Supported(S) == {s \in S : Require[s] \subseteq S}
Satisfied(S) == Supported(Supported(S))

\* S without what the states in `by' remove; a state never removes itself.
Without(S, by) == {s \in S : \A r \in by \ {s} : s \notin Removes[r]}

WithAdded(S) == S \cup UNION {Adds[s] : s \in S}

AddTarget(active, called) ==
  Satisfied(Without(active \cup WithAdded(called), WithAdded(called)))

RemoveTarget(active, called) == Satisfied(active \ called)

\* A mutation is cancelled when one of the states it asks for cannot be active.
Accepted(active, called) == called \subseteq AddTarget(active, called)

\* The transition that follows one that changed something: every Auto state
\* that nothing active keeps out and whose requirements are met.
AutoTarget(active) ==
  LET free  == {a \in Auto \ active : \A r \in active : a \notin Removes[r]}
      new   == free \cap Satisfied(active \cup free)
  IN Satisfied(Without(active \cup new, new))

Settle(before, after) == IF after = before THEN after ELSE AutoTarget(after)

AfterAdd(active, called) ==
  IF Accepted(active, called) THEN Settle(active, AddTarget(active, called)) ELSE active

AfterRemove(active, called) == Settle(active, RemoveTarget(active, called))
=============================================================================
