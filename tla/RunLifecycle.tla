----------------------------- MODULE RunLifecycle -----------------------------
(***************************************************************************)
(* What a dataset run promises to the people who read it: its members are  *)
(* fixed once, it is complete only when every one of them is settled, and  *)
(* it never goes back.  DatasetRun implements this when the run is read    *)
(* through the list of runs.                                               *)
(***************************************************************************)
CONSTANTS Items,      \* the examples a run can have as members
          Undecided   \* the members of a run that has none enrolled yet

VARIABLES phase,      \* "absent", "open", "complete" or "deleted"
          members,    \* the enrolled examples
          settled     \* the examples whose outcome is known

vars == <<phase, members, settled>>

Init ==
  /\ phase = "absent"
  /\ members = Undecided
  /\ settled = {}

Open ==
  /\ phase = "absent"
  /\ phase' = "open"
  /\ UNCHANGED <<members, settled>>

\* The members are decided once, while the run is open.
Enrol(S) ==
  /\ phase = "open"
  /\ members = Undecided
  /\ members' = S
  /\ UNCHANGED <<phase, settled>>

\* Outcomes only accumulate; they may arrive before the enrolment.
Settle(S) ==
  /\ settled' = settled \cup S
  /\ UNCHANGED <<phase, members>>

Complete ==
  /\ phase = "open"
  /\ members # Undecided
  /\ members \subseteq settled
  /\ phase' = "complete"
  /\ UNCHANGED <<members, settled>>

\* Completing without members decides that there are none, ever.
CompleteEmpty ==
  /\ phase = "open"
  /\ members = Undecided
  /\ phase' = "complete"
  /\ members' = {}
  /\ UNCHANGED settled

\* The deletion takes the members, and what was recorded on them, with it.
Delete ==
  /\ phase \in {"open", "complete"}
  /\ phase' = "deleted"
  /\ members' = Undecided
  /\ settled' \in SUBSET settled

Next ==
  \/ Open \/ Complete \/ CompleteEmpty \/ Delete
  \/ \E S \in SUBSET Items : Enrol(S) \/ Settle(S)

Spec == Init /\ [][Next]_vars
=============================================================================
