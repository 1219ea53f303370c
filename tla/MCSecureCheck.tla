---------------------------- MODULE MCSecureCheck ----------------------------
(* Instances of SecureCheck for TLC. *)
EXTENDS SecureCheck, TLC

CONSTANTS p1, p2, o1, o2

Clean == [deny |-> FALSE, allow |-> FALSE, risk |-> "low", blockable |-> TRUE, medium |-> FALSE]

Ticket(p, o, kind, input) == [home |-> p, org |-> o, kind |-> kind, input |-> input]

CleanCheck == {Ticket(p1, o1, "check", Clean)}

\* Checks that reach the worker, of two organizations and on two replicas, one
\* with a high risk the policy does not block; a prompt on both lists; one whose
\* patterns block despite the allow list; a gated response; a playground request.
SomeTickets ==
  { Ticket(p1, o1, "check", [Clean EXCEPT !.risk = "high", !.blockable = FALSE]),
    Ticket(p1, o2, "check", Clean), Ticket(p2, o1, "check", Clean),
    Ticket(p1, o1, "check", [Clean EXCEPT !.deny = TRUE, !.allow = TRUE]),
    Ticket(p1, o1, "check", [Clean EXCEPT !.risk = "medium", !.medium = TRUE, !.allow = TRUE]),
    Ticket(p1, o2, "gate", Clean), Ticket(p1, o1, "playground", Clean) }
=============================================================================
