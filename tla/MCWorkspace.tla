------------------------------ MODULE MCWorkspace ------------------------------
(* Instances of Workspace for TLC. *)
EXTENDS Workspace, TLC

CONSTANTS r1, r2, r3, u1, u2, u3, o1, o2, o3

MCHome == u1 :> o1 @@ u2 :> o2
\* Each mix of parts, dealt to the requests in every way.
Mixes == {<<"organization", "organization", "done">>, <<"organization", "plan", "done">>,
          <<"organization", "session", "done">>, <<"plan", "plan", "plan">>,
          <<"plan", "session", "done">>, <<"session", "session", "session">>}
Dealt == {[r \in Requests |-> mix[deal[r]]] :
                mix \in Mixes, deal \in {f \in [Requests -> 1..3] : f[r1] # f[r2] /\ f[r2] # f[r3] /\ f[r1] # f[r3]}}
OnTrial(o) == [NewUser(o) EXCEPT !.type = "Team", !.trial = "running", !.used = TRUE]
Among(part, n) == {d \in Dealt : Cardinality({r \in Requests : d[r] = part}) >= n}
\* A guest with three organizations can lose two of them at once.
MCStarts == [at : Dealt, row : {NewUser(o1)}, founded : {{}}]
              \cup [at : Among("plan", 1), row : {OnTrial(o1)}, founded : {{}}]
              \cup [at : Among("organization", 2), row : {NewUser(o1)}, founded : {{o3}}]
Symmetry == Permutations(Requests)
=============================================================================
