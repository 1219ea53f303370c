----------------------------- MODULE MCSettings ------------------------------
EXTENDS Settings
CONSTANTS r1, r2, r3, x1, x2, x3, default, named,
          k1, k2, k3
\* Each mix of requests, dealt in every way.
Mixes == {<<"read", "write", "write">>, <<"ingest", "write", "done">>}
Dealt(mix) == {[r \in Requests |-> mix[deal[r]]] :
                 deal \in {f \in [Requests -> 1..3] : {f[r] : r \in Requests} = 1..3}}
MCStarts == UNION {Dealt(mix) : mix \in Mixes}
\* ... and none.
MCNoStarts == {[r \in Requests |-> "done"]}
MCAsked == {{"tier"}, {"default", "named"}, {"alerts"}, {"rules"}}
Symmetry == Permutations(Requests) \cup Permutations(Procs) \cup Permutations(Orgs)
MCProviderOf == [k \in ApiKeys |-> IF k = k3 THEN "gemini" ELSE "openai"]
Rule == [enabled |-> TRUE, metrics |-> TRUE, judges |-> FALSE, rate |-> 100]
MCDrafts == {Rule, [Rule EXCEPT !.metrics = FALSE, !.judges = TRUE]}
NoRules == [x \in Rules |-> Absent]
Bare == [tier |-> "Free", default |-> Absent, named |-> Absent, alerts |-> Absent, rules |-> NoRules]
MCStored == {Bare, [Bare EXCEPT !.tier = "Team", !.rules[x1] = Rule],
             [Bare EXCEPT !.tier = "Team", !.named = "scan"]}
Call == [type |-> "llm", root |-> TRUE, running |-> FALSE, response |-> TRUE,
         eval |-> TRUE, config |-> TRUE, security |-> Absent]
MCEvents == {Call, [Call EXCEPT !.config = FALSE], [Call EXCEPT !.eval = FALSE, !.security = "named"],
             [Call EXCEPT !.running = TRUE, !.security = "default"],
             [Call EXCEPT !.type = "retrieval", !.security = "default"]}
\* Between the limits, above the range, below it, and what is no number.
MCReplies == {[kind |-> "number", value |-> v] : v \in {-1, 6, 12}}
             \cup {[kind |-> k] : k \in {"unread", "down"}}
=============================================================================
