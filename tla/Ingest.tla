------------------------------- MODULE Ingest --------------------------------
(***************************************************************************)
(* POST /ingest: a trace is stamped with how long it is kept and published, *)
(* and the jobs that evaluate and scan it are published after it.           *)
(*                                                                          *)
(* The lookups a request makes go through the copies of its process.  Each  *)
(* publication can fail; what has been published by then stays.             *)
(***************************************************************************)
EXTENDS OnlineRules

CONSTANT Events          \* the events that come in: records of
                         \*   type, root, running, response, eval, config, security

ASSUME EventsAssumption ==
  \A e \in Events : /\ e.security \in {"default", "named", Absent}
                    /\ {e.root, e.running, e.response, e.eval, e.config} \subseteq BOOLEAN

VARIABLES
  traces,                \* the published traces, with the stamp of each
  evals,                 \* the evaluation jobs published for each
  scans,                 \* the traces a security job was published for
  answers                \* "ok", "refused", "late" or Absent

ingestVars == <<ruleVars, traces, evals, scans, answers>>
topics == <<traces, evals, scans>>

\* What is known of an event: its quota, once that is read, with "over" open until
\* the evaluations are counted, and whether the organization pays ("sure", see Pays).
Quotas == [days : {14, 36500}, over : BOOLEAN, sure : BOOLEAN]
Stamps == [days : {14, 36500}, paid : BOOLEAN]
EventKeys == {"tier", "room", "default", "named", "rules", "none"}
KnownEvents == [proc : Procs, key : EventKeys, event : Events, quota : Quotas \cup {Absent}]
ASSUME NoEventAssumption == Absent \notin KnownEvents \cup Stamps \cup {"ok", "refused", "late"}

IngestTypeOK ==
  /\ \A r \in Requests : traces[r] = Absent \/ traces[r] \in Stamps
  /\ evals \in [Requests -> 0..3] /\ scans \subseteq Requests
  /\ answers \in [Requests -> {"ok", "refused", "late", Absent}]

\* TIER_QUOTAS: evaluations are limited on every tier but Enterprise, traces on
\* none, so that trace_over never holds.  TIER_RETENTION_DAYS.
Unlimited == -1
EvalQuota == [Free |-> 100, Team |-> 10000, Enterprise |-> Unlimited]
RetentionDays == [Free |-> 14, Team |-> 36500, Enterprise |-> 36500]

\* QuotaStatus when the lookups fail: the trace is kept, nothing is evaluated.
FailOpen(sure) == [days |-> 36500, over |-> TRUE, sure |-> sure]

Event(r) == known[r].event
Goes(r, s, key) == Move(r, s, [known[r] EXCEPT !.key = key])
Learns(r, s, key, quota) ==
  Move(r, s, [proc |-> P(r), key |-> key, event |-> Event(r), quota |-> quota])
Answered(r, a) == Leave(r) /\ answers' = [answers EXCEPT ![r] = a]

\* What an event asks for.
Evaluated(e) == ~e.running /\ e.eval
Retrieval(e) == e.type = "retrieval"

-----------------------------------------------------------------------------
\* The request comes in with a key that resolves to its organization.
Arrive(r) ==
  /\ at[r] = "ingest"
  /\ \E p \in Procs, e \in Events :
       Move(r, "tier", [proc |-> p, key |-> "tier", event |-> e, quota |-> Absent])
  /\ UNCHANGED <<rows, slipped, topics, answers>>

\* get_quota_status: the tier, then the count of evaluations where they are
\* limited.  What is scanned is looked up first, if a response is there.
AfterQuota(r, quota) ==
  LET e == Event(r)
  IN  IF e.security # Absent /\ ~e.running /\ e.type = "llm" /\ e.response
        THEN Learns(r, "gate", e.security, quota)
        ELSE Learns(r, "publish", "none", quota)

\* The organization pays and its copy of the tier should say so.
Pays(r) ==
  /\ stored.tier # "Free"
  /\ r \notin overtaken /\ <<P(r), "tier">> \notin excused
  /\ ~\E s \in Requests : at[s] = "settling" /\ P(s) = P(r) /\ Key(s) = "tier"

KnowTier(r) ==
  /\ at[r] = "tier"
  /\ \E tier \in Tiers :
       /\ Uses(r, "tier", tier)
       /\ LET quota == [days |-> RetentionDays[tier], over |-> FALSE, sure |-> Pays(r)]
          IN  IF EvalQuota[tier] = Unlimited
                THEN AfterQuota(r, quota)
                ELSE Learns(r, "room", "room", quota)
  /\ UNCHANGED <<slipped, topics, answers>>

KnowRoom(r) ==
  /\ at[r] = "room"
  /\ \E room \in {"left", "over"} :
       /\ Uses(r, "room", room)
       /\ AfterQuota(r, [known[r].quota EXCEPT !.over = (room = "over")])
  /\ UNCHANGED <<slipped, topics, answers>>

QuotaUnknown(r) ==
  /\ at[r] \in {"tier", "room"} /\ Missed(r)
  /\ AfterQuota(r, FailOpen(stored.tier # "Free"))
  /\ UNCHANGED <<rows, slipped, topics, answers>>

-----------------------------------------------------------------------------
\* The response gate: where the policy scans responses, the scanner is asked
\* and waited for.  What it says marks the event; no answer, or no way to ask,
\* lets the response pass: the request goes on in any case.
Gate(r) ==
  /\ at[r] = "gate"
  /\ \E policy \in Policies :
       /\ Uses(r, Event(r).security, policy)
       /\ Goes(r, "publish", "none")
  /\ UNCHANGED <<slipped, topics, answers>>

\* A policy that cannot be read is an error of the request, before or after
\* the trace is published.
NoPolicy(r) ==
  /\ at[r] \in {"gate", "guard"} /\ Missed(r)
  /\ Answered(r, IF at[r] = "gate" THEN "refused" ELSE "late")
  /\ UNCHANGED <<rows, slipped, topics>>

\* The trace is published with its stamp, or refused: it is too large, or the
\* broker did not take it.
Publish(r) ==
  /\ at[r] = "publish"
  /\ traces' = [traces EXCEPT ![r] = [days |-> known[r].quota.days, paid |-> known[r].quota.sure]]
  /\ Goes(r, "evaluate", "none")
  /\ UNCHANGED <<rows, slipped, evals, scans, answers>>

Refuse(r) ==
  /\ at[r] = "publish"
  /\ Answered(r, "refused")
  /\ UNCHANGED <<rows, slipped, topics>>

-----------------------------------------------------------------------------
\* _bump_cached: a copy of the count may have reached the quota.
Bump(r) ==
  IF Copy(r, "room") = "left"
    THEN \E room \in {"left", "over"} : cache' = [cache EXCEPT ![P(r)]["room"] = room]
    ELSE UNCHANGED cache

\* Evaluation is asked for by the event: of a retrieval, or of an LLM call that
\* says how.  A job that cannot be published is an error of the request.
Ordered(r) ==
  /\ Evaluated(Event(r)) /\ ~known[r].quota.over
  /\ Retrieval(Event(r)) \/ (Event(r).type = "llm" /\ Event(r).config)

\* Seeded fault: a trace that was scored is looked up for online rules too.
AfterAnyScore(r, scored) == Goes(r, "online", "none")

AfterScore(r, scored) == Goes(r, IF scored THEN "secure" ELSE "online", "none")

Evaluate(r) ==
  /\ at[r] = "evaluate"
  /\ IF Ordered(r)
       THEN /\ evals' = [evals EXCEPT ![r] = @ + 1] /\ Bump(r)
            /\ UNCHANGED <<stored, fetched, overtaken, excused, asked>>
       ELSE UNCHANGED <<rows, evals>>
  /\ AfterScore(r, Ordered(r))
  /\ UNCHANGED <<slipped, traces, scans, answers>>

EvaluateFails(r) ==
  /\ at[r] = "evaluate" /\ Ordered(r)
  /\ Answered(r, "late")
  /\ UNCHANGED <<rows, slipped, topics>>

\* _apply_online_rules, for what was not scored and while there is room.
Online(r) ==
  /\ at[r] = "online"
  /\ IF Event(r).running \/ known[r].quota.over
       THEN Goes(r, "secure", "none")
       ELSE Goes(r, "rules", "rules")
  /\ UNCHANGED <<rows, slipped, topics, answers>>

\* The rule that was selected orders a score; nothing that fails here fails
\* the request.
ApplyRules(r) ==
  /\ at[r] = "rules"
  /\ \E rules \in {Copy(r, "rules")} \cup (IF fetched[r] = Absent THEN {} ELSE {fetched[r].value}) :
       /\ Uses(r, "rules", rules)
       /\ Goes(r, IF Selectable(rules, Event(r)) = {} THEN "secure" ELSE "order", "none")
  /\ UNCHANGED <<slipped, topics, answers>>

OrderScore(r) ==
  /\ at[r] = "order"
  /\ \/ /\ evals' = [evals EXCEPT ![r] = @ + 1] /\ Bump(r)
        /\ UNCHANGED <<stored, fetched, overtaken, excused, asked>>
     \/ UNCHANGED <<rows, evals>>
  /\ Goes(r, "secure", "none")
  /\ UNCHANGED <<slipped, traces, scans, answers>>

-----------------------------------------------------------------------------
\* The security job carries what the policy says of the scan.
Secure(r) ==
  /\ at[r] = "secure"
  /\ IF Event(r).running \/ Event(r).security = Absent
       THEN Answered(r, "ok")
       ELSE Goes(r, "guard", Event(r).security) /\ UNCHANGED answers
  /\ UNCHANGED <<rows, slipped, topics>>

Scan(r) ==
  /\ at[r] = "guard"
  /\ \E policy \in Policies : Uses(r, Event(r).security, policy)
  /\ \/ scans' = scans \cup {r} /\ Answered(r, "ok")
     \/ UNCHANGED scans /\ Answered(r, "late")
  /\ UNCHANGED <<slipped, traces, evals>>

IngestStep(r) ==
  \/ Arrive(r) \/ KnowTier(r) \/ KnowRoom(r) \/ QuotaUnknown(r)
  \/ Gate(r) \/ NoPolicy(r) \/ Publish(r) \/ Refuse(r)
  \/ Evaluate(r) \/ EvaluateFails(r) \/ Online(r) \/ ApplyRules(r) \/ OrderScore(r)
  \/ Secure(r) \/ Scan(r)

-----------------------------------------------------------------------------
\* The traces of an organization that paid when its quota is looked up are kept
\* for good: not even a quota that cannot be read cuts them short, only a copy
\* of the tier that a change of plan did not reach.
PaidTracesStay ==
  \A r \in Requests : traces[r] # Absent /\ traces[r].paid => traces[r].days = 36500

\* What was answered is what was published: a request that is refused has
\* published nothing, one that is answered has published its trace and the scan
\* it asked for, and an error after the trace leaves it published.  No trace is
\* graded twice, and none is graded or scanned that runs or is not there; those
\* of an organization that paid are kept.
IngestAccounted == PaidTracesStay /\
  \A r \in Requests :
    /\ answers[r] = "refused" => traces[r] = Absent
    /\ answers[r] \in {"ok", "late"} => traces[r] # Absent
    /\ traces[r] = Absent => evals[r] = 0 /\ r \notin scans
    /\ evals[r] <= 1
    /\ at[r] = "secure" /\ Event(r).running => evals[r] = 0
    /\ r \in scans => answers[r] = "ok"
=============================================================================
