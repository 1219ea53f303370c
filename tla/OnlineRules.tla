----------------------------- MODULE OnlineRules -----------------------------
(***************************************************************************)
(* Online scoring rules: the requests that write them, and which of them   *)
(* orders a score for a trace.  A request checks what it read, and writes  *)
(* in a later step; the rules of an organization are few, and each scores  *)
(* something, unless two such requests overlap.                            *)
(***************************************************************************)
EXTENDS SettingCaches

CONSTANTS
  MaxRules,        \* MAX_RULES_PER_ORG
  Drafts           \* the rules that are asked for

ASSUME RulesAssumption ==
  IsFiniteSet(Rules) /\ MaxRules \in Nat /\ Drafts \subseteq RuleRows

VARIABLE slipped         \* rules were written on a read that no longer held

ruleVars == <<cacheVars, slipped>>

Present(rules) == {x \in Rules : Row(rules[x])}

\* RulePayload._needs_a_scorer.
Scores(rule) == rule.metrics \/ rule.judges

\* What a request knows that checked the rules, those it saw among it.
Patches == {"enabled", "metrics", "judges", "rate"}
KnownDrafts == [proc : Procs, key : {"rules"}, rule : RuleRows, seen : RuleTables]
KnownPatches == [proc : Procs, key : {"rules"}, rule : Rules, field : Patches, value : BOOLEAN,
                 seen : RuleTables]
ASSUME NoDraftAssumption == Absent \notin KnownDrafts \cup KnownPatches

Read(r, s, k) == Move(r, s, k) /\ UNCHANGED <<rows, slipped>>

\* POST: the plan is read, then the rules there are,
ListRules(r) ==
  /\ at[r] = "write" /\ "rules" \in asked
  /\ stored.tier # "Free"
  /\ Cardinality(Present(stored.rules)) < MaxRules
  /\ \E p \in Procs, rule \in Drafts :
       /\ Scores(rule)
       /\ Read(r, "adding", [proc |-> p, key |-> "rules", rule |-> rule,
                             seen |-> stored.rules])

\* ... and the new one is inserted.
Settle(r) == [proc |-> P(r), key |-> "rules", value |-> Absent]
WriteRules(r, rules) ==
  Write(r, Settle(r), [stored EXCEPT !.rules = rules], {"rules"})

CreateRule(r) ==
  /\ at[r] = "adding"
  /\ Present(stored.rules) # Rules
  /\ LET x == CHOOSE y \in Rules : ~Row(stored.rules[y])
     IN  WriteRules(r, [stored.rules EXCEPT ![x] = known[r].rule])
  /\ slipped' = (slipped \/ ~(Present(stored.rules) \subseteq Present(known[r].seen)))

Patched(rule, field, v) ==
  IF field = "rate" THEN [rule EXCEPT !.rate = IF v THEN 100 ELSE 0] ELSE [rule EXCEPT ![field] = v]

\* PATCH: a change of what a rule scores is checked with the rest of the rule
\* as it is read,
ReadRule(r) ==
  /\ at[r] = "write" /\ "rules" \in asked
  /\ \E p \in Procs, x \in Present(stored.rules), field \in Patches, v \in BOOLEAN :
       /\ field \in {"metrics", "judges"} => Scores(Patched(stored.rules[x], field, v))
       /\ Read(r, "patching", [proc |-> p, key |-> "rules", rule |-> x, field |-> field,
                               value |-> v, seen |-> stored.rules])

\* ... and the fields it carries are written, if the rule is still there.
UpdateRule(r) ==
  /\ at[r] = "patching"
  /\ LET x == known[r].rule
         row == stored.rules[x]
     IN  WriteRules(r, IF Row(row) THEN [stored.rules EXCEPT
                                           ![x] = Patched(row, known[r].field, known[r].value)]
                       ELSE stored.rules)
  /\ slipped' = (slipped \/ (/\ known[r].field \in {"metrics", "judges"}
                             /\ known[r].seen[known[r].rule] # stored.rules[known[r].rule]))

DeleteRule(r) ==
  /\ at[r] = "write" /\ "rules" \in asked
  /\ \E p \in Procs, x \in Rules :
       Write(r, [proc |-> p, key |-> "rules", value |-> Absent],
             [stored EXCEPT !.rules[x] = Absent], {"rules"})
  /\ UNCHANGED slipped

RulesStep(r) ==
  \/ ListRules(r) \/ CreateRule(r) \/ ReadRule(r) \/ UpdateRule(r) \/ DeleteRule(r)

\* There are at most MaxRules rules and each scores something (RulePayload
\* refuses one that would take traces from the sample and score none), unless
\* requests overlapped that each checked what it read.
RulesInBounds ==
  slipped \/ /\ Cardinality(Present(stored.rules)) <= MaxRules
             /\ \A x \in Present(stored.rules) : Scores(stored.rules[x])

-----------------------------------------------------------------------------
(* Which rule scores a trace. *)

\* matches: of an event of type "llm", a rule of span scope "root" wants roots;
\* filters of integrations and models are left out, a rule has none.
Matches(event) == event.type = "llm" /\ event.root

\* in_sample is decided by the trace and the rule alone: here all or none.
InSample(rule) == rule.rate = 100

\* select_rule: the first of the enabled rules that has scorers, matches and
\* samples the trace.  The query gives them no order, so it may be any.
Selectable(rules, event) ==
  {x \in rules : x[2].enabled /\ Matches(event) /\ Scores(x[2]) /\ InSample(x[2])}
=============================================================================
