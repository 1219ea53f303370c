---------------------------- MODULE SettingCaches ----------------------------
(***************************************************************************)
(* What an organization has set, as the API processes read it: its tier    *)
(* and the room left in its quotas, its guardrail policies, its alert      *)
(* settings, its online rules.  Each is a row of Postgres that a process   *)
(* keeps a copy of for some seconds.                                       *)
(*                                                                         *)
(* A copy that is too old counts as none.  A lookup that finds no copy     *)
(* reads the row, and stores and uses what it read in a later step.  A     *)
(* write changes the row, and settles the copy of its own process in a     *)
(* later step: other processes are not told.                               *)
(***************************************************************************)
EXTENDS Integers, FiniteSets

CONSTANTS
  Requests,        \* requests, each served once by one of the
  Procs,           \* processes
  Rules,           \* identifiers of online rules
  Absent           \* no row, no copy, nothing read

VARIABLES
  stored,          \* the rows
  cache,           \* the copies of each process
  at, known,       \* where each request stands and what it knows
  fetched,         \* what a lookup has read and not stored yet
  overtaken,       \* requests whose setting was written by another one
                   \* since they read or wrote it
  excused,         \* copies, <<process, setting>>, a write did not reach
  asked            \* the settings that the requests are about

rows == <<stored, cache, fetched, overtaken, excused, asked>>
cacheVars == <<rows, at, known>>

\* The tier, a policy that scans responses or not, or has an empty list of risks
\* to alert on, whether alerts are on.
Tiers == {"Free", "Team", "Enterprise"}
Policies == {"plain", "scan", "mute"}
Alerts == {"off", "on", "mute"}

\* A rule that is switched on or off, has metrics or custom judges, and samples
\* all of the traffic or none.
RuleRows == [enabled : BOOLEAN, metrics : BOOLEAN, judges : BOOLEAN, rate : {0, 100}]

Row(x) == x # Absent

\* _from_row: an empty list of risks reads back as the default one.
ReadBack(x) == CASE x = "mute" -> "plain" [] OTHER -> x
AlertsReadBack(x) == CASE x = "mute" -> "on" [] OTHER -> x

\* _default: the policy and the alert settings of an organization without a row.
OrDefault(x)       == IF Row(x) THEN ReadBack(x) ELSE "plain"
AlertsOrDefault(x) == IF Row(x) THEN AlertsReadBack(x) ELSE "off"

\* What is enabled of the rules.
Enabled(rules) == {x \in Rules : Row(rules[x]) /\ rules[x].enabled}
Active(rules) == {<<x, rules[x]>> : x \in Enabled(rules)}
ActiveRules == Active(stored.rules)

\* What a lookup made now would return.  "room" is the count of evaluations
\* against the tier's quota, which ClickHouse knows.
Settings == {"tier", "default", "named", "alerts", "rules"}
Effective(k) ==
  CASE k = "tier"    -> stored.tier
    [] k = "default" -> OrDefault(stored.default)
    [] k = "named"   -> OrDefault(IF Row(stored.named) THEN stored.named ELSE stored.default)
    [] k = "alerts"  -> AlertsOrDefault(stored.alerts)
    [] k = "rules"   -> ActiveRules

\* What a request may know, and a lookup may have read, is never Absent by itself.
RuleTables == [Rules -> RuleRows \cup {Absent}]
RuleSets == {Active(rules) : rules \in RuleTables}
Words == Tiers \cup Policies \cup Alerts \cup {"left", "over"}
KnownReads == [proc : Procs, key : Settings]
KnownWrites == [proc : Procs, key : Settings, value : Policies \cup Alerts \cup {Absent}]
ASSUME AbsentAssumption ==
  /\ Absent \notin Words /\ Absent \notin RuleRows /\ Absent \notin RuleSets
  /\ Absent \notin [value : Words \cup {Absent}] /\ Absent \notin [value : RuleSets]
  /\ Absent \notin KnownReads /\ Absent \notin KnownWrites

P(r) == known[r].proc
Key(r) == known[r].key
Copy(r, k) == cache[P(r)][k]

-----------------------------------------------------------------------------
\* A request goes on to stage s knowing k, or is answered.
Move(r, s, k) == at' = [at EXCEPT ![r] = s] /\ known' = [known EXCEPT ![r] = k]
Leave(r) == Move(r, "done", Absent)

\* It looks a setting up at stages of this kind.
Looking(r) == at[r] \in {"reading", "tier", "room", "gate", "rules", "guard"}

\* The copy is there; or the lookup stores what it has read.
Uses(r, k, v) ==
  /\ UNCHANGED <<stored, asked>>
  /\ v # Absent
  /\ \/ /\ fetched[r] = Absent /\ v = Copy(r, k)
        /\ UNCHANGED <<cache, fetched, overtaken, excused>>
     \/ /\ fetched[r] = [value |-> v]
        /\ cache' = [cache EXCEPT ![P(r)][k] = v]
        /\ fetched' = [fetched EXCEPT ![r] = Absent]
        /\ overtaken' = overtaken \ {r}
        /\ excused' = IF r \in overtaken THEN excused \cup {<<P(r), k>>}
                      ELSE excused \ {<<P(r), k>>}

Missed(r) == Looking(r) /\ fetched[r] = Absent /\ Copy(r, Key(r)) = Absent

Fetched(r, v) ==
  /\ fetched' = [fetched EXCEPT ![r] = v]
  /\ UNCHANGED <<stored, cache, at, known, overtaken, excused, asked>>

\* The row is read.  A named policy that has none is looked for as the default
\* one in a second statement.
Fetch(r) ==
  /\ Missed(r) /\ Key(r) # "room"
  /\ Fetched(r, IF Key(r) = "named" /\ ~Row(stored.named) THEN [value |-> Absent]
                ELSE [value |-> Effective(Key(r))])

FetchDefault(r) ==
  /\ fetched[r] = [value |-> Absent]
  /\ Fetched(r, [value |-> OrDefault(stored.default)])

\* count_evaluations.
FetchRoom(r) ==
  /\ Missed(r) /\ Key(r) = "room"
  /\ \E room \in {"left", "over"} : Fetched(r, [value |-> room])

\* active_rules never raises: rules that cannot be read are none, for a while.
RulesUnreadable(r) ==
  /\ Missed(r) /\ Key(r) = "rules"
  /\ fetched' = [fetched EXCEPT ![r] = [value |-> {}]]
  /\ overtaken' = overtaken \cup {r}
  /\ UNCHANGED <<stored, cache, at, known, excused, asked>>

\* The dashboard reads a setting.
ReadSetting(r) ==
  /\ at[r] = "read"
  /\ \E p \in Procs, k \in asked \ {"rules"} :
       Move(r, "reading", [proc |-> p, key |-> k])
  /\ UNCHANGED rows

AnswerSetting(r) ==
  /\ at[r] = "reading" /\ Leave(r)
  /\ \E v \in Tiers \cup Policies \cup Alerts : Uses(r, Key(r), v)

\* A lookup of one of the others raises when the database does not answer.
ReadFails(r) ==
  /\ at[r] = "reading" /\ Missed(r) /\ Leave(r)
  /\ UNCHANGED rows

-----------------------------------------------------------------------------
\* The rows are written by r, for which it knows k: what it was asked for and
\* has to settle.  Requests that have read the setting, or have yet to settle a
\* write to it, are overtaken; copies elsewhere are not reached.
Pending(r) == fetched[r] # Absent \/ at[r] = "settling"

Write(r, k, new, touched) ==
  /\ Move(r, "settling", k)
  /\ stored' = new
  /\ overtaken' = overtaken \cup {s \in Requests \ {r} : Pending(s) /\ Key(s) \in touched}
  /\ excused' = excused \cup {x \in Procs \X touched :
                                cache[x[1]][x[2]] # Absent /\ x # <<k.proc, k.key>>}
  /\ UNCHANGED <<cache, fetched, asked>>

\* upsert_policy and upsert_settings put what they wrote where the copy was.
WriteThrough(r) ==
  /\ at[r] = "settling" /\ known[r].value # Absent /\ Leave(r)
  /\ cache' = [cache EXCEPT ![P(r)][Key(r)] = known[r].value]
  /\ overtaken' = overtaken \ {r}
  /\ excused' = IF r \in overtaken THEN excused \cup {<<P(r), Key(r)>>}
                ELSE excused \ {<<P(r), Key(r)>>}
  /\ UNCHANGED <<stored, fetched, asked>>

\* Seeded fault: the copies are left alone.
NoInvalidate(r) ==
  /\ at[r] = "settling" /\ known[r].value = Absent /\ Leave(r)
  /\ overtaken' = overtaken \ {r}
  /\ UNCHANGED <<stored, cache, fetched, excused, asked>>

\* quotas.invalidate, online_rules.invalidate and delete_policy drop it.
Dropped(k) == IF k = "tier" THEN {"tier", "room"} ELSE {k}
Invalidate(r) ==
  /\ at[r] = "settling" /\ known[r].value = Absent /\ Leave(r)
  /\ cache' = [cache EXCEPT ![P(r)] =
                 [k \in DOMAIN @ |-> IF k \in Dropped(Key(r)) THEN Absent ELSE @[k]]]
  /\ overtaken' = overtaken \ {r}
  /\ excused' = excused \ {<<P(r), Key(r)>>}
  /\ UNCHANGED <<stored, fetched, asked>>

\* PUT /guardrails: a write of the default policy is one of every policy that
\* has no row of its own.
SavePolicy(r) ==
  /\ at[r] = "write"
  /\ \E p \in Procs, slug \in {"default", "named"} \cap asked, policy \in Policies :
       Write(r, [proc |-> p, key |-> slug, value |-> policy],
             [stored EXCEPT ![slug] = policy],
             {slug} \cup IF Row(stored.named) THEN {} ELSE {"named"})

\* DELETE /guardrails, of any policy but the default one.
DeletePolicy(r) ==
  /\ at[r] = "write" /\ "named" \in asked
  /\ \E p \in Procs :
       Write(r, [proc |-> p, key |-> "named", value |-> Absent],
             [stored EXCEPT !.named = Absent], {"named"})

\* PUT /alerts: alerts can be switched on by organizations that pay.
SaveAlerts(r) ==
  /\ at[r] = "write" /\ "alerts" \in asked
  /\ \E p \in Procs, alerts \in Alerts :
       /\ alerts = "off" \/ stored.tier # "Free"
       /\ Write(r, [proc |-> p, key |-> "alerts", value |-> alerts],
                [stored EXCEPT !.alerts = alerts], {"alerts"})

\* begin_trial and admin_update_org, which tell the quotas.
ChangePlan(r) ==
  /\ at[r] = "write" /\ "tier" \in asked
  /\ \E p \in Procs, tier \in Tiers :
       Write(r, [proc |-> p, key |-> "tier", value |-> Absent],
             [stored EXCEPT !.tier = tier], {"tier"})

\* admin_update_user_type, which does not, and a trial that is over.
ReTier(tier) ==
  /\ tier # stored.tier
  /\ stored' = [stored EXCEPT !.tier = tier]
  /\ overtaken' = overtaken \cup {s \in Requests : Pending(s) /\ Key(s) = "tier"}
  /\ excused' = excused \cup {<<q, "tier">> : q \in {p \in Procs : cache[p]["tier"] # Absent}}
  /\ UNCHANGED <<cache, fetched, asked>>

RetypeOwner(r) ==
  /\ at[r] = "write" /\ "tier" \in asked /\ Leave(r)
  /\ \E tier \in Tiers : ReTier(tier)

-----------------------------------------------------------------------------
\* A copy gets too old; a process starts anew, and its requests are gone.
Expire ==
  /\ \E p \in Procs, k \in Settings \cup {"room"} :
       /\ cache[p][k] # Absent
       /\ cache' = [cache EXCEPT ![p][k] = Absent]
       /\ excused' = excused \ {<<p, k>>}
  /\ UNCHANGED <<stored, at, known, fetched, overtaken, asked>>

Serves(p) == {r \in Requests : known[r] # Absent /\ P(r) = p}
Restart ==
  /\ \E p \in Procs :
       /\ Serves(p) # {}
       /\ cache' = [cache EXCEPT ![p] = [k \in DOMAIN @ |-> Absent]]
       /\ at' = [r \in Requests |-> IF r \in Serves(p) THEN "done" ELSE at[r]]
       /\ known' = [r \in Requests |-> IF r \in Serves(p) THEN Absent ELSE known[r]]
       /\ fetched' = [r \in Requests |-> IF r \in Serves(p) THEN Absent ELSE fetched[r]]
       /\ overtaken' = overtaken \ Serves(p)
       /\ excused' = {x \in excused : x[1] # p}
  /\ UNCHANGED <<stored, asked>>

CachesStep(r) ==
  \/ Fetch(r) \/ FetchDefault(r) \/ FetchRoom(r) \/ RulesUnreadable(r)
  \/ ReadSetting(r) \/ AnswerSetting(r) \/ ReadFails(r)
  \/ WriteThrough(r) \/ Invalidate(r)
  \/ SavePolicy(r) \/ DeletePolicy(r) \/ SaveAlerts(r) \/ ChangePlan(r) \/ RetypeOwner(r)

CachesTypeOK ==
  /\ stored.tier \in Tiers /\ stored.default \in Policies \cup {Absent}
  /\ stored.named \in Policies \cup {Absent} /\ stored.alerts \in Alerts \cup {Absent}
  /\ stored.rules \in RuleTables
  /\ \A p \in Procs :
       /\ cache[p]["tier"] \in Tiers \cup {Absent}
       /\ cache[p]["default"] \in Policies \cup {Absent}
       /\ cache[p]["named"] \in Policies \cup {Absent}
       /\ cache[p]["alerts"] \in Alerts \cup {Absent}
       /\ cache[p]["room"] \in {"left", "over", Absent}
       /\ cache[p]["rules"] = Absent \/ cache[p]["rules"] \subseteq Rules \X RuleRows
  /\ overtaken \subseteq Requests /\ excused \subseteq Procs \X Settings /\ asked \subseteq Settings
  /\ \A r \in Requests : (known[r] = Absent) = (at[r] \in {"read", "write", "ingest", "done"})

\* A copy is what a lookup made now would return; or it is the empty list of risks
\* that is stored, as a write left it, where a lookup would return the default one.
Agrees(k, copy) ==
  \/ copy = Effective(k)
  \/ k \in {"default", "named", "alerts"} /\ copy = "mute" /\ stored[k] = "mute"

\* Every copy agrees, but for one that another process's write did not reach, one
\* stored by a lookup or write that another write overtook, rules that could not be
\* read, and, until it has settled, the copy of the setting a request has just written.
CachesAgree ==
  \A p \in Procs, k \in Settings :
    cache[p][k] # Absent /\ <<p, k>> \notin excused
      => \/ Agrees(k, cache[p][k])
         \/ \E r \in Requests : at[r] = "settling" /\ P(r) = p /\ Key(r) = k
=============================================================================
