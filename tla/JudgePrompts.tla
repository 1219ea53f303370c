---------------------------- MODULE JudgePrompts -----------------------------
(***************************************************************************)
(* Judge prompts: the platform's, which administrators edit and every      *)
(* start of the API refreshes from the code, and an organization's own     *)
(* version of one.  Each keeps the history of what was saved.              *)
(*                                                                         *)
(* A transaction reads what it will save, and saves in a later step: the   *)
(* platform's row is locked then, the organization's is not.               *)
(***************************************************************************)
EXTENDS Integers, FiniteSets

CONSTANTS
  Editors,            \* requests, each served once
  Names,              \* names of prompts
  Templates,          \* texts that keep the required placeholders
  None,               \* no row
  MaxVersion          \* bound on the versions of a prompt

ASSUME VersionsAssumption == MaxVersion \in Nat \ {0}

VARIABLES
  shipped,            \* JUDGE_PROMPT_DEFAULTS of the code that starts
  prompts,            \* eval_judge_prompts
  versions,           \* eval_judge_prompt_versions, <<name, version, template>>
  overrides,          \* eval_judge_prompt_org_overrides of one organization
  orgVersions,        \* eval_judge_prompt_org_versions of it
  doing, read,        \* where each request stands and what it has read
  crossed             \* prompts that two requests, or a request and a start of
                      \* the API, wrote over each other

judgeVars == <<shipped, prompts, versions, overrides, orgVersions, doing, read, crossed>>

PromptRows == [template : Templates, default : Templates, edited : BOOLEAN,
               version : 1..MaxVersion]
OverrideRows == [template : Templates, version : 1..MaxVersion]
Histories == Names \X (1..MaxVersion) \X Templates
ASSUME NoRowAssumption == None \notin PromptRows \cup OverrideRows

JudgeTypeOK ==
  /\ shipped \in [Names -> Templates \cup {None}]
  /\ prompts \in [Names -> PromptRows \cup {None}]
  /\ versions \subseteq Histories /\ orgVersions \subseteq Histories
  /\ overrides \in [Names -> OverrideRows \cup {None}]
  /\ crossed \subseteq Names \X {"platform", "org"}

JudgeInit ==
  /\ shipped \in [Names -> Templates \cup {None}]
  /\ prompts = [n \in Names |-> None] /\ overrides = prompts
  /\ versions = {} /\ orgVersions = {}
  /\ doing = [e \in Editors |-> "new"] /\ read = [e \in Editors |-> None]
  /\ crossed = {}

Known(n) == prompts[n] # None
Turns(e, stage, what) ==
  /\ doing' = [doing EXCEPT ![e] = stage] /\ read' = [read EXCEPT ![e] = what]
Stays(e) == Turns(e, "done", None)
Others(e, n, stage) == \E f \in Editors \ {e} : doing[f] = stage /\ read[f].name = n

-----------------------------------------------------------------------------
\* seed_judge_prompts, of the code at hand or of a new release.
Seed ==
  /\ \E n \in Names : shipped[n] # None
  /\ prompts' = [n \in Names |->
       IF shipped[n] = None THEN prompts[n]
       ELSE IF Known(n)
         THEN [prompts[n] EXCEPT !.default = shipped[n],
                                 !.template = IF prompts[n].edited THEN @ ELSE shipped[n]]
       ELSE [template |-> shipped[n], default |-> shipped[n], edited |-> FALSE, version |-> 1]]
  /\ crossed' = crossed \cup {<<n, "platform">> : n \in {m \in Names :
                                shipped[m] # None /\ \E e \in Editors : doing[e] = "saving" /\ read[e].name = m}}
  /\ UNCHANGED <<shipped, versions, overrides, orgVersions, doing, read>>

Release ==
  /\ \E n \in Names, t \in Templates : shipped' = [shipped EXCEPT ![n] = t]
  /\ UNCHANGED <<prompts, versions, overrides, orgVersions, doing, read, crossed>>

\* create_judge_prompt: of two at once the primary key refuses one.
Create(e) ==
  /\ doing[e] = "new"
  /\ \E n \in Names, t \in Templates :
       /\ ~Known(n)
       /\ prompts' = [prompts EXCEPT ![n] = [template |-> t, default |-> t,
                                             edited |-> FALSE, version |-> 1]]
       /\ versions' = versions \cup {<<n, 1, t>>}
  /\ Stays(e)
  /\ UNCHANGED <<shipped, overrides, orgVersions, crossed>>

\* update, reset and restore read what they will save: the text that is sent,
\* the default one, one of the history.
ReadForSave(e) ==
  /\ doing[e] = "new"
  /\ \E n \in Names, t \in Templates, edited \in BOOLEAN :
       /\ Known(n)
       /\ ~edited => t = prompts[n].default
       /\ Turns(e, "saving", [name |-> n, template |-> t, edited |-> edited])
  /\ UNCHANGED <<shipped, prompts, versions, overrides, orgVersions, crossed>>

\* Seeded fault: the version is taken from before the row was locked.
SaveUnnumbered(e) ==
  /\ doing[e] = "saving"
  /\ LET n == read[e].name
         row == prompts[n]
     IN  /\ versions' = versions \cup {<<n, row.version, read[e].template>>}
         /\ prompts' = [prompts EXCEPT ![n] = [row EXCEPT !.template = read[e].template,
                                                          !.edited = read[e].edited]]
  /\ Stays(e)
  /\ UNCHANGED <<shipped, overrides, orgVersions, crossed>>

\* _save: under the row's lock, one version after the one it has.
Save(e) ==
  /\ doing[e] = "saving"
  /\ LET n == read[e].name
         row == prompts[n]
         next == row.version + 1
     IN  /\ next <= MaxVersion
         /\ versions' = versions \cup {<<n, next, read[e].template>>}
         /\ prompts' = [prompts EXCEPT ![n] = [row EXCEPT !.template = read[e].template,
                                                          !.edited = read[e].edited,
                                                          !.version = next]]
  /\ Stays(e)
  /\ UNCHANGED <<shipped, overrides, orgVersions, crossed>>

-----------------------------------------------------------------------------
\* upsert_org_judge_prompt and restore_org_judge_prompt_version: the version is
\* one after the highest there is, read without a lock,
Highest(n) ==
  LET all == {v[2] : v \in {w \in orgVersions : w[1] = n}}
  IN  IF all = {} THEN 0 ELSE CHOOSE v \in all : \A w \in all : w <= v

ReadHighest(e) ==
  /\ doing[e] = "new"
  /\ \E n \in Names, t \in Templates :
       /\ Known(n) /\ Highest(n) < MaxVersion
       /\ Turns(e, "overriding", [name |-> n, template |-> t, version |-> Highest(n) + 1])
       \* what ReadHighest of another reads is written over by this one
       /\ crossed' = IF Others(e, n, "overriding") THEN crossed \cup {<<n, "org">>} ELSE crossed
  /\ UNCHANGED <<shipped, prompts, versions, overrides, orgVersions>>

\* ... and written to the history and the live row in one transaction.
Override(e) ==
  /\ doing[e] = "overriding"
  /\ LET n == read[e].name
     IN  /\ orgVersions' = orgVersions \cup {<<n, read[e].version, read[e].template>>}
         /\ overrides' = [overrides EXCEPT ![n] = [template |-> read[e].template,
                                                   version |-> read[e].version]]
  /\ Stays(e)
  /\ UNCHANGED <<shipped, prompts, versions, crossed>>

\* reset_org_judge_prompt: the history stays.
ResetOrg(e) ==
  /\ doing[e] = "new"
  /\ \E n \in Names :
       overrides[n] # None /\ overrides' = [overrides EXCEPT ![n] = None]
  /\ Stays(e)
  /\ UNCHANGED <<shipped, prompts, versions, orgVersions, crossed>>

JudgeStep ==
  \/ Seed \/ Release
  \/ \E e \in Editors :
       Create(e) \/ ReadForSave(e) \/ Save(e) \/ ReadHighest(e) \/ Override(e) \/ ResetOrg(e)

-----------------------------------------------------------------------------
\* A version is one text for good, so that a restore brings back what was saved
\* (neither history has a unique key): of the platform's prompts always, of an
\* organization's unless two saves overlapped.  What is live and was edited is
\* in the history under its version; what nobody edited, or was reset, is the
\* text of the code it was seeded from, unless the reset read it before a newer
\* one came.
JudgeHistoryKept ==
  /\ \A v, w \in versions : v[1] = w[1] /\ v[2] = w[2] => v = w
  /\ \A v, w \in orgVersions :
       v[1] = w[1] /\ v[2] = w[2] => v = w \/ <<v[1], "org">> \in crossed
  /\ \A n \in Names :
       /\ Known(n) => IF prompts[n].edited
            THEN <<n, prompts[n].version, prompts[n].template>> \in versions
            ELSE prompts[n].template = prompts[n].default \/ <<n, "platform">> \in crossed
       /\ overrides[n] # None => <<n, overrides[n].version, overrides[n].template>> \in orgVersions
=============================================================================
