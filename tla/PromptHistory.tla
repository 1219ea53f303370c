---------------------------- MODULE PromptHistory ----------------------------
(***************************************************************************)
(* One saved prompt: its row, its version history and its environments     *)
(* (tables prompts, prompt_versions and prompt_environments).              *)
(*                                                                         *)
(* An edit reads the row, saves what it read as a version and updates the  *)
(* row; a restore does the same with a saved version's body; a promotion   *)
(* reads the row and copies it into an environment.  Each is a sequence of *)
(* statements that commit one by one, and two requests may interleave.     *)
(***************************************************************************)
EXTENDS Integers, FiniteSets

CONSTANTS
  Editors,       \* requests on the prompt, each served once
  Original,      \* the body the prompt was created with
  Sections,      \* what an edit may set in config: tools, mcp_servers, target
  Unset,         \* a section that is not in config
  NoPart,        \* the edit leaves config alone
  Environments,
  NoRow          \* a row that is not there

\* An edit is told by what it writes: body r, or section value r, is request r's.
Bodies  == Editors \cup {Original}
Configs == [Sections -> Editors \cup {Unset}]
NoConfig == [p \in Sections |-> Unset]

Heads     == [version : Nat \ {0}, body : Bodies, config : Configs]
Snapshots == [version : Nat \ {0}, body : Bodies]

Jobs ==
  [kind : {"edit"}, body : BOOLEAN, part : Sections \cup {NoPart}]
    \cup [kind : {"restore"}, version : Nat \ {0}]
    \cup [kind : {"promote"}, env : Environments]

ASSUME NamesAssumption ==
  /\ Original \notin Editors
  /\ Unset \notin Editors
  /\ NoPart \notin Sections
  /\ NoRow \notin Heads /\ NoRow \notin Snapshots

VARIABLES
  head,         \* the prompts row
  deployed,     \* its is_deployed flag
  history,      \* the prompt_versions rows
  envs,         \* the prompt_environments row of each environment
  stage,        \* where each request stands
  job,          \* what it does
  read,         \* the row it read
  body,         \* the body it will write
  config,       \* the config it will write
  past,         \* every row the prompt ever had, but for its config
  overwritten   \* versions an edit updated without having read them

promptVars == <<head, deployed, history, envs, stage, job, read, body, config, past,
                overwritten>>
locals == <<read, body, config>>
store  == <<head, deployed, history, envs, past, overwritten>>

Snapshot(h) == [version |-> h.version, body |-> h.body]

Stages == {"idle", "finding", "merging", "reading", "saving", "writing", "promoting", "done"}
NoJob  == [kind |-> "none"]

PromptTypeOK ==
  /\ head \in Heads \cup {NoRow}
  /\ deployed \in BOOLEAN
  /\ history \in SUBSET Snapshots
  /\ envs \in [Environments -> Snapshots \cup {NoRow}]
  /\ stage \in [Editors -> Stages]
  /\ job \in [Editors -> Jobs \cup {NoJob}]
  /\ read \in [Editors -> Heads \cup {NoRow}]
  /\ body \in [Editors -> Bodies]
  /\ config \in [Editors -> Configs]
  /\ past \in SUBSET Snapshots
  /\ overwritten \in SUBSET (Nat \ {0})
  \* Nothing of a prompt outlives it.
  /\ head = NoRow => ~deployed /\ history = {} /\ \A e \in Environments : envs[e] = NoRow

PromptInit ==
  /\ head = [version |-> 1, body |-> Original, config |-> NoConfig]
  /\ deployed = FALSE
  /\ history = {}
  /\ envs = [e \in Environments |-> NoRow]
  /\ stage = [r \in Editors |-> "idle"]
  /\ job = [r \in Editors |-> NoJob]
  /\ read = [r \in Editors |-> NoRow]
  /\ body = [r \in Editors |-> Original]
  /\ config = [r \in Editors |-> NoConfig]
  /\ past = {Snapshot(head)}
  /\ overwritten = {}

-----------------------------------------------------------------------------
On(r, s)   == stage[r] = s
Goto(r, s) == stage' = [stage EXCEPT ![r] = s]

Begin(r, j, s) ==
  /\ On(r, "idle") /\ Goto(r, s)
  /\ job' = [job EXCEPT ![r] = j]
  /\ UNCHANGED <<store, read, config>>

\* An edit sets the body, or not, and a part of the config, or none.
Edit(r) ==
  \E b \in BOOLEAN, p \in Sections \cup {NoPart} :
    /\ Begin(r, [kind |-> "edit", body |-> b, part |-> p],
             IF p = NoPart THEN "reading" ELSE "merging")
    /\ body' = [body EXCEPT ![r] = IF b THEN r ELSE @]

\* Any version the prompt has had can be asked for.
Restore(r) ==
  /\ \E s \in past : Begin(r, [kind |-> "restore", version |-> s.version], "finding")
  /\ UNCHANGED body

Promotion(r) ==
  /\ \E e \in Environments : Begin(r, [kind |-> "promote", env |-> e], "reading")
  /\ UNCHANGED body

\* edit_prompt: the parts the request sets are merged into the config it reads
\* first, an empty one when the prompt is not there.
MergeConfig(r) ==
  /\ On(r, "merging")
  /\ LET old == IF head = NoRow THEN NoConfig ELSE head.config
     IN  config' = [config EXCEPT ![r] = [old EXCEPT ![job[r].part] = r]]
  /\ Goto(r, "reading")
  /\ UNCHANGED <<store, job, read, body>>

\* Seeded fault: the version that was asked for is not looked at.
FindAnyVersion(r) ==
  /\ On(r, "finding")
  /\ \/ /\ history = {} /\ Goto(r, "done") /\ UNCHANGED body
     \/ \E s \in history : body' = [body EXCEPT ![r] = s.body] /\ Goto(r, "reading")
  /\ UNCHANGED <<store, job, read, config>>

\* restore_version finds the version it was asked for, or there is none.
FindVersion(r) ==
  /\ On(r, "finding")
  /\ LET found == {s \in history : s.version = job[r].version}
     IN  \/ /\ found = {} /\ Goto(r, "done") /\ UNCHANGED body
         \/ \E s \in found : body' = [body EXCEPT ![r] = s.body] /\ Goto(r, "reading")
  /\ UNCHANGED <<store, job, read, config>>

ReadHead(r) ==
  /\ On(r, "reading")
  /\ IF head = NoRow
       THEN Goto(r, "done") /\ UNCHANGED read
       ELSE /\ read' = [read EXCEPT ![r] = head]
            /\ Goto(r, IF job[r].kind = "promote" THEN "promoting" ELSE "saving")
  /\ UNCHANGED <<store, job, body, config>>

\* Seeded fault: a version is saved only when it is the first one.
SaveFirstVersion(r) ==
  /\ On(r, "saving")
  /\ IF head = NoRow
       THEN Goto(r, "done") /\ UNCHANGED history
       ELSE /\ history' = IF history = {} THEN {Snapshot(read[r])} ELSE history
            /\ Goto(r, "writing")
  /\ UNCHANGED <<head, deployed, envs, past, overwritten, job, locals>>

\* INSERT INTO prompt_versions what was read; it raises once the prompt is gone.
SaveVersion(r) ==
  /\ On(r, "saving")
  /\ IF head = NoRow
       THEN Goto(r, "done") /\ UNCHANGED history
       ELSE /\ history' = history \cup {Snapshot(read[r])}
            /\ Goto(r, "writing")
  /\ UNCHANGED <<head, deployed, envs, past, overwritten, job, locals>>

\* Seeded fault: the version is counted from the row that was read.
WrittenFromRead(r) ==
  [version |-> read[r].version + 1,
   body    |-> IF job[r].kind = "restore" \/ job[r].body THEN body[r] ELSE head.body,
   config  |-> IF job[r].kind = "edit" /\ job[r].part # NoPart
                 THEN config[r] ELSE head.config]

\* What UPDATE prompts leaves: version = version + 1, the columns the request
\* sets, and the others as they are by then.
Written(r) ==
  [version |-> head.version + 1,
   body    |-> IF job[r].kind = "restore" \/ job[r].body THEN body[r] ELSE head.body,
   config  |-> IF job[r].kind = "edit" /\ job[r].part # NoPart
                 THEN config[r] ELSE head.config]

WriteHead(r) ==
  /\ On(r, "writing")
  /\ Goto(r, "done")
  /\ IF head = NoRow
       THEN UNCHANGED <<head, past, overwritten>>
       ELSE /\ head' = Written(r)
            /\ past' = past \cup {Snapshot(head')}
            /\ overwritten' = IF read[r].version = head.version
                                THEN overwritten ELSE overwritten \cup {head.version}
  /\ UNCHANGED <<deployed, history, envs, job, locals>>

\* What deploy_to_environment upserts: the row it read.
Promoted(r) == Snapshot(read[r])

\* Seeded fault: the upsert does not check that the prompt is still there.
PromoteUnchecked(r) ==
  /\ On(r, "promoting")
  /\ Goto(r, "done")
  /\ envs' = [envs EXCEPT ![job[r].env] = Promoted(r)]
  /\ UNCHANGED <<head, deployed, history, past, overwritten, job, locals>>

\* The upsert raises once the prompt is gone.
Promote(r) ==
  /\ On(r, "promoting")
  /\ Goto(r, "done")
  /\ envs' = IF head = NoRow THEN envs ELSE [envs EXCEPT ![job[r].env] = Promoted(r)]
  /\ UNCHANGED <<head, deployed, history, past, overwritten, job, locals>>

\* A statement fails or the process dies: what is committed stays.
Abort(r) ==
  /\ stage[r] \notin {"idle", "done"}
  /\ Goto(r, "done")
  /\ UNCHANGED <<store, job, locals>>

-----------------------------------------------------------------------------
(* Operations of one statement.                                            *)

Demote(r) ==
  /\ On(r, "idle") /\ Goto(r, "done")
  /\ \E e \in Environments : envs' = [envs EXCEPT ![e] = NoRow]
  /\ UNCHANGED <<head, deployed, history, past, overwritten, job, locals>>

\* set_deployed, the legacy flag.
Toggle(r) ==
  /\ On(r, "idle") /\ Goto(r, "done")
  /\ head # NoRow
  /\ deployed' \in BOOLEAN
  /\ UNCHANGED <<head, history, envs, past, overwritten, job, locals>>

\* The versions and the environments go with the prompt.
Delete(r) ==
  /\ On(r, "idle") /\ Goto(r, "done")
  /\ head' = NoRow /\ deployed' = FALSE
  /\ history' = {} /\ envs' = [e \in Environments |-> NoRow]
  /\ UNCHANGED <<past, overwritten, job, locals>>

-----------------------------------------------------------------------------
PromptNext ==
  \E r \in Editors :
    \/ Edit(r) \/ Restore(r) \/ Promotion(r) \/ MergeConfig(r) \/ FindVersion(r)
    \/ ReadHead(r) \/ SaveVersion(r) \/ WriteHead(r) \/ Promote(r) \/ Abort(r)
    \/ Demote(r) \/ Toggle(r) \/ Delete(r)

PromptSpec == PromptInit /\ [][PromptNext]_promptVars

-----------------------------------------------------------------------------
(* What is promised about it.                                              *)

\* Every version in the history and in an environment is the prompt as it
\* once was, and a version number stands for one body: neither interleaved
\* edits nor a half-done one produce a version nobody wrote.
NoTornVersions ==
  /\ \A s, t \in past : s.version = t.version => s = t
  /\ history \subseteq past
  /\ \A e \in Environments : envs[e] # NoRow => envs[e] \in past

\* A version the prompt has moved past is missing from its history only when
\* an edit updated it without having read it; a half-done edit loses nothing.
LostOnlyByOverlap ==
  head # NoRow =>
    \A v \in 1..(head.version - 1) :
      v \in overwritten \/ \E s \in history : s.version = v

\* A restore gives back the body its version had, whatever else was saved,
\* restored or half-done since.
RestoreIsFaithful ==
  [][\A r \in Editors :
       stage[r] = "writing" /\ stage'[r] = "done"
         /\ job[r].kind = "restore" /\ head' # head =>
         \A s \in past : s.version = job[r].version => head'.body = s.body]_promptVars

\* An update saves the version it replaces: every version the prompt has moved
\* past can be listed and restored.
HistoryIsComplete ==
  head # NoRow => \A v \in 1..(head.version - 1) : \E s \in history : s.version = v
=============================================================================
