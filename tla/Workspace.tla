------------------------------ MODULE Workspace -------------------------------
(***************************************************************************)
(* What people of an organization do at once: requests on their accounts,  *)
(* and requests on a prompt they share.  The two have no table in common,  *)
(* so a behaviour is of one or of the other.                               *)
(***************************************************************************)
EXTENDS Accounts, PromptHistory

VARIABLE busy     \* what the requests are about

workspaceVars == <<busy, vars, promptVars>>

\* Nobody is registered where only the prompt matters.
NoAccounts ==
  /\ db = [users   |-> [u \in Users |-> Unborn],
           orgs    |-> [o \in Orgs |-> Unborn],
           members |-> [o \in Orgs |-> [u \in Users |-> NoRole]],
           invites |-> [i \in Invites |-> Unborn],
           codes   |-> [c \in Codes |-> Unborn],
           tokens  |-> [t \in Tokens |-> Unborn],
           traces  |-> {}]
  /\ at = [r \in Requests |-> "done"] /\ known = [r \in Requests |-> Unborn]
  /\ uses = [x \in Users \cup Codes \cup Tokens |-> 0] /\ slips = {}

WorkspaceInit ==
  /\ busy \in {"accounts", "prompt"}
  /\ IF busy = "accounts" THEN Init ELSE NoAccounts
  /\ PromptInit

WorkspaceNext ==
  \/ busy = "accounts" /\ Next /\ UNCHANGED <<busy, promptVars>>
  \/ busy = "prompt" /\ PromptNext /\ UNCHANGED <<busy, vars>>

WorkspaceSpec == WorkspaceInit /\ [][WorkspaceNext]_workspaceVars
=============================================================================
