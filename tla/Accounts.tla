------------------------------ MODULE Accounts -------------------------------
(***************************************************************************)
(* Organizations, plans and sessions work on the same rows: an account's   *)
(* deletion takes an organization with it, the plan follows the owner, a   *)
(* session follows the current organization.  Requests of all three run    *)
(* concurrently here.                                                      *)
(***************************************************************************)
EXTENDS Organizations, Plans, Sessions

CONSTANTS
  Home,     \* the organization each account was registered with
  Guest,    \* an account that may have been added to organizations of others
  Starts    \* the parts of the system the requests may be for, with the plan
            \* the accounts are on when they come in and what the guest founded

ASSUME StartsAssumption ==
  /\ DOMAIN Home \subseteq Users /\ \A u \in DOMAIN Home : Home[u] \in Orgs
  /\ Guest \in DOMAIN Home
  /\ \A start \in Starts : /\ start.at \in [Requests -> Parts \cup {"done"}]
                           /\ start.row \in UserRows
                           /\ start.founded \subseteq Orgs \ {Home[u] : u \in DOMAIN Home}

\* Accounts are registered with an organization each, or not yet.  The guest may
\* have created another one, been added to one of others, have moved to any of
\* these, and be invited.
\* The organizations of an account that has been on a larger plan have keys.
Homes == {Home[u] : u \in DOMAIN Home}
FirstUser(u, row, moved) ==
  IF u = Guest THEN NewUser(moved)
  ELSE IF u \in DOMAIN Home THEN [row EXCEPT !.org = Home[u]] ELSE Unborn
FirstOrg(o, kept, founded) ==
  IF o \in founded THEN NewOrg(Guest, "Free") ELSE IF o \notin Homes THEN Unborn
  ELSE [NewOrg(CHOOSE u \in DOMAIN Home : Home[u] = o, NoPlan) EXCEPT
          !.keys = kept, !.usage = Cardinality(kept)]
FirstRole(u, o, added, founded) ==
  IF u = Guest /\ o \in founded THEN "owner"
  ELSE IF u \notin DOMAIN Home \/ o \notin Homes THEN NoRole
  ELSE IF Home[u] = o THEN "owner" ELSE IF u = Guest THEN added ELSE NoRole
FirstInvite(i, host, invited) ==
  IF invited /\ i = CHOOSE j \in Invites : TRUE
    THEN [org |-> host, user |-> Guest, role |-> "member", status |-> "pending"]
    ELSE Unborn

Init ==
  /\ \E start \in Starts, added \in Roles \cup {NoRole}, moved, host \in Orgs,
        invited \in BOOLEAN :
       /\ FirstRole(Guest, moved, added, start.founded) # NoRole
       /\ host \in Homes \ {Home[Guest]}
       /\ db = [users   |-> [u \in Users |-> FirstUser(u, start.row, moved)],
                orgs    |-> [o \in Orgs |->
                              FirstOrg(o, IF start.row.used THEN Keys ELSE {}, start.founded)],
                members |-> [o \in Orgs |->
                              [u \in Users |-> FirstRole(u, o, added, start.founded)]],
                invites |-> [i \in Invites |-> FirstInvite(i, host, invited)],
                codes   |-> [c \in Codes |-> Unborn],
                tokens  |-> [t \in Tokens |-> Unborn],
                traces  |-> Homes \cup start.founded]
       /\ at = start.at
  /\ known = [r \in Requests |-> Unborn]
  /\ uses = [x \in Users \cup Codes \cup Tokens |->
               IF x \in DOMAIN Home /\ db.users[x].used THEN 1 ELSE 0]
  /\ slips = {}

Next ==
  \/ \E r \in Requests : OrganizationsStep(r) \/ PlansStep(r) \/ SessionsStep(r)
  \/ InvitationExpires \/ TrialEnds \/ Expires

Spec == Init /\ [][Next]_vars

-----------------------------------------------------------------------------
(* Properties. *)

\* An organization keeps an owner: remove_member refuses the last one.  It is
\* left without by a role given to its only owner (set_member_role, an
\* invitation and admin_add_member do not count owners), by the deletion of
\* that owner's account, or by two requests that change owners at once.
OwnerKept ==
  \A o \in Orgs :
    Row(db.orgs[o]) /\ Owners(o) = {} => {<<"demoted", o>>, <<"owners", o>>} \cap slips # {}

\* A user's current organization stops being one of the user's only when there
\* is no other left to move to, or when a switch, a removal or the deletion of an
\* organization was overtaken by a removal: it moved the user to where it had read
\* a membership (users.org_id is what the next login is minted with).
AtHome(u) == Row(db.users[u]) /\ Role(u, db.users[u].org) # NoRole
CurrentOrgIsMine ==
  [][\A u \in Users :
       AtHome(u) /\ Row(db'.users[u]) /\ ~AtHome(u)'
         => MemberOf(db', u) = {} \/ <<"current", u>> \in slips']_vars

\* The newest invitation of an address and the newest reset code of a user are
\* the only live ones, unless two were made at once.
NewestOnly ==
  /\ \A o \in Orgs, v \in Users :
       Cardinality(Pending(o, v)) > 1 => <<"invites", <<o, v>>>> \in slips
  /\ \A u \in Users : Cardinality(Live(u)) > 1 => <<"codes", u>> \in slips

\* An account has one trial, a reset code sets one password, and a refresh
\* token is exchanged once, unless two exchanges overlap.
OneShot ==
  \A x \in DOMAIN uses : uses[x] > 1 => <<"token", x>> \in slips

\* A plan that is no trial ends only by an administrator's own request, or by a
\* downgrade that read the owner's row before the plan was given.
PaidPlanKept ==
  [][\A u \in Users :
       Row(db.users[u]) /\ db.users[u].type # "Free" /\ db.users[u].trial = "none"
         /\ Row(db'.users[u]) /\ db'.users[u].type # db.users[u].type
         => \/ \E r \in Requests : at[r] = "plan" /\ at'[r] = "done"
            \/ <<"plan", u>> \in slips']_vars

\* api_key_usage counts the keys there are, whatever is deleted twice.
UsageCountsKeys ==
  \A o \in Orgs : Row(db.orgs[o]) => db.orgs[o].usage = Cardinality(db.orgs[o].keys)

\* An organization that is there has its traces, but for an account deletion
\* on its way, or one the database refused after the traces were deleted.
TracesKept ==
  \A o \in Orgs :
    Row(db.orgs[o]) /\ o \notin db.traces
      => \/ <<"refused", o>> \in slips
         \/ \E r \in Requests : At(r, "unregistering") /\ known[r].org = o

\* What belongs to an organization is all there, counted, and goes with it.
OrgsIntact == TypeOK /\ UsageCountsKeys /\ TracesKept
=============================================================================
