---------------------------- MODULE Organizations ----------------------------
(***************************************************************************)
(* Organizations, their members and their invitations, as the dashboard's  *)
(* routes and the administrator's routes change them.                      *)
(*                                                                         *)
(* A transaction here runs at READ COMMITTED: each statement sees what was *)
(* committed when it began.  A transaction that reads and then writes is   *)
(* two steps, and its first update may act on the rows it saw when the     *)
(* request read or on those that are there when it commits.                *)
(***************************************************************************)
EXTENDS Tenants

\* create_org: one transaction; the caller stays where it is.
CreateOrg(r) ==
  /\ Arrives(r, "organization") /\ Fresh(db.orgs) # {}
  /\ \E u \in Users : Row(db.users[u]) /\ Commit(r, Founded(db, u, Next1(db.orgs), "Free"))

-----------------------------------------------------------------------------
(* Roles. *)

\* update_member_role: the caller's role is looked up; only an owner makes an
\* owner.
UpdateMemberRole(r) ==
  /\ Arrives(r, "organization")
  /\ \E u, v \in Users, o \in Orgs, role \in Roles :
       /\ Permitted(u, o, IF role = "owner" THEN "owner" ELSE "admin")
       /\ Proceed(r, "setting", [org |-> o, user |-> v, role |-> role])

\* admin_org_set_member_role: the platform's administrator asks nobody.
AdminSetMemberRole(r) ==
  /\ Arrives(r, "organization")
  /\ \E v \in Users, o \in Orgs, role \in Roles :
       Proceed(r, "setting", [org |-> o, user |-> v, role |-> role])

\* The rows of organization_members once owner v takes over from seen.
Transferred(o, v, seen) ==
  [u \in Users |->
     CASE u = v /\ Role(u, o) # NoRole             -> "owner"
       [] u \in seen \ {v} /\ Role(u, o) = "owner" -> "admin"
       [] OTHER -> Role(u, o)]

\* set_member_role: the member must be there.  Another role than owner is set
\* without a look at who else is an owner.
SetMemberRole(r) ==
  /\ At(r, "setting")
  /\ LET k == known[r]
     IN  \/ /\ Role(k.user, k.org) = NoRole
            /\ Answer(r)
         \/ /\ Role(k.user, k.org) # NoRole /\ k.role # "owner"
            /\ Overwrite(r, [db EXCEPT !.members[k.org][k.user] = k.role],
                         Slip("demoted", k.org, Owners(k.org) = {k.user}))
         \/ /\ Role(k.user, k.org) # NoRole /\ k.role = "owner"
            /\ Proceed(r, "transferring",
                       [org |-> k.org, user |-> k.user, owners |-> Owners(k.org)])

\* ... a new owner: the owners the update finds are demoted, the member is
\* promoted if still there, and the organization's row names it.
TransferOwnership(r) ==
  /\ At(r, "transferring")
  /\ LET k == known[r]
     IN  IF ~Row(db.orgs[k.org]) THEN Answer(r)
         ELSE \E seen \in {k.owners, Owners(k.org)} :
           Overwrite(r,
             [db EXCEPT !.members[k.org] = Transferred(k.org, k.user, seen),
                        !.orgs[k.org].owner = k.user],
             Slip("owners", k.org, seen # Owners(k.org) \/ Role(k.user, k.org) = NoRole))

-----------------------------------------------------------------------------
(* Leaving. *)

\* remove_org_member: a member may leave, an administrator may remove; and
\* admin_org_remove_member asks nobody.
RemoveOrgMember(r) ==
  /\ Arrives(r, "organization")
  /\ \E u, v \in Users, o \in Orgs :
       /\ Permitted(u, o, IF u = v THEN "member" ELSE "admin")
       /\ Proceed(r, "removing", [org |-> o, user |-> v])

AdminRemoveMember(r) ==
  /\ Arrives(r, "organization")
  /\ \E v \in Users, o \in Orgs : Proceed(r, "removing", [org |-> o, user |-> v])

\* Seeded fault: the last owner may leave.
CheckMemberOnly(r) ==
  /\ At(r, "removing")
  /\ LET k == known[r]
     IN  IF Role(k.user, k.org) = NoRole
           THEN Answer(r)
           ELSE Proceed(r, "leaving",
                        [org |-> k.org, user |-> k.user, owners |-> Owners(k.org),
                         to |-> Fallbacks(db, k.user, k.org)])

\* remove_member refuses a stranger and the last owner,
CheckRemoval(r) ==
  /\ At(r, "removing")
  /\ LET k == known[r]
     IN  IF \/ Role(k.user, k.org) = NoRole
            \/ Role(k.user, k.org) = "owner" /\ Cardinality(Owners(k.org)) <= 1
           THEN Answer(r)
           ELSE Proceed(r, "leaving",
                        [org |-> k.org, user |-> k.user, owners |-> Owners(k.org),
                         to |-> Fallbacks(db, k.user, k.org)])

\* Seeded fault: the user stays in the organization it left.
RemoveMemberOnly(r) ==
  /\ At(r, "leaving")
  /\ LET k == known[r]
     IN  Commit(r, [db EXCEPT !.members[k.org][k.user] = NoRole])

\* ... deletes the membership and moves the user to another one, if any.
RemoveMember(r) ==
  /\ At(r, "leaving")
  /\ LET k == known[r]
     IN  IF ~Row(db.users[k.user]) \/ ~Row(db.orgs[k.org]) THEN Answer(r)
         ELSE \E to \in k.to \cup Fallbacks(db, k.user, k.org) :
           LET d == Moved([db EXCEPT !.members[k.org][k.user] = NoRole], k.user, to)
           IN  IF ~Sound(d) THEN Answer(r)
               ELSE Overwrite(r, d,
                      Slip("owners", k.org, Owners(k.org) # k.owners)
                        \cup Slip("current", k.user, to \notin Fallbacks(db, k.user, k.org)))

-----------------------------------------------------------------------------
(* Deleting an organization. *)

\* delete_org: an owner, who must have another organization,
DeleteOrgRequest(r) ==
  /\ Arrives(r, "organization")
  /\ \E u \in Users, o \in Orgs :
       Permitted(u, o, "owner") /\ Proceed(r, "counting", [org |-> o, user |-> u])

\* Seeded fault: the traces go first.
PurgeFirst(r) ==
  /\ At(r, "counting")
  /\ LET k == known[r]
     IN  /\ at' = [at EXCEPT ![r] = "deleting"]
         /\ known' = [known EXCEPT ![r] = [org |-> k.org]]
         /\ db' = [db EXCEPT !.traces = @ \ {k.org}]
         /\ UNCHANGED ghosts

CountOrgs(r) ==
  /\ At(r, "counting")
  /\ LET k == known[r]
     IN  IF Cardinality(MemberOf(db, k.user)) <= 1
           THEN Answer(r)
           ELSE Proceed(r, "deleting", [org |-> k.org])

\* What _repoint_current_org may choose for u now: a user that is gone is not moved.
Choices(u, o) == IF Row(db.users[u]) THEN Fallbacks(db, u, o) ELSE {Unborn}

\* ... delete_organization reads the members and, of one after the other, where
\* to move it,
ReadMembers(r) ==
  /\ At(r, "deleting")
  /\ LET o == known[r].org
         members == {u \in Users : Role(u, o) # NoRole}
     IN  \E to \in [Users -> Orgs \cup {Unborn}] :
           /\ \A u \in Users : to[u] \in IF u \in members THEN Choices(u, o) ELSE {Unborn}
           /\ Proceed(r, "relocating", [org |-> o, members |-> members, to |-> to])

\* Each of those users is moved, where there is somewhere to move to.
Relocated(d, to) ==
  [d EXCEPT !.users = [u \in Users |-> IF to[u] # Unborn /\ Row(@[u])
                                         THEN [@[u] EXCEPT !.org = to[u]] ELSE @[u]]]

\* ... moves the members it read, by what it read of each or by what it finds
\* now, and deletes the row, unless a user is left whose current organization it
\* is.  A member that was added since is not moved.
DeleteOrganization(r) ==
  /\ At(r, "relocating")
  /\ LET k == known[r]
     IN  \E to \in [Users -> Orgs \cup {Unborn}] :
           LET d == Relocated(WithoutOrg(db, k.org), to)
           IN  /\ \A u \in Users :
                    to[u] \in {k.to[u]} \cup IF u \in k.members THEN Choices(u, k.org) ELSE {}
               /\ IF Sound(d)
                    THEN /\ at' = [at EXCEPT ![r] = "purging"]
                         /\ known' = [known EXCEPT ![r] = [org |-> k.org]]
                         /\ db' = d
                         /\ slips' = slips \cup {<<"current", u>> : u \in
                              {v \in Users : to[v] # Unborn /\ Role(v, to[v]) = NoRole}}
                         /\ UNCHANGED uses
                    ELSE Answer(r)

\* ... and then the traces, as well as it can.
PurgeTraces(r) ==
  /\ At(r, "purging")
  /\ \E gone \in BOOLEAN :
       Commit(r, IF gone THEN [db EXCEPT !.traces = @ \ {known[r].org}] ELSE db)

-----------------------------------------------------------------------------
(* Invitations. *)

Pending(o, v) == {i \in Invites : /\ Row(db.invites[i])
                                  /\ db.invites[i].org = o /\ db.invites[i].user = v
                                  /\ db.invites[i].status = "pending"}

\* invite_member: by an owner; its role list asks for the highest it names.
InviteMember(r) ==
  /\ Arrives(r, "organization")
  /\ \E u, v \in Users, o \in Orgs, role \in {"admin", "member"} :
       /\ Permitted(u, o, "owner")
       /\ Proceed(r, "inviting", [org |-> o, user |-> v, role |-> role])

CheckInvited(r) ==
  /\ At(r, "inviting")
  /\ LET k == known[r]
     IN  IF Role(k.user, k.org) # NoRole
           THEN Answer(r)
           ELSE Proceed(r, "superseding",
                        [org |-> k.org, user |-> k.user, role |-> k.role,
                         pending |-> Pending(k.org, k.user)])

Invited(k) == [org |-> k.org, user |-> k.user, role |-> k.role, status |-> "pending"]

\* Seeded fault: the pending ones stay.
AddInvitation(r) ==
  /\ At(r, "superseding")
  /\ LET k == known[r]
     IN  IF ~Row(db.orgs[k.org]) THEN Answer(r)
         ELSE /\ Fresh(db.invites) # {}
              /\ Commit(r, [db EXCEPT !.invites[Next1(db.invites)] = Invited(k)])

\* create_invitation revokes the pending ones it finds and inserts its own.
CreateInvitation(r) ==
  /\ At(r, "superseding")
  /\ LET k == known[r]
     IN  IF ~Row(db.orgs[k.org]) THEN Answer(r)
         ELSE \E seen \in {k.pending, Pending(k.org, k.user)} :
           /\ Fresh(db.invites) # {}
           /\ Overwrite(r,
                [db EXCEPT !.invites =
                  [i \in Invites |->
                     CASE i = Next1(db.invites) -> Invited(k)
                       [] i \in seen \cap Pending(k.org, k.user)
                            -> [@[i] EXCEPT !.status = "revoked"]
                       [] OTHER -> @[i]]],
                Slip("invites", <<k.org, k.user>>, seen # Pending(k.org, k.user)))

\* revoke_invitation: only one that was neither accepted nor revoked.
Revoke(r, i) ==
  /\ db.invites[i].status \in {"pending", "expired"}
  /\ Commit(r, [db EXCEPT !.invites[i].status = "revoked"])

CancelInvitation(r) ==
  /\ Arrives(r, "organization")
  /\ \E u \in Users, i \in Invites :
       Row(db.invites[i]) /\ Permitted(u, db.invites[i].org, "admin") /\ Revoke(r, i)

\* preview_invitation: what can still be accepted.
Acceptable(i) == Row(db.invites[i]) /\ db.invites[i].status = "pending"

\* The membership an invitation promises, also over the one there is.
Accepted(i) ==
  [db EXCEPT !.members[db.invites[i].org][db.invites[i].user] = db.invites[i].role,
             !.invites[i].status = "accepted"]

\* accept_invite: the invitation is locked and accepted, then the user is moved
\* to the organization.
AcceptInvitation(r) ==
  /\ Arrives(r, "organization")
  /\ \E i \in Invites :
       LET inv == db.invites[i]
       IN  /\ Acceptable(i) /\ Row(db.users[inv.user])
           /\ at' = [at EXCEPT ![r] = "landing"]
           /\ known' = [known EXCEPT ![r] = [org |-> inv.org, user |-> inv.user]]
           /\ db' = Accepted(i)
           /\ slips' = slips \cup Slip("demoted", inv.org, Owners(inv.org) = {inv.user})
           /\ UNCHANGED uses

\* admin_add_member: any role, also over the one there is.
Added(r, v, o, role) ==
  /\ Row(db.users[v]) /\ Row(db.orgs[o])
  /\ Overwrite(r, [db EXCEPT !.members[o][v] = role],
               Slip("demoted", o, Owners(o) = {v} /\ role # "owner"))

AdminAddMember(r) ==
  /\ Arrives(r, "organization")
  /\ \E v \in Users, o \in Orgs, role \in Roles : Added(r, v, o, role)

-----------------------------------------------------------------------------
(* Switching. *)

\* switch_org: the caller is a member;
SwitchOrg(r) ==
  /\ Arrives(r, "organization")
  /\ \E u \in Users, o \in Orgs :
       Role(u, o) # NoRole /\ Proceed(r, "landing", [org |-> o, user |-> u])

\* ... set_user_current_org, which fails on an organization that is gone and
\* finds no row when the user is;
SetCurrentOrg(r) ==
  /\ At(r, "landing")
  /\ LET k == known[r]
     IN  IF ~Row(db.users[k.user]) \/ ~Row(db.orgs[k.org]) THEN Answer(r)
         ELSE /\ at' = [at EXCEPT ![r] = "minting"]
              /\ db' = Moved(db, k.user, k.org)
              /\ slips' = slips \cup Slip("current", k.user, Role(k.user, k.org) = NoRole)
              /\ UNCHANGED <<known, uses>>

\* ... and _build_session, when both are still there.
BuildSession(r) ==
  /\ At(r, "minting")
  /\ LET k == known[r]
     IN  IF Row(db.users[k.user]) /\ Row(db.orgs[k.org])
           THEN Fresh(db.tokens) # {} /\ Commit(r, Minted(db, k.user, k.org))
           ELSE Answer(r)

\* An invitation passes its date.
InvitationExpires ==
  /\ \E i \in Invites :
       /\ Acceptable(i)
       /\ db' = [db EXCEPT !.invites[i].status = "expired"]
  /\ UNCHANGED <<at, known, ghosts>>

OrganizationsStep(r) ==
  \/ CreateOrg(r) \/ UpdateMemberRole(r) \/ AdminSetMemberRole(r) \/ SetMemberRole(r)
  \/ TransferOwnership(r) \/ RemoveOrgMember(r) \/ AdminRemoveMember(r) \/ CheckRemoval(r)
  \/ RemoveMember(r) \/ DeleteOrgRequest(r) \/ CountOrgs(r) \/ ReadMembers(r)
  \/ DeleteOrganization(r) \/ PurgeTraces(r) \/ InviteMember(r) \/ CheckInvited(r) \/ CreateInvitation(r)
  \/ CancelInvitation(r) \/ AcceptInvitation(r) \/ AdminAddMember(r) \/ SwitchOrg(r)
  \/ SetCurrentOrg(r) \/ BuildSession(r)
=============================================================================
