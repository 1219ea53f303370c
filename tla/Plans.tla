-------------------------------- MODULE Plans --------------------------------
(***************************************************************************)
(* What an organization may use: its tier, trials, the administrator's     *)
(* changes to them, and API keys.  The tier is the organization's own plan *)
(* when it has one, else the type of the user its row names as the owner.  *)
(***************************************************************************)
EXTENDS Tenants

\* get_org_tier joins the organization with its owner; there may be no row.
Owned(o) == Row(db.orgs[o]) /\ Row(db.users[db.orgs[o].owner])
Owner(o) == db.users[db.orgs[o].owner]

\* The tier: an own plan, or the owner's type, or Free when a trial is over.
EffectiveTier(o) ==
  CASE db.orgs[o].plan # NoPlan -> db.orgs[o].plan
    [] Owner(o).trial = "over"  -> "Free"
    [] OTHER                    -> Owner(o).type

\* Seeded fault: a running trial is ended as well.
ReadAnyTier(r) ==
  /\ Arrives(r, "plan")
  /\ \E o \in Orgs :
       /\ Owned(o) /\ db.orgs[o].plan = NoPlan /\ Owner(o).type # "Free"
       /\ Proceed(r, "downgrading", [user |-> db.orgs[o].owner, row |-> Owner(o)])

\* get_org_tier reads.  An own plan, and an owner whose trial has not ended,
\* are answered at once.
ReadTier(r) ==
  /\ Arrives(r, "plan")
  /\ \E o \in Orgs :
       /\ Owned(o) /\ db.orgs[o].plan = NoPlan
       /\ EffectiveTier(o) # Owner(o).type
       /\ Proceed(r, "downgrading", [user |-> db.orgs[o].owner, row |-> Owner(o)])

\* ... and ends a trial that is over, by user id alone.
Downgrade(r) ==
  /\ At(r, "downgrading")
  /\ LET u == known[r].user
     IN  IF ~Row(db.users[u]) THEN Answer(r)
         ELSE /\ ~Locked(u)
              /\ Overwrite(r, [db EXCEPT !.users[u].type = "Free", !.users[u].trial = "none"],
                           Slip("plan", u, db.users[u] # known[r].row))

\* begin_trial, start_trial: a free owner who had no trial yet,
LockOwner(r) ==
  /\ Arrives(r, "plan")
  /\ \E o \in Orgs, plan \in Trialable \cap Offered :
       /\ Owned(o) /\ Owner(o).type = "Free" /\ ~Owner(o).used
       /\ ~Locked(db.orgs[o].owner)
       /\ Proceed(r, "starting", [user |-> db.orgs[o].owner, plan |-> plan])

\* ... gets the plan until the trial ends.
StartTrial(r) ==
  /\ At(r, "starting")
  /\ LET u == known[r].user
     IN  /\ Leave(r)
         /\ db' = [db EXCEPT !.users[u] = [@ EXCEPT !.type = known[r].plan,
                                                    !.trial = "running", !.used = TRUE]]
         /\ uses' = [uses EXCEPT ![u] = @ + 1]
         /\ UNCHANGED slips

TrialEnds ==
  /\ \E u \in Users :
       /\ Row(db.users[u]) /\ db.users[u].trial = "running"
       /\ db' = [db EXCEPT !.users[u].trial = "over"]
  /\ UNCHANGED <<at, known, ghosts>>

-----------------------------------------------------------------------------
\* admin_update_user_type: the type, and the key limit of the current
\* organization.  A trial stays.
Retyped(u, type) ==
  [db EXCEPT !.users[u].type = type, !.orgs[db.users[u].org].limit = ApiKeyLimits[type]]

AdminUpdateUserType(r) ==
  /\ Arrives(r, "plan")
  /\ \E u \in Users, type \in Billable \cap Offered :
       Row(db.users[u]) /\ ~Locked(u) /\ Commit(r, Retyped(u, type))

\* admin_set_org_plan: an own plan, with its key limit.
Planned(o, plan) ==
  [db EXCEPT !.orgs[o].plan = plan, !.orgs[o].limit = ApiKeyLimits[plan]]

AdminSetOrgPlan(r) ==
  /\ Arrives(r, "plan")
  /\ \E o \in Orgs, plan \in Offered : Row(db.orgs[o]) /\ Commit(r, Planned(o, plan))

\* create_api_key: one update, under the limit; a new key is nobody's yet.
Issued == UNION {db.orgs[p].keys : p \in {q \in Orgs : Row(db.orgs[q])}}
WithKey(o, k) == [db EXCEPT !.orgs[o].keys = @ \cup {k}, !.orgs[o].usage = @ + 1]

CreateApiKey(r) ==
  /\ Arrives(r, "plan")
  /\ \E o \in Orgs, k \in Keys \ Issued :
       Row(db.orgs[o]) /\ db.orgs[o].usage < db.orgs[o].limit /\ Commit(r, WithKey(o, k))

\* delete_api_key is asked of a key that was listed, which may be gone by then.
DeleteListedKey(r) ==
  /\ Arrives(r, "plan")
  /\ \E o \in Orgs : Row(db.orgs[o]) /\ \E k \in db.orgs[o].keys :
       Proceed(r, "unkeying", [org |-> o, key |-> k])

DeleteApiKey(r) ==
  /\ At(r, "unkeying")
  /\ LET o == known[r].org
     IN  IF ~Row(db.orgs[o]) \/ known[r].key \notin db.orgs[o].keys THEN Answer(r)
         ELSE Commit(r, [db EXCEPT !.orgs[o].keys = @ \ {known[r].key},
                                   !.orgs[o].usage = IF @ > 0 THEN @ - 1 ELSE 0])

PlansStep(r) ==
  \/ ReadTier(r) \/ Downgrade(r) \/ LockOwner(r) \/ StartTrial(r)
  \/ AdminUpdateUserType(r) \/ AdminSetOrgPlan(r)
  \/ CreateApiKey(r) \/ DeleteListedKey(r) \/ DeleteApiKey(r)
=============================================================================
