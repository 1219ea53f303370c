------------------------------- MODULE Tenants -------------------------------
(***************************************************************************)
(* The tables that accounts share, and the requests that work on them:     *)
(* users, organizations, organization_members, organization_invitations,   *)
(* refresh tokens and their revocations, password reset codes, and the     *)
(* traces ClickHouse keeps for an organization.                            *)
(*                                                                         *)
(* A request is served in steps, one for each statement or transaction     *)
(* that another request can come between.  A request that is refused       *)
(* changes nothing: what refuses it is a guard of the step that follows.   *)
(* Names, addresses, passwords and dates are left out; time passing is an  *)
(* action on what it ends.                                                 *)
(***************************************************************************)
EXTENDS Integers, FiniteSets

CONSTANTS
  Requests,            \* requests, each served once
  Users, Orgs,         \* identifiers of accounts and organizations
  Invites, Codes, Tokens, Keys,
  Offered,             \* the tiers that are asked for
  Unborn, Gone         \* a row that is not there yet, or no longer

Roles == {"owner", "admin", "member"}
NoRole == "none"
Rank == [none |-> 0, member |-> 1, admin |-> 2, owner |-> 3]

Tiers     == {"Free", "Starter", "Team", "Growth", "Enterprise"}
Trialable == {"Starter", "Team", "Growth"}
Billable  == {"Free", "Team", "Growth", "Enterprise"}
ApiKeyLimits == [Free |-> 1, Starter |-> 3, Team |-> 5, Growth |-> 15, Enterprise |-> 50]
NoPlan == "none"

ASSUME TenantsAssumption == Offered \subseteq Tiers /\ Unborn # Gone

\* What is counted is finite, and one table counts the uses of three kinds.
ASSUME IdentifiersAssumption ==
  /\ IsFiniteSet(Users) /\ IsFiniteSet(Keys) /\ Unborn \notin Orgs
  /\ Users \cap Codes = {} /\ Users \cap Tokens = {} /\ Codes \cap Tokens = {}

VARIABLES
  db,      \* the tables
  at,      \* where each request stands
  known,   \* what it was asked and what it has read
  uses,    \* how often a one-shot was used: a trial, a reset code, a token
  slips    \* what a step wrote over, or on the strength of a read that no
           \* longer held: pairs of what it was about and which one

vars == <<db, at, known, uses, slips>>
ghosts == <<uses, slips>>

UserRows == [type : Tiers, org : Orgs, trial : {"none", "running", "over"}, used : BOOLEAN]
OrgRows  == [owner : Users, plan : Tiers \cup {NoPlan}, limit : Nat,
             keys : SUBSET Keys, usage : Nat]

InviteRows == [org : Orgs, user : Users, role : Roles \ {"owner"},
               status : {"pending", "expired", "accepted", "revoked"}]
CodeRows   == [user : Users, status : {"live", "expired", "used"}]
TokenRows  == [user : Users, org : Orgs, status : {"live", "expired", "revoked"}]

ASSUME RowsAssumption ==
  \A x \in {Unborn, Gone} : /\ x \notin UserRows /\ x \notin OrgRows /\ x \notin InviteRows
                            /\ x \notin CodeRows /\ x \notin TokenRows

NewUser(o) == [type |-> "Free", org |-> o, trial |-> "none", used |-> FALSE]
NewOrg(u, plan) == [owner |-> u, plan |-> plan, limit |-> ApiKeyLimits["Free"],
                    keys |-> {}, usage |-> 0]

Row(x) == x \notin {Unborn, Gone}

\* Every current organization exists: a foreign key of users.
Sound(d) == \A u \in Users : Row(d.users[u]) => Row(d.orgs[d.users[u].org])

TypeOK ==
  /\ DOMAIN db = {"users", "orgs", "members", "invites", "codes", "tokens", "traces"}
  /\ \A u \in Users : Row(db.users[u]) => db.users[u] \in UserRows
  /\ \A o \in Orgs : Row(db.orgs[o]) => db.orgs[o] \in OrgRows
  /\ db.members \in [Orgs -> [Users -> Roles \cup {NoRole}]]
  /\ \A i \in Invites : Row(db.invites[i]) => db.invites[i] \in InviteRows
  /\ \A c \in Codes : Row(db.codes[c]) => db.codes[c] \in CodeRows
  /\ \A t \in Tokens : Row(db.tokens[t]) => db.tokens[t] \in TokenRows
  /\ db.traces \subseteq Orgs
  /\ uses \in [Users \cup Codes \cup Tokens -> Nat]
  /\ Sound(db)
  \* Memberships, invitations and codes go with the rows they refer to.
  /\ \A o \in Orgs, u \in Users :
       db.members[o][u] # NoRole => Row(db.orgs[o]) /\ Row(db.users[u])
  /\ \A i \in Invites : Row(db.invites[i]) => Row(db.orgs[db.invites[i].org])
  /\ \A c \in Codes : Row(db.codes[c]) => Row(db.users[db.codes[c].user])

-----------------------------------------------------------------------------
At(r, s) == at[r] = s

\* A request that has not begun stands at the part of the system it is for.
Parts == {"organization", "plan", "session"}
Arrives(r, part) == at[r] = part

\* A request goes on to stage s knowing k, is answered, or is answered having
\* written the tables d.
Proceed(r, s, k) ==
  /\ at' = [at EXCEPT ![r] = s] /\ known' = [known EXCEPT ![r] = k]
  /\ UNCHANGED <<db, ghosts>>

Leave(r) == at' = [at EXCEPT ![r] = "done"] /\ known' = [known EXCEPT ![r] = Unborn]

Answer(r)    == Leave(r) /\ UNCHANGED <<db, ghosts>>
Commit(r, d) == Leave(r) /\ db' = d /\ UNCHANGED ghosts

\* The same, with what it wrote over.
Overwrite(r, d, slip) == Leave(r) /\ db' = d /\ slips' = slips \cup slip /\ UNCHANGED uses

Slip(kind, x, cond) == IF cond THEN {<<kind, x>>} ELSE {}

\* A row under a fresh identifier: which of the unused ones does not matter.
Fresh(table) == {x \in DOMAIN table : table[x] = Unborn}
Next1(table) == CHOOSE x \in Fresh(table) : TRUE

\* The owner's row stays locked between the two statements of a trial's start.
Locked(u) == \E r \in Requests : At(r, "starting") /\ known[r].user = u

-----------------------------------------------------------------------------
Owners(o) == {u \in Users : db.members[o][u] = "owner"}
Role(u, o) == db.members[o][u]
MemberOf(d, u) == {o \in Orgs : d.members[o][u] # NoRole}

\* _require_role: a role of at least this rank.
Permitted(u, o, least) == Rank[Role(u, o)] >= Rank[least]

\* _repoint_current_org: where a user who leaves an organization may be moved,
\* to any other membership, or nowhere when there is none or it is not current.
Fallbacks(d, u, o) ==
  LET others == MemberOf(d, u) \ {o}
  IN  IF d.users[u].org # o \/ others = {} THEN {Unborn} ELSE others

Moved(d, u, to) == IF to = Unborn THEN d ELSE [d EXCEPT !.users[u].org = to]

\* The row deletion that cascades to what refers to an organization.
WithoutOrg(d, o) ==
  [d EXCEPT !.orgs[o] = Gone,
            !.members[o] = [u \in Users |-> NoRole],
            !.invites = [i \in Invites |-> IF Row(d.invites[i]) /\ d.invites[i].org = o
                                             THEN Gone ELSE d.invites[i]]]

WithoutUser(d, u) ==
  [d EXCEPT !.users[u] = Gone,
            !.members = [o \in Orgs |-> [d.members[o] EXCEPT ![u] = NoRole]],
            !.codes = [c \in Codes |-> IF Row(d.codes[c]) /\ d.codes[c].user = u
                                         THEN Gone ELSE d.codes[c]]]

\* register_user and create_organization: an organization with its owner; only
\* the first one has no plan of its own.
Founded(d, u, o, plan) ==
  [d EXCEPT !.orgs[o] = NewOrg(u, plan), !.members[o][u] = "owner", !.traces = @ \cup {o}]
Registered(d, u, o) == [Founded(d, u, o, NoPlan) EXCEPT !.users[u] = NewUser(o)]

\* A session: the refresh token a login-shaped answer carries.
Minted(d, u, o) ==
  [d EXCEPT !.tokens[Next1(d.tokens)] = [user |-> u, org |-> o, status |-> "live"]]
=============================================================================
