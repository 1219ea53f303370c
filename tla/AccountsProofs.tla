---------------------------- MODULE AccountsProofs ----------------------------
(***************************************************************************)
(* Proofs about Accounts, for any number of requests, accounts,            *)
(* organizations, invitations, codes, tokens and keys: what is counted and *)
(* referred to stays consistent, an organization keeps an owner, the       *)
(* newest invitation and code are the only live ones and each one-shot is  *)
(* used once, up to the overlaps that slips records; a current             *)
(* organization and a paid plan are lost only in the ways that are listed. *)
(***************************************************************************)
EXTENDS Accounts, FiniteSetTheorems, TLAPS

Absent   == {Unborn, Gone}
DbFields == {"users", "orgs", "members", "invites", "codes", "tokens", "traces"}

-----------------------------------------------------------------------------
(* The inductive invariant. *)

\* Each table is a function from the identifiers to rows; a token is never
\* deleted.
TablesInv ==
  /\ DOMAIN db = DbFields
  /\ db.users   \in [Users -> UserRows \cup Absent]
  /\ db.orgs    \in [Orgs -> OrgRows \cup Absent]
  /\ db.members \in [Orgs -> [Users -> Roles \cup {NoRole}]]
  /\ db.invites \in [Invites -> InviteRows \cup Absent]
  /\ db.codes   \in [Codes -> CodeRows \cup Absent]
  /\ db.tokens  \in [Tokens -> TokenRows \cup {Unborn}]
  /\ db.traces  \in SUBSET Orgs

\* What rows refer to is there.
CurrentsRefer == \A u \in Users : Row(db.users[u]) => Row(db.orgs[db.users[u].org])
MembersRefer  == \A o \in Orgs, u \in Users :
                   db.members[o][u] # NoRole => Row(db.orgs[o]) /\ Row(db.users[u])
InvitesRefer  == \A i \in Invites : Row(db.invites[i]) => Row(db.orgs[db.invites[i].org])
CodesRefer    == \A c \in Codes : Row(db.codes[c]) => Row(db.users[db.codes[c].user])
RefsInv == CurrentsRefer /\ MembersRefer /\ InvitesRefer /\ CodesRefer

\* What a request that stands at stage s knows.  An owner about to leave has
\* seen another one; a downgrade has read a trial that is over.
Stages == {"organization", "plan", "session", "setting", "transferring", "removing",
           "leaving", "counting", "deleting", "relocating", "purging", "inviting", "superseding",
           "landing", "minting", "downgrading", "starting", "unkeying", "registering",
           "rotating", "resetting", "consuming", "changing", "unregistering", "done"}
OrgUser == [org : Orgs, user : Users]
Knows(s, k) ==
  /\ s \in Stages
  /\ s = "setting"       => k \in [org : Orgs, user : Users, role : Roles]
  /\ s = "transferring"  => k \in [org : Orgs, user : Users, owners : SUBSET Users]
  /\ s \in {"removing", "counting", "landing", "minting", "unregistering"} => k \in OrgUser
  /\ s = "leaving"       => /\ k \in [org : Orgs, user : Users, owners : SUBSET Users,
                                      to : SUBSET (Orgs \cup {Unborn})]
                            /\ k.user \in k.owners => \E w \in k.owners : w # k.user
  /\ s \in {"deleting", "purging"} => k \in [org : Orgs]
  /\ s = "relocating"    => k \in [org : Orgs, members : SUBSET Users,
                                   to : [Users -> Orgs \cup {Unborn}]]
  /\ s = "inviting"      => k \in [org : Orgs, user : Users, role : Roles \ {"owner"}]
  /\ s = "superseding"   => k \in [org : Orgs, user : Users, role : Roles \ {"owner"},
                                   pending : SUBSET Invites]
  /\ s = "downgrading"   => k \in [user : Users, row : UserRows] /\ k.row.trial = "over"
  /\ s = "starting"      => k \in [user : Users, plan : Tiers]
  /\ s = "unkeying"      => k \in [org : Orgs, key : Keys]
  /\ s = "registering"   => k \in [user : Users]
  /\ s = "rotating"      => k \in [token : Tokens]
  /\ s = "resetting"     => k \in [user : Users, live : SUBSET Codes]
  /\ s \in {"consuming", "changing"} => k \in [user : Users, code : Codes]

StandsInv ==
  /\ at \in [Requests -> Stages] /\ known = [r \in Requests |-> known[r]]
  /\ \A r \in Requests : Knows(at[r], known[r])
  /\ uses \in [Users \cup Codes \cup Tokens -> Nat]

\* The trials: none before an account is there, and none begun twice.
Startable(u) == Row(db.users[u]) /\ db.users[u].type = "Free" /\ ~db.users[u].used
Untried(u)   == db.users[u] = Unborn \/ (Row(db.users[u]) /\ ~db.users[u].used)
TrialsInv ==
  /\ \A u \in Users : uses[u] <= 1 /\ (Untried(u) => uses[u] = 0)
  /\ \A r \in Requests : At(r, "starting") => Startable(known[r].user)
  /\ \A q, r \in Requests :
       At(q, "starting") /\ At(r, "starting") /\ known[q].user = known[r].user => q = r

\* The reset codes: used up before the one password that is set with each.
Unspent(c) == db.codes[c] = Unborn \/ (Row(db.codes[c]) /\ db.codes[c].status # "used")
SpendInv ==
  /\ \A c \in Codes : uses[c] <= 1 /\ (Unspent(c) => uses[c] = 0)
  /\ \A r \in Requests :
       At(r, "changing") => uses[known[r].code] = 0 /\ ~Unspent(known[r].code)
  /\ \A q, r \in Requests :
       At(q, "changing") /\ At(r, "changing") /\ known[q].code = known[r].code => q = r

\* The refresh tokens: revoked with the first exchange.
TokensInv ==
  /\ \A t \in Tokens :
       /\ uses[t] >= 1 => db.tokens[t] # Unborn /\ db.tokens[t].status = "revoked"
       /\ uses[t] > 1 => <<"token", t>> \in slips
  /\ \A r \in Requests : At(r, "rotating") => db.tokens[known[r].token] # Unborn

\* Of the invitations and codes two pending ones are the trace of an overlap.
InvitesNewest ==
  \A o \in Orgs, v \in Users : \A i, j \in Pending(o, v) :
    i # j => <<"invites", <<o, v>>>> \in slips
CodesNewest ==
  \A u \in Users : \A c, d \in Live(u) : c # d => <<"codes", u>> \in slips

\* The traces: an organization whose traces are being purged is gone.
PurgedGone == \A r \in Requests : At(r, "purging") => db.orgs[known[r].org] = Gone
TracesInv  == TracesKept /\ PurgedGone

AccountsInv ==
  /\ TablesInv /\ RefsInv /\ StandsInv
  /\ TrialsInv /\ SpendInv /\ TokensInv
  /\ InvitesNewest /\ CodesNewest
  /\ OwnerKept /\ UsageCountsKeys /\ TracesInv


-----------------------------------------------------------------------------
(* What a step can do to the tables, one table at a time.  Several actions  *)
(* of the modules write the same rows; Next is shown to be one of these.     *)

Fields(d, u, o, m, i, c, t, x) ==
  /\ DOMAIN d = DbFields
  /\ d.users = u /\ d.orgs = o /\ d.members = m /\ d.invites = i
  /\ d.codes = c /\ d.tokens = t /\ d.traces = x

Goes(r, p, s, k) ==
  /\ at[r] = p /\ Knows(s, k)
  /\ at' = [at EXCEPT ![r] = s] /\ known' = [known EXCEPT ![r] = k]

\* Time passes, or a request is answered; no account deletion is cut short.
Quits ==
  \/ UNCHANGED <<at, known>>
  \/ \E r \in Requests : \E p : p # "unregistering" /\ Goes(r, p, "done", Unborn)

Session(u, o) == [user |-> u, org |-> o, status |-> "live"]

Reads ==
  \E r \in Requests : \E p, s, k :
    /\ Goes(r, p, s, k) /\ p # "unregistering"
    /\ s \notin {"changing", "purging", "unregistering"}
    /\ s = "starting" => Startable(k.user) /\ ~Locked(k.user)
    /\ s = "rotating" => db.tokens[k.token] # Unborn
    /\ UNCHANGED <<db, uses, slips>>

Founds ==
  \E u \in Users, o \in Orgs :
    /\ Quits /\ UNCHANGED <<uses, slips>>
    /\ Row(db.users[u]) /\ db.orgs[o] = Unborn
    /\ Fields(db', db.users, [db.orgs EXCEPT ![o] = NewOrg(u, "Free")],
              [db.members EXCEPT ![o] = [db.members[o] EXCEPT ![u] = "owner"]],
              db.invites, db.codes, db.tokens, db.traces \cup {o})

SetsRole ==
  \E u \in Users, o \in Orgs, role \in Roles :
    /\ Quits /\ UNCHANGED uses
    /\ Row(db.users[u]) /\ Row(db.orgs[o])
    /\ slips' = slips \cup Slip("demoted", o, Owners(o) = {u} /\ role # "owner")
    /\ Fields(db', db.users, db.orgs,
              [db.members EXCEPT ![o] = [db.members[o] EXCEPT ![u] = role]],
              db.invites, db.codes, db.tokens, db.traces)

Transfers ==
  \E v \in Users, o \in Orgs, seen \in SUBSET Users :
    /\ Quits /\ UNCHANGED uses
    /\ Row(db.orgs[o])
    /\ slips' = slips \cup Slip("owners", o, seen # Owners(o) \/ Role(v, o) = NoRole)
    /\ Fields(db', db.users, [db.orgs EXCEPT ![o] = [db.orgs[o] EXCEPT !.owner = v]],
              [db.members EXCEPT ![o] = Transferred(o, v, seen)],
              db.invites, db.codes, db.tokens, db.traces)

Leaves ==
  \E u \in Users, o \in Orgs, to \in Orgs \cup {Unborn}, owners \in SUBSET Users :
    /\ Quits /\ UNCHANGED uses
    /\ Row(db.users[u]) /\ Row(db.orgs[o])
    /\ u \in owners => \E w \in owners : w # u
    /\ slips' = slips \cup (Slip("owners", o, Owners(o) # owners)
                              \cup Slip("current", u, to \notin Fallbacks(db, u, o)))
    /\ Fields(db', IF to = Unborn THEN db.users
                   ELSE [db.users EXCEPT ![u] = [db.users[u] EXCEPT !.org = to]],
              db.orgs, [db.members EXCEPT ![o] = [db.members[o] EXCEPT ![u] = NoRole]],
              db.invites, db.codes, db.tokens, db.traces)
    /\ Sound(db')

\* What goes with an organization.
CutMembers(m, o) == [m EXCEPT ![o] = [u \in Users |-> NoRole]]
CutInvites(i, o) == [x \in Invites |-> IF Row(i[x]) /\ i[x].org = o THEN Gone ELSE i[x]]

DeletesOrg ==
  \E r \in Requests, o \in Orgs : \E to :
    /\ Goes(r, "relocating", "purging", [org |-> o]) /\ UNCHANGED uses
    /\ to \in [Users -> Orgs \cup {Unborn}]
    /\ slips' = slips \cup {<<"current", u>> : u \in
                             {v \in Users : to[v] # Unborn /\ Role(v, to[v]) = NoRole}}
    /\ Fields(db', [u \in Users |-> IF to[u] # Unborn /\ Row(db.users[u])
                                      THEN [db.users[u] EXCEPT !.org = to[u]]
                                      ELSE db.users[u]],
              [db.orgs EXCEPT ![o] = Gone], CutMembers(db.members, o),
              CutInvites(db.invites, o), db.codes, db.tokens, db.traces)
    /\ Sound(db')

Purges ==
  \E o \in Orgs, x \in SUBSET Orgs :
    /\ Quits /\ UNCHANGED <<uses, slips>>
    /\ db.orgs[o] = Gone /\ x \in {db.traces, db.traces \ {o}}
    /\ Fields(db', db.users, db.orgs, db.members, db.invites, db.codes, db.tokens, x)

NewInvites(n, o, v, role, seen) ==
  [i \in Invites |->
     CASE i = n -> [org |-> o, user |-> v, role |-> role, status |-> "pending"]
       [] i \in seen \cap Pending(o, v) -> [db.invites[i] EXCEPT !.status = "revoked"]
       [] OTHER -> db.invites[i]]

InvitesAnew ==
  \E n \in Invites, o \in Orgs, v \in Users, role \in Roles \ {"owner"},
     seen \in SUBSET Invites :
    /\ Quits /\ UNCHANGED uses
    /\ Row(db.orgs[o]) /\ db.invites[n] = Unborn
    /\ slips' = slips \cup Slip("invites", <<o, v>>, seen # Pending(o, v))
    /\ Fields(db', db.users, db.orgs, db.members, NewInvites(n, o, v, role, seen),
              db.codes, db.tokens, db.traces)

EndsInvite ==
  \E i \in Invites, status \in {"expired", "revoked"} :
    /\ Quits /\ UNCHANGED <<uses, slips>>
    /\ Row(db.invites[i])
    /\ Fields(db', db.users, db.orgs, db.members,
              [db.invites EXCEPT ![i] = [db.invites[i] EXCEPT !.status = status]],
              db.codes, db.tokens, db.traces)

Accepts ==
  \E r \in Requests, i \in Invites : \E k :
    /\ Goes(r, "organization", "landing", k) /\ UNCHANGED uses
    /\ Row(db.invites[i]) /\ Row(db.users[db.invites[i].user])
    /\ slips' = slips \cup Slip("demoted", db.invites[i].org,
                                Owners(db.invites[i].org) = {db.invites[i].user})
    /\ Fields(db', db.users, db.orgs,
              [db.members EXCEPT ![db.invites[i].org] =
                 [db.members[db.invites[i].org] EXCEPT ![db.invites[i].user] =
                    db.invites[i].role]],
              [db.invites EXCEPT ![i] = [db.invites[i] EXCEPT !.status = "accepted"]],
              db.codes, db.tokens, db.traces)

Lands ==
  \E r \in Requests, u \in Users, o \in Orgs :
    /\ Goes(r, "landing", "minting", known[r]) /\ UNCHANGED uses
    /\ Row(db.users[u]) /\ Row(db.orgs[o])
    /\ slips' = slips \cup Slip("current", u, Role(u, o) = NoRole)
    /\ Fields(db', [db.users EXCEPT ![u] = [db.users[u] EXCEPT !.org = o]], db.orgs,
              db.members, db.invites, db.codes, db.tokens, db.traces)

Mints ==
  \E u \in Users, o \in Orgs, t \in Tokens :
    /\ Quits /\ UNCHANGED <<uses, slips>>
    /\ db.tokens[t] = Unborn
    /\ Fields(db', db.users, db.orgs, db.members, db.invites, db.codes,
              [db.tokens EXCEPT ![t] = Session(u, o)], db.traces)

Downgrades ==
  \E u \in Users, row \in UserRows :
    /\ Quits /\ UNCHANGED uses
    /\ Row(db.users[u]) /\ row.trial = "over" /\ ~Locked(u)
    /\ slips' = slips \cup Slip("plan", u, db.users[u] # row)
    /\ Fields(db', [db.users EXCEPT ![u] =
                      [db.users[u] EXCEPT !.type = "Free", !.trial = "none"]],
              db.orgs, db.members, db.invites, db.codes, db.tokens, db.traces)

StartsTrial ==
  \E r \in Requests, u \in Users, plan \in Tiers :
    /\ Goes(r, "starting", "done", Unborn) /\ known[r].user = u
    /\ uses' = [uses EXCEPT ![u] = uses[u] + 1] /\ UNCHANGED slips
    /\ Fields(db', [db.users EXCEPT ![u] =
                      [db.users[u] EXCEPT !.type = plan, !.trial = "running", !.used = TRUE]],
              db.orgs, db.members, db.invites, db.codes, db.tokens, db.traces)

EndsTrial ==
  \E u \in Users :
    /\ UNCHANGED <<at, known, uses, slips>>
    /\ Row(db.users[u])
    /\ Fields(db', [db.users EXCEPT ![u] = [db.users[u] EXCEPT !.trial = "over"]],
              db.orgs, db.members, db.invites, db.codes, db.tokens, db.traces)

Retypes ==
  \E r \in Requests, u \in Users, type \in Tiers :
    /\ Goes(r, "plan", "done", Unborn) /\ UNCHANGED <<uses, slips>>
    /\ Row(db.users[u]) /\ ~Locked(u)
    /\ Fields(db', [db.users EXCEPT ![u] = [db.users[u] EXCEPT !.type = type]],
              [db.orgs EXCEPT ![db.users[u].org] =
                 [db.orgs[db.users[u].org] EXCEPT !.limit = ApiKeyLimits[type]]],
              db.members, db.invites, db.codes, db.tokens, db.traces)

\* A plan, a key more or a key less: usage counts the keys before and after.
SetsOrg ==
  \E o \in Orgs, row \in OrgRows :
    /\ Quits /\ UNCHANGED <<uses, slips>>
    /\ Row(db.orgs[o])
    /\ db.orgs[o].usage = Cardinality(db.orgs[o].keys) => row.usage = Cardinality(row.keys)
    /\ Fields(db', db.users, [db.orgs EXCEPT ![o] = row], db.members, db.invites,
              db.codes, db.tokens, db.traces)

Registers ==
  \E u \in Users, o \in Orgs, t \in Tokens :
    /\ Quits /\ UNCHANGED <<uses, slips>>
    /\ db.users[u] = Unborn /\ db.orgs[o] = Unborn /\ db.tokens[t] = Unborn
    /\ Fields(db', [db.users EXCEPT ![u] = NewUser(o)],
              [db.orgs EXCEPT ![o] = NewOrg(u, NoPlan)],
              [db.members EXCEPT ![o] = [db.members[o] EXCEPT ![u] = "owner"]],
              db.invites, db.codes, [db.tokens EXCEPT ![t] = Session(u, o)],
              db.traces \cup {o})

Rotates ==
  \E r \in Requests, t, n \in Tokens, u \in Users, o \in Orgs :
    /\ Goes(r, "rotating", "done", Unborn) /\ known[r].token = t
    /\ db.tokens[n] = Unborn
    /\ uses' = [uses EXCEPT ![t] = uses[t] + 1]
    /\ slips' = slips \cup Slip("token", t, db.tokens[t].status = "revoked")
    /\ Fields(db', db.users, db.orgs, db.members, db.invites, db.codes,
              [[db.tokens EXCEPT ![t] = [db.tokens[t] EXCEPT !.status = "revoked"]]
                 EXCEPT ![n] = Session(u, o)], db.traces)

EndsToken ==
  \E t \in Tokens, status \in {"expired", "revoked"} :
    /\ Quits /\ UNCHANGED <<uses, slips>>
    /\ db.tokens[t] # Unborn
    /\ status = "expired" => db.tokens[t].status = "live"
    /\ Fields(db', db.users, db.orgs, db.members, db.invites, db.codes,
              [db.tokens EXCEPT ![t] = [db.tokens[t] EXCEPT !.status = status]], db.traces)

NewCodes(n, u, seen) ==
  [c \in Codes |->
     CASE c = n -> [user |-> u, status |-> "live"]
       [] c \in seen \cap Live(u) -> [db.codes[c] EXCEPT !.status = "used"]
       [] OTHER -> db.codes[c]]

ResetsAnew ==
  \E n \in Codes, u \in Users, seen \in SUBSET Codes :
    /\ Quits /\ UNCHANGED uses
    /\ Row(db.users[u]) /\ db.codes[n] = Unborn
    /\ slips' = slips \cup Slip("codes", u, seen # Live(u))
    /\ Fields(db', db.users, db.orgs, db.members, db.invites, NewCodes(n, u, seen),
              db.tokens, db.traces)

Consumes ==
  \E r \in Requests, c \in Codes :
    /\ Goes(r, "consuming", "changing", known[r]) /\ known[r].code = c
    /\ UNCHANGED <<uses, slips>>
    /\ Row(db.codes[c]) /\ db.codes[c].status = "live"
    /\ Fields(db', db.users, db.orgs, db.members, db.invites,
              [db.codes EXCEPT ![c] = [db.codes[c] EXCEPT !.status = "used"]],
              db.tokens, db.traces)

ChangesPassword ==
  \E r \in Requests, c \in Codes, n \in {0, 1} :
    /\ Goes(r, "changing", "done", Unborn) /\ known[r].code = c
    /\ uses' = [uses EXCEPT ![c] = uses[c] + n] /\ UNCHANGED <<db, slips>>

DropsTraces ==
  \E r \in Requests, u \in Users, o \in Orgs :
    /\ Goes(r, "session", "unregistering", [user |-> u, org |-> o])
    /\ UNCHANGED <<uses, slips>>
    /\ Fields(db', db.users, db.orgs, db.members, db.invites, db.codes, db.tokens,
              db.traces \ {o})

Unregisters ==
  \E r \in Requests, u \in Users, o \in Orgs :
    /\ Goes(r, "unregistering", "done", Unborn) /\ UNCHANGED uses
    /\ known[r].user = u /\ known[r].org = o /\ ~Locked(u)
    /\ slips' = slips \cup {<<"demoted", p>> : p \in {q \in Orgs : Owners(q) = {u}}}
    /\ Fields(db', [db.users EXCEPT ![u] = Gone], [db.orgs EXCEPT ![o] = Gone],
              CutMembers([p \in Orgs |-> [db.members[p] EXCEPT ![u] = NoRole]], o),
              CutInvites(db.invites, o),
              [c \in Codes |-> IF Row(db.codes[c]) /\ db.codes[c].user = u
                                 THEN Gone ELSE db.codes[c]],
              db.tokens, db.traces)
    /\ Sound(db')

IsRefused ==
  \E r \in Requests, o \in Orgs :
    /\ Goes(r, "unregistering", "done", Unborn) /\ known[r].org = o
    /\ slips' = slips \cup {<<"refused", o>>} /\ UNCHANGED <<db, uses>>

EndsCode ==
  \E c \in Codes :
    /\ UNCHANGED <<at, known, uses, slips>>
    /\ Row(db.codes[c]) /\ db.codes[c].status = "live"
    /\ Fields(db', db.users, db.orgs, db.members, db.invites,
              [db.codes EXCEPT ![c] = [db.codes[c] EXCEPT !.status = "expired"]],
              db.tokens, db.traces)

Forms ==
  \/ Reads \/ Founds \/ SetsRole \/ Transfers \/ Leaves \/ DeletesOrg \/ Purges
  \/ InvitesAnew \/ EndsInvite \/ Accepts \/ Lands \/ Mints \/ Downgrades
  \/ StartsTrial \/ EndsTrial \/ Retypes \/ SetsOrg \/ Registers \/ Rotates
  \/ EndsToken \/ ResetsAnew \/ Consumes \/ ChangesPassword \/ DropsTraces
  \/ Unregisters \/ IsRefused \/ EndsCode


-----------------------------------------------------------------------------
(* The fields of the tables that a step writes.                             *)

\* New rows are rows, and a row is what its table says.
LEMMA NewRows ==
  /\ \A x \in UserRows \cup OrgRows \cup InviteRows \cup CodeRows \cup TokenRows : Row(x)
  /\ \A o \in Orgs : NewUser(o) \in UserRows
  /\ \A u \in Users, plan \in Tiers \cup {NoPlan} : NewOrg(u, plan) \in OrgRows
  /\ \A u \in Users, o \in Orgs : Session(u, o) \in TokenRows
  /\ \A type \in Tiers : ApiKeyLimits[type] \in Nat
  /\ ~Row(Unborn) /\ ~Row(Gone) /\ Unborn # Gone
<1>1. \A x \in UserRows \cup OrgRows \cup InviteRows \cup CodeRows \cup TokenRows : Row(x)
  BY RowsAssumption DEF Row
<1>2. \A o \in Orgs : NewUser(o) \in UserRows
  BY DEF NewUser, UserRows, Tiers
<1>3. \A type \in Tiers : ApiKeyLimits[type] \in Nat
  BY DEF ApiKeyLimits, Tiers
<1>4. \A u \in Users, plan \in Tiers \cup {NoPlan} : NewOrg(u, plan) \in OrgRows
  BY <1>3 DEF NewOrg, OrgRows, Tiers
<1>5. \A u \in Users, o \in Orgs : Session(u, o) \in TokenRows
  BY DEF Session, TokenRows
<1>6. ~Row(Unborn) /\ ~Row(Gone) /\ Unborn # Gone
  BY TenantsAssumption DEF Row
<1>7. QED
  BY <1>1, <1>2, <1>3, <1>4, <1>5, <1>6

LEMMA RowsAre ==
  ASSUME TablesInv
  PROVE  /\ \A u \in Users : Row(db.users[u]) => db.users[u] \in UserRows
         /\ \A o \in Orgs : Row(db.orgs[o]) => db.orgs[o] \in OrgRows
         /\ \A i \in Invites : Row(db.invites[i]) => db.invites[i] \in InviteRows
         /\ \A c \in Codes : Row(db.codes[c]) => db.codes[c] \in CodeRows
         /\ \A t \in Tokens : Row(db.tokens[t]) => db.tokens[t] \in TokenRows
         /\ \A t \in Tokens : db.tokens[t] # Unborn => Row(db.tokens[t])
<1>1. ~Row(Unborn) /\ ~Row(Gone)
  BY NewRows
<1>2. \A x \in TokenRows : Row(x)
  BY NewRows
<1>3. QED
  BY <1>1, <1>2 DEF TablesInv, Absent

\* A row of a typed table under a fresh identifier.
LEMMA FreshOnes ==
  ASSUME TablesInv
  PROVE  /\ Fresh(db.orgs) # {} => Next1(db.orgs) \in Orgs /\ db.orgs[Next1(db.orgs)] = Unborn
         /\ Fresh(db.invites) # {} =>
              Next1(db.invites) \in Invites /\ db.invites[Next1(db.invites)] = Unborn
         /\ Fresh(db.codes) # {} =>
              Next1(db.codes) \in Codes /\ db.codes[Next1(db.codes)] = Unborn
         /\ Fresh(db.tokens) # {} =>
              Next1(db.tokens) \in Tokens /\ db.tokens[Next1(db.tokens)] = Unborn
BY DEF TablesInv, Fresh, Next1

LEMMA FieldsAre ==
  ASSUME NEW d, DOMAIN d = DbFields
  PROVE  Fields(d, d.users, d.orgs, d.members, d.invites, d.codes, d.tokens, d.traces)
BY DEF Fields

LEMMA FieldsOfFounded ==
  ASSUME NEW d, DOMAIN d = DbFields, NEW o \in DOMAIN d.members, NEW u, NEW plan
  PROVE  Fields(Founded(d, u, o, plan), d.users, [d.orgs EXCEPT ![o] = NewOrg(u, plan)],
                [d.members EXCEPT ![o] = [d.members[o] EXCEPT ![u] = "owner"]],
                d.invites, d.codes, d.tokens, d.traces \cup {o})
<1> DEFINE row == NewOrg(u, plan)
           e == [d EXCEPT !.orgs[o] = row, !.members[o][u] = "owner", !.traces = @ \cup {o}]
<1>1. Founded(d, u, o, plan) = e
  BY DEF Founded
<1> HIDE DEF row
<1>2. Fields(e, d.users, [d.orgs EXCEPT ![o] = row],
             [d.members EXCEPT ![o] = [d.members[o] EXCEPT ![u] = "owner"]],
             d.invites, d.codes, d.tokens, d.traces \cup {o})
  BY DEF Fields, DbFields
<1>3. QED
  BY <1>1, <1>2 DEF row

LEMMA FieldsOfMinted ==
  ASSUME NEW d, DOMAIN d = DbFields, NEW u, NEW o
  PROVE  Fields(Minted(d, u, o), d.users, d.orgs, d.members, d.invites, d.codes,
                [d.tokens EXCEPT ![Next1(d.tokens)] = Session(u, o)], d.traces)
BY DEF Fields, DbFields, Minted, Session

LEMMA FieldsOfWithoutOrg ==
  ASSUME NEW d, DOMAIN d = DbFields, NEW o
  PROVE  Fields(WithoutOrg(d, o), d.users, [d.orgs EXCEPT ![o] = Gone],
                CutMembers(d.members, o), CutInvites(d.invites, o), d.codes, d.tokens,
                d.traces)
BY DEF Fields, DbFields, WithoutOrg, CutMembers, CutInvites

LEMMA FieldsOfWithoutUser ==
  ASSUME NEW d, DOMAIN d = DbFields, NEW u
  PROVE  Fields(WithoutUser(d, u), [d.users EXCEPT ![u] = Gone], d.orgs,
                [o \in Orgs |-> [d.members[o] EXCEPT ![u] = NoRole]], d.invites,
                [c \in Codes |-> IF Row(d.codes[c]) /\ d.codes[c].user = u
                                   THEN Gone ELSE d.codes[c]], d.tokens, d.traces)
BY DEF Fields, DbFields, WithoutUser

LEMMA FieldsOfUsers ==
  ASSUME NEW d, DOMAIN d = DbFields, NEW new
  PROVE  Fields([d EXCEPT !.users = new], new, d.orgs, d.members, d.invites, d.codes,
                d.tokens, d.traces)
BY DEF Fields, DbFields

LEMMA FieldsOfMoved ==
  ASSUME NEW d, DOMAIN d = DbFields, NEW u \in DOMAIN d.users, NEW o
  PROVE  Fields(Moved(d, u, o), IF o = Unborn THEN d.users
                                ELSE [d.users EXCEPT ![u] = [d.users[u] EXCEPT !.org = o]],
                d.orgs, d.members, d.invites, d.codes, d.tokens, d.traces)
<1>1. [d EXCEPT !.users[u].org = o] =
        [d EXCEPT !.users = [d.users EXCEPT ![u] = [d.users[u] EXCEPT !.org = o]]]
  BY DEF DbFields
<1>2. QED
  BY <1>1, FieldsOfUsers, FieldsAre DEF Moved


-----------------------------------------------------------------------------
(* Next is one of the forms: the steps that only read.                      *)

BaseInv == TablesInv /\ RefsInv /\ StandsInv

LEMMA Reading ==
  ASSUME NEW r \in Requests, at[r] # "unregistering",
         NEW s, NEW k, Proceed(r, s, k), Knows(s, k),
         s \notin {"changing", "purging", "unregistering"},
         s = "starting" => Startable(k.user) /\ ~Locked(k.user),
         s = "rotating" => db.tokens[k.token] # Unborn
  PROVE  Reads
<1>1. Goes(r, at[r], s, k) /\ UNCHANGED <<db, uses, slips>>
  BY DEF Goes, Proceed, ghosts
<1>2. QED
  BY <1>1 DEF Reads

\* The stages about which Reads says nothing more.
LEMMA ReadingPlain ==
  ASSUME NEW r \in Requests, at[r] # "unregistering",
         NEW s, NEW k, Proceed(r, s, k), Knows(s, k),
         s \notin {"changing", "purging", "unregistering", "starting", "rotating"}
  PROVE  Reads
BY Reading

LEMMA Leaving ==
  ASSUME NEW r \in Requests, Leave(r)
  PROVE  Goes(r, at[r], "done", Unborn) /\ (at[r] # "unregistering" => Quits)
<1>1. Goes(r, at[r], "done", Unborn)
  BY DEF Leave, Goes, Knows, Stages
<1>2. QED
  BY <1>1 DEF Quits

LEMMA Answering ==
  ASSUME NEW r \in Requests, Answer(r), at[r] # "unregistering"
  PROVE  Reads
<1>1. Goes(r, at[r], "done", Unborn)
  BY Leaving DEF Answer
<1>2. UNCHANGED <<db, uses, slips>>
  BY DEF Answer, ghosts
<1>3. QED
  BY <1>1, <1>2 DEF Reads

LEMMA OwnersSeen ==
  /\ \A o \in Orgs : Owners(o) \in SUBSET Users
  /\ \A o \in Orgs, u \in Users : Fallbacks(db, u, o) \in SUBSET (Orgs \cup {Unborn})
  /\ \A o \in Orgs, u \in Users : Pending(o, u) \in SUBSET Invites
  /\ \A u \in Users : Live(u) \in SUBSET Codes
BY DEF Owners, Fallbacks, MemberOf, Pending, Live

LEMMA OrganizationReads ==
  ASSUME BaseInv, NEW r \in Requests,
         \/ UpdateMemberRole(r) \/ AdminSetMemberRole(r) \/ RemoveOrgMember(r)
         \/ AdminRemoveMember(r) \/ DeleteOrgRequest(r) \/ InviteMember(r) \/ SwitchOrg(r)
  PROVE  Reads
<1>1. ASSUME UpdateMemberRole(r) \/ AdminSetMemberRole(r)
      PROVE  Reads
  <2>1. at[r] # "unregistering"
    BY <1>1 DEF UpdateMemberRole, AdminSetMemberRole, Arrives
  <2>2. PICK v \in Users, o \in Orgs, role \in Roles :
          Proceed(r, "setting", [org |-> o, user |-> v, role |-> role])
    BY <1>1 DEF UpdateMemberRole, AdminSetMemberRole
  <2>3. Knows("setting", [org |-> o, user |-> v, role |-> role])
    BY <2>2 DEF Knows, Stages
  <2>4. QED
    BY <2>1, <2>2, <2>3, ReadingPlain
<1>2. ASSUME RemoveOrgMember(r) \/ AdminRemoveMember(r) \/ DeleteOrgRequest(r) \/ SwitchOrg(r)
      PROVE  Reads
  <2>1. at[r] # "unregistering"
    BY <1>2 DEF RemoveOrgMember, AdminRemoveMember, DeleteOrgRequest, SwitchOrg, Arrives
  <2>2. PICK s \in {"removing", "counting", "landing"} : \E v \in Users, o \in Orgs :
          Proceed(r, s, [org |-> o, user |-> v])
    BY <1>2 DEF RemoveOrgMember, AdminRemoveMember, DeleteOrgRequest, SwitchOrg
  <2>3. PICK v \in Users, o \in Orgs : Proceed(r, s, [org |-> o, user |-> v])
    BY <2>2
  <2>4. Knows(s, [org |-> o, user |-> v])
    BY <2>2, <2>3 DEF Knows, Stages, OrgUser
  <2>5. QED
    BY <2>1, <2>2, <2>3, <2>4, ReadingPlain
<1>3. ASSUME InviteMember(r)
      PROVE  Reads
  <2>1. at[r] # "unregistering"
    BY <1>3 DEF InviteMember, Arrives
  <2>2. PICK v \in Users, o \in Orgs, role \in {"admin", "member"} :
          Proceed(r, "inviting", [org |-> o, user |-> v, role |-> role])
    BY <1>3 DEF InviteMember
  <2>3. Knows("inviting", [org |-> o, user |-> v, role |-> role])
    BY <2>2 DEF Knows, Stages, Roles
  <2>4. QED
    BY <2>1, <2>2, <2>3, ReadingPlain
<1>4. QED
  BY <1>1, <1>2, <1>3

\* An owner that CheckRemoval lets go has seen another one.
LEMMA AnotherOwner ==
  ASSUME NEW S \in SUBSET Users, NEW u \in S, ~(Cardinality(S) <= 1)
  PROVE  \E w \in S : w # u
<1>1. SUFFICES ASSUME \A w \in S : w = u
               PROVE  FALSE
  OBVIOUS
<1>2. S = {u}
  BY <1>1
<1>3. Cardinality(S) = 1
  BY <1>2, FS_Singleton
<1>4. QED
  BY <1>3

LEMMA Known ==
  ASSUME BaseInv, NEW r \in Requests
  PROVE  /\ at[r] = "setting" => known[r] \in [org : Orgs, user : Users, role : Roles]
         /\ at[r] = "transferring" =>
              known[r] \in [org : Orgs, user : Users, owners : SUBSET Users]
         /\ at[r] \in {"removing", "counting", "landing", "minting", "unregistering"} =>
              known[r].org \in Orgs /\ known[r].user \in Users
         /\ at[r] = "leaving" =>
              /\ known[r] \in [org : Orgs, user : Users, owners : SUBSET Users,
                               to : SUBSET (Orgs \cup {Unborn})]
              /\ known[r].user \in known[r].owners =>
                   \E w \in known[r].owners : w # known[r].user
         /\ at[r] \in {"deleting", "purging"} => known[r].org \in Orgs
         /\ at[r] = "relocating" =>
              known[r] \in [org : Orgs, members : SUBSET Users, to : [Users -> Orgs \cup {Unborn}]]
         /\ at[r] = "superseding" =>
              known[r] \in [org : Orgs, user : Users, role : Roles \ {"owner"},
                            pending : SUBSET Invites]
         /\ at[r] = "downgrading" =>
              known[r] \in [user : Users, row : UserRows] /\ known[r].row.trial = "over"
         /\ at[r] = "starting" => known[r].user \in Users /\ known[r].plan \in Tiers
         /\ at[r] = "unkeying" => known[r].org \in Orgs /\ known[r].key \in Keys
         /\ at[r] = "registering" => known[r].user \in Users
         /\ at[r] = "rotating" => known[r].token \in Tokens
         /\ at[r] = "resetting" => known[r].user \in Users /\ known[r].live \in SUBSET Codes
         /\ at[r] \in {"consuming", "changing"} =>
              known[r].user \in Users /\ known[r].code \in Codes
<1>1. Knows(at[r], known[r])
  BY DEF BaseInv, StandsInv
<1>2. QED
  BY <1>1 DEF Knows, OrgUser

LEMMA CheckReads ==
  ASSUME BaseInv, NEW r \in Requests, CheckRemoval(r) \/ CountOrgs(r) \/ ReadMembers(r) \/ CheckInvited(r)
  PROVE  Reads
<1>1. ASSUME CheckRemoval(r)
      PROVE  Reads
  <2>1. at[r] = "removing" /\ at[r] # "unregistering"
    BY <1>1 DEF CheckRemoval, At
  <2>2. known[r] \in OrgUser
    BY <2>1 DEF BaseInv, StandsInv, Knows
  <2> DEFINE u == known[r].user
             o == known[r].org
             k == [org |-> o, user |-> u, owners |-> Owners(o), to |-> Fallbacks(db, u, o)]
  <2>3. u \in Users /\ o \in Orgs
    BY <2>2 DEF OrgUser
  <2>4. \/ Answer(r)
        \/ /\ ~(Role(u, o) = "owner" /\ Cardinality(Owners(o)) <= 1)
           /\ Proceed(r, "leaving", k)
    BY <1>1 DEF CheckRemoval
  <2>5. CASE Answer(r)
    BY <2>1, <2>5, Answering
  <2>6. ASSUME ~(Role(u, o) = "owner" /\ Cardinality(Owners(o)) <= 1),
               Proceed(r, "leaving", k)
        PROVE  Reads
    <3>1. ASSUME u \in Owners(o)
          PROVE  \E w \in Owners(o) : w # u
      <4>1. Role(u, o) = "owner"
        BY <3>1 DEF Owners, Role
      <4>2. ~(Cardinality(Owners(o)) <= 1)
        BY <2>6, <4>1
      <4>3. Owners(o) \in SUBSET Users
        BY <2>3, OwnersSeen
      <4>4. QED
        BY <3>1, <4>2, <4>3, AnotherOwner
    <3>2. Owners(o) \in SUBSET Users /\ Fallbacks(db, u, o) \in SUBSET (Orgs \cup {Unborn})
      BY <2>3, OwnersSeen
    <3>3. /\ k \in [org : Orgs, user : Users, owners : SUBSET Users,
                    to : SUBSET (Orgs \cup {Unborn})]
          /\ k.user = u /\ k.owners = Owners(o)
      BY <2>3, <3>2
    <3>4. Knows("leaving", k)
      <4> HIDE DEF k
      <4>1. QED
        BY <3>1, <3>3 DEF Knows, Stages
    <3>5. QED
      BY <2>1, <2>6, <3>4, ReadingPlain
  <2>7. QED
    BY <2>4, <2>5, <2>6
<1>2. ASSUME CountOrgs(r)
      PROVE  Reads
  <2>1. at[r] = "counting" /\ at[r] # "unregistering"
    BY <1>2 DEF CountOrgs, At
  <2>2. known[r] \in OrgUser
    BY <2>1 DEF BaseInv, StandsInv, Knows
  <2>3. Answer(r) \/ Proceed(r, "deleting", [org |-> known[r].org])
    BY <1>2 DEF CountOrgs
  <2>4. Knows("deleting", [org |-> known[r].org])
    BY <2>2 DEF Knows, Stages, OrgUser
  <2>5. QED
    BY <2>1, <2>3, <2>4, ReadingPlain, Answering
<1>3. ASSUME CheckInvited(r)
      PROVE  Reads
  <2>1. at[r] = "inviting" /\ at[r] # "unregistering"
    BY <1>3 DEF CheckInvited, At
  <2>2. known[r] \in [org : Orgs, user : Users, role : Roles \ {"owner"}]
    BY <2>1 DEF BaseInv, StandsInv, Knows
  <2> DEFINE k == [org |-> known[r].org, user |-> known[r].user, role |-> known[r].role,
                   pending |-> Pending(known[r].org, known[r].user)]
  <2>3. Answer(r) \/ Proceed(r, "superseding", k)
    BY <1>3 DEF CheckInvited
  <2>4. Pending(known[r].org, known[r].user) \in SUBSET Invites
    BY <2>2, OwnersSeen
  <2>5. Knows("superseding", k)
    BY <2>2, <2>4 DEF Knows, Stages
  <2>6. QED
    BY <2>1, <2>3, <2>5, ReadingPlain, Answering
<1>4. ASSUME ReadMembers(r)
      PROVE  Reads
  <2>1. at[r] = "deleting" /\ at[r] # "unregistering"
    BY <1>4 DEF ReadMembers, At
  <2>2. known[r].org \in Orgs
    BY <2>1, Known
  <2> DEFINE members == {u \in Users : Role(u, known[r].org) # NoRole}
  <2>3. PICK to \in [Users -> Orgs \cup {Unborn}] :
          Proceed(r, "relocating", [org |-> known[r].org, members |-> members, to |-> to])
    BY <1>4 DEF ReadMembers
  <2>4. Knows("relocating", [org |-> known[r].org, members |-> members, to |-> to])
    BY <2>2 DEF Knows, Stages
  <2> HIDE DEF members
  <2>5. QED
    BY <2>1, <2>3, <2>4, ReadingPlain
<1>5. QED
  BY <1>1, <1>2, <1>3, <1>4

LEMMA PlanReads ==
  ASSUME BaseInv, NEW r \in Requests, ReadTier(r) \/ LockOwner(r) \/ DeleteListedKey(r)
  PROVE  Reads
<1>0. at[r] # "unregistering"
  BY DEF ReadTier, LockOwner, DeleteListedKey, Arrives
<1>1. ASSUME ReadTier(r)
      PROVE  Reads
  <2>1. PICK o \in Orgs :
          /\ Owned(o) /\ db.orgs[o].plan = NoPlan /\ EffectiveTier(o) # Owner(o).type
          /\ Proceed(r, "downgrading", [user |-> db.orgs[o].owner, row |-> Owner(o)])
    BY <1>1 DEF ReadTier
  <2>2. db.orgs[o] \in OrgRows
    BY <2>1, RowsAre DEF Owned, BaseInv
  <2>3. db.orgs[o].owner \in Users
    BY <2>2 DEF OrgRows
  <2>4. Owner(o) \in UserRows
    BY <2>1, <2>3, RowsAre DEF Owned, Owner, BaseInv
  <2>5. Owner(o).trial = "over"
    BY <2>1 DEF EffectiveTier
  <2>6. Knows("downgrading", [user |-> db.orgs[o].owner, row |-> Owner(o)])
    BY <2>3, <2>4, <2>5 DEF Knows, Stages
  <2>7. QED
    BY <1>0, <2>1, <2>6, ReadingPlain
<1>2. ASSUME LockOwner(r)
      PROVE  Reads
  <2>1. PICK o \in Orgs, plan \in Trialable \cap Offered :
          /\ Owned(o) /\ Owner(o).type = "Free" /\ ~Owner(o).used
          /\ ~Locked(db.orgs[o].owner)
          /\ Proceed(r, "starting", [user |-> db.orgs[o].owner, plan |-> plan])
    BY <1>2 DEF LockOwner
  <2> DEFINE k == [user |-> db.orgs[o].owner, plan |-> plan]
  <2>2. db.orgs[o] \in OrgRows
    BY <2>1, RowsAre DEF Owned, BaseInv
  <2>3. db.orgs[o].owner \in Users
    BY <2>2 DEF OrgRows
  <2>4. plan \in Tiers
    BY <2>1, TenantsAssumption
  <2>5. Knows("starting", k)
    BY <2>3, <2>4 DEF Knows, Stages
  <2>6. Startable(k.user) /\ ~Locked(k.user)
    BY <2>1 DEF Startable, Owned, Owner
  <2>7. Proceed(r, "starting", k)
    BY <2>1
  <2> HIDE DEF k
  <2>8. QED
    BY <1>0, <2>5, <2>6, <2>7, Reading
<1>3. ASSUME DeleteListedKey(r)
      PROVE  Reads
  <2>1. PICK o \in Orgs : Row(db.orgs[o]) /\ \E key \in db.orgs[o].keys :
          Proceed(r, "unkeying", [org |-> o, key |-> key])
    BY <1>3 DEF DeleteListedKey
  <2>2. PICK key \in db.orgs[o].keys : Proceed(r, "unkeying", [org |-> o, key |-> key])
    BY <2>1
  <2>3. db.orgs[o] \in OrgRows
    BY <2>1, RowsAre DEF BaseInv
  <2>4. key \in Keys
    BY <2>2, <2>3 DEF OrgRows
  <2>5. Knows("unkeying", [org |-> o, key |-> key])
    BY <2>1, <2>4 DEF Knows, Stages
  <2>6. QED
    BY <1>0, <2>2, <2>5, ReadingPlain
<1>4. QED
  BY <1>1, <1>2, <1>3

LEMMA Registering ==
  ASSUME NEW r \in Requests, at[r] # "unregistering", NEW u \in Users,
         Proceed(r, "registering", [user |-> u])
  PROVE  Reads
<1>1. Knows("registering", [user |-> u])
  BY DEF Knows, Stages
<1>2. QED
  BY <1>1, ReadingPlain

LEMMA SessionReads ==
  ASSUME BaseInv, NEW r \in Requests,
         FindAccount(r) \/ CheckRefreshToken(r) \/ ForgotPassword(r) \/ FetchActiveReset(r)
  PROVE  Reads
<1>0. at[r] # "unregistering"
  BY DEF FindAccount, CheckRefreshToken, ForgotPassword, FetchActiveReset, Arrives
<1>1. ASSUME FindAccount(r)
      PROVE  Reads
  BY <1>0, <1>1, Registering DEF FindAccount
<1>2. ASSUME CheckRefreshToken(r)
      PROVE  Reads
  <2>1. PICK t \in Tokens : Row(db.tokens[t]) /\ Proceed(r, "rotating", [token |-> t])
    BY <1>2 DEF CheckRefreshToken
  <2> DEFINE k == [token |-> t]
  <2>2. Knows("rotating", k)
    BY <2>1 DEF Knows, Stages
  <2>3. db.tokens[k.token] # Unborn
    BY <2>1 DEF Row
  <2>4. Proceed(r, "rotating", k)
    BY <2>1
  <2> HIDE DEF k
  <2>5. QED
    BY <1>0, <2>2, <2>3, <2>4, Reading
<1>3. ASSUME ForgotPassword(r)
      PROVE  Reads
  <2>1. PICK u \in Users : Proceed(r, "resetting", [user |-> u, live |-> Live(u)])
    BY <1>3 DEF ForgotPassword
  <2>2. Knows("resetting", [user |-> u, live |-> Live(u)])
    BY <2>1, OwnersSeen DEF Knows, Stages
  <2>3. QED
    BY <1>0, <2>1, <2>2, ReadingPlain
<1>4. ASSUME FetchActiveReset(r)
      PROVE  Reads
  <2>1. PICK u \in Users : \E c \in Live(u) :
          Proceed(r, "consuming", [user |-> u, code |-> c])
    BY <1>4 DEF FetchActiveReset
  <2>2. PICK c \in Live(u) : Proceed(r, "consuming", [user |-> u, code |-> c])
    BY <2>1
  <2>3. Knows("consuming", [user |-> u, code |-> c])
    BY <2>1, <2>2, OwnersSeen DEF Knows, Stages
  <2>4. QED
    BY <1>0, <2>2, <2>3, ReadingPlain
<1>5. QED
  BY <1>1, <1>2, <1>3, <1>4


-----------------------------------------------------------------------------
(* ... the steps of Organizations that write.                               *)

\* What a request knows is of the kind its stage asks for.
LEMMA CreateOrgForm ==
  ASSUME BaseInv, NEW r \in Requests, CreateOrg(r)
  PROVE  Founds
<1> DEFINE o == Next1(db.orgs)
<1>1. at[r] = "organization" /\ o \in Orgs /\ db.orgs[o] = Unborn
  BY FreshOnes DEF CreateOrg, Arrives, BaseInv
<1>2. PICK u \in Users : Row(db.users[u]) /\ Commit(r, Founded(db, u, o, "Free"))
  BY DEF CreateOrg
<1>3. DOMAIN db = DbFields /\ DOMAIN db.members = Orgs
  BY DEF BaseInv, TablesInv
<1>4. Leave(r) /\ db' = Founded(db, u, o, "Free") /\ UNCHANGED <<uses, slips>>
  BY <1>2 DEF Commit, ghosts
<1>5. Quits
  BY <1>1, <1>4, Leaving
<1> HIDE DEF o
<1>6. Fields(Founded(db, u, o, "Free"), db.users, [db.orgs EXCEPT ![o] = NewOrg(u, "Free")],
             [db.members EXCEPT ![o] = [db.members[o] EXCEPT ![u] = "owner"]],
             db.invites, db.codes, db.tokens, db.traces \cup {o})
  BY <1>1, <1>3, FieldsOfFounded
<1>7. QED
  BY <1>1, <1>2, <1>4, <1>5, <1>6 DEF Founds

LEMMA FieldsOfMembers ==
  ASSUME NEW d, DOMAIN d = DbFields, NEW o \in DOMAIN d.members, NEW u, NEW role
  PROVE  Fields([d EXCEPT !.members[o][u] = role], d.users, d.orgs,
                [d.members EXCEPT ![o] = [d.members[o] EXCEPT ![u] = role]],
                d.invites, d.codes, d.tokens, d.traces)
BY DEF Fields, DbFields

LEMMA RoleIsSet ==
  ASSUME BaseInv, NEW r \in Requests, at[r] # "unregistering",
         NEW o \in Orgs, NEW u \in Users, NEW role \in Roles,
         Row(db.users[u]), Row(db.orgs[o]),
         Overwrite(r, [db EXCEPT !.members[o][u] = role],
                   Slip("demoted", o, Owners(o) = {u} /\ role # "owner"))
  PROVE  SetsRole
<1>1. DOMAIN db = DbFields /\ DOMAIN db.members = Orgs
  BY DEF BaseInv, TablesInv
<1>2. /\ Leave(r) /\ db' = [db EXCEPT !.members[o][u] = role] /\ UNCHANGED uses
      /\ slips' = slips \cup Slip("demoted", o, Owners(o) = {u} /\ role # "owner")
  BY DEF Overwrite
<1>3. Quits
  BY <1>2, Leaving
<1>4. Fields(db', db.users, db.orgs,
             [db.members EXCEPT ![o] = [db.members[o] EXCEPT ![u] = role]],
             db.invites, db.codes, db.tokens, db.traces)
  BY <1>1, <1>2, FieldsOfMembers
<1>5. QED
  BY <1>2, <1>3, <1>4 DEF SetsRole

LEMMA SetMemberRoleForm ==
  ASSUME BaseInv, NEW r \in Requests, SetMemberRole(r)
  PROVE  Reads \/ SetsRole
<1> DEFINE o == known[r].org
           u == known[r].user
           role == known[r].role
           k == [org |-> o, user |-> u, owners |-> Owners(o)]
<1>1. at[r] = "setting" /\ at[r] # "unregistering"
  BY DEF SetMemberRole, At
<1>2. o \in Orgs /\ u \in Users /\ role \in Roles
  BY <1>1, Known
<1>3. \/ Answer(r)
      \/ /\ Role(u, o) # NoRole /\ role # "owner"
         /\ Overwrite(r, [db EXCEPT !.members[o][u] = role],
                      Slip("demoted", o, Owners(o) = {u}))
      \/ Proceed(r, "transferring", k)
  BY DEF SetMemberRole
<1>4. Knows("transferring", k)
  BY <1>2, OwnersSeen DEF Knows, Stages
<1>5. ASSUME Role(u, o) # NoRole, role # "owner",
             Overwrite(r, [db EXCEPT !.members[o][u] = role],
                       Slip("demoted", o, Owners(o) = {u}))
      PROVE  SetsRole
  <2>1. Row(db.users[u]) /\ Row(db.orgs[o])
    BY <1>2, <1>5 DEF BaseInv, RefsInv, MembersRefer, Role
  <2>2. Slip("demoted", o, Owners(o) = {u}) =
          Slip("demoted", o, Owners(o) = {u} /\ role # "owner")
    BY <1>5 DEF Slip
  <2> HIDE DEF o, u, role
  <2>3. QED
    BY <1>1, <1>2, <1>5, <2>1, <2>2, RoleIsSet
<1>6. QED
  BY <1>1, <1>3, <1>4, <1>5, Answering, ReadingPlain

LEMMA AdminAddMemberForm ==
  ASSUME BaseInv, NEW r \in Requests, AdminAddMember(r)
  PROVE  SetsRole
<1>1. at[r] # "unregistering"
  BY DEF AdminAddMember, Arrives
<1>2. PICK v \in Users, o \in Orgs, role \in Roles : Added(r, v, o, role)
  BY DEF AdminAddMember
<1>3. QED
  BY <1>1, <1>2, RoleIsSet DEF Added

LEMMA TransferForm ==
  ASSUME BaseInv, NEW r \in Requests, TransferOwnership(r)
  PROVE  Reads \/ Transfers
<1> DEFINE o == known[r].org
           v == known[r].user
<1>1. at[r] = "transferring" /\ at[r] # "unregistering"
  BY DEF TransferOwnership, At
<1>2. o \in Orgs /\ v \in Users /\ known[r].owners \in SUBSET Users
  BY <1>1, Known
<1>3. CASE ~Row(db.orgs[o])
  BY <1>1, <1>3, Answering DEF TransferOwnership
<1>4. ASSUME Row(db.orgs[o])
      PROVE  Transfers
  <2>1. PICK seen \in {known[r].owners, Owners(o)} :
          Overwrite(r, [db EXCEPT !.members[o] = Transferred(o, v, seen),
                                  !.orgs[o].owner = v],
                    Slip("owners", o, seen # Owners(o) \/ Role(v, o) = NoRole))
    BY <1>4 DEF TransferOwnership
  <2>2. seen \in SUBSET Users
    BY <1>2, <2>1, OwnersSeen
  <2>3. DOMAIN db = DbFields /\ DOMAIN db.orgs = Orgs
    BY DEF BaseInv, TablesInv
  <2> DEFINE m == Transferred(o, v, seen)
  <2>4. /\ Leave(r) /\ db' = [db EXCEPT !.members[o] = m, !.orgs[o].owner = v]
        /\ UNCHANGED uses
        /\ slips' = slips \cup Slip("owners", o, seen # Owners(o) \/ Role(v, o) = NoRole)
    BY <2>1 DEF Overwrite
  <2>5. Quits
    BY <1>1, <2>4, Leaving
  <2> HIDE DEF o, v, m
  <2>6. Fields(db', db.users, [db.orgs EXCEPT ![o] = [db.orgs[o] EXCEPT !.owner = v]],
               [db.members EXCEPT ![o] = m], db.invites, db.codes, db.tokens, db.traces)
    BY <1>2, <2>3, <2>4 DEF Fields, DbFields
  <2>7. QED
    BY <1>2, <1>4, <2>2, <2>4, <2>5, <2>6 DEF Transfers, m
<1>5. QED
  BY <1>3, <1>4

LEMMA RemoveMemberForm ==
  ASSUME BaseInv, NEW r \in Requests, RemoveMember(r)
  PROVE  Reads \/ Leaves
<1> DEFINE o == known[r].org
           u == known[r].user
           owners == known[r].owners
           cut == [db EXCEPT !.members[o][u] = NoRole]
<1>1. at[r] = "leaving" /\ at[r] # "unregistering"
  BY DEF RemoveMember, At
<1>2. /\ o \in Orgs /\ u \in Users /\ owners \in SUBSET Users
      /\ known[r].to \in SUBSET (Orgs \cup {Unborn})
      /\ u \in owners => \E w \in owners : w # u
  BY <1>1, Known
<1>3. ASSUME ~Answer(r)
      PROVE  Leaves
  <2>1. Row(db.users[u]) /\ Row(db.orgs[o])
    BY <1>3 DEF RemoveMember
  <2>2. PICK to \in known[r].to \cup Fallbacks(db, u, o) :
          /\ Sound(Moved(cut, u, to))
          /\ Overwrite(r, Moved(cut, u, to),
                       Slip("owners", o, Owners(o) # owners)
                         \cup Slip("current", u, to \notin Fallbacks(db, u, o)))
    BY <1>3, <2>1 DEF RemoveMember
  <2>3. to \in Orgs \cup {Unborn}
    BY <1>2, <2>2, OwnersSeen
  <2>4. /\ DOMAIN db = DbFields /\ DOMAIN db.members = Orgs /\ DOMAIN db.users = Users
    BY DEF BaseInv, TablesInv
  <2>5. Fields(cut, db.users, db.orgs,
               [db.members EXCEPT ![o] = [db.members[o] EXCEPT ![u] = NoRole]],
               db.invites, db.codes, db.tokens, db.traces)
    BY <1>2, <2>4, FieldsOfMembers
  <2>6. /\ Leave(r) /\ db' = Moved(cut, u, to) /\ UNCHANGED uses
        /\ slips' = slips \cup (Slip("owners", o, Owners(o) # owners)
                                  \cup Slip("current", u, to \notin Fallbacks(db, u, o)))
    BY <2>2 DEF Overwrite
  <2>7. Quits
    BY <1>1, <2>6, Leaving
  <2> HIDE DEF o, u, owners, cut
  <2>8. DOMAIN cut = DbFields /\ u \in DOMAIN cut.users
    BY <1>2, <2>4, <2>5 DEF Fields
  <2>9. Fields(db', IF to = Unborn THEN cut.users
                    ELSE [cut.users EXCEPT ![u] = [cut.users[u] EXCEPT !.org = to]],
               cut.orgs, cut.members, cut.invites, cut.codes, cut.tokens, cut.traces)
    BY <2>6, <2>8, FieldsOfMoved
  <2>10. Fields(db', IF to = Unborn THEN db.users
                     ELSE [db.users EXCEPT ![u] = [db.users[u] EXCEPT !.org = to]],
                db.orgs, [db.members EXCEPT ![o] = [db.members[o] EXCEPT ![u] = NoRole]],
                db.invites, db.codes, db.tokens, db.traces)
    BY <2>5, <2>9 DEF Fields
  <2>11. Sound(db')
    BY <2>2, <2>6
  <2>12. QED
    BY <1>2, <2>1, <2>3, <2>6, <2>7, <2>10, <2>11 DEF Leaves
<1>4. QED
  BY <1>1, <1>3, Answering

LEMMA DeleteOrganizationForm ==
  ASSUME BaseInv, NEW r \in Requests, DeleteOrganization(r)
  PROVE  Reads \/ DeletesOrg
<1> DEFINE o == known[r].org
           late(to) == {<<"current", u>> : u \in
                          {v \in Users : to[v] # Unborn /\ Role(v, to[v]) = NoRole}}
<1>1. at[r] = "relocating" /\ at[r] # "unregistering"
  BY DEF DeleteOrganization, At
<1>2. o \in Orgs
  BY <1>1, Known
<1>3. PICK to \in [Users -> Orgs \cup {Unborn}] :
        \/ /\ Sound(Relocated(WithoutOrg(db, o), to))
           /\ at' = [at EXCEPT ![r] = "purging"] /\ known' = [known EXCEPT ![r] = [org |-> o]]
           /\ db' = Relocated(WithoutOrg(db, o), to)
           /\ slips' = slips \cup late(to) /\ UNCHANGED uses
        \/ Answer(r)
  BY DEF DeleteOrganization
<1>4. ASSUME ~Answer(r)
      PROVE  DeletesOrg
  <2> DEFINE d == WithoutOrg(db, o)
             new == [u \in Users |-> IF to[u] # Unborn /\ Row(db.users[u])
                                       THEN [db.users[u] EXCEPT !.org = to[u]]
                                       ELSE db.users[u]]
  <2>1. /\ Sound(db') /\ at' = [at EXCEPT ![r] = "purging"] /\ db' = Relocated(d, to)
        /\ known' = [known EXCEPT ![r] = [org |-> o]]
        /\ slips' = slips \cup late(to) /\ UNCHANGED uses
    BY <1>3, <1>4
  <2> HIDE DEF late
  <2>2. Knows("purging", [org |-> o])
    BY <1>2 DEF Knows, Stages
  <2>3. Goes(r, "relocating", "purging", [org |-> o])
    BY <1>1, <2>1, <2>2 DEF Goes
  <2>4. DOMAIN db = DbFields
    BY DEF BaseInv, TablesInv
  <2>5. Fields(d, db.users, [db.orgs EXCEPT ![o] = Gone], CutMembers(db.members, o),
               CutInvites(db.invites, o), db.codes, db.tokens, db.traces)
    BY <2>4, FieldsOfWithoutOrg
  <2>6. Relocated(d, to) = [d EXCEPT !.users = new]
    <3>1. d.users = db.users
      BY <2>5 DEF Fields
    <3> HIDE DEF d
    <3>2. QED
      BY <3>1 DEF Relocated
  <2> HIDE DEF d, new, o
  <2>7. Fields(db', new, d.orgs, d.members, d.invites, d.codes, d.tokens, d.traces)
    <3>1. DOMAIN d = DbFields
      BY <2>5 DEF Fields
    <3>2. QED
      BY <2>1, <2>6, <3>1, FieldsOfUsers
  <2>8. Fields(db', new, [db.orgs EXCEPT ![o] = Gone], CutMembers(db.members, o),
               CutInvites(db.invites, o), db.codes, db.tokens, db.traces)
    BY <2>5, <2>7 DEF Fields
  <2>9. QED
    BY <1>2, <1>3, <2>1, <2>3, <2>8 DEF DeletesOrg, new, late
<1>5. QED
  BY <1>1, <1>4, Answering

LEMMA PurgeForm ==
  ASSUME BaseInv, PurgedGone, NEW r \in Requests, PurgeTraces(r)
  PROVE  Purges
<1> DEFINE o == known[r].org
<1>1. at[r] = "purging" /\ at[r] # "unregistering"
  BY DEF PurgeTraces, At
<1>2. o \in Orgs /\ db.orgs[o] = Gone
  BY <1>1, Known DEF PurgedGone, At
<1>3. PICK gone \in BOOLEAN : Commit(r, IF gone THEN [db EXCEPT !.traces = @ \ {o}] ELSE db)
  BY DEF PurgeTraces
<1>4. /\ Leave(r) /\ UNCHANGED <<uses, slips>>
      /\ db' = IF gone THEN [db EXCEPT !.traces = @ \ {o}] ELSE db
  BY <1>3 DEF Commit, ghosts
<1>5. Quits
  BY <1>1, <1>4, Leaving
<1>6. DOMAIN db = DbFields /\ db.traces \in SUBSET Orgs
  BY DEF BaseInv, TablesInv
<1> DEFINE x == IF gone THEN db.traces \ {o} ELSE db.traces
<1>7. x \in SUBSET Orgs /\ x \in {db.traces, db.traces \ {o}}
  BY <1>6
<1> HIDE DEF o
<1>8. Fields(db', db.users, db.orgs, db.members, db.invites, db.codes, db.tokens, x)
  BY <1>4, <1>6 DEF Fields, DbFields
<1> HIDE DEF x
<1>9. QED
  BY <1>2, <1>4, <1>5, <1>7, <1>8 DEF Purges


LEMMA FieldsOfInvites ==
  ASSUME NEW d, DOMAIN d = DbFields, NEW new
  PROVE  Fields([d EXCEPT !.invites = new], d.users, d.orgs, d.members, new, d.codes,
                d.tokens, d.traces)
BY DEF Fields, DbFields

LEMMA CreateInvitationForm ==
  ASSUME BaseInv, NEW r \in Requests, CreateInvitation(r)
  PROVE  Reads \/ InvitesAnew
<1> DEFINE o == known[r].org
           v == known[r].user
           role == known[r].role
           n == Next1(db.invites)
<1>1. at[r] = "superseding" /\ at[r] # "unregistering"
  BY DEF CreateInvitation, At
<1>2. /\ o \in Orgs /\ v \in Users /\ role \in Roles \ {"owner"}
      /\ known[r].pending \in SUBSET Invites
  BY <1>1, Known
<1>3. ASSUME ~Answer(r)
      PROVE  InvitesAnew
  <2>1. Row(db.orgs[o])
    BY <1>3 DEF CreateInvitation
  <2>2. PICK seen \in {known[r].pending, Pending(o, v)} :
          /\ Fresh(db.invites) # {}
          /\ Overwrite(r,
               [db EXCEPT !.invites =
                 [i \in Invites |->
                    CASE i = n -> Invited(known[r])
                      [] i \in seen \cap Pending(o, v)
                           -> [db.invites[i] EXCEPT !.status = "revoked"]
                      [] OTHER -> db.invites[i]]],
               Slip("invites", <<o, v>>, seen # Pending(o, v)))
    BY <2>1 DEF CreateInvitation
  <2>3. n \in Invites /\ db.invites[n] = Unborn
    BY <2>2, FreshOnes DEF BaseInv
  <2>4. seen \in SUBSET Invites
    BY <1>2, <2>2, OwnersSeen
  <2>5. Invited(known[r]) = [org |-> o, user |-> v, role |-> role, status |-> "pending"]
    BY DEF Invited
  <2> HIDE DEF o, v, role, n
  <2>6. /\ Leave(r) /\ UNCHANGED uses
        /\ db' = [db EXCEPT !.invites = NewInvites(n, o, v, role, seen)]
        /\ slips' = slips \cup Slip("invites", <<o, v>>, seen # Pending(o, v))
    BY <2>2, <2>5 DEF Overwrite, NewInvites
  <2>7. Quits
    BY <1>1, <2>6, Leaving
  <2>8. DOMAIN db = DbFields
    BY DEF BaseInv, TablesInv
  <2>9. Fields(db', db.users, db.orgs, db.members, NewInvites(n, o, v, role, seen),
               db.codes, db.tokens, db.traces)
    BY <2>6, <2>8, FieldsOfInvites
  <2>10. QED
    BY <1>2, <2>1, <2>3, <2>4, <2>6, <2>7, <2>9 DEF InvitesAnew
<1>4. QED
  BY <1>1, <1>3, Answering

LEMMA FieldsOfInvite ==
  ASSUME NEW d, DOMAIN d = DbFields, NEW i \in DOMAIN d.invites, NEW status
  PROVE  Fields([d EXCEPT !.invites[i].status = status], d.users, d.orgs, d.members,
                [d.invites EXCEPT ![i] = [d.invites[i] EXCEPT !.status = status]],
                d.codes, d.tokens, d.traces)
BY DEF Fields, DbFields

LEMMA EndsInviteForm ==
  ASSUME BaseInv, (\E r \in Requests : CancelInvitation(r)) \/ InvitationExpires
  PROVE  EndsInvite
<1>1. DOMAIN db = DbFields /\ DOMAIN db.invites = Invites
  BY DEF BaseInv, TablesInv
<1>2. ASSUME NEW r \in Requests, CancelInvitation(r)
      PROVE  EndsInvite
  <2>1. at[r] # "unregistering"
    BY <1>2 DEF CancelInvitation, Arrives
  <2>2. PICK i \in Invites : Row(db.invites[i]) /\ Revoke(r, i)
    BY <1>2 DEF CancelInvitation
  <2>3. /\ Leave(r) /\ UNCHANGED <<uses, slips>>
        /\ db' = [db EXCEPT !.invites[i].status = "revoked"]
    BY <2>2 DEF Revoke, Commit, ghosts
  <2>4. Quits
    BY <2>1, <2>3, Leaving
  <2>5. Fields(db', db.users, db.orgs, db.members,
               [db.invites EXCEPT ![i] = [db.invites[i] EXCEPT !.status = "revoked"]],
               db.codes, db.tokens, db.traces)
    BY <1>1, <2>2, <2>3, FieldsOfInvite
  <2>6. QED
    BY <2>2, <2>3, <2>4, <2>5 DEF EndsInvite
<1>3. ASSUME InvitationExpires
      PROVE  EndsInvite
  <2>1. PICK i \in Invites :
          Acceptable(i) /\ db' = [db EXCEPT !.invites[i].status = "expired"]
    BY <1>3 DEF InvitationExpires
  <2>2. Row(db.invites[i])
    BY <2>1 DEF Acceptable
  <2>3. UNCHANGED <<uses, slips>> /\ Quits
    BY <1>3 DEF InvitationExpires, Quits, ghosts
  <2>4. Fields(db', db.users, db.orgs, db.members,
               [db.invites EXCEPT ![i] = [db.invites[i] EXCEPT !.status = "expired"]],
               db.codes, db.tokens, db.traces)
    BY <1>1, <2>1, FieldsOfInvite
  <2>5. QED
    BY <2>1, <2>2, <2>3, <2>4 DEF EndsInvite
<1>4. QED
  BY <1>2, <1>3

LEMMA AcceptForm ==
  ASSUME BaseInv, NEW r \in Requests, AcceptInvitation(r)
  PROVE  Accepts
<1>1. PICK i \in Invites :
        /\ Acceptable(i) /\ Row(db.users[db.invites[i].user])
        /\ at' = [at EXCEPT ![r] = "landing"]
        /\ known' = [known EXCEPT ![r] = [org |-> db.invites[i].org,
                                          user |-> db.invites[i].user]]
        /\ db' = Accepted(i)
        /\ slips' = slips \cup Slip("demoted", db.invites[i].org,
                                    Owners(db.invites[i].org) = {db.invites[i].user})
        /\ UNCHANGED uses
  BY DEF AcceptInvitation
<1> DEFINE o == db.invites[i].org
           v == db.invites[i].user
           role == db.invites[i].role
<1>2. Row(db.invites[i])
  BY <1>1 DEF Acceptable
<1>3. db.invites[i] \in InviteRows
  BY <1>1, <1>2, RowsAre DEF BaseInv
<1>4. o \in Orgs /\ v \in Users
  BY <1>3 DEF InviteRows
<1>5. Knows("landing", [org |-> o, user |-> v])
  BY <1>4 DEF Knows, Stages, OrgUser
<1>6. Goes(r, "organization", "landing", [org |-> o, user |-> v])
  BY <1>1, <1>5 DEF Goes, AcceptInvitation, Arrives
<1>7. DOMAIN db = DbFields /\ DOMAIN db.invites = Invites /\ DOMAIN db.members = Orgs
  BY DEF BaseInv, TablesInv
<1>8. db' = [db EXCEPT !.members[o][v] = role, !.invites[i].status = "accepted"]
  BY <1>1 DEF Accepted
<1> HIDE DEF o, v, role
<1>9. Fields(db', db.users, db.orgs,
             [db.members EXCEPT ![o] = [db.members[o] EXCEPT ![v] = role]],
             [db.invites EXCEPT ![i] = [db.invites[i] EXCEPT !.status = "accepted"]],
             db.codes, db.tokens, db.traces)
  BY <1>1, <1>4, <1>7, <1>8 DEF Fields, DbFields
<1>10. QED
  BY <1>1, <1>2, <1>6, <1>9 DEF Accepts, o, v, role

LEMMA LandForm ==
  ASSUME BaseInv, NEW r \in Requests, SetCurrentOrg(r)
  PROVE  Reads \/ Lands
<1> DEFINE o == known[r].org
           u == known[r].user
<1>1. at[r] = "landing" /\ at[r] # "unregistering"
  BY DEF SetCurrentOrg, At
<1>2. o \in Orgs /\ u \in Users
  BY <1>1, Known
<1>3. ASSUME ~Answer(r)
      PROVE  Lands
  <2>1. /\ Row(db.users[u]) /\ Row(db.orgs[o])
        /\ at' = [at EXCEPT ![r] = "minting"] /\ db' = Moved(db, u, o)
        /\ slips' = slips \cup Slip("current", u, Role(u, o) = NoRole)
        /\ UNCHANGED <<known, uses>>
    BY <1>3 DEF SetCurrentOrg
  <2>2. Knows(at[r], known[r])
    BY DEF BaseInv, StandsInv
  <2>3. Knows("minting", known[r])
    BY <1>1, <2>2 DEF Knows, Stages
  <2>4. Goes(r, "landing", "minting", known[r])
    BY <1>1, <2>1, <2>3 DEF Goes, BaseInv, StandsInv
  <2>5. DOMAIN db = DbFields /\ DOMAIN db.users = Users /\ o # Unborn
    BY <1>2, IdentifiersAssumption DEF BaseInv, TablesInv
  <2> HIDE DEF o, u
  <2>6. Fields(db', IF o = Unborn THEN db.users
                    ELSE [db.users EXCEPT ![u] = [db.users[u] EXCEPT !.org = o]],
               db.orgs, db.members, db.invites, db.codes, db.tokens, db.traces)
    BY <1>2, <2>1, <2>5, FieldsOfMoved
  <2>7. QED
    BY <1>2, <2>1, <2>4, <2>5, <2>6 DEF Lands
<1>4. QED
  BY <1>1, <1>3, Answering

\* A session is minted for any user and organization.
LEMMA MintForm ==
  ASSUME BaseInv, NEW r \in Requests, at[r] # "unregistering", NEW u \in Users,
         NEW o \in Orgs, Fresh(db.tokens) # {}, Commit(r, Minted(db, u, o))
  PROVE  Mints
<1> DEFINE t == Next1(db.tokens)
<1>1. t \in Tokens /\ db.tokens[t] = Unborn
  BY FreshOnes DEF BaseInv
<1>2. Leave(r) /\ UNCHANGED <<uses, slips>> /\ db' = Minted(db, u, o)
  BY DEF Commit, ghosts
<1>3. Quits
  BY <1>2, Leaving
<1>4. DOMAIN db = DbFields
  BY DEF BaseInv, TablesInv
<1>5. Fields(db', db.users, db.orgs, db.members, db.invites, db.codes,
             [db.tokens EXCEPT ![t] = Session(u, o)], db.traces)
  BY <1>2, <1>4, FieldsOfMinted
<1> HIDE DEF t
<1>6. QED
  BY <1>1, <1>2, <1>3, <1>5 DEF Mints

LEMMA BuildSessionForm ==
  ASSUME BaseInv, NEW r \in Requests, BuildSession(r)
  PROVE  Reads \/ Mints
<1>1. at[r] = "minting" /\ at[r] # "unregistering"
  BY DEF BuildSession, At
<1>2. known[r].org \in Orgs /\ known[r].user \in Users
  BY <1>1, Known
<1>3. \/ Fresh(db.tokens) # {} /\ Commit(r, Minted(db, known[r].user, known[r].org))
      \/ Answer(r)
  BY DEF BuildSession
<1>4. QED
  BY <1>1, <1>2, <1>3, MintForm, Answering

LEMMA SignInForm ==
  ASSUME BaseInv, NEW r \in Requests, OauthCallback(r) \/ Login(r)
  PROVE  Reads \/ Mints
<1>1. at[r] # "unregistering"
  BY DEF OauthCallback, Login, Arrives
<1>2. PICK u \in Users : SignIn(r, u) \/ Proceed(r, "registering", [user |-> u])
  BY DEF OauthCallback, Login, FindOrCreate
<1>3. ASSUME SignIn(r, u)
      PROVE  Mints
  <2>1. Row(db.users[u]) /\ Fresh(db.tokens) # {} /\ Commit(r, Minted(db, u, db.users[u].org))
    BY <1>3 DEF SignIn
  <2>2. db.users[u] \in UserRows
    BY <1>2, <2>1, RowsAre DEF BaseInv
  <2>3. db.users[u].org \in Orgs
    BY <2>2 DEF UserRows
  <2>4. QED
    BY <1>1, <1>2, <2>1, <2>3, MintForm
<1>4. QED
  BY <1>1, <1>2, <1>3, Registering


-----------------------------------------------------------------------------
(* ... the steps of Plans and Sessions that write.                          *)

LEMMA DowngradeForm ==
  ASSUME BaseInv, NEW r \in Requests, Downgrade(r)
  PROVE  Reads \/ Downgrades
<1> DEFINE u == known[r].user
           row == known[r].row
<1>1. at[r] = "downgrading" /\ at[r] # "unregistering"
  BY DEF Downgrade, At
<1>2. u \in Users /\ row \in UserRows /\ row.trial = "over"
  BY <1>1, Known
<1>3. ASSUME ~Answer(r)
      PROVE  Downgrades
  <2>1. /\ Row(db.users[u]) /\ ~Locked(u)
        /\ Overwrite(r, [db EXCEPT !.users[u].type = "Free", !.users[u].trial = "none"],
                     Slip("plan", u, db.users[u] # row))
    BY <1>3 DEF Downgrade
  <2>2. /\ Leave(r) /\ UNCHANGED uses
        /\ db' = [db EXCEPT !.users[u].type = "Free", !.users[u].trial = "none"]
        /\ slips' = slips \cup Slip("plan", u, db.users[u] # row)
    BY <2>1 DEF Overwrite
  <2>3. Quits
    BY <1>1, <2>2, Leaving
  <2>4. DOMAIN db = DbFields /\ DOMAIN db.users = Users
    BY DEF BaseInv, TablesInv
  <2> HIDE DEF u, row
  <2>5. Fields(db', [db.users EXCEPT ![u] =
                       [db.users[u] EXCEPT !.type = "Free", !.trial = "none"]],
               db.orgs, db.members, db.invites, db.codes, db.tokens, db.traces)
    BY <1>2, <2>2, <2>4 DEF Fields, DbFields
  <2>6. QED
    BY <1>2, <2>1, <2>2, <2>3, <2>5 DEF Downgrades
<1>4. QED
  BY <1>1, <1>3, Answering

LEMMA StartTrialForm ==
  ASSUME BaseInv, NEW r \in Requests, StartTrial(r)
  PROVE  StartsTrial
<1> DEFINE u == known[r].user
           plan == known[r].plan
<1>1. at[r] = "starting"
  BY DEF StartTrial, At
<1>2. u \in Users /\ plan \in Tiers
  BY <1>1, Known
<1>3. /\ Leave(r) /\ UNCHANGED slips
      /\ db' = [db EXCEPT !.users[u] =
                  [db.users[u] EXCEPT !.type = plan, !.trial = "running", !.used = TRUE]]
      /\ uses' = [uses EXCEPT ![u] = uses[u] + 1]
  BY <1>2 DEF StartTrial, BaseInv, StandsInv, TablesInv, DbFields
<1>4. Goes(r, "starting", "done", Unborn)
  BY <1>1, <1>3, Leaving
<1>5. DOMAIN db = DbFields /\ DOMAIN db.users = Users
  BY DEF BaseInv, TablesInv
<1>6. known[r].user = u
  OBVIOUS
<1> HIDE DEF u, plan
<1>7. Fields(db', [db.users EXCEPT ![u] =
                     [db.users[u] EXCEPT !.type = plan, !.trial = "running", !.used = TRUE]],
             db.orgs, db.members, db.invites, db.codes, db.tokens, db.traces)
  BY <1>2, <1>3, <1>5 DEF Fields, DbFields
<1>8. QED
  BY <1>2, <1>3, <1>4, <1>6, <1>7 DEF StartsTrial

LEMMA EndsTrialForm ==
  ASSUME BaseInv, TrialEnds
  PROVE  EndsTrial
<1>1. PICK u \in Users : Row(db.users[u]) /\ db' = [db EXCEPT !.users[u].trial = "over"]
  BY DEF TrialEnds
<1>2. UNCHANGED <<at, known, uses, slips>>
  BY DEF TrialEnds, ghosts
<1>3. DOMAIN db = DbFields /\ DOMAIN db.users = Users
  BY DEF BaseInv, TablesInv
<1>4. Fields(db', [db.users EXCEPT ![u] = [db.users[u] EXCEPT !.trial = "over"]],
             db.orgs, db.members, db.invites, db.codes, db.tokens, db.traces)
  BY <1>1, <1>3 DEF Fields, DbFields
<1>5. QED
  BY <1>1, <1>2, <1>4 DEF EndsTrial

LEMMA RetypeForm ==
  ASSUME BaseInv, NEW r \in Requests, AdminUpdateUserType(r)
  PROVE  Retypes
<1>1. PICK u \in Users, type \in Billable \cap Offered :
        Row(db.users[u]) /\ ~Locked(u) /\ Commit(r, Retyped(u, type))
  BY DEF AdminUpdateUserType
<1> DEFINE o == db.users[u].org
           limit == ApiKeyLimits[type]
<1>2. type \in Tiers
  BY <1>1, TenantsAssumption
<1>3. db.users[u] \in UserRows
  BY <1>1, RowsAre DEF BaseInv
<1>4. o \in Orgs
  BY <1>3 DEF UserRows
<1>5. /\ Leave(r) /\ UNCHANGED <<uses, slips>>
      /\ db' = [db EXCEPT !.users[u].type = type, !.orgs[o].limit = limit]
  BY <1>1 DEF Commit, ghosts, Retyped
<1>6. Goes(r, "plan", "done", Unborn)
  BY <1>5, Leaving DEF AdminUpdateUserType, Arrives
<1>7. DOMAIN db = DbFields /\ DOMAIN db.users = Users /\ DOMAIN db.orgs = Orgs
  BY DEF BaseInv, TablesInv
<1> HIDE DEF o, limit
<1>8. Fields(db', [db.users EXCEPT ![u] = [db.users[u] EXCEPT !.type = type]],
             [db.orgs EXCEPT ![o] = [db.orgs[o] EXCEPT !.limit = limit]],
             db.members, db.invites, db.codes, db.tokens, db.traces)
  BY <1>1, <1>4, <1>5, <1>7 DEF Fields, DbFields
<1>9. QED
  BY <1>1, <1>2, <1>5, <1>6, <1>8 DEF Retypes, o, limit

\* One organization's row is replaced by another.
LEMMA OrgIsSet ==
  ASSUME BaseInv, NEW r \in Requests, at[r] # "unregistering",
         NEW o \in Orgs, Row(db.orgs[o]), NEW row \in OrgRows,
         db.orgs[o].usage = Cardinality(db.orgs[o].keys) => row.usage = Cardinality(row.keys),
         Commit(r, [db EXCEPT !.orgs = [db.orgs EXCEPT ![o] = row]])
  PROVE  SetsOrg
<1>1. Leave(r) /\ UNCHANGED <<uses, slips>>
  BY DEF Commit, ghosts
<1>2. Quits
  BY <1>1, Leaving
<1>3. DOMAIN db = DbFields
  BY DEF BaseInv, TablesInv
<1>4. Fields(db', db.users, [db.orgs EXCEPT ![o] = row], db.members, db.invites,
             db.codes, db.tokens, db.traces)
  BY <1>3 DEF Commit, Fields, DbFields
<1>5. QED
  BY <1>1, <1>2, <1>4 DEF SetsOrg

LEMMA SetPlanForm ==
  ASSUME BaseInv, NEW r \in Requests, AdminSetOrgPlan(r)
  PROVE  SetsOrg
<1>1. PICK o \in Orgs, plan \in Offered : Row(db.orgs[o]) /\ Commit(r, Planned(o, plan))
  BY DEF AdminSetOrgPlan
<1> DEFINE limit == ApiKeyLimits[plan]
           row == [db.orgs[o] EXCEPT !.plan = plan, !.limit = limit]
<1>2. plan \in Tiers /\ limit \in Nat
  BY <1>1, TenantsAssumption, NewRows
<1>3. db.orgs[o] \in OrgRows
  BY <1>1, RowsAre DEF BaseInv
<1>4. DOMAIN db = DbFields /\ DOMAIN db.orgs = Orgs
  BY DEF BaseInv, TablesInv
<1>5. Planned(o, plan) = [db EXCEPT !.orgs[o].plan = plan, !.orgs[o].limit = limit]
  BY DEF Planned
<1> HIDE DEF limit
<1>6. row \in OrgRows /\ row.usage = db.orgs[o].usage /\ row.keys = db.orgs[o].keys
  BY <1>2, <1>3 DEF OrgRows
<1>7. Planned(o, plan) = [db EXCEPT !.orgs = [db.orgs EXCEPT ![o] = row]]
  BY <1>1, <1>4, <1>5 DEF DbFields
<1> HIDE DEF row
<1>8. at[r] # "unregistering"
  BY DEF AdminSetOrgPlan, Arrives
<1>9. QED
  BY <1>1, <1>6, <1>7, <1>8, OrgIsSet

LEMMA KeysCounted ==
  ASSUME NEW S \in SUBSET Keys, NEW k \in Keys
  PROVE  /\ Cardinality(S) \in Nat
         /\ k \notin S => Cardinality(S \cup {k}) = Cardinality(S) + 1
         /\ k \in S => Cardinality(S \ {k}) = Cardinality(S) - 1
<1>1. IsFiniteSet(S)
  BY IdentifiersAssumption, FS_Subset
<1>2. QED
  BY <1>1, FS_CardinalityType, FS_AddElement, FS_RemoveElement

LEMMA CreateKeyForm ==
  ASSUME BaseInv, NEW r \in Requests, CreateApiKey(r)
  PROVE  SetsOrg
<1>1. PICK o \in Orgs, k \in Keys \ Issued : Row(db.orgs[o]) /\ Commit(r, WithKey(o, k))
  BY DEF CreateApiKey
<1> DEFINE keys == db.orgs[o].keys \cup {k}
           usage == db.orgs[o].usage + 1
           row == [db.orgs[o] EXCEPT !.keys = keys, !.usage = usage]
<1>2. db.orgs[o] \in OrgRows
  BY <1>1, RowsAre DEF BaseInv
<1>3. db.orgs[o].keys \in SUBSET Keys /\ db.orgs[o].usage \in Nat
  BY <1>2 DEF OrgRows
<1>4. k \notin db.orgs[o].keys
  BY <1>1 DEF Issued
<1>5. /\ keys \in SUBSET Keys /\ usage \in Nat
      /\ db.orgs[o].usage = Cardinality(db.orgs[o].keys) => usage = Cardinality(keys)
  BY <1>1, <1>3, <1>4, KeysCounted
<1>6. DOMAIN db = DbFields /\ DOMAIN db.orgs = Orgs
  BY DEF BaseInv, TablesInv
<1>7. WithKey(o, k) = [db EXCEPT !.orgs[o].keys = keys, !.orgs[o].usage = usage]
  BY <1>1, <1>2, <1>6 DEF WithKey, DbFields, OrgRows
<1> HIDE DEF keys, usage
<1>8. row \in OrgRows /\ row.usage = usage /\ row.keys = keys
  BY <1>2, <1>5 DEF OrgRows
<1>9. WithKey(o, k) = [db EXCEPT !.orgs = [db.orgs EXCEPT ![o] = row]]
  BY <1>1, <1>6, <1>7 DEF DbFields
<1> HIDE DEF row
<1>10. at[r] # "unregistering"
  BY DEF CreateApiKey, Arrives
<1>11. QED
  BY <1>1, <1>5, <1>8, <1>9, <1>10, OrgIsSet

LEMMA DeleteKeyForm ==
  ASSUME BaseInv, NEW r \in Requests, DeleteApiKey(r)
  PROVE  Reads \/ SetsOrg
<1> DEFINE o == known[r].org
           k == known[r].key
           keys == db.orgs[o].keys \ {k}
           usage == IF db.orgs[o].usage > 0 THEN db.orgs[o].usage - 1 ELSE 0
           row == [db.orgs[o] EXCEPT !.keys = keys, !.usage = usage]
           d == [db EXCEPT !.orgs[o].keys = @ \ {k},
                           !.orgs[o].usage = IF @ > 0 THEN @ - 1 ELSE 0]
<1>1. at[r] = "unkeying" /\ at[r] # "unregistering"
  BY DEF DeleteApiKey, At
<1>2. o \in Orgs /\ k \in Keys
  BY <1>1, Known
<1>3. ASSUME ~Answer(r)
      PROVE  SetsOrg
  <2>1. Row(db.orgs[o]) /\ k \in db.orgs[o].keys /\ Commit(r, d)
    BY <1>3 DEF DeleteApiKey
  <2>2. db.orgs[o] \in OrgRows
    BY <1>2, <2>1, RowsAre DEF BaseInv
  <2>3. db.orgs[o].keys \in SUBSET Keys /\ db.orgs[o].usage \in Nat
    BY <2>2 DEF OrgRows
  <2>4. keys \in SUBSET Keys /\ usage \in Nat
    BY <2>3
  <2>5. db.orgs[o].usage = Cardinality(db.orgs[o].keys) => usage = Cardinality(keys)
    <3>1. /\ Cardinality(keys) = Cardinality(db.orgs[o].keys) - 1
          /\ Cardinality(keys) \in Nat /\ Cardinality(db.orgs[o].keys) \in Nat
      BY <1>2, <2>1, <2>3, <2>4, KeysCounted
    <3> HIDE DEF keys
    <3>2. QED
      BY SMTT(30), <2>3, <3>1
  <2>6. DOMAIN db = DbFields /\ DOMAIN db.orgs = Orgs
    BY DEF BaseInv, TablesInv
  <2> HIDE DEF o, k
  <2>7. d = [db EXCEPT !.orgs[o].keys = keys, !.orgs[o].usage = usage]
    BY <1>2, <2>2, <2>6 DEF DbFields, OrgRows
  <2> HIDE DEF keys, usage, d
  <2>8. row \in OrgRows /\ row.usage = usage /\ row.keys = keys
    BY <2>2, <2>4 DEF OrgRows
  <2>9. d = [db EXCEPT !.orgs = [db.orgs EXCEPT ![o] = row]]
    BY <1>2, <2>6, <2>7 DEF DbFields
  <2> HIDE DEF row
  <2>10. QED
    BY <1>1, <1>2, <2>1, <2>5, <2>8, <2>9, OrgIsSet
<1>4. QED
  BY <1>1, <1>3, Answering


LEMMA RegisterForm ==
  ASSUME BaseInv, NEW r \in Requests, RegisterUser(r)
  PROVE  Reads \/ Registers
<1> DEFINE u == known[r].user
           o == Next1(db.orgs)
           t == Next1(db.tokens)
           f == Founded(db, u, o, NoPlan)
           g == [f EXCEPT !.users[u] = NewUser(o)]
<1>1. at[r] = "registering" /\ at[r] # "unregistering"
  BY DEF RegisterUser, At
<1>2. u \in Users
  BY <1>1, Known
<1>3. ASSUME ~Answer(r)
      PROVE  Registers
  <2>1. /\ db.users[u] = Unborn /\ Fresh(db.orgs) # {} /\ Fresh(db.tokens) # {}
        /\ Commit(r, Minted(g, u, o))
    BY <1>3 DEF RegisterUser, Registered
  <2>2. /\ o \in Orgs /\ db.orgs[o] = Unborn /\ t \in Tokens /\ db.tokens[t] = Unborn
    BY <2>1, FreshOnes DEF BaseInv
  <2>3. Leave(r) /\ UNCHANGED <<uses, slips>> /\ db' = Minted(g, u, o)
    BY <2>1 DEF Commit, ghosts
  <2>4. Quits
    BY <1>1, <2>3, Leaving
  <2>5. DOMAIN db = DbFields /\ DOMAIN db.members = Orgs /\ DOMAIN db.users = Users
    BY DEF BaseInv, TablesInv
  <2> HIDE DEF u, o, f
  <2>6. Fields(f, db.users, [db.orgs EXCEPT ![o] = NewOrg(u, NoPlan)],
               [db.members EXCEPT ![o] = [db.members[o] EXCEPT ![u] = "owner"]],
               db.invites, db.codes, db.tokens, db.traces \cup {o})
    BY <2>2, <2>5, FieldsOfFounded DEF f
  <2>7. DOMAIN f = DbFields /\ f.users = db.users
    BY <2>6 DEF Fields
  <2>8. g = [f EXCEPT !.users = [db.users EXCEPT ![u] = NewUser(o)]]
    BY <2>7 DEF DbFields
  <2> HIDE DEF g
  <2>9. Fields(g, [db.users EXCEPT ![u] = NewUser(o)], f.orgs, f.members, f.invites,
               f.codes, f.tokens, f.traces)
    BY <2>7, <2>8, FieldsOfUsers
  <2>10. DOMAIN g = DbFields /\ g.tokens = db.tokens
    BY <2>6, <2>9 DEF Fields
  <2>11. Next1(g.tokens) = t
    BY <2>10
  <2> HIDE DEF t
  <2>12. Fields(db', g.users, g.orgs, g.members, g.invites, g.codes,
                [g.tokens EXCEPT ![t] = Session(u, o)], g.traces)
    BY <2>3, <2>10, <2>11, FieldsOfMinted
  <2>13. Fields(db', [db.users EXCEPT ![u] = NewUser(o)],
                [db.orgs EXCEPT ![o] = NewOrg(u, NoPlan)],
                [db.members EXCEPT ![o] = [db.members[o] EXCEPT ![u] = "owner"]],
                db.invites, db.codes, [db.tokens EXCEPT ![t] = Session(u, o)],
                db.traces \cup {o})
    BY <2>6, <2>9, <2>12 DEF Fields
  <2>14. QED
    BY <1>2, <2>1, <2>2, <2>3, <2>4, <2>13 DEF Registers
<1>4. QED
  BY <1>1, <1>3, Answering

LEMMA FieldsOfToken ==
  ASSUME NEW d, DOMAIN d = DbFields, NEW t \in DOMAIN d.tokens, NEW status
  PROVE  Fields([d EXCEPT !.tokens[t].status = status], d.users, d.orgs, d.members,
                d.invites, d.codes,
                [d.tokens EXCEPT ![t] = [d.tokens[t] EXCEPT !.status = status]], d.traces)
BY DEF Fields, DbFields

LEMMA RotateForm ==
  ASSUME BaseInv, TokensInv, NEW r \in Requests, RotateToken(r)
  PROVE  Rotates
<1> DEFINE t == known[r].token
           u == db.tokens[t].user
           o == db.tokens[t].org
           d == [db EXCEPT !.tokens[t].status = "revoked"]
           n == Next1(d.tokens)
           revoked == [db.tokens[t] EXCEPT !.status = "revoked"]
<1>1. at[r] = "rotating" /\ Fresh(db.tokens) # {}
  BY DEF RotateToken, At
<1>2. t \in Tokens /\ db.tokens[t] # Unborn
  BY <1>1, Known DEF TokensInv, At
<1>3. Row(db.tokens[t]) /\ db.tokens[t] \in TokenRows
  BY <1>2, RowsAre DEF BaseInv
<1>4. u \in Users /\ o \in Orgs /\ revoked \in TokenRows
  BY <1>3 DEF TokenRows
<1>5. /\ Leave(r) /\ db' = Minted(d, u, o)
      /\ uses' = [uses EXCEPT ![t] = uses[t] + 1]
      /\ slips' = slips \cup Slip("token", t, db.tokens[t].status = "revoked")
  BY <1>2 DEF RotateToken, BaseInv, StandsInv
<1>6. Goes(r, "rotating", "done", Unborn)
  BY <1>1, <1>5, Leaving
<1>7. DOMAIN db = DbFields /\ DOMAIN db.tokens = Tokens
  BY DEF BaseInv, TablesInv
<1> HIDE DEF t, u, o, revoked, d
<1>8. Fields(d, db.users, db.orgs, db.members, db.invites, db.codes,
             [db.tokens EXCEPT ![t] = revoked], db.traces)
  BY <1>2, <1>7, FieldsOfToken DEF d, revoked
<1>9. n \in Tokens /\ db.tokens[n] = Unborn
  <2>1. d.tokens = [db.tokens EXCEPT ![t] = revoked]
    BY <1>8 DEF Fields
  <2>2. revoked # Unborn
    BY <1>4, NewRows DEF Row
  <2>3. Fresh(d.tokens) = Fresh(db.tokens)
    BY <1>2, <1>7, <2>1, <2>2 DEF Fresh
  <2>4. n \in Fresh(db.tokens)
    BY <1>1, <2>3 DEF Next1
  <2>5. QED
    BY <1>7, <2>4 DEF Fresh
<1>10. DOMAIN d = DbFields
  BY <1>8 DEF Fields
<1> HIDE DEF n
<1>11. Fields(db', d.users, d.orgs, d.members, d.invites, d.codes,
              [d.tokens EXCEPT ![n] = Session(u, o)], d.traces)
  BY <1>5, <1>10, FieldsOfMinted DEF n
<1>12. Fields(db', db.users, db.orgs, db.members, db.invites, db.codes,
              [[db.tokens EXCEPT ![t] = revoked] EXCEPT ![n] = Session(u, o)], db.traces)
  BY <1>8, <1>11 DEF Fields
<1>13. known[r].token = t
  BY DEF t
<1>14. QED
  BY <1>2, <1>4, <1>5, <1>6, <1>9, <1>12, <1>13 DEF Rotates, revoked

LEMMA FieldsOfCode ==
  ASSUME NEW d, DOMAIN d = DbFields, NEW c \in DOMAIN d.codes, NEW status
  PROVE  Fields([d EXCEPT !.codes[c].status = status], d.users, d.orgs, d.members,
                d.invites, [d.codes EXCEPT ![c] = [d.codes[c] EXCEPT !.status = status]],
                d.tokens, d.traces)
BY DEF Fields, DbFields

LEMMA EndsSessionForm ==
  ASSUME BaseInv, (\E r \in Requests : Logout(r)) \/ Expires
  PROVE  EndsToken \/ EndsCode
<1>1. /\ DOMAIN db = DbFields /\ DOMAIN db.tokens = Tokens /\ DOMAIN db.codes = Codes
  BY DEF BaseInv, TablesInv
<1>2. ASSUME NEW r \in Requests, Logout(r)
      PROVE  EndsToken
  <2>1. at[r] # "unregistering"
    BY <1>2 DEF Logout, Arrives
  <2>2. PICK t \in Tokens :
          Row(db.tokens[t]) /\ Commit(r, [db EXCEPT !.tokens[t].status = "revoked"])
    BY <1>2 DEF Logout
  <2>3. /\ Leave(r) /\ UNCHANGED <<uses, slips>>
        /\ db' = [db EXCEPT !.tokens[t].status = "revoked"] /\ db.tokens[t] # Unborn
    BY <2>2 DEF Commit, ghosts, Row
  <2>4. Quits
    BY <2>1, <2>3, Leaving
  <2>5. Fields(db', db.users, db.orgs, db.members, db.invites, db.codes,
               [db.tokens EXCEPT ![t] = [db.tokens[t] EXCEPT !.status = "revoked"]],
               db.traces)
    BY <1>1, <2>2, <2>3, FieldsOfToken
  <2>6. QED
    BY <2>2, <2>3, <2>4, <2>5 DEF EndsToken
<1>3. ASSUME Expires
      PROVE  EndsToken \/ EndsCode
  <2>1. UNCHANGED <<at, known, uses, slips>> /\ Quits
    BY <1>3 DEF Expires, ghosts, Quits
  <2>2. ASSUME NEW t \in Tokens, Row(db.tokens[t]), db.tokens[t].status = "live",
               db' = [db EXCEPT !.tokens[t].status = "expired"]
        PROVE  EndsToken
    <3>1. Fields(db', db.users, db.orgs, db.members, db.invites, db.codes,
                 [db.tokens EXCEPT ![t] = [db.tokens[t] EXCEPT !.status = "expired"]],
                 db.traces)
      BY <1>1, <2>2, FieldsOfToken
    <3>2. db.tokens[t] # Unborn
      BY <2>2 DEF Row
    <3>3. QED
      BY <2>1, <2>2, <3>1, <3>2 DEF EndsToken
  <2>3. ASSUME NEW c \in Codes, Row(db.codes[c]), db.codes[c].status = "live",
               db' = [db EXCEPT !.codes[c].status = "expired"]
        PROVE  EndsCode
    <3>1. Fields(db', db.users, db.orgs, db.members, db.invites,
                 [db.codes EXCEPT ![c] = [db.codes[c] EXCEPT !.status = "expired"]],
                 db.tokens, db.traces)
      BY <1>1, <2>3, FieldsOfCode
    <3>2. QED
      BY <2>1, <2>3, <3>1 DEF EndsCode
  <2>4. QED
    BY <1>3, <2>2, <2>3 DEF Expires
<1>4. QED
  BY <1>2, <1>3

LEMMA ResetForm ==
  ASSUME BaseInv, NEW r \in Requests, CreatePasswordReset(r)
  PROVE  Reads \/ ResetsAnew
<1> DEFINE u == known[r].user
           n == Next1(db.codes)
<1>1. at[r] = "resetting" /\ at[r] # "unregistering"
  BY DEF CreatePasswordReset, At
<1>2. u \in Users /\ known[r].live \in SUBSET Codes
  BY <1>1, Known
<1>3. ASSUME ~Answer(r)
      PROVE  ResetsAnew
  <2>1. Row(db.users[u])
    BY <1>3 DEF CreatePasswordReset
  <2>2. PICK seen \in {known[r].live, Live(u)} :
          /\ Fresh(db.codes) # {}
          /\ Overwrite(r,
               [db EXCEPT !.codes =
                 [c \in Codes |->
                    CASE c = n -> [user |-> u, status |-> "live"]
                      [] c \in seen \cap Live(u)
                           -> [db.codes[c] EXCEPT !.status = "used"]
                      [] OTHER -> db.codes[c]]],
               Slip("codes", u, seen # Live(u)))
    BY <2>1 DEF CreatePasswordReset
  <2>3. n \in Codes /\ db.codes[n] = Unborn
    BY <2>2, FreshOnes DEF BaseInv
  <2>4. seen \in SUBSET Codes
    BY <1>2, <2>2, OwnersSeen
  <2> HIDE DEF u, n
  <2>5. /\ Leave(r) /\ UNCHANGED uses
        /\ db' = [db EXCEPT !.codes = NewCodes(n, u, seen)]
        /\ slips' = slips \cup Slip("codes", u, seen # Live(u))
    BY <2>2 DEF Overwrite, NewCodes
  <2>6. Quits
    BY <1>1, <2>5, Leaving
  <2>7. DOMAIN db = DbFields
    BY DEF BaseInv, TablesInv
  <2>8. Fields(db', db.users, db.orgs, db.members, db.invites, NewCodes(n, u, seen),
               db.tokens, db.traces)
    BY <2>5, <2>7 DEF Fields, DbFields
  <2>9. QED
    BY <1>2, <2>1, <2>3, <2>4, <2>5, <2>6, <2>8 DEF ResetsAnew
<1>4. QED
  BY <1>1, <1>3, Answering

LEMMA ConsumeForm ==
  ASSUME BaseInv, NEW r \in Requests, ConsumeReset(r)
  PROVE  Reads \/ Consumes
<1> DEFINE c == known[r].code
<1>1. at[r] = "consuming" /\ at[r] # "unregistering"
  BY DEF ConsumeReset, At
<1>2. c \in Codes
  BY <1>1, Known
<1>3. ASSUME ~Answer(r)
      PROVE  Consumes
  <2>1. /\ Row(db.codes[c]) /\ db.codes[c].status = "live"
        /\ at' = [at EXCEPT ![r] = "changing"]
        /\ db' = [db EXCEPT !.codes[c].status = "used"]
        /\ UNCHANGED <<known, uses, slips>>
    BY <1>3 DEF ConsumeReset, ghosts
  <2>2. Knows(at[r], known[r])
    BY DEF BaseInv, StandsInv
  <2>3. Knows("changing", known[r])
    BY <1>1, <2>2 DEF Knows, Stages
  <2>4. Goes(r, "consuming", "changing", known[r])
    BY <1>1, <2>1, <2>3 DEF Goes, BaseInv, StandsInv
  <2>5. DOMAIN db = DbFields /\ DOMAIN db.codes = Codes
    BY DEF BaseInv, TablesInv
  <2>6. known[r].code = c
    OBVIOUS
  <2> HIDE DEF c
  <2>7. Fields(db', db.users, db.orgs, db.members, db.invites,
               [db.codes EXCEPT ![c] = [db.codes[c] EXCEPT !.status = "used"]],
               db.tokens, db.traces)
    BY <1>2, <2>1, <2>5, FieldsOfCode
  <2>8. QED
    BY <1>2, <2>1, <2>4, <2>6, <2>7 DEF Consumes
<1>4. QED
  BY <1>1, <1>3, Answering

LEMMA ChangeForm ==
  ASSUME BaseInv, NEW r \in Requests, UpdatePassword(r)
  PROVE  ChangesPassword
<1> DEFINE c == known[r].code
<1>1. at[r] = "changing" /\ Leave(r) /\ UNCHANGED <<db, slips>>
  BY DEF UpdatePassword, At
<1>2. c \in Codes
  BY <1>1, Known
<1>3. PICK written \in BOOLEAN :
        uses' = [uses EXCEPT ![c] = IF written THEN uses[c] + 1 ELSE uses[c]]
  BY <1>2 DEF UpdatePassword, BaseInv, StandsInv
<1> DEFINE n == IF written THEN 1 ELSE 0
<1>4. n \in {0, 1} /\ (IF written THEN uses[c] + 1 ELSE uses[c]) = uses[c] + n
  BY <1>2 DEF BaseInv, StandsInv
<1>5. uses' = [uses EXCEPT ![c] = uses[c] + n]
  BY <1>3, <1>4
<1>6. Goes(r, "changing", "done", Unborn) /\ known[r].code = c
  BY <1>1, Leaving
<1> HIDE DEF c, n
<1>7. QED
  BY <1>1, <1>2, <1>4, <1>5, <1>6 DEF ChangesPassword

LEMMA DropTracesForm ==
  ASSUME BaseInv, NEW r \in Requests, DeleteTraces(r)
  PROVE  DropsTraces
<1>1. PICK t \in Tokens :
        /\ Row(db.tokens[t])
        /\ at' = [at EXCEPT ![r] = "unregistering"]
        /\ known' = [known EXCEPT ![r] = [user |-> db.tokens[t].user,
                                          org |-> db.tokens[t].org]]
        /\ db' = [db EXCEPT !.traces = @ \ {db.tokens[t].org}]
        /\ UNCHANGED <<uses, slips>>
  BY DEF DeleteTraces, ghosts
<1> DEFINE u == db.tokens[t].user
           o == db.tokens[t].org
<1>2. db.tokens[t] \in TokenRows
  BY <1>1, RowsAre DEF BaseInv
<1>3. u \in Users /\ o \in Orgs
  BY <1>2 DEF TokenRows
<1>4. Knows("unregistering", [user |-> u, org |-> o])
  BY <1>3 DEF Knows, Stages, OrgUser
<1>5. Goes(r, "session", "unregistering", [user |-> u, org |-> o])
  BY <1>1, <1>4 DEF Goes, DeleteTraces, Arrives
<1>6. DOMAIN db = DbFields
  BY DEF BaseInv, TablesInv
<1> HIDE DEF u, o
<1>7. Fields(db', db.users, db.orgs, db.members, db.invites, db.codes, db.tokens,
             db.traces \ {o})
  BY <1>1, <1>6 DEF Fields, DbFields, o
<1>8. QED
  BY <1>1, <1>3, <1>5, <1>7 DEF DropsTraces

LEMMA DeleteAccountForm ==
  ASSUME BaseInv, NEW r \in Requests, DeleteAccount(r)
  PROVE  Unregisters \/ IsRefused
<1> DEFINE u == known[r].user
           o == known[r].org
           w == WithoutUser(db, u)
           d == WithoutOrg(w, o)
           slip == {<<"demoted", p>> : p \in {q \in Orgs : Owners(q) = {u}}}
           codes == [c \in Codes |-> IF Row(db.codes[c]) /\ db.codes[c].user = u
                                       THEN Gone ELSE db.codes[c]]
           members == [p \in Orgs |-> [db.members[p] EXCEPT ![u] = NoRole]]
<1>1. at[r] = "unregistering" /\ ~Locked(u)
  BY DEF DeleteAccount, At
<1>2. o \in Orgs /\ u \in Users
  BY <1>1, Known
<1>3. \/ Sound(d) /\ Overwrite(r, d, slip)
      \/ Overwrite(r, db, {<<"refused", o>>})
  BY DEF DeleteAccount
<1>4. ASSUME Sound(d), Overwrite(r, d, slip)
      PROVE  Unregisters
  <2>1. Leave(r) /\ db' = d /\ slips' = slips \cup slip /\ UNCHANGED uses
    BY <1>4 DEF Overwrite
  <2>2. Goes(r, "unregistering", "done", Unborn)
    BY <1>1, <2>1, Leaving
  <2>3. DOMAIN db = DbFields
    BY DEF BaseInv, TablesInv
  <2>4. known[r].user = u /\ known[r].org = o
    OBVIOUS
  <2> HIDE DEF u, o, w, codes, members
  <2>5. Fields(w, [db.users EXCEPT ![u] = Gone], db.orgs, members, db.invites, codes,
               db.tokens, db.traces)
    BY <2>3, FieldsOfWithoutUser DEF w, codes, members
  <2>6. DOMAIN w = DbFields
    BY <2>5 DEF Fields
  <2>7. Fields(d, w.users, [w.orgs EXCEPT ![o] = Gone], CutMembers(w.members, o),
               CutInvites(w.invites, o), w.codes, w.tokens, w.traces)
    BY <2>6, FieldsOfWithoutOrg
  <2> HIDE DEF d
  <2>8. Fields(db', [db.users EXCEPT ![u] = Gone], [db.orgs EXCEPT ![o] = Gone],
               CutMembers(members, o), CutInvites(db.invites, o), codes, db.tokens,
               db.traces)
    BY <2>1, <2>5, <2>7 DEF Fields
  <2>9. Sound(db')
    BY <1>4, <2>1
  <2>10. QED
    BY <1>1, <1>2, <2>1, <2>2, <2>4, <2>8, <2>9 DEF Unregisters, codes, members
<1>5. ASSUME Overwrite(r, db, {<<"refused", o>>})
      PROVE  IsRefused
  <2>1. Leave(r) /\ UNCHANGED <<db, uses>> /\ slips' = slips \cup {<<"refused", o>>}
    BY <1>5 DEF Overwrite
  <2>2. Goes(r, "unregistering", "done", Unborn)
    BY <1>1, <2>1, Leaving
  <2>3. QED
    BY <1>2, <2>1, <2>2 DEF IsRefused
<1>6. QED
  BY <1>3, <1>4, <1>5

\* Every step has one of the forms.
LEMMA NextIsForms ==
  ASSUME BaseInv, PurgedGone, TokensInv, Next
  PROVE  Forms
<1>1. ASSUME NEW r \in Requests, OrganizationsStep(r)
      PROVE  Forms
  BY <1>1, CreateOrgForm, OrganizationReads, CheckReads, SetMemberRoleForm, TransferForm,
     RemoveMemberForm, DeleteOrganizationForm, PurgeForm, CreateInvitationForm,
     EndsInviteForm, AcceptForm, AdminAddMemberForm, LandForm, BuildSessionForm
     DEF OrganizationsStep, Forms
<1>2. ASSUME NEW r \in Requests, PlansStep(r)
      PROVE  Forms
  BY <1>2, PlanReads, DowngradeForm, StartTrialForm, RetypeForm, SetPlanForm,
     CreateKeyForm, DeleteKeyForm DEF PlansStep, Forms
<1>3. ASSUME NEW r \in Requests, SessionsStep(r)
      PROVE  Forms
  BY <1>3, SessionReads, RegisterForm, SignInForm, RotateForm, EndsSessionForm, ResetForm,
     ConsumeForm, ChangeForm, DropTracesForm, DeleteAccountForm DEF SessionsStep, Forms
<1>4. ASSUME InvitationExpires \/ TrialEnds \/ Expires
      PROVE  Forms
  BY <1>4, EndsInviteForm, EndsTrialForm, EndsSessionForm DEF Forms
<1>5. QED
  BY <1>1, <1>2, <1>3, <1>4 DEF Next


-----------------------------------------------------------------------------
(* Where the requests stand.                                                *)

\* No request comes to a stage, or leaves one.
NoneEnters(s) == \A q \in Requests : at'[q] = s => at[q] = s /\ known'[q] = known[q]
NoneLeaves(s) == \A q \in Requests : at[q] = s => at'[q] = s /\ known'[q] = known[q]

LEMMA GoesElsewhere ==
  ASSUME StandsInv, NEW r \in Requests, NEW p, NEW t, NEW k, Goes(r, p, t, k),
         NEW s
  PROVE  (s # t => NoneEnters(s)) /\ (s # p => NoneLeaves(s))
BY DEF StandsInv, Goes, NoneEnters, NoneLeaves

LEMMA QuitsElsewhere ==
  ASSUME StandsInv, Quits, NEW s, s # "done"
  PROVE  NoneEnters(s) /\ NoneLeaves("unregistering")
<1>1. CASE UNCHANGED <<at, known>>
  BY <1>1 DEF NoneEnters, NoneLeaves
<1>2. ASSUME NEW r \in Requests, NEW p, p # "unregistering", Goes(r, p, "done", Unborn)
      PROVE  NoneEnters(s) /\ NoneLeaves("unregistering")
  BY <1>2, GoesElsewhere
<1>3. QED
  BY <1>1, <1>2 DEF Quits

StandsOnly ==
  /\ at \in [Requests -> Stages] /\ known = [r \in Requests |-> known[r]]
  /\ \A r \in Requests : Knows(at[r], known[r])

LEMMA GoesStands ==
  ASSUME StandsInv, NEW r \in Requests, NEW p, NEW s, NEW k, Goes(r, p, s, k)
  PROVE  StandsOnly'
<1>1. s \in Stages /\ Knows(s, k)
  BY DEF Goes, Knows
<1>2. at' = [at EXCEPT ![r] = s] /\ known' = [known EXCEPT ![r] = k]
  BY DEF Goes
<1>3. at' \in [Requests -> Stages] /\ known' = [q \in Requests |-> known'[q]]
  BY <1>1, <1>2 DEF StandsInv
<1>4. ASSUME NEW q \in Requests
      PROVE  Knows(at'[q], known'[q])
  <2>1. CASE q = r
    <3>1. at'[q] = s /\ known'[q] = k
      BY <1>2, <2>1 DEF StandsInv
    <3>2. QED
      BY <1>1, <3>1
  <2>2. CASE q # r
    <3>1. at'[q] = at[q] /\ known'[q] = known[q]
      BY <1>2, <2>2 DEF StandsInv
    <3>2. Knows(at[q], known[q])
      BY DEF StandsInv
    <3>3. QED
      BY <3>1, <3>2
  <2>3. QED
    BY <2>1, <2>2
<1>5. ASSUME NEW q \in Requests
      PROVE  Knows(at[q], known[q])'
  BY <1>4 DEF Knows, OrgUser, Stages, UserRows, Roles, Tiers
<1>6. QED
  BY <1>3, <1>5 DEF StandsOnly

LEMMA QuitsStands ==
  ASSUME StandsInv, Quits
  PROVE  StandsOnly'
<1>1. CASE UNCHANGED <<at, known>>
  BY <1>1 DEF StandsInv, StandsOnly, Knows
<1>2. CASE \E r \in Requests : \E p : Goes(r, p, "done", Unborn)
  BY <1>2, GoesStands
<1>3. QED
  BY <1>1, <1>2 DEF Quits

LEMMA UsesTyped ==
  ASSUME StandsInv, NEW x \in Users \cup Codes \cup Tokens, NEW n \in Nat
  PROVE  [uses EXCEPT ![x] = uses[x] + n] \in [Users \cup Codes \cup Tokens -> Nat]
BY DEF StandsInv

LEMMA StandsStep ==
  ASSUME StandsInv, Forms
  PROVE  StandsInv'
<1>0. SUFFICES StandsOnly' /\ uses' \in [Users \cup Codes \cup Tokens -> Nat]
  BY DEF StandsInv, StandsOnly
<1> DEFINE Good == StandsOnly' /\ uses' \in [Users \cup Codes \cup Tokens -> Nat]
<1>1. ASSUME Quits, UNCHANGED uses
      PROVE  Good
  BY <1>1, QuitsStands DEF StandsInv
<1>2. ASSUME NEW r \in Requests, NEW p, NEW s, NEW k, Goes(r, p, s, k), UNCHANGED uses
      PROVE  Good
  BY <1>2, GoesStands DEF StandsInv
<1>3. ASSUME NEW r \in Requests, NEW p, NEW s, NEW k, Goes(r, p, s, k),
             NEW x \in Users \cup Codes \cup Tokens, NEW n \in Nat,
             uses' = [uses EXCEPT ![x] = uses[x] + n]
      PROVE  Good
  BY <1>3, GoesStands, UsesTyped
<1>4. ASSUME UNCHANGED <<at, known, uses>>
      PROVE  Good
  BY <1>1, <1>4 DEF Quits
<1> HIDE DEF Good
<1>5. ASSUME \/ Founds \/ SetsRole \/ Transfers \/ Leaves \/ Purges \/ InvitesAnew
             \/ EndsInvite \/ Mints \/ Downgrades \/ SetsOrg \/ Registers \/ EndsToken
             \/ ResetsAnew
      PROVE  Good
  <2>1. Quits /\ UNCHANGED uses
    BY ZenonT(60), <1>5 DEF Founds, SetsRole, Transfers, Leaves, Purges, InvitesAnew, EndsInvite,
       Mints, Downgrades, SetsOrg, Registers, EndsToken, ResetsAnew
  <2>2. QED
    BY <1>1, <2>1
<1>6. ASSUME \/ Reads \/ DeletesOrg \/ Accepts \/ Lands \/ Retypes \/ Consumes
             \/ DropsTraces \/ Unregisters \/ IsRefused
      PROVE  Good
  <2>1. PICK r \in Requests : \E p, s, k : Goes(r, p, s, k) /\ UNCHANGED uses
    BY <1>6 DEF Reads, DeletesOrg, Accepts, Lands, Retypes, Consumes, DropsTraces,
       Unregisters, IsRefused
  <2>2. QED
    BY <1>2, <2>1
<1>7. ASSUME EndsTrial \/ EndsCode
      PROVE  Good
  <2>1. UNCHANGED <<at, known, uses>>
    BY <1>7 DEF EndsTrial, EndsCode
  <2>2. QED
    BY <1>4, <2>1
<1>8. ASSUME StartsTrial
      PROVE  Good
  <2>1. PICK r \in Requests, u \in Users :
          Goes(r, "starting", "done", Unborn) /\ uses' = [uses EXCEPT ![u] = uses[u] + 1]
    BY <1>8 DEF StartsTrial
  <2>2. QED
    BY <1>3, <2>1
<1>9. ASSUME Rotates
      PROVE  Good
  <2>1. PICK r \in Requests, t \in Tokens :
          Goes(r, "rotating", "done", Unborn) /\ uses' = [uses EXCEPT ![t] = uses[t] + 1]
    BY <1>9 DEF Rotates
  <2>2. QED
    BY <1>3, <2>1
<1>10. ASSUME ChangesPassword
       PROVE  Good
  <2>1. PICK r \in Requests, c \in Codes, n \in {0, 1} :
          Goes(r, "changing", "done", Unborn) /\ uses' = [uses EXCEPT ![c] = uses[c] + n]
    BY <1>10 DEF ChangesPassword
  <2>2. n \in Nat
    BY <2>1
  <2>3. QED
    BY <1>3, <2>1, <2>2
<1>11. QED
  BY <1>5, <1>6, <1>7, <1>8, <1>9, <1>10 DEF Forms, Good

-----------------------------------------------------------------------------
(* The tables keep their types.                                             *)

LEMMA TablesFrom ==
  ASSUME NEW u \in [Users -> UserRows \cup Absent], NEW o \in [Orgs -> OrgRows \cup Absent],
         NEW m \in [Orgs -> [Users -> Roles \cup {NoRole}]],
         NEW i \in [Invites -> InviteRows \cup Absent],
         NEW c \in [Codes -> CodeRows \cup Absent], NEW t \in [Tokens -> TokenRows \cup {Unborn}],
         NEW x \in SUBSET Orgs, Fields(db', u, o, m, i, c, t, x)
  PROVE  TablesInv'
BY DEF TablesInv, Fields

LEMMA MemberRows ==
  ASSUME TablesInv, NEW o \in Orgs, NEW u \in Users, NEW role \in Roles \cup {NoRole}
  PROVE  [db.members EXCEPT ![o] = [db.members[o] EXCEPT ![u] = role]]
           \in [Orgs -> [Users -> Roles \cup {NoRole}]]
<1>1. db.members \in [Orgs -> [Users -> Roles \cup {NoRole}]]
  BY DEF TablesInv
<1>2. [db.members[o] EXCEPT ![u] = role] \in [Users -> Roles \cup {NoRole}]
  BY <1>1
<1>3. QED
  BY <1>1, <1>2

\* One row of users or of organizations is written.
LEMMA UserRowSet ==
  ASSUME TablesInv, NEW u \in Users, NEW row \in UserRows
  PROVE  [db.users EXCEPT ![u] = row] \in [Users -> UserRows \cup Absent]
BY DEF TablesInv

LEMMA OrgRowSet ==
  ASSUME TablesInv, NEW o \in Orgs, NEW row \in OrgRows
  PROVE  [db.orgs EXCEPT ![o] = row] \in [Orgs -> OrgRows \cup Absent]
BY DEF TablesInv

LEMMA CutTyped ==
  ASSUME NEW m \in [Orgs -> [Users -> Roles \cup {NoRole}]],
         NEW i \in [Invites -> InviteRows \cup Absent], NEW o \in Orgs
  PROVE  /\ CutMembers(m, o) \in [Orgs -> [Users -> Roles \cup {NoRole}]]
         /\ CutInvites(i, o) \in [Invites -> InviteRows \cup Absent]
BY DEF CutMembers, CutInvites, Absent

LEMMA RowUpdates ==
  /\ \A row \in UserRows :
       /\ \A o \in Orgs : [row EXCEPT !.org = o] \in UserRows
       /\ \A type \in Tiers : [row EXCEPT !.type = type] \in UserRows
       /\ [row EXCEPT !.trial = "over"] \in UserRows
       /\ [row EXCEPT !.type = "Free", !.trial = "none"] \in UserRows
       /\ \A plan \in Tiers :
            [row EXCEPT !.type = plan, !.trial = "running", !.used = TRUE] \in UserRows
  /\ \A row \in OrgRows :
       /\ \A u \in Users : [row EXCEPT !.owner = u] \in OrgRows
       /\ \A n \in Nat : [row EXCEPT !.limit = n] \in OrgRows
  /\ \A row \in InviteRows, status \in {"expired", "revoked", "accepted"} :
       [row EXCEPT !.status = status] \in InviteRows
  /\ \A row \in CodeRows, status \in {"expired", "used"} :
       [row EXCEPT !.status = status] \in CodeRows
  /\ \A row \in TokenRows, status \in {"expired", "revoked"} :
       [row EXCEPT !.status = status] \in TokenRows
<1>1. ASSUME NEW row \in UserRows, NEW o \in Orgs
      PROVE  [row EXCEPT !.org = o] \in UserRows
  BY DEF UserRows
<1>2. ASSUME NEW row \in UserRows, NEW type \in Tiers
      PROVE  /\ [row EXCEPT !.type = type] \in UserRows
             /\ [row EXCEPT !.type = type, !.trial = "running", !.used = TRUE] \in UserRows
  BY DEF UserRows
<1>3. ASSUME NEW row \in UserRows
      PROVE  /\ [row EXCEPT !.trial = "over"] \in UserRows
             /\ [row EXCEPT !.type = "Free", !.trial = "none"] \in UserRows
  BY DEF UserRows, Tiers
<1>4. ASSUME NEW row \in OrgRows, NEW n \in Nat
      PROVE  [row EXCEPT !.limit = n] \in OrgRows
  BY DEF OrgRows
<1>5. \A row \in InviteRows, status \in {"expired", "revoked", "accepted"} :
        [row EXCEPT !.status = status] \in InviteRows
  BY DEF InviteRows
<1>6. \A row \in CodeRows, status \in {"expired", "used"} :
        [row EXCEPT !.status = status] \in CodeRows
  BY DEF CodeRows
<1>7. \A row \in TokenRows, status \in {"expired", "revoked"} :
        [row EXCEPT !.status = status] \in TokenRows
  BY DEF TokenRows
<1>8. ASSUME NEW row \in OrgRows, NEW u \in Users
      PROVE  [row EXCEPT !.owner = u] \in OrgRows
  BY DEF OrgRows
<1>9. QED
  BY <1>1, <1>2, <1>3, <1>4, <1>5, <1>6, <1>7, <1>8


LEMMA TablesStep ==
  ASSUME BaseInv, TrialsInv, TokensInv, Forms
  PROVE  TablesInv'
<1>0. TablesInv
  BY DEF BaseInv
<1> DEFINE U == [Users -> UserRows \cup Absent]
           O == [Orgs -> OrgRows \cup Absent]
           M == [Orgs -> [Users -> Roles \cup {NoRole}]]
           I == [Invites -> InviteRows \cup Absent]
           C == [Codes -> CodeRows \cup Absent]
           T == [Tokens -> TokenRows \cup {Unborn}]
           X == SUBSET Orgs
<1>t. /\ db.users \in U /\ db.orgs \in O /\ db.members \in M /\ db.invites \in I
      /\ db.codes \in C /\ db.tokens \in T /\ db.traces \in X
  BY <1>0 DEF TablesInv
<1>u. ASSUME NEW u \in U, NEW o \in O, NEW m \in M, NEW i \in I, NEW c \in C, NEW t \in T,
             NEW x \in X, Fields(db', u, o, m, i, c, t, x)
      PROVE  TablesInv'
  BY <1>u, TablesFrom
<1>r. NoRole \in Roles \cup {NoRole} /\ "owner" \in Roles
  BY DEF Roles
<1>1. ASSUME UNCHANGED db
      PROVE  TablesInv'
  BY <1>0, <1>1 DEF TablesInv
<1>2. ASSUME Founds
      PROVE  TablesInv'
  <2>1. PICK u \in Users, o \in Orgs :
          Fields(db', db.users, [db.orgs EXCEPT ![o] = NewOrg(u, "Free")],
                 [db.members EXCEPT ![o] = [db.members[o] EXCEPT ![u] = "owner"]],
                 db.invites, db.codes, db.tokens, db.traces \cup {o})
    BY <1>2 DEF Founds
  <2>2. NewOrg(u, "Free") \in OrgRows
    BY NewRows DEF Tiers
  <2>3. [db.orgs EXCEPT ![o] = NewOrg(u, "Free")] \in O
    BY <1>0, <2>2, OrgRowSet
  <2>4. [db.members EXCEPT ![o] = [db.members[o] EXCEPT ![u] = "owner"]] \in M
    BY <1>0, <1>r, MemberRows
  <2>5. db.traces \cup {o} \in X
    BY <1>t
  <2> HIDE DEF U, O, M, I, C, T, X
  <2>6. QED
    BY <1>t, <1>u, <2>1, <2>3, <2>4, <2>5
<1>3. ASSUME SetsRole
      PROVE  TablesInv'
  <2>1. PICK u \in Users, o \in Orgs, role \in Roles :
          Fields(db', db.users, db.orgs,
                 [db.members EXCEPT ![o] = [db.members[o] EXCEPT ![u] = role]],
                 db.invites, db.codes, db.tokens, db.traces)
    BY <1>3 DEF SetsRole
  <2>2. [db.members EXCEPT ![o] = [db.members[o] EXCEPT ![u] = role]] \in M
    BY <1>0, MemberRows
  <2> HIDE DEF U, O, M, I, C, T, X
  <2>3. QED
    BY <1>t, <1>u, <2>1, <2>2
<1>4. ASSUME Transfers
      PROVE  TablesInv'
  <2>1. PICK v \in Users, o \in Orgs, seen \in SUBSET Users :
          /\ Row(db.orgs[o])
          /\ Fields(db', db.users, [db.orgs EXCEPT ![o] = [db.orgs[o] EXCEPT !.owner = v]],
                    [db.members EXCEPT ![o] = Transferred(o, v, seen)],
                    db.invites, db.codes, db.tokens, db.traces)
    BY <1>4 DEF Transfers
  <2>2. [db.orgs[o] EXCEPT !.owner = v] \in OrgRows
    BY <1>0, <2>1, RowsAre, RowUpdates
  <2>3. [db.orgs EXCEPT ![o] = [db.orgs[o] EXCEPT !.owner = v]] \in O
    BY <1>0, <2>2, OrgRowSet
  <2>4. Transferred(o, v, seen) \in [Users -> Roles \cup {NoRole}]
    BY <1>t DEF Transferred, Roles, Role
  <2>5. [db.members EXCEPT ![o] = Transferred(o, v, seen)] \in M
    BY <1>t, <2>4
  <2> HIDE DEF U, O, M, I, C, T, X
  <2>6. QED
    BY <1>t, <1>u, <2>1, <2>3, <2>5
<1>5. ASSUME Leaves
      PROVE  TablesInv'
  <2>1. PICK u \in Users, o \in Orgs, to \in Orgs \cup {Unborn} :
          /\ Row(db.users[u])
          /\ Fields(db', IF to = Unborn THEN db.users
                         ELSE [db.users EXCEPT ![u] = [db.users[u] EXCEPT !.org = to]],
                    db.orgs, [db.members EXCEPT ![o] = [db.members[o] EXCEPT ![u] = NoRole]],
                    db.invites, db.codes, db.tokens, db.traces)
    BY <1>5 DEF Leaves
  <2> DEFINE new == IF to = Unborn THEN db.users
                    ELSE [db.users EXCEPT ![u] = [db.users[u] EXCEPT !.org = to]]
  <2>2. new \in U
    <3>1. CASE to = Unborn
      BY <1>t, <3>1
    <3>2. CASE to # Unborn
      <4>1. [db.users[u] EXCEPT !.org = to] \in UserRows
        BY <1>0, <2>1, <3>2, RowsAre, RowUpdates
      <4>2. QED
        BY <1>0, <3>2, <4>1, UserRowSet
    <3>3. QED
      BY <3>1, <3>2
  <2>3. [db.members EXCEPT ![o] = [db.members[o] EXCEPT ![u] = NoRole]] \in M
    BY <1>0, <1>r, MemberRows
  <2> HIDE DEF U, O, M, I, C, T, X, new
  <2>4. QED
    BY <1>t, <1>u, <2>1, <2>2, <2>3 DEF new
<1>6. ASSUME DeletesOrg
      PROVE  TablesInv'
  <2>1. PICK o \in Orgs : \E to :
          /\ to \in [Users -> Orgs \cup {Unborn}]
          /\ Fields(db', [u \in Users |-> IF to[u] # Unborn /\ Row(db.users[u])
                                            THEN [db.users[u] EXCEPT !.org = to[u]]
                                            ELSE db.users[u]],
                    [db.orgs EXCEPT ![o] = Gone], CutMembers(db.members, o),
                    CutInvites(db.invites, o), db.codes, db.tokens, db.traces)
    BY <1>6 DEF DeletesOrg
  <2>2. PICK to :
          /\ to \in [Users -> Orgs \cup {Unborn}]
          /\ Fields(db', [u \in Users |-> IF to[u] # Unborn /\ Row(db.users[u])
                                            THEN [db.users[u] EXCEPT !.org = to[u]]
                                            ELSE db.users[u]],
                    [db.orgs EXCEPT ![o] = Gone], CutMembers(db.members, o),
                    CutInvites(db.invites, o), db.codes, db.tokens, db.traces)
    BY <2>1
  <2> DEFINE new == [u \in Users |-> IF to[u] # Unborn /\ Row(db.users[u])
                                       THEN [db.users[u] EXCEPT !.org = to[u]]
                                       ELSE db.users[u]]
  <2>3. new \in U
    <3>1. ASSUME NEW u \in Users
          PROVE  new[u] \in UserRows \cup Absent
      <4>1. CASE to[u] # Unborn /\ Row(db.users[u])
        <5>1. to[u] \in Orgs
          BY <2>2, <4>1
        <5>2. Row(db.users[u])
          BY <4>1
        <5>3. [db.users[u] EXCEPT !.org = to[u]] \in UserRows
          BY <1>0, <5>1, <5>2, RowsAre, RowUpdates
        <5>4. QED
          BY <4>1, <5>3
      <4>2. CASE ~(to[u] # Unborn /\ Row(db.users[u]))
        BY <1>t, <4>2
      <4>3. QED
        BY <4>1, <4>2
    <3>2. QED
      BY <3>1
  <2>4. [db.orgs EXCEPT ![o] = Gone] \in O
    BY <1>t DEF Absent
  <2>5. CutMembers(db.members, o) \in M /\ CutInvites(db.invites, o) \in I
    BY <1>t, <2>1, CutTyped
  <2> HIDE DEF U, O, M, I, C, T, X, new
  <2>6. QED
    BY <1>t, <1>u, <2>2, <2>3, <2>4, <2>5 DEF new
<1>7. ASSUME Purges
      PROVE  TablesInv'
  <2>1. PICK x \in SUBSET Orgs :
          Fields(db', db.users, db.orgs, db.members, db.invites, db.codes, db.tokens, x)
    BY <1>7 DEF Purges
  <2>2. x \in X
    BY <2>1
  <2> HIDE DEF U, O, M, I, C, T, X
  <2>3. QED
    BY <1>t, <1>u, <2>1, <2>2
<1>8. ASSUME InvitesAnew
      PROVE  TablesInv'
  <2>1. PICK n \in Invites, o \in Orgs, v \in Users, role \in Roles \ {"owner"},
             seen \in SUBSET Invites :
          Fields(db', db.users, db.orgs, db.members, NewInvites(n, o, v, role, seen),
                 db.codes, db.tokens, db.traces)
    BY <1>8 DEF InvitesAnew
  <2>2. NewInvites(n, o, v, role, seen) \in I
    <3>1. ASSUME NEW i \in Invites
          PROVE  NewInvites(n, o, v, role, seen)[i] \in InviteRows \cup Absent
      <4>1. [org |-> o, user |-> v, role |-> role, status |-> "pending"] \in InviteRows
        BY <2>1 DEF InviteRows
      <4>2. ASSUME i \in Pending(o, v)
            PROVE  [db.invites[i] EXCEPT !.status = "revoked"] \in InviteRows
        BY <1>0, <3>1, <4>2, RowsAre, RowUpdates DEF Pending
      <4>3. QED
        BY <1>t, <3>1, <4>1, <4>2 DEF NewInvites
    <3>2. QED
      BY <3>1 DEF NewInvites
  <2> HIDE DEF U, O, M, I, C, T, X
  <2>3. QED
    BY <1>t, <1>u, <2>1, <2>2
<1>9. ASSUME EndsInvite
      PROVE  TablesInv'
  <2>1. PICK i \in Invites, status \in {"expired", "revoked"} :
          /\ Row(db.invites[i])
          /\ Fields(db', db.users, db.orgs, db.members,
                    [db.invites EXCEPT ![i] = [db.invites[i] EXCEPT !.status = status]],
                    db.codes, db.tokens, db.traces)
    BY <1>9 DEF EndsInvite
  <2>2. [db.invites[i] EXCEPT !.status = status] \in InviteRows
    BY <1>0, <2>1, RowsAre, RowUpdates
  <2>3. [db.invites EXCEPT ![i] = [db.invites[i] EXCEPT !.status = status]] \in I
    BY <1>t, <2>2
  <2> HIDE DEF U, O, M, I, C, T, X
  <2>4. QED
    BY <1>t, <1>u, <2>1, <2>3
<1>10. ASSUME Accepts
       PROVE  TablesInv'
  <2>1. PICK i \in Invites :
          /\ Row(db.invites[i])
          /\ Fields(db', db.users, db.orgs,
                    [db.members EXCEPT ![db.invites[i].org] =
                       [db.members[db.invites[i].org] EXCEPT ![db.invites[i].user] =
                          db.invites[i].role]],
                    [db.invites EXCEPT ![i] = [db.invites[i] EXCEPT !.status = "accepted"]],
                    db.codes, db.tokens, db.traces)
    BY <1>10 DEF Accepts
  <2> DEFINE inv == db.invites[i]
  <2>2. inv \in InviteRows
    BY <1>0, <2>1, RowsAre
  <2>3. inv.org \in Orgs /\ inv.user \in Users /\ inv.role \in Roles
    BY <2>2 DEF InviteRows
  <2>4. [inv EXCEPT !.status = "accepted"] \in InviteRows
    BY <2>2, RowUpdates
  <2>5. [db.invites EXCEPT ![i] = [inv EXCEPT !.status = "accepted"]] \in I
    BY <1>t, <2>4
  <2>6. [db.members EXCEPT ![inv.org] = [db.members[inv.org] EXCEPT ![inv.user] = inv.role]]
          \in M
    BY <1>0, <2>3, MemberRows
  <2> HIDE DEF U, O, M, I, C, T, X
  <2>7. QED
    BY <1>t, <1>u, <2>1, <2>5, <2>6
<1>11. ASSUME Lands
       PROVE  TablesInv'
  <2>1. PICK u \in Users, o \in Orgs :
          /\ Row(db.users[u])
          /\ Fields(db', [db.users EXCEPT ![u] = [db.users[u] EXCEPT !.org = o]], db.orgs,
                    db.members, db.invites, db.codes, db.tokens, db.traces)
    BY <1>11 DEF Lands
  <2>2. [db.users[u] EXCEPT !.org = o] \in UserRows
    BY <1>0, <2>1, RowsAre, RowUpdates
  <2>3. [db.users EXCEPT ![u] = [db.users[u] EXCEPT !.org = o]] \in U
    BY <1>0, <2>2, UserRowSet
  <2> HIDE DEF U, O, M, I, C, T, X
  <2>4. QED
    BY <1>t, <1>u, <2>1, <2>3
<1>12. ASSUME Mints
       PROVE  TablesInv'
  <2>1. PICK u \in Users, o \in Orgs, t \in Tokens :
          Fields(db', db.users, db.orgs, db.members, db.invites, db.codes,
                 [db.tokens EXCEPT ![t] = Session(u, o)], db.traces)
    BY <1>12 DEF Mints
  <2>2. [db.tokens EXCEPT ![t] = Session(u, o)] \in T
    BY <1>t, NewRows
  <2> HIDE DEF U, O, M, I, C, T, X
  <2>3. QED
    BY <1>t, <1>u, <2>1, <2>2
<1>13. ASSUME Downgrades
       PROVE  TablesInv'
  <2>1. PICK u \in Users :
          /\ Row(db.users[u])
          /\ Fields(db', [db.users EXCEPT ![u] =
                            [db.users[u] EXCEPT !.type = "Free", !.trial = "none"]],
                    db.orgs, db.members, db.invites, db.codes, db.tokens, db.traces)
    BY <1>13 DEF Downgrades
  <2>2. [db.users[u] EXCEPT !.type = "Free", !.trial = "none"] \in UserRows
    BY <1>0, <2>1, RowsAre, RowUpdates
  <2>3. [db.users EXCEPT ![u] = [db.users[u] EXCEPT !.type = "Free", !.trial = "none"]] \in U
    BY <1>0, <2>2, UserRowSet
  <2> HIDE DEF U, O, M, I, C, T, X
  <2>4. QED
    BY <1>t, <1>u, <2>1, <2>3
<1>14. ASSUME StartsTrial
       PROVE  TablesInv'
  <2>1. PICK r \in Requests, u \in Users, plan \in Tiers :
          /\ Goes(r, "starting", "done", Unborn) /\ known[r].user = u
          /\ Fields(db', [db.users EXCEPT ![u] =
               [db.users[u] EXCEPT !.type = plan, !.trial = "running", !.used = TRUE]],
               db.orgs, db.members, db.invites, db.codes, db.tokens, db.traces)
    BY <1>14 DEF StartsTrial
  <2>2. Row(db.users[u])
    BY <1>14, <2>1 DEF TrialsInv, At, Goes, Startable
  <2>3. [db.users[u] EXCEPT !.type = plan, !.trial = "running", !.used = TRUE] \in UserRows
    BY <1>0, <2>1, <2>2, RowsAre, RowUpdates
  <2>4. [db.users EXCEPT ![u] =
           [db.users[u] EXCEPT !.type = plan, !.trial = "running", !.used = TRUE]] \in U
    BY <1>0, <2>3, UserRowSet
  <2> HIDE DEF U, O, M, I, C, T, X
  <2>5. QED
    BY <1>t, <1>u, <2>1, <2>4
<1>15. ASSUME EndsTrial
       PROVE  TablesInv'
  <2>1. PICK u \in Users :
          /\ Row(db.users[u])
          /\ Fields(db', [db.users EXCEPT ![u] = [db.users[u] EXCEPT !.trial = "over"]],
                    db.orgs, db.members, db.invites, db.codes, db.tokens, db.traces)
    BY <1>15 DEF EndsTrial
  <2>2. [db.users[u] EXCEPT !.trial = "over"] \in UserRows
    BY <1>0, <2>1, RowsAre, RowUpdates
  <2>3. [db.users EXCEPT ![u] = [db.users[u] EXCEPT !.trial = "over"]] \in U
    BY <1>0, <2>2, UserRowSet
  <2> HIDE DEF U, O, M, I, C, T, X
  <2>4. QED
    BY <1>t, <1>u, <2>1, <2>3
<1>16. ASSUME Retypes
       PROVE  TablesInv'
  <2>1. PICK u \in Users, type \in Tiers :
          /\ Row(db.users[u])
          /\ Fields(db', [db.users EXCEPT ![u] = [db.users[u] EXCEPT !.type = type]],
                    [db.orgs EXCEPT ![db.users[u].org] =
                       [db.orgs[db.users[u].org] EXCEPT !.limit = ApiKeyLimits[type]]],
                    db.members, db.invites, db.codes, db.tokens, db.traces)
    BY <1>16 DEF Retypes
  <2> DEFINE o == db.users[u].org
             limit == ApiKeyLimits[type]
  <2>2. db.users[u] \in UserRows
    BY <1>0, <2>1, RowsAre
  <2>3. o \in Orgs
    BY <2>2 DEF UserRows
  <2>4. Row(db.orgs[o])
    BY <2>1 DEF BaseInv, RefsInv, CurrentsRefer
  <2>5. limit \in Nat
    BY <2>1, NewRows
  <2> HIDE DEF o, limit
  <2>6. [db.orgs[o] EXCEPT !.limit = limit] \in OrgRows
    BY <1>0, <2>3, <2>4, <2>5, RowsAre, RowUpdates
  <2>7. [db.orgs EXCEPT ![o] = [db.orgs[o] EXCEPT !.limit = limit]] \in O
    BY <1>0, <2>3, <2>6, OrgRowSet
  <2>8. [db.users[u] EXCEPT !.type = type] \in UserRows
    BY <2>1, <2>2, RowUpdates
  <2>9. [db.users EXCEPT ![u] = [db.users[u] EXCEPT !.type = type]] \in U
    BY <1>0, <2>8, UserRowSet
  <2> HIDE DEF U, O, M, I, C, T, X
  <2>10. QED
    BY <1>t, <1>u, <2>1, <2>7, <2>9 DEF o, limit
<1>17. ASSUME SetsOrg
       PROVE  TablesInv'
  <2>1. PICK o \in Orgs, row \in OrgRows :
          Fields(db', db.users, [db.orgs EXCEPT ![o] = row], db.members, db.invites,
                 db.codes, db.tokens, db.traces)
    BY <1>17 DEF SetsOrg
  <2>2. [db.orgs EXCEPT ![o] = row] \in O
    BY <1>0, OrgRowSet
  <2> HIDE DEF U, O, M, I, C, T, X
  <2>3. QED
    BY <1>t, <1>u, <2>1, <2>2
<1>18. ASSUME Registers
       PROVE  TablesInv'
  <2>1. PICK u \in Users, o \in Orgs, t \in Tokens :
          Fields(db', [db.users EXCEPT ![u] = NewUser(o)],
                 [db.orgs EXCEPT ![o] = NewOrg(u, NoPlan)],
                 [db.members EXCEPT ![o] = [db.members[o] EXCEPT ![u] = "owner"]],
                 db.invites, db.codes, [db.tokens EXCEPT ![t] = Session(u, o)],
                 db.traces \cup {o})
    BY <1>18 DEF Registers
  <2>2. NewOrg(u, NoPlan) \in OrgRows /\ NewUser(o) \in UserRows
    BY NewRows
  <2>3. /\ [db.orgs EXCEPT ![o] = NewOrg(u, NoPlan)] \in O
        /\ [db.users EXCEPT ![u] = NewUser(o)] \in U
    BY <1>0, <2>2, OrgRowSet, UserRowSet
  <2>4. [db.members EXCEPT ![o] = [db.members[o] EXCEPT ![u] = "owner"]] \in M
    BY <1>0, <1>r, MemberRows
  <2>5. [db.tokens EXCEPT ![t] = Session(u, o)] \in T
    BY <1>t, NewRows
  <2>6. db.traces \cup {o} \in X
    BY <1>t
  <2> HIDE DEF U, O, M, I, C, T, X
  <2>7. QED
    BY <1>t, <1>u, <2>1, <2>3, <2>4, <2>5, <2>6
<1>19. ASSUME Rotates
       PROVE  TablesInv'
  <2>1. PICK r \in Requests, t, n \in Tokens, u \in Users, o \in Orgs :
          /\ Goes(r, "rotating", "done", Unborn) /\ known[r].token = t
          /\ Fields(db', db.users, db.orgs, db.members, db.invites, db.codes,
               [[db.tokens EXCEPT ![t] = [db.tokens[t] EXCEPT !.status = "revoked"]]
                  EXCEPT ![n] = Session(u, o)], db.traces)
    BY <1>19 DEF Rotates
  <2>2. db.tokens[t] # Unborn
    BY <1>19, <2>1 DEF TokensInv, At, Goes
  <2>3. [db.tokens[t] EXCEPT !.status = "revoked"] \in TokenRows
    BY <1>0, <2>2, RowsAre, RowUpdates
  <2>4. [db.tokens EXCEPT ![t] = [db.tokens[t] EXCEPT !.status = "revoked"]] \in T
    BY <1>t, <2>3
  <2>5. [[db.tokens EXCEPT ![t] = [db.tokens[t] EXCEPT !.status = "revoked"]]
           EXCEPT ![n] = Session(u, o)] \in T
    BY <2>4, NewRows
  <2> HIDE DEF U, O, M, I, C, T, X
  <2>6. QED
    BY <1>t, <1>u, <2>1, <2>5
<1>20. ASSUME EndsToken
       PROVE  TablesInv'
  <2>1. PICK t \in Tokens, status \in {"expired", "revoked"} :
          /\ db.tokens[t] # Unborn
          /\ Fields(db', db.users, db.orgs, db.members, db.invites, db.codes,
                    [db.tokens EXCEPT ![t] = [db.tokens[t] EXCEPT !.status = status]],
                    db.traces)
    BY <1>20 DEF EndsToken
  <2>2. [db.tokens[t] EXCEPT !.status = status] \in TokenRows
    BY <1>0, <2>1, RowsAre, RowUpdates
  <2>3. [db.tokens EXCEPT ![t] = [db.tokens[t] EXCEPT !.status = status]] \in T
    BY <1>t, <2>2
  <2> HIDE DEF U, O, M, I, C, T, X
  <2>4. QED
    BY <1>t, <1>u, <2>1, <2>3
<1>21. ASSUME ResetsAnew
       PROVE  TablesInv'
  <2>1. PICK n \in Codes, u \in Users, seen \in SUBSET Codes :
          Fields(db', db.users, db.orgs, db.members, db.invites, NewCodes(n, u, seen),
                 db.tokens, db.traces)
    BY <1>21 DEF ResetsAnew
  <2>2. NewCodes(n, u, seen) \in C
    <3>1. ASSUME NEW c \in Codes
          PROVE  NewCodes(n, u, seen)[c] \in CodeRows \cup Absent
      <4>1. [user |-> u, status |-> "live"] \in CodeRows
        BY <2>1 DEF CodeRows
      <4>2. ASSUME c \in Live(u)
            PROVE  [db.codes[c] EXCEPT !.status = "used"] \in CodeRows
        BY <1>0, <3>1, <4>2, RowsAre, RowUpdates DEF Live
      <4>3. QED
        BY <1>t, <3>1, <4>1, <4>2 DEF NewCodes
    <3>2. QED
      BY <3>1 DEF NewCodes
  <2> HIDE DEF U, O, M, I, C, T, X
  <2>3. QED
    BY <1>t, <1>u, <2>1, <2>2
<1>22. ASSUME Consumes \/ EndsCode
       PROVE  TablesInv'
  <2>1. PICK c \in Codes, status \in {"expired", "used"} :
          /\ Row(db.codes[c])
          /\ Fields(db', db.users, db.orgs, db.members, db.invites,
                    [db.codes EXCEPT ![c] = [db.codes[c] EXCEPT !.status = status]],
                    db.tokens, db.traces)
    BY <1>22 DEF Consumes, EndsCode
  <2>2. [db.codes[c] EXCEPT !.status = status] \in CodeRows
    BY <1>0, <2>1, RowsAre, RowUpdates
  <2>3. [db.codes EXCEPT ![c] = [db.codes[c] EXCEPT !.status = status]] \in C
    BY <1>t, <2>2
  <2> HIDE DEF U, O, M, I, C, T, X
  <2>4. QED
    BY <1>t, <1>u, <2>1, <2>3
<1>23. ASSUME DropsTraces
       PROVE  TablesInv'
  <2>1. PICK o \in Orgs :
          Fields(db', db.users, db.orgs, db.members, db.invites, db.codes, db.tokens,
                 db.traces \ {o})
    BY <1>23 DEF DropsTraces
  <2>2. db.traces \ {o} \in X
    BY <1>t
  <2> HIDE DEF U, O, M, I, C, T, X
  <2>3. QED
    BY <1>t, <1>u, <2>1, <2>2
<1>24. ASSUME Unregisters
       PROVE  TablesInv'
  <2>1. PICK u \in Users, o \in Orgs :
          Fields(db', [db.users EXCEPT ![u] = Gone], [db.orgs EXCEPT ![o] = Gone],
                 CutMembers([p \in Orgs |-> [db.members[p] EXCEPT ![u] = NoRole]], o),
                 CutInvites(db.invites, o),
                 [c \in Codes |-> IF Row(db.codes[c]) /\ db.codes[c].user = u
                                    THEN Gone ELSE db.codes[c]],
                 db.tokens, db.traces)
    BY <1>24 DEF Unregisters
  <2>2. [db.users EXCEPT ![u] = Gone] \in U /\ [db.orgs EXCEPT ![o] = Gone] \in O
    BY <1>t DEF Absent
  <2>3. [p \in Orgs |-> [db.members[p] EXCEPT ![u] = NoRole]] \in M
    BY <1>t
  <2>4. /\ CutMembers([p \in Orgs |-> [db.members[p] EXCEPT ![u] = NoRole]], o) \in M
        /\ CutInvites(db.invites, o) \in I
    BY <1>t, <2>1, <2>3, CutTyped
  <2>5. [c \in Codes |-> IF Row(db.codes[c]) /\ db.codes[c].user = u
                           THEN Gone ELSE db.codes[c]] \in C
    BY <1>t DEF Absent
  <2> HIDE DEF U, O, M, I, C, T, X
  <2>6. QED
    BY <1>t, <1>u, <2>1, <2>2, <2>4, <2>5
<1>25. ASSUME Reads \/ ChangesPassword \/ IsRefused
       PROVE  TablesInv'
  BY <1>1, <1>25 DEF Reads, ChangesPassword, IsRefused
<1>26. QED
  BY <1>2, <1>3, <1>4, <1>5, <1>6, <1>7, <1>8, <1>9, <1>10, <1>11, <1>12, <1>13, <1>14,
     <1>15, <1>16, <1>17, <1>18, <1>19, <1>20, <1>21, <1>22, <1>23, <1>24, <1>25 DEF Forms


-----------------------------------------------------------------------------
(* What rows refer to stays there.                                          *)

StayUsers   == \A u \in Users : Row(db.users[u]) => Row(db'.users[u])
KeepUsers   == \A u \in Users :
                 Row(db'.users[u]) => Row(db.users[u]) /\ db'.users[u].org = db.users[u].org
KeepOrgs    == \A o \in Orgs : Row(db.orgs[o]) => Row(db'.orgs[o])
KeepMembers == \A o \in Orgs, u \in Users :
                 db'.members[o][u] # NoRole => db.members[o][u] # NoRole
KeepInvites == \A i \in Invites :
                 Row(db'.invites[i]) => Row(db.invites[i]) /\ db'.invites[i].org = db.invites[i].org
KeepCodes   == \A c \in Codes :
                 Row(db'.codes[c]) => Row(db.codes[c]) /\ db'.codes[c].user = db.codes[c].user

LEMMA RefsKept ==
  ASSUME BaseInv
  PROVE  /\ StayUsers /\ KeepUsers /\ KeepOrgs => CurrentsRefer'
         /\ StayUsers /\ KeepMembers /\ KeepOrgs => MembersRefer'
         /\ KeepOrgs /\ KeepInvites => InvitesRefer'
         /\ StayUsers /\ KeepCodes => CodesRefer'
<1>1. ASSUME KeepUsers, KeepOrgs
      PROVE  CurrentsRefer'
  <2>1. ASSUME NEW u \in Users, Row(db'.users[u])
        PROVE  Row(db'.orgs[db'.users[u].org])
    <3>1. Row(db.users[u]) /\ db'.users[u].org = db.users[u].org
      BY <1>1, <2>1 DEF KeepUsers
    <3>2. db.users[u] \in UserRows
      BY <3>1, RowsAre DEF BaseInv
    <3>3. db.users[u].org \in Orgs
      BY <3>2 DEF UserRows
    <3>4. Row(db.orgs[db.users[u].org])
      BY <3>1 DEF BaseInv, RefsInv, CurrentsRefer
    <3>5. QED
      BY <1>1, <3>1, <3>3, <3>4 DEF KeepOrgs
  <2>2. QED
    BY <2>1 DEF CurrentsRefer, Row
<1>2. ASSUME StayUsers, KeepMembers, KeepOrgs
      PROVE  MembersRefer'
  <2>1. ASSUME NEW o \in Orgs, NEW u \in Users, db'.members[o][u] # NoRole
        PROVE  Row(db'.orgs[o]) /\ Row(db'.users[u])
    BY <1>2, <2>1 DEF StayUsers, KeepMembers, KeepOrgs, BaseInv, RefsInv, MembersRefer
  <2>2. QED
    BY <2>1 DEF MembersRefer, Row
<1>3. ASSUME KeepOrgs, KeepInvites
      PROVE  InvitesRefer'
  <2>1. ASSUME NEW i \in Invites, Row(db'.invites[i])
        PROVE  Row(db'.orgs[db'.invites[i].org])
    <3>1. Row(db.invites[i]) /\ db'.invites[i].org = db.invites[i].org
      BY <1>3, <2>1 DEF KeepInvites
    <3>2. db.invites[i] \in InviteRows
      BY <3>1, RowsAre DEF BaseInv
    <3>3. db.invites[i].org \in Orgs
      BY <3>2 DEF InviteRows
    <3>4. Row(db.orgs[db.invites[i].org])
      BY <3>1 DEF BaseInv, RefsInv, InvitesRefer
    <3>5. QED
      BY <1>3, <3>1, <3>3, <3>4 DEF KeepOrgs
  <2>2. QED
    BY <2>1 DEF InvitesRefer, Row
<1>4. ASSUME StayUsers, KeepCodes
      PROVE  CodesRefer'
  <2>1. ASSUME NEW c \in Codes, Row(db'.codes[c])
        PROVE  Row(db'.users[db'.codes[c].user])
    <3>1. Row(db.codes[c]) /\ db'.codes[c].user = db.codes[c].user
      BY <1>4, <2>1 DEF KeepCodes
    <3>2. db.codes[c] \in CodeRows
      BY <3>1, RowsAre DEF BaseInv
    <3>3. db.codes[c].user \in Users
      BY <3>2 DEF CodeRows
    <3>4. Row(db.users[db.codes[c].user])
      BY <3>1 DEF BaseInv, RefsInv, CodesRefer
    <3>5. QED
      BY <1>4, <3>1, <3>3, <3>4 DEF StayUsers
  <2>2. QED
    BY <2>1 DEF CodesRefer, Row
<1>5. QED
  BY <1>1, <1>2, <1>3, <1>4

\* A table that is not written is kept.
LEMMA SameKept ==
  /\ db'.users = db.users => StayUsers /\ KeepUsers
  /\ db'.orgs = db.orgs => KeepOrgs
  /\ db'.members = db.members => KeepMembers
  /\ db'.invites = db.invites => KeepInvites
  /\ db'.codes = db.codes => KeepCodes
BY DEF StayUsers, KeepUsers, KeepOrgs, KeepMembers, KeepInvites, KeepCodes

\* One row of a table is written.
LEMMA UserRowKept ==
  ASSUME TablesInv, NEW u \in Users, Row(db.users[u]), NEW row \in UserRows,
         row.org = db.users[u].org, db'.users = [db.users EXCEPT ![u] = row]
  PROVE  StayUsers /\ KeepUsers
<1>1. Row(row)
  BY NewRows
<1>2. \A v \in Users : db'.users[v] = IF v = u THEN row ELSE db.users[v]
  BY DEF TablesInv
<1>3. QED
  BY <1>1, <1>2 DEF StayUsers, KeepUsers

LEMMA OrgRowKept ==
  ASSUME TablesInv, NEW o \in Orgs, NEW row \in OrgRows,
         db'.orgs = [db.orgs EXCEPT ![o] = row]
  PROVE  KeepOrgs
<1>1. Row(row)
  BY NewRows
<1>2. \A p \in Orgs : db'.orgs[p] = IF p = o THEN row ELSE db.orgs[p]
  BY DEF TablesInv
<1>3. QED
  BY <1>1, <1>2 DEF KeepOrgs

\* A membership, in an organization of an account that are there.
LEMMA MemberSet ==
  ASSUME BaseInv, NEW o \in Orgs, NEW u \in Users, NEW role,
         Row(db'.orgs[o]), Row(db'.users[u]), StayUsers, KeepOrgs,
         db'.members = [db.members EXCEPT ![o] = [db.members[o] EXCEPT ![u] = role]]
  PROVE  MembersRefer'
<1>1. ASSUME NEW p \in Orgs, NEW v \in Users, db'.members[p][v] # NoRole
      PROVE  Row(db'.orgs[p]) /\ Row(db'.users[v])
  <2>1. CASE p = o /\ v = u
    BY <2>1
  <2>2. CASE ~(p = o /\ v = u)
    <3>1. db'.members[p][v] = db.members[p][v]
      BY <2>2 DEF BaseInv, TablesInv
    <3>2. QED
      BY <1>1, <3>1 DEF StayUsers, KeepOrgs, BaseInv, RefsInv, MembersRefer
  <2>3. QED
    BY <2>1, <2>2
<1>2. QED
  BY <1>1 DEF MembersRefer, Row

\* What goes with an organization refers to nothing.
LEMMA CutRefers ==
  ASSUME BaseInv, NEW o \in Orgs,
         NEW m \in [Orgs -> [Users -> Roles \cup {NoRole}]],
         \A p \in Orgs, u \in Users :
           m[p][u] # NoRole => db.members[p][u] # NoRole /\ Row(db'.users[u]),
         db'.orgs = [db.orgs EXCEPT ![o] = Gone],
         db'.members = CutMembers(m, o), db'.invites = CutInvites(db.invites, o)
  PROVE  MembersRefer' /\ InvitesRefer'
<1>1. \A p \in Orgs : p # o => db'.orgs[p] = db.orgs[p]
  BY DEF BaseInv, TablesInv
<1>2. ASSUME NEW p \in Orgs, NEW u \in Users, db'.members[p][u] # NoRole
      PROVE  Row(db'.orgs[p]) /\ Row(db'.users[u])
  <2>1. db'.members[p][u] = IF p = o THEN NoRole ELSE m[p][u]
    BY DEF CutMembers
  <2>2. p # o /\ m[p][u] # NoRole
    BY <1>2, <2>1
  <2>3. Row(db.orgs[p])
    BY <2>2 DEF BaseInv, RefsInv, MembersRefer
  <2>4. QED
    BY <1>1, <2>2, <2>3
<1>3. ASSUME NEW i \in Invites, Row(db'.invites[i])
      PROVE  Row(db'.orgs[db'.invites[i].org])
  <2>1. db'.invites[i] = IF Row(db.invites[i]) /\ db.invites[i].org = o
                           THEN Gone ELSE db.invites[i]
    BY DEF CutInvites
  <2>2. Row(db.invites[i]) /\ db.invites[i].org # o /\ db'.invites[i] = db.invites[i]
    BY <1>3, <2>1, NewRows
  <2>3. db.invites[i] \in InviteRows
    BY <2>2, RowsAre DEF BaseInv
  <2>4. db.invites[i].org \in Orgs
    BY <2>3 DEF InviteRows
  <2>5. Row(db.orgs[db.invites[i].org])
    BY <2>2 DEF BaseInv, RefsInv, InvitesRefer
  <2>6. QED
    BY <1>1, <2>2, <2>4, <2>5
<1>4. QED
  BY <1>2, <1>3 DEF MembersRefer, InvitesRefer, Row

LEMMA RefsStep ==
  ASSUME BaseInv, TrialsInv, Forms
  PROVE  RefsInv'
<1>0. TablesInv
  BY DEF BaseInv
<1>q. ASSUME StayUsers, KeepUsers, KeepOrgs, KeepMembers, KeepInvites, KeepCodes
      PROVE  RefsInv'
  BY <1>q, RefsKept DEF RefsInv
<1>1. ASSUME \/ Reads \/ Purges \/ Mints \/ Rotates \/ EndsToken \/ ChangesPassword
             \/ DropsTraces \/ IsRefused
      PROVE  RefsInv'
  <2>1. /\ db'.users = db.users /\ db'.orgs = db.orgs /\ db'.members = db.members
        /\ db'.invites = db.invites /\ db'.codes = db.codes
    BY <1>1 DEF Reads, Purges, Mints, Rotates, EndsToken, ChangesPassword, DropsTraces,
       IsRefused, Fields
  <2>2. QED
    BY <1>q, <2>1, SameKept
<1>2. ASSUME Founds
      PROVE  RefsInv'
  <2>1. PICK u \in Users, o \in Orgs :
          /\ Row(db.users[u]) /\ db.orgs[o] = Unborn
          /\ Fields(db', db.users, [db.orgs EXCEPT ![o] = NewOrg(u, "Free")],
                    [db.members EXCEPT ![o] = [db.members[o] EXCEPT ![u] = "owner"]],
                    db.invites, db.codes, db.tokens, db.traces \cup {o})
    BY <1>2 DEF Founds
  <2>2. NewOrg(u, "Free") \in OrgRows
    BY <2>1, NewRows DEF Tiers
  <2>3. /\ db'.users = db.users /\ db'.invites = db.invites /\ db'.codes = db.codes
        /\ db'.orgs = [db.orgs EXCEPT ![o] = NewOrg(u, "Free")]
        /\ db'.members = [db.members EXCEPT ![o] = [db.members[o] EXCEPT ![u] = "owner"]]
    BY <2>1 DEF Fields
  <2>4. KeepOrgs /\ StayUsers /\ KeepUsers /\ KeepInvites /\ KeepCodes
    BY <1>0, <2>2, <2>3, SameKept, OrgRowKept
  <2>5. Row(db'.orgs[o]) /\ Row(db'.users[u])
    BY <1>0, <2>1, <2>2, <2>3, NewRows DEF TablesInv
  <2>6. MembersRefer'
    BY <2>3, <2>4, <2>5, MemberSet
  <2>7. QED
    BY <2>4, <2>6, RefsKept DEF RefsInv
<1>3. ASSUME SetsRole
      PROVE  RefsInv'
  <2>1. PICK u \in Users, o \in Orgs, role \in Roles :
          /\ Row(db.users[u]) /\ Row(db.orgs[o])
          /\ Fields(db', db.users, db.orgs,
                    [db.members EXCEPT ![o] = [db.members[o] EXCEPT ![u] = role]],
                    db.invites, db.codes, db.tokens, db.traces)
    BY <1>3 DEF SetsRole
  <2>2. /\ db'.users = db.users /\ db'.invites = db.invites /\ db'.codes = db.codes
        /\ db'.orgs = db.orgs
        /\ db'.members = [db.members EXCEPT ![o] = [db.members[o] EXCEPT ![u] = role]]
    BY <2>1 DEF Fields
  <2>3. KeepOrgs /\ StayUsers /\ KeepUsers /\ KeepInvites /\ KeepCodes
    BY <2>2, SameKept
  <2>4. MembersRefer'
    BY <2>1, <2>2, <2>3, MemberSet
  <2>5. QED
    BY <2>3, <2>4, RefsKept DEF RefsInv
<1>4. ASSUME Transfers
      PROVE  RefsInv'
  <2>1. PICK v \in Users, o \in Orgs, seen \in SUBSET Users :
          /\ Row(db.orgs[o])
          /\ Fields(db', db.users, [db.orgs EXCEPT ![o] = [db.orgs[o] EXCEPT !.owner = v]],
                    [db.members EXCEPT ![o] = Transferred(o, v, seen)],
                    db.invites, db.codes, db.tokens, db.traces)
    BY <1>4 DEF Transfers
  <2>2. [db.orgs[o] EXCEPT !.owner = v] \in OrgRows
    BY <1>0, <2>1, RowsAre, RowUpdates
  <2>3. /\ db'.users = db.users /\ db'.invites = db.invites /\ db'.codes = db.codes
        /\ db'.orgs = [db.orgs EXCEPT ![o] = [db.orgs[o] EXCEPT !.owner = v]]
        /\ db'.members = [db.members EXCEPT ![o] = Transferred(o, v, seen)]
    BY <2>1 DEF Fields
  <2>4. KeepOrgs /\ StayUsers /\ KeepUsers /\ KeepInvites /\ KeepCodes
    BY <1>0, <2>2, <2>3, SameKept, OrgRowKept
  <2>5. KeepMembers
    <3>1. ASSUME NEW p \in Orgs, NEW u \in Users, db'.members[p][u] # NoRole
          PROVE  db.members[p][u] # NoRole
      <4>1. CASE p = o
        <5>1. db'.members[p][u] = Transferred(o, v, seen)[u]
          BY <1>0, <2>3, <4>1 DEF TablesInv
        <5>2. QED
          BY <3>1, <4>1, <5>1 DEF Transferred, Role, NoRole
      <4>2. CASE p # o
        BY <1>0, <2>3, <3>1, <4>2 DEF TablesInv
      <4>3. QED
        BY <4>1, <4>2
    <3>2. QED
      BY <3>1 DEF KeepMembers
  <2>6. QED
    BY <1>q, <2>4, <2>5
<1>5. ASSUME Leaves
      PROVE  RefsInv'
  <2>1. PICK u \in Users, o \in Orgs, to \in Orgs \cup {Unborn} :
          /\ Row(db.users[u]) /\ Row(db.orgs[o]) /\ Sound(db')
          /\ Fields(db', IF to = Unborn THEN db.users
                         ELSE [db.users EXCEPT ![u] = [db.users[u] EXCEPT !.org = to]],
                    db.orgs, [db.members EXCEPT ![o] = [db.members[o] EXCEPT ![u] = NoRole]],
                    db.invites, db.codes, db.tokens, db.traces)
    BY <1>5 DEF Leaves
  <2>2. /\ db'.users = (IF to = Unborn THEN db.users
                        ELSE [db.users EXCEPT ![u] = [db.users[u] EXCEPT !.org = to]])
        /\ db'.orgs = db.orgs /\ db'.invites = db.invites /\ db'.codes = db.codes
        /\ db'.members = [db.members EXCEPT ![o] = [db.members[o] EXCEPT ![u] = NoRole]]
    BY <2>1 DEF Fields
  <2>3. StayUsers
    <3>1. CASE to = Unborn
      BY <2>2, <3>1, SameKept
    <3>2. CASE to # Unborn
      <4>1. [db.users[u] EXCEPT !.org = to] \in UserRows
        BY <1>0, <2>1, <3>2, RowsAre, RowUpdates
      <4>2. Row([db.users[u] EXCEPT !.org = to])
        BY <4>1, NewRows
      <4>3. QED
        BY <1>0, <2>2, <3>2, <4>2 DEF StayUsers, TablesInv
    <3>3. QED
      BY <3>1, <3>2
  <2>4. KeepOrgs /\ KeepInvites /\ KeepCodes
    BY <2>2, SameKept
  <2>5. KeepMembers
    BY <1>0, <2>2 DEF KeepMembers, TablesInv
  <2>6. CurrentsRefer'
    BY <2>1 DEF Sound, CurrentsRefer
  <2>7. QED
    BY <2>3, <2>4, <2>5, <2>6, RefsKept DEF RefsInv
<1>6. ASSUME DeletesOrg
      PROVE  RefsInv'
  <2>1. PICK o \in Orgs : \E to :
          /\ to \in [Users -> Orgs \cup {Unborn}]
          /\ Fields(db', [u \in Users |-> IF to[u] # Unborn /\ Row(db.users[u])
                                            THEN [db.users[u] EXCEPT !.org = to[u]]
                                            ELSE db.users[u]],
                    [db.orgs EXCEPT ![o] = Gone], CutMembers(db.members, o),
                    CutInvites(db.invites, o), db.codes, db.tokens, db.traces)
          /\ Sound(db')
    BY <1>6 DEF DeletesOrg
  <2>2. PICK to :
          /\ to \in [Users -> Orgs \cup {Unborn}]
          /\ Fields(db', [u \in Users |-> IF to[u] # Unborn /\ Row(db.users[u])
                                            THEN [db.users[u] EXCEPT !.org = to[u]]
                                            ELSE db.users[u]],
                    [db.orgs EXCEPT ![o] = Gone], CutMembers(db.members, o),
                    CutInvites(db.invites, o), db.codes, db.tokens, db.traces)
          /\ Sound(db')
    BY <2>1
  <2>3. /\ db'.orgs = [db.orgs EXCEPT ![o] = Gone] /\ db'.codes = db.codes
        /\ db'.members = CutMembers(db.members, o) /\ db'.invites = CutInvites(db.invites, o)
    BY <2>2 DEF Fields
  <2>4. StayUsers
    <3>1. ASSUME NEW u \in Users, Row(db.users[u])
          PROVE  Row(db'.users[u])
      <4>1. db'.users[u] = IF to[u] # Unborn /\ Row(db.users[u])
                             THEN [db.users[u] EXCEPT !.org = to[u]] ELSE db.users[u]
        BY <2>2 DEF Fields
      <4>2. ASSUME to[u] # Unborn
            PROVE  Row([db.users[u] EXCEPT !.org = to[u]])
        <5>1. to[u] \in Orgs
          BY <2>2, <4>2
        <5>2. [db.users[u] EXCEPT !.org = to[u]] \in UserRows
          BY <1>0, <3>1, <5>1, RowsAre, RowUpdates
        <5>3. QED
          BY <5>2, NewRows
      <4>3. QED
        BY <3>1, <4>1, <4>2
    <3>2. QED
      BY <3>1 DEF StayUsers
  <2>5. \A p \in Orgs, u \in Users :
          db.members[p][u] # NoRole => db.members[p][u] # NoRole /\ Row(db'.users[u])
    BY <2>4 DEF StayUsers, BaseInv, RefsInv, MembersRefer
  <2>6. MembersRefer' /\ InvitesRefer'
    BY <1>0, <2>1, <2>3, <2>5, CutRefers DEF TablesInv
  <2>7. CurrentsRefer'
    BY <2>2 DEF Sound, CurrentsRefer
  <2>8. CodesRefer'
    BY <2>3, <2>4, SameKept, RefsKept
  <2>9. QED
    BY <2>6, <2>7, <2>8 DEF RefsInv
<1>7. ASSUME InvitesAnew
      PROVE  RefsInv'
  <2>1. PICK n \in Invites, o \in Orgs, v \in Users, role \in Roles \ {"owner"},
             seen \in SUBSET Invites :
          /\ Row(db.orgs[o]) /\ db.invites[n] = Unborn
          /\ Fields(db', db.users, db.orgs, db.members, NewInvites(n, o, v, role, seen),
                    db.codes, db.tokens, db.traces)
    BY <1>7 DEF InvitesAnew
  <2>2. /\ db'.users = db.users /\ db'.orgs = db.orgs /\ db'.members = db.members
        /\ db'.codes = db.codes /\ db'.invites = NewInvites(n, o, v, role, seen)
    BY <2>1 DEF Fields
  <2>3. StayUsers /\ KeepUsers /\ KeepOrgs /\ KeepMembers /\ KeepCodes
    BY <2>2, SameKept
  <2>4. ASSUME NEW i \in Invites, Row(db'.invites[i])
        PROVE  Row(db'.orgs[db'.invites[i].org])
    <3>1. CASE i = n
      <4>0. i \notin Pending(o, v)
        BY <2>1, <3>1, NewRows DEF Pending
      <4>1. db'.invites[i].org = o
        BY <2>2, <3>1, <4>0 DEF NewInvites
      <4>2. QED
        BY <2>1, <2>2, <4>1
    <3>2. CASE i # n
      <4>1. Row(db.invites[i]) /\ db'.invites[i].org = db.invites[i].org
        <5>1. CASE i \in seen \cap Pending(o, v)
          <6>1. Row(db.invites[i]) /\ db.invites[i] \in InviteRows
            BY <1>0, <5>1, RowsAre DEF Pending
          <6>2. db'.invites[i] = [db.invites[i] EXCEPT !.status = "revoked"]
            BY <2>2, <3>2, <5>1 DEF NewInvites
          <6>3. QED
            BY <6>1, <6>2 DEF InviteRows
        <5>2. CASE i \notin seen \cap Pending(o, v)
          <6>1. db'.invites[i] = db.invites[i]
            BY <2>2, <3>2, <5>2 DEF NewInvites
          <6>2. QED
            BY <2>4, <6>1
        <5>3. QED
          BY <5>1, <5>2
      <4>2. QED
        BY <2>2, <4>1 DEF BaseInv, RefsInv, InvitesRefer
    <3>3. QED
      BY <3>1, <3>2
  <2>5. InvitesRefer'
    BY <2>4 DEF InvitesRefer, Row
  <2>6. QED
    BY <2>3, <2>5, RefsKept DEF RefsInv
<1>8. ASSUME EndsInvite
      PROVE  RefsInv'
  <2>1. PICK i \in Invites, status \in {"expired", "revoked"} :
          /\ Row(db.invites[i])
          /\ Fields(db', db.users, db.orgs, db.members,
                    [db.invites EXCEPT ![i] = [db.invites[i] EXCEPT !.status = status]],
                    db.codes, db.tokens, db.traces)
    BY <1>8 DEF EndsInvite
  <2>2. /\ db'.users = db.users /\ db'.orgs = db.orgs /\ db'.members = db.members
        /\ db'.codes = db.codes
        /\ db'.invites = [db.invites EXCEPT ![i] = [db.invites[i] EXCEPT !.status = status]]
    BY <2>1 DEF Fields
  <2>3. db.invites[i] \in InviteRows
    BY <1>0, <2>1, RowsAre
  <2>4. KeepInvites
    BY <1>0, <2>1, <2>2, <2>3 DEF KeepInvites, TablesInv, InviteRows
  <2>5. QED
    BY <1>q, <2>2, <2>4, SameKept
<1>9. ASSUME Accepts
      PROVE  RefsInv'
  <2>1. PICK i \in Invites :
          /\ Row(db.invites[i]) /\ Row(db.users[db.invites[i].user])
          /\ Fields(db', db.users, db.orgs,
                    [db.members EXCEPT ![db.invites[i].org] =
                       [db.members[db.invites[i].org] EXCEPT ![db.invites[i].user] =
                          db.invites[i].role]],
                    [db.invites EXCEPT ![i] = [db.invites[i] EXCEPT !.status = "accepted"]],
                    db.codes, db.tokens, db.traces)
    BY <1>9 DEF Accepts
  <2> DEFINE inv == db.invites[i]
  <2>2. inv \in InviteRows
    BY <1>0, <2>1, RowsAre
  <2>3. inv.org \in Orgs /\ inv.user \in Users
    BY <2>2 DEF InviteRows
  <2>4. Row(db.orgs[inv.org])
    BY <2>1 DEF BaseInv, RefsInv, InvitesRefer
  <2>5. /\ db'.users = db.users /\ db'.orgs = db.orgs /\ db'.codes = db.codes
        /\ db'.members = [db.members EXCEPT ![inv.org] =
                            [db.members[inv.org] EXCEPT ![inv.user] = inv.role]]
        /\ db'.invites = [db.invites EXCEPT ![i] = [inv EXCEPT !.status = "accepted"]]
    BY <2>1 DEF Fields
  <2>6. StayUsers /\ KeepUsers /\ KeepOrgs /\ KeepCodes
    BY <2>5, SameKept
  <2>7. MembersRefer'
    BY ZenonT(40), <2>1, <2>3, <2>4, <2>5, <2>6, MemberSet
  <2>8. KeepInvites
    <3> SUFFICES ASSUME NEW j \in Invites, Row(db'.invites[j])
                 PROVE  Row(db.invites[j]) /\ db'.invites[j].org = db.invites[j].org
      BY DEF KeepInvites
    <3>1. CASE j = i
      <4>1. db'.invites[i] = [inv EXCEPT !.status = "accepted"]
        BY <1>0, <2>5 DEF TablesInv
      <4>2. [inv EXCEPT !.status = "accepted"].org = inv.org
        BY <2>2 DEF InviteRows
      <4> QED
        BY <2>1, <3>1, <4>1, <4>2
    <3>2. CASE j # i
      <4>1. db'.invites[j] = db.invites[j]
        BY <1>0, <2>5, <3>2 DEF TablesInv
      <4> QED
        BY <4>1 DEF Row
    <3> QED
      BY <3>1, <3>2
  <2>9. QED
    BY <2>6, <2>7, <2>8, RefsKept DEF RefsInv
<1>10. ASSUME Lands
       PROVE  RefsInv'
  <2>1. PICK u \in Users, o \in Orgs :
          /\ Row(db.users[u]) /\ Row(db.orgs[o])
          /\ Fields(db', [db.users EXCEPT ![u] = [db.users[u] EXCEPT !.org = o]], db.orgs,
                    db.members, db.invites, db.codes, db.tokens, db.traces)
    BY <1>10 DEF Lands
  <2> DEFINE row == [db.users[u] EXCEPT !.org = o]
  <2>2. /\ db'.users = [db.users EXCEPT ![u] = row] /\ db'.orgs = db.orgs
        /\ db'.members = db.members /\ db'.invites = db.invites /\ db'.codes = db.codes
    BY <2>1 DEF Fields
  <2>3. db.users[u] \in UserRows /\ row \in UserRows
    BY <1>0, <2>1, RowsAre, RowUpdates
  <2>4. Row(row) /\ row.org = o
    BY <2>3, NewRows DEF UserRows
  <2> HIDE DEF row
  <2>5. \A v \in Users : db'.users[v] = IF v = u THEN row ELSE db.users[v]
    BY <1>0, <2>2 DEF TablesInv
  <2>6. StayUsers
    BY <2>4, <2>5 DEF StayUsers
  <2>7. ASSUME NEW v \in Users, Row(db'.users[v])
        PROVE  Row(db'.orgs[db'.users[v].org])
    BY <2>1, <2>2, <2>4, <2>5, <2>7 DEF BaseInv, RefsInv, CurrentsRefer
  <2>8. CurrentsRefer'
    BY <2>7 DEF CurrentsRefer, Row
  <2>9. QED
    BY <2>2, <2>6, <2>8, SameKept, RefsKept DEF RefsInv
<1>11. ASSUME Downgrades \/ EndsTrial \/ StartsTrial \/ Retypes
       PROVE  RefsInv'
  <2>1. PICK u \in Users, row \in UserRows :
          /\ Row(db.users[u]) /\ row.org = db.users[u].org
          /\ db'.users = [db.users EXCEPT ![u] = row]
    <3>1. ASSUME Downgrades \/ EndsTrial
          PROVE  \E u \in Users, row \in UserRows :
                   /\ Row(db.users[u]) /\ row.org = db.users[u].org
                   /\ db'.users = [db.users EXCEPT ![u] = row]
      <4>1. PICK u \in Users :
              /\ Row(db.users[u])
              /\ \/ db'.users = [db.users EXCEPT ![u] =
                                   [db.users[u] EXCEPT !.type = "Free", !.trial = "none"]]
                 \/ db'.users = [db.users EXCEPT ![u] = [db.users[u] EXCEPT !.trial = "over"]]
        BY <3>1 DEF Downgrades, EndsTrial, Fields
      <4>2. db.users[u] \in UserRows
        BY <1>0, <4>1, RowsAre
      <4>3. /\ [db.users[u] EXCEPT !.type = "Free", !.trial = "none"] \in UserRows
            /\ [db.users[u] EXCEPT !.trial = "over"] \in UserRows
        BY <4>2, RowUpdates
      <4>4. /\ [db.users[u] EXCEPT !.type = "Free", !.trial = "none"].org = db.users[u].org
            /\ [db.users[u] EXCEPT !.trial = "over"].org = db.users[u].org
        BY <4>2 DEF UserRows
      <4>5. QED
        BY <4>1, <4>3, <4>4
    <3>2. ASSUME StartsTrial
          PROVE  \E u \in Users, row \in UserRows :
                   /\ Row(db.users[u]) /\ row.org = db.users[u].org
                   /\ db'.users = [db.users EXCEPT ![u] = row]
      <4>0. PICK r \in Requests, u \in Users, plan \in Tiers :
              /\ Goes(r, "starting", "done", Unborn) /\ known[r].user = u
              /\ Fields(db', [db.users EXCEPT ![u] =
                   [db.users[u] EXCEPT !.type = plan, !.trial = "running", !.used = TRUE]],
                   db.orgs, db.members, db.invites, db.codes, db.tokens, db.traces)
        BY <3>2 DEF StartsTrial
      <4>1. /\ at[r] = "starting" /\ known[r].user = u
            /\ db'.users = [db.users EXCEPT ![u] =
                 [db.users[u] EXCEPT !.type = plan, !.trial = "running", !.used = TRUE]]
        BY <4>0 DEF Goes, Fields
      <4>2. Row(db.users[u])
        BY <4>1 DEF TrialsInv, At, Startable
      <4> DEFINE row == [db.users[u] EXCEPT !.type = plan, !.trial = "running", !.used = TRUE]
      <4>3. db.users[u] \in UserRows /\ row \in UserRows
        BY <1>0, <4>0, <4>2, RowsAre, RowUpdates
      <4>4. row.org = db.users[u].org
        BY <4>3 DEF UserRows
      <4> HIDE DEF row
      <4>5. QED
        BY <4>0, <4>1, <4>2, <4>3, <4>4 DEF row
    <3>3. ASSUME Retypes
          PROVE  \E u \in Users, row \in UserRows :
                   /\ Row(db.users[u]) /\ row.org = db.users[u].org
                   /\ db'.users = [db.users EXCEPT ![u] = row]
      <4>1. PICK u \in Users, type \in Tiers :
              /\ Row(db.users[u])
              /\ db'.users = [db.users EXCEPT ![u] = [db.users[u] EXCEPT !.type = type]]
        BY <3>3 DEF Retypes, Fields
      <4> DEFINE row == [db.users[u] EXCEPT !.type = type]
      <4>2. db.users[u] \in UserRows /\ row \in UserRows
        BY <1>0, <4>1, RowsAre, RowUpdates
      <4>3. row.org = db.users[u].org
        BY <4>2 DEF UserRows
      <4> HIDE DEF row
      <4>4. QED
        BY <4>1, <4>2, <4>3 DEF row
    <3>4. QED
      BY <1>11, <3>1, <3>2, <3>3
  <2>2. StayUsers /\ KeepUsers
    BY <1>0, <2>1, UserRowKept
  <2>3. /\ db'.members = db.members /\ db'.invites = db.invites /\ db'.codes = db.codes
    BY <1>11 DEF Downgrades, EndsTrial, StartsTrial, Retypes, Fields
  <2>4. KeepOrgs
    <3>1. ASSUME Downgrades \/ EndsTrial \/ StartsTrial
          PROVE  KeepOrgs
      <4>1. db'.orgs = db.orgs
        BY <3>1 DEF Downgrades, EndsTrial, StartsTrial, Fields
      <4>2. QED
        BY <4>1, SameKept
    <3>2. ASSUME Retypes
          PROVE  KeepOrgs
      <4>1. PICK w \in Users, type \in Tiers :
              /\ Row(db.users[w])
              /\ db'.orgs = [db.orgs EXCEPT ![db.users[w].org] =
                   [db.orgs[db.users[w].org] EXCEPT !.limit = ApiKeyLimits[type]]]
        BY <3>2 DEF Retypes, Fields
      <4> DEFINE o == db.users[w].org
                 limit == ApiKeyLimits[type]
      <4>2. db.users[w] \in UserRows
        BY <1>0, <4>1, RowsAre
      <4>3. o \in Orgs
        BY <4>2 DEF UserRows
      <4>4. Row(db.orgs[o]) /\ limit \in Nat
        BY <4>1, NewRows DEF BaseInv, RefsInv, CurrentsRefer
      <4>5. db'.orgs = [db.orgs EXCEPT ![o] = [db.orgs[o] EXCEPT !.limit = limit]]
        BY <4>1
      <4> HIDE DEF o, limit
      <4>6. [db.orgs[o] EXCEPT !.limit = limit] \in OrgRows
        BY <1>0, <4>3, <4>4, RowsAre, RowUpdates
      <4>7. QED
        BY <1>0, <4>3, <4>5, <4>6, OrgRowKept
    <3>3. QED
      BY <1>11, <3>1, <3>2
  <2>5. QED
    BY <1>q, <2>2, <2>3, <2>4, SameKept
<1>12. ASSUME SetsOrg
       PROVE  RefsInv'
  <2>1. PICK o \in Orgs, row \in OrgRows :
          Fields(db', db.users, [db.orgs EXCEPT ![o] = row], db.members, db.invites,
                 db.codes, db.tokens, db.traces)
    BY <1>12 DEF SetsOrg
  <2>2. /\ db'.users = db.users /\ db'.members = db.members /\ db'.invites = db.invites
        /\ db'.codes = db.codes /\ db'.orgs = [db.orgs EXCEPT ![o] = row]
    BY <2>1 DEF Fields
  <2>3. QED
    BY <1>0, <1>q, <2>2, SameKept, OrgRowKept
<1>13. ASSUME Registers
       PROVE  RefsInv'
  <2>1. PICK u \in Users, o \in Orgs, t \in Tokens :
          /\ db.users[u] = Unborn /\ db.orgs[o] = Unborn
          /\ Fields(db', [db.users EXCEPT ![u] = NewUser(o)],
                    [db.orgs EXCEPT ![o] = NewOrg(u, NoPlan)],
                    [db.members EXCEPT ![o] = [db.members[o] EXCEPT ![u] = "owner"]],
                    db.invites, db.codes, [db.tokens EXCEPT ![t] = Session(u, o)],
                    db.traces \cup {o})
    BY <1>13 DEF Registers
  <2>2. NewOrg(u, NoPlan) \in OrgRows /\ NewUser(o) \in UserRows
    BY NewRows
  <2>3. /\ db'.users = [db.users EXCEPT ![u] = NewUser(o)]
        /\ db'.invites = db.invites /\ db'.codes = db.codes
        /\ db'.orgs = [db.orgs EXCEPT ![o] = NewOrg(u, NoPlan)]
        /\ db'.members = [db.members EXCEPT ![o] = [db.members[o] EXCEPT ![u] = "owner"]]
    BY <2>1 DEF Fields
  <2>4. Row(NewUser(o)) /\ Row(NewOrg(u, NoPlan)) /\ NewUser(o).org = o
    BY <2>2, NewRows DEF NewUser
  <2>5. /\ \A v \in Users : db'.users[v] = IF v = u THEN NewUser(o) ELSE db.users[v]
        /\ \A p \in Orgs : db'.orgs[p] = IF p = o THEN NewOrg(u, NoPlan) ELSE db.orgs[p]
    BY <1>0, <2>3 DEF TablesInv
  <2>6. KeepOrgs /\ StayUsers /\ KeepInvites /\ KeepCodes
    BY <2>3, <2>4, <2>5, SameKept DEF KeepOrgs, StayUsers
  <2>7. Row(db'.orgs[o]) /\ Row(db'.users[u])
    BY <2>4, <2>5
  <2>8. MembersRefer'
    BY <2>3, <2>6, <2>7, MemberSet
  <2>9. ASSUME NEW v \in Users, Row(db'.users[v])
        PROVE  Row(db'.orgs[db'.users[v].org])
    <3>1. CASE v = u
      BY <2>4, <2>5, <3>1
    <3>2. CASE v # u
      <4>1. db'.users[v] = db.users[v] /\ Row(db.users[v])
        BY <2>5, <2>9, <3>2
      <4>2. db.users[v] \in UserRows
        BY <1>0, <4>1, RowsAre
      <4>3. db.users[v].org \in Orgs
        BY <4>2 DEF UserRows
      <4>4. QED
        BY <2>6, <4>1, <4>3 DEF KeepOrgs, BaseInv, RefsInv, CurrentsRefer
    <3>3. QED
      BY <3>1, <3>2
  <2>10. CurrentsRefer'
    BY <2>9 DEF CurrentsRefer, Row
  <2>11. QED
    BY <2>6, <2>8, <2>10, RefsKept DEF RefsInv
<1>14. ASSUME ResetsAnew
       PROVE  RefsInv'
  <2>1. PICK n \in Codes, u \in Users, seen \in SUBSET Codes :
          /\ Row(db.users[u]) /\ db.codes[n] = Unborn
          /\ Fields(db', db.users, db.orgs, db.members, db.invites, NewCodes(n, u, seen),
                    db.tokens, db.traces)
    BY <1>14 DEF ResetsAnew
  <2>2. /\ db'.users = db.users /\ db'.orgs = db.orgs /\ db'.members = db.members
        /\ db'.invites = db.invites /\ db'.codes = NewCodes(n, u, seen)
    BY <2>1 DEF Fields
  <2>3. ASSUME NEW c \in Codes, Row(db'.codes[c])
        PROVE  Row(db'.users[db'.codes[c].user])
    <3>1. CASE c = n
      <4>0. c \notin Live(u)
        BY <2>1, <3>1, NewRows DEF Live
      <4>1. db'.codes[c].user = u
        BY <2>2, <3>1, <4>0 DEF NewCodes
      <4>2. QED
        BY <2>1, <2>2, <4>1
    <3>2. CASE c # n
      <4>1. Row(db.codes[c]) /\ db'.codes[c].user = db.codes[c].user
        <5>1. CASE c \in seen \cap Live(u)
          <6>1. Row(db.codes[c]) /\ db.codes[c] \in CodeRows
            BY <1>0, <5>1, RowsAre DEF Live
          <6>2. db'.codes[c] = [db.codes[c] EXCEPT !.status = "used"]
            BY <2>2, <3>2, <5>1 DEF NewCodes
          <6>3. QED
            BY <6>1, <6>2 DEF CodeRows
        <5>2. CASE c \notin seen \cap Live(u)
          <6>1. db'.codes[c] = db.codes[c]
            BY <2>2, <3>2, <5>2 DEF NewCodes
          <6>2. QED
            BY <2>3, <6>1
        <5>3. QED
          BY <5>1, <5>2
      <4>2. QED
        BY <2>2, <4>1 DEF BaseInv, RefsInv, CodesRefer
    <3>3. QED
      BY <3>1, <3>2
  <2>4. CodesRefer'
    BY <2>3 DEF CodesRefer, Row
  <2>5. QED
    BY <2>2, <2>4, SameKept, RefsKept DEF RefsInv
<1>15. ASSUME Consumes \/ EndsCode
       PROVE  RefsInv'
  <2>1. PICK c \in Codes, status \in {"expired", "used"} :
          /\ Row(db.codes[c])
          /\ Fields(db', db.users, db.orgs, db.members, db.invites,
                    [db.codes EXCEPT ![c] = [db.codes[c] EXCEPT !.status = status]],
                    db.tokens, db.traces)
    BY <1>15 DEF Consumes, EndsCode
  <2>2. /\ db'.users = db.users /\ db'.orgs = db.orgs /\ db'.members = db.members
        /\ db'.invites = db.invites
        /\ db'.codes = [db.codes EXCEPT ![c] = [db.codes[c] EXCEPT !.status = status]]
    BY <2>1 DEF Fields
  <2>3. db.codes[c] \in CodeRows
    BY <1>0, <2>1, RowsAre
  <2>4. KeepCodes
    BY <1>0, <2>1, <2>2, <2>3 DEF KeepCodes, TablesInv, CodeRows
  <2>5. QED
    BY <1>q, <2>2, <2>4, SameKept
<1>16. ASSUME Unregisters
       PROVE  RefsInv'
  <2>1. PICK u \in Users, o \in Orgs :
          /\ Fields(db', [db.users EXCEPT ![u] = Gone], [db.orgs EXCEPT ![o] = Gone],
                    CutMembers([p \in Orgs |-> [db.members[p] EXCEPT ![u] = NoRole]], o),
                    CutInvites(db.invites, o),
                    [c \in Codes |-> IF Row(db.codes[c]) /\ db.codes[c].user = u
                                       THEN Gone ELSE db.codes[c]],
                    db.tokens, db.traces)
          /\ Sound(db')
    BY <1>16 DEF Unregisters
  <2> DEFINE m == [p \in Orgs |-> [db.members[p] EXCEPT ![u] = NoRole]]
  <2>2. /\ db'.users = [db.users EXCEPT ![u] = Gone]
        /\ db'.orgs = [db.orgs EXCEPT ![o] = Gone]
        /\ db'.members = CutMembers(m, o) /\ db'.invites = CutInvites(db.invites, o)
        /\ db'.codes = [c \in Codes |-> IF Row(db.codes[c]) /\ db.codes[c].user = u
                                          THEN Gone ELSE db.codes[c]]
    BY <2>1 DEF Fields
  <2>3. \A v \in Users : v # u => db'.users[v] = db.users[v]
    BY <1>0, <2>2 DEF TablesInv
  <2>4. \A p \in Orgs, v \in Users :
          m[p][v] # NoRole => db.members[p][v] # NoRole /\ Row(db'.users[v])
    <3>1. \A p \in Orgs, v \in Users :
            m[p][v] = IF v = u THEN NoRole ELSE db.members[p][v]
      BY <1>0 DEF TablesInv
    <3> HIDE DEF m
    <3>2. QED
      BY <2>3, <3>1 DEF BaseInv, RefsInv, MembersRefer
  <2>5. m \in [Orgs -> [Users -> Roles \cup {NoRole}]]
    BY <1>0 DEF TablesInv
  <2> HIDE DEF m
  <2>6. MembersRefer' /\ InvitesRefer'
    BY <2>1, <2>2, <2>4, <2>5, CutRefers
  <2>7. CurrentsRefer'
    BY <2>1 DEF Sound, CurrentsRefer
  <2>8. ASSUME NEW c \in Codes, Row(db'.codes[c])
        PROVE  Row(db'.users[db'.codes[c].user])
    <3>1. Row(db.codes[c]) /\ db.codes[c].user # u /\ db'.codes[c] = db.codes[c]
      BY <2>2, <2>8, NewRows
    <3>2. db.codes[c] \in CodeRows
      BY <1>0, <3>1, RowsAre
    <3>3. db.codes[c].user \in Users
      BY <3>2 DEF CodeRows
    <3>4. QED
      BY <2>3, <3>1, <3>3 DEF BaseInv, RefsInv, CodesRefer
  <2>9. CodesRefer'
    BY <2>8 DEF CodesRefer, Row
  <2>10. QED
    BY <2>6, <2>7, <2>9 DEF RefsInv
<1>17. QED
  BY <1>1, <1>2, <1>3, <1>4, <1>5, <1>6, <1>7, <1>8, <1>9, <1>10, <1>11, <1>12, <1>13,
     <1>14, <1>15, <1>16 DEF Forms


-----------------------------------------------------------------------------
(* One trial for each account.                                              *)

\* What happens to the accounts leaves the trials alone.
TrialsQuiet ==
  /\ \A u \in Users : Untried(u)' => Untried(u)
  /\ \A u \in Users : Locked(u) => Startable(u)'

LEMMA TrialsKept ==
  ASSUME BaseInv, TrialsInv, TrialsQuiet, NoneEnters("starting"),
         \A u \in Users : uses'[u] = uses[u]
  PROVE  TrialsInv'
<1>1. \A u \in Users : uses'[u] <= 1 /\ (Untried(u)' => uses'[u] = 0)
  BY DEF TrialsInv, TrialsQuiet
<1>2. ASSUME NEW r \in Requests, at'[r] = "starting"
      PROVE  Startable(known[r].user)' /\ at[r] = "starting" /\ known'[r] = known[r]
  <2>1. at[r] = "starting" /\ known'[r] = known[r]
    BY <1>2 DEF NoneEnters
  <2>2. known[r].user \in Users /\ Locked(known[r].user)
    BY <2>1, Known DEF Locked, At
  <2>3. Startable(known[r].user)'
    <3>1. \A u \in Users : Locked(u) => Startable(u)'
      BY DEF TrialsQuiet
    <3>2. PICK u \in Users : u = known[r].user
      BY <2>2
    <3>3. Startable(u)'
      BY <2>2, <3>1, <3>2
    <3>4. known'[r].user = u
      BY <2>1, <3>2
    <3>5. QED
      BY <3>3, <3>4 DEF Startable, Row
  <2>4. QED
    BY <2>1, <2>3
<1>3. \A q, r \in Requests :
        at'[q] = "starting" /\ at'[r] = "starting" /\ known'[q].user = known'[r].user => q = r
  BY <1>2 DEF TrialsInv, At
<1>4. QED
  BY <1>1, <1>2, <1>3 DEF TrialsInv, At

LEMMA SameTrials ==
  ASSUME BaseInv, TrialsInv, db'.users = db.users
  PROVE  TrialsQuiet
<1>1. \A u \in Users : Untried(u)' => Untried(u)
  BY DEF Untried, Row
<1>2. ASSUME NEW u \in Users, Locked(u)
      PROVE  Startable(u)'
  BY <1>2 DEF Locked, TrialsInv, Startable, Row
<1>3. QED
  BY <1>1, <1>2 DEF TrialsQuiet

\* Rows of users are written that keep what trials depend on.
LEMMA RowsTried ==
  ASSUME BaseInv, TrialsInv,
         \A u \in Users :
           \/ db'.users[u] = db.users[u]
           \/ /\ Row(db.users[u]) /\ Row(db'.users[u])
              /\ db.users[u].used => db'.users[u].used
              /\ Locked(u) => db'.users[u].type = "Free" /\ ~db'.users[u].used
  PROVE  TrialsQuiet
<1>1. ASSUME NEW u \in Users, Untried(u)'
      PROVE  Untried(u)
  BY <1>1 DEF Untried, Row
<1>2. ASSUME NEW u \in Users, Locked(u)
      PROVE  Startable(u)'
  <2>1. Startable(u)
    BY <1>2 DEF Locked, TrialsInv
  <2>2. QED
    BY <1>2, <2>1 DEF Startable, Row
<1>3. QED
  BY <1>1, <1>2 DEF TrialsQuiet

LEMMA LockedFree ==
  ASSUME TrialsInv, NEW u, Locked(u)
  PROVE  Row(db.users[u]) /\ db.users[u].type = "Free" /\ ~db.users[u].used
BY DEF Locked, TrialsInv, Startable

\* The fields that each way of writing a user keeps.
LEMMA UserFields ==
  ASSUME NEW row \in UserRows, NEW x
  PROVE  /\ [row EXCEPT !.org = x].type = row.type
         /\ [row EXCEPT !.org = x].used <=> row.used
         /\ [row EXCEPT !.org = x].trial = row.trial
         /\ [row EXCEPT !.org = x].org = x
         /\ [row EXCEPT !.trial = x].type = row.type
         /\ [row EXCEPT !.trial = x].used <=> row.used
         /\ [row EXCEPT !.type = x].type = x
         /\ [row EXCEPT !.type = x].used <=> row.used
         /\ [row EXCEPT !.type = "Free", !.trial = "none"].type = "Free"
         /\ [row EXCEPT !.type = "Free", !.trial = "none"].used <=> row.used
         /\ [row EXCEPT !.type = x, !.trial = "running", !.used = TRUE].used
         /\ [row EXCEPT !.type = x, !.trial = "running", !.used = TRUE].type = x
BY DEF UserRows


-----------------------------------------------------------------------------
(* What the forms leave alone.                                              *)

\* Which of them write a table.
LEMMA Written ==
  ASSUME Forms
  PROVE  /\ \/ db'.users = db.users
            \/ Leaves \/ DeletesOrg \/ Lands \/ Downgrades \/ StartsTrial \/ EndsTrial
            \/ Retypes \/ Registers \/ Unregisters
         /\ \/ db'.orgs = db.orgs
            \/ Founds \/ Transfers \/ DeletesOrg \/ Retypes \/ SetsOrg \/ Registers
            \/ Unregisters
         /\ \/ db'.members = db.members
            \/ Founds \/ SetsRole \/ Transfers \/ Leaves \/ DeletesOrg \/ Accepts
            \/ Registers \/ Unregisters
         /\ \/ db'.invites = db.invites
            \/ DeletesOrg \/ InvitesAnew \/ EndsInvite \/ Accepts \/ Unregisters
         /\ \/ db'.codes = db.codes
            \/ ResetsAnew \/ Consumes \/ EndsCode \/ Unregisters
         /\ \/ db'.tokens = db.tokens
            \/ Mints \/ Registers \/ Rotates \/ EndsToken
         /\ \/ db'.traces = db.traces
            \/ Founds \/ Purges \/ Registers \/ DropsTraces
<1>1. CASE Reads \/ ChangesPassword \/ IsRefused
  BY <1>1 DEF Reads, ChangesPassword, IsRefused
<1>2. CASE Founds
  BY <1>2 DEF Founds, Fields
<1>3. CASE SetsRole
  BY <1>3 DEF SetsRole, Fields
<1>4. CASE Transfers
  BY <1>4 DEF Transfers, Fields
<1>5. CASE Leaves
  BY <1>5 DEF Leaves, Fields
<1>6. CASE DeletesOrg
  BY <1>6 DEF DeletesOrg, Fields
<1>7. CASE Purges
  BY <1>7 DEF Purges, Fields
<1>8. CASE InvitesAnew
  BY <1>8 DEF InvitesAnew, Fields
<1>9. CASE EndsInvite
  BY <1>9 DEF EndsInvite, Fields
<1>10. CASE Accepts
  BY <1>10 DEF Accepts, Fields
<1>11. CASE Lands
  BY <1>11 DEF Lands, Fields
<1>12. CASE Mints
  BY <1>12 DEF Mints, Fields
<1>13. CASE Downgrades
  BY <1>13 DEF Downgrades, Fields
<1>14. CASE StartsTrial
  BY <1>14 DEF StartsTrial, Fields
<1>15. CASE EndsTrial
  BY <1>15 DEF EndsTrial, Fields
<1>16. CASE Retypes
  BY <1>16 DEF Retypes, Fields
<1>17. CASE SetsOrg
  BY <1>17 DEF SetsOrg, Fields
<1>18. CASE Registers
  BY <1>18 DEF Registers, Fields
<1>19. CASE Rotates
  BY <1>19 DEF Rotates, Fields
<1>20. CASE EndsToken
  BY <1>20 DEF EndsToken, Fields
<1>21. CASE ResetsAnew
  BY <1>21 DEF ResetsAnew, Fields
<1>22. CASE Consumes
  BY <1>22 DEF Consumes, Fields
<1>23. CASE DropsTraces
  BY <1>23 DEF DropsTraces, Fields
<1>24. CASE Unregisters
  BY <1>24 DEF Unregisters, Fields
<1>25. CASE EndsCode
  BY <1>25 DEF EndsCode, Fields
<1>26. QED
  BY <1>1, <1>2, <1>3, <1>4, <1>5, <1>6, <1>7, <1>8, <1>9, <1>10, <1>11, <1>12, <1>13,
     <1>14, <1>15, <1>16, <1>17, <1>18, <1>19, <1>20, <1>21, <1>22, <1>23, <1>24, <1>25 DEF Forms

\* Which of them bring a request to a stage, or take it away from one.
Comings ==
  /\ Reads \/ (NoneEnters("starting") /\ NoneEnters("rotating"))
  /\ Consumes \/ NoneEnters("changing")
  /\ DeletesOrg \/ NoneEnters("purging")
  /\ Unregisters \/ IsRefused \/ NoneLeaves("unregistering")

LEMMA Coming ==
  ASSUME StandsInv, Forms
  PROVE  Comings
<1>1. ASSUME Quits
      PROVE  Comings
  <2>1. /\ NoneEnters("starting") /\ NoneEnters("rotating") /\ NoneEnters("changing")
        /\ NoneEnters("purging") /\ NoneLeaves("unregistering")
    BY <1>1, QuitsElsewhere
  <2>2. QED
    BY <2>1 DEF Comings
<1>2. ASSUME NEW r \in Requests, NEW p, NEW s, NEW k, Goes(r, p, s, k),
             s \notin {"starting", "rotating"},
             Consumes \/ s # "changing", DeletesOrg \/ s # "purging",
             Unregisters \/ IsRefused \/ p # "unregistering"
      PROVE  Comings
  <2>1. NoneEnters("starting") /\ NoneEnters("rotating")
    BY <1>2, GoesElsewhere
  <2>2. Consumes \/ NoneEnters("changing")
    BY <1>2, GoesElsewhere
  <2>3. DeletesOrg \/ NoneEnters("purging")
    BY <1>2, GoesElsewhere
  <2>4. Unregisters \/ IsRefused \/ NoneLeaves("unregistering")
    BY <1>2, GoesElsewhere
  <2>5. QED
    BY <2>1, <2>2, <2>3, <2>4 DEF Comings
<1>3. CASE Founds \/ SetsRole \/ Transfers \/ Leaves \/ Purges \/ InvitesAnew
           \/ EndsInvite \/ Mints \/ Downgrades \/ EndsTrial \/ SetsOrg \/ Registers
           \/ EndsToken \/ ResetsAnew \/ EndsCode
  <2>1. Quits
    BY ZenonT(60), <1>3 DEF Quits, Founds, SetsRole, Transfers, Leaves, Purges, InvitesAnew, EndsInvite, Mints, Downgrades,
       EndsTrial, SetsOrg, Registers, EndsToken, ResetsAnew, EndsCode
  <2>2. QED
    BY <1>1, <2>1
<1>4. CASE DeletesOrg
  <2>1. PICK r \in Requests : \E k : Goes(r, "relocating", "purging", k)
    BY <1>4 DEF DeletesOrg
  <2>2. QED
    BY <1>2, <1>4, <2>1
<1>5. CASE Accepts
  <2>1. PICK r \in Requests : \E k : Goes(r, "organization", "landing", k)
    BY <1>5 DEF Accepts
  <2>2. QED
    BY <1>2, <1>5, <2>1
<1>6. CASE Lands
  <2>1. PICK r \in Requests : \E k : Goes(r, "landing", "minting", k)
    BY <1>6 DEF Lands
  <2>2. QED
    BY <1>2, <1>6, <2>1
<1>7. CASE StartsTrial
  <2>1. PICK r \in Requests : \E k : Goes(r, "starting", "done", k)
    BY <1>7 DEF StartsTrial
  <2>2. QED
    BY <1>2, <1>7, <2>1
<1>8. CASE Retypes
  <2>1. PICK r \in Requests : \E k : Goes(r, "plan", "done", k)
    BY <1>8 DEF Retypes
  <2>2. QED
    BY <1>2, <1>8, <2>1
<1>9. CASE Rotates
  <2>1. PICK r \in Requests : \E k : Goes(r, "rotating", "done", k)
    BY <1>9 DEF Rotates
  <2>2. QED
    BY <1>2, <1>9, <2>1
<1>10. CASE Consumes
  <2>1. PICK r \in Requests : \E k : Goes(r, "consuming", "changing", k)
    BY <1>10 DEF Consumes
  <2>2. QED
    BY <1>2, <1>10, <2>1
<1>11. CASE ChangesPassword
  <2>1. PICK r \in Requests : \E k : Goes(r, "changing", "done", k)
    BY <1>11 DEF ChangesPassword
  <2>2. QED
    BY <1>2, <1>11, <2>1
<1>12. CASE DropsTraces
  <2>1. PICK r \in Requests : \E k : Goes(r, "session", "unregistering", k)
    BY <1>12 DEF DropsTraces
  <2>2. QED
    BY <1>2, <1>12, <2>1
<1>13. CASE Unregisters
  <2>1. PICK r \in Requests : \E k : Goes(r, "unregistering", "done", k)
    BY <1>13 DEF Unregisters
  <2>2. QED
    BY <1>2, <1>13, <2>1
<1>14. CASE IsRefused
  <2>1. PICK r \in Requests : \E k : Goes(r, "unregistering", "done", k)
    BY <1>14 DEF IsRefused
  <2>2. QED
    BY <1>2, <1>14, <2>1
<1>15. CASE Reads
  <2>1. PICK r \in Requests : \E p, s, k :
          /\ Goes(r, p, s, k) /\ p # "unregistering"
          /\ s \notin {"changing", "purging", "unregistering"}
    BY <1>15 DEF Reads
  <2>2. PICK p, s, k : /\ Goes(r, p, s, k) /\ p # "unregistering"
                      /\ s \notin {"changing", "purging", "unregistering"}
    BY <2>1
  <2>3. NoneEnters("changing") /\ NoneEnters("purging") /\ NoneLeaves("unregistering")
    BY <2>2, GoesElsewhere
  <2>4. QED
    BY <1>15, <2>3 DEF Comings
<1>16. QED
  BY <1>3, <1>4, <1>5, <1>6, <1>7, <1>8, <1>9, <1>10, <1>11, <1>12, <1>13, <1>14, <1>15 DEF Forms

\* Which of them count a use.
LEMMA Counted ==
  ASSUME StandsInv, Forms
  PROVE  /\ StartsTrial \/ \A u \in Users : uses'[u] = uses[u]
         /\ ChangesPassword \/ \A c \in Codes : uses'[c] = uses[c]
         /\ Rotates \/ \A t \in Tokens : uses'[t] = uses[t]
<1>1. CASE Reads \/ Founds \/ SetsRole \/ Transfers \/ Leaves \/ DeletesOrg \/ Purges
           \/ InvitesAnew \/ EndsInvite \/ Accepts \/ Lands \/ Mints \/ Downgrades
           \/ EndsTrial \/ Retypes \/ SetsOrg \/ Registers \/ EndsToken \/ ResetsAnew
           \/ Consumes \/ DropsTraces \/ Unregisters \/ IsRefused \/ EndsCode
  <2>1. uses' = uses
    BY ZenonT(40), <1>1 DEF Reads, Founds, SetsRole, Transfers, Leaves, DeletesOrg, Purges, InvitesAnew,
       EndsInvite, Accepts, Lands, Mints, Downgrades, EndsTrial, Retypes, SetsOrg,
       Registers, EndsToken, ResetsAnew, Consumes, DropsTraces, Unregisters, IsRefused, EndsCode
  <2>2. QED
    BY <2>1
<1>2. CASE StartsTrial
  <2>1. PICK u \in Users : uses' = [uses EXCEPT ![u] = uses[u] + 1]
    BY <1>2 DEF StartsTrial
  <2>2. \A x \in Codes \cup Tokens : x # u
    BY <2>1, IdentifiersAssumption
  <2>3. QED
    BY <1>2, <2>1, <2>2 DEF StandsInv
<1>3. CASE Rotates
  <2>1. PICK t \in Tokens : uses' = [uses EXCEPT ![t] = uses[t] + 1]
    BY <1>3 DEF Rotates
  <2>2. \A x \in Users \cup Codes : x # t
    BY <2>1, IdentifiersAssumption
  <2>3. QED
    BY <1>3, <2>1, <2>2 DEF StandsInv
<1>4. CASE ChangesPassword
  <2>1. PICK c \in Codes, n \in {0, 1} : uses' = [uses EXCEPT ![c] = uses[c] + n]
    BY <1>4 DEF ChangesPassword
  <2>2. \A x \in Users \cup Tokens : x # c
    BY <2>1, IdentifiersAssumption
  <2>3. QED
    BY <1>4, <2>1, <2>2 DEF StandsInv
<1>5. QED
  BY <1>1, <1>2, <1>3, <1>4 DEF Forms

\* No slip is forgotten.
LEMMA SlipsGrow ==
  ASSUME Forms
  PROVE  slips \subseteq slips'
<1>1. CASE Reads \/ Founds \/ Purges \/ EndsInvite \/ Mints \/ StartsTrial
           \/ EndsTrial \/ Retypes \/ SetsOrg \/ Registers \/ EndsToken \/ Consumes
           \/ ChangesPassword \/ DropsTraces \/ EndsCode
  BY <1>1 DEF Reads, Founds, Purges, EndsInvite, Mints, StartsTrial, EndsTrial,
     Retypes, SetsOrg, Registers, EndsToken, Consumes, ChangesPassword, DropsTraces, EndsCode
<1>2. CASE SetsRole \/ Transfers \/ Leaves \/ InvitesAnew \/ Accepts \/ Lands
           \/ Downgrades \/ Rotates \/ ResetsAnew \/ Unregisters \/ IsRefused
  BY ZenonT(40), <1>2 DEF SetsRole, Transfers, Leaves, InvitesAnew, Accepts, Lands, Downgrades, Rotates,
     ResetsAnew, Unregisters, IsRefused
<1>3. CASE DeletesOrg
  BY <1>3 DEF DeletesOrg
<1>4. QED
  BY <1>1, <1>2, <1>3 DEF Forms


-----------------------------------------------------------------------------
(* The trials, step by step.                                                *)

LEMMA RowTried ==
  ASSUME BaseInv, TrialsInv, NEW u \in Users, Row(db.users[u]), NEW row \in UserRows,
         db.users[u].used => row.used, Locked(u) => row.type = "Free" /\ ~row.used,
         db'.users = [db.users EXCEPT ![u] = row]
  PROVE  TrialsQuiet
<1>1. Row(row)
  BY NewRows
<1>2. \A v \in Users : db'.users[v] = IF v = u THEN row ELSE db.users[v]
  BY DEF BaseInv, TablesInv
<1>3. QED
  BY <1>1, <1>2, RowsTried

\* A request comes to the start of a trial that no other one is at.
LEMMA StartingRead ==
  ASSUME BaseInv, TrialsInv, Reads
  PROVE  TrialsInv'
<1>1. PICK r \in Requests : \E p, s, k :
        /\ Goes(r, p, s, k)
        /\ s = "starting" => Startable(k.user) /\ ~Locked(k.user)
        /\ UNCHANGED <<db, uses, slips>>
  BY DEF Reads
<1>2. PICK p, s, k :
        /\ Goes(r, p, s, k)
        /\ s = "starting" => Startable(k.user) /\ ~Locked(k.user)
        /\ UNCHANGED <<db, uses, slips>>
  BY <1>1
<1>3. StandsInv
  BY DEF BaseInv
<1>4. CASE s # "starting"
  <2>1. NoneEnters("starting")
    BY <1>2, <1>3, <1>4, GoesElsewhere
  <2>2. QED
    BY <1>2, <2>1, SameTrials, TrialsKept
<1>5. CASE s = "starting"
  <2>1. \A q \in Requests :
          IF q = r THEN at'[q] = "starting" /\ known'[q] = k
                   ELSE at'[q] = at[q] /\ known'[q] = known[q]
    BY <1>2, <1>3, <1>5 DEF Goes, StandsInv
  <2>2. \A u \in Users : uses'[u] <= 1 /\ (Untried(u)' => uses'[u] = 0)
    BY <1>2 DEF TrialsInv, Untried, Row
  <2>3. \A q \in Requests : at'[q] = "starting" => Startable(known'[q].user)
    BY <1>2, <1>5, <2>1 DEF TrialsInv, At
  <2>4. \A q \in Requests : q # r /\ at[q] = "starting" => known[q].user # k.user
    BY <1>2, <1>5 DEF Locked, At
  <2>5. \A q, w \in Requests :
          at'[q] = "starting" /\ at'[w] = "starting" /\ known'[q].user = known'[w].user
            => q = w
    BY <2>1, <2>4 DEF TrialsInv, At
  <2>6. \A q \in Requests : at'[q] = "starting" => Startable(known[q].user)'
    BY <1>2, <2>3 DEF Startable, Row
  <2>7. QED
    BY <2>2, <2>5, <2>6 DEF TrialsInv, At
<1>6. QED
  BY <1>4, <1>5

LEMMA TrialStarted ==
  ASSUME BaseInv, TrialsInv, StartsTrial
  PROVE  TrialsInv'
<1>0. TablesInv /\ StandsInv
  BY DEF BaseInv
<1>1. PICK r \in Requests, u \in Users, plan \in Tiers :
        /\ Goes(r, "starting", "done", Unborn) /\ known[r].user = u
        /\ uses' = [uses EXCEPT ![u] = uses[u] + 1]
        /\ Fields(db', [db.users EXCEPT ![u] =
                          [db.users[u] EXCEPT !.type = plan, !.trial = "running",
                                              !.used = TRUE]],
                  db.orgs, db.members, db.invites, db.codes, db.tokens, db.traces)
  BY DEF StartsTrial
<1> DEFINE row == [db.users[u] EXCEPT !.type = plan, !.trial = "running", !.used = TRUE]
<1>2. at[r] = "starting"
  BY <1>1 DEF Goes
<1>3. Startable(u)
  BY <1>1, <1>2 DEF TrialsInv, At
<1>4. uses[u] = 0
  BY <1>3 DEF TrialsInv, Startable, Untried
<1>5. db.users[u] \in UserRows
  BY <1>0, <1>3, RowsAre DEF Startable
<1>6. row \in UserRows /\ row.used /\ Row(row)
  BY <1>1, <1>5, RowUpdates, UserFields, NewRows
<1>7. db'.users = [db.users EXCEPT ![u] = row]
  BY <1>1 DEF Fields
<1> HIDE DEF row
<1>8. \A v \in Users : db'.users[v] = IF v = u THEN row ELSE db.users[v]
  BY <1>0, <1>7 DEF TablesInv
<1>9. \A v \in Users : uses'[v] = IF v = u THEN 1 ELSE uses[v]
  BY <1>0, <1>1, <1>4 DEF StandsInv
<1>10. \A v \in Users : uses'[v] <= 1 /\ (Untried(v)' => uses'[v] = 0)
  <2>1. ~Untried(u)'
    BY <1>6, <1>8, NewRows DEF Untried, Row
  <2>2. QED
    BY <1>8, <1>9, <2>1 DEF TrialsInv, Untried, Row
<1>11. NoneEnters("starting") /\ at'[r] # "starting"
  BY <1>0, <1>1, GoesElsewhere DEF Goes, StandsInv
<1>12. \A q \in Requests : at'[q] = "starting" =>
         at[q] = "starting" /\ known'[q] = known[q] /\ known[q].user # u
  BY <1>1, <1>2, <1>11 DEF NoneEnters, TrialsInv, At
<1>13. ASSUME NEW q \in Requests, at'[q] = "starting"
       PROVE  Startable(known[q].user)'
  <2>1. at[q] = "starting" /\ known'[q] = known[q] /\ known[q].user # u
    BY <1>12, <1>13
  <2>2. known[q].user \in Users /\ Startable(known[q].user)
    BY <1>0, <2>1, Known DEF TrialsInv, At
  <2>3. QED
    BY <1>8, <2>1, <2>2 DEF Startable, Row
<1>14. \A q, w \in Requests :
         at'[q] = "starting" /\ at'[w] = "starting" /\ known'[q].user = known'[w].user => q = w
  BY <1>12 DEF TrialsInv, At
<1>15. QED
  BY <1>10, <1>13, <1>14 DEF TrialsInv, At

LEMMA TrialsStep ==
  ASSUME BaseInv, TrialsInv, Forms
  PROVE  TrialsInv'
<1>0. TablesInv /\ StandsInv
  BY DEF BaseInv
<1>1. ASSUME TrialsQuiet, ~Reads, ~StartsTrial
      PROVE  TrialsInv'
  <2>1. NoneEnters("starting")
    BY <1>0, <1>1, Coming DEF Comings
  <2>2. \A u \in Users : uses'[u] = uses[u]
    BY <1>0, <1>1, Counted
  <2>3. QED
    BY <1>1, <2>1, <2>2, TrialsKept
<1>2. ASSUME db'.users = db.users
      PROVE  TrialsQuiet
  BY <1>2, SameTrials
<1>3. ASSUME Leaves
      PROVE  TrialsQuiet
  <2>1. PICK u \in Users, o \in Orgs, to \in Orgs \cup {Unborn} :
          /\ Row(db.users[u])
          /\ Fields(db', IF to = Unborn THEN db.users
                         ELSE [db.users EXCEPT ![u] = [db.users[u] EXCEPT !.org = to]],
                    db.orgs, [db.members EXCEPT ![o] = [db.members[o] EXCEPT ![u] = NoRole]],
                    db.invites, db.codes, db.tokens, db.traces)
    BY <1>3 DEF Leaves
  <2>2. CASE to = Unborn
    BY <1>2, <2>1, <2>2 DEF Fields
  <2>3. CASE to # Unborn
    <3> DEFINE row == [db.users[u] EXCEPT !.org = to]
    <3>1. db.users[u] \in UserRows
      BY <1>0, <2>1, RowsAre
    <3>2a. row \in UserRows
      BY <2>1, <2>3, <3>1, RowUpdates
    <3>2b. row.type = db.users[u].type /\ (row.used <=> db.users[u].used)
      BY <2>1, <2>3, <3>1, UserFields
    <3>2. /\ db.users[u].used => row.used
          /\ Locked(u) => row.type = "Free" /\ ~row.used
      BY <3>2b, LockedFree
    <3>3. db'.users = [db.users EXCEPT ![u] = row]
      BY <2>1, <2>3 DEF Fields
    <3> HIDE DEF row
    <3>4. QED
      BY <2>1, <3>2a, <3>2, <3>3, RowTried
  <2>4. QED
    BY <2>2, <2>3
<1>4. ASSUME DeletesOrg
      PROVE  TrialsQuiet
  <2> DEFINE U(to) == [u \in Users |-> IF to[u] # Unborn /\ Row(db.users[u])
                                            THEN [db.users[u] EXCEPT !.org = to[u]]
                                            ELSE db.users[u]]
  <2>1. PICK o \in Orgs : \E to :
          /\ to \in [Users -> Orgs \cup {Unborn}]
          /\ Fields(db', U(to), [db.orgs EXCEPT ![o] = Gone],
                    CutMembers(db.members, o), CutInvites(db.invites, o), db.codes,
                    db.tokens, db.traces)
    BY <1>4 DEF DeletesOrg
  <2>2. PICK to : to \in [Users -> Orgs \cup {Unborn}] /\ db'.users = U(to)
    BY <2>1 DEF Fields
  <2>3. ASSUME NEW u \in Users
        PROVE  \/ db'.users[u] = db.users[u]
               \/ /\ Row(db.users[u]) /\ Row(db'.users[u])
                  /\ db.users[u].used => db'.users[u].used
                  /\ Locked(u) => db'.users[u].type = "Free" /\ ~db'.users[u].used
    <3>1. CASE to[u] # Unborn /\ Row(db.users[u])
      <4>1. Row(db.users[u]) /\ to[u] \in Orgs
        BY <2>2, <3>1
      <4>2. db.users[u] \in UserRows
        BY <1>0, <4>1, RowsAre
      <4>3. db'.users[u] = [db.users[u] EXCEPT !.org = to[u]]
        BY <2>2, <3>1
      <4>4. Row(db'.users[u])
        BY <4>1, <4>2, <4>3, RowUpdates, NewRows
      <4>5. /\ db.users[u].used => db'.users[u].used
            /\ Locked(u) => db'.users[u].type = "Free" /\ ~db'.users[u].used
        BY <4>2, <4>3, UserFields, LockedFree
      <4>6. QED
        BY <4>1, <4>4, <4>5
    <3>2. CASE ~(to[u] # Unborn /\ Row(db.users[u]))
      BY <2>2, <3>2
    <3>3. QED
      BY <3>1, <3>2
  <2>4. QED
    BY <2>3, RowsTried
<1>5. ASSUME Lands
      PROVE  TrialsQuiet
  <2>1. PICK u \in Users, o \in Orgs :
          /\ Row(db.users[u])
          /\ db'.users = [db.users EXCEPT ![u] = [db.users[u] EXCEPT !.org = o]]
    BY <1>5 DEF Lands, Fields
  <2> DEFINE row == [db.users[u] EXCEPT !.org = o]
  <2>2. db.users[u] \in UserRows
    BY <1>0, <2>1, RowsAre
  <2>3a. row \in UserRows
    BY <2>1, <2>2, RowUpdates
  <2>3b. row.type = db.users[u].type /\ (row.used <=> db.users[u].used)
    BY <2>1, <2>2, UserFields
  <2>3. /\ db.users[u].used => row.used
        /\ Locked(u) => row.type = "Free" /\ ~row.used
    BY <2>3b, LockedFree
  <2> HIDE DEF row
  <2>4. QED
    BY <2>1, <2>3a, <2>3, RowTried DEF row
<1>6. ASSUME Downgrades
      PROVE  TrialsQuiet
  <2>1. PICK u \in Users :
          /\ Row(db.users[u]) /\ ~Locked(u)
          /\ db'.users = [db.users EXCEPT ![u] =
                            [db.users[u] EXCEPT !.type = "Free", !.trial = "none"]]
    BY <1>6 DEF Downgrades, Fields
  <2> DEFINE row == [db.users[u] EXCEPT !.type = "Free", !.trial = "none"]
  <2>2. db.users[u] \in UserRows
    BY <1>0, <2>1, RowsAre
  <2>3. row \in UserRows /\ (db.users[u].used => row.used)
    BY <2>1, <2>2, RowUpdates, UserFields
  <2> HIDE DEF row
  <2>4. QED
    BY <2>1, <2>3, RowTried DEF row
<1>7. ASSUME EndsTrial
      PROVE  TrialsQuiet
  <2>1. PICK u \in Users :
          /\ Row(db.users[u])
          /\ db'.users = [db.users EXCEPT ![u] = [db.users[u] EXCEPT !.trial = "over"]]
    BY <1>7 DEF EndsTrial, Fields
  <2> DEFINE row == [db.users[u] EXCEPT !.trial = "over"]
  <2>2. db.users[u] \in UserRows
    BY <1>0, <2>1, RowsAre
  <2>3a. row \in UserRows
    BY <2>1, <2>2, RowUpdates
  <2>3b. row.type = db.users[u].type /\ (row.used <=> db.users[u].used)
    BY <2>1, <2>2, UserFields
  <2>3. /\ db.users[u].used => row.used
        /\ Locked(u) => row.type = "Free" /\ ~row.used
    BY <2>3b, LockedFree
  <2> HIDE DEF row
  <2>4. QED
    BY <2>1, <2>3a, <2>3, RowTried DEF row
<1>8. ASSUME Retypes
      PROVE  TrialsQuiet
  <2>1. PICK u \in Users, type \in Tiers :
          /\ Row(db.users[u]) /\ ~Locked(u)
          /\ db'.users = [db.users EXCEPT ![u] = [db.users[u] EXCEPT !.type = type]]
    BY <1>8 DEF Retypes, Fields
  <2> DEFINE row == [db.users[u] EXCEPT !.type = type]
  <2>2. db.users[u] \in UserRows
    BY <1>0, <2>1, RowsAre
  <2>3. row \in UserRows /\ (db.users[u].used => row.used)
    BY <2>1, <2>2, RowUpdates, UserFields
  <2> HIDE DEF row
  <2>4. QED
    BY <2>1, <2>3, RowTried DEF row
<1>9. ASSUME Registers \/ Unregisters
      PROVE  TrialsQuiet
  <2>1. PICK u \in Users :
          \/ \E o \in Orgs : /\ db.users[u] = Unborn
                             /\ db'.users = [db.users EXCEPT ![u] = NewUser(o)]
          \/ ~Locked(u) /\ db'.users = [db.users EXCEPT ![u] = Gone]
    BY <1>9 DEF Registers, Unregisters, Fields
  <2>2. \A v \in Users : v # u => db'.users[v] = db.users[v]
    BY <1>0, <2>1 DEF TablesInv
  <2>3. ~Locked(u)
    BY <2>1, LockedFree, NewRows
  <2>4. Untried(u)' => Untried(u)
    <3>1. CASE db.users[u] = Unborn
      BY <3>1 DEF Untried
    <3>2. CASE db'.users = [db.users EXCEPT ![u] = Gone]
      <4>1. db'.users[u] = Gone
        BY <1>0, <2>1, <3>2 DEF TablesInv
      <4>2. QED
        BY <4>1, NewRows DEF Untried, Row
    <3>3. QED
      BY <2>1, <3>1, <3>2
  <2>5. ASSUME NEW v \in Users, Locked(v)
        PROVE  Startable(v)'
    <3>1. v # u /\ db'.users[v] = db.users[v]
      BY <2>2, <2>3, <2>5
    <3>2. Startable(v)
      BY <2>5 DEF Locked, TrialsInv
    <3>3. QED
      BY <3>1, <3>2 DEF Startable, Row
  <2>6. \A v \in Users : Untried(v)' => Untried(v)
    BY <2>2, <2>4 DEF Untried, Row
  <2>7. QED
    BY <2>5, <2>6 DEF TrialsQuiet
<1>10. CASE Reads
  BY <1>10, StartingRead
<1>11. CASE StartsTrial
  BY <1>11, TrialStarted
<1>12. CASE ~Reads /\ ~StartsTrial
  <2>1. TrialsQuiet
    BY <1>2, <1>3, <1>4, <1>5, <1>6, <1>7, <1>8, <1>9, <1>12, Written
  <2>2. QED
    BY <1>1, <1>12, <2>1
<1>13. QED
  BY <1>10, <1>11, <1>12


-----------------------------------------------------------------------------
(* One password for each reset code, and one exchange for each token.       *)

\* What happens to the codes brings none of them back.
LEMMA SpendKept ==
  ASSUME BaseInv, SpendInv, NoneEnters("changing"), \A c \in Codes : uses'[c] = uses[c],
         \A c \in Codes : Unspent(c)' => Unspent(c)
  PROVE  SpendInv'
<1>1. \A c \in Codes : uses'[c] <= 1 /\ (Unspent(c)' => uses'[c] = 0)
  BY DEF SpendInv
<1>2. ASSUME NEW r \in Requests, at'[r] = "changing"
      PROVE  /\ at[r] = "changing" /\ known'[r] = known[r]
             /\ uses'[known[r].code] = 0 /\ ~Unspent(known[r].code)'
  <2>1. at[r] = "changing" /\ known'[r] = known[r]
    BY <1>2 DEF NoneEnters
  <2>2. PICK c \in Codes : c = known[r].code
    BY <2>1, Known
  <2>3. uses[c] = 0 /\ ~Unspent(c)
    BY <2>1, <2>2 DEF SpendInv, At
  <2>4. uses'[c] = 0 /\ ~Unspent(c)'
    BY <2>3
  <2>5. QED
    BY <2>1, <2>2, <2>4 DEF Unspent, Row
<1>3. \A r \in Requests :
        at'[r] = "changing" => uses'[known'[r].code] = 0 /\ ~Unspent(known[r].code)'
  BY <1>2 DEF Unspent, Row
<1>4. \A q, r \in Requests :
        at'[q] = "changing" /\ at'[r] = "changing" /\ known'[q].code = known'[r].code => q = r
  BY <1>2 DEF SpendInv, At
<1>5. QED
  BY <1>1, <1>3, <1>4 DEF SpendInv, At

LEMMA CodesRevived ==
  ASSUME BaseInv,
         db'.codes = db.codes \/ ResetsAnew \/ EndsCode \/ Unregisters
  PROVE  \A c \in Codes : Unspent(c)' => Unspent(c)
<1>0. db.codes \in [Codes -> CodeRows \cup Absent]
  BY DEF BaseInv, TablesInv
<1>1. CASE db'.codes = db.codes
  BY <1>1 DEF Unspent, Row
<1>2. CASE ResetsAnew
  <2>1. PICK n \in Codes, u \in Users, seen \in SUBSET Codes :
          db.codes[n] = Unborn /\ db'.codes = NewCodes(n, u, seen)
    BY <1>2 DEF ResetsAnew, Fields
  <2>2. ASSUME NEW c \in Codes
        PROVE  Unspent(c)' => Unspent(c)
    <3>1. CASE c = n
      BY <2>1, <3>1 DEF Unspent
    <3>2. CASE c # n /\ c \in seen \cap Live(u)
      BY <3>2 DEF Unspent, Live
    <3>3. CASE c # n /\ c \notin seen \cap Live(u)
      <4>1. db'.codes[c] = db.codes[c]
        BY <2>1, <3>3 DEF NewCodes
      <4>2. QED
        BY <4>1 DEF Unspent, Row
    <3>4. QED
      BY <3>1, <3>2, <3>3
  <2>3. QED
    BY <2>2
<1>3. CASE EndsCode
  <2>1. PICK n \in Codes :
          /\ Row(db.codes[n]) /\ db.codes[n].status = "live"
          /\ db'.codes = [db.codes EXCEPT ![n] = [db.codes[n] EXCEPT !.status = "expired"]]
    BY <1>3 DEF EndsCode, Fields
  <2>2. \A c \in Codes : c # n => db'.codes[c] = db.codes[c]
    BY <1>0, <2>1
  <2>3. QED
    BY <2>1, <2>2 DEF Unspent, Row
<1>4. CASE Unregisters
  <2>1. PICK u \in Users :
          db'.codes = [c \in Codes |-> IF Row(db.codes[c]) /\ db.codes[c].user = u
                                         THEN Gone ELSE db.codes[c]]
    BY <1>4 DEF Unregisters, Fields
  <2>2. \A c \in Codes : db'.codes[c] = Gone \/ db'.codes[c] = db.codes[c]
    BY <2>1
  <2>3. QED
    BY <2>2, NewRows DEF Unspent, Row
<1>5. QED
  BY <1>1, <1>2, <1>3, <1>4

\* The code that is used up had set no password, and no one else is about to.
LEMMA CodeConsumed ==
  ASSUME BaseInv, SpendInv, Consumes
  PROVE  SpendInv'
<1>0. TablesInv /\ StandsInv
  BY DEF BaseInv
<1>1. PICK r \in Requests, c \in Codes :
        /\ Goes(r, "consuming", "changing", known[r]) /\ known[r].code = c
        /\ UNCHANGED <<uses, slips>>
        /\ Row(db.codes[c]) /\ db.codes[c].status = "live"
        /\ Fields(db', db.users, db.orgs, db.members, db.invites,
                  [db.codes EXCEPT ![c] = [db.codes[c] EXCEPT !.status = "used"]],
                  db.tokens, db.traces)
  BY DEF Consumes
<1>2. \A d \in Codes : d # c => db'.codes[d] = db.codes[d]
  BY <1>0, <1>1 DEF Fields, TablesInv
<1>3. db.codes[c] \in CodeRows
  BY <1>0, <1>1, RowsAre
<1>4. [db.codes[c] EXCEPT !.status = "used"] \in CodeRows
  BY <1>3, RowUpdates
<1>5. Row(db'.codes[c]) /\ db'.codes[c].status = "used"
  <2>1. db'.codes[c] = [db.codes[c] EXCEPT !.status = "used"]
    BY <1>0, <1>1 DEF Fields, TablesInv
  <2>2. [db.codes[c] EXCEPT !.status = "used"].status = "used"
    BY <1>3 DEF CodeRows
  <2>3. QED
    BY <1>4, <2>1, <2>2, NewRows
<1>6. Unspent(c) /\ uses[c] = 0
  BY <1>1 DEF Unspent, SpendInv
<1>7. ~Unspent(c)'
  BY <1>5, NewRows DEF Unspent, Row
<1>8. \A d \in Codes : Unspent(d)' => Unspent(d)
  BY <1>2, <1>6 DEF Unspent, Row
<1>9. \A q \in Requests :
        IF q = r THEN at'[q] = "changing" /\ known'[q] = known[q]
                 ELSE at'[q] = at[q] /\ known'[q] = known[q]
  BY <1>0, <1>1 DEF Goes, StandsInv
<1>10. \A q \in Requests : at[q] = "changing" => known[q].code # c
  BY <1>6 DEF SpendInv, At
<1>11. \A d \in Codes : uses'[d] <= 1 /\ (Unspent(d)' => uses'[d] = 0)
  BY <1>1, <1>8 DEF SpendInv
<1>12. ASSUME NEW q \in Requests, at'[q] = "changing"
       PROVE  uses'[known'[q].code] = 0 /\ ~Unspent(known[q].code)'
  <2>1. CASE q = r
    BY <1>1, <1>6, <1>7, <1>9, <2>1 DEF Unspent, Row
  <2>2. CASE q # r
    <3>1. at[q] = "changing" /\ known'[q] = known[q]
      BY <1>9, <1>12, <2>2
    <3>2. PICK d \in Codes : d = known[q].code
      BY <3>1, Known
    <3>3. uses[d] = 0 /\ ~Unspent(d)
      BY <3>1, <3>2 DEF SpendInv, At
    <3>4. uses'[d] = 0 /\ ~Unspent(d)'
      BY <1>1, <1>8, <3>3
    <3>5. QED
      BY <3>1, <3>2, <3>4 DEF Unspent, Row
  <2>3. QED
    BY <2>1, <2>2
<1>13. \A q, w \in Requests :
         at'[q] = "changing" /\ at'[w] = "changing" /\ known'[q].code = known'[w].code => q = w
  BY <1>1, <1>9, <1>10 DEF SpendInv, At
<1>14. QED
  BY <1>11, <1>12, <1>13 DEF SpendInv, At, Unspent, Row

LEMMA PasswordSet ==
  ASSUME BaseInv, SpendInv, ChangesPassword
  PROVE  SpendInv'
<1>0. TablesInv /\ StandsInv
  BY DEF BaseInv
<1>1. PICK r \in Requests, c \in Codes, n \in {0, 1} :
        /\ Goes(r, "changing", "done", Unborn) /\ known[r].code = c
        /\ uses' = [uses EXCEPT ![c] = uses[c] + n] /\ UNCHANGED <<db, slips>>
  BY DEF ChangesPassword
<1>2. at[r] = "changing" /\ at'[r] # "changing" /\ NoneEnters("changing")
  BY ZenonT(40), <1>0, <1>1, GoesElsewhere DEF Goes, StandsInv
<1>3. uses[c] = 0 /\ ~Unspent(c)
  BY <1>1, <1>2 DEF SpendInv, At
<1>4. \A d \in Codes : IF d = c THEN uses'[d] <= 1 ELSE uses'[d] = uses[d]
  BY <1>0, <1>1, <1>3 DEF StandsInv
<1>5. \A d \in Codes : uses'[d] <= 1 /\ (Unspent(d)' => uses'[d] = 0)
  BY <1>1, <1>3, <1>4 DEF SpendInv, Unspent, Row
<1>6. \A q \in Requests : at'[q] = "changing" =>
        at[q] = "changing" /\ known'[q] = known[q] /\ known[q].code # c
  BY <1>1, <1>2 DEF NoneEnters, SpendInv, At
<1>7. ASSUME NEW q \in Requests, at'[q] = "changing"
      PROVE  uses'[known'[q].code] = 0 /\ ~Unspent(known[q].code)'
  <2>1. at[q] = "changing" /\ known'[q] = known[q] /\ known[q].code # c
    BY <1>6, <1>7
  <2>2. known[q].code \in Codes /\ uses[known[q].code] = 0 /\ ~Unspent(known[q].code)
    BY <2>1, Known DEF SpendInv, At
  <2>3. QED
    BY <1>1, <1>4, <2>1, <2>2 DEF Unspent, Row
<1>8. \A q, w \in Requests :
        at'[q] = "changing" /\ at'[w] = "changing" /\ known'[q].code = known'[w].code => q = w
  BY <1>6 DEF SpendInv, At
<1>9. QED
  BY <1>5, <1>7, <1>8, <1>6 DEF SpendInv, At, Unspent, Row

LEMMA SpendStep ==
  ASSUME BaseInv, SpendInv, Forms
  PROVE  SpendInv'
<1>0. StandsInv
  BY DEF BaseInv
<1>1. CASE Consumes
  BY <1>1, CodeConsumed
<1>2. CASE ChangesPassword
  BY <1>2, PasswordSet
<1>3. CASE ~Consumes /\ ~ChangesPassword
  <2>1. NoneEnters("changing")
    BY <1>0, <1>3, Coming DEF Comings
  <2>2. \A c \in Codes : uses'[c] = uses[c]
    BY <1>0, <1>3, Counted
  <2>3. db'.codes = db.codes \/ ResetsAnew \/ EndsCode \/ Unregisters
    BY <1>3, Written
  <2>4. QED
    BY <2>1, <2>2, <2>3, CodesRevived, SpendKept
<1>4. QED
  BY <1>1, <1>2, <1>3

LEMMA TokensKept ==
  ASSUME BaseInv, TokensInv, NoneEnters("rotating"), slips \subseteq slips',
         \A t \in Tokens : uses'[t] = uses[t],
         \A t \in Tokens : db.tokens[t] # Unborn =>
           /\ db'.tokens[t] # Unborn
           /\ db.tokens[t].status = "revoked" => db'.tokens[t].status = "revoked"
  PROVE  TokensInv'
<1>1. \A t \in Tokens :
        /\ uses'[t] >= 1 => db'.tokens[t] # Unborn /\ db'.tokens[t].status = "revoked"
        /\ uses'[t] > 1 => <<"token", t>> \in slips'
  BY DEF TokensInv
<1>2. ASSUME NEW r \in Requests, at'[r] = "rotating"
      PROVE  db'.tokens[known'[r].token] # Unborn
  <2>1. at[r] = "rotating" /\ known'[r] = known[r]
    BY <1>2 DEF NoneEnters
  <2>2. known[r].token \in Tokens /\ db.tokens[known[r].token] # Unborn
    BY <2>1, Known DEF TokensInv, At
  <2>3. QED
    BY <2>1, <2>2
<1>3. QED
  BY <1>1, <1>2 DEF TokensInv, At

\* A second exchange is of a token that was revoked already.
LEMMA TokenRotated ==
  ASSUME BaseInv, TokensInv, Rotates
  PROVE  TokensInv'
<1>0. TablesInv /\ StandsInv
  BY DEF BaseInv
<1>1. PICK r \in Requests, t \in Tokens, n \in Tokens, u \in Users, o \in Orgs :
        /\ Goes(r, "rotating", "done", Unborn) /\ known[r].token = t
        /\ db.tokens[n] = Unborn
        /\ uses' = [uses EXCEPT ![t] = uses[t] + 1]
        /\ slips' = slips \cup Slip("token", t, db.tokens[t].status = "revoked")
        /\ Fields(db', db.users, db.orgs, db.members, db.invites, db.codes,
                  [[db.tokens EXCEPT ![t] = [db.tokens[t] EXCEPT !.status = "revoked"]]
                     EXCEPT ![n] = Session(u, o)], db.traces)
  BY DEF Rotates
<1>2. at[r] = "rotating" /\ NoneEnters("rotating")
  BY <1>0, <1>1, GoesElsewhere DEF Goes
<1>3. db.tokens[t] # Unborn /\ t # n
  BY <1>1, <1>2 DEF TokensInv, At
<1>4. db.tokens[t] \in TokenRows
  BY <1>0, <1>3, RowsAre
<1> DEFINE row == [db.tokens[t] EXCEPT !.status = "revoked"]
<1>5. row \in TokenRows /\ row.status = "revoked" /\ row # Unborn
  BY <1>4, RowUpdates, NewRows DEF TokenRows
<1>6. Session(u, o) # Unborn
  BY NewRows
<1>7. db'.tokens = [[db.tokens EXCEPT ![t] = row] EXCEPT ![n] = Session(u, o)]
  BY <1>1 DEF Fields
<1> HIDE DEF row
<1>8. \A x \in Tokens : db'.tokens[x] = IF x = n THEN Session(u, o)
                                        ELSE IF x = t THEN row ELSE db.tokens[x]
  BY <1>0, <1>7 DEF TablesInv
<1>9. \A x \in Tokens : uses'[x] = IF x = t THEN uses[t] + 1 ELSE uses[x]
  BY <1>0, <1>1 DEF StandsInv
<1>10. uses[t] \in Nat /\ uses[n] \in Nat
  BY <1>0 DEF StandsInv
<1>11. uses[n] < 1
  <2>1. uses[n] >= 1 => db.tokens[n] # Unborn
    BY <1>1 DEF TokensInv
  <2>2. QED
    BY <1>1, <1>10, <2>1
<1>12. uses[t] >= 1 => <<"token", t>> \in slips'
  BY <1>1 DEF TokensInv, Slip
<1>13. ASSUME NEW x \in Tokens
       PROVE  /\ uses'[x] >= 1 => db'.tokens[x] # Unborn /\ db'.tokens[x].status = "revoked"
              /\ uses'[x] > 1 => <<"token", x>> \in slips'
  <2>1. CASE x = t
    BY <1>3, <1>5, <1>8, <1>9, <1>10, <1>12, <2>1
  <2>2. CASE x = n
    BY <1>3, <1>9, <1>10, <1>11, <2>2
  <2>3. CASE x # t /\ x # n
    BY <1>1, <1>8, <1>9, <2>3 DEF TokensInv
  <2>4. QED
    BY <2>1, <2>2, <2>3
<1>14. ASSUME NEW q \in Requests, at'[q] = "rotating"
       PROVE  db'.tokens[known'[q].token] # Unborn
  <2>1. at[q] = "rotating" /\ known'[q] = known[q]
    BY <1>2, <1>14 DEF NoneEnters
  <2>2. known[q].token \in Tokens /\ db.tokens[known[q].token] # Unborn
    BY <2>1, Known DEF TokensInv, At
  <2>3. QED
    BY <1>5, <1>6, <1>8, <2>1, <2>2
<1>15. QED
  BY <1>13, <1>14 DEF TokensInv, At

LEMMA TokensStep ==
  ASSUME BaseInv, TokensInv, Forms
  PROVE  TokensInv'
<1>0. TablesInv /\ StandsInv
  BY DEF BaseInv
<1> DEFINE Stays == \A t \in Tokens : db.tokens[t] # Unborn =>
                      /\ db'.tokens[t] # Unborn
                      /\ db.tokens[t].status = "revoked" => db'.tokens[t].status = "revoked"
<1>1. ASSUME Stays, ~Reads, ~Rotates
      PROVE  TokensInv'
  <2>1. NoneEnters("rotating")
    BY <1>0, <1>1, Coming DEF Comings
  <2>2. \A t \in Tokens : uses'[t] = uses[t]
    BY <1>0, <1>1, Counted
  <2>3. slips \subseteq slips'
    BY SlipsGrow
  <2>4. QED
    BY <1>1, <2>1, <2>2, <2>3, TokensKept
<1>2. ASSUME db'.tokens = db.tokens
      PROVE  Stays
  BY <1>2
<1>3. ASSUME Mints \/ Registers
      PROVE  Stays
  <2>1. PICK u \in Users, o \in Orgs, n \in Tokens :
          /\ db.tokens[n] = Unborn
          /\ db'.tokens = [db.tokens EXCEPT ![n] = Session(u, o)]
    <3>1. CASE Mints
      BY <3>1 DEF Mints, Fields
    <3>2. CASE Registers
      BY <3>2 DEF Registers, Fields
    <3>3. QED
      BY <1>3, <3>1, <3>2
  <2>2. \A t \in Tokens : t # n => db'.tokens[t] = db.tokens[t]
    BY <1>0, <2>1 DEF TablesInv
  <2>3. QED
    BY <2>1, <2>2
<1>4. ASSUME EndsToken
      PROVE  Stays
  <2>1. PICK n \in Tokens, status \in {"expired", "revoked"} :
          /\ db.tokens[n] # Unborn
          /\ status = "expired" => db.tokens[n].status = "live"
          /\ db'.tokens = [db.tokens EXCEPT ![n] = [db.tokens[n] EXCEPT !.status = status]]
    BY <1>4 DEF EndsToken, Fields
  <2>2. db.tokens[n] \in TokenRows
    BY <1>0, <2>1, RowsAre
  <2>3. db'.tokens[n] = [db.tokens[n] EXCEPT !.status = status]
    BY <1>0, <2>1 DEF TablesInv
  <2>4. db'.tokens[n] # Unborn /\ db'.tokens[n].status = status
    BY ZenonT(60), <2>2, <2>3, RowUpdates, NewRows DEF TokenRows
  <2>5. \A t \in Tokens : t # n => db'.tokens[t] = db.tokens[t]
    BY <1>0, <2>1 DEF TablesInv
  <2>6. QED
    BY <2>1, <2>4, <2>5
<1>5. CASE Reads
  <2>1. PICK r \in Requests : \E p, s, k :
          /\ Goes(r, p, s, k)
          /\ s = "rotating" => db.tokens[k.token] # Unborn
          /\ UNCHANGED <<db, uses, slips>>
    BY <1>5 DEF Reads
  <2>2. PICK p, s, k :
          /\ Goes(r, p, s, k)
          /\ s = "rotating" => db.tokens[k.token] # Unborn
          /\ UNCHANGED <<db, uses, slips>>
    BY <2>1
  <2>3. \A q \in Requests : IF q = r THEN at'[q] = s /\ known'[q] = k
                                     ELSE at'[q] = at[q] /\ known'[q] = known[q]
    BY <1>0, <2>2 DEF Goes, StandsInv
  <2>4. \A q \in Requests : at'[q] = "rotating" => db'.tokens[known'[q].token] # Unborn
    BY <2>2, <2>3 DEF TokensInv, At
  <2>5. QED
    BY <2>2, <2>4 DEF TokensInv, At
<1>6. CASE Rotates
  BY <1>6, TokenRotated
<1>7. CASE ~Reads /\ ~Rotates
  <2>1. Stays
    BY <1>2, <1>3, <1>4, <1>7, Written
  <2> HIDE DEF Stays
  <2>2. QED
    BY <1>1, <1>7, <2>1
<1>8. QED
  BY <1>5, <1>6, <1>7


-----------------------------------------------------------------------------
(* The newest invitation and the newest code.                               *)

\* Without a new one, the pending invitations only get fewer.
LEMMA InvitesFewer ==
  ASSUME InvitesNewest, slips \subseteq slips',
         \A o \in Orgs, v \in Users : Pending(o, v)' \subseteq Pending(o, v)
  PROVE  InvitesNewest'
BY DEF InvitesNewest

LEMMA PendingFewer ==
  ASSUME BaseInv,
         db'.invites = db.invites \/ DeletesOrg \/ EndsInvite \/ Accepts \/ Unregisters
  PROVE  \A o \in Orgs, v \in Users : Pending(o, v)' \subseteq Pending(o, v)
<1>0. db.invites \in [Invites -> InviteRows \cup Absent]
  BY DEF BaseInv, TablesInv
<1>1. ASSUME \A i \in Invites : \/ db'.invites[i] = db.invites[i] \/ ~Row(db'.invites[i])
                                \/ db'.invites[i].status # "pending"
      PROVE  \A o \in Orgs, v \in Users : Pending(o, v)' \subseteq Pending(o, v)
  BY <1>1 DEF Pending, Row
<1>2. CASE db'.invites = db.invites
  BY <1>1, <1>2
<1>3. CASE DeletesOrg \/ Unregisters
  <2>1. PICK o \in Orgs : db'.invites = CutInvites(db.invites, o)
    <3>1. CASE DeletesOrg
      BY <3>1 DEF DeletesOrg, Fields
    <3>2. CASE Unregisters
      BY <3>2 DEF Unregisters, Fields
    <3>3. QED
      BY <1>3, <3>1, <3>2
  <2>2. \A i \in Invites : db'.invites[i] = Gone \/ db'.invites[i] = db.invites[i]
    BY <2>1 DEF CutInvites
  <2>3. QED
    BY <1>1, <2>2, NewRows
<1>4. CASE EndsInvite \/ Accepts
  <2>1. PICK n \in Invites, status \in {"expired", "revoked", "accepted"} :
          /\ Row(db.invites[n])
          /\ db'.invites = [db.invites EXCEPT ![n] = [db.invites[n] EXCEPT !.status = status]]
    <3>1. CASE EndsInvite
      BY <3>1 DEF EndsInvite, Fields
    <3>2. CASE Accepts
      BY <3>2 DEF Accepts, Fields
    <3>3. QED
      BY <1>4, <3>1, <3>2
  <2>2. db.invites[n] \in InviteRows
    BY <2>1, RowsAre DEF BaseInv
  <2>3. db'.invites[n].status # "pending"
    BY <1>0, <2>1, <2>2 DEF InviteRows
  <2>4. \A i \in Invites : i # n => db'.invites[i] = db.invites[i]
    BY <1>0, <2>1
  <2>5. QED
    BY <1>1, <2>3, <2>4
<1>5. QED
  BY <1>2, <1>3, <1>4

LEMMA InvitedAnew ==
  ASSUME BaseInv, InvitesNewest, InvitesAnew
  PROVE  InvitesNewest'
<1>1. PICK n \in Invites, o \in Orgs, v \in Users, role \in Roles \ {"owner"},
           seen \in SUBSET Invites :
        /\ db.invites[n] = Unborn
        /\ slips' = slips \cup Slip("invites", <<o, v>>, seen # Pending(o, v))
        /\ db'.invites = NewInvites(n, o, v, role, seen)
  BY DEF InvitesAnew, Fields
<1>2. \A p \in Orgs, w \in Users : n \notin Pending(p, w)
  BY <1>1, NewRows DEF Pending
<1> DEFINE new == [org |-> o, user |-> v, role |-> role, status |-> "pending"]
<1>3. db'.invites[n] = new
  BY <1>1, <1>2 DEF NewInvites
<1>4. ASSUME NEW i \in Invites, i # n
      PROVE  db'.invites[i] = IF i \in seen \cap Pending(o, v)
                                THEN [db.invites[i] EXCEPT !.status = "revoked"]
                                ELSE db.invites[i]
  BY <1>1, <1>4 DEF NewInvites
<1>5. ASSUME NEW p \in Orgs, NEW w \in Users, NEW i \in Pending(p, w)', i # n
      PROVE  i \in Pending(p, w) /\ i \notin seen \cap Pending(o, v)
  <2>1. i \in Invites /\ Row(db'.invites[i]) /\ db'.invites[i].status = "pending"
    BY <1>5 DEF Pending, Row
  <2>2. i \notin seen \cap Pending(o, v)
    <3>1. SUFFICES ASSUME i \in seen \cap Pending(o, v)
                   PROVE  FALSE
      OBVIOUS
    <3>2. db'.invites[i] = [db.invites[i] EXCEPT !.status = "revoked"]
      BY <1>4, <1>5, <2>1, <3>1
    <3>3. Row(db.invites[i])
      BY <3>1 DEF Pending
    <3>4. db.invites[i] \in InviteRows
      BY <2>1, <3>3, RowsAre DEF BaseInv
    <3>5. QED
      BY <2>1, <3>2, <3>4 DEF InviteRows
  <2>3. db'.invites[i] = db.invites[i]
    BY <1>4, <1>5, <2>1, <2>2
  <2>4. QED
    BY <1>5, <2>2, <2>3 DEF Pending, Row
<1>6. ASSUME NEW p \in Orgs, NEW w \in Users, n \in Pending(p, w)'
      PROVE  p = o /\ w = v
  BY <1>3, <1>6 DEF Pending
<1>7. ASSUME NEW i \in Pending(o, v), i \notin seen
      PROVE  <<"invites", <<o, v>>>> \in slips'
  BY <1>1, <1>7 DEF Slip
<1>8. ASSUME NEW p \in Orgs, NEW w \in Users, NEW i \in Pending(p, w)',
             NEW j \in Pending(p, w)', i # j
      PROVE  <<"invites", <<p, w>>>> \in slips'
  <2>1. CASE i # n /\ j # n
    <3>1. i \in Pending(p, w) /\ j \in Pending(p, w)
      BY <1>5, <2>1
    <3>2. QED
      BY <1>1, <1>8, <3>1 DEF InvitesNewest
  <2>2. CASE i = n
    <3>1. p = o /\ w = v
      BY <1>6, <2>2
    <3>2. j \in Pending(o, v) /\ j \notin seen
      BY <1>5, <1>8, <2>2, <3>1
    <3>3. QED
      BY <1>7, <3>1, <3>2
  <2>3. CASE j = n
    <3>1. p = o /\ w = v
      BY <1>6, <2>3
    <3>2. i \in Pending(o, v) /\ i \notin seen
      BY <1>5, <1>8, <2>3, <3>1
    <3>3. QED
      BY <1>7, <3>1, <3>2
  <2>4. QED
    BY <2>1, <2>2, <2>3
<1>9. QED
  BY <1>8 DEF InvitesNewest

LEMMA InvitesStep ==
  ASSUME BaseInv, InvitesNewest, Forms
  PROVE  InvitesNewest'
<1>1. CASE InvitesAnew
  BY <1>1, InvitedAnew
<1>2. CASE ~InvitesAnew
  <2>1. db'.invites = db.invites \/ DeletesOrg \/ EndsInvite \/ Accepts \/ Unregisters
    BY <1>2, Written
  <2>2. QED
    BY <2>1, PendingFewer, SlipsGrow, InvitesFewer
<1>3. QED
  BY <1>1, <1>2

LEMMA LiveFewer ==
  ASSUME BaseInv, db'.codes = db.codes \/ Consumes \/ EndsCode \/ Unregisters
  PROVE  \A u \in Users : Live(u)' \subseteq Live(u)
<1>0. db.codes \in [Codes -> CodeRows \cup Absent]
  BY DEF BaseInv, TablesInv
<1>1. ASSUME \A c \in Codes : \/ db'.codes[c] = db.codes[c] \/ ~Row(db'.codes[c])
                              \/ db'.codes[c].status # "live"
      PROVE  \A u \in Users : Live(u)' \subseteq Live(u)
  BY <1>1 DEF Live, Row
<1>2. CASE db'.codes = db.codes
  BY <1>1, <1>2
<1>3. CASE Unregisters
  <2>1. PICK u \in Users :
          db'.codes = [c \in Codes |-> IF Row(db.codes[c]) /\ db.codes[c].user = u
                                         THEN Gone ELSE db.codes[c]]
    BY <1>3 DEF Unregisters, Fields
  <2>2. \A c \in Codes : db'.codes[c] = Gone \/ db'.codes[c] = db.codes[c]
    BY <2>1
  <2>3. QED
    BY <1>1, <2>2, NewRows
<1>4. CASE Consumes \/ EndsCode
  <2>1. PICK n \in Codes, status \in {"expired", "used"} :
          /\ Row(db.codes[n])
          /\ db'.codes = [db.codes EXCEPT ![n] = [db.codes[n] EXCEPT !.status = status]]
    <3>1. CASE Consumes
      BY <3>1 DEF Consumes, Fields
    <3>2. CASE EndsCode
      BY <3>2 DEF EndsCode, Fields
    <3>3. QED
      BY <1>4, <3>1, <3>2
  <2>2. db.codes[n] \in CodeRows
    BY <2>1, RowsAre DEF BaseInv
  <2>3. db'.codes[n].status # "live"
    BY <1>0, <2>1, <2>2 DEF CodeRows
  <2>4. \A c \in Codes : c # n => db'.codes[c] = db.codes[c]
    BY <1>0, <2>1
  <2>5. QED
    BY <1>1, <2>3, <2>4
<1>5. QED
  BY <1>2, <1>3, <1>4

LEMMA CodesAnew ==
  ASSUME BaseInv, CodesNewest, ResetsAnew
  PROVE  CodesNewest'
<1>1. PICK n \in Codes, u \in Users, seen \in SUBSET Codes :
        /\ db.codes[n] = Unborn
        /\ slips' = slips \cup Slip("codes", u, seen # Live(u))
        /\ db'.codes = NewCodes(n, u, seen)
  BY DEF ResetsAnew, Fields
<1>2. \A w \in Users : n \notin Live(w)
  BY <1>1, NewRows DEF Live
<1> DEFINE new == [user |-> u, status |-> "live"]
<1>3. db'.codes[n] = new
  BY <1>1, <1>2 DEF NewCodes
<1>4. ASSUME NEW c \in Codes, c # n
      PROVE  db'.codes[c] = IF c \in seen \cap Live(u)
                              THEN [db.codes[c] EXCEPT !.status = "used"] ELSE db.codes[c]
  BY <1>1, <1>4 DEF NewCodes
<1>5. ASSUME NEW w \in Users, NEW c \in Live(w)', c # n
      PROVE  c \in Live(w) /\ c \notin seen \cap Live(u)
  <2>1. c \in Codes /\ Row(db'.codes[c]) /\ db'.codes[c].status = "live"
    BY <1>5 DEF Live, Row
  <2>2. c \notin seen \cap Live(u)
    <3>1. SUFFICES ASSUME c \in seen \cap Live(u)
                   PROVE  FALSE
      OBVIOUS
    <3>2. db'.codes[c] = [db.codes[c] EXCEPT !.status = "used"]
      BY <1>4, <1>5, <2>1, <3>1
    <3>3. Row(db.codes[c])
      BY <3>1 DEF Live
    <3>4. db.codes[c] \in CodeRows
      BY <2>1, <3>3, RowsAre DEF BaseInv
    <3>5. QED
      BY <2>1, <3>2, <3>4 DEF CodeRows
  <2>3. db'.codes[c] = db.codes[c]
    BY <1>4, <1>5, <2>1, <2>2
  <2>4. QED
    BY <1>5, <2>2, <2>3 DEF Live, Row
<1>6. ASSUME NEW w \in Users, n \in Live(w)'
      PROVE  w = u
  BY <1>3, <1>6 DEF Live
<1>7. ASSUME NEW c \in Live(u), c \notin seen
      PROVE  <<"codes", u>> \in slips'
  BY <1>1, <1>7 DEF Slip
<1>8. ASSUME NEW w \in Users, NEW c \in Live(w)', NEW d \in Live(w)', c # d
      PROVE  <<"codes", w>> \in slips'
  <2>1. CASE c # n /\ d # n
    <3>1. c \in Live(w) /\ d \in Live(w)
      BY <1>5, <2>1
    <3>2. QED
      BY <1>1, <1>8, <3>1 DEF CodesNewest
  <2>2. CASE c = n
    <3>1. w = u
      BY <1>6, <2>2
    <3>2. d \in Live(u) /\ d \notin seen
      BY <1>5, <1>8, <2>2, <3>1
    <3>3. QED
      BY <1>7, <3>1, <3>2
  <2>3. CASE d = n
    <3>1. w = u
      BY <1>6, <2>3
    <3>2. c \in Live(u) /\ c \notin seen
      BY <1>5, <1>8, <2>3, <3>1
    <3>3. QED
      BY <1>7, <3>1, <3>2
  <2>4. QED
    BY <2>1, <2>2, <2>3
<1>9. QED
  BY <1>8 DEF CodesNewest

LEMMA CodesStep ==
  ASSUME BaseInv, CodesNewest, Forms
  PROVE  CodesNewest'
<1>1. CASE ResetsAnew
  BY <1>1, CodesAnew
<1>2. CASE ~ResetsAnew
  <2>1. db'.codes = db.codes \/ Consumes \/ EndsCode \/ Unregisters
    BY <1>2, Written
  <2>2. \A u \in Users : Live(u)' \subseteq Live(u)
    BY <2>1, LiveFewer
  <2>3. slips \subseteq slips'
    BY SlipsGrow
  <2>4. QED
    BY <2>2, <2>3 DEF CodesNewest
<1>3. QED
  BY <1>1, <1>2


-----------------------------------------------------------------------------
(* An organization keeps an owner.                                          *)

\* How a row of an organization is written: founded, gone, or changed, with
\* usage counting the keys before and after.
Counts(row) == row.usage = Cardinality(row.keys)
OrgEdit(o, row) ==
  \/ db.orgs[o] = Unborn /\ row \in OrgRows /\ Counts(row) /\ (Founds \/ Registers)
  \/ row = Gone
  \/ Row(db.orgs[o]) /\ row \in OrgRows /\ (Counts(db.orgs[o]) => Counts(row))

LEMMA OrgWritten ==
  ASSUME BaseInv, Forms
  PROVE  \/ db'.orgs = db.orgs
         \/ \E o \in Orgs : \E row : /\ OrgEdit(o, row)
                                   /\ db'.orgs = [db.orgs EXCEPT ![o] = row]
<1>0. TablesInv
  BY DEF BaseInv
<1>1. CASE Transfers
  <2>1. PICK o \in Orgs, v \in Users :
          /\ Row(db.orgs[o])
          /\ db'.orgs = [db.orgs EXCEPT ![o] = [db.orgs[o] EXCEPT !.owner = v]]
    BY <1>1 DEF Transfers, Fields
  <2> DEFINE row == [db.orgs[o] EXCEPT !.owner = v]
  <2>2. db.orgs[o] \in OrgRows
    BY <1>0, <2>1, RowsAre
  <2>3. row \in OrgRows /\ row.usage = db.orgs[o].usage /\ row.keys = db.orgs[o].keys
    BY <2>1, <2>2 DEF OrgRows
  <2>4. OrgEdit(o, row)
    BY <2>1, <2>3 DEF OrgEdit, Counts
  <2>5. QED
    BY <2>1, <2>4
<1>2. CASE DeletesOrg
  <2>1. PICK r \in Requests, o \in Orgs : \E to :
          Fields(db', [u \in Users |-> IF to[u] # Unborn /\ Row(db.users[u])
                                         THEN [db.users[u] EXCEPT !.org = to[u]]
                                         ELSE db.users[u]],
                 [db.orgs EXCEPT ![o] = Gone], CutMembers(db.members, o),
                 CutInvites(db.invites, o), db.codes, db.tokens, db.traces)
    BY <1>2 DEF DeletesOrg
  <2>2. QED
    BY <2>1 DEF Fields, OrgEdit
<1>3. CASE Unregisters
  <2>1. PICK o \in Orgs : db'.orgs = [db.orgs EXCEPT ![o] = Gone]
    BY <1>3 DEF Unregisters, Fields
  <2>2. QED
    BY <2>1 DEF OrgEdit
<1>4. CASE Retypes
  <2>1. PICK u \in Users, type \in Tiers :
          /\ Row(db.users[u])
          /\ db'.orgs = [db.orgs EXCEPT ![db.users[u].org] =
                           [db.orgs[db.users[u].org] EXCEPT !.limit = ApiKeyLimits[type]]]
    BY <1>4 DEF Retypes, Fields
  <2>2. db.users[u] \in UserRows
    BY <1>0, <2>1, RowsAre
  <2>3. PICK o \in Orgs : o = db.users[u].org
    BY <2>2 DEF UserRows
  <2>4. Row(db.orgs[o])
    BY <2>1, <2>3 DEF BaseInv, RefsInv, CurrentsRefer
  <2>5. db.orgs[o] \in OrgRows
    BY <1>0, <2>4, RowsAre
  <2> DEFINE row == [db.orgs[o] EXCEPT !.limit = ApiKeyLimits[type]]
  <2>6. row \in OrgRows
    BY <2>1, <2>5, NewRows, RowUpdates
  <2>7. row.usage = db.orgs[o].usage /\ row.keys = db.orgs[o].keys
    BY <2>5 DEF OrgRows
  <2>8. OrgEdit(o, row)
    BY <2>4, <2>6, <2>7 DEF OrgEdit, Counts
  <2>9. QED
    BY <2>1, <2>3, <2>8
<1>5. CASE SetsOrg
  <2>1. PICK o \in Orgs, row \in OrgRows :
          /\ Row(db.orgs[o]) /\ db'.orgs = [db.orgs EXCEPT ![o] = row]
          /\ db.orgs[o].usage = Cardinality(db.orgs[o].keys) =>
               row.usage = Cardinality(row.keys)
    BY <1>5 DEF SetsOrg, Fields
  <2>2. OrgEdit(o, row)
    BY <2>1 DEF OrgEdit, Counts
  <2>3. QED
    BY <2>1, <2>2
<1>6. CASE Founds \/ Registers
  <2>1. PICK u \in Users, o \in Orgs, plan \in {"Free", NoPlan} :
          /\ db.orgs[o] = Unborn
          /\ db'.orgs = [db.orgs EXCEPT ![o] = NewOrg(u, plan)]
    <3>1. CASE Founds
      BY <3>1 DEF Founds, Fields
    <3>2. CASE Registers
      BY <3>2 DEF Registers, Fields
    <3>3. QED
      BY <1>6, <3>1, <3>2
  <2>2. NewOrg(u, plan) \in OrgRows
    BY <2>1, NewRows DEF Tiers
  <2>3. NewOrg(u, plan).usage = 0 /\ NewOrg(u, plan).keys = {} /\ Cardinality({}) = 0
    BY FS_EmptySet DEF NewOrg
  <2>4. OrgEdit(o, NewOrg(u, plan))
    BY <1>6, <2>1, <2>2, <2>3 DEF OrgEdit, Counts
  <2>5. QED
    BY <2>1, <2>4
<1>7. QED
  BY <1>1, <1>2, <1>3, <1>4, <1>5, <1>6, Written

\* The organizations that are there were there, or are founded now, and one
\* that is gone stays so.
LEMMA OrgsFrom ==
  ASSUME BaseInv, Forms
  PROVE  /\ \/ Founds \/ Registers
            \/ \A p \in Orgs : Row(db'.orgs[p]) => Row(db.orgs[p])
         /\ \A p \in Orgs : db.orgs[p] = Gone => db'.orgs[p] = Gone
<1>1. CASE db'.orgs = db.orgs
  BY <1>1
<1>2. ASSUME NEW o \in Orgs, NEW row, OrgEdit(o, row),
             db'.orgs = [db.orgs EXCEPT ![o] = row]
      PROVE  /\ \/ Founds \/ Registers
                \/ \A p \in Orgs : Row(db'.orgs[p]) => Row(db.orgs[p])
             /\ \A p \in Orgs : db.orgs[p] = Gone => db'.orgs[p] = Gone
  <2>1. \A p \in Orgs : db'.orgs[p] = IF p = o THEN row ELSE db.orgs[p]
    BY <1>2 DEF BaseInv, TablesInv
  <2>2. \/ Founds \/ Registers \/ (Row(row) => Row(db.orgs[o]))
    BY <1>2, NewRows DEF OrgEdit
  <2>3. db.orgs[o] = Gone => row = Gone
    BY <1>2, NewRows DEF OrgEdit
  <2>4. QED
    BY <2>1, <2>2, <2>3
<1>3. QED
  BY <1>1, <1>2, OrgWritten

\* An organization that is left without an owner was so, or leaves a slip.
Ownerless(o) == Row(db.orgs[o]) /\ Owners(o) = {}
OwnedStill(o) ==
  Ownerless(o)' => Ownerless(o) \/ {<<"demoted", o>>, <<"owners", o>>} \cap slips' # {}

LEMMA OwnersCarried ==
  ASSUME OwnerKept, slips \subseteq slips', \A o \in Orgs : OwnedStill(o)
  PROVE  OwnerKept'
<1>1. ASSUME NEW o \in Orgs, Ownerless(o)'
      PROVE  {<<"demoted", o>>, <<"owners", o>>} \cap slips' # {}
  <2>1. CASE Ownerless(o)
    <3>1. {<<"demoted", o>>, <<"owners", o>>} \cap slips # {}
      BY <2>1 DEF OwnerKept, Ownerless
    <3>2. QED
      BY <3>1
  <2>2. CASE ~Ownerless(o)
    BY <1>1, <2>2 DEF OwnedStill
  <2>3. QED
    BY <2>1, <2>2
<1>2. QED
  BY <1>1 DEF OwnerKept, Ownerless, Owners, Row

\* The owners of an organization whose memberships are not written.
LEMMA SameOwners ==
  ASSUME NEW o \in Orgs, db'.members[o] = db.members[o], Row(db'.orgs[o]) => Row(db.orgs[o])
  PROVE  OwnedStill(o)
BY DEF OwnedStill, Ownerless, Owners, Row

\* One role is written.
LEMMA RoleWritten ==
  ASSUME BaseInv, NEW o \in Orgs, NEW u \in Users, NEW role,
         db'.members = [db.members EXCEPT ![o] = [db.members[o] EXCEPT ![u] = role]],
         \A p \in Orgs : p # o => (Row(db'.orgs[p]) => Row(db.orgs[p])),
         \/ role = "owner"
         \/ /\ Row(db'.orgs[o]) => Row(db.orgs[o])
            /\ Owners(o) = {u} => {<<"demoted", o>>, <<"owners", o>>} \cap slips' # {}
  PROVE  \A p \in Orgs : OwnedStill(p)
<1>1. /\ \A p \in Orgs : p # o => db'.members[p] = db.members[p]
      /\ \A v \in Users : db'.members[o][v] = IF v = u THEN role ELSE db.members[o][v]
  BY DEF BaseInv, TablesInv
<1>2. ASSUME NEW p \in Orgs, p # o
      PROVE  OwnedStill(p)
  BY <1>1, <1>2, SameOwners
<1>3. CASE role = "owner"
  <2>1. db'.members[o][u] = "owner"
    BY <1>1, <1>3
  <2>2. Owners(o)' # {}
    BY <2>1 DEF Owners
  <2>3. OwnedStill(o)
    BY <2>2 DEF OwnedStill, Ownerless
  <2>4. QED
    BY <1>2, <2>3
<1>4. CASE role # "owner"
  <2>1. ASSUME Owners(o)' = {}
        PROVE  Owners(o) = {} \/ Owners(o) = {u}
    <3>1. \A v \in Owners(o) : v = u
      BY <1>1, <2>1 DEF Owners
    <3>2. QED
      BY <3>1
  <2>2. OwnedStill(o)
    BY <1>4, <2>1 DEF OwnedStill, Ownerless, Row
  <2>3. QED
    BY <1>2, <2>2
<1>5. QED
  BY <1>2, <1>3, <1>4 DEF OwnedStill

LEMMA OwnerStep ==
  ASSUME BaseInv, OwnerKept, Forms
  PROVE  OwnerKept'
<1>0. TablesInv
  BY DEF BaseInv
<1> DEFINE Still == \A o \in Orgs : OwnedStill(o)
<1>1. ASSUME db'.members = db.members, ~Founds, ~Registers
      PROVE  Still
  <2>1. \A p \in Orgs : Row(db'.orgs[p]) => Row(db.orgs[p])
    BY <1>1, OrgsFrom
  <2>2. QED
    BY <1>1, <2>1, SameOwners
<1>2. ASSUME Founds \/ Registers
      PROVE  Still
  <2>1. PICK u \in Users, o \in Orgs, plan \in {"Free", NoPlan} :
          /\ db'.orgs = [db.orgs EXCEPT ![o] = NewOrg(u, plan)]
          /\ db'.members = [db.members EXCEPT ![o] = [db.members[o] EXCEPT ![u] = "owner"]]
    <3>1. CASE Founds
      BY <3>1 DEF Founds, Fields
    <3>2. CASE Registers
      BY <3>2 DEF Registers, Fields
    <3>3. QED
      BY <1>2, <3>1, <3>2
  <2>2. \A p \in Orgs : p # o => (Row(db'.orgs[p]) => Row(db.orgs[p]))
    BY <1>0, <2>1 DEF TablesInv
  <2>3. QED
    BY <2>1, <2>2, RoleWritten
<1>3. ASSUME SetsRole \/ Accepts
      PROVE  Still
  <2>1. PICK u \in Users, o \in Orgs, role \in Roles :
          /\ db'.members = [db.members EXCEPT ![o] = [db.members[o] EXCEPT ![u] = role]]
          /\ db'.orgs = db.orgs
          /\ role = "owner" \/ (Owners(o) = {u} => <<"demoted", o>> \in slips')
    <3>1. CASE SetsRole
      <4>1. PICK u \in Users, o \in Orgs, role \in Roles :
              /\ slips' = slips \cup Slip("demoted", o, Owners(o) = {u} /\ role # "owner")
              /\ db'.orgs = db.orgs
              /\ db'.members = [db.members EXCEPT ![o] = [db.members[o] EXCEPT ![u] = role]]
        BY <3>1 DEF SetsRole, Fields
      <4>2. role = "owner" \/ (Owners(o) = {u} => <<"demoted", o>> \in slips')
        BY <4>1 DEF Slip
      <4>3. QED
        BY <4>1, <4>2
    <3>2. CASE Accepts
      <4>1. PICK i \in Invites :
              /\ Row(db.invites[i])
              /\ slips' = slips \cup Slip("demoted", db.invites[i].org,
                                          Owners(db.invites[i].org) = {db.invites[i].user})
              /\ db'.orgs = db.orgs
              /\ db'.members = [db.members EXCEPT ![db.invites[i].org] =
                                  [db.members[db.invites[i].org] EXCEPT
                                     ![db.invites[i].user] = db.invites[i].role]]
        BY <3>2 DEF Accepts, Fields
      <4>2. db.invites[i] \in InviteRows
        BY <1>0, <4>1, RowsAre
      <4>3. /\ db.invites[i].org \in Orgs /\ db.invites[i].user \in Users
            /\ db.invites[i].role \in Roles
        BY <4>2 DEF InviteRows
      <4>4. Owners(db.invites[i].org) = {db.invites[i].user}
              => <<"demoted", db.invites[i].org>> \in slips'
        BY <4>1 DEF Slip
      <4>5. QED
        BY ZenonT(60), <4>1, <4>3, <4>4
    <3>3. QED
      BY <1>3, <3>1, <3>2
  <2>2. QED
    BY <1>0, <2>1, RoleWritten
<1>4. ASSUME Transfers
      PROVE  Still
  <2>1. PICK v \in Users, o \in Orgs, seen \in SUBSET Users :
          /\ slips' = slips \cup Slip("owners", o, seen # Owners(o) \/ Role(v, o) = NoRole)
          /\ Fields(db', db.users, [db.orgs EXCEPT ![o] = [db.orgs[o] EXCEPT !.owner = v]],
                    [db.members EXCEPT ![o] = Transferred(o, v, seen)],
                    db.invites, db.codes, db.tokens, db.traces)
    BY <1>4 DEF Transfers
  <2>m. db'.members = [db.members EXCEPT ![o] = Transferred(o, v, seen)]
    BY <2>1 DEF Fields
  <2>2. \A p \in Orgs : Row(db'.orgs[p]) => Row(db.orgs[p])
    <3>1. PICK w \in Users, q \in Orgs :
            /\ Row(db.orgs[q])
            /\ db'.orgs = [db.orgs EXCEPT ![q] = [db.orgs[q] EXCEPT !.owner = w]]
      BY <1>4 DEF Transfers, Fields
    <3>2. QED
      BY <1>0, <3>1 DEF TablesInv
  <2>3. \A p \in Orgs : p # o => db'.members[p] = db.members[p]
    BY <1>0, <2>m DEF TablesInv
  <2>4. db'.members[o] = Transferred(o, v, seen)
    BY <1>0, <2>1, <2>m DEF TablesInv
  <2>5. CASE Role(v, o) = NoRole
    <3>1. <<"owners", o>> \in slips'
      BY <2>1, <2>5 DEF Slip
    <3>2. OwnedStill(o)
      BY <3>1 DEF OwnedStill
    <3>3. QED
      BY <2>2, <2>3, <3>2, SameOwners
  <2>6. CASE Role(v, o) # NoRole
    <3>0. db'.members[o][v] = "owner"
      BY <2>4, <2>6 DEF Transferred
    <3>1. v \in Owners(o)'
      BY <3>0 DEF Owners
    <3>2. OwnedStill(o)
      BY <3>1 DEF OwnedStill, Ownerless
    <3>3. QED
      BY <2>2, <2>3, <3>2, SameOwners
  <2>7. QED
    BY <2>5, <2>6
<1>5. ASSUME Leaves
      PROVE  Still
  <2>1. PICK u \in Users, o \in Orgs, to \in Orgs \cup {Unborn}, owners \in SUBSET Users :
          /\ u \in owners => \E w \in owners : w # u
          /\ slips' = slips \cup (Slip("owners", o, Owners(o) # owners)
                                    \cup Slip("current", u, to \notin Fallbacks(db, u, o)))
          /\ db'.orgs = db.orgs
          /\ db'.members = [db.members EXCEPT ![o] = [db.members[o] EXCEPT ![u] = NoRole]]
    BY ZenonT(40), <1>5 DEF Leaves, Fields
  <2>2. Owners(o) = {u} => <<"owners", o>> \in slips'
    <3>1. ASSUME Owners(o) = {u}
          PROVE  Owners(o) # owners
      BY <2>1, <3>1
    <3>2. QED
      BY <2>1, <3>1 DEF Slip
  <2>3. QED
    BY <2>1, <2>2, RoleWritten
<1>6. ASSUME DeletesOrg
      PROVE  Still
  <2>1. PICK o \in Orgs : /\ db'.orgs = [db.orgs EXCEPT ![o] = Gone]
                          /\ db'.members = CutMembers(db.members, o)
    <3>1. PICK r \in Requests, o \in Orgs : \E to :
            Fields(db', [u \in Users |-> IF to[u] # Unborn /\ Row(db.users[u])
                                           THEN [db.users[u] EXCEPT !.org = to[u]]
                                           ELSE db.users[u]],
                   [db.orgs EXCEPT ![o] = Gone], CutMembers(db.members, o),
                   CutInvites(db.invites, o), db.codes, db.tokens, db.traces)
      BY <1>6 DEF DeletesOrg
    <3>2. QED
      BY <3>1 DEF Fields
  <2>2. ASSUME NEW p \in Orgs
        PROVE  OwnedStill(p)
    <3>1. CASE p = o
      <4>1. db'.orgs[o] = Gone
        BY <1>0, <2>1 DEF TablesInv
      <4>2. QED
        BY <3>1, <4>1, NewRows DEF OwnedStill, Ownerless, Row
    <3>2. CASE p # o
      BY <1>0, <2>1, <3>2, SameOwners DEF CutMembers, TablesInv
    <3>3. QED
      BY <3>1, <3>2
  <2>3. QED
    BY <2>2
<1>7. ASSUME Unregisters
      PROVE  Still
  <2>1. PICK u \in Users, o \in Orgs :
          /\ slips' = slips \cup {<<"demoted", p>> : p \in {q \in Orgs : Owners(q) = {u}}}
          /\ db'.orgs = [db.orgs EXCEPT ![o] = Gone]
          /\ db'.members = CutMembers([p \in Orgs |-> [db.members[p] EXCEPT ![u] = NoRole]], o)
    BY <1>7 DEF Unregisters, Fields
  <2>2. ASSUME NEW p \in Orgs
        PROVE  OwnedStill(p)
    <3>1. CASE p = o
      <4>1. db'.orgs[o] = Gone
        BY <1>0, <2>1 DEF TablesInv
      <4>2. QED
        BY <3>1, <4>1, NewRows DEF OwnedStill, Ownerless, Row
    <3>2. CASE p # o
      <4>1. db'.orgs[p] = db.orgs[p]
        BY <1>0, <2>1, <3>2 DEF TablesInv
      <4>2. db'.members[p] = [db.members[p] EXCEPT ![u] = NoRole]
        BY <2>1, <3>2 DEF CutMembers
      <4>3. \A v \in Users : v # u => db'.members[p][v] = db.members[p][v]
        BY <1>0, <4>2 DEF TablesInv
      <4>4. Owners(p)' = {} => Owners(p) = {} \/ Owners(p) = {u}
        <5>1. ASSUME Owners(p)' = {}
              PROVE  \A v \in Owners(p) : v = u
          BY <4>3, <5>1 DEF Owners
        <5>2. QED
          BY <5>1
      <4>5. Owners(p) = {u} => <<"demoted", p>> \in slips'
        BY <2>1
      <4>6. QED
        BY <4>1, <4>4, <4>5 DEF OwnedStill, Ownerless, Row
    <3>3. QED
      BY <3>1, <3>2
  <2>3. QED
    BY <2>2
<1>8. Still
  BY <1>1, <1>2, <1>3, <1>4, <1>5, <1>6, <1>7, Written
<1> HIDE DEF Still
<1>9. QED
  BY <1>8, SlipsGrow, OwnersCarried DEF Still

-----------------------------------------------------------------------------
(* The keys are counted and the traces are kept.                            *)

LEMMA UsageStep ==
  ASSUME BaseInv, UsageCountsKeys, Forms
  PROVE  UsageCountsKeys'
<1>1. CASE db'.orgs = db.orgs
  BY <1>1 DEF UsageCountsKeys, Row
<1>2. ASSUME NEW o \in Orgs, NEW row, OrgEdit(o, row),
             db'.orgs = [db.orgs EXCEPT ![o] = row]
      PROVE  UsageCountsKeys'
  <2>1. \A p \in Orgs : db'.orgs[p] = IF p = o THEN row ELSE db.orgs[p]
    BY <1>2 DEF BaseInv, TablesInv
  <2>2. Row(row) => Counts(row)
    BY <1>2, NewRows DEF OrgEdit, UsageCountsKeys, Counts
  <2>3. \A p \in Orgs : Row(db'.orgs[p]) => Counts(db'.orgs[p])
    BY <2>1, <2>2 DEF UsageCountsKeys, Counts
  <2>4. QED
    BY <2>3 DEF UsageCountsKeys, Counts, Row
<1>3. QED
  BY <1>1, <1>2, OrgWritten

\* What may explain that an organization has no traces stays what it is.
Excused(o) ==
  \/ <<"refused", o>> \in slips
  \/ \E r \in Requests : At(r, "unregistering") /\ known[r].org = o

LEMMA ExcuseStays ==
  ASSUME StandsInv, Forms, NEW o \in Orgs, Excused(o), NoneLeaves("unregistering")
  PROVE  Excused(o)'
<1>1. CASE <<"refused", o>> \in slips
  <2>1. <<"refused", o>> \in slips'
    BY <1>1, SlipsGrow
  <2>2. QED
    BY <2>1 DEF Excused
<1>2. ASSUME NEW r \in Requests, at[r] = "unregistering", known[r].org = o
      PROVE  Excused(o)'
  <2>1. at'[r] = "unregistering" /\ known'[r].org = o
    BY <1>2 DEF NoneLeaves
  <2>2. QED
    BY <2>1 DEF Excused, At
<1>3. QED
  BY <1>1, <1>2 DEF Excused, At

\* A deletion that ends, of an account or with a refusal, excuses its own
\* organization only.
LEMMA OthersExcused ==
  ASSUME StandsInv, Forms, NEW r \in Requests, NEW o \in Orgs, NEW p \in Orgs, p # o,
         Goes(r, "unregistering", "done", Unborn), known[r].org = o, Excused(p)
  PROVE  Excused(p)'
<1>1. CASE <<"refused", p>> \in slips
  <2>1. <<"refused", p>> \in slips'
    BY <1>1, SlipsGrow
  <2>2. QED
    BY <2>1 DEF Excused
<1>2. ASSUME NEW q \in Requests, at[q] = "unregistering", known[q].org = p
      PROVE  Excused(p)'
  <2>1. at'[q] = "unregistering" /\ known'[q].org = p
    BY <1>2 DEF Goes, StandsInv
  <2>2. QED
    BY <2>1 DEF Excused, At
<1>3. QED
  BY <1>1, <1>2 DEF Excused, At

LEMMA TracesStep ==
  ASSUME BaseInv, TracesInv, Forms
  PROVE  TracesInv'
<1>0. TablesInv /\ StandsInv /\ TracesKept /\ PurgedGone
  BY DEF BaseInv, TracesInv
<1>1. PurgedGone'
  <2>1. CASE DeletesOrg
    <3>1. PICK r \in Requests, o \in Orgs : \E to :
            /\ Goes(r, "relocating", "purging", [org |-> o])
            /\ Fields(db', [u \in Users |-> IF to[u] # Unborn /\ Row(db.users[u])
                                              THEN [db.users[u] EXCEPT !.org = to[u]]
                                              ELSE db.users[u]],
                      [db.orgs EXCEPT ![o] = Gone], CutMembers(db.members, o),
                      CutInvites(db.invites, o), db.codes, db.tokens, db.traces)
      BY <2>1 DEF DeletesOrg
    <3>2. db'.orgs[o] = Gone
      BY <1>0, <3>1 DEF Fields, TablesInv
    <3>3. \A q \in Requests :
            IF q = r THEN known'[q] = [org |-> o]
                     ELSE at'[q] = at[q] /\ known'[q] = known[q]
      BY <1>0, <3>1 DEF Goes, StandsInv
    <3>4. ASSUME NEW q \in Requests, at'[q] = "purging"
          PROVE  db'.orgs[known'[q].org] = Gone
      <4>1. CASE q = r
        BY <3>1, <3>2, <3>3, <4>1
      <4>2. CASE q # r
        <5>1. at[q] = "purging" /\ known'[q] = known[q]
          BY <3>3, <3>4, <4>2
        <5>2. known[q].org \in Orgs /\ db.orgs[known[q].org] = Gone
          BY <1>0, <5>1, Known DEF PurgedGone, At
        <5>3. QED
          BY <5>1, <5>2, OrgsFrom
      <4>3. QED
        BY <4>1, <4>2
    <3>5. QED
      BY <3>4 DEF PurgedGone, At
  <2>2. CASE ~DeletesOrg
    <3>1. NoneEnters("purging")
      BY <1>0, <2>2, Coming DEF Comings
    <3>2. ASSUME NEW q \in Requests, at'[q] = "purging"
          PROVE  db'.orgs[known'[q].org] = Gone
      <4>1. at[q] = "purging" /\ known'[q] = known[q]
        BY <3>1, <3>2 DEF NoneEnters
      <4>2. known[q].org \in Orgs /\ db.orgs[known[q].org] = Gone
        BY <1>0, <4>1, Known DEF PurgedGone, At
      <4>3. QED
        BY <4>1, <4>2, OrgsFrom
    <3>3. QED
      BY <3>2 DEF PurgedGone, At
  <2>3. QED
    BY <2>1, <2>2
<1> DEFINE Lost(o) == Row(db.orgs[o]) /\ o \notin db.traces
<1>2. \A o \in Orgs : Lost(o) => Excused(o)
  BY <1>0 DEF TracesKept, Excused
<1>3. ASSUME NEW o \in Orgs, Row(db'.orgs[o]), o \notin db'.traces
      PROVE  Excused(o)'
  <2>1. CASE Founds \/ Registers
    <3>1. PICK p \in Orgs, u \in Users, plan \in {"Free", NoPlan} :
            /\ db'.orgs = [db.orgs EXCEPT ![p] = NewOrg(u, plan)]
            /\ db'.traces = db.traces \cup {p}
      <4>1. CASE Founds
        BY <4>1 DEF Founds, Fields
      <4>2. CASE Registers
        BY <4>2 DEF Registers, Fields
      <4>3. QED
        BY <2>1, <4>1, <4>2
    <3>2. o # p /\ o \notin db.traces
      BY <1>3, <3>1
    <3>3. db'.orgs[o] = db.orgs[o]
      BY <1>0, <3>1, <3>2 DEF TablesInv
    <3>4. Excused(o)
      BY <1>2, <1>3, <3>2, <3>3
    <3>5. NoneLeaves("unregistering")
      <4>1. Quits
        BY <2>1 DEF Founds, Registers
      <4>2. QED
        BY <1>0, <4>1, QuitsElsewhere
    <3>6. QED
      BY <1>0, <3>4, <3>5, ExcuseStays
  <2>2. CASE DropsTraces
    <3>1. PICK r \in Requests, u \in Users, p \in Orgs :
            /\ Goes(r, "session", "unregistering", [user |-> u, org |-> p])
            /\ db'.orgs = db.orgs /\ db'.traces = db.traces \ {p}
      BY <2>2 DEF DropsTraces, Fields
    <3>2. CASE o = p
      <4>1. at'[r] = "unregistering" /\ known'[r] = [user |-> u, org |-> p]
        BY <1>0, <3>1 DEF Goes, StandsInv
      <4>2. known'[r].org = o
        BY <3>2, <4>1
      <4>3. QED
        BY <4>1, <4>2 DEF Excused, At
    <3>3. CASE o # p
      <4>1. Excused(o)
        BY <1>2, <1>3, <3>1, <3>3
      <4>2. NoneLeaves("unregistering")
        BY <1>0, <3>1, GoesElsewhere
      <4>3. QED
        BY <1>0, <4>1, <4>2, ExcuseStays
    <3>4. QED
      BY <3>2, <3>3
  <2>3. CASE Unregisters
    <3>1. PICK r \in Requests, p \in Orgs :
            /\ Goes(r, "unregistering", "done", Unborn) /\ known[r].org = p
            /\ db'.orgs = [db.orgs EXCEPT ![p] = Gone] /\ db'.traces = db.traces
      BY <2>3 DEF Unregisters, Fields
    <3>2. \A q \in Orgs : db'.orgs[q] = IF q = p THEN Gone ELSE db.orgs[q]
      BY <1>0, <3>1 DEF TablesInv
    <3>3. o # p /\ db'.orgs[o] = db.orgs[o]
      BY <1>3, <3>2, NewRows
    <3>4. Excused(o)
      BY <1>2, <1>3, <3>1, <3>3
    <3>5. QED
      BY <1>0, <3>1, <3>3, <3>4, OthersExcused
  <2>4. CASE IsRefused
    <3>1. PICK r \in Requests, p \in Orgs :
            /\ Goes(r, "unregistering", "done", Unborn) /\ known[r].org = p
            /\ slips' = slips \cup {<<"refused", p>>} /\ db' = db
      BY <2>4 DEF IsRefused
    <3>2. CASE o = p
      <4>1. <<"refused", o>> \in slips'
        BY <3>1, <3>2
      <4>2. QED
        BY <4>1 DEF Excused
    <3>3. CASE o # p
      <4>1. Excused(o)
        BY <1>2, <1>3, <3>1
      <4>2. QED
        BY <1>0, <3>1, <3>3, <4>1, OthersExcused
    <3>4. QED
      BY <3>2, <3>3
  <2>5. CASE ~(Founds \/ Registers \/ DropsTraces \/ Unregisters \/ IsRefused)
    <3>1. NoneLeaves("unregistering")
      BY <1>0, <2>5, Coming DEF Comings
    <3>2. Row(db.orgs[o])
      BY <1>3, <2>5, OrgsFrom
    <3>3. o \notin db.traces
      <4>1. CASE db'.traces = db.traces
        BY <1>3, <4>1
      <4>2. CASE Purges
        <5>1. PICK p \in Orgs, x \in SUBSET Orgs :
                /\ db.orgs[p] = Gone /\ x \in {db.traces, db.traces \ {p}}
                /\ db'.traces = x
          BY <4>2 DEF Purges, Fields
        <5>2. o # p
          BY <3>2, <5>1, NewRows
        <5>3. QED
          BY <1>3, <5>1, <5>2
      <4>3. QED
        BY <2>5, <4>1, <4>2, Written
    <3>4. Excused(o)
      BY <1>2, <3>2, <3>3
    <3>5. QED
      BY <1>0, <3>1, <3>4, ExcuseStays
  <2>6. QED
    BY <2>1, <2>2, <2>3, <2>4, <2>5
<1>4. TracesKept'
  BY <1>3 DEF TracesKept, Excused, Row
<1>5. QED
  BY <1>1, <1>4 DEF TracesInv


-----------------------------------------------------------------------------
(* The invariant holds at first and in every step.                          *)

LEMMA InitInv ==
  ASSUME Init
  PROVE  AccountsInv
<1>1. PICK start \in Starts, added \in Roles \cup {NoRole}, moved \in Orgs, host \in Orgs,
           invited \in BOOLEAN :
        /\ FirstRole(Guest, moved, added, start.founded) # NoRole
        /\ host \in Homes \ {Home[Guest]}
        /\ db = [users   |-> [u \in Users |-> FirstUser(u, start.row, moved)],
                 orgs    |-> [o \in Orgs |->
                               FirstOrg(o, IF start.row.used THEN Keys ELSE {}, start.founded)],
                 members |-> [o \in Orgs |-> [u \in Users |-> FirstRole(u, o, added, start.founded)]],
                 invites |-> [i \in Invites |-> FirstInvite(i, host, invited)],
                 codes   |-> [c \in Codes |-> Unborn],
                 tokens  |-> [t \in Tokens |-> Unborn],
                 traces  |-> Homes \cup start.founded]
        /\ at = start.at
  BY DEF Init
<1> DEFINE kept == IF start.row.used THEN Keys ELSE {}
           Theirs == Homes \cup start.founded
<1>2. /\ known = [r \in Requests |-> Unborn] /\ slips = {}
      /\ uses = [x \in Users \cup Codes \cup Tokens |->
                   IF x \in DOMAIN Home /\ db.users[x].used THEN 1 ELSE 0]
  BY DEF Init
<1>3. /\ DOMAIN db = DbFields
      /\ db.users = [u \in Users |-> FirstUser(u, start.row, moved)]
      /\ db.orgs = [o \in Orgs |-> FirstOrg(o, kept, start.founded)]
      /\ db.members = [o \in Orgs |-> [u \in Users |-> FirstRole(u, o, added, start.founded)]]
      /\ db.invites = [i \in Invites |-> FirstInvite(i, host, invited)]
      /\ db.codes = [c \in Codes |-> Unborn] /\ db.tokens = [t \in Tokens |-> Unborn]
      /\ db.traces = Theirs
  <2> HIDE DEF kept
  <2> DEFINE us == [u \in Users |-> FirstUser(u, start.row, moved)]
             os == [o \in Orgs |-> FirstOrg(o, kept, start.founded)]
             ms == [o \in Orgs |-> [u \in Users |-> FirstRole(u, o, added, start.founded)]]
             is == [i \in Invites |-> FirstInvite(i, host, invited)]
             cs == [c \in Codes |-> Unborn]
             ts == [t \in Tokens |-> Unborn]
  <2>1. db = [users |-> us, orgs |-> os, members |-> ms, invites |-> is, codes |-> cs,
              tokens |-> ts, traces |-> Theirs]
    BY <1>1 DEF kept
  <2> HIDE DEF us, os, ms, is, cs, ts
  <2>2. /\ DOMAIN db = DbFields /\ db.users = us /\ db.orgs = os /\ db.members = ms
        /\ db.invites = is /\ db.codes = cs /\ db.tokens = ts /\ db.traces = Theirs
    BY <2>1 DEF DbFields
  <2>3. QED
    BY <2>2 DEF us, os, ms, is, cs, ts
<1>4. /\ DOMAIN Home \subseteq Users /\ Homes \subseteq Orgs
      /\ Guest \in Users /\ Guest \in DOMAIN Home /\ \A u \in DOMAIN Home : Home[u] \in Homes
      /\ start.founded \subseteq Orgs \ Homes /\ Theirs \subseteq Orgs
      /\ start.row \in UserRows /\ at \in [Requests -> Parts \cup {"done"}]
  BY <1>1, StartsAssumption DEF Homes
<1>5. moved \in Theirs /\ host \in Theirs
  BY <1>1 DEF FirstRole
<1>6. kept \in SUBSET Keys /\ Cardinality(kept) \in Nat
  <2>1. IsFiniteSet(kept)
    BY IdentifiersAssumption, FS_EmptySet
  <2>2. QED
    BY <2>1, FS_CardinalityType
<1> HIDE DEF kept
<1>7. ASSUME NEW o \in Theirs
      PROVE  db.orgs[o] \in OrgRows /\ db.orgs[o].usage = Cardinality(db.orgs[o].keys)
  <2>1. CASE o \in start.founded
    <3>1. db.orgs[o] = NewOrg(Guest, "Free")
      BY <1>3, <1>4, <2>1 DEF FirstOrg
    <3>2. NewOrg(Guest, "Free") \in OrgRows
      BY <1>4, NewRows DEF Tiers
    <3>3. db.orgs[o].usage = 0 /\ db.orgs[o].keys = {}
      BY <3>1 DEF NewOrg
    <3>4. QED
      BY <3>1, <3>2, <3>3, FS_EmptySet
  <2>2. CASE o \notin start.founded
    <3> DEFINE u == CHOOSE v \in DOMAIN Home : Home[v] = o
    <3>1. o \in Homes
      BY <2>2
    <3>2. u \in DOMAIN Home /\ Home[u] = o
      BY <3>1 DEF Homes
    <3>3. NewOrg(u, NoPlan) \in OrgRows
      BY <1>4, <3>2, NewRows
    <3>4. db.orgs[o] = [NewOrg(u, NoPlan) EXCEPT !.keys = kept, !.usage = Cardinality(kept)]
      BY <1>3, <1>4, <2>2, <3>1 DEF FirstOrg
    <3> HIDE DEF u
    <3>5. QED
      BY <1>6, <3>3, <3>4 DEF OrgRows
  <2>3. QED
    BY <2>1, <2>2
<1>8. \A o \in Orgs : o \notin Theirs => db.orgs[o] = Unborn
  BY <1>3 DEF FirstOrg
<1>9. \A o \in Orgs : Row(db.orgs[o]) <=> o \in Theirs
  BY <1>7, <1>8, NewRows
<1>10. ASSUME NEW u \in DOMAIN Home
       PROVE  db.users[u] \in UserRows /\ db.users[u].org \in Theirs
  <2>1. CASE u = Guest
    <3>1. db.users[u] = NewUser(moved)
      BY <1>3, <1>4, <2>1 DEF FirstUser
    <3>2. QED
      BY <1>5, <3>1, NewRows DEF NewUser
  <2>2. CASE u # Guest
    <3>1. db.users[u] = [start.row EXCEPT !.org = Home[u]]
      BY <1>3, <1>4, <2>2 DEF FirstUser
    <3>2. Home[u] \in Theirs /\ Home[u] \in Orgs
      BY <1>4
    <3>3. [start.row EXCEPT !.org = Home[u]] \in UserRows
      BY <1>4, <3>2, RowUpdates
    <3>4. [start.row EXCEPT !.org = Home[u]].org = Home[u]
      BY <1>4, UserFields
    <3>5. QED
      BY <3>1, <3>2, <3>3, <3>4
  <2>3. QED
    BY <2>1, <2>2
<1>11. \A u \in Users : u \notin DOMAIN Home => db.users[u] = Unborn
  BY <1>3, <1>4 DEF FirstUser
<1>12. ASSUME NEW i \in Invites
       PROVE  db.invites[i] = Unborn \/ (db.invites[i] \in InviteRows /\ db.invites[i].org = host)
  <2>1. \/ db.invites[i] = Unborn
        \/ db.invites[i] = [org |-> host, user |-> Guest, role |-> "member", status |-> "pending"]
    BY <1>3 DEF FirstInvite
  <2>2. QED
    BY <1>4, <2>1 DEF InviteRows, Roles
<1>13. \A o \in Orgs, u \in Users :
         /\ db.members[o][u] \in Roles \cup {NoRole}
         /\ db.members[o][u] # NoRole => o \in Theirs /\ u \in DOMAIN Home
         /\ u \in DOMAIN Home /\ Home[u] = o => db.members[o][u] = "owner"
  BY <1>1, <1>3, <1>4 DEF FirstRole, Roles
<1>14. TablesInv
  <2>1. db.users \in [Users -> UserRows \cup Absent]
    BY <1>3, <1>10, <1>11 DEF Absent
  <2>2. db.orgs \in [Orgs -> OrgRows \cup Absent]
    BY <1>3, <1>7, <1>8 DEF Absent
  <2>3. db.members \in [Orgs -> [Users -> Roles \cup {NoRole}]]
    BY <1>3, <1>13
  <2>4. db.invites \in [Invites -> InviteRows \cup Absent]
    BY <1>3, <1>12 DEF Absent
  <2>5. QED
    BY <1>3, <1>4, <2>1, <2>2, <2>3, <2>4 DEF TablesInv, Absent
<1>15. RefsInv
  <2>1. CurrentsRefer
    BY <1>4, <1>9, <1>10, <1>11, NewRows DEF CurrentsRefer
  <2>2. MembersRefer
    BY <1>9, <1>10, <1>13, NewRows DEF MembersRefer
  <2>3. InvitesRefer
    BY <1>4, <1>5, <1>9, <1>12, NewRows DEF InvitesRefer
  <2>4. CodesRefer
    BY <1>3, NewRows DEF CodesRefer
  <2>5. QED
    BY <2>1, <2>2, <2>3, <2>4 DEF RefsInv
<1>16. \A r \in Requests : at[r] \in {"organization", "plan", "session", "done"}
  BY <1>4 DEF Parts
<1>17. /\ \A u \in Users : uses[u] \in {0, 1} /\ (Untried(u) => uses[u] = 0)
       /\ \A x \in Codes \cup Tokens : uses[x] = 0
  <2>1. \A x \in Users \cup Codes \cup Tokens :
          uses[x] = IF x \in DOMAIN Home /\ db.users[x].used THEN 1 ELSE 0
    BY <1>2
  <2>2. \A x \in Codes \cup Tokens : x \notin DOMAIN Home
    BY <1>4, IdentifiersAssumption
  <2>3. ASSUME NEW u \in Users, Untried(u)
        PROVE  ~(u \in DOMAIN Home /\ db.users[u].used)
    <3>1. u \in DOMAIN Home => db.users[u] # Unborn
      BY <1>10, NewRows
    <3>2. QED
      BY <2>3, <3>1 DEF Untried
  <2>4. QED
    BY <2>1, <2>2, <2>3
<1>18. StandsInv
  <2>1. uses \in [Users \cup Codes \cup Tokens -> Nat]
    BY <1>2, <1>17
  <2>2. at \in [Requests -> Stages]
    BY <1>4 DEF Parts, Stages
  <2>3. \A r \in Requests : Knows(at[r], known[r])
    BY <1>16 DEF Knows, Stages
  <2>4. QED
    BY <1>2, <2>1, <2>2, <2>3 DEF StandsInv
<1>19. TrialsInv /\ SpendInv
  BY <1>16, <1>17 DEF TrialsInv, SpendInv, At
<1>20. TokensInv
  BY <1>16, <1>17 DEF TokensInv, At
<1>21. InvitesNewest
  <2>1. ASSUME NEW i \in Invites, Row(db.invites[i])
        PROVE  i = CHOOSE j \in Invites : TRUE
    BY <1>3, <2>1, NewRows DEF FirstInvite
  <2>2. QED
    BY <2>1 DEF InvitesNewest, Pending
<1>22. CodesNewest
  BY <1>3, NewRows DEF CodesNewest, Live
<1>23. OwnerKept
  <2>1. ASSUME NEW o \in Theirs
        PROVE  Owners(o) # {}
    <3>1. PICK u \in Users : db.members[o][u] = "owner"
      <4>1. CASE o \in start.founded
        BY <1>3, <1>4, <4>1 DEF FirstRole
      <4>2. CASE o \in Homes
        <5>1. PICK u \in DOMAIN Home : Home[u] = o
          BY <4>2 DEF Homes
        <5>2. db.members[o][u] = "owner"
          BY <1>4, <1>13, <5>1
        <5>3. QED
          BY <1>4, <5>2
      <4>3. QED
        BY <4>1, <4>2
    <3>2. QED
      BY <3>1 DEF Owners
  <2>2. QED
    BY <1>9, <2>1 DEF OwnerKept
<1>24. UsageCountsKeys
  BY <1>7, <1>9 DEF UsageCountsKeys
<1>25. TracesInv
  BY <1>3, <1>9, <1>16 DEF TracesInv, TracesKept, PurgedGone, At
<1>26. QED
  BY <1>14, <1>15, <1>18, <1>19, <1>20, <1>21, <1>22, <1>23, <1>24, <1>25 DEF AccountsInv

\* A step that changes nothing.
LEMMA StutterInv ==
  ASSUME AccountsInv, UNCHANGED vars
  PROVE  AccountsInv'
<1>1. UNCHANGED <<db, at, known, uses, slips>>
  BY DEF vars
<1>2. TablesInv' /\ RefsInv'
  BY <1>1 DEF AccountsInv, TablesInv, RefsInv, CurrentsRefer, MembersRefer, InvitesRefer,
     CodesRefer, Row
<1>3. StandsInv'
  BY <1>1 DEF AccountsInv, StandsInv, Knows
<1>4. TrialsInv' /\ SpendInv' /\ TokensInv'
  BY <1>1 DEF AccountsInv, TrialsInv, SpendInv, TokensInv, Untried, Startable, Unspent, At, Row
<1>5. InvitesNewest' /\ CodesNewest'
  BY <1>1 DEF AccountsInv, InvitesNewest, CodesNewest, Pending, Live, Row
<1>6. OwnerKept' /\ UsageCountsKeys'
  BY <1>1 DEF AccountsInv, OwnerKept, UsageCountsKeys, Owners, Row
<1>7. TracesInv'
  BY <1>1 DEF AccountsInv, TracesInv, TracesKept, PurgedGone, At, Row
<1>8. QED
  BY <1>2, <1>3, <1>4, <1>5, <1>6, <1>7 DEF AccountsInv

LEMMA FormsInv ==
  ASSUME AccountsInv, Forms
  PROVE  AccountsInv'
<1>1. /\ BaseInv /\ TrialsInv /\ SpendInv /\ TokensInv /\ InvitesNewest /\ CodesNewest
      /\ OwnerKept /\ UsageCountsKeys /\ TracesInv
  BY DEF AccountsInv, BaseInv
<1>2. TablesInv' /\ RefsInv' /\ StandsInv'
  BY <1>1, TablesStep, RefsStep, StandsStep DEF BaseInv
<1>3. TrialsInv' /\ SpendInv' /\ TokensInv'
  BY <1>1, TrialsStep, SpendStep, TokensStep
<1>4. InvitesNewest' /\ CodesNewest' /\ OwnerKept'
  BY <1>1, InvitesStep, CodesStep, OwnerStep
<1>5. UsageCountsKeys' /\ TracesInv'
  BY <1>1, UsageStep, TracesStep
<1>6. QED
  BY <1>2, <1>3, <1>4, <1>5 DEF AccountsInv

LEMMA NextForms ==
  ASSUME AccountsInv, Next
  PROVE  Forms
BY NextIsForms DEF AccountsInv, BaseInv, TracesInv

\* AccountsInv is inductive: the tables are well formed and refer to rows that
\* are there, and what each request has read is what it goes on to rely on.
THEOREM AccountsStaySound == Spec => []AccountsInv
<1>1. Init => AccountsInv
  BY InitInv
<1>2. AccountsInv /\ [Next]_vars => AccountsInv'
  BY NextForms, FormsInv, StutterInv
<1>3. QED
  BY <1>1, <1>2, PTL DEF Spec


-----------------------------------------------------------------------------
(* What follows from the invariant.                                         *)

\* OneShot: no account has a second trial, no reset code sets a second password,
\* and a refresh token that is exchanged twice was exchanged by two at once.
THEOREM OneShotsAreUsedOnce == Spec => []OneShot
<1>1. AccountsInv => OneShot
  <2>1. SUFFICES ASSUME AccountsInv, NEW x \in DOMAIN uses, uses[x] > 1
                 PROVE  <<"token", x>> \in slips
    BY DEF OneShot
  <2>2. x \in Users \cup Codes \cup Tokens /\ uses[x] \in Nat
    BY <2>1 DEF AccountsInv, StandsInv
  <2>3. x \notin Users /\ x \notin Codes
    BY <2>1, <2>2 DEF AccountsInv, TrialsInv, SpendInv
  <2>4. QED
    BY <2>1, <2>2, <2>3 DEF AccountsInv, TokensInv
<1>2. QED
  BY <1>1, AccountsStaySound, PTL

\* OwnerKept: only a role given to the last owner, that owner's deletion or two
\* overlapping changes of owners leave an organization without one.
THEOREM OrganizationsKeepAnOwner == Spec => []OwnerKept
<1>1. AccountsInv => OwnerKept
  BY DEF AccountsInv
<1>2. QED
  BY <1>1, AccountsStaySound, PTL

LEMMA TwoOfThem ==
  ASSUME NEW S, Cardinality(S) > 1
  PROVE  \E x, y \in S : x # y
<1>1. SUFFICES ASSUME \A x, y \in S : x = y
               PROVE  FALSE
  OBVIOUS
<1>2. CASE S = {}
  BY <1>2, FS_EmptySet
<1>3. CASE S # {}
  <2>1. PICK x \in S : TRUE
    BY <1>3
  <2>2. S = {x}
    BY <1>1, <2>1
  <2>3. Cardinality(S) = 1
    BY <2>2, FS_Singleton
  <2>4. QED
    BY <2>3
<1>4. QED
  BY <1>2, <1>3

\* NewestOnly: an address has one pending invitation to an organization and a
\* user one live reset code, unless two were made at once.
THEOREM NewestStaysAlone == Spec => []NewestOnly
<1>1. AccountsInv => NewestOnly
  <2>1. SUFFICES ASSUME AccountsInv
                 PROVE  NewestOnly
    OBVIOUS
  <2>2. ASSUME NEW o \in Orgs, NEW v \in Users, Cardinality(Pending(o, v)) > 1
        PROVE  <<"invites", <<o, v>>>> \in slips
    <3>1. \E i, j \in Pending(o, v) : i # j
      BY <2>2, TwoOfThem
    <3>2. QED
      BY <2>1, <3>1 DEF AccountsInv, InvitesNewest
  <2>3. ASSUME NEW u \in Users, Cardinality(Live(u)) > 1
        PROVE  <<"codes", u>> \in slips
    <3>1. \E c, d \in Live(u) : c # d
      BY <2>3, TwoOfThem
    <3>2. QED
      BY <2>1, <3>1 DEF AccountsInv, CodesNewest
  <2>4. QED
    BY <2>2, <2>3 DEF NewestOnly
<1>2. QED
  BY <1>1, AccountsStaySound, PTL

\* OrgsIntact: every reference is to a row that is there, the usage counter is
\* the number of keys, and no organization that stays loses its traces but to
\* an account deletion that is under way or was refused.
THEOREM OrganizationsStayIntact == Spec => []OrgsIntact
<1>1. AccountsInv => OrgsIntact
  <2>1. SUFFICES ASSUME AccountsInv
                 PROVE  OrgsIntact
    OBVIOUS
  <2>2. TablesInv /\ RefsInv /\ StandsInv
    BY <2>1 DEF AccountsInv
  <2>3. /\ DOMAIN db = DbFields /\ db.traces \subseteq Orgs
        /\ db.members \in [Orgs -> [Users -> Roles \cup {NoRole}]]
        /\ uses \in [Users \cup Codes \cup Tokens -> Nat]
    BY <2>2 DEF TablesInv, StandsInv
  <2>4. Sound(db)
    BY <2>2 DEF Sound, RefsInv, CurrentsRefer
  <2>5. TypeOK
    BY <2>2, <2>3, <2>4, RowsAre DEF TypeOK, DbFields, RefsInv, MembersRefer, InvitesRefer,
       CodesRefer
  <2>6. QED
    BY <2>1, <2>5 DEF AccountsInv, TracesInv, OrgsIntact
<1>2. QED
  BY <1>1, AccountsStaySound, PTL

-----------------------------------------------------------------------------
(* What a step may do to a current organization and to a paid plan.         *)

\* Where an account's row and role are kept, the account stays at home.
StaysHome(u) ==
  AtHome(u) /\ Row(db'.users[u]) /\ ~AtHome(u)' =>
    MemberOf(db', u) = {} \/ <<"current", u>> \in slips'

LEMMA HomeKept ==
  ASSUME BaseInv, NEW u \in Users,
         Row(db.users[u]) /\ Row(db'.users[u]) => db'.users[u].org = db.users[u].org,
         \A o \in Orgs : db.members[o][u] # NoRole =>
           db'.members[o][u] # NoRole \/ db.users[u].org # o
  PROVE  StaysHome(u)
<1>1. SUFFICES ASSUME AtHome(u), Row(db'.users[u])
               PROVE  db'.members[db'.users[u].org][u] # NoRole
  BY DEF StaysHome, AtHome, Role, Row
<1>2. Row(db.users[u]) /\ db.members[db.users[u].org][u] # NoRole
  BY <1>1 DEF AtHome, Role
<1>3. db.users[u] \in UserRows
  BY <1>2, RowsAre DEF BaseInv
<1>4. db.users[u].org \in Orgs
  BY <1>3 DEF UserRows
<1>5. QED
  BY <1>1, <1>2, <1>4

\* Moved to a fallback, the account is at home there, or has no other home.
LEMMA FallenBack ==
  ASSUME BaseInv, NEW u \in Users, NEW o \in Orgs, Row(db.users[u]),
         NEW to \in Fallbacks(db, u, o),
         db'.users[u] = IF to = Unborn THEN db.users[u] ELSE [db.users[u] EXCEPT !.org = to],
         \A p \in Orgs : db'.members[p][u] = IF p = o THEN NoRole ELSE db.members[p][u]
  PROVE  StaysHome(u)
<1>1. db.users[u] \in UserRows
  BY RowsAre DEF BaseInv
<1>2. db.users[u].org \in Orgs
  BY <1>1 DEF UserRows
<1> DEFINE others == MemberOf(db, u) \ {o}
<1>3. MemberOf(db', u) = others
  BY DEF MemberOf
<1>4. CASE db.users[u].org # o
  <2>1. to = Unborn
    BY <1>4 DEF Fallbacks
  <2>2. QED
    BY <1>4, <2>1, HomeKept
<1>5. CASE others = {}
  BY <1>3, <1>5 DEF StaysHome
<1>6. CASE db.users[u].org = o /\ others # {}
  <2>1. to \in others
    BY <1>6 DEF Fallbacks
  <2>2. to \in Orgs /\ to # o /\ db.members[to][u] # NoRole
    BY <2>1 DEF MemberOf
  <2>3. to # Unborn
    BY <2>2, IdentifiersAssumption
  <2>4. db'.users[u] = [db.users[u] EXCEPT !.org = to]
    BY <2>3
  <2>5. db'.users[u].org = to
    BY <1>1, <2>4 DEF UserRows
  <2>6. db'.members[db'.users[u].org][u] # NoRole
    BY <2>2, <2>5
  <2>7. QED
    BY <2>6 DEF StaysHome, AtHome, Role, Row
<1>7. QED
  BY <1>4, <1>5, <1>6

\* No form takes a current organization away from an account that has another.
LEMMA HomeStep ==
  ASSUME BaseInv, Forms, NEW u \in Users
  PROVE  StaysHome(u)
<1>0. TablesInv
  BY DEF BaseInv
<1> DEFINE SameOrg == Row(db.users[u]) /\ Row(db'.users[u]) =>
                        db'.users[u].org = db.users[u].org
           SameRoles == \A o \in Orgs :
                          db.members[o][u] # NoRole => db'.members[o][u] # NoRole
<1>1. ASSUME SameOrg, SameRoles
      PROVE  StaysHome(u)
  BY <1>1, HomeKept
<1>2. ASSUME db'.users = db.users
      PROVE  SameOrg
  BY <1>2
<1>3. ASSUME db'.members = db.members
      PROVE  SameRoles
  BY <1>3
<1>4. ASSUME NEW o \in Orgs, NEW v \in Users, NEW role \in Roles,
             db'.members = [db.members EXCEPT ![o] = [db.members[o] EXCEPT ![v] = role]]
      PROVE  SameRoles
  <2>1. role # NoRole
    BY DEF Roles, NoRole
  <2>2. \A p \in Orgs : db'.members[p][u] = IF p = o /\ u = v THEN role ELSE db.members[p][u]
    BY <1>0, <1>4 DEF TablesInv
  <2>3. QED
    BY <2>1, <2>2
<1>5. ASSUME Downgrades \/ StartsTrial \/ EndsTrial \/ Retypes
      PROVE  SameOrg /\ SameRoles
  <2>1. db'.members = db.members
    BY <1>5 DEF Downgrades, StartsTrial, EndsTrial, Retypes, Fields
  <2>2. SameOrg
    <3>1. CASE Downgrades
      <4>1. PICK v \in Users : db'.users = [db.users EXCEPT ![v] =
                 [db.users[v] EXCEPT !.type = "Free", !.trial = "none"]]
        BY <3>1 DEF Downgrades, Fields
      <4>2. db'.users[u].org = db.users[u].org \/ ~Row(db.users[u])
        BY <1>0, <4>1, RowsAre DEF TablesInv, UserRows
      <4>3. QED
        BY <4>2
    <3>2. CASE StartsTrial
      <4>1. PICK v \in Users, plan \in Tiers : db'.users = [db.users EXCEPT ![v] =
                 [db.users[v] EXCEPT !.type = plan, !.trial = "running", !.used = TRUE]]
        BY <3>2 DEF StartsTrial, Fields
      <4>2. db'.users[u].org = db.users[u].org \/ ~Row(db.users[u])
        BY <1>0, <4>1, RowsAre DEF TablesInv, UserRows
      <4>3. QED
        BY <4>2
    <3>3. CASE EndsTrial
      <4>1. PICK v \in Users :
              db'.users = [db.users EXCEPT ![v] = [db.users[v] EXCEPT !.trial = "over"]]
        BY <3>3 DEF EndsTrial, Fields
      <4>2. db'.users[u].org = db.users[u].org \/ ~Row(db.users[u])
        BY <1>0, <4>1, RowsAre DEF TablesInv, UserRows
      <4>3. QED
        BY <4>2
    <3>4. CASE Retypes
      <4>1. PICK v \in Users, type \in Tiers :
              db'.users = [db.users EXCEPT ![v] = [db.users[v] EXCEPT !.type = type]]
        BY <3>4 DEF Retypes, Fields
      <4>2. db'.users[u].org = db.users[u].org \/ ~Row(db.users[u])
        BY <1>0, <4>1, RowsAre DEF TablesInv, UserRows
      <4>3. QED
        BY <4>2
    <3>5. QED
      BY <1>5, <3>1, <3>2, <3>3, <3>4
  <2>3. QED
    BY <1>3, <2>1, <2>2
<1>6. ASSUME Founds \/ SetsRole \/ Accepts
      PROVE  SameOrg /\ SameRoles
  <2>1. db'.users = db.users
    BY <1>6 DEF Founds, SetsRole, Accepts, Fields
  <2>2. PICK v \in Users, o \in Orgs, role \in Roles :
          db'.members = [db.members EXCEPT ![o] = [db.members[o] EXCEPT ![v] = role]]
    <3>1. CASE Founds
      <4>1. "owner" \in Roles
        BY DEF Roles
      <4>2. QED
        BY <3>1, <4>1 DEF Founds, Fields
    <3>2. CASE SetsRole
      BY <3>2 DEF SetsRole, Fields
    <3>3. CASE Accepts
      <4>1. PICK i \in Invites :
              /\ Row(db.invites[i])
              /\ db'.members = [db.members EXCEPT ![db.invites[i].org] =
                                  [db.members[db.invites[i].org] EXCEPT
                                     ![db.invites[i].user] = db.invites[i].role]]
        BY <3>3 DEF Accepts, Fields
      <4>2. db.invites[i] \in InviteRows
        BY <1>0, <4>1, RowsAre
      <4>3. /\ db.invites[i].org \in Orgs /\ db.invites[i].user \in Users
            /\ db.invites[i].role \in Roles
        BY <4>2 DEF InviteRows
      <4>4. QED
        BY <4>1, <4>3
    <3>4. QED
      BY <1>6, <3>1, <3>2, <3>3
  <2>3. SameRoles
    BY <1>4, <2>2
  <2>4. QED
    BY <1>2, <2>1, <2>3
<1>7. ASSUME Transfers
      PROVE  SameOrg /\ SameRoles
  <2>1. PICK v \in Users, o \in Orgs, seen \in SUBSET Users :
          Fields(db', db.users, [db.orgs EXCEPT ![o] = [db.orgs[o] EXCEPT !.owner = v]],
                 [db.members EXCEPT ![o] = Transferred(o, v, seen)],
                 db.invites, db.codes, db.tokens, db.traces)
    BY <1>7 DEF Transfers
  <2>2. /\ db'.users = db.users
        /\ db'.members = [db.members EXCEPT ![o] = Transferred(o, v, seen)]
    BY <2>1 DEF Fields
  <2>3. Role(u, o) # NoRole => Transferred(o, v, seen)[u] # NoRole
    BY DEF Transferred, NoRole
  <2>4. SameRoles
    BY <1>0, <2>1, <2>2, <2>3 DEF TablesInv, Role
  <2>5. QED
    BY <1>2, <2>2, <2>4
<1>8. ASSUME Registers
      PROVE  SameOrg /\ SameRoles
  <2>1. PICK v \in Users, o \in Orgs :
          /\ db.users[v] = Unborn
          /\ db'.users = [db.users EXCEPT ![v] = NewUser(o)]
          /\ db'.members = [db.members EXCEPT ![o] = [db.members[o] EXCEPT ![v] = "owner"]]
    BY <1>8 DEF Registers, Fields
  <2>2. "owner" \in Roles
    BY DEF Roles
  <2>3. SameRoles
    BY <1>4, <2>1, <2>2
  <2>4. SameOrg
    BY <1>0, <2>1, NewRows DEF TablesInv
  <2>5. QED
    BY <2>3, <2>4
<1>9. ASSUME Lands
      PROVE  StaysHome(u)
  <2>1. PICK v \in Users, o \in Orgs :
          /\ Row(db.users[v])
          /\ slips' = slips \cup Slip("current", v, Role(v, o) = NoRole)
          /\ db'.users = [db.users EXCEPT ![v] = [db.users[v] EXCEPT !.org = o]]
          /\ db'.members = db.members
    BY <1>9 DEF Lands, Fields
  <2>2. CASE u = v
    <3>1. db.users[u] \in UserRows /\ db'.users[u] = [db.users[u] EXCEPT !.org = o]
      BY <1>0, <2>1, <2>2, RowsAre DEF TablesInv
    <3>2. db'.users[u].org = o
      BY <3>1, UserFields
    <3>3. Role(u, o) = NoRole => <<"current", u>> \in slips'
      BY <2>1, <2>2 DEF Slip
    <3>4. Role(u, o) # NoRole => db'.members[db'.users[u].org][u] # NoRole
      BY <2>1, <3>2 DEF Role
    <3>5. QED
      BY <3>3, <3>4 DEF StaysHome, AtHome, Role, Row
  <2>3. CASE u # v
    <3>1. db'.users[u] = db.users[u]
      BY <1>0, <2>1, <2>3 DEF TablesInv
    <3>2. QED
      BY <1>1, <1>3, <2>1, <3>1
  <2>4. QED
    BY <2>2, <2>3
<1>10. ASSUME Leaves
       PROVE  StaysHome(u)
  <2>1. PICK v \in Users, o \in Orgs, to \in Orgs \cup {Unborn}, owners \in SUBSET Users :
          /\ Row(db.users[v])
          /\ slips' = slips \cup (Slip("owners", o, Owners(o) # owners)
                                    \cup Slip("current", v, to \notin Fallbacks(db, v, o)))
          /\ Fields(db', IF to = Unborn THEN db.users
                         ELSE [db.users EXCEPT ![v] = [db.users[v] EXCEPT !.org = to]],
                    db.orgs, [db.members EXCEPT ![o] = [db.members[o] EXCEPT ![v] = NoRole]],
                    db.invites, db.codes, db.tokens, db.traces)
    BY ZenonT(40), <1>10 DEF Leaves
  <2>2. /\ db'.users = IF to = Unborn THEN db.users
                       ELSE [db.users EXCEPT ![v] = [db.users[v] EXCEPT !.org = to]]
        /\ db'.members = [db.members EXCEPT ![o] = [db.members[o] EXCEPT ![v] = NoRole]]
    BY <2>1 DEF Fields
  <2>3. CASE u # v
    <3>1. db'.users[u] = db.users[u]
      BY <1>0, <2>2, <2>3 DEF TablesInv
    <3>2. SameRoles
      BY <1>0, <2>2, <2>3 DEF TablesInv
    <3>3. QED
      BY <1>1, <3>1, <3>2
  <2>4. CASE u = v /\ to \notin Fallbacks(db, u, o)
    <3>1. <<"current", u>> \in slips'
      BY <2>1, <2>4 DEF Slip
    <3>2. QED
      BY <3>1 DEF StaysHome
  <2>5. CASE u = v /\ to \in Fallbacks(db, u, o)
    <3>1. db'.users[u] = IF to = Unborn THEN db.users[u] ELSE [db.users[u] EXCEPT !.org = to]
      BY <1>0, <2>2, <2>5 DEF TablesInv
    <3>2. \A p \in Orgs : db'.members[p][u] = IF p = o THEN NoRole ELSE db.members[p][u]
      BY <1>0, <2>2, <2>5 DEF TablesInv
    <3>3. QED
      BY <2>1, <2>5, <3>1, <3>2, FallenBack
  <2>6. QED
    BY <2>3, <2>4, <2>5
<1>11. ASSUME DeletesOrg
       PROVE  StaysHome(u)
  <2> DEFINE new(to) == [v \in Users |-> IF to[v] # Unborn /\ Row(db.users[v])
                                           THEN [db.users[v] EXCEPT !.org = to[v]]
                                           ELSE db.users[v]]
             late(to) == {<<"current", v>> : v \in
                            {w \in Users : to[w] # Unborn /\ Role(w, to[w]) = NoRole}}
  <2>1. PICK o \in Orgs : \E to :
          /\ to \in [Users -> Orgs \cup {Unborn}] /\ slips' = slips \cup late(to)
          /\ Fields(db', new(to), [db.orgs EXCEPT ![o] = Gone],
                    CutMembers(db.members, o), CutInvites(db.invites, o), db.codes,
                    db.tokens, db.traces)
          /\ Sound(db')
    BY <1>11 DEF DeletesOrg
  <2>2. PICK to :
          /\ to \in [Users -> Orgs \cup {Unborn}] /\ slips' = slips \cup late(to)
          /\ db'.users = new(to) /\ db'.members = CutMembers(db.members, o)
          /\ db'.orgs = [db.orgs EXCEPT ![o] = Gone] /\ Sound(db')
    BY <2>1 DEF Fields
  <2>3. /\ db'.orgs[o] = Gone
        /\ \A p \in Orgs : p # o => db'.members[p][u] = db.members[p][u]
    BY <1>0, <2>2 DEF CutMembers, TablesInv
  <2>4. ASSUME Row(db'.users[u])
        PROVE  db'.users[u].org # o
    BY <2>2, <2>3, <2>4, NewRows DEF Sound
  <2>5. CASE to[u] # Unborn /\ Row(db.users[u])
    <3>1. db.users[u] \in UserRows /\ to[u] \in Orgs
      BY <1>0, <2>2, <2>5, RowsAre
    <3>2. db'.users[u] = [db.users[u] EXCEPT !.org = to[u]]
      BY <2>2, <2>5
    <3>3. db'.users[u].org = to[u]
      BY <3>1, <3>2, UserFields
    <3>4. CASE Role(u, to[u]) = NoRole
      <4>1. <<"current", u>> \in slips'
        BY <2>2, <2>5, <3>4
      <4>2. QED
        BY <4>1 DEF StaysHome
    <3>5. CASE Role(u, to[u]) # NoRole
      <4>1. Row(db'.users[u]) => db'.members[db'.users[u].org][u] # NoRole
        BY <2>3, <2>4, <3>1, <3>3, <3>5 DEF Role
      <4>2. QED
        BY <4>1 DEF StaysHome, AtHome, Role, Row
    <3>6. QED
      BY <3>4, <3>5
  <2>6. CASE ~(to[u] # Unborn /\ Row(db.users[u]))
    <3>1. db'.users[u] = db.users[u]
      BY <2>2, <2>6
    <3>2. CASE Row(db.users[u])
      <4>1. \A p \in Orgs : db.members[p][u] # NoRole =>
              db'.members[p][u] # NoRole \/ db.users[u].org # p
        BY <2>3, <2>4, <3>1, <3>2
      <4>2. QED
        BY <3>1, <4>1, HomeKept
    <3>3. CASE ~Row(db.users[u])
      BY <3>3 DEF StaysHome, AtHome
    <3>4. QED
      BY <3>2, <3>3
  <2>7. QED
    BY <2>5, <2>6
<1>12. ASSUME Unregisters
       PROVE  StaysHome(u)
  <2>1. PICK v \in Users, o \in Orgs :
          /\ db'.users = [db.users EXCEPT ![v] = Gone]
          /\ db'.orgs = [db.orgs EXCEPT ![o] = Gone]
          /\ db'.members = CutMembers([p \in Orgs |-> [db.members[p] EXCEPT ![v] = NoRole]], o)
          /\ Sound(db')
    BY <1>12 DEF Unregisters, Fields
  <2>2. CASE u = v
    <3>1. db'.users[u] = Gone
      BY <1>0, <2>1, <2>2 DEF TablesInv
    <3>2. QED
      BY <3>1, NewRows DEF StaysHome
  <2>3. CASE u # v /\ Row(db.users[u])
    <3>1. db'.users[u] = db.users[u]
      BY <1>0, <2>1, <2>3 DEF TablesInv
    <3>2. db.users[u].org # o
      <4>1. Row(db'.orgs[db.users[u].org])
        BY <2>1, <2>3, <3>1 DEF Sound
      <4>2. db'.orgs[o] = Gone
        BY <1>0, <2>1 DEF TablesInv
      <4>3. QED
        BY <4>1, <4>2, NewRows
    <3>3. \A p \in Orgs : p # o => db'.members[p][u] = db.members[p][u]
      BY <1>0, <2>1, <2>3 DEF CutMembers, TablesInv
    <3>4. QED
      BY <3>1, <3>2, <3>3, HomeKept
  <2>4. CASE ~Row(db.users[u])
    BY <2>4 DEF StaysHome, AtHome
  <2>5. QED
    BY <2>2, <2>3, <2>4
<1>13. CASE Leaves \/ DeletesOrg \/ Lands \/ Unregisters
  BY <1>9, <1>10, <1>11, <1>12, <1>13
<1>14. CASE ~(Leaves \/ DeletesOrg \/ Lands \/ Unregisters)
  <2>1. SameOrg
    BY <1>2, <1>5, <1>8, <1>14, Written
  <2>2. SameRoles
    BY <1>3, <1>6, <1>7, <1>8, <1>14, Written
  <2> HIDE DEF SameOrg, SameRoles
  <2>3. QED
    BY <1>1, <2>1, <2>2
<1>15. QED
  BY <1>13, <1>14

\* CurrentOrgIsMine: whatever removes a member, deletes an organization or an
\* account moves the user to another membership, if there is one, and leaves the
\* user elsewhere only by the slips of a switch, a removal and a deletion.
THEOREM CurrentOrgsAreMoved == Spec => CurrentOrgIsMine
<1> DEFINE Step == \A u \in Users : StaysHome(u)
<1>1. ASSUME AccountsInv, Next
      PROVE  Step
  <2>1. BaseInv
    BY <1>1 DEF AccountsInv, BaseInv
  <2>2. QED
    BY <1>1, <2>1, NextForms, HomeStep
<1>2. AccountsInv /\ [Next]_vars => [\A u \in Users :
         AtHome(u) /\ Row(db'.users[u]) /\ ~AtHome(u)'
           => MemberOf(db', u) = {} \/ <<"current", u>> \in slips']_vars
  BY <1>1 DEF StaysHome
<1>3. QED
  BY <1>2, AccountsStaySound, PTL DEF Spec, CurrentOrgIsMine

-----------------------------------------------------------------------------
PlanStays(u) ==
  Row(db.users[u]) /\ db.users[u].type # "Free" /\ db.users[u].trial = "none"
    /\ Row(db'.users[u]) /\ db'.users[u].type # db.users[u].type
    => \/ \E r \in Requests : at[r] = "plan" /\ at'[r] = "done"
       \/ <<"plan", u>> \in slips'

LEMMA PlanStep ==
  ASSUME BaseInv, TrialsInv, Forms, NEW u \in Users
  PROVE  PlanStays(u)
<1>0. TablesInv /\ StandsInv
  BY DEF BaseInv
<1>1. ASSUME Row(db.users[u]) /\ Row(db'.users[u]) => db'.users[u].type = db.users[u].type
      PROVE  PlanStays(u)
  BY <1>1 DEF PlanStays
<1>2. CASE db'.users = db.users
  BY <1>1, <1>2
<1>3. ASSUME NEW o, Row(db.users[u]) => db'.users[u] = [db.users[u] EXCEPT !.org = o]
      PROVE  PlanStays(u)
  <2>1. ASSUME Row(db.users[u])
        PROVE  db'.users[u].type = db.users[u].type
    <3>1. db.users[u] \in UserRows
      BY <1>0, <2>1, RowsAre
    <3>2. [db.users[u] EXCEPT !.org = o].type = db.users[u].type
      BY <3>1 DEF UserRows
    <3>3. QED
      BY <1>3, <2>1, <3>2
  <2>2. QED
    BY <1>1, <2>1
<1>4. CASE Leaves
  <2>1. PICK v \in Users, to \in Orgs \cup {Unborn} :
          db'.users = IF to = Unborn THEN db.users
                      ELSE [db.users EXCEPT ![v] = [db.users[v] EXCEPT !.org = to]]
    BY <1>4 DEF Leaves, Fields
  <2>2. db'.users[u] = db.users[u] \/ db'.users[u] = [db.users[u] EXCEPT !.org = to]
    BY <1>0, <2>1 DEF TablesInv
  <2>3. QED
    BY <1>1, <1>3, <2>2
<1>5. CASE DeletesOrg
  <2> DEFINE U(o, to) == [v \in Users |-> IF to[v] # Unborn /\ Row(db.users[v])
                                            THEN [db.users[v] EXCEPT !.org = to[v]]
                                            ELSE db.users[v]]
  <2>1. PICK o \in Orgs : \E to :
          Fields(db', U(o, to), [db.orgs EXCEPT ![o] = Gone],
                 CutMembers(db.members, o), CutInvites(db.invites, o), db.codes,
                 db.tokens, db.traces)
    BY <1>5 DEF DeletesOrg
  <2>2. PICK to : db'.users = U(o, to)
    BY <2>1 DEF Fields
  <2>3. db'.users[u] = db.users[u] \/ db'.users[u] = [db.users[u] EXCEPT !.org = to[u]]
    BY <2>2
  <2>4. QED
    BY <1>1, <1>3, <2>3
<1>6. CASE Lands
  <2>1. PICK v \in Users, o \in Orgs :
          db'.users = [db.users EXCEPT ![v] = [db.users[v] EXCEPT !.org = o]]
    BY <1>6 DEF Lands, Fields
  <2>2. db'.users[u] = db.users[u] \/ db'.users[u] = [db.users[u] EXCEPT !.org = o]
    BY <1>0, <2>1 DEF TablesInv
  <2>3. QED
    BY <1>1, <1>3, <2>2
<1>7. CASE Downgrades
  <2>1. PICK v \in Users, row \in UserRows :
          /\ row.trial = "over"
          /\ slips' = slips \cup Slip("plan", v, db.users[v] # row)
          /\ db'.users = [db.users EXCEPT ![v] =
                            [db.users[v] EXCEPT !.type = "Free", !.trial = "none"]]
    BY <1>7 DEF Downgrades, Fields
  <2>2. CASE u = v
    <3>1. db.users[u].trial = "none" => db.users[u] # row
      BY <2>1
    <3>2. db.users[u].trial = "none" => <<"plan", u>> \in slips'
      BY <2>1, <2>2, <3>1 DEF Slip
    <3>3. QED
      BY <3>2 DEF PlanStays
  <2>3. CASE u # v
    BY <1>0, <1>1, <2>1, <2>3 DEF TablesInv
  <2>4. QED
    BY <2>2, <2>3
<1>8. CASE StartsTrial
  <2>1. PICK r \in Requests, v \in Users, plan \in Tiers :
          /\ Goes(r, "starting", "done", Unborn) /\ known[r].user = v
          /\ Fields(db', [db.users EXCEPT ![v] =
                            [db.users[v] EXCEPT !.type = plan, !.trial = "running",
                                                !.used = TRUE]],
                    db.orgs, db.members, db.invites, db.codes, db.tokens, db.traces)
    BY <1>8 DEF StartsTrial
  <2> DEFINE row == [db.users[v] EXCEPT !.type = plan, !.trial = "running", !.used = TRUE]
  <2>u. db'.users = [db.users EXCEPT ![v] = row]
    BY <2>1 DEF Fields
  <2> HIDE DEF row
  <2>2. db.users[v].type = "Free"
    BY <2>1 DEF TrialsInv, At, Startable, Goes
  <2>3. CASE u = v
    BY <2>2, <2>3 DEF PlanStays
  <2>4. CASE u # v
    BY <1>0, <1>1, <2>u, <2>4 DEF TablesInv
  <2>5. QED
    BY <2>3, <2>4
<1>9. CASE EndsTrial
  <2>1. PICK v \in Users :
          /\ Row(db.users[v])
          /\ db'.users = [db.users EXCEPT ![v] = [db.users[v] EXCEPT !.trial = "over"]]
    BY <1>9 DEF EndsTrial, Fields
  <2>2. CASE u = v
    <3>1. db.users[u] \in UserRows /\ db'.users[u] = [db.users[u] EXCEPT !.trial = "over"]
      BY <1>0, <2>1, <2>2, RowsAre DEF TablesInv
    <3>2. QED
      BY <1>1, <3>1, UserFields
  <2>3. CASE u # v
    BY <1>0, <1>1, <2>1, <2>3 DEF TablesInv
  <2>4. QED
    BY <2>2, <2>3
<1>10. CASE Retypes
  <2>1. PICK r \in Requests : Goes(r, "plan", "done", Unborn)
    BY <1>10 DEF Retypes
  <2>2. at[r] = "plan" /\ at'[r] = "done"
    BY <1>0, <2>1 DEF Goes, StandsInv
  <2>3. QED
    BY <2>1, <2>2 DEF PlanStays
<1>11. CASE Registers \/ Unregisters
  <2>1. PICK v \in Users :
          \/ \E o \in Orgs : /\ db.users[v] = Unborn
                             /\ db'.users = [db.users EXCEPT ![v] = NewUser(o)]
          \/ db'.users = [db.users EXCEPT ![v] = Gone]
    <3>1. CASE Registers
      BY <3>1 DEF Registers, Fields
    <3>2. CASE Unregisters
      BY <3>2 DEF Unregisters, Fields
    <3>3. QED
      BY <1>11, <3>1, <3>2
  <2>2. CASE u = v
    <3>1. db.users[u] = Unborn \/ db'.users[u] = Gone
      BY <1>0, <2>1, <2>2 DEF TablesInv
    <3>2. QED
      BY <1>1, <3>1, NewRows
  <2>3. CASE u # v
    <3>1. db'.users[u] = db.users[u]
      BY <1>0, <2>1, <2>3 DEF TablesInv
    <3>2. QED
      BY <1>1, <3>1
  <2>4. QED
    BY <2>2, <2>3
<1>12. QED
  BY <1>2, <1>4, <1>5, <1>6, <1>7, <1>8, <1>9, <1>10, <1>11, Written

\* PaidPlanKept: a plan that is no trial ends only by an administrator's own
\* request, or by a downgrade that had read the owner's row before.
THEOREM PaidPlansAreKept == Spec => PaidPlanKept
<1> DEFINE Step == \A u \in Users : PlanStays(u)
<1>1. ASSUME AccountsInv, Next
      PROVE  Step
  <2>1. BaseInv /\ TrialsInv
    BY <1>1 DEF AccountsInv, BaseInv
  <2>2. QED
    BY <1>1, <2>1, NextForms, PlanStep
<1>2. AccountsInv /\ [Next]_vars => [\A u \in Users :
         Row(db.users[u]) /\ db.users[u].type # "Free" /\ db.users[u].trial = "none"
           /\ Row(db'.users[u]) /\ db'.users[u].type # db.users[u].type
           => \/ \E r \in Requests : at[r] = "plan" /\ at'[r] = "done"
              \/ <<"plan", u>> \in slips']_vars
  BY <1>1 DEF PlanStays
<1>3. QED
  BY <1>2, AccountsStaySound, PTL DEF Spec, PaidPlanKept

=============================================================================
