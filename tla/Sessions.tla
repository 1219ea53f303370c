------------------------------ MODULE Sessions -------------------------------
(***************************************************************************)
(* Accounts and their sessions: registration and the sign-in of a provider,*)
(* login, refresh and logout, password reset codes, account deletion.      *)
(* Access tokens are checked by signature and keep no state.               *)
(***************************************************************************)
EXTENDS Tenants

\* register looks for the address first;
FindAccount(r) ==
  /\ Arrives(r, "session")
  /\ \E u \in Users : db.users[u] = Unborn /\ Proceed(r, "registering", [user |-> u])

\* ... and creates the account and its organization in one transaction, which a
\* second registration of the address undoes.
RegisterUser(r) ==
  /\ At(r, "registering")
  /\ LET u == known[r].user
         o == Next1(db.orgs)
     IN  IF db.users[u] # Unborn THEN Answer(r)
         ELSE /\ Fresh(db.orgs) # {} /\ Fresh(db.tokens) # {}
              /\ Commit(r, Minted(Registered(db, u, o), u, o))

\* A session in the current organization, whether the user is a member or not.
SignIn(r, u) ==
  /\ Row(db.users[u]) /\ Fresh(db.tokens) # {}
  /\ Commit(r, Minted(db, u, db.users[u].org))

\* find_or_create_oauth_user: an account with the address is signed in, another
\* address is registered.
FindOrCreate(r, u) ==
  \/ SignIn(r, u)
  \/ db.users[u] = Unborn /\ Proceed(r, "registering", [user |-> u])

\* The callback of a provider that vouches for an address.
OauthCallback(r) == Arrives(r, "session") /\ \E u \in Users : FindOrCreate(r, u)

\* login: the password of an account was given.
Login(r) == Arrives(r, "session") /\ \E u \in Users : SignIn(r, u)

-----------------------------------------------------------------------------
\* refresh: the token is not revoked,
CheckRefreshToken(r) ==
  /\ Arrives(r, "session")
  /\ \E t \in Tokens : /\ Row(db.tokens[t]) /\ db.tokens[t].status = "live"
                       /\ Proceed(r, "rotating", [token |-> t])

\* ... is revoked, and a new one takes its place for the same organization.
RotateToken(r) ==
  /\ At(r, "rotating") /\ Fresh(db.tokens) # {}
  /\ LET t == known[r].token
         d == [db EXCEPT !.tokens[t].status = "revoked"]
     IN  /\ Leave(r)
         /\ db' = Minted(d, db.tokens[t].user, db.tokens[t].org)
         /\ uses' = [uses EXCEPT ![t] = @ + 1]
         /\ slips' = slips \cup Slip("token", t, db.tokens[t].status = "revoked")

\* logout asks no question.
Logout(r) ==
  /\ Arrives(r, "session")
  /\ \E t \in Tokens : /\ Row(db.tokens[t]) /\ db.tokens[t].status # "expired"
                       /\ Commit(r, [db EXCEPT !.tokens[t].status = "revoked"])

-----------------------------------------------------------------------------
Live(u) == {c \in Codes : /\ Row(db.codes[c])
                          /\ db.codes[c].user = u /\ db.codes[c].status = "live"}

\* forgot_password finds the account and begins the transaction
ForgotPassword(r) ==
  /\ Arrives(r, "session")
  /\ \E u \in Users : Row(db.users[u]) /\ Proceed(r, "resetting", [user |-> u, live |-> Live(u)])

\* ... of create_password_reset, which uses up the codes it finds.
CreatePasswordReset(r) ==
  /\ At(r, "resetting")
  /\ LET u == known[r].user
     IN  IF ~Row(db.users[u]) THEN Answer(r)
         ELSE \E seen \in {known[r].live, Live(u)} :
           /\ Fresh(db.codes) # {}
           /\ Overwrite(r,
                [db EXCEPT !.codes =
                  [c \in Codes |->
                     CASE c = Next1(db.codes) -> [user |-> u, status |-> "live"]
                       [] c \in seen \cap Live(u) -> [@[c] EXCEPT !.status = "used"]
                       [] OTHER -> @[c]]],
                Slip("codes", u, seen # Live(u)))

\* reset_password: the newest code that is live, and it is the one given; codes
\* of one user are told apart by who asked last only in that one is chosen.
FetchActiveReset(r) ==
  /\ Arrives(r, "session")
  /\ \E u \in Users : \E c \in Live(u) : Proceed(r, "consuming", [user |-> u, code |-> c])

\* Seeded fault: the code is used up without a look at whether it is unused.
ConsumeAnyReset(r) ==
  /\ At(r, "consuming")
  /\ LET c == known[r].code
     IN  IF ~Row(db.codes[c]) THEN Answer(r)
         ELSE /\ at' = [at EXCEPT ![r] = "changing"]
              /\ db' = [db EXCEPT !.codes[c].status = "used"]
              /\ UNCHANGED <<known, ghosts>>

\* consume_password_reset: only an unused one, in one update.
ConsumeReset(r) ==
  /\ At(r, "consuming")
  /\ LET c == known[r].code
     IN  IF ~Row(db.codes[c]) \/ db.codes[c].status # "live" THEN Answer(r)
         ELSE /\ at' = [at EXCEPT ![r] = "changing"]
              /\ db' = [db EXCEPT !.codes[c].status = "used"]
              /\ UNCHANGED <<known, ghosts>>

\* update_user_password, unless the request fails first: the code is used up
\* either way.
UpdatePassword(r) ==
  /\ At(r, "changing") /\ Leave(r)
  /\ \E written \in BOOLEAN :
       uses' = [uses EXCEPT ![known[r].code] = IF written THEN @ + 1 ELSE @]
  /\ UNCHANGED <<db, slips>>

-----------------------------------------------------------------------------
\* delete_account, in a session of a member of the organization: the traces
\* first,
DeleteTraces(r) ==
  /\ Arrives(r, "session")
  /\ \E t \in Tokens :
       LET k == db.tokens[t]
       IN  /\ Row(k) /\ Row(db.users[k.user])
           /\ at' = [at EXCEPT ![r] = "unregistering"]
           /\ known' = [known EXCEPT ![r] = [user |-> k.user, org |-> k.org]]
           /\ db' = [db EXCEPT !.traces = @ \ {k.org}]
           /\ UNCHANGED ghosts

\* ... then the user and the organization, unless the organization is someone
\* else's current one.
DeleteAccount(r) ==
  /\ At(r, "unregistering")
  /\ LET k == known[r]
         d == WithoutOrg(WithoutUser(db, k.user), k.org)
     IN  /\ ~Locked(k.user)
         /\ IF Sound(d)
              THEN Overwrite(r, d, {<<"demoted", o>> : o \in {p \in Orgs : Owners(p) = {k.user}}})
              ELSE Overwrite(r, db, {<<"refused", k.org>>})

Expires ==
  /\ \/ \E t \in Tokens : /\ Row(db.tokens[t]) /\ db.tokens[t].status = "live"
                          /\ db' = [db EXCEPT !.tokens[t].status = "expired"]
     \/ \E c \in Codes : /\ Row(db.codes[c]) /\ db.codes[c].status = "live"
                         /\ db' = [db EXCEPT !.codes[c].status = "expired"]
  /\ UNCHANGED <<at, known, ghosts>>

SessionsStep(r) ==
  \/ FindAccount(r) \/ RegisterUser(r) \/ OauthCallback(r) \/ Login(r)
  \/ CheckRefreshToken(r) \/ RotateToken(r) \/ Logout(r)
  \/ ForgotPassword(r) \/ CreatePasswordReset(r) \/ FetchActiveReset(r)
  \/ ConsumeReset(r) \/ UpdatePassword(r) \/ DeleteTraces(r) \/ DeleteAccount(r)
=============================================================================
