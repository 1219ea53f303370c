----------------------------- MODULE Credentials -----------------------------
(***************************************************************************)
(* The provider keys an organization has stored.  A key is tried with its  *)
(* provider before it is stored and whenever that is asked for; the answer *)
(* comes later, and marks the credential it was asked about.               *)
(*                                                                         *)
(* A key is sealed under a data key of its own.  A process that unseals it *)
(* keeps the data key for a while; a deletion clears what its process has. *)
(***************************************************************************)
EXTENDS Integers, FiniteSets

CONSTANTS
  Callers,          \* requests, each served once by one of the
  Nodes,            \* processes
  MaxCreated,       \* bound on the credentials created
  ApiKeys,          \* keys, each of one
  ProviderOf,       \* provider
  Nil, Gone         \* no row yet, a deleted one

ASSUME CreatedAssumption == MaxCreated \in Nat

VARIABLES
  credentials,      \* org_provider_credentials
  deks,             \* the data keys each process has unwrapped
  step, holds,      \* where each request stands and what it holds
  turnedDown,       \* keys a provider has ever rejected
  kept              \* data keys, <<process, credential>>, out of reach of the
                    \* deletion: of another process, or unwrapped by a request
                    \* that had read the row before

credentialVars == <<credentials, deks, step, holds, turnedDown, kept>>

\* A credential is known by its number, in the order of created_at.
Ids == 1..MaxCreated
Rows == [key : ApiKeys, status : {"active", "invalid"}]
ASSUME GoneAssumption == Nil # Gone /\ {Nil, Gone} \cap Rows = {}
CredentialsTypeOK ==
  /\ turnedDown \subseteq ApiKeys
  /\ \A c \in Ids : credentials[c] \in {Nil, Gone} \/ credentials[c] \in Rows
  /\ deks \in [Nodes -> SUBSET Ids]

\* Some keys are stored: an organization has one row for a key.
Earlier ==
  {rows \in [Ids -> {Nil} \cup [key : ApiKeys, status : {"active"}]] :
     \A c, d \in Ids : c < d /\ rows[d] # Nil
                              => rows[c] # Nil /\ rows[c].key # rows[d].key}

CredentialsInit ==
  /\ credentials \in Earlier
  /\ deks = [n \in Nodes |-> {}]
  /\ step = [r \in Callers |-> "new"] /\ holds = [r \in Callers |-> Nil]
  /\ turnedDown = {} /\ kept = {}

Saved == {c \in Ids : credentials[c] \notin {Nil, Gone}}
Takes(r, s, h) == step' = [step EXCEPT ![r] = s] /\ holds' = [holds EXCEPT ![r] = h]
Ends(r) == Takes(r, "done", Nil)

-----------------------------------------------------------------------------
\* _verify_with_provider: a key is fine unless the provider answers otherwise.
\* Out of reach and over the rate count as fine, an error of the provider's own
\* as a rejection.
Verdicts == {"fine", "rejected"}
Hears(key, verdict) ==
  turnedDown' = IF verdict = "rejected" THEN turnedDown \cup {key} ELSE turnedDown

\* create_credential, of a key the provider did not reject,
TryNewKey(r) ==
  /\ step[r] = "new"
  /\ \E k \in ApiKeys : Takes(r, "storing", [key |-> k])
  /\ UNCHANGED <<credentials, deks, turnedDown, kept>>

\* store_credential: a new row, or the row there is with a fresh seal.
StoreKey(r) ==
  /\ step[r] = "storing"
  /\ LET same == {c \in Saved : credentials[c].key = holds[r].key}
     IN  IF same # {}
           THEN \E c \in same :
                  /\ credentials' = [credentials EXCEPT ![c].status = "active"]
                  /\ Takes(r, "marking", [id |-> c, verdict |-> "fine"])
           ELSE \E c \in Ids :
                  /\ credentials[c] = Nil /\ \A d \in Ids : d < c => credentials[d] # Nil
                  /\ credentials' = [credentials EXCEPT ![c] =
                        [key |-> holds[r].key, status |-> "active"]]
                  /\ Takes(r, "marking", [id |-> c, verdict |-> "fine"])
  /\ UNCHANGED <<deks, turnedDown, kept>>

\* Seeded fault: the provider's active key is read, as for a use.
ReadActive(r) ==
  /\ step[r] = "new"
  /\ \E n \in Nodes, c \in Saved :
       LET usable == {d \in Saved : credentials[d].status = "active"
                         /\ ProviderOf[credentials[d].key] = ProviderOf[credentials[c].key]}
       IN  \E d \in usable :
             /\ \A e \in usable : e <= d
             /\ Takes(r, "unsealing", [node |-> n, id |-> c, key |-> credentials[d].key, of |-> d])
  /\ UNCHANGED <<credentials, deks, turnedDown, kept>>

\* verify_credential: unseal_by_id reads the row, whatever its status,
ReadSealed(r) ==
  /\ step[r] = "new"
  /\ \E n \in Nodes, c \in Saved :
       Takes(r, "unsealing", [node |-> n, id |-> c, key |-> credentials[c].key, of |-> c])
  /\ UNCHANGED <<credentials, deks, turnedDown, kept>>

\* ... the data key is unwrapped and kept, the provider asked,
Unseal(r) ==
  /\ step[r] = "unsealing"
  /\ LET n == holds[r].node  c == holds[r].of
     IN  /\ deks' = [deks EXCEPT ![n] = @ \cup {c}]
         /\ kept' = IF c \in Saved THEN kept ELSE kept \cup {<<n, c>>}
  /\ \E verdict \in Verdicts :
       /\ Hears(holds[r].key, verdict)
       /\ Takes(r, "marking", [id |-> holds[r].id, verdict |-> verdict])
  /\ UNCHANGED <<credentials>>

\* ... and the row marked, mark_verified or mark_invalid, if it is still there.
Mark(r) ==
  /\ step[r] = "marking" /\ Ends(r)
  /\ LET c == holds[r].id
     IN  credentials' = IF c \notin Saved THEN credentials
                        ELSE [credentials EXCEPT ![c].status =
                               IF holds[r].verdict = "fine" THEN "active" ELSE "invalid"]
  /\ UNCHANGED <<deks, turnedDown, kept>>

-----------------------------------------------------------------------------
\* unseal_active, for a use: the newest active key of the provider.
Use(r) ==
  /\ step[r] = "new"
  /\ \E n \in Nodes, c \in Saved :
       /\ credentials[c].status = "active"
       /\ \A d \in Saved : credentials[d].status = "active"
             /\ ProviderOf[credentials[d].key] = ProviderOf[credentials[c].key]
             => d <= c
       /\ Takes(r, "using", [node |-> n, of |-> c])
  /\ UNCHANGED <<credentials, deks, turnedDown, kept>>

UnsealForUse(r) ==
  /\ step[r] = "using" /\ Ends(r)
  /\ LET n == holds[r].node  c == holds[r].of
     IN  /\ deks' = [deks EXCEPT ![n] = @ \cup {c}]
         /\ kept' = IF c \in Saved THEN kept ELSE kept \cup {<<n, c>>}
  /\ UNCHANGED <<credentials, turnedDown>>

\* delete_credential: the row goes, and then every data key of the process.
DeleteRow(r) ==
  /\ step[r] = "new"
  /\ \E n \in Nodes, c \in Saved :
       /\ credentials' = [credentials EXCEPT ![c] = Gone]
       /\ kept' = kept \cup {<<m, c>> : m \in {o \in Nodes \ {n} : c \in deks[o]}}
       /\ Takes(r, "clearing", [node |-> n, id |-> c])
  /\ UNCHANGED <<deks, turnedDown>>

ClearDeks(r) ==
  /\ step[r] = "clearing" /\ Ends(r)
  /\ LET n == holds[r].node
     IN  /\ deks' = [deks EXCEPT ![n] = {}]
         /\ kept' = {k \in kept : k[1] # n}
  /\ UNCHANGED <<credentials, turnedDown>>

CredentialsStep ==
  \E r \in Callers :
    \/ TryNewKey(r) \/ StoreKey(r) \/ ReadSealed(r) \/ Unseal(r) \/ Mark(r)
    \/ Use(r) \/ UnsealForUse(r) \/ DeleteRow(r) \/ ClearDeks(r)

-----------------------------------------------------------------------------
\* A credential is invalid only if its own key was rejected, though the
\* organization may have several of one provider; and the data key of a deleted
\* credential is gone from the process that deleted it ("revocation has to be
\* immediate"), but for a request that had read the row before.
VerdictOfOwnKey ==
  /\ \A c \in Saved : credentials[c].status = "invalid" => credentials[c].key \in turnedDown
  /\ \A n \in Nodes : \A c \in deks[n] \ Saved :
       \/ <<n, c>> \in kept
       \/ \E r \in Callers : step[r] = "clearing" /\ holds[r].id = c
=============================================================================
