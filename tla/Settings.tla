------------------------------ MODULE Settings -------------------------------
(***************************************************************************)
(* What an organization sets up and what follows from it.  The parts share *)
(* no state, so a behaviour is about one of them and leaves the others     *)
(* where they began:                                                       *)
(*   "caches"       settings, the copies the processes keep of them, the   *)
(*                  online rules, and the traces that come in under them   *)
(*   "alerts"       the consumer that alerts to Slack                      *)
(*   "judges"       the prompts of the judges and their history            *)
(*   "credentials"  provider keys, and what is unsealed of them            *)
(*   "judging"      an answer judged for its caller, or against others     *)
(***************************************************************************)
EXTENDS Ingest, AlertDigest, JudgePrompts, Credentials, Judging

CONSTANTS
  Starts, Stored, Asked      \* the requests, rows and subjects a behaviour of
                             \* "caches" may begin with

ASSUME BeginningsAssumption ==
  /\ Starts \subseteq [Requests -> {"read", "write", "ingest", "done"}]
  /\ Asked \subseteq SUBSET Settings /\ Stored # {}
  /\ \A rows0 \in Stored :
       /\ rows0 \in [tier : Tiers, default : Policies \cup {Absent}, named : Policies \cup {Absent},
                    alerts : Alerts \cup {Absent}, rules : RuleTables]
       /\ Cardinality(Present(rows0.rules)) <= MaxRules
       /\ \A x \in Present(rows0.rules) : Scores(rows0.rules[x])

VARIABLE part

vars == <<part, ingestVars, alertVars, judgeVars, credentialVars, judgingVars>>

CachesInit ==
  /\ cache = [p \in Procs |-> [k \in Settings \cup {"room"} |-> Absent]]
  /\ known = [r \in Requests |-> Absent] /\ fetched = known
  /\ overtaken = {} /\ excused = {} /\ slipped = FALSE
  /\ traces = known /\ answers = known
  /\ evals = [r \in Requests |-> 0] /\ scans = {}

\* A part that a behaviour is not about has one beginning.
Init ==
  /\ part \in {"caches", "alerts", "judges", "credentials", "judging"}
  /\ CachesInit /\ AlertsInit /\ JudgeInit /\ CredentialsInit /\ JudgingInit
  /\ IF part = "caches"
       THEN stored \in Stored /\ at \in Starts /\ asked \in Asked
       ELSE /\ stored = (CHOOSE s \in Stored : TRUE)
            /\ at = [r \in Requests |-> "done"] /\ asked = {}
  /\ part # "alerts" => cooling = [o \in Orgs |-> FALSE]
  /\ part # "credentials" => credentials = [c \in Ids |-> Nil]
  /\ part # "judges" => shipped = [n \in Names |-> None]

CachesNext ==
  \/ \E r \in Requests :
       \/ CachesStep(r) /\ UNCHANGED <<slipped, topics, answers>>
       \/ RulesStep(r) /\ UNCHANGED <<topics, answers>>
       \/ IngestStep(r)
  \/ (Expire \/ Restart) /\ UNCHANGED <<slipped, topics, answers>>

Next ==
  /\ UNCHANGED part
  /\ \/ part = "caches" /\ CachesNext /\ UNCHANGED <<alertVars, judgeVars, credentialVars, judgingVars>>
     \/ part = "alerts" /\ AlertsStep /\ UNCHANGED <<ingestVars, judgeVars, credentialVars, judgingVars>>
     \/ part = "judges" /\ JudgeStep /\ UNCHANGED <<ingestVars, alertVars, credentialVars, judgingVars>>
     \/ part = "credentials" /\ CredentialsStep /\ UNCHANGED <<ingestVars, alertVars, judgeVars, judgingVars>>
     \/ part = "judging" /\ JudgingStep /\ UNCHANGED <<ingestVars, alertVars, judgeVars, credentialVars>>

Spec == Init /\ [][Next]_vars

TypeOK == CachesTypeOK /\ IngestTypeOK /\ AlertsTypeOK /\ JudgeTypeOK /\ CredentialsTypeOK /\ JudgingTypeOK

\* The copies of every setting agree with what is stored, no more rules are stored than
\* the limit and none that scores nothing, unless requests overlapped, and no variable of
\* any part leaves its range: no counter, history or bucket grows past its bound.
CachesHold == TypeOK /\ CachesAgree /\ RulesInBounds
=============================================================================
