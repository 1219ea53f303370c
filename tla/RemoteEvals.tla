----------------------------- MODULE RemoteEvals ------------------------------
(***************************************************************************)
(* Evals that run on a developer's machine.  A serving process registers   *)
(* what it can run and asks for work, each time for a while; the dashboard *)
(* offers what is registered and queues requests for it.  Registrations    *)
(* and the queue are kept by the API process and lost with it.  They are   *)
(* an organization's, not a server's: a registration replaces what others  *)
(* registered, and whoever asks first gets the request.                    *)
(***************************************************************************)
EXTENDS Naturals, SequencesExt

CONSTANTS
  Servers,            \* serving processes of the organization
  Offers,             \* what they may register, sets of evals
  MaxTriggers, MaxRegistered  \* bounds on requests, and on registrations

ASSUME RemoteAssumption == MaxTriggers \in Nat /\ MaxRegistered \in Nat

VARIABLES
  offered, by,        \* _REGISTERED, and the server it is the registration of
  quiet,              \* whether nobody has asked or registered for so long that
                      \* registrations are dropped when they are looked at
  queued,             \* _QUEUED
  polls,              \* per server: the requests for work that are held open
  gone,               \* servers that stopped, leaving their requests open
  can,                \* what each server ever registered
  handed, lost,       \* requests taken from the queue; lost with a process
  triggered, registered  \* how many there were

remoteVars == <<offered, by, quiet, queued, polls, gone, can, handed, lost, triggered, registered>>

RemoteInit ==
  /\ offered = {} /\ by = (CHOOSE s \in Servers : TRUE) /\ quiet = FALSE /\ queued = <<>> /\ handed = <<>> /\ lost = {}
  /\ polls = [s \in Servers |-> FALSE] /\ can = [s \in Servers |-> {}] /\ gone = {}
  /\ triggered = 0 /\ registered = 0

Prune == IF quiet THEN {} ELSE offered

RegisterRemoteEvals(s) ==
  /\ s \notin gone /\ registered < MaxRegistered
  /\ \E evals \in Offers : offered' = evals /\ can' = [can EXCEPT ![s] = @ \cup evals]
  /\ by' = s
  /\ quiet' = FALSE /\ registered' = registered + 1
  /\ UNCHANGED <<queued, polls, gone, handed, lost, triggered>>

\* Looking at the list drops what is too old.
ListRemoteEvals ==
  /\ offered' = Prune
  /\ UNCHANGED <<by, quiet, queued, polls, gone, can, handed, lost, triggered, registered>>

TriggerRemoteEval ==
  /\ triggered < MaxTriggers /\ offered' = Prune
  /\ \E e \in offered' : queued' = Append(queued, [eval |-> e, number |-> triggered + 1, of |-> by])
  /\ triggered' = triggered + 1
  /\ UNCHANGED <<by, quiet, polls, gone, can, handed, lost, registered>>

\* To ask for work keeps every registration alive that was not dropped yet.
NextRemoteEval(s) ==
  /\ s \notin gone /\ ~polls[s]
  /\ quiet' = FALSE /\ polls' = [polls EXCEPT ![s] = TRUE]
  /\ UNCHANGED <<offered, by, queued, gone, can, handed, lost, triggered, registered>>

\* A request held open takes the oldest work whether or not its server is still there.
TakeRequest(s) ==
  /\ polls[s] /\ queued # <<>>
  /\ LET r == Head(queued) IN
       handed' = Append(handed, [eval |-> r.eval, number |-> r.number, of |-> r.of, to |-> s])
  /\ queued' = Tail(queued)
  /\ polls' = [polls EXCEPT ![s] = FALSE]
  /\ UNCHANGED <<offered, by, quiet, gone, can, lost, triggered, registered>>

\* After half a minute, though something may have been queued since it last looked.
GiveUp(s) ==
  /\ polls[s] /\ polls' = [polls EXCEPT ![s] = FALSE]
  /\ UNCHANGED <<offered, by, quiet, queued, gone, can, handed, lost, triggered, registered>>

\* The window is four times as long as a request for work is held open.
TimePasses ==
  /\ \A s \in Servers : ~polls[s]
  /\ quiet' = TRUE
  /\ UNCHANGED <<offered, by, queued, polls, gone, can, handed, lost, triggered, registered>>

StopServing(s) ==
  /\ gone' = gone \cup {s}
  /\ UNCHANGED <<offered, by, quiet, queued, polls, can, handed, lost, triggered, registered>>

RestartApi ==
  /\ lost' = lost \cup ToSet(queued)
  /\ offered' = {} /\ queued' = <<>> /\ quiet' = FALSE /\ polls' = [s \in Servers |-> FALSE]
  /\ UNCHANGED <<by, gone, can, handed, triggered, registered>>

RemoteStep ==
  \/ \E s \in Servers : RegisterRemoteEvals(s) \/ NextRemoteEval(s) \/ TakeRequest(s)
                        \/ GiveUp(s) \/ StopServing(s)
  \/ ListRemoteEvals \/ TriggerRemoteEval \/ TimePasses \/ RestartApi

-----------------------------------------------------------------------------
RemoteTypeOK ==
  /\ offered \subseteq UNION Offers /\ gone \subseteq Servers
  /\ triggered \in 0..MaxTriggers /\ registered \in 0..MaxRegistered

\* A request is in the queue, with one server, or lost with a process, and in one of
\* these only; requests are handed out in the order they were made.  A request is for
\* what the server can run whose registration was in force when it was made, though
\* another may ask first and get it.
RemoteEvalsServed ==
  LET numbers(S) == {r.number : r \in S}
      places == <<numbers(ToSet(queued)), numbers(ToSet(handed)), numbers(lost)>>
      order == handed \o queued
  IN /\ UNION ToSet(places) = 1..triggered
     /\ \A i, j \in DOMAIN places : i # j => places[i] \cap places[j] = {}
     /\ \A i, j \in DOMAIN order : i < j => order[i].number < order[j].number
     /\ \A r \in ToSet(order) \cup lost : r.eval \in can[r.of]
=============================================================================
