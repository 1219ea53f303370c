------------------------------ MODULE SecureCheck ------------------------------
(***************************************************************************)
(* Requests that wait for a worker's reply over Kafka: POST /secure/check, *)
(* the response gate of POST /ingest and POST /evaluate/playground.        *)
(*                                                                         *)
(* A request publishes a job under a fresh correlation id and waits on a   *)
(* future kept under that id in its own process.  The worker's reply goes  *)
(* to every process; the one that holds the future resolves it, the others *)
(* skip it.  When no usable reply comes in time, a check falls back to a   *)
(* degraded verdict, the gate lets the response pass, the playground fails.*)
(***************************************************************************)
EXTENDS Integers, FiniteSets

CONSTANTS
  Requests,    \* requests; also their correlation ids
  Replicas,    \* API processes
  Orgs,
  NoOrg,       \* a reply that names no organization
  NoReply,
  Tickets,     \* what a request can be: its process, organization, kind, prompt
  FailClosed,  \* SECURE_FAIL_CLOSED
  MaxFaults    \* bound: lost jobs, wrong replies, dead consumers, crashes

Kinds == {"check", "gate", "playground"}

\* Checks and gates share a reply topic and the map of pending futures.
Topic     == [check |-> "security", gate |-> "security", playground |-> "playground"]
Consumers == Replicas \X {"security", "playground"}

\* What the screening of a check can find in its prompt.
\* deny and allow: the prompt matches the policy's deny list, allow list;
\* risk: the pattern scan's level; blockable: the policy lets one of the
\* attacks found block; medium: the policy blocks at medium risk already.
Inputs == [deny : BOOLEAN, allow : BOOLEAN, risk : {"low", "medium", "high"},
           blockable : BOOLEAN, medium : BOOLEAN]

ASSUME TicketsAssumption ==
  Tickets \subseteq [home : Replicas, org : Orgs, kind : Kinds, input : Inputs]
ASSUME OrgsAssumption   == NoOrg \notin Orgs
ASSUME BoundAssumption  == FailClosed \in BOOLEAN /\ MaxFaults \in Nat

VARIABLES
  req,       \* each request's ticket
  pc,        \* where it stands
  slots,     \* correlation ids registered in _pending / _playground_pending
  future,    \* what each registered future holds
  jobs,      \* published jobs no worker has taken yet
  inbox,     \* replies each consumer has yet to read
  consumer,  \* whether each consumer's loop is alive
  answer,    \* what each request was answered
  faults

vars == <<req, pc, slots, future, jobs, inbox, consumer, answer, faults>>

Replies == [cid : Requests, about : Requests, org : Orgs \cup {NoOrg},
            verdict : {"allow", "block", "malformed"}]
Answers == [by : {"screen", "worker", "degraded", "open", "error"}, allow : BOOLEAN,
            reply : Replies \cup {NoReply}]
NoAnswer == [by |-> "none", allow |-> FALSE, reply |-> NoReply]

\* What a registered future holds; Unset for a request that has none.
Unset     == [state |-> "none",      reply |-> NoReply]
Pending   == [state |-> "pending",   reply |-> NoReply]
Cancelled == [state |-> "cancelled", reply |-> NoReply]
Set(m)    == [state |-> "set",       reply |-> m]
Futures   == {Unset, Pending, Cancelled} \cup {Set(m) : m \in Replies}

TypeOK ==
  /\ req \in [Requests -> Tickets]
  /\ pc \in [Requests -> {"start", "publishing", "acking", "waiting", "done", "dead"}]
  /\ slots \in SUBSET Requests
  /\ future \in [Requests -> Futures]
  /\ jobs \in SUBSET Requests
  /\ inbox \in [Consumers -> SUBSET Replies]
  /\ consumer \in [Consumers -> BOOLEAN]
  /\ answer \in [Requests -> Answers \cup {NoAnswer}]
  /\ faults \in Nat
  \* Only a waiting request is registered, and it is registered to the end.
  /\ slots = {r \in Requests : pc[r] = "waiting"}

Fault == faults < MaxFaults /\ faults' = faults + 1

ConsumerOf(r) == <<req[r].home, Topic[req[r].kind]>>

-----------------------------------------------------------------------------
Init ==
  /\ req \in [Requests -> Tickets]
  /\ pc = [r \in Requests |-> "start"]
  /\ slots = {}
  /\ future = [r \in Requests |-> Unset]
  /\ jobs = {}
  /\ inbox = [c \in Consumers |-> {}]
  /\ consumer = [c \in Consumers |-> TRUE]
  /\ answer = [r \in Requests |-> NoAnswer]
  /\ faults = 0

-----------------------------------------------------------------------------
(* The request.                                                            *)

\* The verdict of the pattern scan under the organization's policy; the
\* degraded path computes it a second time.
PatternBlocks(i) ==
  /\ i.risk = "high" \/ (i.risk = "medium" /\ i.medium)
  /\ i.blockable

HardBlocked(i) == i.deny \/ PatternBlocks(i)

Answer(r, by, allow, reply) ==
  /\ pc' = [pc EXCEPT ![r] = "done"]
  /\ answer' = [answer EXCEPT ![r] = [by |-> by, allow |-> allow, reply |-> reply]]

\* Seeded fault: the allow list is consulted first.
ScreenAllowFirst(r) ==
  /\ pc[r] = "start"
  /\ IF req[r].kind = "check" /\ req[r].input.allow
       THEN Answer(r, "screen", TRUE, NoReply)
     ELSE IF req[r].kind = "check" /\ HardBlocked(req[r].input)
       THEN Answer(r, "screen", FALSE, NoReply)
       ELSE pc' = [pc EXCEPT ![r] = "publishing"] /\ UNCHANGED answer
  /\ UNCHANGED <<req, slots, future, jobs, inbox, consumer, faults>>

\* Deny list and patterns block, then the allow list lets through; what is
\* left goes to the worker.  Only checks are screened.
Screen(r) ==
  /\ pc[r] = "start"
  /\ IF req[r].kind = "check" /\ HardBlocked(req[r].input)
       THEN Answer(r, "screen", FALSE, NoReply)
     ELSE IF req[r].kind = "check" /\ req[r].input.allow
       THEN Answer(r, "screen", TRUE, NoReply)
       ELSE pc' = [pc EXCEPT ![r] = "publishing"] /\ UNCHANGED answer
  /\ UNCHANGED <<req, slots, future, jobs, inbox, consumer, faults>>

\* add_job: the broker has the job, its acknowledgement is on the way.
PublishJob(r) ==
  /\ pc[r] = "publishing"
  /\ pc' = [pc EXCEPT ![r] = "acking"]
  /\ jobs' = jobs \cup {r}
  /\ UNCHANGED <<req, slots, future, inbox, consumer, answer, faults>>

\* add_job returns and the coroutine that waits is entered: only now is the
\* future registered.
Register(r) ==
  /\ pc[r] = "acking"
  /\ pc' = [pc EXCEPT ![r] = "waiting"]
  /\ slots' = slots \cup {r}
  /\ future' = [future EXCEPT ![r] = Pending]
  /\ UNCHANGED <<req, jobs, inbox, consumer, answer, faults>>

\* Seeded fault: a degraded check that found nothing is let through.
GiveUpOpen(r, reply) ==
  IF req[r].kind = "check"
    THEN Answer(r, "degraded", ~PatternBlocks(req[r].input), reply)
  ELSE IF req[r].kind = "gate"
    THEN Answer(r, "open", TRUE, reply)
    ELSE Answer(r, "error", FALSE, reply)

\* Without a usable reply a check falls back on its pattern verdict, blocking
\* when configured to fail closed; the gate fails open, the playground fails.
GiveUp(r, reply) ==
  IF req[r].kind = "check"
    THEN Answer(r, "degraded", ~PatternBlocks(req[r].input) /\ ~FailClosed, reply)
  ELSE IF req[r].kind = "gate"
    THEN Answer(r, "open", TRUE, reply)
    ELSE Answer(r, "error", FALSE, reply)

\* add_job raises, before or after the broker took the job.
PublishFails(r) ==
  /\ pc[r] \in {"publishing", "acking"}
  /\ Fault
  /\ GiveUp(r, NoReply)
  /\ UNCHANGED <<req, slots, future, jobs, inbox, consumer>>

\* Seeded fault: the timer is kept by the reply consumer.
TimerOfConsumer(r) ==
  /\ pc[r] = "waiting"
  /\ consumer[ConsumerOf(r)]
  /\ future[r] # Cancelled
  /\ future' = [future EXCEPT ![r] = Cancelled]
  /\ UNCHANGED <<req, pc, slots, jobs, inbox, consumer, answer, faults>>

\* wait_for's timer, or the cancellation of the request.  It wins over a reply
\* set in the same turn of the event loop, before the coroutine goes on.
TimerFires(r) ==
  /\ pc[r] = "waiting"
  /\ future[r] # Cancelled
  /\ future' = [future EXCEPT ![r] = Cancelled]
  /\ UNCHANGED <<req, pc, slots, jobs, inbox, consumer, answer, faults>>

\* Seeded fault: the slot of a request that timed out is not cleaned up.
ResumeLeaking(r) ==
  /\ pc[r] = "waiting"
  /\ future[r] # Pending
  /\ slots' = IF future[r] = Cancelled THEN slots ELSE slots \ {r}
  /\ LET m == future[r].reply
     IN  IF future[r] = Cancelled \/ m.verdict = "malformed"
           THEN GiveUp(r, m)
           ELSE Answer(r, "worker", m.verdict = "allow", m)
  /\ future' = [future EXCEPT ![r] = Unset]
  /\ UNCHANGED <<req, jobs, inbox, consumer, faults>>

\* The waiting coroutine goes on with what its future holds, and unregisters.
Resume(r) ==
  /\ pc[r] = "waiting"
  /\ future[r] # Pending
  /\ slots' = slots \ {r}
  /\ LET m == future[r].reply
     IN  IF future[r] = Cancelled \/ m.verdict = "malformed"
           THEN GiveUp(r, m)
           ELSE Answer(r, "worker", m.verdict = "allow", m)
  /\ future' = [future EXCEPT ![r] = Unset]
  /\ UNCHANGED <<req, jobs, inbox, consumer, faults>>

Request(r) ==
  Screen(r) \/ PublishJob(r) \/ Register(r) \/ PublishFails(r)
    \/ TimerFires(r) \/ Resume(r)

-----------------------------------------------------------------------------
(* The worker and the topics, outside this service.                        *)

\* The reply reaches every live consumer of the topic.
Deliver(topic, m) ==
  inbox' = [c \in Consumers |-> IF c[2] = topic /\ consumer[c]
                                  THEN inbox[c] \cup {m} ELSE inbox[c]]

Reply(r) ==
  /\ r \in jobs
  /\ jobs' = jobs \ {r}
  /\ \E v \in {"allow", "block"} :
       Deliver(Topic[req[r].kind], [cid |-> r, about |-> r, org |-> req[r].org, verdict |-> v])
  /\ UNCHANGED <<req, pc, slots, future, consumer, answer, faults>>

\* The worker answers badly: under another request's correlation id, with a
\* verdict that cannot be read, or without saying for which organization.
ReplyBadly(r) ==
  /\ r \in jobs
  /\ Fault
  /\ jobs' = jobs \ {r}
  /\ \E q \in Requests, v \in {"allow", "malformed"}, o \in {req[r].org, NoOrg} :
       /\ Topic[req[q].kind] = Topic[req[r].kind]
       /\ o = NoOrg => q = r
       /\ Deliver(Topic[req[r].kind], [cid |-> q, about |-> r, org |-> o, verdict |-> v])
  /\ UNCHANGED <<req, pc, slots, future, consumer, answer>>

\* A job is taken twice, or never.
TakeTwice(r) ==
  /\ r \in jobs
  /\ Fault
  /\ Deliver(Topic[req[r].kind], [cid |-> r, about |-> r, org |-> req[r].org, verdict |-> "allow"])
  /\ UNCHANGED <<req, pc, slots, future, jobs, consumer, answer>>

LoseJob(r) ==
  /\ r \in jobs
  /\ Fault
  /\ jobs' = jobs \ {r}
  /\ UNCHANGED <<req, pc, slots, future, inbox, consumer, answer>>

-----------------------------------------------------------------------------
(* The reply consumers.                                                    *)

\* Seeded fault: the organization named in the reply is not compared.
AcceptsAnyOrg(c, m) ==
  /\ m.cid \in slots /\ ConsumerOf(m.cid) = c
  /\ future[m.cid] = Pending

\* A reply is for a future this process holds and has not settled; a check
\* also expects its organization, and a reply that names another is dropped.
Accepts(c, m) ==
  /\ m.cid \in slots /\ ConsumerOf(m.cid) = c
  /\ future[m.cid] = Pending
  /\ req[m.cid].kind = "check" => m.org \in {NoOrg, req[m.cid].org}

Consume(c) ==
  /\ consumer[c]
  /\ \E m \in inbox[c] :
       /\ inbox' = [inbox EXCEPT ![c] = @ \ {m}]
       /\ future' = IF Accepts(c, m) THEN [future EXCEPT ![m.cid] = Set(m)] ELSE future
  /\ UNCHANGED <<req, pc, slots, jobs, consumer, answer, faults>>

\* An exception ends the loop for good; nothing restarts it.
ConsumerDies(c) ==
  /\ consumer[c]
  /\ Fault
  /\ consumer' = [consumer EXCEPT ![c] = FALSE]
  /\ inbox' = [inbox EXCEPT ![c] = {}]
  /\ UNCHANGED <<req, pc, slots, future, jobs, answer>>

\* The process restarts: its requests are gone, and its new consumers start
\* at the end of their topics.
Restart(p) ==
  /\ Fault
  /\ LET gone == {r \in Requests : req[r].home = p /\ pc[r] # "done"}
     IN  /\ pc' = [r \in Requests |-> IF r \in gone THEN "dead" ELSE pc[r]]
         /\ slots' = slots \ gone
         /\ future' = [r \in Requests |-> IF r \in gone THEN Unset ELSE future[r]]
  /\ consumer' = [c \in Consumers |-> c[1] = p \/ consumer[c]]
  /\ inbox' = [c \in Consumers |-> IF c[1] = p THEN {} ELSE inbox[c]]
  /\ UNCHANGED <<req, jobs, answer>>

-----------------------------------------------------------------------------
Next ==
  \/ \E r \in Requests :
       Request(r) \/ Reply(r) \/ ReplyBadly(r) \/ TakeTwice(r) \/ LoseJob(r)
  \/ \E c \in Consumers : Consume(c) \/ ConsumerDies(c)
  \/ \E p \in Replicas : Restart(p)

Spec == Init /\ [][Next]_vars

\* A request that can go on does, and timers fire.  Nothing is assumed of the
\* worker or the consumers.
FairSpec == Spec /\ \A r \in Requests : WF_vars(Request(r))

-----------------------------------------------------------------------------
(* What is promised about it.                                              *)

\* A check is never answered with the verdict on another organization's
\* prompt, even when the worker echoes a wrong correlation id.
VerdictOfOwnOrg ==
  \A r \in Requests :
    req[r].kind = "check" /\ answer[r].by = "worker" =>
      LET m == answer[r].reply IN m.org # NoOrg => req[m.about].org = req[r].org

\* A deny-listed prompt, or one the patterns block, is blocked whatever the
\* allow list says, whatever the worker would say, and costs it no scan.
HardBlockWins ==
  \A r \in Requests : req[r].kind = "check" /\ HardBlocked(req[r].input) =>
    /\ answer[r] # NoAnswer => ~answer[r].allow
    /\ r \notin jobs /\ pc[r] \notin {"acking", "waiting"}

\* Configured to fail closed, a check that was not scanned in full is let
\* through only by the allow list.
UnscannedIsBlocked ==
  FailClosed => \A r \in Requests :
    answer[r].by \in {"screen", "degraded"} /\ answer[r].allow =>
      answer[r].by = "screen" /\ req[r].input.allow

\* A worker's reply is not lost to a registration race: while the request is
\* still publishing, its consumer has not read (and skipped) its reply.
NoReplyBeforeRegistration ==
  \A r \in Requests : req[r].kind = "check" /\ pc[r] = "acking" =>
    r \in jobs \/ \E m \in inbox[ConsumerOf(r)] : m.cid = r

\* Every request is answered, or its process died, whatever becomes of its
\* job, of the reply and of the consumers.
EveryRequestEnds == \A r \in Requests : <>(pc[r] \in {"done", "dead"})
=============================================================================
