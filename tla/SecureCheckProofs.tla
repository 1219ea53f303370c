-------------------------- MODULE SecureCheckProofs --------------------------
(***************************************************************************)
(* Proofs about SecureCheck, for any requests, processes, organizations    *)
(* and tickets, and any number of faults.                                  *)
(***************************************************************************)
EXTENDS SecureCheck, TLAPS

\* Every reply on its way names the organization of the prompt it is about, or
\* none.
InboxInv ==
  \A c \in Consumers : \A m \in inbox[c] : m.org # NoOrg => m.org = req[m.about].org

\* A waiting request, and no other, has a future, and what a check's future
\* holds is not about another organization's prompt.
FutureInv ==
  \A r \in Requests :
    /\ pc[r] = "waiting" <=> future[r].state # "none"
    /\ req[r].kind = "check" /\ future[r].state = "set" =>
         LET m == future[r].reply IN m.org # NoOrg => req[m.about].org = req[r].org

\* Of a request that is to be hard blocked nothing goes to the worker.
Hard(r) == req[r].kind = "check" /\ HardBlocked(req[r].input)

HardInv ==
  \A r \in Requests : Hard(r) =>
    /\ answer[r] # NoAnswer => ~answer[r].allow
    /\ r \notin jobs
    /\ pc[r] \in {"start", "done", "dead"}

IInv == TypeOK /\ InboxInv /\ FutureInv /\ HardInv /\ VerdictOfOwnOrg /\ UnscannedIsBlocked

-----------------------------------------------------------------------------
\* What a future can be.
LEMMA FutureTypes ==
  /\ Unset \in Futures /\ Pending \in Futures /\ Cancelled \in Futures
  /\ \A m \in Replies : Set(m) \in Futures /\ Set(m).state = "set" /\ Set(m).reply = m
  /\ Unset.state = "none" /\ Pending.state = "pending" /\ Cancelled.state = "cancelled"
  /\ \A f \in Futures :
       /\ f.state = "set" => f.reply \in Replies
       /\ f.state = "cancelled" => f = Cancelled /\ f.reply = NoReply
       /\ f.state = "pending" => f = Pending
       /\ f.state = "none" => f = Unset
       /\ f.state \in {"none", "pending", "cancelled", "set"}
<1>1. Unset.state = "none" /\ Pending.state = "pending"
      /\ Cancelled.state = "cancelled" /\ Cancelled.reply = NoReply
  BY DEF Unset, Pending, Cancelled
<1>2. \A m : Set(m).state = "set" /\ Set(m).reply = m
  BY DEF Set
<1>3. /\ Unset \in Futures /\ Pending \in Futures /\ Cancelled \in Futures
      /\ \A m \in Replies : Set(m) \in Futures
  BY DEF Futures
<1>4. \A f \in Futures : f = Unset \/ f = Pending \/ f = Cancelled \/ \E m \in Replies : f = Set(m)
  BY DEF Futures
<1>5. ASSUME NEW f \in Futures
      PROVE  /\ f.state = "set" => f.reply \in Replies
             /\ f.state = "cancelled" => f = Cancelled /\ f.reply = NoReply
             /\ f.state = "pending" => f = Pending
             /\ f.state = "none" => f = Unset
             /\ f.state \in {"none", "pending", "cancelled", "set"}
  BY <1>1, <1>2, <1>4
<1> QED
  BY <1>1, <1>2, <1>3, <1>5

\* An answer changes nothing of another request.
LEMMA AnswerStep ==
  ASSUME TypeOK, NEW r \in Requests, NEW by \in {"screen", "worker", "degraded", "open", "error"},
         NEW allow \in BOOLEAN, NEW reply \in Replies \cup {NoReply}, Answer(r, by, allow, reply)
  PROVE  /\ pc' = [pc EXCEPT ![r] = "done"]
         /\ answer' \in [Requests -> Answers \cup {NoAnswer}]
         /\ answer'[r].by = by /\ answer'[r].allow = allow /\ answer'[r].reply = reply
         /\ \A q \in Requests : q # r => answer'[q] = answer[q]
<1> DEFINE a == [by |-> by, allow |-> allow, reply |-> reply]
<1>1. a \in Answers
  BY DEF Answers
<1>2. a.by = by /\ a.allow = allow /\ a.reply = reply
  OBVIOUS
<1>3. pc' = [pc EXCEPT ![r] = "done"] /\ answer' = [answer EXCEPT ![r] = a]
  BY DEF Answer
<1> HIDE DEF a
<1> QED
  BY <1>1, <1>2, <1>3 DEF TypeOK

\* Giving up is an answer that a check which fails closed does not let through.
LEMMA GiveUpStep ==
  ASSUME NEW r \in Requests, NEW reply, GiveUp(r, reply)
  PROVE  \E by \in {"degraded", "open", "error"}, allow \in BOOLEAN :
           /\ Answer(r, by, allow, reply)
           /\ by = "degraded" /\ FailClosed => ~allow
<1>1. CASE req[r].kind = "check"
  <2> DEFINE allow == ~PatternBlocks(req[r].input) /\ ~FailClosed
  <2>1. Answer(r, "degraded", allow, reply)
    BY <1>1 DEF GiveUp
  <2>2. allow \in BOOLEAN /\ (FailClosed => ~allow)
    OBVIOUS
  <2> HIDE DEF allow
  <2> QED
    BY <2>1, <2>2
<1>2. CASE req[r].kind = "gate"
  <2>1. Answer(r, "open", TRUE, reply)
    BY <1>2 DEF GiveUp
  <2> QED
    BY <2>1
<1>3. CASE req[r].kind \notin {"check", "gate"}
  <2>1. Answer(r, "error", FALSE, reply)
    BY <1>3 DEF GiveUp
  <2> QED
    BY <2>1
<1> QED
  BY <1>1, <1>2, <1>3

\* What a request is answered with.
Proper(r, by, allow, reply) ==
  /\ Hard(r) => ~allow
  /\ req[r].kind = "check" /\ by = "worker" => (reply.org # NoOrg => req[reply.about].org = req[r].org)
  /\ FailClosed /\ by \in {"screen", "degraded"} /\ allow => by = "screen" /\ req[r].input.allow

\* A proper answer keeps the promises about answers.
LEMMA ProperStep ==
  ASSUME IInv, NEW r \in Requests, NEW by \in {"screen", "worker", "degraded", "open", "error"},
         NEW allow \in BOOLEAN, NEW reply \in Replies \cup {NoReply}, Answer(r, by, allow, reply),
         Proper(r, by, allow, reply), req' = req, jobs' = jobs
  PROVE  HardInv' /\ VerdictOfOwnOrg' /\ UnscannedIsBlocked'
<1>t. TypeOK /\ HardInv /\ VerdictOfOwnOrg /\ UnscannedIsBlocked
  BY DEF IInv
<1>1. /\ pc' = [pc EXCEPT ![r] = "done"]
      /\ answer'[r].by = by /\ answer'[r].allow = allow /\ answer'[r].reply = reply
      /\ \A q \in Requests : q # r => answer'[q] = answer[q]
  BY <1>t, AnswerStep
<1>2. pc'[r] = "done" /\ \A q \in Requests : q # r => pc'[q] = pc[q]
  BY <1>1, <1>t DEF TypeOK
<1>3. \A q \in Requests : Hard(q)' <=> Hard(q)
  BY DEF Hard
<1>4. HardInv'
  <2> SUFFICES ASSUME NEW q \in Requests, Hard(q)
               PROVE  /\ answer'[q] # NoAnswer => ~answer'[q].allow
                      /\ q \notin jobs
                      /\ pc'[q] \in {"start", "done", "dead"}
    BY <1>3 DEF HardInv
  <2>1. CASE q = r
    BY <2>1, <1>1, <1>2, <1>t DEF HardInv, Proper
  <2>2. CASE q # r
    BY <2>2, <1>1, <1>2, <1>t DEF HardInv
  <2> QED
    BY <2>1, <2>2
<1>5. VerdictOfOwnOrg'
  <2> SUFFICES ASSUME NEW q \in Requests, req[q].kind = "check", answer'[q].by = "worker",
                      answer'[q].reply.org # NoOrg
               PROVE  req[answer'[q].reply.about].org = req[q].org
    BY DEF VerdictOfOwnOrg
  <2>1. CASE q = r
    BY <2>1, <1>1 DEF Proper
  <2>2. CASE q # r
    BY <2>2, <1>1, <1>t DEF VerdictOfOwnOrg
  <2> QED
    BY <2>1, <2>2
<1>6. UnscannedIsBlocked'
  <2> SUFFICES ASSUME FailClosed, NEW q \in Requests, answer'[q].by \in {"screen", "degraded"},
                      answer'[q].allow
               PROVE  answer'[q].by = "screen" /\ req[q].input.allow
    BY DEF UnscannedIsBlocked
  <2>1. CASE q = r
    BY <2>1, <1>1 DEF Proper
  <2>2. CASE q # r
    BY <2>2, <1>1, <1>t DEF UnscannedIsBlocked
  <2> QED
    BY <2>1, <2>2
<1> QED
  BY <1>4, <1>5, <1>6

\* Nothing is answered.
LEMMA NoAnswerStep ==
  ASSUME IInv, UNCHANGED <<req, answer>>
  PROVE  VerdictOfOwnOrg' /\ UnscannedIsBlocked'
  BY DEF IInv, VerdictOfOwnOrg, UnscannedIsBlocked

-----------------------------------------------------------------------------
(* The request.                                                            *)

\* An answer to a request, and what it leaves alone, keep the invariant.
LEMMA AnsweredStep ==
  ASSUME IInv, NEW r \in Requests, pc[r] # "done",
         NEW by \in {"screen", "worker", "degraded", "open", "error"},
         NEW allow \in BOOLEAN, NEW reply \in Replies \cup {NoReply}, Answer(r, by, allow, reply),
         Proper(r, by, allow, reply),
         UNCHANGED <<req, jobs, inbox, consumer>>, faults' \in Nat,
         slots' = slots \ {r},
         (future' = future /\ pc[r] # "waiting") \/ future' = [future EXCEPT ![r] = Unset]
  PROVE  IInv'
<1>t. TypeOK /\ InboxInv /\ FutureInv
  BY DEF IInv
<1>1. pc' = [pc EXCEPT ![r] = "done"] /\ answer' \in [Requests -> Answers \cup {NoAnswer}]
  BY <1>t, AnswerStep
<1>2. pc'[r] = "done" /\ \A q \in Requests : q # r => pc'[q] = pc[q]
  BY <1>1, <1>t DEF TypeOK
<1>3. future' \in [Requests -> Futures] /\ future'[r].state = "none"
      /\ \A q \in Requests : q # r => future'[q] = future[q]
  <2>1. CASE future' = future /\ pc[r] # "waiting"
    BY <2>1, <1>t, FutureTypes DEF TypeOK, FutureInv
  <2>2. CASE future' = [future EXCEPT ![r] = Unset]
    BY <2>2, <1>t, FutureTypes DEF TypeOK
  <2> QED
    BY <2>1, <2>2
<1>4. TypeOK'
  <2>1. slots' = {q \in Requests : pc'[q] = "waiting"}
    BY <1>2, <1>t DEF TypeOK
  <2>2. pc' \in [Requests -> {"start", "publishing", "acking", "waiting", "done", "dead"}]
    BY <1>1, <1>t DEF TypeOK
  <2> QED
    BY <2>1, <2>2, <1>1, <1>3, <1>t DEF TypeOK, Consumers
<1>5. InboxInv'
  BY <1>t DEF InboxInv, Consumers
<1>6. FutureInv'
  BY <1>2, <1>3, <1>t DEF FutureInv
<1>7. HardInv' /\ VerdictOfOwnOrg' /\ UnscannedIsBlocked'
  BY ProperStep
<1> QED
  BY <1>4, <1>5, <1>6, <1>7 DEF IInv

LEMMA ScreenStep ==
  ASSUME IInv, NEW r \in Requests, Screen(r)
  PROVE  IInv'
<1>t. TypeOK /\ InboxInv /\ FutureInv /\ HardInv
  BY DEF IInv
<1>1. pc[r] = "start" /\ UNCHANGED <<req, slots, future, jobs, inbox, consumer, faults>>
  BY DEF Screen
<1>2. slots' = slots \ {r} /\ faults' \in Nat
  BY <1>1, <1>t DEF TypeOK
<1>3. CASE Hard(r)
  <2>1. Answer(r, "screen", FALSE, NoReply)
    BY <1>3 DEF Screen, Hard
  <2>2. Proper(r, "screen", FALSE, NoReply)
    BY DEF Proper
  <2> QED
    BY <2>1, <2>2, <1>1, <1>2, AnsweredStep
<1>4. CASE ~Hard(r) /\ req[r].kind = "check" /\ req[r].input.allow
  <2>1. Answer(r, "screen", TRUE, NoReply)
    BY <1>4 DEF Screen, Hard
  <2>2. Proper(r, "screen", TRUE, NoReply)
    BY <1>4 DEF Proper
  <2> QED
    BY <2>1, <2>2, <1>1, <1>2, AnsweredStep
<1>5. CASE ~Hard(r) /\ ~(req[r].kind = "check" /\ req[r].input.allow)
  <2>1. pc' = [pc EXCEPT ![r] = "publishing"] /\ answer' = answer
    BY <1>5 DEF Screen, Hard
  <2>2. pc'[r] = "publishing" /\ \A q \in Requests : q # r => pc'[q] = pc[q]
    BY <2>1, <1>t DEF TypeOK
  <2>3. TypeOK'
    <3>1. slots' = {q \in Requests : pc'[q] = "waiting"}
      BY <2>2, <1>1, <1>t DEF TypeOK
    <3> QED
      BY <3>1, <2>1, <1>1, <1>t DEF TypeOK, Consumers
  <2>4. InboxInv' /\ FutureInv'
    BY <2>2, <1>1, <1>t DEF InboxInv, FutureInv, Consumers
  <2>5. HardInv'
    BY <2>1, <2>2, <1>1, <1>5, <1>t DEF HardInv, Hard
  <2> QED
    BY <2>1, <2>3, <2>4, <2>5, <1>1, NoAnswerStep DEF IInv
<1> QED
  BY <1>3, <1>4, <1>5

\* A request goes from one place to the next, unanswered.
LEMMA AdvanceStep ==
  ASSUME IInv, NEW r \in Requests, PublishJob(r) \/ Register(r)
  PROVE  IInv'
<1>t. TypeOK /\ InboxInv /\ FutureInv /\ HardInv
  BY DEF IInv
<1>1. UNCHANGED <<req, inbox, consumer, answer, faults>> /\ pc[r] \in {"publishing", "acking"}
  BY DEF PublishJob, Register
<1>2. ~Hard(r)
  BY <1>1, <1>t DEF HardInv
<1>3. pc' \in [Requests -> {"start", "publishing", "acking", "waiting", "done", "dead"}]
      /\ \A q \in Requests : q # r => pc'[q] = pc[q] /\ future'[q] = future[q]
                                      /\ (q \in jobs' <=> q \in jobs)
                                      /\ (q \in slots' <=> q \in slots)
  BY <1>t DEF PublishJob, Register, TypeOK
<1>4. jobs' \in SUBSET Requests /\ slots' \in SUBSET Requests
      /\ future' \in [Requests -> Futures]
      /\ (r \in slots' <=> pc'[r] = "waiting")
      /\ (pc'[r] = "waiting" <=> future'[r].state # "none")
      /\ future'[r].state # "set"
  <2>1. CASE PublishJob(r)
    BY <2>1, <1>t, FutureTypes DEF PublishJob, TypeOK, FutureInv
  <2>2. CASE Register(r)
    BY <2>2, <1>t, FutureTypes DEF Register, TypeOK, FutureInv
  <2> QED
    BY <2>1, <2>2
<1>5. TypeOK'
  <2>1. slots' = {q \in Requests : pc'[q] = "waiting"}
    BY <1>3, <1>4, <1>t DEF TypeOK
  <2> QED
    BY <2>1, <1>1, <1>3, <1>4, <1>t DEF TypeOK, Consumers
<1>6. InboxInv'
  BY <1>1, <1>t DEF InboxInv, Consumers
<1>7. FutureInv'
  BY <1>1, <1>3, <1>4, <1>t DEF FutureInv
<1>8. HardInv'
  BY <1>1, <1>2, <1>3, <1>t DEF HardInv, Hard
<1> QED
  BY <1>1, <1>5, <1>6, <1>7, <1>8, NoAnswerStep DEF IInv

\* A request that has gone to the worker is not to be hard blocked.
LEMMA GivenUpIsProper ==
  ASSUME IInv, NEW r \in Requests, pc[r] \in {"publishing", "acking", "waiting"},
         NEW by \in {"degraded", "open", "error"}, NEW allow \in BOOLEAN, NEW reply,
         by = "degraded" /\ FailClosed => ~allow
  PROVE  Proper(r, by, allow, reply)
  BY DEF IInv, HardInv, Proper

LEMMA PublishFailsStep ==
  ASSUME IInv, NEW r \in Requests, PublishFails(r)
  PROVE  IInv'
<1>t. TypeOK
  BY DEF IInv
<1>1. pc[r] \in {"publishing", "acking"} /\ GiveUp(r, NoReply) /\ faults' = faults + 1
      /\ UNCHANGED <<req, slots, future, jobs, inbox, consumer>>
  BY DEF PublishFails, Fault
<1>2. slots' = slots \ {r}
  BY <1>1, <1>t DEF TypeOK
<1>3. faults' \in Nat
  BY <1>1, <1>t DEF TypeOK
<1>4. PICK by \in {"degraded", "open", "error"}, allow \in BOOLEAN :
        Answer(r, by, allow, NoReply) /\ (by = "degraded" /\ FailClosed => ~allow)
  BY <1>1, GiveUpStep
<1>5. Proper(r, by, allow, NoReply)
  BY <1>1, <1>4, GivenUpIsProper
<1> QED
  BY <1>1, <1>2, <1>3, <1>4, <1>5, AnsweredStep

LEMMA ResumeStep ==
  ASSUME IInv, NEW r \in Requests, Resume(r)
  PROVE  IInv'
<1> DEFINE m == future[r].reply
<1>t. TypeOK /\ FutureInv /\ HardInv
  BY DEF IInv
<1>1. /\ pc[r] = "waiting" /\ future[r] # Pending
      /\ slots' = slots \ {r}
      /\ IF future[r] = Cancelled \/ m.verdict = "malformed"
           THEN GiveUp(r, m)
           ELSE Answer(r, "worker", m.verdict = "allow", m)
      /\ future' = [future EXCEPT ![r] = Unset]
      /\ UNCHANGED <<req, jobs, inbox, consumer, faults>>
  BY DEF Resume
<1>2. future[r] \in Futures /\ faults' \in Nat
  BY <1>1, <1>t DEF TypeOK
<1>3. future[r].state \in {"cancelled", "set"}
  BY <1>1, <1>2, <1>t, FutureTypes DEF FutureInv
<1>4. m \in Replies \cup {NoReply} /\ (future[r].state = "set" => m \in Replies)
  BY <1>2, <1>3, FutureTypes
<1>5. CASE future[r] = Cancelled \/ m.verdict = "malformed"
  <2>1. GiveUp(r, m)
    BY <1>1, <1>5
  <2>2. PICK by \in {"degraded", "open", "error"}, allow \in BOOLEAN :
          Answer(r, by, allow, m) /\ (by = "degraded" /\ FailClosed => ~allow)
    BY <2>1, GiveUpStep
  <2>3. Proper(r, by, allow, m)
    BY <1>1, <2>2, GivenUpIsProper
  <2> QED
    BY ZenonT(60), <1>1, <1>2, <1>4, <2>2, <2>3, AnsweredStep
<1>6. CASE ~(future[r] = Cancelled \/ m.verdict = "malformed")
  <2> DEFINE allow == m.verdict = "allow"
  <2>1. Answer(r, "worker", allow, m)
    BY <1>1, <1>6
  <2>2. future[r].state = "set"
    BY <1>2, <1>3, <1>6, FutureTypes
  <2>3. ~Hard(r)
    BY <1>1, <1>t DEF HardInv
  <2>4. Proper(r, "worker", allow, m)
    BY <2>2, <2>3, <1>t DEF Proper, FutureInv
  <2>5. allow \in BOOLEAN
    OBVIOUS
  <2> HIDE DEF allow, m
  <2> QED
    BY <1>1, <1>2, <1>4, <2>1, <2>4, <2>5, AnsweredStep
<1> QED
  BY <1>5, <1>6

-----------------------------------------------------------------------------
(* Steps after which each request stands where it stood.                   *)

\* Requests, futures and consumers stay; jobs go and sound replies come.
LEMMA TopicsStep ==
  ASSUME IInv, UNCHANGED <<req, pc, slots, future, answer>>, jobs' \subseteq jobs,
         faults' \in Nat, consumer' \in [Consumers -> BOOLEAN],
         inbox' \in [Consumers -> SUBSET Replies],
         \A c \in Consumers : \A m \in inbox'[c] \ inbox[c] : m.org # NoOrg => m.org = req[m.about].org
  PROVE  IInv'
<1>t. TypeOK /\ InboxInv /\ FutureInv /\ HardInv
  BY DEF IInv
<1>1. TypeOK'
  BY <1>t DEF TypeOK, Consumers
<1>2. InboxInv'
  BY <1>t DEF InboxInv, Consumers
<1>3. FutureInv' /\ HardInv'
  BY <1>t DEF FutureInv, HardInv, Hard
<1> QED
  BY <1>1, <1>2, <1>3, NoAnswerStep DEF IInv

\* A delivery leaves in each inbox what was there, and at most the message.
LEMMA DeliverStep ==
  ASSUME TypeOK, NEW topic, NEW m \in Replies, Deliver(topic, m)
  PROVE  /\ inbox' \in [Consumers -> SUBSET Replies]
         /\ \A c \in Consumers : inbox'[c] \ inbox[c] \subseteq {m}
  BY DEF TypeOK, Deliver

LEMMA WorkerStep ==
  ASSUME IInv, NEW r \in Requests, Reply(r) \/ ReplyBadly(r) \/ TakeTwice(r) \/ LoseJob(r)
  PROVE  IInv'
<1>t. TypeOK
  BY DEF IInv
<1>1. req[r].org \in Orgs
  BY <1>t, TicketsAssumption DEF TypeOK
<1>2. UNCHANGED <<req, pc, slots, future, answer, consumer>> /\ jobs' \subseteq jobs
  BY DEF Reply, ReplyBadly, TakeTwice, LoseJob
<1>3. faults' \in Nat
  <2>1. faults' = faults \/ faults' = faults + 1
    BY DEF Reply, ReplyBadly, TakeTwice, LoseJob, Fault
  <2> QED
    BY <2>1, <1>t DEF TypeOK
<1>4. consumer' \in [Consumers -> BOOLEAN]
  BY <1>2, <1>t DEF TypeOK
<1>5. CASE LoseJob(r)
  <2>1. inbox' = inbox
    BY <1>5 DEF LoseJob
  <2>2. inbox' \in [Consumers -> SUBSET Replies]
    BY <2>1, <1>t DEF TypeOK
  <2> QED
    BY <2>1, <2>2, <1>2, <1>3, <1>4, TopicsStep
<1>6. CASE Reply(r) \/ ReplyBadly(r) \/ TakeTwice(r)
  <2>1. PICK q \in Requests, v \in {"allow", "block", "malformed"}, o \in {req[r].org, NoOrg} :
          Deliver(Topic[req[r].kind], [cid |-> q, about |-> r, org |-> o, verdict |-> v])
    BY <1>6 DEF Reply, ReplyBadly, TakeTwice
  <2> DEFINE m == [cid |-> q, about |-> r, org |-> o, verdict |-> v]
  <2>2. m \in Replies
    BY <1>1 DEF Replies
  <2>3. m.org # NoOrg => m.org = req[m.about].org
    OBVIOUS
  <2>4. Deliver(Topic[req[r].kind], m)
    BY <2>1
  <2> HIDE DEF m
  <2>5. inbox' \in [Consumers -> SUBSET Replies]
        /\ \A c \in Consumers : inbox'[c] \ inbox[c] \subseteq {m}
    BY <2>2, <2>4, <1>t, DeliverStep
  <2> QED
    BY <2>3, <2>5, <1>2, <1>3, <1>4, TopicsStep
<1> QED
  BY <1>5, <1>6

LEMMA ConsumerDiesStep ==
  ASSUME IInv, NEW c \in Consumers, ConsumerDies(c)
  PROVE  IInv'
<1>t. TypeOK
  BY DEF IInv
<1>1. UNCHANGED <<req, pc, slots, future, answer, jobs>> /\ faults' = faults + 1
      /\ consumer' = [consumer EXCEPT ![c] = FALSE] /\ inbox' = [inbox EXCEPT ![c] = {}]
  BY DEF ConsumerDies, Fault
<1>2. faults' \in Nat
  BY <1>1, <1>t DEF TypeOK
<1>3. inbox' \in [Consumers -> SUBSET Replies] /\ \A d \in Consumers : inbox'[d] \subseteq inbox[d]
  BY <1>1, <1>t DEF TypeOK
<1>4. consumer' \in [Consumers -> BOOLEAN]
  BY <1>1, <1>t DEF TypeOK
<1> QED
  BY <1>1, <1>2, <1>3, <1>4, TopicsStep

-----------------------------------------------------------------------------
(* Steps that settle futures.                                              *)

\* The futures of waiting requests change, to what they may hold.
LEMMA FuturesStep ==
  ASSUME IInv, NEW r \in Requests, pc[r] = "waiting", NEW f \in Futures, f.state # "none",
         req[r].kind = "check" /\ f.state = "set" =>
           (f.reply.org # NoOrg => req[f.reply.about].org = req[r].org),
         future' = [future EXCEPT ![r] = f], UNCHANGED <<req, pc, slots, jobs, consumer, answer, faults>>,
         inbox' \in [Consumers -> SUBSET Replies], \A c \in Consumers : inbox'[c] \subseteq inbox[c]
  PROVE  IInv'
<1>t. TypeOK /\ InboxInv /\ FutureInv /\ HardInv
  BY DEF IInv
<1>1. future' \in [Requests -> Futures] /\ future'[r] = f
      /\ \A q \in Requests : q # r => future'[q] = future[q]
  BY <1>t DEF TypeOK
<1>2. TypeOK'
  BY <1>1, <1>t DEF TypeOK, Consumers
<1>3. InboxInv'
  BY <1>t DEF InboxInv, Consumers
<1>4. FutureInv'
  BY <1>1, <1>t DEF FutureInv
<1>5. HardInv'
  BY <1>t DEF HardInv, Hard
<1> QED
  BY <1>2, <1>3, <1>4, <1>5, NoAnswerStep DEF IInv

LEMMA TimerStep ==
  ASSUME IInv, NEW r \in Requests, TimerFires(r)
  PROVE  IInv'
<1>1. pc[r] = "waiting" /\ future' = [future EXCEPT ![r] = Cancelled]
      /\ UNCHANGED <<req, pc, slots, jobs, inbox, consumer, answer, faults>>
  BY DEF TimerFires
<1>2. inbox' \in [Consumers -> SUBSET Replies] /\ \A c \in Consumers : inbox'[c] \subseteq inbox[c]
  BY <1>1 DEF IInv, TypeOK
<1>3. Cancelled \in Futures /\ Cancelled.state = "cancelled"
  BY FutureTypes
<1> QED
  BY <1>1, <1>2, <1>3, FuturesStep

LEMMA ConsumeStep ==
  ASSUME IInv, NEW c \in Consumers, Consume(c)
  PROVE  IInv'
<1>t. TypeOK /\ InboxInv
  BY DEF IInv
<1>1. PICK m \in inbox[c] :
        /\ inbox' = [inbox EXCEPT ![c] = @ \ {m}]
        /\ future' = IF Accepts(c, m) THEN [future EXCEPT ![m.cid] = Set(m)] ELSE future
  BY DEF Consume
<1>2. UNCHANGED <<req, pc, slots, jobs, consumer, answer, faults>>
  BY DEF Consume
<1>3. m \in Replies /\ m.cid \in Requests
      /\ (m.org # NoOrg => m.org = req[m.about].org)
  BY <1>t DEF TypeOK, InboxInv, Replies
<1>4. inbox' \in [Consumers -> SUBSET Replies] /\ \A d \in Consumers : inbox'[d] \subseteq inbox[d]
  BY <1>1, <1>t DEF TypeOK
<1>5. CASE Accepts(c, m)
  <2>1. pc[m.cid] = "waiting" /\ (req[m.cid].kind = "check" => m.org \in {NoOrg, req[m.cid].org})
    BY <1>5, <1>t DEF Accepts, TypeOK
  <2>2. Set(m) \in Futures /\ Set(m).state = "set" /\ Set(m).reply = m
    BY <1>3, FutureTypes
  <2>3. req[m.cid].kind = "check" /\ m.org # NoOrg => req[m.about].org = req[m.cid].org
    BY <2>1, <1>3
  <2>4. future' = [future EXCEPT ![m.cid] = Set(m)]
    BY <1>1, <1>5
  <2> QED
    BY <2>1, <2>2, <2>3, <2>4, <1>2, <1>3, <1>4, FuturesStep
<1>6. CASE ~Accepts(c, m)
  <2>1. future' = future
    BY <1>1, <1>6
  <2>2. faults' \in Nat /\ consumer' \in [Consumers -> BOOLEAN]
    BY <1>2, <1>t DEF TypeOK
  <2> QED
    BY <2>1, <2>2, <1>2, <1>4, TopicsStep
<1> QED
  BY <1>5, <1>6

LEMMA RestartStep ==
  ASSUME IInv, NEW p \in Replicas, Restart(p)
  PROVE  IInv'
<1> DEFINE gone == {r \in Requests : req[r].home = p /\ pc[r] # "done"}
<1>t. TypeOK /\ InboxInv /\ FutureInv /\ HardInv
  BY DEF IInv
<1>1. /\ pc' = [r \in Requests |-> IF r \in gone THEN "dead" ELSE pc[r]]
      /\ slots' = slots \ gone
      /\ future' = [r \in Requests |-> IF r \in gone THEN Unset ELSE future[r]]
      /\ consumer' = [c \in Consumers |-> c[1] = p \/ consumer[c]]
      /\ inbox' = [c \in Consumers |-> IF c[1] = p THEN {} ELSE inbox[c]]
      /\ UNCHANGED <<req, jobs, answer>> /\ faults' = faults + 1
  BY DEF Restart, Fault
<1> HIDE DEF gone
<1>2. \A r \in Requests :
        /\ pc'[r] = (IF r \in gone THEN "dead" ELSE pc[r])
        /\ future'[r] = (IF r \in gone THEN Unset ELSE future[r])
  BY <1>1
<1>3. TypeOK'
  <2>1. faults' \in Nat
    BY <1>1, <1>t DEF TypeOK
  <2>2. slots' = {r \in Requests : pc'[r] = "waiting"}
    BY <1>1, <1>2, <1>t DEF TypeOK
  <2>3. future' \in [Requests -> Futures]
    BY <1>1, <1>t, FutureTypes DEF TypeOK
  <2>4. pc' \in [Requests -> {"start", "publishing", "acking", "waiting", "done", "dead"}]
    BY <1>1, <1>t DEF TypeOK
  <2>5. consumer' \in [Consumers -> BOOLEAN]
    <3>1. \A c \in Consumers : (c[1] = p \/ consumer[c]) \in BOOLEAN
      OBVIOUS
    <3> QED
      BY <3>1, <1>1
  <2>6. inbox' \in [Consumers -> SUBSET Replies]
    BY <1>1, <1>t DEF TypeOK
  <2> QED
    BY <2>1, <2>2, <2>3, <2>4, <2>5, <2>6, <1>1, <1>t DEF TypeOK, Consumers
<1>4. InboxInv'
  BY <1>1, <1>t DEF InboxInv, Consumers
<1>5. FutureInv'
  BY <1>1, <1>2, <1>t, FutureTypes DEF FutureInv
<1>6. HardInv'
  BY <1>1, <1>2, <1>t DEF HardInv, Hard
<1> QED
  BY <1>1, <1>3, <1>4, <1>5, <1>6, NoAnswerStep DEF IInv

-----------------------------------------------------------------------------
LEMMA InitIInv == Init => IInv
<1> SUFFICES ASSUME Init PROVE IInv
  OBVIOUS
<1>1. NoAnswer.by = "none"
  BY DEF NoAnswer
<1>2. TypeOK
  BY FutureTypes DEF Init, TypeOK
<1>3. InboxInv /\ FutureInv
  BY FutureTypes DEF Init, InboxInv, FutureInv
<1>4. HardInv /\ VerdictOfOwnOrg /\ UnscannedIsBlocked
  BY <1>1 DEF Init, HardInv, VerdictOfOwnOrg, UnscannedIsBlocked
<1> QED
  BY <1>2, <1>3, <1>4 DEF IInv

LEMMA NextIInv == IInv /\ [Next]_vars => IInv'
<1> SUFFICES ASSUME IInv, [Next]_vars PROVE IInv'
  OBVIOUS
<1>1. ASSUME NEW r \in Requests, Request(r) PROVE IInv'
  BY <1>1, ScreenStep, AdvanceStep, PublishFailsStep, TimerStep, ResumeStep DEF Request
<1>2. ASSUME NEW r \in Requests, Reply(r) \/ ReplyBadly(r) \/ TakeTwice(r) \/ LoseJob(r) PROVE IInv'
  BY <1>2, WorkerStep
<1>3. ASSUME NEW c \in Consumers, Consume(c) \/ ConsumerDies(c) PROVE IInv'
  BY <1>3, ConsumeStep, ConsumerDiesStep
<1>4. ASSUME NEW p \in Replicas, Restart(p) PROVE IInv'
  BY <1>4, RestartStep
<1>5. CASE UNCHANGED vars
  <2>1. TypeOK /\ faults' \in Nat /\ consumer' \in [Consumers -> BOOLEAN]
        /\ inbox' \in [Consumers -> SUBSET Replies]
    BY <1>5 DEF IInv, TypeOK, vars
  <2> QED
    BY <1>5, <2>1, TopicsStep DEF vars
<1> QED
  BY <1>1, <1>2, <1>3, <1>4, <1>5 DEF Next

LEMMA Invariance == Spec => []IInv
  BY InitIInv, NextIInv, PTL DEF Spec

\* Every value has its type; a request is registered exactly while it waits.
THEOREM TypeCorrect == Spec => []TypeOK
<1>1. IInv => TypeOK
  BY DEF IInv
<1> QED
  BY <1>1, Invariance, PTL

\* However replies are misdirected, repeated or lost, no check is answered with
\* the verdict on another organization's prompt.
THEOREM VerdictsStayHome == Spec => []VerdictOfOwnOrg
<1>1. IInv => VerdictOfOwnOrg
  BY DEF IInv
<1> QED
  BY <1>1, Invariance, PTL

\* A hard block is final and never reaches the worker.
THEOREM HardBlocksAreFinal == Spec => []HardBlockWins
<1>1. IInv => HardBlockWins
  BY DEF IInv, HardInv, Hard, HardBlockWins
<1> QED
  BY <1>1, Invariance, PTL

\* Failing closed, only the allow list lets an unscanned check through.
THEOREM FailClosedIsClosed == Spec => []UnscannedIsBlocked
<1>1. IInv => UnscannedIsBlocked
  BY DEF IInv
<1> QED
  BY <1>1, Invariance, PTL
=============================================================================
