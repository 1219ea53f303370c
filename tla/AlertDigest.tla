----------------------------- MODULE AlertDigest -----------------------------
(***************************************************************************)
(* The alert consumer: enriched events become Slack messages, sent at once *)
(* or kept for a digest.  Two tasks share a process, the consumer's loop   *)
(* and the flush of the digests, and take turns whenever a message is      *)
(* posted.  Nothing is kept when the process stops.                        *)
(*                                                                         *)
(* A delivery of an event is handled once; the same event delivered again  *)
(* is another delivery.  The clock is left out: a digest gets due, and a   *)
(* cooldown ends, by an action.                                            *)
(***************************************************************************)
EXTENDS Integers, Sequences, FiniteSets, SequencesExt

CONSTANTS
  Deliveries,       \* deliveries of events by the broker
  Orgs,             \* the organizations they are about
  Window,           \* _RATE_WINDOW, outcomes kept for a metric
  MinSamples,       \* _RATE_MIN_SAMPLES, outcomes a rate is taken of
  FailureRate,      \* eval_failure_rate_above, in percent
  Idle

ASSUME WindowAssumption == Window \in Nat

VARIABLES
  inbox,            \* what the broker has not delivered
  handled,          \* the delivery at hand, with the digest setting read for it
  history,          \* _eval_history, of the one metric there is
  cooling,          \* _last_rate_alert is less than the cooldown ago
  buckets,          \* _DigestBuffer: what is kept, and whether it is due
  flushing,         \* the organizations whose digests this pass has to flush,
                    \* and the digest being posted
  raised, posted, lost           \* alerts, and what became of them: Slack may
                    \* refuse what is posted, and nobody asks

alertVars == <<inbox, handled, history, cooling, buckets, flushing,
               raised, posted, lost>>
fates == <<raised, posted, lost>>

Alert == Deliveries \X {"score", "rate", "security"}
Digests == {"realtime", "hourly"}

AlertsTypeOK ==
  /\ inbox \subseteq Deliveries
  /\ \A o \in Orgs : Len(history[o]) <= Window /\ history[o] \in Seq(BOOLEAN)
  /\ cooling \in [Orgs -> BOOLEAN]
  /\ \A o \in Orgs : buckets[o].items \subseteq Alert /\ buckets[o].due \in BOOLEAN
  /\ flushing.left \subseteq Orgs /\ flushing.taken \subseteq Alert
  /\ raised \cup posted \cup lost \subseteq Alert

\* No bucket, history or alert at first; the monotonic clock may be so young
\* that "never" counts as less than a cooldown ago.
AlertsInit ==
  /\ handled = Idle
  /\ history = [o \in Orgs |-> <<>>]
  /\ buckets = [o \in Orgs |-> [items |-> {}, due |-> FALSE]]
  /\ flushing = [left |-> {}, taken |-> {}]
  /\ inbox = Deliveries
  /\ cooling \in {[o \in Orgs |-> young] : young \in BOOLEAN}
  /\ raised = {} /\ posted = {} /\ lost = {}

-----------------------------------------------------------------------------
\* _run, _handle and _settings: an event of an organization without a webhook,
\* or with alerts off, or whose settings cannot be read, is done with.  The
\* settings may have changed since the last event: any that a lookup returns.
\* A scan that alerts to nothing is done with as well.
Receive ==
  /\ handled = Idle
  /\ \E e \in inbox, o \in Orgs, digest \in Digests, kind \in {"evaluation", "security"},
        low, failed \in BOOLEAN :
       /\ inbox' = inbox \ {e}
       /\ kind = "security" => low /\ ~failed
       /\ handled' = [id |-> e, org |-> o, kind |-> kind, low |-> low, failed |-> failed,
                      digest |-> digest]
  /\ UNCHANGED <<history, cooling, buckets, flushing, fates>>

Skip ==
  /\ handled = Idle
  /\ \E e \in inbox : inbox' = inbox \ {e}
  /\ UNCHANGED <<handled, history, cooling, buckets, flushing, fates>>

\* _deliver: posted now, with the result ignored, or added to the bucket.
Deliver(a) ==
  /\ raised' = raised \cup {a}
  /\ UNCHANGED lost
  /\ IF handled.digest = "realtime"
       THEN posted' = posted \cup {a} /\ UNCHANGED buckets
       ELSE /\ buckets' = [buckets EXCEPT ![handled.org].items = @ \cup {a}]
            /\ UNCHANGED posted

Deaf == UNCHANGED <<buckets, fates>>

\* _handle_security, after the filters; _handle_eval, a score below the limit.
SecurityAlert ==
  /\ handled # Idle /\ handled.kind = "security"
  /\ Deliver(<<handled.id, "security">>)
  /\ handled' = Idle
  /\ UNCHANGED <<inbox, history, cooling, flushing>>

ScoreAlert ==
  /\ handled # Idle /\ handled.kind = "evaluation"
  /\ IF handled.low THEN Deliver(<<handled.id, "score">>) ELSE Deaf
  /\ handled' = [handled EXCEPT !.kind = "rate"]
  /\ UNCHANGED <<inbox, history, cooling, flushing>>

Remembered(h, failed) ==
  LET all == Append(h, failed)
  IN  IF Len(all) > Window THEN Tail(all) ELSE all

Failures(h) == Len(SelectSeq(h, LAMBDA failed : failed))
\* ... and the share of failures among the last outcomes, unless it cools down,
\* which it begins to do before the alert is delivered.
TooMany(h) == Len(h) >= MinSamples /\ 100 * Failures(h) > FailureRate * Len(h)

RateAlert ==
  /\ handled # Idle /\ handled.kind = "rate"
  /\ LET o == handled.org
         h == Remembered(history[o], handled.failed)
     IN  /\ history' = [history EXCEPT ![o] = h]
         /\ IF TooMany(h) /\ ~cooling[o]
              THEN /\ cooling' = [cooling EXCEPT ![o] = TRUE]
                   /\ Deliver(<<handled.id, "rate">>)
              ELSE UNCHANGED cooling /\ Deaf
  /\ handled' = Idle
  /\ UNCHANGED <<inbox, flushing>>

CooledDown ==
  /\ \E o \in Orgs : cooling[o] /\ cooling' = [cooling EXCEPT ![o] = FALSE]
  /\ UNCHANGED <<inbox, handled, history, buckets, flushing, fates>>

-----------------------------------------------------------------------------
\* A digest with something to post falls due; an empty one would be put off.
FallDue ==
  /\ \E o \in Orgs : ~buckets[o].due /\ buckets[o].items # {} /\ buckets' = [buckets EXCEPT ![o].due = TRUE]
  /\ UNCHANGED <<inbox, handled, history, cooling, flushing, fates>>

\* flush_due looks at the buckets there are,
StartPass ==
  /\ flushing.left = {} /\ flushing.taken = {}
  /\ \E o \in Orgs : buckets[o].due
  /\ flushing' = [flushing EXCEPT !.left = {o \in Orgs : buckets[o].due}]
  /\ UNCHANGED <<inbox, handled, history, cooling, buckets, fates>>

\* Seeded fault: the items are read, and dropped when they have been posted.
TakeLate ==
  /\ flushing.taken = {}
  /\ \E o \in flushing.left :
       flushing' = [left |-> flushing.left \ {o}, taken |-> buckets[o].items]
  /\ UNCHANGED <<inbox, handled, history, cooling, buckets, fates>>

\* ... takes the items of one out and lets it fall due later,
TakeItems ==
  /\ flushing.taken = {}
  /\ \E o \in flushing.left :
       /\ flushing' = [left |-> flushing.left \ {o}, taken |-> buckets[o].items]
       /\ buckets' = [buckets EXCEPT ![o] = [items |-> {}, due |-> FALSE]]
  /\ UNCHANGED <<inbox, handled, history, cooling, fates>>

\* ... and posts them, while the consumer goes on; the result is ignored.
PostDigest ==
  /\ flushing.taken # {}
  /\ flushing' = [flushing EXCEPT !.taken = {}]
  /\ posted' = posted \cup flushing.taken
  /\ UNCHANGED <<inbox, handled, history, cooling, buckets, raised, lost>>

\* stop, or the end of the process; another takes over what is to come.
Held == (UNION {buckets[o].items : o \in Orgs}) \cup flushing.taken
StopAlerts ==
  /\ handled # Idle \/ Held # {}
  /\ lost' = lost \cup Held
  /\ handled' = Idle
  /\ history' = [o \in Orgs |-> <<>>]
  /\ buckets' = [o \in Orgs |-> [items |-> {}, due |-> FALSE]]
  /\ flushing' = [left |-> {}, taken |-> {}]
  /\ cooling' = [o \in Orgs |-> FALSE]
  /\ UNCHANGED <<inbox, raised, posted>>

AlertsStep ==
  \/ Receive \/ Skip \/ SecurityAlert \/ ScoreAlert \/ RateAlert
  \/ CooledDown \/ FallDue \/ StartPass \/ TakeItems \/ PostDigest \/ StopAlerts

-----------------------------------------------------------------------------
\* Every alert that is raised is in one place: posted, kept for a digest,
\* in the digest being posted, or gone with its process.  What is
\* added while a digest is posted is not swept away with it, and nothing is posted
\* in two digests.
AlertsAccounted ==
  LET places == <<posted, lost, flushing.taken>>
  IN  /\ raised = posted \cup lost \cup Held
      /\ \A i, j \in 1..3 : i # j => places[i] \cap places[j] = {}
      /\ \A o \in Orgs : buckets[o].items \cap (posted \cup lost \cup flushing.taken) = {}
      /\ \A o, q \in Orgs : o # q => buckets[o].items \cap buckets[q].items = {}
=============================================================================
