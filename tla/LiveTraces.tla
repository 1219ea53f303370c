------------------------------ MODULE LiveTraces ------------------------------
(***************************************************************************)
(* How one API process shows an organization its traces while they happen: *)
(* the registry of running traces, the streams of its dashboards, and the  *)
(* page of traces that merges the registry with ClickHouse.                *)
(*                                                                         *)
(* The process reads one Kafka topic that workers write.  What it does     *)
(* with a message has no suspension point and is one step; a page is built *)
(* in two, because the rows are awaited before the registry is read.       *)
(***************************************************************************)
EXTENDS Integers, Sequences, FiniteSets

CONSTANTS
  Traces,
  Scored,       \* those whose client asked for an evaluation
  Dashboards,   \* each holds a stream and loads pages
  QueueSize,    \* DEFAULT_QUEUE_MAXSIZE
  MaxFaults     \* bound: replayed starts, lost announcements, dead consumers, restarts

ASSUME ScoredAssumption == Scored \subseteq Traces
ASSUME BoundsAssumption == QueueSize \in Nat \ {0} /\ MaxFaults \in Nat

VARIABLES
  begun, ended,   \* traces whose start, whose end the client has sent
  rows,           \* traces in ClickHouse
  announced,      \* those a message was sent about
  enriched,       \* traces that were scored
  topic,          \* messages the process has yet to read
  alive,          \* whether its consumer loop runs
  registry,       \* what the registry holds of each trace
  stream,         \* each dashboard's connection
  queue,          \* its subscriber queue
  due,            \* what was published to it since it last took a message
  told,           \* traces whose end it was told of since
  dropped,        \* whether its queue has dropped a message since
  page,           \* the page it is loading or has
  faults

workerVars == <<begun, ended, rows, announced, enriched>>
streamVars == <<stream, queue, due, told, dropped>>
vars == <<begun, ended, rows, announced, enriched, topic, alive, registry,
          stream, queue, due, told, dropped, page, faults>>

Messages == [kind : {"started", "persisted", "enriched"}, trace : Traces]
Started(t)   == [kind |-> "started",   trace |-> t]
Persisted(t) == [kind |-> "persisted", trace |-> t]
Enriched(t)  == [kind |-> "enriched",  trace |-> t]

\* A page: the rows it found; while it is being built, the traces that were
\* registered when it was begun and have been heard of since; the running ones
\* it shows; whether it asked for all traces on an open stream.
NoPage == [pc |-> "none", rows |-> {}, before |-> {}, shown |-> {}, covered |-> FALSE]
Pages  == [pc : {"none", "merging", "done"}, rows : SUBSET Traces,
           before : SUBSET Traces, shown : SUBSET Traces, covered : BOOLEAN]

TypeOK ==
  /\ begun \in SUBSET Traces /\ ended \in SUBSET Traces
  /\ announced \subseteq rows /\ rows \subseteq ended
  /\ enriched \in SUBSET Traces
  /\ topic \in Seq(Messages)
  /\ alive \in BOOLEAN
  /\ registry \in [Traces -> {"none", "fresh", "stale"}]
  /\ stream \in [Dashboards -> BOOLEAN]
  /\ queue \in [Dashboards -> Seq(Messages)]
  /\ due \in [Dashboards -> Seq(Messages)]
  /\ told \in [Dashboards -> SUBSET Traces]
  /\ dropped \in [Dashboards -> BOOLEAN]
  /\ page \in [Dashboards -> Pages]
  /\ faults \in Nat
  \* A slow dashboard costs a bounded amount of memory, a closed one nothing.
  /\ \A d \in Dashboards : Len(queue[d]) <= IF stream[d] THEN QueueSize ELSE 0

Init ==
  /\ begun = {} /\ ended = {} /\ rows = {} /\ announced = {} /\ enriched = {}
  /\ topic = <<>>
  /\ alive = TRUE
  /\ registry = [t \in Traces |-> "none"]
  /\ stream = [d \in Dashboards |-> FALSE]
  /\ queue = [d \in Dashboards |-> <<>>]
  /\ due = [d \in Dashboards |-> <<>>]
  /\ told = [d \in Dashboards |-> {}]
  /\ dropped = [d \in Dashboards |-> FALSE]
  /\ page = [d \in Dashboards |-> NoPage]
  /\ faults = 0

Fault == faults < MaxFaults /\ faults' = faults + 1

Newest(s, n) == SubSeq(s, Len(s) - n + 1, Len(s))
Among(m, s)  == \E k \in DOMAIN s : s[k] = m

-----------------------------------------------------------------------------
(* The broker.                                                             *)

\* Seeded faults: a full queue grows; a full queue drops its newest message.
OfferedUnbounded(q, m) == Append(q, m)

OfferedOverNewest(q, m) ==
  IF Len(q) = QueueSize THEN Append(SubSeq(q, 1, Len(q) - 1), m) ELSE Append(q, m)

\* put_nowait; a full queue drops its oldest message first.
Offered(q, m) == IF Len(q) = QueueSize THEN Append(Tail(q), m) ELSE Append(q, m)

\* TraceBroker.publish, to every open stream of the process.
Publish(m) ==
  /\ queue' = [d \in Dashboards |->
                 IF stream[d] THEN Offered(queue[d], m) ELSE queue[d]]
  /\ due' = [d \in Dashboards |->
               IF stream[d] THEN Append(due[d], m) ELSE due[d]]
  /\ dropped' = [d \in Dashboards |->
                   dropped[d] \/ (stream[d] /\ Len(queue[d]) = QueueSize)]

-----------------------------------------------------------------------------
(* The client and the workers, outside this service.                       *)

\* A message of the workers; keyed by organization, they stay in order.
Send(m) == topic' = Append(topic, m)

Begin(t) ==
  /\ t \notin begun \cup ended
  /\ begun' = begun \cup {t}
  /\ Send(Started(t))
  /\ UNCHANGED <<ended, rows, announced, enriched, alive, registry, streamVars, page, faults>>

\* The start is handled again, or comes after the end.
BeginLate(t) ==
  /\ t \in ended
  /\ Fault
  /\ Send(Started(t))
  /\ UNCHANGED <<workerVars, alive, registry, streamVars, page>>

End(t) ==
  /\ t \notin ended
  /\ ended' = ended \cup {t}
  /\ UNCHANGED <<begun, rows, announced, enriched, topic, alive, registry, streamVars, page, faults>>

Land(t) ==
  /\ t \in ended \ rows
  /\ rows' = rows \cup {t}
  /\ UNCHANGED <<begun, ended, announced, enriched, topic, alive, registry, streamVars, page, faults>>

Announce(t) ==
  /\ t \in rows \ announced
  /\ announced' = announced \cup {t}
  /\ Send(Persisted(t))
  /\ UNCHANGED <<begun, ended, rows, enriched, alive, registry, streamVars, page, faults>>

\* The evaluation worker and the one that stores the trace are not in step.
Enrich(t) ==
  /\ t \in (ended \cap Scored) \ enriched
  /\ enriched' = enriched \cup {t}
  /\ Send(Enriched(t))
  /\ UNCHANGED <<begun, ended, rows, announced, alive, registry, streamVars, page, faults>>

-----------------------------------------------------------------------------
(* The process.                                                            *)

\* A trace evaluated by request, stored or not, is published to the process's
\* own streams.
EvaluateTrace(t) ==
  /\ t \in Scored \ enriched
  /\ enriched' = enriched \cup {t}
  /\ Publish(Enriched(t))
  /\ UNCHANGED <<begun, ended, rows, announced, topic, alive, registry, stream, told, page, faults>>

\* Seeded fault: the registry has one entry per organization.
RegisteredAlone(m) ==
  [t \in Traces |-> IF t = m.trace THEN IF m.kind = "started" THEN "fresh" ELSE "none"
                    ELSE IF m.kind = "started" THEN "none" ELSE registry[t]]

\* A start registers the trace, an end or an enrichment evicts it.
Registered(m) ==
  [registry EXCEPT ![m.trace] = IF m.kind = "started" THEN "fresh" ELSE "none"]

\* Seeded fault: the end of a registered trace is not passed on.
ConsumeQuietly ==
  /\ alive /\ topic # <<>>
  /\ topic' = Tail(topic)
  /\ registry' = Registered(Head(topic))
  /\ IF Head(topic).kind = "persisted" /\ registry[Head(topic).trace] # "none"
       THEN UNCHANGED <<queue, due, dropped>>
       ELSE Publish(Head(topic))
  /\ UNCHANGED <<workerVars, alive, stream, told, page, faults>>

\* TraceConsumer._run, for one message.
Consume ==
  /\ alive /\ topic # <<>>
  /\ topic' = Tail(topic)
  /\ registry' = Registered(Head(topic))
  /\ Publish(Head(topic))
  /\ UNCHANGED <<workerVars, alive, stream, told, page, faults>>

\* An exception of the client library ends the loop; nothing restarts it.
ConsumerDies ==
  /\ alive
  /\ Fault
  /\ alive' = FALSE
  /\ UNCHANGED <<workerVars, topic, registry, streamVars, page>>

\* RUNNING_TTL_SECONDS have passed since a trace was registered.
Age(t) ==
  /\ registry[t] = "fresh"
  /\ registry' = [registry EXCEPT ![t] = "stale"]
  /\ page' = [d \in Dashboards |-> [page[d] EXCEPT !.before = @ \ {t}]]
  /\ UNCHANGED <<workerVars, topic, alive, streamVars, faults>>

\* Registry and streams are gone; the consumer starts at the topic's end.
Restart ==
  /\ Fault
  /\ topic' = <<>> /\ alive' = TRUE
  /\ registry' = [t \in Traces |-> "none"]
  /\ stream' = [d \in Dashboards |-> FALSE]
  /\ queue' = [d \in Dashboards |-> <<>>] /\ due' = queue'
  /\ told' = [d \in Dashboards |-> {}] /\ dropped' = stream'
  /\ page' = [d \in Dashboards |-> IF page[d].pc = "merging" THEN NoPage
                                    ELSE [page[d] EXCEPT !.covered = FALSE]]
  /\ UNCHANGED workerVars

-----------------------------------------------------------------------------
(* The dashboards.                                                         *)

\* GET /traces/stream: subscribe, take from the queue, unsubscribe.
Connect(d) ==
  /\ ~stream[d]
  /\ stream' = [stream EXCEPT ![d] = TRUE]
  /\ UNCHANGED <<workerVars, topic, alive, registry, queue, due, told, dropped, page, faults>>

Take(d) ==
  /\ stream[d] /\ queue[d] # <<>>
  /\ queue' = [queue EXCEPT ![d] = Tail(@)]
  /\ due' = [due EXCEPT ![d] = Newest(@, Len(queue[d]) - 1)]
  /\ told' = [told EXCEPT ![d] = IF Head(queue[d]).kind = "persisted"
                                   THEN @ \cup {Head(queue[d]).trace} ELSE @]
  /\ UNCHANGED <<workerVars, topic, alive, registry, stream, dropped, page, faults>>

Disconnect(d) ==
  /\ stream[d]
  /\ stream' = [stream EXCEPT ![d] = FALSE]
  /\ queue' = [queue EXCEPT ![d] = <<>>] /\ due' = [due EXCEPT ![d] = <<>>]
  /\ told' = [told EXCEPT ![d] = {}] /\ dropped' = [dropped EXCEPT ![d] = FALSE]
  /\ page' = [page EXCEPT ![d].covered = FALSE]
  /\ UNCHANGED <<workerVars, topic, alive, registry, faults>>

\* GET /traces, with a limit that all rows meet: the rows (all of them, or, when
\* it asks for the running ones, none), then, some awaits later, the registry.
LoadRows(d, all) ==
  /\ page[d].pc # "merging"
  /\ page' = [page EXCEPT ![d] =
       [pc |-> "merging", rows |-> IF all THEN rows ELSE {}, shown |-> {},
        before |-> {t \in Traces : registry[t] = "fresh"}, covered |-> all /\ stream[d]]]
  /\ UNCHANGED <<workerVars, topic, alive, registry, streamVars, faults>>

\* What list_for leaves in the registry.
Swept == [t \in Traces |-> IF registry[t] = "stale" THEN "none" ELSE registry[t]]

MergeRunning(d) ==
  /\ page[d].pc = "merging"
  /\ page' = [page EXCEPT ![d].pc = "done", ![d].before = {},
                          ![d].shown = {t \in Traces : registry[t] = "fresh"} \ page[d].rows]
  /\ registry' = Swept
  /\ UNCHANGED <<workerVars, topic, alive, streamVars, faults>>

LoadPage(d) == (\E all \in BOOLEAN : LoadRows(d, all)) \/ MergeRunning(d)

-----------------------------------------------------------------------------
Next ==
  \/ \E t \in Traces :
       \/ Begin(t) \/ BeginLate(t) \/ End(t) \/ Land(t) \/ Announce(t) \/ Enrich(t)
       \/ EvaluateTrace(t) \/ Age(t)
  \/ Consume \/ ConsumerDies \/ Restart
  \/ \E d \in Dashboards : Connect(d) \/ Take(d) \/ Disconnect(d) \/ LoadPage(d)

Spec == Init /\ [][Next]_vars

-----------------------------------------------------------------------------
(* What is promised about it.                                              *)

\* A trace that was listed as running when a page was begun is on that page,
\* as a row or as running, unless it has ended or was silent for the whole
\* time an entry lives: the page is built from two sources read at two times.
PageMissesOnlyEndedRuns ==
  [][\A d \in Dashboards :
       page[d].pc = "merging" /\ page'[d].pc = "done" =>
         page[d].before \subseteq page[d].rows \cup page'[d].shown \cup ended]_vars

\* A dashboard that opened its stream before it loads its page misses no
\* trace: what the process has heard of is a row of the page, or came or comes
\* over the stream, unless its queue overflowed.
NoGap ==
  \A d \in Dashboards :
    page[d].pc = "done" /\ page[d].covered /\ ~dropped[d] =>
        \A t \in announced :
          \/ t \in page[d].rows \cup told[d]
          \/ Among(Persisted(t), queue[d]) \/ Among(Persisted(t), topic)

\* What waits for a dashboard is the newest of what was published to it, in
\* that order, and all of it up to the size of its queue.
StreamInOrder ==
  \A d \in Dashboards :
    /\ queue[d] = Newest(due[d], Len(queue[d]))
    /\ Len(queue[d]) = IF Len(due[d]) < QueueSize THEN Len(due[d]) ELSE QueueSize
=============================================================================
