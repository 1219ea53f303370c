--------------------------- MODULE LiveTracesProofs ---------------------------
(***************************************************************************)
(* Proofs about LiveTraces, for any sets of traces and dashboards, any     *)
(* queue size and any number of faults.                                    *)
(***************************************************************************)
EXTENDS LiveTraces, SequenceTheorems, TLAPS

\* Only a start may be about a trace that goes on.
TopicInv == \A k \in DOMAIN topic : topic[k].kind # "started" => topic[k].trace \in ended

\* What was listed when a page was begun is listed still, or has ended.
PageInv ==
  \A d \in Dashboards : page[d].pc = "merging" =>
    page[d].before \subseteq {t \in Traces : registry[t] = "fresh"} \cup ended

\* How a dashboard learns of a trace.
Heard(t, d) ==
  \/ t \in page[d].rows \cup told[d]
  \/ Among(Persisted(t), queue[d]) \/ Among(Persisted(t), topic)

\* NoGap from the moment the rows are read, and that the stream is open.
GapInv ==
  \A d \in Dashboards : page[d].covered =>
    stream[d] /\ (~dropped[d] => \A t \in announced : Heard(t, d))

IInv == TypeOK /\ TopicInv /\ PageInv /\ GapInv /\ StreamInOrder

-----------------------------------------------------------------------------
\* The newest n elements of a sequence.
LEMMA NewestProperties ==
  ASSUME NEW S, NEW s \in Seq(S), NEW n \in 0 .. Len(s)
  PROVE  /\ Newest(s, n) \in Seq(S)
         /\ Len(Newest(s, n)) = n
         /\ \A k \in 1 .. n : Newest(s, n)[k] = s[Len(s) - n + k]
<1>1. Len(s) \in Nat
  BY LenProperties
<1> DEFINE a == Len(s) - n + 1
           b == Len(s)
<1>2. a \in Int /\ b \in Int /\ b - a + 1 = n /\ a >= 1
  BY <1>1
<1>3. \A i \in a .. b : s[i] \in S
  BY <1>1, <1>2, ElementOfSeq
<1> HIDE DEF a, b
<1>4. /\ SubSeq(s, a, b) \in Seq(S)
      /\ Len(SubSeq(s, a, b)) = IF a <= b THEN b - a + 1 ELSE 0
      /\ \A i \in 1 .. b - a + 1 : SubSeq(s, a, b)[i] = s[a + i - 1]
  BY <1>2, <1>3, SubSeqProperties
<1>5. Newest(s, n) = SubSeq(s, a, b)
  BY DEF Newest, a, b
<1>6. Len(Newest(s, n)) = n
  BY <1>1, <1>2, <1>4, <1>5
<1>7. \A k \in 1 .. n : Newest(s, n)[k] = s[Len(s) - n + k]
  <2> TAKE k \in 1 .. n
  <2>1. SubSeq(s, a, b)[k] = s[a + k - 1]
    BY <1>2, <1>4
  <2>2. a + k - 1 = Len(s) - n + k
    BY <1>1 DEF a
  <2> QED
    BY <2>1, <2>2, <1>5
<1> QED
  BY <1>4, <1>5, <1>6, <1>7

\* All of a sequence is its newest.
LEMMA NewestAll ==
  ASSUME NEW S, NEW s \in Seq(S)
  PROVE  Newest(s, Len(s)) = s
<1>1. Len(s) \in Nat
  BY LenProperties
<1>2. Newest(s, Len(s)) = SubSeq(s, 1, Len(s))
  BY <1>1 DEF Newest
<1> QED
  BY <1>2, SubSeqFull

\* What an element is among before it is among after an Append.
LEMMA AmongAppend ==
  ASSUME NEW S, NEW s \in Seq(S), NEW m \in S
  PROVE  /\ Among(m, Append(s, m))
         /\ \A x : Among(x, s) => Among(x, Append(s, m))
<1>1. Len(s) \in Nat /\ DOMAIN s = 1 .. Len(s)
  BY LenProperties
<1>2. Append(s, m) \in Seq(S) /\ Len(Append(s, m)) = Len(s) + 1
      /\ Append(s, m)[Len(s) + 1] = m
      /\ \A i \in 1 .. Len(s) : Append(s, m)[i] = s[i]
  BY AppendProperties
<1>3. DOMAIN Append(s, m) = 1 .. Len(s) + 1
  BY <1>2, LenProperties
<1> QED
  BY <1>1, <1>2, <1>3 DEF Among

\* Whatever is among a sequence is its head or among its tail.
LEMMA AmongTail ==
  ASSUME NEW S, NEW s \in Seq(S), s # <<>>, NEW x, Among(x, s), x # Head(s)
  PROVE  Among(x, Tail(s))
<1>1. Len(s) \in Nat /\ DOMAIN s = 1 .. Len(s)
  BY LenProperties
<1>2. PICK k \in 1 .. Len(s) : s[k] = x
  BY <1>1 DEF Among
<1>3. Head(s) = s[1]
  OBVIOUS
<1>4. k # 1
  BY <1>2, <1>3
<1>5. Tail(s) \in Seq(S) /\ Len(Tail(s)) = Len(s) - 1
      /\ \A i \in 1 .. Len(Tail(s)) : Tail(s)[i] = s[i + 1]
  BY HeadTailProperties
<1>6. DOMAIN Tail(s) = 1 .. Len(s) - 1
  BY <1>5, LenProperties
<1>7. k - 1 \in 1 .. Len(s) - 1 /\ (k - 1) + 1 = k
  BY <1>1, <1>4
<1>8. Tail(s)[k - 1] = x
  BY <1>2, <1>5, <1>7
<1> QED
  BY <1>6, <1>7, <1>8 DEF Among

-----------------------------------------------------------------------------
\* The length a queue has after so many messages were published to it.
Bounded(n) == IF n < QueueSize THEN n ELSE QueueSize

\* A queue that holds the newest messages holds the newest after one more, and
\* loses none unless it was full.
LEMMA OfferedProperties ==
  ASSUME NEW q \in Seq(Messages), NEW u \in Seq(Messages), NEW m \in Messages,
         q = Newest(u, Len(q)), Len(q) = Bounded(Len(u))
  PROVE  /\ Offered(q, m) \in Seq(Messages)
         /\ Len(Offered(q, m)) = Bounded(Len(u) + 1)
         /\ Offered(q, m) = Newest(Append(u, m), Len(Offered(q, m)))
         /\ Len(q) # QueueSize => Offered(q, m) = Append(q, m)
<1> DEFINE v == Append(u, m)
<1>a. QueueSize \in Nat \ {0} /\ Len(q) \in Nat /\ Len(u) \in Nat
  BY BoundsAssumption, LenProperties
<1>b. Len(q) \in 0 .. Len(u)
  BY <1>a DEF Bounded
<1>c. \A k \in 1 .. Len(q) : q[k] = u[Len(u) - Len(q) + k]
  BY <1>b, NewestProperties
<1>d. v \in Seq(Messages) /\ Len(v) = Len(u) + 1 /\ v[Len(u) + 1] = m
      /\ \A i \in 1 .. Len(u) : v[i] = u[i]
  BY AppendProperties
<1> HIDE DEF v
<1>1. CASE Len(q) # QueueSize
  <2>1. Offered(q, m) = Append(q, m)
    BY <1>1 DEF Offered
  <2>2. Append(q, m) \in Seq(Messages) /\ Len(Append(q, m)) = Len(q) + 1
        /\ Append(q, m)[Len(q) + 1] = m
        /\ \A i \in 1 .. Len(q) : Append(q, m)[i] = q[i]
    BY AppendProperties
  <2>3. Len(u) = Len(q) /\ Len(q) + 1 = Bounded(Len(u) + 1)
    BY <1>1, <1>a DEF Bounded
  <2>4. q = u
    <3>1. \A i \in 1 .. Len(q) : q[i] = u[i]
      BY <2>3, <1>a, <1>c
    <3> QED
      BY <2>3, <3>1, SeqEqual
  <2>5. Newest(v, Len(v)) = v
    BY <1>d, NewestAll
  <2> QED
    BY <2>1, <2>2, <2>3, <2>4, <2>5, <1>d DEF v
<1>2. CASE Len(q) = QueueSize
  <2>1. Offered(q, m) = Append(Tail(q), m) /\ q # <<>>
    BY <1>2, <1>a, EmptySeq DEF Offered
  <2>2. Tail(q) \in Seq(Messages) /\ Len(Tail(q)) = Len(q) - 1
        /\ \A i \in 1 .. Len(Tail(q)) : Tail(q)[i] = q[i + 1]
    BY <2>1, HeadTailProperties
  <2> DEFINE p == Append(Tail(q), m)
  <2>3. p \in Seq(Messages) /\ Len(p) = Len(Tail(q)) + 1 /\ p[Len(Tail(q)) + 1] = m
        /\ \A i \in 1 .. Len(Tail(q)) : p[i] = Tail(q)[i]
    BY <2>2, AppendProperties
  <2> HIDE DEF p
  <2>4. Len(p) = QueueSize /\ QueueSize <= Len(u) /\ Bounded(Len(u) + 1) = QueueSize
    BY <1>2, <1>a, <2>2, <2>3 DEF Bounded
  <2>5. /\ Newest(v, QueueSize) \in Seq(Messages)
        /\ Len(Newest(v, QueueSize)) = QueueSize
        /\ \A k \in 1 .. QueueSize : Newest(v, QueueSize)[k] = v[Len(v) - QueueSize + k]
    <3>1. QueueSize \in 0 .. Len(v)
      BY <1>a, <1>d, <2>4
    <3> QED
      BY <3>1, <1>d, NewestProperties
  <2>6. \A k \in 1 .. Len(p) : p[k] = Newest(v, QueueSize)[k]
    <3> TAKE k \in 1 .. Len(p)
    <3>1. CASE k = QueueSize
      BY <3>1, <1>2, <1>a, <1>d, <2>2, <2>3, <2>4, <2>5
    <3>2. CASE k < QueueSize
      <4>1. p[k] = q[k + 1] /\ k + 1 \in 1 .. Len(q)
        BY <3>2, <1>2, <1>a, <2>2, <2>3
      <4>2. q[k + 1] = u[Len(u) - QueueSize + (k + 1)]
        BY <4>1, <1>2, <1>c
      <4>3. Len(u) - QueueSize + (k + 1) \in 1 .. Len(u)
            /\ Len(v) - QueueSize + k = Len(u) - QueueSize + (k + 1)
        BY <3>2, <1>a, <1>d, <2>4
      <4>4. v[Len(v) - QueueSize + k] = u[Len(u) - QueueSize + (k + 1)]
        BY <4>3, <1>d
      <4> QED
        BY <4>1, <4>2, <4>4, <2>4, <2>5
    <3> QED
      BY <3>1, <3>2, <1>a, <2>4
  <2>7. p = Newest(v, QueueSize)
    BY <2>3, <2>4, <2>5, <2>6, SeqEqual
  <2> QED
    BY <1>2, <2>1, <2>3, <2>4, <2>7 DEF p, v
<1> QED
  BY <1>1, <1>2

-----------------------------------------------------------------------------
\* What TypeOK says of the streams.
StreamTypes ==
  /\ stream \in [Dashboards -> BOOLEAN]
  /\ queue \in [Dashboards -> Seq(Messages)] /\ due \in [Dashboards -> Seq(Messages)]
  /\ told \in [Dashboards -> SUBSET Traces] /\ dropped \in [Dashboards -> BOOLEAN]
  /\ \A d \in Dashboards : Len(queue[d]) <= IF stream[d] THEN QueueSize ELSE 0

\* What TypeOK says of the rest.
OtherTypes ==
  /\ begun \in SUBSET Traces /\ ended \in SUBSET Traces
  /\ announced \subseteq rows /\ rows \subseteq ended
  /\ enriched \in SUBSET Traces
  /\ topic \in Seq(Messages)
  /\ alive \in BOOLEAN
  /\ registry \in [Traces -> {"none", "fresh", "stale"}]
  /\ page \in [Dashboards -> Pages]
  /\ faults \in Nat

LEMMA TypeSplit == TypeOK <=> StreamTypes /\ OtherTypes
  BY DEF TypeOK, StreamTypes, OtherTypes

LEMMA MessageTypes ==
  ASSUME NEW t \in Traces
  PROVE  /\ Started(t) \in Messages /\ Persisted(t) \in Messages /\ Enriched(t) \in Messages
         /\ Started(t).kind = "started"
         /\ Persisted(t).kind = "persisted" /\ Persisted(t).trace = t
         /\ Enriched(t).kind = "enriched" /\ Enriched(t).trace = t
  BY DEF Messages, Started, Persisted, Enriched

\* A publication keeps every queue bounded, in order, and complete unless it
\* overflows.
LEMMA PublishStep ==
  ASSUME StreamTypes, StreamInOrder, NEW m \in Messages, Publish(m), UNCHANGED <<stream, told>>
  PROVE  /\ StreamTypes'
         /\ StreamInOrder'
         /\ \A d \in Dashboards : stream[d] /\ ~dropped'[d] =>
              /\ ~dropped[d]
              /\ Among(m, queue'[d])
              /\ \A x : Among(x, queue[d]) => Among(x, queue'[d])
<1>1. ASSUME NEW d \in Dashboards
      PROVE  /\ queue'[d] \in Seq(Messages) /\ due'[d] \in Seq(Messages)
             /\ Len(queue'[d]) <= IF stream[d] THEN QueueSize ELSE 0
             /\ queue'[d] = Newest(due'[d], Len(queue'[d]))
             /\ Len(queue'[d]) = IF Len(due'[d]) < QueueSize THEN Len(due'[d]) ELSE QueueSize
             /\ stream[d] /\ ~dropped'[d] =>
                  /\ ~dropped[d]
                  /\ Among(m, queue'[d])
                  /\ \A x : Among(x, queue[d]) => Among(x, queue'[d])
  <2>1. queue[d] \in Seq(Messages) /\ due[d] \in Seq(Messages)
        /\ queue[d] = Newest(due[d], Len(queue[d])) /\ Len(queue[d]) = Bounded(Len(due[d]))
        /\ Len(queue[d]) <= IF stream[d] THEN QueueSize ELSE 0
    BY DEF StreamTypes, StreamInOrder, Bounded
  <2>2. CASE ~stream[d]
    <3>1. queue'[d] = queue[d] /\ due'[d] = due[d]
      BY <2>2 DEF Publish
    <3> QED
      BY <2>1, <2>2, <3>1 DEF Bounded
  <2>3. CASE stream[d]
    <3>1. queue'[d] = Offered(queue[d], m) /\ due'[d] = Append(due[d], m)
          /\ (dropped'[d] <=> dropped[d] \/ Len(queue[d]) = QueueSize)
      BY <2>3 DEF Publish
    <3>2. /\ Offered(queue[d], m) \in Seq(Messages)
          /\ Len(Offered(queue[d], m)) = Bounded(Len(due[d]) + 1)
          /\ Offered(queue[d], m) = Newest(Append(due[d], m), Len(Offered(queue[d], m)))
          /\ Len(queue[d]) # QueueSize => Offered(queue[d], m) = Append(queue[d], m)
      BY <2>1, OfferedProperties
    <3>3. Append(due[d], m) \in Seq(Messages) /\ Len(Append(due[d], m)) = Len(due[d]) + 1
      BY <2>1, AppendProperties
    <3>4. Len(due[d]) \in Nat /\ QueueSize \in Nat
      BY <2>1, LenProperties, BoundsAssumption
    <3>5. Len(queue'[d]) <= QueueSize
      BY <3>1, <3>2, <3>4 DEF Bounded
    <3>6. Among(m, Append(queue[d], m)) /\ \A x : Among(x, queue[d]) => Among(x, Append(queue[d], m))
      BY <2>1, AmongAppend
    <3>7. Len(queue'[d]) = IF Len(due'[d]) < QueueSize THEN Len(due'[d]) ELSE QueueSize
      BY <3>1, <3>2, <3>3 DEF Bounded
    <3> QED
      BY <2>3, <3>1, <3>2, <3>3, <3>5, <3>6, <3>7
  <2> QED
    BY <2>2, <2>3
<1>2. dropped' \in [Dashboards -> BOOLEAN]
  BY DEF Publish, StreamTypes
<1>3. queue' \in [Dashboards -> Seq(Messages)] /\ due' \in [Dashboards -> Seq(Messages)]
  BY <1>1 DEF Publish
<1> QED
  BY <1>1, <1>2, <1>3 DEF StreamTypes, StreamInOrder

\* Sending appends a message that is about a trace.
LEMMA SendStep ==
  ASSUME topic \in Seq(Messages), TopicInv, NEW m \in Messages, Send(m), ended' = ended,
         m.kind # "started" => m.trace \in ended
  PROVE  /\ topic' \in Seq(Messages)
         /\ TopicInv'
         /\ Among(m, topic')
         /\ \A x : Among(x, topic) => Among(x, topic')
<1>1. topic' = Append(topic, m)
  BY DEF Send
<1>2. Len(topic) \in Nat /\ DOMAIN topic = 1 .. Len(topic)
  BY LenProperties
<1>3. topic' \in Seq(Messages) /\ Len(topic') = Len(topic) + 1 /\ topic'[Len(topic) + 1] = m
      /\ \A i \in 1 .. Len(topic) : topic'[i] = topic[i]
  BY <1>1, AppendProperties
<1>4. DOMAIN topic' = 1 .. Len(topic) + 1
  BY <1>3, LenProperties
<1>5. TopicInv'
  BY <1>2, <1>3, <1>4 DEF TopicInv
<1> QED
  BY <1>1, <1>3, <1>5, AmongAppend

-----------------------------------------------------------------------------
(* Steps that leave something alone.                                       *)

LEMMA StreamsAlone ==
  ASSUME StreamTypes, StreamInOrder, UNCHANGED streamVars
  PROVE  StreamTypes' /\ StreamInOrder'
  BY DEF StreamTypes, StreamInOrder, streamVars

\* Pages and registry stay, more traces end.
LEMMA PagesAlone ==
  ASSUME PageInv, UNCHANGED <<page, registry>>, ended \subseteq ended'
  PROVE  PageInv'
  BY DEF PageInv

\* Nothing that was heard of is forgotten.
LEMMA GapKept ==
  ASSUME GapInv, UNCHANGED <<streamVars, page>>,
         \A x : Among(x, topic) => Among(x, topic'),
         \A t \in announced' \ announced : Among(Persisted(t), topic')
  PROVE  GapInv'
<1> SUFFICES ASSUME NEW d \in Dashboards, page[d].covered
             PROVE  stream[d] /\ (~dropped[d] => \A t \in announced' : Heard(t, d)')
  BY DEF GapInv, streamVars
<1>1. stream[d] /\ (~dropped[d] => \A t \in announced : Heard(t, d))
  BY DEF GapInv
<1>2. ASSUME NEW t, Heard(t, d) PROVE Heard(t, d)'
  BY <1>2 DEF Heard, streamVars
<1>3. ASSUME NEW t \in announced' \ announced PROVE Heard(t, d)'
  BY <1>3 DEF Heard
<1> QED
  BY <1>1, <1>2, <1>3

-----------------------------------------------------------------------------
(* The client and the workers.                                             *)

LEMMA ClientStep ==
  ASSUME IInv, NEW t \in Traces, Begin(t) \/ BeginLate(t) \/ End(t)
  PROVE  IInv'
<1> USE DEF workerVars
<1>t. StreamTypes /\ OtherTypes /\ TopicInv /\ PageInv /\ GapInv /\ StreamInOrder
  BY TypeSplit DEF IInv
<1>1. UNCHANGED streamVars /\ UNCHANGED <<page, registry, announced, rows, enriched, alive>>
      /\ ended \subseteq ended'
  BY DEF Begin, BeginLate, End
<1>2. topic' \in Seq(Messages) /\ TopicInv' /\ \A x : Among(x, topic) => Among(x, topic')
  <2>1. CASE Begin(t) \/ BeginLate(t)
    <3>1. Send(Started(t)) /\ ended' = ended
      BY <2>1 DEF Begin, BeginLate
    <3> QED
      BY <3>1, <1>t, MessageTypes, SendStep DEF OtherTypes
  <2>2. CASE End(t)
    <3>1. topic' = topic
      BY <2>2 DEF End
    <3> QED
      BY <3>1, <1>1, <1>t DEF OtherTypes, TopicInv
  <2> QED
    BY <2>1, <2>2
<1>3. begun' \in SUBSET Traces /\ ended' \in SUBSET Traces /\ faults' \in Nat
  BY <1>t DEF Begin, BeginLate, End, Fault, OtherTypes
<1>4. OtherTypes'
  BY <1>t, <1>1, <1>2, <1>3 DEF OtherTypes
<1>5. StreamTypes' /\ StreamInOrder'
  BY <1>t, <1>1, StreamsAlone
<1>6. PageInv'
  BY <1>t, <1>1, PagesAlone
<1>7. GapInv'
  BY <1>t, <1>1, <1>2, GapKept
<1>8. TypeOK'
  BY <1>4, <1>5 DEF TypeOK, StreamTypes, OtherTypes
<1> QED
  BY <1>2, <1>5, <1>6, <1>7, <1>8 DEF IInv

LEMMA WorkerStep ==
  ASSUME IInv, NEW t \in Traces, Land(t) \/ Announce(t) \/ Enrich(t)
  PROVE  IInv'
<1>t. StreamTypes /\ OtherTypes /\ TopicInv /\ PageInv /\ GapInv /\ StreamInOrder
  BY TypeSplit DEF IInv
<1>1. UNCHANGED streamVars /\ UNCHANGED <<page, registry, begun, ended, alive, faults>>
  BY DEF Land, Announce, Enrich
<1>2. topic' \in Seq(Messages) /\ TopicInv' /\ (\A x : Among(x, topic) => Among(x, topic'))
      /\ \A u \in announced' \ announced : Among(Persisted(u), topic')
  <2>1. CASE Announce(t)
    <3>1. Send(Persisted(t)) /\ t \in ended /\ announced' \ announced \subseteq {t}
      BY <2>1, <1>t DEF Announce, OtherTypes
    <3> QED
      BY <3>1, <1>1, <1>t, MessageTypes, SendStep DEF OtherTypes
  <2>2. CASE Enrich(t)
    <3>1. Send(Enriched(t)) /\ t \in ended /\ announced' = announced
      BY <2>2 DEF Enrich
    <3> QED
      BY <3>1, <1>1, <1>t, MessageTypes, SendStep DEF OtherTypes
  <2>3. CASE Land(t)
    <3>1. topic' = topic /\ announced' = announced
      BY <2>3 DEF Land
    <3> QED
      BY <3>1, <1>1, <1>t DEF OtherTypes, TopicInv
  <2> QED
    BY <2>1, <2>2, <2>3
<1>3. announced' \subseteq rows' /\ rows' \subseteq ended /\ enriched' \in SUBSET Traces
  BY <1>t DEF Land, Announce, Enrich, OtherTypes
<1>4. OtherTypes'
  BY <1>t, <1>1, <1>2, <1>3 DEF OtherTypes
<1>5. StreamTypes' /\ StreamInOrder'
  BY <1>t, <1>1, StreamsAlone
<1>6. PageInv'
  BY <1>t, <1>1, PagesAlone
<1>7. GapInv'
  BY <1>t, <1>1, <1>2, GapKept
<1>8. TypeOK'
  BY <1>4, <1>5 DEF TypeOK, StreamTypes, OtherTypes
<1> QED
  BY <1>2, <1>5, <1>6, <1>7, <1>8 DEF IInv

-----------------------------------------------------------------------------
(* The process.                                                            *)

\* A publication takes nothing that a dashboard would have heard.
LEMMA PublishKeepsGap ==
  ASSUME GapInv, UNCHANGED <<stream, told, page, announced>>,
         \A d \in Dashboards : stream[d] /\ ~dropped'[d] =>
           /\ ~dropped[d]
           /\ \A x : Among(x, topic) \/ Among(x, queue[d]) =>
                       Among(x, topic') \/ Among(x, queue'[d])
  PROVE  GapInv'
<1> SUFFICES ASSUME NEW d \in Dashboards, page[d].covered
             PROVE  stream[d] /\ (~dropped'[d] => \A t \in announced : Heard(t, d)')
  BY DEF GapInv
<1>1. stream[d] /\ (~dropped[d] => \A t \in announced : Heard(t, d))
  BY DEF GapInv
<1>2. ASSUME ~dropped'[d], NEW t \in announced PROVE Heard(t, d)'
  <2>1. Heard(t, d)
    BY <1>1, <1>2
  <2>2. Among(Persisted(t), topic) \/ Among(Persisted(t), queue[d]) =>
          Among(Persisted(t), topic') \/ Among(Persisted(t), queue'[d])
    BY <1>1, <1>2
  <2> QED
    BY <2>1, <2>2 DEF Heard
<1> QED
  BY <1>1, <1>2

LEMMA EvaluateStep ==
  ASSUME IInv, NEW t \in Traces, EvaluateTrace(t)
  PROVE  IInv'
<1>t. StreamTypes /\ OtherTypes /\ TopicInv /\ PageInv /\ GapInv /\ StreamInOrder
  BY TypeSplit DEF IInv
<1>1. Publish(Enriched(t)) /\ enriched' = enriched \cup {t}
      /\ UNCHANGED <<begun, ended, rows, announced, topic, alive, registry, stream, told, page, faults>>
  BY DEF EvaluateTrace
<1>2. /\ StreamTypes' /\ StreamInOrder'
      /\ \A d \in Dashboards : stream[d] /\ ~dropped'[d] =>
           ~dropped[d] /\ \A x : Among(x, queue[d]) => Among(x, queue'[d])
  BY <1>1, <1>t, MessageTypes, PublishStep
<1>3. OtherTypes'
  BY <1>t, <1>1 DEF OtherTypes
<1>4. TopicInv' /\ PageInv'
  BY <1>t, <1>1, PagesAlone DEF TopicInv
<1>5. GapInv'
  BY <1>t, <1>1, <1>2, PublishKeepsGap
<1>6. TypeOK'
  BY <1>2, <1>3 DEF TypeOK, StreamTypes, OtherTypes
<1> QED
  BY <1>2, <1>4, <1>5, <1>6 DEF IInv

LEMMA ConsumeStep ==
  ASSUME IInv, Consume
  PROVE  IInv'
<1> DEFINE m == Head(topic)
<1>t. StreamTypes /\ OtherTypes /\ TopicInv /\ PageInv /\ GapInv /\ StreamInOrder
  BY TypeSplit DEF IInv
<1>1. topic # <<>> /\ topic' = Tail(topic) /\ registry' = Registered(m) /\ Publish(m)
      /\ UNCHANGED <<begun, ended, rows, announced, enriched, alive, stream, told, page, faults>>
  BY DEF Consume, workerVars
<1>2. topic \in Seq(Messages) /\ Len(topic) \in Nat \ {0} /\ DOMAIN topic = 1 .. Len(topic)
  BY <1>t, <1>1, EmptySeq, LenProperties DEF OtherTypes
<1>3. m \in Messages /\ m = topic[1] /\ Tail(topic) \in Seq(Messages)
      /\ Len(Tail(topic)) = Len(topic) - 1
      /\ \A k \in 1 .. Len(Tail(topic)) : Tail(topic)[k] = topic[k + 1]
  BY <1>1, <1>2, HeadTailProperties
<1> HIDE DEF m
<1>4. m.kind # "started" => m.trace \in ended
  BY <1>2, <1>3, <1>t DEF TopicInv
<1>5. TopicInv'
  <2>1. DOMAIN Tail(topic) = 1 .. Len(topic) - 1
    BY <1>3, LenProperties
  <2>2. \A k \in DOMAIN Tail(topic) : k + 1 \in DOMAIN topic /\ Tail(topic)[k] = topic[k + 1]
    BY <2>1, <1>2, <1>3
  <2> QED
    BY <2>2, <1>1, <1>t DEF TopicInv
<1>6. /\ StreamTypes' /\ StreamInOrder'
      /\ \A d \in Dashboards : stream[d] /\ ~dropped'[d] =>
           /\ ~dropped[d]
           /\ Among(m, queue'[d])
           /\ \A x : Among(x, queue[d]) => Among(x, queue'[d])
  BY <1>1, <1>3, <1>t, PublishStep
<1>7. \A x : Among(x, topic) => x = m \/ Among(x, topic')
  BY <1>1, <1>2, AmongTail DEF m
<1>8. m.trace \in Traces /\ registry' \in [Traces -> {"none", "fresh", "stale"}]
  BY <1>1, <1>3, <1>t DEF Registered, OtherTypes, Messages
<1>9. OtherTypes'
  BY <1>t, <1>1, <1>3, <1>8 DEF OtherTypes
<1>10. PageInv'
  <2>1. \A u \in Traces : registry[u] = "fresh" => registry'[u] = "fresh" \/ u \in ended
    BY <1>1, <1>4, <1>8, <1>t DEF Registered, OtherTypes
  <2> QED
    BY <2>1, <1>1, <1>t DEF PageInv
<1>11. GapInv'
  BY <1>t, <1>1, <1>6, <1>7, PublishKeepsGap
<1>12. TypeOK'
  BY <1>6, <1>9 DEF TypeOK, StreamTypes, OtherTypes
<1> QED
  BY <1>5, <1>6, <1>10, <1>11, <1>12 DEF IInv

LEMMA AgeStep ==
  ASSUME IInv, NEW t \in Traces, Age(t)
  PROVE  IInv'
<1>t. StreamTypes /\ OtherTypes /\ TopicInv /\ PageInv /\ GapInv /\ StreamInOrder
  BY TypeSplit DEF IInv
<1>1. registry' = [registry EXCEPT ![t] = "stale"]
      /\ page' = [d \in Dashboards |-> [page[d] EXCEPT !.before = @ \ {t}]]
      /\ UNCHANGED streamVars
      /\ UNCHANGED <<begun, ended, rows, announced, enriched, topic, alive, faults>>
  BY DEF Age, workerVars
<1>2. \A d \in Dashboards :
        /\ page'[d] \in Pages
        /\ page'[d].pc = page[d].pc /\ page'[d].covered = page[d].covered
        /\ page'[d].rows = page[d].rows /\ page'[d].before = page[d].before \ {t}
  BY <1>1, <1>t DEF OtherTypes, Pages
<1>3. OtherTypes'
  BY <1>t, <1>1, <1>2 DEF OtherTypes
<1>4. StreamTypes' /\ StreamInOrder'
  BY <1>t, <1>1, StreamsAlone
<1>5. PageInv' /\ TopicInv'
  BY <1>t, <1>1, <1>2 DEF PageInv, TopicInv, OtherTypes
<1>6. GapInv'
  BY <1>t, <1>1, <1>2 DEF GapInv, Heard, streamVars
<1>7. TypeOK'
  BY <1>3, <1>4 DEF TypeOK, StreamTypes, OtherTypes
<1> QED
  BY <1>4, <1>5, <1>6, <1>7 DEF IInv

\* With no stream open nothing is owed to anyone.
LEMMA RestartStep ==
  ASSUME IInv, Restart
  PROVE  IInv'
<1>t. OtherTypes
  BY TypeSplit DEF IInv
<1>1. <<>> \in Seq(Messages) /\ Len(<<>>) = 0
  BY EmptySeq
<1>2. \A d \in Dashboards : page'[d] \in Pages /\ page'[d].pc # "merging" /\ ~page'[d].covered
  BY ZenonT(60), <1>t DEF Restart, OtherTypes, Pages, NoPage
<1>3. OtherTypes'
  BY <1>t, <1>1, <1>2 DEF Restart, Fault, OtherTypes, workerVars
<1>4. StreamTypes'
  BY <1>1 DEF Restart, StreamTypes
<1>5. StreamInOrder'
  <2>1. Newest(<<>>, 0) = <<>>
    BY <1>1, NewestAll
  <2> QED
    BY <1>1, <2>1, BoundsAssumption DEF Restart, StreamInOrder
<1>6. PageInv' /\ GapInv'
  BY <1>2 DEF PageInv, GapInv
<1>7. TopicInv'
  <2>1. DOMAIN <<>> = {}
    BY <1>1, LenProperties
  <2> QED
    BY <2>1 DEF Restart, TopicInv
<1>8. TypeOK'
  BY <1>3, <1>4 DEF TypeOK, StreamTypes, OtherTypes
<1> QED
  BY <1>5, <1>6, <1>7, <1>8 DEF IInv

LEMMA ConsumerDiesStep ==
  ASSUME IInv, ConsumerDies
  PROVE  IInv'
<1>t. StreamTypes /\ OtherTypes /\ TopicInv /\ PageInv /\ GapInv /\ StreamInOrder
  BY TypeSplit DEF IInv
<1>1. UNCHANGED streamVars /\ alive' = FALSE /\ faults' = faults + 1
      /\ UNCHANGED <<begun, ended, rows, announced, enriched, topic, registry, page>>
  BY DEF ConsumerDies, Fault, workerVars
<1>2. StreamTypes' /\ StreamInOrder' /\ PageInv'
  BY <1>t, <1>1, StreamsAlone, PagesAlone
<1>3. GapInv' /\ TopicInv'
  BY <1>t, <1>1, GapKept DEF TopicInv
<1>4. OtherTypes'
  <2>1. faults' \in Nat
    BY <1>t, <1>1 DEF OtherTypes
  <2> QED
    BY <2>1, <1>t, <1>1 DEF OtherTypes
<1>5. TypeOK'
  BY <1>2, <1>4 DEF TypeOK, StreamTypes, OtherTypes
<1> QED
  BY <1>2, <1>3, <1>5 DEF IInv

-----------------------------------------------------------------------------
(* The dashboards.                                                         *)

LEMMA ConnectStep ==
  ASSUME IInv, NEW d \in Dashboards, Connect(d)
  PROVE  IInv'
<1>t. StreamTypes /\ OtherTypes /\ TopicInv /\ PageInv /\ GapInv /\ StreamInOrder
  BY TypeSplit DEF IInv
<1>1. ~stream[d] /\ stream' = [stream EXCEPT ![d] = TRUE]
      /\ UNCHANGED <<begun, ended, rows, announced, enriched, topic, alive, registry, queue, due,
                     told, dropped, page, faults>>
  BY DEF Connect, workerVars
<1>2. StreamTypes'
  <2>1. Len(queue[d]) <= 0 /\ QueueSize \in Nat
    BY <1>1, <1>t, BoundsAssumption DEF StreamTypes
  <2>2. Len(queue[d]) \in Nat
    BY <1>t, LenProperties DEF StreamTypes
  <2>3. Len(queue[d]) <= QueueSize
    BY <2>1, <2>2
  <2> QED
    BY <2>3, <1>1, <1>t DEF StreamTypes
<1>3. StreamInOrder'
  BY <1>1, <1>t DEF StreamInOrder
<1>4. GapInv'
  <2>1. ~page[d].covered
    BY <1>1, <1>t DEF GapInv
  <2>2. \A e \in Dashboards : e # d => stream'[e] = stream[e]
    BY <1>1
  <2> QED
    BY <2>1, <2>2, <1>1, <1>t DEF GapInv, Heard
<1>5. OtherTypes' /\ PageInv' /\ TopicInv'
  BY <1>1, <1>t DEF OtherTypes, PageInv, TopicInv
<1>6. TypeOK'
  BY <1>2, <1>5 DEF TypeOK, StreamTypes, OtherTypes
<1> QED
  BY <1>3, <1>4, <1>5, <1>6 DEF IInv

LEMMA DisconnectStep ==
  ASSUME IInv, NEW d \in Dashboards, Disconnect(d)
  PROVE  IInv'
<1>t. StreamTypes /\ OtherTypes /\ TopicInv /\ PageInv /\ GapInv /\ StreamInOrder
  BY TypeSplit DEF IInv
<1>0. <<>> \in Seq(Messages) /\ Len(<<>>) = 0 /\ Newest(<<>>, 0) = <<>> /\ 0 < QueueSize
  <2>1. <<>> \in Seq(Messages) /\ Len(<<>>) = 0
    BY EmptySeq
  <2>2. Newest(<<>>, 0) = <<>>
    BY <2>1, NewestAll
  <2> QED
    BY <2>1, <2>2, BoundsAssumption
<1>1. /\ stream' = [stream EXCEPT ![d] = FALSE]
      /\ queue' = [queue EXCEPT ![d] = <<>>] /\ due' = [due EXCEPT ![d] = <<>>]
      /\ told' = [told EXCEPT ![d] = {}] /\ dropped' = [dropped EXCEPT ![d] = FALSE]
      /\ page' = [page EXCEPT ![d].covered = FALSE]
      /\ UNCHANGED <<begun, ended, rows, announced, enriched, topic, alive, registry, faults>>
  BY DEF Disconnect, workerVars
<1>2. page' \in [Dashboards -> Pages] /\ ~page'[d].covered
      /\ page'[d].pc = page[d].pc /\ page'[d].before = page[d].before
  BY ZenonT(60), <1>1, <1>t DEF OtherTypes, Pages
<1>3. queue'[d] = <<>> /\ due'[d] = <<>>
  BY <1>1, <1>t DEF StreamTypes
<1>4. \A e \in Dashboards : e # d =>
        /\ stream'[e] = stream[e] /\ queue'[e] = queue[e] /\ due'[e] = due[e]
        /\ told'[e] = told[e] /\ dropped'[e] = dropped[e] /\ page'[e] = page[e]
  BY <1>1
<1>5. StreamTypes'
  BY <1>0, <1>1, <1>t DEF StreamTypes
<1>6. StreamInOrder'
  BY <1>0, <1>3, <1>4, <1>t DEF StreamInOrder
<1>7. GapInv'
  BY <1>1, <1>2, <1>4, <1>t DEF GapInv, Heard
<1>8. OtherTypes'
  BY <1>1, <1>2, <1>t DEF OtherTypes
<1>9. PageInv' /\ TopicInv'
  BY <1>1, <1>2, <1>4, <1>t DEF PageInv, TopicInv
<1>10. TypeOK'
  BY <1>5, <1>8 DEF TypeOK, StreamTypes, OtherTypes
<1> QED
  BY <1>6, <1>7, <1>9, <1>10 DEF IInv

LEMMA TakeStep ==
  ASSUME IInv, NEW d \in Dashboards, Take(d)
  PROVE  IInv'
<1> DEFINE m == Head(queue[d])
           q == Tail(queue[d])
<1>t. StreamTypes /\ OtherTypes /\ TopicInv /\ PageInv /\ GapInv /\ StreamInOrder
  BY TypeSplit DEF IInv
<1>1. /\ stream[d] /\ queue[d] # <<>> /\ queue' = [queue EXCEPT ![d] = q]
      /\ due' = [due EXCEPT ![d] = Newest(@, Len(queue[d]) - 1)]
      /\ told' = [told EXCEPT ![d] = IF m.kind = "persisted" THEN @ \cup {m.trace} ELSE @]
      /\ UNCHANGED <<begun, ended, rows, announced, enriched, topic, alive, registry, stream,
                     dropped, page, faults>>
  BY DEF Take, workerVars
<1>2. queue[d] \in Seq(Messages) /\ due[d] \in Seq(Messages)
      /\ Len(queue[d]) \in Nat \ {0} /\ Len(due[d]) \in Nat /\ QueueSize \in Nat \ {0}
      /\ Len(queue[d]) <= QueueSize
      /\ queue[d] = Newest(due[d], Len(queue[d])) /\ Len(queue[d]) = Bounded(Len(due[d]))
  BY <1>1, <1>t, EmptySeq, LenProperties, BoundsAssumption DEF StreamTypes, StreamInOrder, Bounded
<1>3. m \in Messages /\ q \in Seq(Messages) /\ Len(q) = Len(queue[d]) - 1
      /\ \A k \in 1 .. Len(q) : q[k] = queue[d][k + 1]
  BY <1>1, <1>2, HeadTailProperties
<1>4. Len(queue[d]) \in 0 .. Len(due[d]) /\ Len(q) \in 0 .. Len(due[d])
  BY <1>2, <1>3 DEF Bounded
<1>5. \A k \in 1 .. Len(queue[d]) :
        Newest(due[d], Len(queue[d]))[k] = due[d][Len(due[d]) - Len(queue[d]) + k]
  BY <1>2, <1>4, NewestProperties
<1>6. /\ Newest(due[d], Len(q)) \in Seq(Messages)
      /\ Len(Newest(due[d], Len(q))) = Len(q)
      /\ \A k \in 1 .. Len(q) : Newest(due[d], Len(q))[k] = due[d][Len(due[d]) - Len(q) + k]
  BY <1>2, <1>4, NewestProperties
<1>7. \A x : Among(x, queue[d]) => x = m \/ Among(x, q)
  BY <1>1, <1>2, AmongTail
<1> HIDE DEF m, q
<1>7a. Len(q) \in Nat /\ Len(queue[d]) = Len(q) + 1 /\ Len(due[d]) \in Nat
  BY <1>2, <1>3
<1>8. \A k \in 1 .. Len(q) : Newest(due[d], Len(q))[k] = q[k]
  <2> TAKE k \in 1 .. Len(q)
  <2>1. k \in Int /\ 1 <= k /\ k <= Len(q)
    BY <1>7a
  <2>a. k + 1 \in 1 .. Len(queue[d])
    BY <2>1, <1>7a
  <2>b. Len(due[d]) - Len(queue[d]) + (k + 1) = Len(due[d]) - Len(q) + k
    <3> DEFINE u == Len(due[d])
               l == Len(q)
    <3>1. u \in Int /\ l \in Int /\ Len(queue[d]) = l + 1
      BY <1>7a
    <3> HIDE DEF u, l
    <3>2. u - (l + 1) + (k + 1) = u - l + k
      BY <3>1, <2>1
    <3> QED
      BY <3>1, <3>2 DEF u, l
  <2>2. queue[d][k + 1] = due[d][Len(due[d]) - Len(q) + k]
    BY <2>a, <2>b, <1>2, <1>5
  <2> QED
    BY <2>2, <1>3, <1>6
<1>9. Newest(due[d], Len(q)) = q
  BY <1>3, <1>6, <1>8, SeqEqual
<1>10. queue'[d] = q /\ due'[d] = q
  BY <1>1, <1>3, <1>9, <1>t DEF StreamTypes
<1>11. told' \in [Dashboards -> SUBSET Traces] /\ \A e \in Dashboards : told[e] \subseteq told'[e]
  BY <1>1, <1>3, <1>t DEF StreamTypes, Messages
<1>12. StreamTypes'
  BY <1>1, <1>2, <1>3, <1>6, <1>11, <1>t DEF StreamTypes
<1>13. StreamInOrder'
  <2>1. Newest(q, Len(q)) = q /\ Len(q) < QueueSize
    BY <1>2, <1>3, NewestAll
  <2>2. \A e \in Dashboards : e # d => queue'[e] = queue[e] /\ due'[e] = due[e]
    BY <1>1
  <2> QED
    BY <2>1, <2>2, <1>10, <1>t DEF StreamInOrder
<1>14. GapInv'
  <2> SUFFICES ASSUME NEW e \in Dashboards, page[e].covered, ~dropped[e], NEW t \in announced
               PROVE  Heard(t, e)'
    BY <1>1, <1>t DEF GapInv
  <2>1. Heard(t, e)
    BY <1>t DEF GapInv
  <2>2. Among(Persisted(t), queue[e]) => Among(Persisted(t), queue'[e]) \/ t \in told'[e]
    <3>1. CASE e # d
      BY <3>1, <1>1
    <3>2. CASE e = d
      <4>1. Persisted(t) = m => t \in told'[d]
        BY <1>1, <1>t DEF Persisted, StreamTypes
      <4> QED
        BY <4>1, <3>2, <1>7, <1>10
    <3> QED
      BY <3>1, <3>2
  <2> QED
    BY <2>1, <2>2, <1>1, <1>11 DEF Heard
<1>15. OtherTypes' /\ PageInv' /\ TopicInv'
  BY <1>1, <1>t DEF OtherTypes, PageInv, TopicInv
<1>16. TypeOK'
  BY <1>12, <1>15 DEF TypeOK, StreamTypes, OtherTypes
<1> QED
  BY <1>13, <1>14, <1>15, <1>16 DEF IInv

LEMMA LoadStep ==
  ASSUME IInv, NEW d \in Dashboards, NEW all \in BOOLEAN, LoadRows(d, all)
  PROVE  IInv'
<1>t. StreamTypes /\ OtherTypes /\ TopicInv /\ PageInv /\ GapInv /\ StreamInOrder
  BY TypeSplit DEF IInv
<1> DEFINE new == [pc |-> "merging", rows |-> IF all THEN rows ELSE {}, shown |-> {},
                   before |-> {t \in Traces : registry[t] = "fresh"},
                   covered |-> all /\ stream[d]]
<1>1. /\ page' = [page EXCEPT ![d] = new]
      /\ UNCHANGED streamVars
      /\ UNCHANGED <<begun, ended, rows, announced, enriched, topic, alive, registry, faults>>
  BY DEF LoadRows, workerVars
<1>2. new \in Pages
  <2>1. (all /\ stream[d]) \in BOOLEAN
    BY <1>t DEF StreamTypes
  <2>2. (IF all THEN rows ELSE {}) \in SUBSET Traces
    BY <1>t DEF OtherTypes
  <2> QED
    BY <2>1, <2>2 DEF Pages
<1>3. page' \in [Dashboards -> Pages] /\ page'[d] = new
      /\ \A e \in Dashboards : e # d => page'[e] = page[e]
  BY <1>1, <1>2, <1>t DEF OtherTypes
<1>4. OtherTypes'
  BY <1>1, <1>3, <1>t DEF OtherTypes
<1>5. StreamTypes' /\ StreamInOrder'
  BY <1>1, <1>t, StreamsAlone
<1>6. PageInv' /\ TopicInv'
  BY <1>1, <1>3, <1>t DEF PageInv, TopicInv
<1>7. GapInv'
  <2> SUFFICES ASSUME NEW e \in Dashboards, page'[e].covered
               PROVE  stream[e] /\ (~dropped[e] => \A t \in announced : Heard(t, e)')
    BY <1>1 DEF GapInv, streamVars
  <2>1. CASE e = d
    <3>1. new.covered => all /\ stream[d]
      OBVIOUS
    <3>2. all => new.rows = rows
      OBVIOUS
    <3> HIDE DEF new
    <3>3. all /\ stream[d]
      BY <2>1, <1>3, <3>1
    <3>4. page'[e].rows = rows
      BY <2>1, <1>3, <3>2, <3>3
    <3> QED
      BY <2>1, <3>3, <3>4, <1>t DEF Heard, OtherTypes
  <2>2. CASE e # d
    BY <2>2, <1>1, <1>3, <1>t DEF GapInv, Heard, streamVars
  <2> QED
    BY <2>1, <2>2
<1>8. TypeOK'
  BY <1>4, <1>5 DEF TypeOK, StreamTypes, OtherTypes
<1> QED
  BY <1>5, <1>6, <1>7, <1>8 DEF IInv

LEMMA MergeStep ==
  ASSUME IInv, NEW d \in Dashboards, MergeRunning(d)
  PROVE  IInv'
<1>t. StreamTypes /\ OtherTypes /\ TopicInv /\ PageInv /\ GapInv /\ StreamInOrder
  BY TypeSplit DEF IInv
<1> DEFINE running == {t \in Traces : registry[t] = "fresh"} \ page[d].rows
<1>1. /\ page' = [page EXCEPT ![d].pc = "done", ![d].before = {}, ![d].shown = running]
      /\ registry' = Swept
      /\ UNCHANGED streamVars
      /\ UNCHANGED <<begun, ended, rows, announced, enriched, topic, alive, faults>>
  BY DEF MergeRunning, workerVars
<1>2. registry' \in [Traces -> {"none", "fresh", "stale"}]
      /\ \A t \in Traces : registry[t] = "fresh" => registry'[t] = "fresh"
  BY <1>1, <1>t DEF Swept, OtherTypes
<1>3. running \in SUBSET Traces
  OBVIOUS
<1> HIDE DEF running
<1>4. page' \in [Dashboards -> Pages]
      /\ page'[d].pc = "done" /\ page'[d].rows = page[d].rows
      /\ page'[d].covered = page[d].covered
      /\ \A e \in Dashboards : e # d => page'[e] = page[e]
  <2> DEFINE new == [page[d] EXCEPT !.pc = "done", !.before = {}, !.shown = running]
  <2>1. page[d] \in Pages /\ page \in [Dashboards -> Pages]
    BY <1>t DEF OtherTypes
  <2>2. new \in Pages
    BY <2>1, <1>3 DEF Pages
  <2>3. new.pc = "done" /\ new.rows = page[d].rows /\ new.covered = page[d].covered
    BY <2>1 DEF Pages
  <2>4. page' = [page EXCEPT ![d] = new]
    BY <1>1, <2>1
  <2> HIDE DEF new
  <2> QED
    BY <2>1, <2>2, <2>3, <2>4
<1>5. OtherTypes'
  BY <1>1, <1>2, <1>4, <1>t DEF OtherTypes
<1>6. StreamTypes' /\ StreamInOrder'
  BY <1>1, <1>t, StreamsAlone
<1>7. PageInv' /\ TopicInv'
  BY <1>1, <1>2, <1>4, <1>t DEF PageInv, TopicInv
<1>8. GapInv'
  <2>1. \A e \in Dashboards : page'[e].covered = page[e].covered /\ page'[e].rows = page[e].rows
    BY <1>4
  <2> QED
    BY <2>1, <1>1, <1>t DEF GapInv, Heard, streamVars
<1>9. TypeOK'
  BY <1>5, <1>6 DEF TypeOK, StreamTypes, OtherTypes
<1> QED
  BY <1>6, <1>7, <1>8, <1>9 DEF IInv

-----------------------------------------------------------------------------
LEMMA InitIInv == Init => IInv
<1> SUFFICES ASSUME Init PROVE IInv
  OBVIOUS
<1>1. <<>> \in Seq(Messages) /\ Len(<<>>) = 0
  BY EmptySeq
<1>2. NoPage \in Pages /\ NoPage.pc # "merging" /\ ~NoPage.covered
  BY DEF NoPage, Pages
<1>3. TypeOK
  BY <1>1, <1>2 DEF Init, TypeOK
<1>4. StreamInOrder
  <2>1. Newest(<<>>, 0) = <<>>
    BY <1>1, NewestAll
  <2> QED
    BY <1>1, <2>1, BoundsAssumption DEF Init, StreamInOrder
<1>5. TopicInv
  <2>1. DOMAIN <<>> = {}
    BY <1>1, LenProperties
  <2> QED
    BY <2>1 DEF Init, TopicInv
<1>6. PageInv /\ GapInv
  BY <1>2 DEF Init, PageInv, GapInv
<1> QED
  BY <1>3, <1>4, <1>5, <1>6 DEF IInv

LEMMA StutterStep ==
  ASSUME IInv, UNCHANGED vars
  PROVE  IInv'
<1>t. StreamTypes /\ OtherTypes /\ TopicInv /\ PageInv /\ GapInv /\ StreamInOrder
  BY TypeSplit DEF IInv
<1>1. UNCHANGED streamVars /\ UNCHANGED <<begun, ended, rows, announced, enriched, topic, alive,
                                         registry, page, faults>>
  BY DEF vars, streamVars
<1>2. StreamTypes' /\ StreamInOrder' /\ PageInv'
  BY <1>t, <1>1, StreamsAlone, PagesAlone
<1>3. GapInv' /\ TopicInv' /\ OtherTypes'
  BY <1>t, <1>1, GapKept DEF TopicInv, OtherTypes
<1>4. TypeOK'
  BY <1>2, <1>3 DEF TypeOK, StreamTypes, OtherTypes
<1> QED
  BY <1>2, <1>3, <1>4 DEF IInv

LEMMA NextIInv == IInv /\ [Next]_vars => IInv'
<1> SUFFICES ASSUME IInv, [Next]_vars PROVE IInv'
  OBVIOUS
<1>1. ASSUME NEW t \in Traces, Begin(t) \/ BeginLate(t) \/ End(t) PROVE IInv'
  BY <1>1, ClientStep
<1>2. ASSUME NEW t \in Traces, Land(t) \/ Announce(t) \/ Enrich(t) PROVE IInv'
  BY <1>2, WorkerStep
<1>3. ASSUME NEW t \in Traces, EvaluateTrace(t) \/ Age(t) PROVE IInv'
  BY <1>3, EvaluateStep, AgeStep
<1>4. CASE Consume \/ ConsumerDies \/ Restart
  BY <1>4, ConsumeStep, ConsumerDiesStep, RestartStep
<1>5. ASSUME NEW d \in Dashboards, Connect(d) \/ Take(d) \/ Disconnect(d) PROVE IInv'
  BY <1>5, ConnectStep, TakeStep, DisconnectStep
<1>6. ASSUME NEW d \in Dashboards, LoadPage(d) PROVE IInv'
  BY <1>6, LoadStep, MergeStep DEF LoadPage
<1>7. CASE UNCHANGED vars
  BY <1>7, StutterStep
<1> QED
  BY <1>1, <1>2, <1>3, <1>4, <1>5, <1>6, <1>7 DEF Next

LEMMA Invariance == Spec => []IInv
  BY InitIInv, NextIInv, PTL DEF Spec

\* Every value has its type, a queue never outgrows its bound, and a closed
\* stream leaves no queue behind.
THEOREM TypeCorrect == Spec => []TypeOK
<1>1. IInv => TypeOK
  BY DEF IInv
<1> QED
  BY <1>1, Invariance, PTL

\* What waits for a dashboard is always the newest of what was published to it,
\* in that order, whatever overflows.
THEOREM StreamsAreOrdered == Spec => []StreamInOrder
<1>1. IInv => StreamInOrder
  BY DEF IInv
<1> QED
  BY <1>1, Invariance, PTL

\* A dashboard that streams before it loads its page misses no trace unless
\* its queue overflows.
THEOREM NothingIsMissed == Spec => []NoGap
<1>1. IInv => NoGap
  BY DEF IInv, GapInv, NoGap, Heard
<1> QED
  BY <1>1, Invariance, PTL

LEMMA PageStep ==
  ASSUME IInv, [Next]_vars, NEW d \in Dashboards, page[d].pc = "merging", page'[d].pc = "done"
  PROVE  page[d].before \subseteq page[d].rows \cup page'[d].shown \cup ended
<1>t. OtherTypes /\ PageInv
  BY TypeSplit DEF IInv
<1>1. MergeRunning(d)
  <2>1. page' # page
    OBVIOUS
  <2>2. ASSUME NEW t \in Traces PROVE ~Age(t)
    BY <1>t DEF Age, OtherTypes, Pages
  <2>3. ~Restart
    BY <1>t DEF Restart, OtherTypes, Pages, NoPage
  <2>4. ASSUME NEW e \in Dashboards PROVE ~Disconnect(e) /\ \A all \in BOOLEAN : ~LoadRows(e, all)
    <3>1. page[d] \in Pages /\ page \in [Dashboards -> Pages]
      BY <1>t DEF OtherTypes
    <3>2. ~Disconnect(e)
      BY <3>1 DEF Disconnect, Pages
    <3>3. ASSUME NEW all \in BOOLEAN PROVE ~LoadRows(e, all)
      BY <3>1 DEF LoadRows
    <3> QED
      BY <3>2, <3>3
  <2>5. PICK e \in Dashboards : MergeRunning(e)
    BY <2>1, <2>2, <2>3, <2>4 DEF Next, vars, LoadPage, Begin, BeginLate, End, Land, Announce,
       Enrich, EvaluateTrace, Consume, ConsumerDies, Connect, Take
  <2>6. e = d
    BY <2>5, <1>t DEF MergeRunning, OtherTypes
  <2> QED
    BY <2>5, <2>6
<1>2. page'[d].shown = {t \in Traces : registry[t] = "fresh"} \ page[d].rows
  BY <1>1, <1>t DEF MergeRunning, OtherTypes, Pages
<1>3. page[d].before \subseteq {t \in Traces : registry[t] = "fresh"} \cup ended
  BY <1>t DEF PageInv
<1> QED
  BY <1>2, <1>3

\* A page loses, between its two reads, only traces that have ended.
THEOREM PagesAreWhole == Spec => PageMissesOnlyEndedRuns
<1>1. IInv /\ [Next]_vars =>
        [\A d \in Dashboards :
           page[d].pc = "merging" /\ page'[d].pc = "done" =>
             page[d].before \subseteq page[d].rows \cup page'[d].shown \cup ended]_vars
  BY PageStep
<1> QED
  BY <1>1, Invariance, PTL DEF Spec, PageMissesOnlyEndedRuns
=============================================================================
