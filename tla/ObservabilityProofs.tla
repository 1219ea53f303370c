------------------------- MODULE ObservabilityProofs --------------------------
(***************************************************************************)
(* Theorems about what is kept of traces, for any sets of people, traces,   *)
(* scripts and servers and any bounds: what is asked of remote evals, what  *)
(* is pushed and sent from code, what a label shows and what a review left. *)
(***************************************************************************)
EXTENDS Observability, ReadsProofs

-----------------------------------------------------------------------------
(* Remote evals. *)

Waiting == [eval : UNION Offers, number : Nat, of : Servers]
Taken   == [eval : UNION Offers, number : Nat, of : Servers, to : Servers]

RemoteRanges ==
  /\ triggered \in Nat /\ polls \in [Servers -> BOOLEAN]
  /\ can \in [Servers -> SUBSET UNION Offers]
  /\ offered = {} \/ (by \in Servers /\ offered \subseteq can[by])
  /\ queued \in Seq(Waiting) /\ handed \in Seq(Taken) /\ lost \subseteq Waiting

\* Whatever is asked for, the server offered whose registration it was, and it has a
\* number that was given.
RequestsKnown ==
  /\ \A i \in 1..Len(queued) : queued[i].eval \in can[queued[i].of] /\ queued[i].number \in 1..triggered
  /\ \A i \in 1..Len(handed) : handed[i].eval \in can[handed[i].of] /\ handed[i].number \in 1..triggered
  /\ \A r \in lost : r.eval \in can[r.of] /\ r.number \in 1..triggered

\* Requests are handed out in the order of their numbers, and no two share one.
RequestsOrdered ==
  /\ \A i, j \in 1..Len(queued) : i < j => queued[i].number < queued[j].number
  /\ \A i, j \in 1..Len(handed) : i < j => handed[i].number < handed[j].number
  /\ \A i \in 1..Len(handed), j \in 1..Len(queued) : handed[i].number < queued[j].number
  /\ \A r \in lost : /\ \A i \in 1..Len(queued) : queued[i].number # r.number
                     /\ \A i \in 1..Len(handed) : handed[i].number # r.number

RequestsKept ==
  \A n \in 1..triggered :
    \/ \E i \in 1..Len(queued) : queued[i].number = n
    \/ \E i \in 1..Len(handed) : handed[i].number = n
    \/ \E r \in lost : r.number = n

RemoteInv == RemoteRanges /\ RequestsKnown /\ RequestsOrdered /\ RequestsKept

LEMMA RemoteInitInv == ASSUME RemoteInit PROVE RemoteInv
<1>1. Len(queued) = 0 /\ Len(handed) = 0 /\ queued \in Seq(Waiting) /\ handed \in Seq(Taken)
  BY EmptySeq DEF RemoteInit
<1> QED
  BY <1>1 DEF RemoteInit, RemoteInv, RemoteRanges, RequestsKnown, RequestsOrdered, RequestsKept

LEMMA RemoteStepInv ==
  ASSUME RemoteInv, RemoteStep
  PROVE  RemoteInv'
<1> USE DEF RemoteInv
<1>1. ASSUME NEW s \in Servers, RegisterRemoteEvals(s) PROVE RemoteInv'
  <2>1. PICK new \in Offers : offered' = new /\ can' = [can EXCEPT ![s] = @ \cup new]
    BY <1>1 DEF RegisterRemoteEvals
  <2>2. /\ can' \in [Servers -> SUBSET UNION Offers] /\ by' = s /\ offered' \subseteq can'[s]
        /\ \A o \in Servers : can[o] \subseteq can'[o]
    BY <1>1, <2>1 DEF RegisterRemoteEvals, RemoteRanges
  <2>3. UNCHANGED <<queued, handed, polls, lost, triggered>>
    BY <1>1 DEF RegisterRemoteEvals
  <2>4. RemoteRanges'
    BY <2>2, <2>3 DEF RemoteRanges
  <2>5. RequestsKnown'
    <3>1. /\ \A i \in 1..Len(queued) : queued[i] \in Waiting
          /\ \A i \in 1..Len(handed) : handed[i] \in Taken
          /\ \A r \in lost : r \in Waiting
      BY ElementOfSeq DEF RemoteRanges
    <3>2. (\A r \in Waiting : r.of \in Servers) /\ \A r \in Taken : r.of \in Servers
      BY DEF Waiting, Taken
    <3> QED
      BY <2>2, <2>3, <3>1, <3>2 DEF RequestsKnown
  <2> QED
    BY <2>3, <2>4, <2>5 DEF RequestsOrdered, RequestsKept
<1>2. CASE \/ \E s \in Servers : NextRemoteEval(s) \/ GiveUp(s) \/ StopServing(s)
           \/ ListRemoteEvals \/ TimePasses
  <2>1. UNCHANGED <<by, can, queued, handed, lost, triggered>> /\ offered' \subseteq offered
    BY <1>2 DEF NextRemoteEval, GiveUp, StopServing, ListRemoteEvals, TimePasses, Prune
  <2>2. polls' \in [Servers -> BOOLEAN]
    BY <1>2 DEF NextRemoteEval, GiveUp, StopServing, ListRemoteEvals, TimePasses, RemoteRanges
  <2>3. RemoteRanges'
    BY <2>1, <2>2 DEF RemoteRanges
  <2> QED
    BY <2>1, <2>3 DEF RequestsKnown, RequestsOrdered, RequestsKept
<1>3. ASSUME NEW s \in Servers, TakeRequest(s) PROVE RemoteInv'
  <2> DEFINE r == Head(queued)
             h == [eval |-> r.eval, number |-> r.number, of |-> r.of, to |-> s]
  <2>1. /\ Len(queued) \in Nat \ {0} /\ r = queued[1] /\ r \in Waiting
        /\ queued' \in Seq(Waiting) /\ Len(queued') = Len(queued) - 1
        /\ \A i \in 1..Len(queued') : queued'[i] = queued[i + 1]
    BY <1>3, EmptySeq, HeadTailProperties, LenProperties DEF TakeRequest, RemoteRanges
  <2>2. h \in Taken /\ h.number = queued[1].number /\ h.eval = queued[1].eval /\ h.of = queued[1].of
    BY <2>1 DEF Waiting, Taken
  <2>3. /\ handed' \in Seq(Taken) /\ Len(handed) \in Nat /\ Len(handed') = Len(handed) + 1
        /\ \A i \in 1..Len(handed) : handed'[i] = handed[i]
        /\ handed'[Len(handed) + 1] = h
    <3>1. handed' = Append(handed, h)
      BY <1>3 DEF TakeRequest
    <3> HIDE DEF h
    <3> QED
      BY <2>2, <3>1, AppendProperties, LenProperties DEF RemoteRanges
  <2> HIDE DEF r, h
  <2>4. \A i \in 1..Len(handed') : i \in 1..Len(handed) \/ i = Len(handed) + 1
    BY <2>3
  <2>5. \A i \in 1..Len(queued') : i + 1 \in 1..Len(queued) /\ 1 < i + 1 /\ 1 \in 1..Len(queued)
    BY <2>1
  <2>6. UNCHANGED <<offered, by, can, lost, triggered>>
    BY <1>3 DEF TakeRequest
  <2>7. RemoteRanges'
    <3>1. polls' \in [Servers -> BOOLEAN]
      BY <1>3 DEF RemoteRanges, TakeRequest
    <3> QED
      BY <2>1, <2>3, <2>6, <3>1 DEF RemoteRanges
  <2>8. RequestsKnown'
    <3>1. \A i \in 1..Len(queued') : queued'[i].eval \in can[queued'[i].of] /\ queued'[i].number \in 1..triggered
      BY <2>1, <2>5 DEF RequestsKnown
    <3>2. h.eval \in can[h.of] /\ h.number \in 1..triggered
      BY <2>1, <2>2 DEF RequestsKnown
    <3>3. \A i \in 1..Len(handed') : handed'[i].eval \in can[handed'[i].of] /\ handed'[i].number \in 1..triggered
      BY <2>3, <2>4, <3>2 DEF RequestsKnown
    <3> QED
      BY <2>6, <3>1, <3>3 DEF RequestsKnown
  <2>9. RequestsOrdered'
    <3>1. \A i, j \in 1..Len(queued') : i < j => queued'[i].number < queued'[j].number
      <4> TAKE i, j \in 1..Len(queued')
      <4>1. i \in Nat /\ j \in Nat /\ (i < j => i + 1 < j + 1)
        BY <2>1
      <4> QED
        BY <2>1, <2>5, <4>1 DEF RequestsOrdered
    <3>2. \A i \in 1..Len(handed) : handed'[i].number < h.number
      BY <2>1, <2>2, <2>3, <2>5 DEF RequestsOrdered
    <3>3. \A i, j \in 1..Len(handed') : i < j => handed'[i].number < handed'[j].number
      <4> TAKE i, j \in 1..Len(handed')
      <4>1. CASE j \in 1..Len(handed)
        BY <2>3, <2>4, <4>1 DEF RequestsOrdered
      <4>2. CASE j = Len(handed) + 1
        BY <2>3, <2>4, <3>2, <4>2
      <4> QED
        BY <2>4, <4>1, <4>2
    <3>4. \A j \in 1..Len(queued') : h.number < queued'[j].number
      BY <2>1, <2>2, <2>5 DEF RequestsOrdered
    <3>5. \A i \in 1..Len(handed'), j \in 1..Len(queued') : handed'[i].number < queued'[j].number
      <4> TAKE i \in 1..Len(handed'), j \in 1..Len(queued')
      <4>1. CASE i \in 1..Len(handed)
        BY <2>1, <2>3, <2>5, <4>1 DEF RequestsOrdered
      <4>2. CASE i = Len(handed) + 1
        BY <2>3, <3>4, <4>2
      <4> QED
        BY <2>4, <4>1, <4>2
    <3>6. ASSUME NEW x \in lost
          PROVE  /\ \A i \in 1..Len(queued') : queued'[i].number # x.number
                 /\ \A i \in 1..Len(handed') : handed'[i].number # x.number
      <4>1. h.number # x.number
        BY <2>1, <2>2 DEF RequestsOrdered
      <4> QED
        BY SMTT(30), <2>1, <2>3, <2>4, <2>5, <4>1 DEF RequestsOrdered
    <3> QED
      BY <2>6, <3>1, <3>3, <3>5, <3>6 DEF RequestsOrdered
  <2>10. RequestsKept'
    <3> SUFFICES ASSUME NEW n \in 1..triggered
                 PROVE  \/ \E i \in 1..Len(queued') : queued'[i].number = n
                        \/ \E i \in 1..Len(handed') : handed'[i].number = n
                        \/ \E x \in lost : x.number = n
      BY <2>6 DEF RequestsKept
    <3>1. CASE \E i \in 1..Len(queued) : queued[i].number = n
      <4>1. PICK i \in 1..Len(queued) : queued[i].number = n
        BY <3>1
      <4>2. CASE i = 1
        BY <2>2, <2>3, <4>1, <4>2
      <4>3. CASE i # 1
        <5>1. i - 1 \in 1..Len(queued') /\ (i - 1) + 1 = i
          BY <2>1, <4>1, <4>3
        <5> QED
          BY <2>1, <4>1, <5>1
      <4> QED
        BY <4>2, <4>3
    <3>2. CASE \E i \in 1..Len(handed) : handed[i].number = n
      BY <2>3, <3>2
    <3> QED
      BY <3>1, <3>2 DEF RequestsKept
  <2> QED
    BY <2>7, <2>8, <2>9, <2>10
<1>4. ASSUME TriggerRemoteEval PROVE RemoteInv'
  <2>1. PICK e \in offered' : queued' = Append(queued, [eval |-> e, number |-> triggered + 1, of |-> by])
    BY <1>4 DEF TriggerRemoteEval
  <2> DEFINE q == [eval |-> e, number |-> triggered + 1, of |-> by]
  <2>2. /\ UNCHANGED <<by, can, handed, lost, polls>>
        /\ triggered' = triggered + 1 /\ triggered \in Nat /\ offered' \subseteq offered
        /\ by \in Servers /\ e \in can[by]
    BY <1>4 DEF TriggerRemoteEval, Prune, RemoteRanges
  <2>3. q \in Waiting /\ q.number = triggered + 1 /\ q.eval = e /\ q.of = by
    BY <2>2 DEF Waiting, RemoteRanges
  <2> HIDE DEF q
  <2>4. /\ queued' \in Seq(Waiting) /\ Len(queued) \in Nat /\ Len(queued') = Len(queued) + 1
        /\ \A i \in 1..Len(queued) : queued'[i] = queued[i]
        /\ queued'[Len(queued) + 1] = q
    BY <2>1, <2>3, AppendProperties, LenProperties DEF RemoteRanges, q
  <2>5. \A i \in 1..Len(queued') : i \in 1..Len(queued) \/ i = Len(queued) + 1
    BY <2>4
  <2>6. RemoteRanges'
    BY <2>2, <2>4 DEF RemoteRanges
  <2>7. RequestsKnown'
    <3>1. \A i \in 1..Len(queued') : queued'[i].eval \in can[queued'[i].of] /\ queued'[i].number \in 1..triggered'
      BY <2>2, <2>3, <2>4, <2>5 DEF RequestsKnown
    <3> QED
      BY <2>2, <3>1 DEF RequestsKnown
  <2>8. RequestsOrdered'
    <3>1. \A i \in 1..Len(queued) : queued[i].number < q.number
      BY <2>2, <2>3 DEF RequestsKnown
    <3>2. \A i, j \in 1..Len(queued') : i < j => queued'[i].number < queued'[j].number
      <4> TAKE i, j \in 1..Len(queued')
      <4>1. CASE j \in 1..Len(queued)
        BY <2>4, <2>5, <4>1 DEF RequestsOrdered
      <4>2. CASE j = Len(queued) + 1
        BY <2>4, <2>5, <3>1, <4>2
      <4> QED
        BY <2>5, <4>1, <4>2
    <3>3. \A i \in 1..Len(handed), j \in 1..Len(queued') : handed[i].number < queued'[j].number
      <4> TAKE i \in 1..Len(handed), j \in 1..Len(queued')
      <4>1. handed[i].number < q.number
        BY <2>2, <2>3 DEF RequestsKnown
      <4> QED
        BY <2>4, <2>5, <4>1 DEF RequestsOrdered
    <3>4. ASSUME NEW x \in lost
          PROVE  \A i \in 1..Len(queued') : queued'[i].number # x.number
      <4>1. q.number # x.number
        BY <2>2, <2>3 DEF RequestsKnown
      <4> QED
        BY <2>4, <2>5, <4>1 DEF RequestsOrdered
    <3> QED
      BY <2>2, <3>2, <3>3, <3>4 DEF RequestsOrdered
  <2>9. RequestsKept'
    <3>1. \A n \in 1..triggered' : n \in 1..triggered \/ n = triggered + 1
      BY <2>2
    <3> QED
      BY SMTT(30), <2>2, <2>3, <2>4, <3>1 DEF RequestsKept
  <2> QED
    BY <2>6, <2>7, <2>8, <2>9
<1>5. ASSUME RestartApi PROVE RemoteInv'
  <2>1. /\ UNCHANGED <<can, handed, triggered>> /\ offered' = {}
        /\ queued' = <<>> /\ lost' = lost \cup {queued[i] : i \in 1..Len(queued)}
        /\ polls' \in [Servers -> BOOLEAN]
    BY <1>5, LenProperties DEF RestartApi, ToSet, RemoteRanges
  <2>2. Len(queued') = 0 /\ queued' \in Seq(Waiting)
    BY <2>1, EmptySeq
  <2>3. \A i \in 1..Len(queued) : queued[i] \in Waiting
    BY ElementOfSeq DEF RemoteRanges
  <2>4. RemoteRanges'
    BY <2>1, <2>2, <2>3 DEF RemoteRanges
  <2>5. RequestsKnown'
    BY <2>1, <2>2 DEF RequestsKnown
  <2>6. RequestsOrdered'
    <3>1. \A i \in 1..Len(handed), j \in 1..Len(queued) : handed[i].number # queued[j].number
      BY LenProperties, ElementOfSeq DEF RequestsOrdered, RequestsKnown, RemoteRanges
    <3> QED
      BY <2>1, <2>2, <3>1 DEF RequestsOrdered
  <2>7. RequestsKept'
    BY <2>1, <2>2 DEF RequestsKept
  <2> QED
    BY <2>4, <2>5, <2>6, <2>7
<1> QED
  BY <1>1, <1>2, <1>3, <1>4, <1>5 DEF RemoteStep


LEMMA RemoteInvServes ==
  ASSUME RemoteInv
  PROVE  RemoteEvalsServed
<1> DEFINE numbers(S) == {r.number : r \in S}
           inQueue == numbers(ToSet(queued))
           inHand == numbers(ToSet(handed))
           isLost == numbers(lost)
           places == <<inQueue, inHand, isLost>>
           order == handed \o queued
<1>1. /\ Len(queued) \in Nat /\ DOMAIN queued = 1..Len(queued)
      /\ Len(handed) \in Nat /\ DOMAIN handed = 1..Len(handed)
  BY LenProperties DEF RemoteInv, RemoteRanges
<1>2. /\ inQueue = {queued[i].number : i \in 1..Len(queued)}
      /\ inHand = {handed[i].number : i \in 1..Len(handed)}
  BY <1>1 DEF ToSet
<1>3. inQueue \cup inHand \cup isLost = 1..triggered
  <2>1. inQueue \cup inHand \cup isLost \subseteq 1..triggered
    BY <1>2 DEF RemoteInv, RequestsKnown
  <2>2. ASSUME NEW n \in 1..triggered PROVE n \in inQueue \cup inHand \cup isLost
    BY <1>2 DEF RemoteInv, RequestsKept
  <2> QED
    BY <2>1, <2>2
<1>4. inQueue \cap inHand = {}
  <2>1. \A i \in 1..Len(handed), j \in 1..Len(queued) : handed[i].number # queued[j].number
    BY DEF RemoteInv, RequestsKnown, RequestsOrdered
  <2> SUFFICES ASSUME NEW n \in inQueue, n \in inHand PROVE FALSE
    OBVIOUS
  <2>2. PICK j \in 1..Len(queued) : queued[j].number = n
    BY <1>2
  <2>3. PICK i \in 1..Len(handed) : handed[i].number = n
    BY <1>2
  <2> QED
    BY <2>1, <2>2, <2>3
<1>5. inQueue \cap isLost = {} /\ inHand \cap isLost = {}
  <2> SUFFICES ASSUME NEW r \in lost PROVE r.number \notin inQueue /\ r.number \notin inHand
    OBVIOUS
  <2>1. /\ \A i \in 1..Len(queued) : queued[i].number # r.number
        /\ \A i \in 1..Len(handed) : handed[i].number # r.number
    BY DEF RemoteInv, RequestsOrdered
  <2> HIDE DEF inQueue, inHand
  <2> QED
    BY <1>2, <2>1
<1>6. \A i, j \in DOMAIN order : i < j => order[i].number < order[j].number
  <2> DEFINE both == Waiting \cup Taken
  <2>1. queued \in Seq(both) /\ handed \in Seq(both)
    BY SeqMonotonic DEF RemoteInv, RemoteRanges
  <2> HIDE DEF both
  <2>2. /\ order \in Seq(both) /\ Len(order) = Len(handed) + Len(queued)
        /\ \A i \in 1..Len(order) : order[i] = IF i <= Len(handed) THEN handed[i] ELSE queued[i - Len(handed)]
    BY <2>1, ConcatProperties
  <2>3. DOMAIN order = 1..Len(order)
    BY <2>2, LenProperties
  <2> HIDE DEF order
  <2> TAKE i, j \in DOMAIN order
  <2> SUFFICES ASSUME i < j PROVE order[i].number < order[j].number
    OBVIOUS
  <2>4. i \in Nat /\ j \in Nat /\ i \in 1..Len(order) /\ j \in 1..Len(order)
    BY <1>1, <2>2, <2>3
  <2>5. CASE j <= Len(handed)
    BY <1>1, <2>2, <2>4, <2>5 DEF RemoteInv, RequestsOrdered
  <2>6. CASE i <= Len(handed) /\ ~(j <= Len(handed))
    <3>1. i \in 1..Len(handed) /\ j - Len(handed) \in 1..Len(queued)
      BY <1>1, <2>2, <2>4, <2>6
    <3> QED
      BY <2>2, <2>4, <2>6, <3>1 DEF RemoteInv, RequestsOrdered
  <2>7. CASE ~(i <= Len(handed)) /\ ~(j <= Len(handed))
    <3>1. /\ i - Len(handed) \in 1..Len(queued) /\ j - Len(handed) \in 1..Len(queued)
          /\ i - Len(handed) < j - Len(handed)
      BY <1>1, <2>2, <2>4, <2>7
    <3> QED
      BY <2>2, <2>4, <2>7, <3>1 DEF RemoteInv, RequestsOrdered
  <2> QED
    BY <1>1, <2>4, <2>5, <2>6, <2>7
<1>7. \A r \in ToSet(order) \cup lost : r.eval \in can[r.of]
  <2>1. /\ \A r \in ToSet(queued) : r.eval \in can[r.of]
        /\ \A r \in ToSet(handed) : r.eval \in can[r.of]
    BY <1>1 DEF ToSet, RemoteInv, RequestsKnown
  <2>2. \A r \in ToSet(order) : r \in ToSet(handed) \/ r \in ToSet(queued)
    <3> DEFINE both == Waiting \cup Taken
    <3>1. queued \in Seq(both) /\ handed \in Seq(both)
      BY SeqMonotonic DEF RemoteInv, RemoteRanges
    <3> HIDE DEF both
    <3>2. /\ order \in Seq(both) /\ Len(order) = Len(handed) + Len(queued)
          /\ \A i \in 1..Len(order) : order[i] = IF i <= Len(handed) THEN handed[i] ELSE queued[i - Len(handed)]
      BY <3>1, ConcatProperties
    <3>3. DOMAIN order = 1..Len(order)
      BY <3>2, LenProperties
    <3> HIDE DEF order
    <3>4. \A i \in 1..Len(order) : i \in 1..Len(handed) \/ i - Len(handed) \in 1..Len(queued)
      BY <1>1, <3>2
    <3> QED
      BY <1>1, <3>2, <3>3, <3>4 DEF ToSet
  <2> QED
    BY <2>1, <2>2 DEF RemoteInv, RequestsKnown
<1> HIDE DEF inQueue, inHand, isLost, order
<1>8. UNION ToSet(places) = 1..triggered
  <2>1. ToSet(places) = {inQueue, inHand, isLost}
    BY DEF ToSet
  <2> QED
    BY <1>3, <2>1
<1>9. \A i, j \in DOMAIN places : i # j => places[i] \cap places[j] = {}
  <2>1. DOMAIN places = {1, 2, 3} /\ places[1] = inQueue /\ places[2] = inHand /\ places[3] = isLost
    OBVIOUS
  <2> HIDE DEF places
  <2> QED
    BY <1>4, <1>5, <2>1
<1> QED
  BY <1>6, <1>7, <1>8, <1>9 DEF RemoteEvalsServed, order, inQueue, inHand, isLost


-----------------------------------------------------------------------------
(* Code-defined resources and runs. *)

Known    == DOMAIN Folded
Sets     == [name : Known, rows : SUBSET Nat]
Locals   == [name : Known, set : Nat, status : {"running", "complete"}, total : Nat, summary : Nat]
Resting  == [stage : {"idle", "failed"}]
NameLists == Seq(Known)
\* What was found of each name that is listed, and the name whose turn it is.
InTurn(d) == DOMAIN d.found = DOMAIN d.names /\ d.turn \in DOMAIN d.names
Pushing  == {d \in [stage : {"scorer", "datasets", "make", "fill", "relist"}, slug : Slugs, kind : Kinds,
                    names : NameLists, id : Nat, turn : Nat, found : Seq(Nat), old : Kinds \cup {Nil}] :
               InTurn(d) /\ (d.stage \in {"scorer", "datasets"} => d.turn = 1)}
Linking  == {d \in [stage : {"link", "pushed"}, slug : Slugs, names : NameLists, id : Nat, into : Seq(Nat),
                    turn : Nat, found : Seq(Nat)] : InTurn(d)}
Holding  == {d \in [stage : {"hold", "open"}, names : NameLists, turn : {1}, found : Seq(Nat)] : InTurn(d)}
Posting  == [stage : {"post", "total", "answered"}, run : Nat, left : Nat, batch : SUBSET Nat]
Reporting == [stage : {"report"}, run : Nat, seen : SUBSET Nat, status : {"running", "complete"}]
Reported == [stage : {"reported"}, run : Nat, whole : BOOLEAN]
Doings   == Resting \cup Pushing \cup Linking \cup Holding \cup Posting \cup Reporting \cup Reported

CodeRanges ==
  /\ named \in Seq(Sets) /\ runs \in Seq(Locals) /\ begun \in Nat
  /\ IsFiniteSet(jobs) /\ jobs = 1..Cardinality(jobs) /\ Cardinality(jobs) \in Nat
  /\ graded \subseteq jobs /\ wasted \subseteq jobs
  /\ items \subseteq [run : Nat, trace : jobs]
  /\ doing \in [Scripts -> Doings]

\* A scorer is of one kind, and is still what a push read of it.
ScorersInv ==
  /\ scorers \in [Slugs -> [kind : Kinds, body : Kinds] \cup {Nil}]
  /\ \A slug \in Slugs : scorers[slug] # Nil => scorers[slug].body = scorers[slug].kind
  /\ \A s \in Scripts : At(s, "scorer") /\ doing[s].old # Nil =>
       scorers[doing[s].slug] # Nil /\ scorers[doing[s].slug].kind = doing[s].old

\* What a script sends and reads belongs to a run, and to no other script.
Recorded == {i.trace : i \in items}

SendFine(s) ==
  /\ doing[s].stage \in {"post", "total", "answered", "report"} => doing[s].run \in 1..Len(runs)
  /\ At(s, "post") => /\ doing[s].batch \subseteq jobs
                      /\ doing[s].batch \cap Recorded = {}
                      /\ doing[s].batch \cap wasted = {}
  /\ doing[s].stage \in {"total", "answered"} => doing[s].batch \subseteq ItemsOf(doing[s].run)
  /\ At(s, "report") => doing[s].seen \subseteq jobs

BatchesApart ==
  \A s, o \in Scripts : s # o /\ At(s, "post") /\ At(o, "post") => doing[s].batch \cap doing[o].batch = {}

ItemsFine ==
  /\ \A i, j \in items : i.trace = j.trace => i = j
  /\ wasted \cap Recorded = {}
  /\ \A t \in jobs : \/ t \in Recorded \cup wasted
                    \/ \E s \in Scripts : At(s, "post") /\ t \in doing[s].batch

RunsFine ==
  \A n \in 1..Len(runs) : /\ runs[n].total <= Cardinality(ItemsOf(n))
                          /\ runs[n].status = "complete" => runs[n].summary = 0

SendsInv == (\A s \in Scripts : SendFine(s)) /\ BatchesApart /\ ItemsFine /\ RunsFine

\* A name that was looked for and not found is on no dataset, or is there as it is
\* written by now, or may stand for two; whatever was found is of the name.
FoundFine(name, i) ==
  IF i = 0 THEN Matches(name) = {} \/ Folded[name] \in apart \/ \E n \in 1..Len(named) : named[n].name = name
           ELSE i \in Matches(name)

InPlace(name, i, id) == i \in Matches(name) /\ id \in named[i].rows

\* What a push made so far is there, and what a run is to hang on.
NameFine(s) ==
  LET d == doing[s] IN
  /\ d.stage \in {"make", "fill", "hold"} =>
       /\ \A k \in DOMAIN d.names : FoundFine(d.names[k], d.found[k])
       /\ Spelled(d.names) \subseteq apart
  /\ d.stage \in {"make", "fill"} =>
       \A k \in DOMAIN d.names : k < d.turn => InPlace(d.names[k], d.found[k], d.id)
  /\ d.stage = "fill" => d.found[d.turn] \in Matches(d.names[d.turn])
  /\ d.stage = "open" => d.found[1] \in Matches(d.names[1])
  /\ d.stage = "relist" => \A k \in DOMAIN d.names : InPlace(d.names[k], d.found[k], d.id)
  /\ d.stage \in {"link", "pushed"} =>
       \A k \in DOMAIN d.names : InPlace(d.names[k], d.into[k], d.id) /\ d.found[k] \in Matches(d.names[k])
  /\ d.stage = "link" => \A k \in DOMAIN d.names : k < d.turn => <<d.found[k], d.slug>> \in attached
  /\ d.stage = "pushed" => \A k \in DOMAIN d.names : <<d.found[k], d.slug>> \in attached

\* Two who are about to create one name overlap.
CreatorsKnown == \A s, o \in Scripts : s # o => Pending(s) \cap Pending(o) \subseteq apart

NamesApart ==
  \A i, j \in 1..Len(named) :
    i # j /\ Folded[named[i].name] = Folded[named[j].name] => Folded[named[i].name] \in apart

RunsNamed == \A n \in 1..Len(runs) : runs[n].set \in Matches(runs[n].name)

NamesInv == (\A s \in Scripts : NameFine(s)) /\ CreatorsKnown /\ NamesApart /\ RunsNamed

CodeInv == CodeRanges /\ ScorersInv /\ SendsInv /\ NamesInv

\* What a script is in the middle of has the shape of its stage.
LEMMA StageShapes ==
  ASSUME CodeRanges, NEW s \in Scripts
  PROVE  /\ doing[s] \in Doings
         /\ doing[s].stage \in {"scorer", "datasets", "make", "fill", "relist"} /\ ~At(s, "make") => doing[s] \in Pushing
         /\ At(s, "make") => doing[s] \in Pushing
         /\ doing[s].stage \in {"link", "pushed"} => doing[s] \in Linking
         /\ doing[s].stage \in {"hold", "open"} => doing[s] \in Holding
         /\ doing[s].stage \in {"post", "total", "answered"} => doing[s] \in Posting
         /\ At(s, "report") => doing[s] \in Reporting
<1>1. doing[s] \in Doings
  BY DEF CodeRanges
<1> QED
  BY <1>1 DEF Doings, Resting, Pushing, Linking, Holding, Posting, Reporting, Reported, At

\* Every name of a list has a dataset that was found, or none.
LEMMA ListShapes ==
  ASSUME NEW d \in Pushing \cup Linking \cup Holding
  PROVE  /\ d.names \in NameLists /\ Len(d.names) \in Nat /\ DOMAIN d.names = 1..Len(d.names)
         /\ \A k \in DOMAIN d.names : d.names[k] \in Known /\ d.found[k] \in Nat
         /\ d.found \in [DOMAIN d.names -> Nat] /\ d.turn \in DOMAIN d.names
<1>1. d.names \in NameLists /\ d.found \in Seq(Nat) /\ InTurn(d)
  BY DEF Pushing, Linking, Holding
<1>2. Len(d.names) \in Nat /\ DOMAIN d.names = 1..Len(d.names) /\ d.found \in [1..Len(d.found) -> Nat]
  BY <1>1, LenProperties DEF NameLists
<1>3. \A k \in DOMAIN d.names : d.names[k] \in Known
  BY <1>1, <1>2, ElementOfSeq DEF NameLists
<1> QED
  BY <1>1, <1>2, <1>3, LenProperties DEF InTurn

\* What is found of each name is a list.
LEMMA FoundLists ==
  ASSUME NEW names \in NameLists, NEW found \in [DOMAIN names -> Nat]
  PROVE  found \in Seq(Nat) /\ DOMAIN found = DOMAIN names
<1>1. Len(names) \in Nat /\ DOMAIN names = 1..Len(names)
  BY LenProperties DEF NameLists
<1> QED
  BY <1>1

\* A nonempty set of naturals below a bound has a greatest element.
LEMMA NatMax ==
  ASSUME NEW n \in Nat, NEW S \in SUBSET (0..n), S # {}
  PROVE  \E x \in S : \A y \in S : y <= x
<1> DEFINE T == {n - x : x \in S}
<1>1. T \in SUBSET Nat /\ T # {}
  <2>1. \A x \in S : n - x \in Nat
    OBVIOUS
  <2> QED
    BY <2>1
<1>2. PICK t \in T : \A u \in T : t <= u
  <2> HIDE DEF T
  <2> QED
    BY <1>1, NatMin
<1>3. PICK x \in S : t = n - x
  BY <1>2
<1>4. \A y \in S : n - x <= n - y
  BY <1>2, <1>3
<1>5. \A y \in S : y <= x
  <2> TAKE y \in S
  <2>1. y \in Int /\ x \in Int /\ n - x <= n - y
    BY <1>4
  <2> QED
    BY <2>1
<1> QED
  BY <1>3, <1>5

LEMMA NamesFound ==
  ASSUME CodeRanges, NEW name \in Known
  PROVE  /\ Matches(name) \subseteq 1..Len(named) /\ Len(named) \in Nat
         /\ Oldest(name) \in Nat /\ Newest(name) \in Nat
         /\ IF Matches(name) = {} THEN Oldest(name) = 0 /\ Newest(name) = 0
            ELSE Oldest(name) \in Matches(name) /\ Newest(name) \in Matches(name)
<1>1. Len(named) \in Nat /\ DOMAIN named = 1..Len(named)
  BY LenProperties DEF CodeRanges
<1>2. Matches(name) \subseteq 1..Len(named)
  BY <1>1 DEF Matches
<1>3. ASSUME Matches(name) # {} PROVE Oldest(name) \in Matches(name) /\ Newest(name) \in Matches(name)
  <2> DEFINE S == Matches(name)
  <2>1. S \in SUBSET Nat /\ S \in SUBSET (0..Len(named)) /\ S # {}
    BY <1>1, <1>2, <1>3
  <2> HIDE DEF S
  <2>2. (\E x \in S : \A y \in S : x >= y) /\ (\E x \in S : \A y \in S : x <= y)
    BY <1>1, <2>1, NatMin, NatMax
  <2>3. Max(S) \in S /\ Min(S) \in S
    BY <2>2 DEF Max, Min
  <2> QED
    BY <1>3, <2>3 DEF Oldest, Newest, S
<1> QED
  BY <1>1, <1>2, <1>3 DEF Oldest, Newest


\* The start: nothing is pushed or sent yet.
LEMMA CodeInitRanges == ASSUME CodeInit PROVE CodeRanges
<1>1. PICK names \in Opened : runs = [n \in DOMAIN names |-> Opening(names[n], n)]
  BY DEF CodeInit
<1>2. Len(names) \in Nat /\ DOMAIN names = 1..Len(names) /\ \A n \in 1..Len(names) : names[n] \in Known
  BY NamesAssumption, LenProperties, ElementOfSeq DEF Known
<1>3. runs = [n \in 1..Len(names) |-> Opening(names[n], n)] /\ \A n \in 1..Len(names) : Opening(names[n], n) \in Locals
  BY <1>1, <1>2 DEF Opening, Locals
<1>4. runs \in Seq(Locals) /\ DOMAIN runs = 1..Len(names)
  BY <1>2, <1>3
<1>5. named = [n \in 1..Len(names) |-> [name |-> runs[n].name, rows |-> {}]]
  BY <1>4 DEF CodeInit
<1>6. \A n \in 1..Len(names) : [name |-> runs[n].name, rows |-> {}] \in Sets
  BY <1>3 DEF Opening, Locals, Sets
<1>7. named \in Seq(Sets)
  BY <1>2, <1>5, <1>6
<1>8. Cardinality(jobs) = 0 /\ jobs = 1..0 /\ IsFiniteSet(jobs)
  BY FS_EmptySet DEF CodeInit
<1> QED
  BY <1>4, <1>7, <1>8 DEF CodeInit, CodeRanges, Doings, Resting

\* A step of a script: its own entry changes shape.
LEMMA GoesTo ==
  ASSUME CodeRanges, NEW s \in Scripts, NEW w, Goes(s, w)
  PROVE  /\ doing'[s] = w
         /\ \A o \in Scripts \ {s} : doing'[o] = doing[o]
         /\ w \in Doings => doing' \in [Scripts -> Doings]
BY DEF CodeRanges, Goes

\* A dataset is created at the end of the list.
LEMMA Appended ==
  ASSUME CodeRanges, NEW name \in Known, named' = Append(named, [name |-> name, rows |-> {}])
  PROVE  /\ named' \in Seq(Sets) /\ Len(named) \in Nat /\ Len(named') = Len(named) + 1
         /\ \A i \in 1..Len(named) : named'[i] = named[i]
         /\ named'[Len(named) + 1].name = name
<1> DEFINE new == [name |-> name, rows |-> {}]
<1>1. new \in Sets /\ new.name = name /\ named \in Seq(Sets) /\ Len(named) \in Nat /\ named' = Append(named, new)
  BY LenProperties DEF Sets, CodeRanges
<1> HIDE DEF new
<1> QED
  BY <1>1, AppendProperties

\* A dataset is found, is there by now, or is created.
LEMMA Creates ==
  ASSUME CodeRanges, NEW s \in Scripts, NEW next, FindOrCreate(s, next),
         \/ next = "fill" /\ doing[s] \in Pushing
         \/ next = "open" /\ doing[s] \in Holding
  PROVE  LET d == doing[s]  e == doing'[s]  k == doing[s].turn IN
         \/ UNCHANGED named /\ doing' \in [Scripts -> Doings] /\ e.stage = "failed"
         \/ /\ doing' \in [Scripts -> Doings]
            /\ e.stage = next /\ e.names = d.names /\ e.turn = k /\ (next = "fill" => e.id = d.id)
            /\ \/ UNCHANGED named /\ d.found[k] # 0 /\ e.found = d.found
               \/ /\ d.found[k] = 0 /\ named' = Append(named, [name |-> d.names[k], rows |-> {}])
                  /\ \A i \in 1..Len(named) : named[i].name # d.names[k]
                  /\ e.found = [d.found EXCEPT ![k] = Len(named) + 1]
<1> DEFINE d == doing[s]
           k == d.turn
           u == [d EXCEPT !.stage = next]
           more == [d.found EXCEPT ![k] = Len(named) + 1]
           v == [d EXCEPT !.stage = next, !.found = more]
           w == [stage |-> "failed"]
<1>1. Len(named) \in Nat /\ DOMAIN named = 1..Len(named)
  BY LenProperties DEF CodeRanges
<1>2. d.names \in NameLists /\ d.found \in [DOMAIN d.names -> Nat] /\ k \in DOMAIN d.names
  BY ListShapes
<1>3. more \in [DOMAIN d.names -> Nat]
  BY <1>1, <1>2
<1>4. more \in Seq(Nat) /\ DOMAIN more = DOMAIN d.names
  BY <1>2, <1>3, FoundLists
<1>5. [d EXCEPT !.stage = next, !.found[k] = Len(named) + 1] = v
  <2>1. CASE d \in Pushing
    BY <2>1 DEF Pushing
  <2>2. CASE d \in Holding
    BY <2>2 DEF Holding
  <2> QED
    BY <2>1, <2>2
<1> HIDE DEF more
<1>6. /\ u.stage = next /\ u.names = d.names /\ u.turn = k /\ u.found = d.found /\ (next = "fill" => u.id = d.id)
      /\ v.stage = next /\ v.names = d.names /\ v.turn = k /\ v.found = more /\ (next = "fill" => v.id = d.id)
      /\ u \in Doings /\ v \in Doings
  <2>1. CASE next = "fill" /\ d \in Pushing
    <3>1. u \in Pushing /\ v \in Pushing
      BY <1>4, <2>1 DEF Pushing, InTurn
    <3> QED
      BY <2>1, <3>1 DEF Pushing, Doings
  <2>2. CASE next = "open" /\ d \in Holding
    <3>1. u \in Holding /\ v \in Holding
      BY <1>4, <2>2 DEF Holding, InTurn
    <3> QED
      BY <2>2, <3>1 DEF Holding, Doings
  <2> QED
    BY <2>1, <2>2
<1>7. w \in Doings /\ w.stage = "failed"
  BY DEF Doings, Resting
<1> HIDE DEF u, v, w
<1>8. \A x : Goes(s, x) /\ x \in Doings => doing'[s] = x /\ doing' \in [Scripts -> Doings]
  BY GoesTo
<1>9. CASE d.found[k] # 0
  <2>1. Goes(s, u) /\ UNCHANGED named
    BY <1>9 DEF FindOrCreate, u
  <2> QED
    BY <1>6, <1>8, <1>9, <2>1
<1>10. CASE d.found[k] = 0 /\ \E i \in DOMAIN named : named[i].name = d.names[k]
  <2>1. Goes(s, w) /\ UNCHANGED named
    BY <1>10 DEF FindOrCreate, w
  <2> QED
    BY <1>7, <1>8, <2>1
<1>11. CASE d.found[k] = 0 /\ ~\E i \in DOMAIN named : named[i].name = d.names[k]
  <2>1. Goes(s, v) /\ named' = Append(named, [name |-> d.names[k], rows |-> {}])
    BY <1>5, <1>11 DEF FindOrCreate
  <2> QED
    BY <1>1, <1>6, <1>8, <1>11, <2>1 DEF more
<1> QED
  BY <1>9, <1>10, <1>11

\* Examples fill a dataset, and change nothing else of the list.
LEMMA Fills ==
  ASSUME CodeRanges, NEW s \in Scripts, PushExamples(s), doing[s] \in Pushing
  PROVE  /\ named' \in Seq(Sets) /\ Len(named') = Len(named)
         /\ \A i \in 1..Len(named) : /\ named'[i].name = named[i].name
                                     /\ named[i].rows \subseteq named'[i].rows
                                     /\ i = doing[s].found[doing[s].turn] => doing[s].id \in named'[i].rows
<1> DEFINE d == doing[s]
           n == d.found[d.turn]
<1>1. /\ named \in Seq(Sets) /\ Len(named) \in Nat /\ DOMAIN named = 1..Len(named)
      /\ \A i \in 1..Len(named) : named[i] \in Sets
      /\ d.id \in Nat
  BY LenProperties, ElementOfSeq DEF CodeRanges, Pushing
<1>2. named' = [named EXCEPT ![n].rows = @ \cup {d.id}]
  BY DEF PushExamples
<1> HIDE DEF n
<1>3. CASE n \in 1..Len(named)
  <2> DEFINE e == [named[n] EXCEPT !.rows = @ \cup {d.id}]
  <2>1. named[n] \in Sets
    BY <1>1, <1>3
  <2>2. e \in Sets /\ e.name = named[n].name /\ e.rows = named[n].rows \cup {d.id}
    BY <1>1, <2>1 DEF Sets
  <2>3. named' = [named EXCEPT ![n] = e]
    BY <1>1, <1>2, <1>3
  <2> HIDE DEF e
  <2> QED
    BY <1>1, <1>3, <2>2, <2>3, ExceptSeq DEF n
<1>4. CASE n \notin 1..Len(named)
  <2>1. named' = named
    BY <1>1, <1>2, <1>4
  <2> QED
    BY <1>1, <1>4, <2>1 DEF n
<1> QED
  BY <1>3, <1>4

\* A turn is passed to the next name, or the last was taken.
LEMMA TurnEnds ==
  ASSUME CodeRanges, NEW s \in Scripts, NEW next, Moves(s, next),
         \/ next = "relist" /\ doing[s] \in Pushing /\ doing[s].stage = "fill"
         \/ next = "pushed" /\ doing[s] \in Linking /\ doing[s].stage = "link"
  PROVE  LET d == doing[s]  e == doing'[s] IN
         /\ doing' \in [Scripts -> Doings]
         /\ e.names = d.names /\ e.found = d.found /\ e.id = d.id
         /\ next = "pushed" => e.into = d.into /\ e.slug = d.slug
         /\ \/ /\ d.turn < Len(d.names) /\ e.turn = d.turn + 1
               /\ e.stage = IF d.stage = "fill" THEN "make" ELSE d.stage
            \/ d.turn = Len(d.names) /\ e.turn = 1 /\ e.stage = next
<1> DEFINE d == doing[s]
           u == [d EXCEPT !.turn = d.turn + 1, !.stage = IF d.stage = "fill" THEN "make" ELSE d.stage]
           v == [d EXCEPT !.turn = 1, !.stage = next]
           w == IF d.turn < Len(d.names) THEN u ELSE v
<1>1. Len(d.names) \in Nat /\ DOMAIN d.names = 1..Len(d.names) /\ d.turn \in DOMAIN d.names
  BY ListShapes
<1>2. Goes(s, w)
  <2>1. [d EXCEPT !.turn = @ + 1, !.stage = IF @ = "fill" THEN "make" ELSE @] = u
    <3>1. CASE d \in Pushing
      BY <3>1 DEF Pushing
    <3>2. CASE d \in Linking
      BY <3>2 DEF Linking
    <3> QED
      BY <3>1, <3>2
  <2> HIDE DEF u
  <2> QED
    BY <2>1 DEF Moves
<1>3. CASE next = "relist" /\ d \in Pushing /\ d.stage = "fill"
  <2>1. w \in Pushing
    <3>1. u \in Pushing \/ ~(d.turn < Len(d.names))
      <4>1. "make" = IF d.stage = "fill" THEN "make" ELSE d.stage
        BY <1>3
      <4>2. CASE d.turn < Len(d.names)
        <5>1. d.turn + 1 \in DOMAIN d.names /\ d.turn + 1 \in Nat
          BY <1>1, <4>2
        <5>2. [d EXCEPT !.turn = d.turn + 1, !.stage = "make"] \in Pushing
          BY <1>3, <5>1 DEF Pushing, InTurn
        <5> QED
          BY <4>1, <5>2
      <4> QED
        BY <4>2
    <3>2. v \in Pushing
      <4>1. 1 \in DOMAIN d.names
        BY <1>1
      <4> QED
        BY <1>3, <4>1 DEF Pushing, InTurn
    <3> QED
      BY <3>1, <3>2
  <2>2. /\ w.names = d.names /\ w.found = d.found /\ w.id = d.id
        /\ d.turn < Len(d.names) => w.turn = d.turn + 1 /\ w.stage = "make"
        /\ ~(d.turn < Len(d.names)) => w.turn = 1 /\ w.stage = next
    BY <1>3 DEF Pushing
  <2>3. doing'[s] = w /\ doing' \in [Scripts -> Doings]
    BY <1>2, <2>1, GoesTo DEF Doings
  <2> HIDE DEF w
  <2> QED
    BY <1>1, <1>3, <2>2, <2>3
<1>4. CASE next = "pushed" /\ d \in Linking /\ d.stage = "link"
  <2>1. w \in Linking
    <3>1. u \in Linking \/ ~(d.turn < Len(d.names))
      <4>1. "link" = IF d.stage = "fill" THEN "make" ELSE d.stage
        BY <1>4
      <4>2. CASE d.turn < Len(d.names)
        <5>1. d.turn + 1 \in DOMAIN d.names /\ d.turn + 1 \in Nat
          BY <1>1, <4>2
        <5>2. [d EXCEPT !.turn = d.turn + 1, !.stage = "link"] \in Linking
          BY <1>4, <5>1 DEF Linking, InTurn
        <5> QED
          BY <4>1, <5>2
      <4> QED
        BY <4>2
    <3>2. v \in Linking
      <4>1. 1 \in DOMAIN d.names
        BY <1>1
      <4> QED
        BY <1>4, <4>1 DEF Linking, InTurn
    <3> QED
      BY <3>1, <3>2
  <2>2. /\ w.names = d.names /\ w.found = d.found /\ w.id = d.id /\ w.into = d.into /\ w.slug = d.slug
        /\ d.turn < Len(d.names) => w.turn = d.turn + 1 /\ w.stage = "link"
        /\ ~(d.turn < Len(d.names)) => w.turn = 1 /\ w.stage = next
    BY <1>4 DEF Linking
  <2>3. doing'[s] = w /\ doing' \in [Scripts -> Doings]
    BY <1>2, <2>1, GoesTo DEF Doings
  <2> HIDE DEF w
  <2> QED
    BY <1>1, <1>4, <2>2, <2>3
<1> QED
  BY <1>3, <1>4

\* What is declared is listed and not found yet.
LEMMA Declares ==
  ASSUME CodeRanges, ScorersInv, NEW s \in Scripts, BeginPush(s)
  PROVE  /\ begun' \in Nat /\ doing' \in [Scripts -> Doings] /\ doing'[s].stage = "scorer"
         /\ \E p \in Pushes : /\ doing'[s].slug = p.slug
                              /\ doing'[s].old = IF scorers[p.slug] = Nil THEN Nil ELSE scorers[p.slug].kind
<1>1. PICK p \in Pushes :
        Begins(s, [stage |-> "scorer", slug |-> p.slug, kind |-> p.kind, names |-> p.names,
                   id |-> begun + 1, turn |-> 1, found |-> [k \in DOMAIN p.names |-> 0],
                   old |-> IF scorers[p.slug] = Nil THEN Nil ELSE scorers[p.slug].kind])
  BY DEF BeginPush
<1> DEFINE old == IF scorers[p.slug] = Nil THEN Nil ELSE scorers[p.slug].kind
           none == [k \in DOMAIN p.names |-> 0]
           w == [stage |-> "scorer", slug |-> p.slug, kind |-> p.kind, names |-> p.names,
                 id |-> begun + 1, turn |-> 1, found |-> none, old |-> old]
<1>2. old \in Kinds \cup {Nil} /\ p.slug \in Slugs /\ p.kind \in Kinds /\ p.names \in NameLists \ {<<>>}
  BY NamesAssumption DEF ScorersInv, Kinds, Known, NameLists
<1>3. 1 \in DOMAIN p.names
  BY <1>2, EmptySeq, LenProperties DEF NameLists
<1>4. none \in Seq(Nat) /\ DOMAIN none = DOMAIN p.names
  <2>1. none \in [DOMAIN p.names -> Nat]
    OBVIOUS
  <2> QED
    BY <1>2, <2>1, FoundLists
<1>5. begun + 1 \in Nat /\ begun' = begun + 1
  BY <1>1 DEF CodeRanges, Begins
<1> HIDE DEF old, none
<1>6. w \in Pushing
  BY <1>2, <1>3, <1>4, <1>5 DEF Pushing, InTurn
<1>7. w.stage = "scorer" /\ w.slug = p.slug /\ w.old = old
  OBVIOUS
<1> HIDE DEF w
<1>8. Goes(s, w)
  BY <1>1 DEF Begins, w, old, none
<1>9. doing'[s] = w /\ doing' \in [Scripts -> Doings]
  BY <1>6, <1>8, GoesTo DEF Doings
<1> QED
  BY <1>5, <1>7, <1>9 DEF old

\* Every name is looked for.
LEMMA Listing ==
  ASSUME CodeRanges, NEW names \in NameLists
  PROVE  /\ OldestOf(names) \in Seq(Nat) /\ DOMAIN OldestOf(names) = DOMAIN names
         /\ \A k \in DOMAIN names : OldestOf(names)[k] = Oldest(names[k]) /\ names[k] \in Known
<1>1. \A k \in DOMAIN names : names[k] \in Known
  BY LenProperties, ElementOfSeq DEF NameLists
<1>2. OldestOf(names) \in [DOMAIN names -> Nat]
  BY <1>1, NamesFound DEF OldestOf
<1> QED
  BY <1>1, <1>2, FoundLists DEF OldestOf

LEMMA PushRanges ==
  ASSUME CodeRanges, ScorersInv, NEW s \in Scripts,
         \/ BeginPush(s) \/ PushScorer(s) \/ ReadDatasets(s) \/ PushDataset(s) \/ PushExamples(s)
         \/ ReadAgain(s) \/ AttachScorer(s)
  PROVE  CodeRanges'
<1> DEFINE d == doing[s]
<1>1. CASE BeginPush(s)
  BY <1>1, Declares DEF BeginPush, CodeRanges
<1>2. CASE PushScorer(s)
  <2>1. d \in Pushing /\ d.stage = "scorer"
    BY <1>2, StageShapes DEF PushScorer, At
  <2>2. [d EXCEPT !.stage = "datasets"] \in Doings /\ [stage |-> "failed"] \in Doings
    <3>1. d.turn = 1
      BY <2>1 DEF Pushing
    <3>2. [d EXCEPT !.stage = "datasets"] \in Pushing
      BY <2>1, <3>1 DEF Pushing, InTurn
    <3> QED
      BY <3>2 DEF Doings, Resting
  <2>4. Goes(s, [d EXCEPT !.stage = "datasets"]) \/ Goes(s, [stage |-> "failed"])
    BY <1>2 DEF PushScorer
  <2>5. doing' \in [Scripts -> Doings]
    BY <2>2, <2>4, GoesTo
  <2> QED
    BY <1>2, <2>5 DEF PushScorer, CodeRanges
<1>3. CASE ReadDatasets(s)
  <2>1. d \in Pushing
    BY <1>3, StageShapes DEF ReadDatasets, At
  <2> DEFINE found == OldestOf(d.names)
  <2>2. found \in Seq(Nat) /\ DOMAIN found = DOMAIN d.names
    BY <2>1, ListShapes, Listing
  <2> HIDE DEF found
  <2>3. [d EXCEPT !.stage = "make", !.found = found] \in Pushing
    BY <2>1, <2>2 DEF Pushing, InTurn
  <2>4. doing' \in [Scripts -> Doings]
    BY <1>3, <2>3, GoesTo DEF ReadDatasets, Doings, found
  <2> QED
    BY <1>3, <2>4 DEF ReadDatasets, CodeRanges
<1>4. CASE PushDataset(s)
  <2>1. d \in Pushing
    BY <1>4, StageShapes DEF PushDataset, At
  <2>2. FindOrCreate(s, "fill")
    BY <1>4 DEF PushDataset
  <2>3. d.names[d.turn] \in Known
    BY <2>1, ListShapes
  <2>4. named' \in Seq(Sets) /\ doing' \in [Scripts -> Doings]
    BY <2>1, <2>2, <2>3, Creates, Appended DEF CodeRanges
  <2> QED
    BY <1>4, <2>4 DEF PushDataset, CodeRanges
<1>5. CASE PushExamples(s)
  <2>1. d \in Pushing /\ d.stage = "fill"
    BY <1>5, StageShapes DEF PushExamples, At
  <2>2. doing' \in [Scripts -> Doings]
    BY <1>5, <2>1, TurnEnds DEF PushExamples
  <2>3. named' \in Seq(Sets)
    BY <1>5, <2>1, Fills
  <2> QED
    BY <1>5, <2>2, <2>3 DEF PushExamples, CodeRanges
<1>6. CASE ReadAgain(s)
  <2>1. d \in Pushing
    BY <1>6, StageShapes DEF ReadAgain, At
  <2> DEFINE found == OldestOf(d.names)
  <2>2. found \in Seq(Nat) /\ DOMAIN found = DOMAIN d.names
    BY <2>1, ListShapes, Listing
  <2>3. 1 \in DOMAIN d.names
    BY <2>1, ListShapes
  <2> HIDE DEF found
  <2>4. [stage |-> "link", slug |-> d.slug, names |-> d.names, id |-> d.id,
         into |-> d.found, turn |-> 1, found |-> found] \in Linking
    BY <2>1, <2>2, <2>3 DEF Pushing, Linking, InTurn
  <2>5. doing' \in [Scripts -> Doings]
    BY <1>6, <2>4, GoesTo DEF ReadAgain, Doings, found
  <2> QED
    BY <1>6, <2>5 DEF ReadAgain, CodeRanges
<1>7. CASE AttachScorer(s)
  <2>1. d \in Linking /\ d.stage = "link"
    BY <1>7, StageShapes DEF AttachScorer, At
  <2>2. doing' \in [Scripts -> Doings]
    BY <1>7, <2>1, TurnEnds DEF AttachScorer
  <2> QED
    BY <1>7, <2>2 DEF AttachScorer, CodeRanges
<1> QED
  BY <1>1, <1>2, <1>3, <1>4, <1>5, <1>6, <1>7

\* A dataset that the dashboard creates is one more, and the script is at rest.
LEMMA Creating ==
  ASSUME CodeRanges, NEW s \in Scripts, CreateDataset(s)
  PROVE  /\ CodeRanges' /\ Free(s) /\ doing'[s] = [stage |-> "idle"]
         /\ \E name \in Known :
              /\ named' = Append(named, [name |-> name, rows |-> {}])
              /\ apart' = IF Matches(name) # {} \/ Folded[name] \in PendingElse(s)
                            THEN apart \cup {Folded[name]} ELSE apart
<1>1. PICK name \in Known :
        /\ named' = Append(named, [name |-> name, rows |-> {}])
        /\ apart' = IF Matches(name) # {} \/ Folded[name] \in PendingElse(s)
                      THEN apart \cup {Folded[name]} ELSE apart
  BY DEF CreateDataset, Known
<1>2. Begins(s, [stage |-> "idle"]) /\ [stage |-> "idle"] \in Doings
  BY DEF CreateDataset, Doings, Resting
<1>3. doing'[s] = [stage |-> "idle"] /\ doing' \in [Scripts -> Doings] /\ begun' \in Nat
  BY <1>2, GoesTo DEF Begins, CodeRanges
<1>4. named' \in Seq(Sets)
  BY <1>1, Appended
<1>5. CodeRanges'
  BY <1>3, <1>4 DEF CreateDataset, CodeRanges
<1> QED
  BY <1>1, <1>2, <1>3, <1>5 DEF Begins

\* What a run may become: one of its fields is written, and it stays where it is.
LEMMA RunWritten ==
  ASSUME CodeRanges, NEW n \in 1..Len(runs), NEW r \in Locals, runs' = [runs EXCEPT ![n] = r]
  PROVE  /\ runs' \in Seq(Locals) /\ Len(runs') = Len(runs) /\ Len(runs) \in Nat
         /\ \A m \in 1..Len(runs) : runs'[m] = IF m = n THEN r ELSE runs[m]
BY ExceptSeq, LenProperties DEF CodeRanges

LEMMA RunsKept ==
  ASSUME CodeRanges
  PROVE  /\ Len(runs) \in Nat /\ DOMAIN runs = 1..Len(runs)
         /\ \A n \in 1..Len(runs) : runs[n] \in Locals
         /\ Len(named) \in Nat /\ DOMAIN named = 1..Len(named)
         /\ \A n \in 1..Len(named) : named[n] \in Sets
BY LenProperties, ElementOfSeq DEF CodeRanges

LEMMA Opens ==
  ASSUME CodeRanges, NEW s \in Scripts, OpenRun(s), doing[s] \in Holding
  PROVE  /\ runs' \in Seq(Locals) /\ Len(runs') = Len(runs) + 1
         /\ \A n \in 1..Len(runs) : runs'[n] = runs[n]
         /\ runs'[Len(runs) + 1] = Opening(doing[s].names[1], doing[s].found[1])
<1> DEFINE new == Opening(doing[s].names[1], doing[s].found[1])
<1>1. new \in Locals
  <2>1. doing[s].turn = 1 /\ doing[s].names[doing[s].turn] \in Known /\ doing[s].found[doing[s].turn] \in Nat
    BY ListShapes DEF Holding
  <2> QED
    BY <2>1 DEF Locals, Opening
<1>2. runs' = Append(runs, new) /\ runs \in Seq(Locals)
  BY DEF OpenRun, CodeRanges
<1> HIDE DEF new
<1>3. QED
  BY <1>1, <1>2, AppendProperties DEF new

\* A result is sent under a number of its own.
LEMMA Sends ==
  ASSUME CodeRanges, NEW s \in Scripts, PublishResult(s)
  PROVE  LET trace == Cardinality(jobs) + 1 IN
         /\ trace \in Nat \ {0} /\ trace \notin jobs /\ jobs' = jobs \cup {trace}
         /\ IsFiniteSet(jobs') /\ Cardinality(jobs') = trace /\ jobs' = 1..trace
<1> DEFINE trace == Cardinality(jobs) + 1
<1>1. /\ IsFiniteSet(jobs) /\ jobs = 1..Cardinality(jobs) /\ Cardinality(jobs) \in Nat
      /\ jobs' = jobs \cup {trace}
  BY DEF CodeRanges, PublishResult
<1>2. trace \in Nat \ {0} /\ trace \notin jobs
  BY <1>1
<1>3. IsFiniteSet(jobs') /\ Cardinality(jobs') = trace
  BY <1>1, <1>2, FS_AddElement
<1>4. jobs' = 1..trace
  BY <1>1, <1>2
<1> QED
  BY <1>1, <1>2, <1>3, <1>4

\* The items of a run are some of what was sent.
LEMMA ItemsCounted ==
  ASSUME CodeRanges, NEW n
  PROVE  ItemsOf(n) \subseteq jobs /\ IsFiniteSet(ItemsOf(n)) /\ Cardinality(ItemsOf(n)) \in Nat
<1>1. ItemsOf(n) \subseteq jobs /\ IsFiniteSet(jobs)
  BY DEF CodeRanges, ItemsOf
<1> QED
  BY <1>1, FS_Subset, FS_CardinalityType

\* The total is that of a batch, all of which is in the run.
LEMMA Totalled ==
  ASSUME CodeRanges, SendsInv, NEW s \in Scripts, SetTotal(s)
  PROVE  /\ runs' \in Seq(Locals) /\ Len(runs') = Len(runs)
         /\ \A n \in 1..Len(runs) :
              /\ runs'[n].name = runs[n].name /\ runs'[n].set = runs[n].set
              /\ runs'[n].status = runs[n].status /\ runs'[n].summary = runs[n].summary
              /\ runs'[n].total <= Cardinality(ItemsOf(n))
<1> DEFINE d == doing[s]
           r == [runs[d.run] EXCEPT !.total = Cardinality(d.batch)]
<1>1. d.run \in 1..Len(runs) /\ d.batch \subseteq ItemsOf(d.run)
  BY DEF SetTotal, At, SendsInv, SendFine
<1>2. Cardinality(d.batch) \in Nat /\ Cardinality(d.batch) <= Cardinality(ItemsOf(d.run))
  BY <1>1, ItemsCounted, FS_Subset, FS_CardinalityType
<1>3. runs[d.run] \in Locals
  BY <1>1, RunsKept
<1>4. r \in Locals /\ r.name = runs[d.run].name /\ r.set = runs[d.run].set /\ r.status = runs[d.run].status
      /\ r.summary = runs[d.run].summary /\ r.total <= Cardinality(ItemsOf(d.run))
  BY <1>2, <1>3 DEF Locals
<1>5. runs' = [runs EXCEPT ![d.run] = r]
  BY <1>1, RunsKept DEF SetTotal
<1> HIDE DEF r
<1>6. runs' \in Seq(Locals) /\ Len(runs') = Len(runs) /\ \A m \in 1..Len(runs) : runs'[m] = IF m = d.run THEN r ELSE runs[m]
  BY <1>1, <1>4, <1>5, RunWritten
<1> QED
  BY <1>4, <1>6 DEF SendsInv, RunsFine

\* A run that completes is one that showed no item.
LEMMA Finalizes ==
  ASSUME CodeRanges, SendsInv, NEW s \in Scripts, SummarizeAndFinalize(s)
  PROVE  /\ runs' \in Seq(Locals) /\ Len(runs') = Len(runs)
         /\ \A n \in 1..Len(runs) :
              /\ runs'[n].name = runs[n].name /\ runs'[n].set = runs[n].set
              /\ runs'[n].total = runs[n].total
              /\ runs'[n].status = "complete" => runs'[n].summary = 0
<1> DEFINE d == doing[s]
           summary == Cardinality(d.seen \cap graded)
           r == [runs[d.run] EXCEPT !.status = "complete", !.summary = summary]
           settled == ~Generating(d.seen) /\ summary >= Cardinality(d.seen) /\ d.status = "running"
<1>1. d.run \in 1..Len(runs) /\ d.seen \subseteq jobs
  BY DEF SummarizeAndFinalize, At, SendsInv, SendFine
<1>2. runs[d.run] \in Locals
  BY <1>1, RunsKept
<1>3. CASE settled
  <2>1. IsFiniteSet(d.seen) /\ Cardinality(d.seen) \in Nat
    BY <1>1, FS_Subset, FS_CardinalityType DEF CodeRanges
  <2>2. Cardinality(d.seen) = 0
    BY <1>3, <2>1 DEF Generating
  <2>3. d.seen \cap graded = {}
    BY <2>1, <2>2, FS_EmptySet
  <2>4. summary = 0
    BY <2>3, FS_EmptySet
  <2> HIDE DEF summary
  <2>5. r \in Locals /\ r.name = runs[d.run].name /\ r.set = runs[d.run].set /\ r.total = runs[d.run].total
        /\ r.summary = 0
    BY <1>2, <2>4 DEF Locals
  <2>6. runs' = [runs EXCEPT ![d.run] = r]
    BY <1>1, <1>3, RunsKept DEF SummarizeAndFinalize, summary
  <2> HIDE DEF r
  <2>7. runs' \in Seq(Locals) /\ Len(runs') = Len(runs) /\ \A m \in 1..Len(runs) : runs'[m] = IF m = d.run THEN r ELSE runs[m]
    BY <1>1, <2>5, <2>6, RunWritten
  <2> QED
    BY <2>5, <2>7 DEF SendsInv, RunsFine
<1>4. CASE ~settled
  <2>1. runs' = runs
    BY <1>4 DEF SummarizeAndFinalize
  <2> QED
    BY <2>1 DEF SendsInv, RunsFine, CodeRanges
<1> QED
  BY <1>3, <1>4

\* A report that was read says whether all of it was graded.
LEMMA Summarizing ==
  ASSUME CodeRanges, NEW s \in Scripts, SummarizeAndFinalize(s)
  PROVE  doing' \in [Scripts -> Doings] /\ doing'[s].stage = "reported"
<1> DEFINE d == doing[s]
           whole == d.seen # {} /\ d.seen \cap graded = d.seen
           w == [stage |-> "reported", run |-> d.run, whole |-> whole]
<1>1. d \in Reporting
  BY StageShapes DEF SummarizeAndFinalize
<1>2. Goes(s, w)
  BY DEF SummarizeAndFinalize
<1>3. whole \in BOOLEAN
  OBVIOUS
<1> HIDE DEF whole
<1>4. w \in Doings /\ w.stage = "reported"
  BY <1>1, <1>3 DEF Doings, Reporting, Reported
<1> QED
  BY <1>2, <1>4, GoesTo

\* A run looks for the one name it is on.
LEMMA Starting ==
  ASSUME CodeRanges, NEW s \in Scripts, StartRun(s)
  PROVE  /\ doing' \in [Scripts -> Doings] /\ begun' \in Nat /\ Free(s)
         /\ \E name \in Known : /\ doing'[s].stage = "hold" /\ doing'[s].names = <<name>>
                                /\ doing'[s].turn = 1 /\ doing'[s].found = <<Newest(name)>>
                                /\ Looks(s, <<name>>)
<1>1. PICK e \in LocalEvals :
        /\ Begins(s, [stage |-> "hold", names |-> <<e.name>>, turn |-> 1, found |-> <<Newest(e.name)>>])
        /\ Looks(s, <<e.name>>)
  BY DEF StartRun
<1>2. e.name \in Known /\ Newest(e.name) \in Nat
  BY NamesAssumption, NamesFound DEF Known
<1> DEFINE name == e.name
           found == <<Newest(name)>>
           names == <<name>>
           w == [stage |-> "hold", names |-> names, turn |-> 1, found |-> found]
<1>3. names \in NameLists /\ found \in Seq(Nat) /\ DOMAIN found = {1} /\ DOMAIN names = {1}
  BY <1>2 DEF NameLists
<1> HIDE DEF found, names
<1>4. w \in Holding
  BY <1>3 DEF Holding, InTurn
<1>5. w.stage = "hold" /\ w.names = names /\ w.turn = 1 /\ w.found = found
  OBVIOUS
<1> HIDE DEF w
<1>6. Begins(s, w)
  BY <1>1 DEF w, names, found
<1>7. doing'[s] = w /\ doing' \in [Scripts -> Doings] /\ begun' \in Nat /\ Free(s)
  BY <1>4, <1>6, GoesTo DEF Begins, CodeRanges, Doings
<1> QED
  BY <1>1, <1>2, <1>5, <1>7 DEF names, found

LEMMA RunRanges ==
  ASSUME CodeRanges, SendsInv, NEW s \in Scripts,
         \/ StartRun(s) \/ HoldDataset(s) \/ OpenRun(s) \/ BeginBatch(s) \/ PublishResult(s) \/ AddItems(s)
         \/ SetTotal(s) \/ FailBatch(s) \/ ReadRunReport(s) \/ SummarizeAndFinalize(s) \/ GradeJob
  PROVE  CodeRanges'
<1> DEFINE d == doing[s]
<1>0. [stage |-> "failed"] \in Doings /\ [stage |-> "idle"] \in Doings
  BY DEF Doings, Resting
<1>1. CASE StartRun(s)
  BY <1>1, Starting DEF StartRun, CodeRanges
<1>2. CASE HoldDataset(s)
  <2>1. d \in Holding
    BY <1>2, StageShapes DEF HoldDataset, At
  <2>2. FindOrCreate(s, "open")
    BY <1>2 DEF HoldDataset
  <2>3. d.names[d.turn] \in Known
    BY <2>1, ListShapes
  <2>4. named' \in Seq(Sets) /\ doing' \in [Scripts -> Doings]
    BY <2>1, <2>2, <2>3, Creates, Appended DEF CodeRanges
  <2> QED
    BY <1>2, <2>4 DEF HoldDataset, CodeRanges
<1>3. CASE OpenRun(s)
  <2>1. d \in Holding
    BY <1>3, StageShapes DEF OpenRun, At
  <2>2. doing' \in [Scripts -> Doings]
    BY <1>0, <1>3, GoesTo DEF OpenRun
  <2>3. runs' \in Seq(Locals)
    BY <1>3, <2>1, Opens
  <2> QED
    BY <1>3, <2>2, <2>3 DEF OpenRun, CodeRanges
<1>4. CASE BeginBatch(s)
  <2>1. PICK n \in DOMAIN runs, size \in 1..BatchSize :
          Begins(s, [stage |-> "post", run |-> n, left |-> size, batch |-> {}])
    BY <1>4 DEF BeginBatch
  <2>2. n \in Nat /\ size \in Nat
    BY NamesAssumption, RunsKept
  <2>3. [stage |-> "post", run |-> n, left |-> size, batch |-> {}] \in Doings
    BY <2>2 DEF Doings, Posting
  <2>4. doing' \in [Scripts -> Doings] /\ begun' \in Nat
    BY <2>1, <2>3, GoesTo DEF Begins, CodeRanges
  <2> QED
    BY <1>4, <2>4 DEF BeginBatch, CodeRanges
<1>5. CASE PublishResult(s)
  <2> DEFINE trace == Cardinality(jobs) + 1
             w == [d EXCEPT !.left = @ - 1, !.batch = @ \cup {trace}]
  <2>1. d \in Posting /\ d.left > 0
    BY <1>5, StageShapes DEF PublishResult, At
  <2>2. /\ trace \in Nat /\ jobs' = jobs \cup {trace}
        /\ IsFiniteSet(jobs') /\ Cardinality(jobs') = trace /\ jobs' = 1..trace
    BY <1>5, Sends
  <2>3. Goes(s, w)
    BY <1>5 DEF PublishResult
  <2>4. w \in Doings
    <3>1. d.left - 1 \in Nat /\ d.batch \cup {trace} \in SUBSET Nat
      BY <2>1, <2>2 DEF Posting
    <3> QED
      BY <2>1, <3>1 DEF Doings, Posting
  <2>5. doing' \in [Scripts -> Doings]
    BY <2>3, <2>4, GoesTo
  <2>6. items' \subseteq [run : Nat, trace : jobs']
    BY <1>5, <2>2 DEF PublishResult, CodeRanges
  <2> QED
    BY <1>5, <2>2, <2>5, <2>6 DEF PublishResult, CodeRanges
<1>6. CASE AddItems(s)
  <2>1. d \in Posting /\ d.batch \subseteq jobs /\ d.run \in Nat
    BY <1>6, StageShapes DEF AddItems, At, Posting, SendsInv, SendFine
  <2>2. [d EXCEPT !.stage = "total"] \in Doings
    BY <2>1 DEF Doings, Posting
  <2>3. doing' \in [Scripts -> Doings]
    BY <1>6, <2>2, GoesTo DEF AddItems
  <2>4. items' \subseteq [run : Nat, trace : jobs]
    BY <1>6, <2>1 DEF AddItems, CodeRanges
  <2> QED
    BY <1>6, <2>3, <2>4 DEF AddItems, CodeRanges
<1>7. CASE SetTotal(s)
  <2>1. d \in Posting
    BY <1>7, StageShapes DEF SetTotal, At
  <2>2. [d EXCEPT !.stage = "answered"] \in Doings
    BY <2>1 DEF Doings, Posting
  <2>3. doing' \in [Scripts -> Doings]
    BY <1>7, <2>2, GoesTo DEF SetTotal
  <2>4. runs' \in Seq(Locals)
    BY <1>7, Totalled
  <2> QED
    BY <1>7, <2>3, <2>4 DEF SetTotal, CodeRanges
<1>8. CASE FailBatch(s)
  <2>1. doing' \in [Scripts -> Doings]
    BY <1>0, <1>8, GoesTo DEF FailBatch
  <2>2. wasted' \subseteq jobs
    BY <1>8 DEF FailBatch, CodeRanges, SendsInv, SendFine
  <2> QED
    BY <1>8, <2>1, <2>2 DEF FailBatch, CodeRanges
<1>9. CASE ReadRunReport(s)
  <2>1. PICK n \in DOMAIN runs :
          Begins(s, [stage |-> "report", run |-> n, seen |-> ItemsOf(n), status |-> runs[n].status])
    BY <1>9 DEF ReadRunReport
  <2>2. n \in Nat /\ runs[n].status \in {"running", "complete"}
    BY RunsKept DEF Locals
  <2>3. ItemsOf(n) \in SUBSET Nat
    <3>1. \A i \in items : i.trace \in Nat
      BY DEF CodeRanges
    <3> QED
      BY <3>1 DEF ItemsOf
  <2>4. [stage |-> "report", run |-> n, seen |-> ItemsOf(n), status |-> runs[n].status] \in Doings
    BY <2>2, <2>3 DEF Doings, Reporting
  <2>5. doing' \in [Scripts -> Doings] /\ begun' \in Nat
    BY <2>1, <2>4, GoesTo DEF Begins, CodeRanges
  <2> QED
    BY <1>9, <2>5 DEF ReadRunReport, CodeRanges
<1>10. CASE SummarizeAndFinalize(s)
  <2>1. doing' \in [Scripts -> Doings]
    BY <1>10, Summarizing
  <2>2. runs' \in Seq(Locals)
    BY <1>10, Finalizes
  <2> QED
    BY <1>10, <2>1, <2>2 DEF SummarizeAndFinalize, CodeRanges
<1>11. CASE GradeJob
  BY <1>11 DEF GradeJob, CodeRanges
<1> QED
  BY <1>1, <1>2, <1>3, <1>4, <1>5, <1>6, <1>7, <1>8, <1>9, <1>10, <1>11


-----------------------------------------------------------------------------
(* Where a script goes next. *)

LEMMA NextStages ==
  ASSUME CodeRanges, NEW s \in Scripts
  PROVE  LET d == doing[s]  e == doing'[s] IN
         /\ CreateDataset(s) => Free(s) /\ e.stage = "idle"
         /\ BeginPush(s) => Free(s) /\ e.stage = "scorer"
         /\ PushScorer(s) => d \in Pushing /\ d.stage = "scorer" /\ e.stage \in {"datasets", "failed"}
         /\ ReadDatasets(s) => /\ d \in Pushing /\ d.stage = "datasets" /\ e.stage = "make"
                               /\ e.names = d.names /\ e.found = OldestOf(d.names) /\ e.turn = d.turn
         /\ PushDataset(s) => d \in Pushing /\ d.stage = "make" /\ e.stage \in {"fill", "failed"}
         /\ PushExamples(s) => /\ d \in Pushing /\ d.stage = "fill" /\ e.stage \in {"make", "relist"}
         /\ ReadAgain(s) => /\ d \in Pushing /\ d.stage = "relist" /\ e.stage = "link" /\ e.names = d.names
                            /\ e.id = d.id /\ e.into = d.found /\ e.found = OldestOf(d.names) /\ e.turn = 1
         /\ AttachScorer(s) => d \in Linking /\ d.stage = "link" /\ e.stage \in {"link", "pushed"}
         /\ StartRun(s) => Free(s) /\ e.stage = "hold"
         /\ HoldDataset(s) => d \in Holding /\ d.stage = "hold" /\ e.stage \in {"open", "failed"}
         /\ OpenRun(s) => d \in Holding /\ d.stage = "open" /\ e.stage = "idle"
         /\ BeginBatch(s) => e.stage = "post"
         /\ PublishResult(s) => e.stage = "post"
         /\ AddItems(s) => e.stage = "total"
         /\ SetTotal(s) => e.stage = "answered"
         /\ FailBatch(s) => e.stage = "failed"
         /\ ReadRunReport(s) => e.stage = "report"
         /\ SummarizeAndFinalize(s) => e.stage = "reported"
         /\ Free(s) => ~At(s, "post")
         /\ d.stage \in {"scorer", "datasets", "make", "fill", "relist", "link", "hold"} => ~At(s, "post")
<1> DEFINE d == doing[s]
<1>1. ASSUME PushScorer(s) PROVE d \in Pushing /\ d.stage = "scorer" /\ doing'[s].stage \in {"datasets", "failed"}
  <2>1. d.stage = "scorer" /\ d \in Pushing
    BY <1>1, StageShapes DEF PushScorer, At
  <2>2. [d EXCEPT !.stage = "datasets"].stage = "datasets" /\ [stage |-> "failed"].stage = "failed"
    BY <2>1 DEF Pushing
  <2>3. Goes(s, [d EXCEPT !.stage = "datasets"]) \/ Goes(s, [stage |-> "failed"])
    BY <1>1 DEF PushScorer
  <2> QED
    BY <2>1, <2>2, <2>3, GoesTo
<1>2. ASSUME ReadDatasets(s)
      PROVE  /\ d \in Pushing /\ d.stage = "datasets" /\ doing'[s].stage = "make"
             /\ doing'[s].names = d.names /\ doing'[s].found = OldestOf(d.names) /\ doing'[s].turn = d.turn
  <2>1. d.stage = "datasets" /\ d \in Pushing
    BY <1>2, StageShapes DEF ReadDatasets, At
  <2>2. doing'[s] = [d EXCEPT !.stage = "make", !.found = OldestOf(d.names)]
    BY <1>2, GoesTo DEF ReadDatasets
  <2> QED
    BY <2>1, <2>2 DEF Pushing
<1>3. ASSUME PushDataset(s) PROVE d \in Pushing /\ d.stage = "make" /\ doing'[s].stage \in {"fill", "failed"}
  <2>1. d \in Pushing /\ d.stage = "make"
    BY <1>3, StageShapes DEF PushDataset, At
  <2> QED
    BY <1>3, <2>1, Creates DEF PushDataset
<1>4. ASSUME PushExamples(s) PROVE d \in Pushing /\ d.stage = "fill" /\ doing'[s].stage \in {"make", "relist"}
  <2>1. d \in Pushing /\ d.stage = "fill"
    BY <1>4, StageShapes DEF PushExamples, At
  <2> QED
    BY <1>4, <2>1, TurnEnds DEF PushExamples
<1>5. ASSUME ReadAgain(s)
      PROVE  /\ d \in Pushing /\ d.stage = "relist" /\ doing'[s].stage = "link" /\ doing'[s].names = d.names
             /\ doing'[s].id = d.id /\ doing'[s].into = d.found /\ doing'[s].found = OldestOf(d.names)
             /\ doing'[s].turn = 1
  <2>1. d.stage = "relist" /\ d \in Pushing
    BY <1>5, StageShapes DEF ReadAgain, At
  <2>2. doing'[s] = [stage |-> "link", slug |-> d.slug, names |-> d.names, id |-> d.id,
                     into |-> d.found, turn |-> 1, found |-> OldestOf(d.names)]
    BY <1>5, GoesTo DEF ReadAgain
  <2> QED
    BY <2>1, <2>2
<1>6. ASSUME AttachScorer(s) PROVE d \in Linking /\ d.stage = "link" /\ doing'[s].stage \in {"link", "pushed"}
  <2>1. d \in Linking /\ d.stage = "link"
    BY <1>6, StageShapes DEF AttachScorer, At
  <2> QED
    BY <1>6, <2>1, TurnEnds DEF AttachScorer
<1>7. ASSUME HoldDataset(s) PROVE d \in Holding /\ d.stage = "hold" /\ doing'[s].stage \in {"open", "failed"}
  <2>1. d \in Holding /\ d.stage = "hold"
    BY <1>7, StageShapes DEF HoldDataset, At
  <2> QED
    BY <1>7, <2>1, Creates DEF HoldDataset
<1>8. ASSUME OpenRun(s) PROVE d \in Holding /\ d.stage = "open" /\ doing'[s].stage = "idle"
  BY <1>8, StageShapes, GoesTo DEF OpenRun, At
<1>9. CreateDataset(s) => Free(s) /\ doing'[s].stage = "idle"
  BY GoesTo DEF CreateDataset, Begins
<1>10. BeginPush(s) => Free(s) /\ doing'[s].stage = "scorer"
  BY GoesTo DEF BeginPush, Begins
<1>11. StartRun(s) => Free(s) /\ doing'[s].stage = "hold"
  BY Starting
<1>12. ASSUME BeginBatch(s) PROVE doing'[s].stage = "post"
  <2>1. PICK n \in DOMAIN runs, size \in 1..BatchSize :
          Begins(s, [stage |-> "post", run |-> n, left |-> size, batch |-> {}])
    BY <1>12 DEF BeginBatch
  <2> QED
    BY <2>1, GoesTo DEF Begins
<1>13. ASSUME PublishResult(s) PROVE doing'[s].stage = "post"
  <2>1. d.stage = "post" /\ d \in Posting
    BY <1>13, StageShapes DEF PublishResult, At
  <2>2. doing'[s] = [d EXCEPT !.left = @ - 1, !.batch = @ \cup {Cardinality(jobs) + 1}]
    BY <1>13, GoesTo DEF PublishResult
  <2> QED
    BY <2>1, <2>2 DEF Posting
<1>14. ASSUME AddItems(s) PROVE doing'[s].stage = "total"
  <2>1. d \in Posting
    BY <1>14, StageShapes DEF AddItems, At
  <2>2. doing'[s] = [d EXCEPT !.stage = "total"]
    BY <1>14, GoesTo DEF AddItems
  <2> QED
    BY <2>1, <2>2 DEF Posting
<1>15. ASSUME SetTotal(s) PROVE doing'[s].stage = "answered"
  <2>1. d \in Posting
    BY <1>15, StageShapes DEF SetTotal, At
  <2>2. doing'[s] = [d EXCEPT !.stage = "answered"]
    BY <1>15, GoesTo DEF SetTotal
  <2> QED
    BY <2>1, <2>2 DEF Posting
<1>16. FailBatch(s) => doing'[s].stage = "failed"
  BY GoesTo DEF FailBatch
<1>17. ASSUME ReadRunReport(s) PROVE doing'[s].stage = "report"
  <2>1. PICK n \in DOMAIN runs :
          Begins(s, [stage |-> "report", run |-> n, seen |-> ItemsOf(n), status |-> runs[n].status])
    BY <1>17 DEF ReadRunReport
  <2> QED
    BY <2>1, GoesTo DEF Begins
<1>18. SummarizeAndFinalize(s) => doing'[s].stage = "reported"
  BY Summarizing
<1>19. /\ Free(s) => ~At(s, "post")
       /\ d.stage \in {"scorer", "datasets", "make", "fill", "relist", "link", "hold"} => ~At(s, "post")
  BY DEF Free, At
<1> QED
  BY <1>1, <1>2, <1>3, <1>4, <1>5, <1>6, <1>7, <1>8, <1>9, <1>10, <1>11, <1>12, <1>13, <1>14, <1>15, <1>16,
     <1>17, <1>18, <1>19

\* Whatever it does, the others stay where they are.
LEMMA OthersStay ==
  ASSUME CodeRanges, NEW s \in Scripts,
         \/ CreateDataset(s) \/ BeginPush(s) \/ PushScorer(s) \/ ReadDatasets(s) \/ PushDataset(s) \/ PushExamples(s)
         \/ ReadAgain(s) \/ AttachScorer(s) \/ StartRun(s) \/ HoldDataset(s) \/ OpenRun(s)
         \/ BeginBatch(s) \/ PublishResult(s) \/ AddItems(s) \/ SetTotal(s) \/ FailBatch(s)
         \/ ReadRunReport(s) \/ SummarizeAndFinalize(s)
  PROVE  \A o \in Scripts \ {s} : doing'[o] = doing[o]
<1>1. CASE CreateDataset(s) \/ BeginPush(s) \/ StartRun(s) \/ BeginBatch(s) \/ ReadRunReport(s)
  <2>1. \E w : Goes(s, w)
    BY <1>1 DEF CreateDataset, BeginPush, StartRun, BeginBatch, ReadRunReport, Begins
  <2> QED
    BY <2>1, GoesTo
<1>2. CASE PushScorer(s) \/ ReadDatasets(s) \/ PushExamples(s) \/ ReadAgain(s) \/ AttachScorer(s) \/ OpenRun(s)
  <2>1. \E w : Goes(s, w)
    BY <1>2 DEF PushScorer, ReadDatasets, PushExamples, ReadAgain, AttachScorer, OpenRun, Moves
  <2> QED
    BY <2>1, GoesTo
<1>3. CASE PublishResult(s) \/ AddItems(s) \/ SetTotal(s) \/ FailBatch(s) \/ SummarizeAndFinalize(s)
  <2>1. \E w : Goes(s, w)
    BY <1>3 DEF PublishResult, AddItems, SetTotal, FailBatch, SummarizeAndFinalize
  <2> QED
    BY <2>1, GoesTo
<1>4. CASE PushDataset(s) \/ HoldDataset(s)
  <2>1. \E w : Goes(s, w)
    BY <1>4 DEF PushDataset, HoldDataset, FindOrCreate
  <2> QED
    BY <2>1, GoesTo
<1> QED
  BY <1>1, <1>2, <1>3, <1>4

-----------------------------------------------------------------------------
(* What is sent. *)

\* Steps that send and store nothing, of a script that had nothing under way.
LEMMA SendsFrame ==
  ASSUME CodeRanges, SendsInv, NEW s \in Scripts, UNCHANGED <<items, jobs, wasted>>,
         ~At(s, "post"), \A o \in Scripts \ {s} : doing'[o] = doing[o],
         Len(runs) \in Nat, Len(runs') \in Nat, Len(runs) <= Len(runs'), RunsFine',
         SendFine(s)', At(s, "post")' => doing'[s].batch = {}
  PROVE  SendsInv'
<1>1. \A n : ItemsOf(n)' = ItemsOf(n)
  BY DEF ItemsOf
<1>2. Recorded' = Recorded
  BY DEF Recorded
<1>3. \A o \in Scripts : SendFine(o)'
  <2> TAKE o \in Scripts
  <2>1. CASE o # s
    <3>1. doing'[o] = doing[o] /\ SendFine(o)
      BY <2>1 DEF SendsInv
    <3> QED
      BY <1>1, <1>2, <3>1 DEF SendFine, At
  <2> QED
    BY <2>1
<1>4. BatchesApart'
  <2> SUFFICES ASSUME NEW a \in Scripts, NEW b \in Scripts, a # b, At(a, "post")', At(b, "post")'
               PROVE  doing'[a].batch \cap doing'[b].batch = {}
    BY DEF BatchesApart, At
  <2>1. CASE a # s /\ b # s
    BY <2>1 DEF SendsInv, BatchesApart, At
  <2> QED
    BY <2>1
<1>5. ItemsFine'
  <2>1. \A t \in jobs : \/ t \in Recorded \cup wasted
                        \/ \E o \in Scripts : (At(o, "post") /\ t \in doing[o].batch)'
    <3> TAKE t \in jobs
    <3>1. \/ t \in Recorded \cup wasted
          \/ \E o \in Scripts : At(o, "post") /\ t \in doing[o].batch
      BY DEF SendsInv, ItemsFine
    <3> QED
      BY <3>1 DEF At
  <2> QED
    BY <1>2, <2>1 DEF SendsInv, ItemsFine
<1> QED
  BY <1>3, <1>4, <1>5 DEF SendsInv

\* What was stored for runs only grows.
LEMMA ItemsGrow ==
  ASSUME CodeRanges, CodeRanges', items \subseteq items', UNCHANGED runs, SendsInv
  PROVE  RunsFine'
<1> SUFFICES ASSUME NEW n \in 1..Len(runs)
             PROVE  runs[n].total <= Cardinality(ItemsOf(n)')
  BY DEF RunsFine, SendsInv
<1>1. ItemsOf(n) \subseteq ItemsOf(n)'
  BY DEF ItemsOf
<1>2. IsFiniteSet(ItemsOf(n)') /\ Cardinality(ItemsOf(n)') \in Nat
  <2>1. ItemsOf(n)' \subseteq jobs' /\ IsFiniteSet(jobs')
    BY DEF CodeRanges, ItemsOf
  <2> QED
    BY <2>1, FS_Subset, FS_CardinalityType
<1>3. Cardinality(ItemsOf(n)) <= Cardinality(ItemsOf(n)') /\ Cardinality(ItemsOf(n)) \in Nat
  BY <1>1, <1>2, FS_Subset, ItemsCounted
<1>4. runs[n].total \in Nat /\ runs[n].total <= Cardinality(ItemsOf(n))
  BY RunsKept DEF SendsInv, RunsFine, Locals
<1> QED
  BY <1>2, <1>3, <1>4

LEMMA PublishSends ==
  ASSUME CodeRanges, CodeRanges', SendsInv, NEW s \in Scripts, PublishResult(s)
  PROVE  SendsInv'
<1> DEFINE d == doing[s]
           trace == Cardinality(jobs) + 1
           w == [d EXCEPT !.left = @ - 1, !.batch = @ \cup {trace}]
<1>1. trace \notin jobs /\ jobs' = jobs \cup {trace} /\ UNCHANGED <<items, runs, wasted>>
  BY Sends DEF PublishResult
<1>2. At(s, "post") /\ d \in Posting /\ SendFine(s)
  BY StageShapes DEF PublishResult, SendsInv, At
<1>3. doing'[s] = w /\ \A o \in Scripts \ {s} : doing'[o] = doing[o]
  BY GoesTo DEF PublishResult
<1>4. w.stage = "post" /\ w.run = d.run /\ w.batch = d.batch \cup {trace}
  BY <1>2 DEF Posting, At
<1> HIDE DEF w, trace
<1>5. Recorded' = Recorded /\ Recorded \subseteq jobs /\ wasted \subseteq jobs /\ \A n : ItemsOf(n)' = ItemsOf(n)
  BY <1>1 DEF Recorded, ItemsOf, CodeRanges
<1>6. SendFine(s)'
  BY <1>1, <1>2, <1>3, <1>4, <1>5 DEF SendFine, At
<1>7. \A o \in Scripts : SendFine(o)'
  <2> TAKE o \in Scripts
  <2>1. CASE o # s
    <3>1. doing'[o] = doing[o] /\ SendFine(o)
      BY <1>3, <2>1 DEF SendsInv
    <3> QED
      BY <1>1, <1>5, <3>1 DEF SendFine, At
  <2> QED
    BY <1>6, <2>1
<1>8. BatchesApart'
  <2> SUFFICES ASSUME NEW a \in Scripts, NEW b \in Scripts, a # b, At(a, "post")', At(b, "post")'
               PROVE  doing'[a].batch \cap doing'[b].batch = {}
    BY DEF BatchesApart, At
  <2>1. \A o \in Scripts \ {s} : At(o, "post")' => trace \notin doing'[o].batch /\ doing'[o] = doing[o] /\ At(o, "post")
                                                   /\ doing[o].batch \cap d.batch = {}
    BY <1>1, <1>2, <1>3 DEF At, SendsInv, SendFine, BatchesApart
  <2>2. CASE a # s /\ b # s
    BY <2>1, <2>2 DEF SendsInv, BatchesApart
  <2>3. CASE a = s
    BY <1>3, <1>4, <2>1, <2>3
  <2>4. CASE b = s
    BY <1>3, <1>4, <2>1, <2>4
  <2> QED
    BY <2>2, <2>3, <2>4
<1>9. ItemsFine'
  <2>1. \A t \in jobs' : \/ t \in Recorded \cup wasted
                         \/ \E o \in Scripts : (At(o, "post") /\ t \in doing[o].batch)'
    <3> TAKE t \in jobs'
    <3>1. CASE t = trace
      BY <1>3, <1>4, <3>1 DEF At
    <3>2. CASE t \in jobs
      <4>1. CASE t \in Recorded \cup wasted
        BY <4>1
      <4>2. CASE \E o \in Scripts : At(o, "post") /\ t \in doing[o].batch
        <5>1. PICK o \in Scripts : At(o, "post") /\ t \in doing[o].batch
          BY <4>2
        <5>2. (At(o, "post") /\ t \in doing[o].batch)'
          BY <1>2, <1>3, <1>4, <5>1 DEF At
        <5> QED
          BY <5>2
      <4> QED
        BY <3>2, <4>1, <4>2 DEF SendsInv, ItemsFine
    <3> QED
      BY <1>1, <3>1, <3>2
  <2> QED
    BY <1>1, <1>5, <2>1 DEF SendsInv, ItemsFine
<1>10. RunsFine'
  BY <1>1, ItemsGrow
<1> QED
  BY <1>7, <1>8, <1>9, <1>10 DEF SendsInv

LEMMA AddSends ==
  ASSUME CodeRanges, CodeRanges', SendsInv, NEW s \in Scripts, AddItems(s)
  PROVE  SendsInv'
<1> DEFINE d == doing[s]
           w == [d EXCEPT !.stage = "total"]
           new == {[run |-> d.run, trace |-> t] : t \in d.batch}
<1>1. items' = items \cup new /\ UNCHANGED <<jobs, runs, wasted>>
  BY DEF AddItems
<1>2. At(s, "post") /\ d \in Posting /\ SendFine(s)
  BY StageShapes DEF AddItems, SendsInv, At
<1>3. doing'[s] = w /\ \A o \in Scripts \ {s} : doing'[o] = doing[o]
  BY GoesTo DEF AddItems
<1>4. w.stage = "total" /\ w.run = d.run /\ w.batch = d.batch
  BY <1>2 DEF Posting, At
<1> HIDE DEF w
<1>5. /\ Recorded' = Recorded \cup d.batch
      /\ \A n : ItemsOf(n) \subseteq ItemsOf(n)'
      /\ \A n : n = d.run => d.batch \subseteq ItemsOf(n)'
  <2>1. /\ \A x \in new : x.trace \in d.batch /\ x.run = d.run
        /\ \A t \in d.batch : \E x \in new : x.trace = t /\ x.run = d.run
    <3>1. \A t \in d.batch : [run |-> d.run, trace |-> t] \in new
      OBVIOUS
    <3>2. \A x \in new : x.trace \in d.batch /\ x.run = d.run
      OBVIOUS
    <3> HIDE DEF new
    <3>3. \A t \in d.batch : \E x \in new : x.trace = t /\ x.run = d.run
      <4> TAKE t \in d.batch
      <4> DEFINE x == [run |-> d.run, trace |-> t]
      <4>1. x \in new /\ x.trace = t /\ x.run = d.run
        BY <3>1
      <4> QED
        BY <4>1
    <3> QED
      BY <3>2, <3>3
  <2> HIDE DEF new
  <2>2. Recorded' = Recorded \cup d.batch
    BY <1>1, <2>1 DEF Recorded
  <2>3. \A n : ItemsOf(n) \subseteq ItemsOf(n)' /\ (n = d.run => d.batch \subseteq ItemsOf(n)')
    BY <1>1, <2>1 DEF ItemsOf
  <2> QED
    BY <2>2, <2>3
<1>6. SendFine(s)'
  <2>1. doing'[s].run = d.run /\ doing'[s].batch = d.batch /\ doing'[s].stage = "total"
    BY <1>3, <1>4
  <2>2. d.batch \subseteq ItemsOf(doing[s].run)'
    BY <1>5, <2>1
  <2> QED
    BY <1>1, <1>2, <2>1, <2>2 DEF SendFine, At
<1>7. \A o \in Scripts \ {s} : At(o, "post") => doing[o].batch \cap d.batch = {}
  BY <1>2 DEF SendsInv, BatchesApart
<1>8. \A o \in Scripts : SendFine(o)'
  <2> TAKE o \in Scripts
  <2>1. CASE o # s
    <3>1. doing'[o] = doing[o] /\ SendFine(o)
      BY <1>3, <2>1 DEF SendsInv
    <3> QED
      BY <1>1, <1>5, <1>7, <2>1, <3>1 DEF SendFine, At
  <2> QED
    BY <1>6, <2>1
<1>9. BatchesApart'
  <2>1. \A o \in Scripts : At(o, "post")' => o # s /\ doing'[o] = doing[o] /\ At(o, "post")
    BY <1>3, <1>4 DEF At
  <2> QED
    BY <2>1 DEF SendsInv, BatchesApart, At
<1>10. ItemsFine'
  <2>1. \A t \in jobs : \/ t \in Recorded \cup d.batch \cup wasted
                        \/ \E o \in Scripts : (At(o, "post") /\ t \in doing[o].batch)'
    <3> TAKE t \in jobs
    <3>1. CASE \E o \in Scripts : At(o, "post") /\ t \in doing[o].batch
      BY <1>3, <3>1 DEF At
    <3> QED
      BY <3>1 DEF SendsInv, ItemsFine
  <2>2. \A i, j \in items' : i.trace = j.trace => i = j
    <3> SUFFICES ASSUME NEW i \in items', NEW j \in items', i.trace = j.trace PROVE i = j
      OBVIOUS
    <3>1. \A x \in items : x.trace \notin d.batch
      BY <1>2 DEF SendFine, Recorded
    <3>2. \A x \in new : x.trace \in d.batch /\ x = [run |-> d.run, trace |-> x.trace]
      OBVIOUS
    <3> HIDE DEF new
    <3> QED
      BY <1>1, <3>1, <3>2 DEF SendsInv, ItemsFine
  <2>3. wasted \cap d.batch = {}
    BY <1>2 DEF SendFine
  <2> QED
    BY <1>1, <1>5, <2>1, <2>2, <2>3 DEF SendsInv, ItemsFine
<1>11. RunsFine'
  BY <1>1, ItemsGrow
<1> QED
  BY <1>8, <1>9, <1>10, <1>11 DEF SendsInv

LEMMA FailSends ==
  ASSUME CodeRanges, CodeRanges', SendsInv, NEW s \in Scripts, FailBatch(s)
  PROVE  SendsInv'
<1> DEFINE d == doing[s]
<1>1. UNCHANGED <<items, jobs, runs>> /\ wasted' = IF At(s, "post") THEN wasted \cup d.batch ELSE wasted
  BY DEF FailBatch
<1>2. doing'[s] = [stage |-> "failed"] /\ \A o \in Scripts \ {s} : doing'[o] = doing[o]
  BY GoesTo DEF FailBatch
<1>3. Recorded' = Recorded /\ \A n : ItemsOf(n)' = ItemsOf(n)
  BY <1>1 DEF Recorded, ItemsOf
<1>4. \A o \in Scripts \ {s} : At(s, "post") /\ At(o, "post") => doing[o].batch \cap d.batch = {}
  BY DEF SendsInv, BatchesApart
<1>5. At(s, "post") => d.batch \cap Recorded = {}
  BY DEF SendsInv, SendFine
<1>6. \A o \in Scripts : SendFine(o)'
  <2> TAKE o \in Scripts
  <2>1. CASE o # s
    <3>1. doing'[o] = doing[o] /\ SendFine(o)
      BY <1>2, <2>1 DEF SendsInv
    <3> QED
      BY <1>1, <1>3, <1>4, <2>1, <3>1 DEF SendFine, At
  <2>2. CASE o = s
    BY <1>2, <2>2 DEF SendFine, At
  <2> QED
    BY <2>1, <2>2
<1>7. BatchesApart'
  <2>1. \A o \in Scripts : At(o, "post")' => o # s /\ doing'[o] = doing[o] /\ At(o, "post")
    BY <1>2 DEF At
  <2> QED
    BY <2>1 DEF SendsInv, BatchesApart, At
<1>8. ItemsFine'
  <2>1. \A t \in jobs : \/ t \in Recorded \cup wasted'
                        \/ \E o \in Scripts : (At(o, "post") /\ t \in doing[o].batch)'
    <3> TAKE t \in jobs
    <3>1. CASE \E o \in Scripts : At(o, "post") /\ t \in doing[o].batch
      BY <1>1, <1>2, <3>1 DEF At
    <3> QED
      BY <1>1, <3>1 DEF SendsInv, ItemsFine
  <2> QED
    BY <1>1, <1>3, <1>5, <2>1 DEF SendsInv, ItemsFine
<1>9. RunsFine'
  BY <1>1, ItemsGrow
<1> QED
  BY <1>6, <1>7, <1>8, <1>9 DEF SendsInv


LEMMA SendsStep ==
  ASSUME CodeRanges, CodeRanges', SendsInv, NEW s \in Scripts,
         \/ CreateDataset(s) \/ BeginPush(s) \/ PushScorer(s) \/ ReadDatasets(s) \/ PushDataset(s) \/ PushExamples(s)
         \/ ReadAgain(s) \/ AttachScorer(s) \/ StartRun(s) \/ HoldDataset(s) \/ OpenRun(s)
         \/ BeginBatch(s) \/ PublishResult(s) \/ AddItems(s) \/ SetTotal(s) \/ FailBatch(s)
         \/ ReadRunReport(s) \/ SummarizeAndFinalize(s) \/ GradeJob
  PROVE  SendsInv'
<1> DEFINE d == doing[s]
<1>0. Len(runs) \in Nat /\ Len(runs) <= Len(runs)
  BY RunsKept
<1>1. CASE \/ CreateDataset(s) \/ BeginPush(s) \/ PushScorer(s) \/ ReadDatasets(s) \/ PushDataset(s) \/ PushExamples(s)
           \/ ReadAgain(s) \/ AttachScorer(s) \/ StartRun(s) \/ HoldDataset(s)
  <2>1. UNCHANGED <<items, jobs, wasted, runs>>
    BY <1>1 DEF CreateDataset, BeginPush, PushScorer, ReadDatasets, PushDataset, PushExamples, ReadAgain,
       AttachScorer, StartRun, HoldDataset
  <2>2. ~At(s, "post") /\ doing'[s].stage \notin {"post", "total", "answered", "report"}
    BY <1>1, NextStages
  <2>3. \A o \in Scripts \ {s} : doing'[o] = doing[o]
    BY <1>1, OthersStay
  <2>4. SendFine(s)' /\ (At(s, "post")' => doing'[s].batch = {})
    BY <2>2 DEF SendFine, At
  <2>5. RunsFine'
    BY <2>1, ItemsGrow
  <2> QED
    BY <1>0, <2>1, <2>2, <2>3, <2>4, <2>5, SendsFrame
<1>2. CASE OpenRun(s)
  <2>1. d \in Holding /\ At(s, "open")
    BY <1>2, StageShapes DEF OpenRun, At
  <2>2. doing'[s] = [stage |-> "idle"] /\ \A o \in Scripts \ {s} : doing'[o] = doing[o]
    BY <1>2, GoesTo DEF OpenRun
  <2>3. /\ Len(runs') = Len(runs) + 1
        /\ \A n \in 1..Len(runs) : runs'[n] = runs[n]
        /\ runs'[Len(runs) + 1] = Opening(d.names[1], d.found[1])
    BY <1>2, <2>1, Opens
  <2>4. UNCHANGED <<items, jobs, wasted>>
    BY <1>2 DEF OpenRun
  <2>5. \A n : ItemsOf(n)' = ItemsOf(n) /\ Cardinality(ItemsOf(n)) \in Nat
    BY <2>4, ItemsCounted DEF ItemsOf
  <2>6. RunsFine'
    <3> SUFFICES ASSUME NEW n \in 1..(Len(runs) + 1)
                 PROVE  /\ runs'[n].total <= Cardinality(ItemsOf(n))
                        /\ runs'[n].status = "complete" => runs'[n].summary = 0
      BY <2>3, <2>5 DEF RunsFine
    <3>1. CASE n \in 1..Len(runs)
      BY <2>3, <3>1 DEF SendsInv, RunsFine
    <3>2. CASE n = Len(runs) + 1
      BY <2>3, <2>5, <3>2 DEF Opening
    <3> QED
      BY <1>0, <3>1, <3>2
  <2>7. SendFine(s)' /\ (At(s, "post")' => doing'[s].batch = {}) /\ ~At(s, "post")
    BY <2>1, <2>2 DEF SendFine, At
  <2> QED
    BY <1>0, <2>2, <2>3, <2>4, <2>6, <2>7, SendsFrame
<1>3. CASE BeginBatch(s)
  <2>1. PICK n \in DOMAIN runs, size \in 1..BatchSize :
          Begins(s, [stage |-> "post", run |-> n, left |-> size, batch |-> {}])
    BY <1>3 DEF BeginBatch
  <2>2. /\ doing'[s] = [stage |-> "post", run |-> n, left |-> size, batch |-> {}]
        /\ \A o \in Scripts \ {s} : doing'[o] = doing[o]
    BY <2>1, GoesTo DEF Begins
  <2>3. UNCHANGED <<items, jobs, wasted, runs>> /\ ~At(s, "post")
    BY <1>3, <2>1 DEF BeginBatch, Begins, Free, At
  <2>4. SendFine(s)' /\ doing'[s].batch = {}
    BY <2>2, <2>3, RunsKept DEF SendFine, At
  <2>5. RunsFine'
    BY <2>3, ItemsGrow
  <2> QED
    BY <1>0, <2>2, <2>3, <2>4, <2>5, SendsFrame
<1>4. CASE PublishResult(s)
  BY <1>4, PublishSends
<1>5. CASE AddItems(s)
  BY <1>5, AddSends
<1>6. CASE SetTotal(s)
  <2>1. d \in Posting /\ At(s, "total") /\ SendFine(s)
    BY <1>6, StageShapes DEF SetTotal, At, SendsInv
  <2>2. doing'[s] = [d EXCEPT !.stage = "answered"] /\ \A o \in Scripts \ {s} : doing'[o] = doing[o]
    BY <1>6, GoesTo DEF SetTotal
  <2>3. UNCHANGED <<items, jobs, wasted>>
    BY <1>6 DEF SetTotal
  <2>4. \A n : ItemsOf(n)' = ItemsOf(n)
    BY <2>3 DEF ItemsOf
  <2>5. doing'[s].stage = "answered" /\ doing'[s].run = d.run /\ doing'[s].batch = d.batch
    BY <2>1, <2>2 DEF Posting
  <2>6. Len(runs') = Len(runs) /\ RunsFine'
    <3>1. /\ Len(runs') = Len(runs)
          /\ \A n \in 1..Len(runs) : /\ runs'[n].status = runs[n].status /\ runs'[n].summary = runs[n].summary
                                     /\ runs'[n].total <= Cardinality(ItemsOf(n))
      BY <1>6, Totalled
    <3> QED
      BY <2>4, <3>1 DEF RunsFine, SendsInv
  <2>7. SendFine(s)'
    BY <2>1, <2>4, <2>5, <2>6 DEF SendFine, At
  <2> QED
    BY <1>0, <2>1, <2>2, <2>3, <2>5, <2>6, <2>7, SendsFrame DEF At
<1>7. CASE FailBatch(s)
  BY <1>7, FailSends
<1>8. CASE ReadRunReport(s)
  <2>1. PICK n \in DOMAIN runs :
          Begins(s, [stage |-> "report", run |-> n, seen |-> ItemsOf(n), status |-> runs[n].status])
    BY <1>8 DEF ReadRunReport
  <2>2. /\ doing'[s] = [stage |-> "report", run |-> n, seen |-> ItemsOf(n), status |-> runs[n].status]
        /\ \A o \in Scripts \ {s} : doing'[o] = doing[o]
    BY <2>1, GoesTo DEF Begins
  <2>3. UNCHANGED <<items, jobs, wasted, runs>> /\ ~At(s, "post")
    BY <1>8, <2>1 DEF ReadRunReport, Begins, Free, At
  <2>4. SendFine(s)' /\ ~At(s, "post")'
    BY <2>2, <2>3, RunsKept, ItemsCounted DEF SendFine, At
  <2>5. RunsFine'
    BY <2>3, ItemsGrow
  <2> QED
    BY <1>0, <2>2, <2>3, <2>4, <2>5, SendsFrame
<1>9. CASE SummarizeAndFinalize(s)
  <2>1. At(s, "report") /\ doing'[s].stage = "reported" /\ \A o \in Scripts \ {s} : doing'[o] = doing[o]
    BY <1>9, Summarizing, OthersStay DEF SummarizeAndFinalize
  <2>2. UNCHANGED <<items, jobs, wasted>>
    BY <1>9 DEF SummarizeAndFinalize
  <2>3. \A n : ItemsOf(n)' = ItemsOf(n)
    BY <2>2 DEF ItemsOf
  <2>4. Len(runs') = Len(runs) /\ RunsFine'
    <3>1. /\ Len(runs') = Len(runs)
          /\ \A n \in 1..Len(runs) : /\ runs'[n].total = runs[n].total
                                     /\ runs'[n].status = "complete" => runs'[n].summary = 0
      BY <1>9, Finalizes
    <3>2. \A n \in 1..Len(runs) : runs[n].total <= Cardinality(ItemsOf(n))
      BY DEF RunsFine, SendsInv
    <3>3. \A n \in 1..Len(runs) : runs'[n].total <= Cardinality(ItemsOf(n))
      BY <3>1, <3>2
    <3> QED
      BY <2>3, <3>1, <3>3 DEF RunsFine
  <2>5. SendFine(s)' /\ ~At(s, "post")' /\ ~At(s, "post")
    BY <2>1 DEF SendFine, At
  <2> QED
    BY <1>0, <2>1, <2>2, <2>4, <2>5, SendsFrame
<1>10. CASE GradeJob
  <2>1. UNCHANGED <<items, jobs, wasted, runs, doing>>
    BY <1>10 DEF GradeJob
  <2> QED
    BY <2>1 DEF SendsInv, SendFine, BatchesApart, ItemsFine, RunsFine, At, ItemsOf, Recorded
<1> QED
  BY <1>1, <1>2, <1>3, <1>4, <1>5, <1>6, <1>7, <1>8, <1>9, <1>10

LEMMA SendsBegin == ASSUME CodeInit PROVE SendsInv
<1>1. /\ \A s \in Scripts : doing[s] = [stage |-> "idle"]
      /\ items = {} /\ jobs = {}
  BY DEF CodeInit
<1>2. \A s \in Scripts : doing[s].stage = "idle"
  BY <1>1
<1>3. RunsFine
  <2>1. PICK names \in Opened : runs = [n \in DOMAIN names |-> Opening(names[n], n)]
    BY DEF CodeInit
  <2>2. \A n \in DOMAIN runs : runs[n].total = 0 /\ runs[n].status = "running"
    BY <2>1 DEF Opening
  <2>3. CodeRanges
    BY CodeInitRanges
  <2>4. \A n : Cardinality(ItemsOf(n)) \in Nat
    BY <2>3, ItemsCounted
  <2>5. DOMAIN runs = 1..Len(runs)
    BY <2>3, RunsKept
  <2> QED
    BY <2>2, <2>4, <2>5 DEF RunsFine
<1> QED
  BY <1>1, <1>2, <1>3 DEF SendsInv, SendFine, BatchesApart, ItemsFine, At, Recorded


-----------------------------------------------------------------------------
(* Scorers. *)

LEMMA ScorersStep ==
  ASSUME CodeRanges, ScorersInv, NEW s \in Scripts,
         \/ CreateDataset(s) \/ BeginPush(s) \/ PushScorer(s) \/ ReadDatasets(s) \/ PushDataset(s) \/ PushExamples(s)
         \/ ReadAgain(s) \/ AttachScorer(s) \/ StartRun(s) \/ HoldDataset(s) \/ OpenRun(s)
         \/ BeginBatch(s) \/ PublishResult(s) \/ AddItems(s) \/ SetTotal(s) \/ FailBatch(s)
         \/ ReadRunReport(s) \/ SummarizeAndFinalize(s)
  PROVE  ScorersInv'
<1> DEFINE d == doing[s]
<1>1. \A o \in Scripts \ {s} : doing'[o] = doing[o]
  BY OthersStay
<1>2. CASE BeginPush(s)
  <2>2. \E p \in Pushes : /\ doing'[s].slug = p.slug
                         /\ doing'[s].old = IF scorers[p.slug] = Nil THEN Nil ELSE scorers[p.slug].kind
    BY <1>2, Declares
  <2>3. UNCHANGED scorers
    BY <1>2 DEF BeginPush
  <2> QED
    BY <1>1, <2>2, <2>3 DEF ScorersInv, At
<1>3. CASE PushScorer(s)
  <2>1. d \in Pushing /\ d.stage = "scorer" /\ doing'[s].stage # "scorer"
    BY <1>3, NextStages
  <2>2. d.slug \in Slugs /\ d.kind \in Kinds
    BY <2>1 DEF Pushing
  <2>3. CASE scorers' = scorers
    BY <1>1, <2>1, <2>3 DEF ScorersInv, At
  <2>4. CASE scorers' # scorers
    <3> DEFINE w == [kind |-> IF d.old = Nil THEN d.kind ELSE scorers[d.slug].kind, body |-> d.kind]
    <3>1. scorers' = [scorers EXCEPT ![d.slug] = w] /\ d.old \in {Nil, d.kind}
          /\ ~(d.old = Nil /\ scorers[d.slug] # Nil)
      BY <1>3, <2>4 DEF PushScorer, MayWrite
    <3>2. d.old # Nil => scorers[d.slug] # Nil /\ scorers[d.slug].kind = d.old
      BY <2>1 DEF ScorersInv, At
    <3>3. w = [kind |-> d.kind, body |-> d.kind]
      BY <3>1, <3>2
    <3> HIDE DEF w
    <3>4. w \in [kind : Kinds, body : Kinds] /\ w.kind = d.kind /\ w.body = d.kind /\ w # Nil
      BY <2>2, <3>3, NilAssumption
    <3>5. /\ scorers' \in [Slugs -> [kind : Kinds, body : Kinds] \cup {Nil}]
          /\ \A x \in Slugs : scorers'[x] = IF x = d.slug THEN w ELSE scorers[x]
      BY <2>2, <3>1, <3>4 DEF ScorersInv
    <3>6. scorers[d.slug] # Nil => scorers[d.slug].kind = d.kind
      BY <3>1, <3>2
    <3>7. ASSUME NEW o \in Scripts, At(o, "scorer")', doing'[o].old # Nil
          PROVE  scorers'[doing'[o].slug] # Nil /\ scorers'[doing'[o].slug].kind = doing'[o].old
      <4>1. o # s /\ doing'[o] = doing[o] /\ At(o, "scorer")
        BY <1>1, <2>1, <3>7 DEF At
      <4>2. scorers[doing[o].slug] # Nil /\ scorers[doing[o].slug].kind = doing[o].old
        BY <3>7, <4>1 DEF ScorersInv
      <4>3. doing[o].slug \in Slugs
        BY <4>1, StageShapes DEF At, Pushing
      <4> QED
        BY <3>4, <3>5, <3>6, <4>1, <4>2, <4>3
    <3> QED
      BY <3>4, <3>5, <3>7 DEF ScorersInv, At
  <2> QED
    BY <2>3, <2>4
<1>4. ASSUME UNCHANGED scorers, doing'[s].stage # "scorer" PROVE ScorersInv'
  BY <1>1, <1>4 DEF ScorersInv, At
<1>5. CASE \/ CreateDataset(s) \/ ReadDatasets(s) \/ PushDataset(s) \/ PushExamples(s) \/ ReadAgain(s) \/ AttachScorer(s)
           \/ StartRun(s) \/ HoldDataset(s) \/ OpenRun(s) \/ BeginBatch(s) \/ PublishResult(s) \/ AddItems(s)
           \/ SetTotal(s) \/ FailBatch(s) \/ ReadRunReport(s) \/ SummarizeAndFinalize(s)
  <2>1. UNCHANGED scorers
    BY <1>5 DEF CreateDataset, ReadDatasets, PushDataset, PushExamples, ReadAgain, AttachScorer, StartRun, HoldDataset,
       OpenRun, BeginBatch, PublishResult, AddItems, SetTotal, FailBatch, ReadRunReport, SummarizeAndFinalize
  <2>2. doing'[s].stage # "scorer"
    BY <1>5, NextStages
  <2> QED
    BY <1>4, <2>1, <2>2
<1> QED
  BY <1>2, <1>3, <1>5


-----------------------------------------------------------------------------
(* Names. *)

\* Names stay when examples are added, so what they find stays.
LEMMA SameMatches ==
  ASSUME CodeRanges, CodeRanges', Len(named') = Len(named),
         \A i \in 1..Len(named) : named'[i].name = named[i].name
  PROVE  \A x : Matches(x)' = Matches(x) /\ Matches(x) \subseteq 1..Len(named)
<1>1. DOMAIN named = 1..Len(named) /\ DOMAIN named' = 1..Len(named)
  BY LenProperties DEF CodeRanges
<1> QED
  BY <1>1 DEF Matches

\* What a script found stays while datasets, their rows and what is attached stay.
LEMMA FineStays ==
  ASSUME CodeRanges, CodeRanges', NEW o \in Scripts, NameFine(o), doing'[o] = doing[o], Len(named') = Len(named),
         \A i \in 1..Len(named) : named'[i].name = named[i].name /\ named[i].rows \subseteq named'[i].rows,
         apart \subseteq apart', attached \subseteq attached'
  PROVE  NameFine(o)'
<1> DEFINE d == doing[o]
<1>1. \A x : Matches(x)' = Matches(x) /\ Matches(x) \subseteq 1..Len(named)
  BY SameMatches
<1>2. \A x, i : FoundFine(x, i) => FoundFine(x, i)'
  BY <1>1 DEF FoundFine
<1>3. \A x, i, id : InPlace(x, i, id) => InPlace(x, i, id)'
  BY <1>1 DEF InPlace
<1>4. d.stage \in {"make", "fill", "hold"} =>
        (\A k \in DOMAIN d.names : FoundFine(d.names[k], d.found[k])') /\ Spelled(d.names) \subseteq apart'
  BY <1>2 DEF NameFine
<1>5. d.stage \in {"make", "fill"} =>
        \A k \in DOMAIN d.names : k < d.turn => InPlace(d.names[k], d.found[k], d.id)'
  BY <1>3 DEF NameFine
<1>6. /\ d.stage = "fill" => d.found[d.turn] \in Matches(d.names[d.turn])'
      /\ d.stage = "open" => d.found[1] \in Matches(d.names[1])'
  BY <1>1 DEF NameFine
<1>7. d.stage = "relist" => \A k \in DOMAIN d.names : InPlace(d.names[k], d.found[k], d.id)'
  BY <1>3 DEF NameFine
<1>8. d.stage \in {"link", "pushed"} =>
        \A k \in DOMAIN d.names : InPlace(d.names[k], d.into[k], d.id)' /\ d.found[k] \in Matches(d.names[k])'
  BY <1>1, <1>3 DEF NameFine
<1>9. /\ d.stage = "link" => \A k \in DOMAIN d.names : k < d.turn => <<d.found[k], d.slug>> \in attached'
      /\ d.stage = "pushed" => \A k \in DOMAIN d.names : <<d.found[k], d.slug>> \in attached'
  BY DEF NameFine
<1>10. Spelled(d.names)' = Spelled(d.names)
  BY DEF Spelled
<1> QED
  BY <1>4, <1>5, <1>6, <1>7, <1>8, <1>9, <1>10 DEF NameFine

\* Steps that create no dataset.
LEMMA NamesFrame ==
  ASSUME CodeRanges, CodeRanges', NamesInv, NEW s \in Scripts, \A o \in Scripts \ {s} : doing'[o] = doing[o],
         Len(named') = Len(named),
         \A i \in 1..Len(named) : named'[i].name = named[i].name /\ named[i].rows \subseteq named'[i].rows,
         apart \subseteq apart', attached \subseteq attached',
         NameFine(s)', RunsNamed',
         \A o \in Scripts \ {s} : Pending(s)' \cap Pending(o) \subseteq apart'
  PROVE  NamesInv'
<1>1. ASSUME NEW o \in Scripts \ {s} PROVE NameFine(o)'
  BY FineStays DEF NamesInv
<1>2. CreatorsKnown'
  <2>1. \A o \in Scripts \ {s} : Pending(o)' = Pending(o)
    <3> TAKE o \in Scripts \ {s}
    <3>1. doing'[o] = doing[o]
      OBVIOUS
    <3> QED
      BY <3>1 DEF Pending
  <2> SUFFICES ASSUME NEW x \in Scripts, NEW y \in Scripts, x # y
               PROVE  Pending(x)' \cap Pending(y)' \subseteq apart'
    BY DEF CreatorsKnown
  <2>2. CASE x # s /\ y # s
    BY <2>1, <2>2 DEF NamesInv, CreatorsKnown
  <2>3. CASE x = s
    BY <2>1, <2>3
  <2>4. CASE y = s
    BY <2>1, <2>4
  <2> QED
    BY <2>2, <2>3, <2>4
<1>3. NamesApart'
  BY DEF NamesInv, NamesApart
<1> QED
  BY <1>1, <1>2, <1>3 DEF NamesInv

\* Who is about to create a name found no dataset of it.
LEMMA PendingOf ==
  ASSUME CodeRanges, NEW o \in Scripts
  PROVE  /\ Pending(o) # {} => doing[o].stage \in {"make", "fill", "hold"}
         /\ doing[o].stage \in {"make", "fill", "hold"} =>
              Pending(o) = {Folded[doing[o].names[k]] : k \in {j \in DOMAIN doing[o].names : doing[o].found[j] = 0}}
BY DEF Pending

\* A list with a dataset of a new name at its end: the name is on no other, or known
\* to stand for two.
LEMMA NamesCreate ==
  ASSUME CodeRanges, CodeRanges', NamesInv, NEW s \in Scripts, \A o \in Scripts \ {s} : doing'[o] = doing[o],
         NEW name \in Known, named' = Append(named, [name |-> name, rows |-> {}]),
         Matches(name) = {} \/ Folded[name] \in apart',
         \A o \in Scripts \ {s} : Folded[name] \in Pending(o) => Folded[name] \in apart',
         Pending(s)' \subseteq Pending(s), NameFine(s)',
         apart \subseteq apart', UNCHANGED <<runs, attached>>
  PROVE  NamesInv'
<1> DEFINE n == Len(named) + 1
<1>1. /\ Len(named) \in Nat /\ Len(named') = n
      /\ \A i \in 1..Len(named) : named'[i] = named[i]
      /\ named'[n].name = name
  BY Appended
<1>2. /\ DOMAIN named = 1..Len(named) /\ DOMAIN named' = 1..n
      /\ \A i \in 1..n : i \in 1..Len(named) \/ i = n
  BY <1>1, LenProperties DEF CodeRanges
<1>3. /\ \A x : Matches(x) \subseteq Matches(x)' /\ Matches(x) \subseteq 1..Len(named)
      /\ \A x : Folded[x] # Folded[name] => Matches(x)' = Matches(x)
  BY <1>1, <1>2 DEF Matches
<1>4. \A x, i, id : InPlace(x, i, id) => InPlace(x, i, id)'
  BY <1>1, <1>3 DEF InPlace
<1>5. ASSUME NEW o \in Scripts \ {s} PROVE NameFine(o)'
  <2> DEFINE d == doing[o]
  <2>1. doing'[o] = d /\ NameFine(o)
    BY DEF NamesInv
  <2>2. ASSUME d.stage \in {"make", "fill", "hold"}, NEW k \in DOMAIN d.names
        PROVE  FoundFine(d.names[k], d.found[k])'
    <3>1. FoundFine(d.names[k], d.found[k])
      BY <2>1, <2>2 DEF NameFine
    <3>2. CASE d.found[k] # 0
      BY <1>3, <3>1, <3>2 DEF FoundFine
    <3>3. CASE d.found[k] = 0 /\ Folded[d.names[k]] = Folded[name]
      <4>1. Folded[name] \in Pending(o)
        BY <2>2, <3>3, PendingOf
      <4> QED
        BY <3>3, <4>1 DEF FoundFine
    <3>4. CASE d.found[k] = 0 /\ Folded[d.names[k]] # Folded[name]
      <4>1. Matches(d.names[k])' = Matches(d.names[k])
        BY <1>3, <3>4
      <4>2. (\E i \in 1..Len(named) : named[i].name = d.names[k]) => \E i \in 1..n : named'[i].name = d.names[k]
        BY <1>1
      <4> QED
        BY <1>1, <3>1, <3>4, <4>1, <4>2 DEF FoundFine
    <3> QED
      BY <3>2, <3>3, <3>4
  <2>3. Spelled(d.names)' = Spelled(d.names)
    BY DEF Spelled
  <2>4. /\ d.stage \in {"make", "fill", "hold"} => Spelled(d.names) \subseteq apart'
        /\ d.stage \in {"make", "fill"} =>
             \A k \in DOMAIN d.names : k < d.turn => InPlace(d.names[k], d.found[k], d.id)'
        /\ d.stage = "relist" => \A k \in DOMAIN d.names : InPlace(d.names[k], d.found[k], d.id)'
    BY <1>4, <2>1 DEF NameFine
  <2>5. /\ d.stage = "fill" => d.found[d.turn] \in Matches(d.names[d.turn])'
        /\ d.stage = "open" => d.found[1] \in Matches(d.names[1])'
    BY <1>3, <2>1 DEF NameFine
  <2>6. d.stage \in {"link", "pushed"} =>
          \A k \in DOMAIN d.names : InPlace(d.names[k], d.into[k], d.id)' /\ d.found[k] \in Matches(d.names[k])'
    BY <1>3, <1>4, <2>1 DEF NameFine
  <2>7. /\ d.stage = "link" => \A k \in DOMAIN d.names : k < d.turn => <<d.found[k], d.slug>> \in attached'
        /\ d.stage = "pushed" => \A k \in DOMAIN d.names : <<d.found[k], d.slug>> \in attached'
    BY <2>1 DEF NameFine
  <2> QED
    BY <2>1, <2>2, <2>3, <2>4, <2>5, <2>6, <2>7 DEF NameFine
<1>6. CreatorsKnown'
  <2>1. \A o \in Scripts \ {s} : Pending(o)' = Pending(o)
    <3> TAKE o \in Scripts \ {s}
    <3>1. doing'[o] = doing[o]
      OBVIOUS
    <3> QED
      BY <3>1 DEF Pending
  <2> SUFFICES ASSUME NEW x \in Scripts, NEW y \in Scripts, x # y
               PROVE  Pending(x)' \cap Pending(y)' \subseteq apart'
    BY DEF CreatorsKnown
  <2>2. Pending(x) \cap Pending(y) \subseteq apart
    BY DEF NamesInv, CreatorsKnown
  <2>3. Pending(x)' \subseteq Pending(x) /\ Pending(y)' \subseteq Pending(y)
    BY <2>1
  <2> QED
    BY <2>2, <2>3
<1>7. NamesApart'
  <2>1. \A i \in 1..Len(named) : named'[i].name = named[i].name /\ (Folded[named[i].name] = Folded[name] => i \in Matches(name))
    BY <1>1, <1>2 DEF Matches
  <2> SUFFICES ASSUME NEW i \in 1..n, NEW j \in 1..n, i # j, Folded[named'[i].name] = Folded[named'[j].name]
               PROVE  Folded[named'[i].name] \in apart'
    BY <1>1 DEF NamesApart
  <2> HIDE DEF n
  <2>2. CASE i \in 1..Len(named) /\ j \in 1..Len(named)
    BY <2>1, <2>2 DEF NamesInv, NamesApart
  <2>3. CASE i = n /\ j \in 1..Len(named)
    BY <1>1, <2>1, <2>3
  <2>4. CASE j = n /\ i \in 1..Len(named)
    BY <1>1, <2>1, <2>4
  <2> QED
    BY <1>2, <2>2, <2>3, <2>4 DEF n
<1>8. RunsNamed'
  BY <1>3 DEF NamesInv, RunsNamed
<1> QED
  BY <1>5, <1>6, <1>7, <1>8 DEF NamesInv

\* Looking for names that another may be creating marks them.
LEMMA LooksMarks ==
  ASSUME NEW s \in Scripts, NEW names, Looks(s, names)
  PROVE  /\ apart \subseteq apart' /\ Spelled(names) \subseteq apart'
         /\ \A o \in Scripts \ {s} : {Folded[names[k]] : k \in DOMAIN names} \cap Pending(o) \subseteq apart'
BY DEF Looks, PendingElse

\* Runs keep their names and datasets, and a new one is of a dataset that was found.
LEMMA RunsStayNamed ==
  ASSUME CodeRanges, CodeRanges', NamesInv, NEW s \in Scripts,
         Len(named') = Len(named), \A i \in 1..Len(named) : named'[i].name = named[i].name,
         UNCHANGED runs \/ OpenRun(s) \/ (SetTotal(s) /\ SendsInv) \/ (SummarizeAndFinalize(s) /\ SendsInv)
  PROVE  RunsNamed'
<1>1. \A x : Matches(x)' = Matches(x)
  BY SameMatches
<1>2. CASE UNCHANGED runs
  BY <1>1, <1>2 DEF NamesInv, RunsNamed
<1>3. CASE OpenRun(s)
  <2> DEFINE name == doing[s].names[1]
             set == doing[s].found[1]
  <2>1. doing[s] \in Holding /\ doing[s].stage = "open"
    BY <1>3, NextStages
  <2>2. set \in Matches(name)
    BY <2>1 DEF NamesInv, NameFine
  <2>3. /\ Len(runs') = Len(runs) + 1 /\ Len(runs) \in Nat
        /\ \A n \in 1..Len(runs) : runs'[n] = runs[n]
        /\ runs'[Len(runs) + 1].name = name /\ runs'[Len(runs) + 1].set = set
    <3>1. /\ Len(runs') = Len(runs) + 1 /\ \A n \in 1..Len(runs) : runs'[n] = runs[n]
          /\ runs'[Len(runs) + 1] = Opening(name, set)
      BY <1>3, <2>1, Opens
    <3>2. Opening(name, set).name = name /\ Opening(name, set).set = set
      BY DEF Opening
    <3>3. Len(runs) \in Nat
      BY RunsKept
    <3> QED
      BY <3>1, <3>2, <3>3
  <2> SUFFICES ASSUME NEW n \in 1..(Len(runs) + 1) PROVE runs'[n].set \in Matches(runs'[n].name)
    BY <1>1, <2>3 DEF RunsNamed
  <2>4. CASE n \in 1..Len(runs)
    BY <2>3, <2>4 DEF NamesInv, RunsNamed
  <2>5. CASE n = Len(runs) + 1
    BY <2>2, <2>3, <2>5
  <2> QED
    BY <2>3, <2>4, <2>5
<1>4. CASE SetTotal(s) /\ SendsInv
  <2>1. Len(runs') = Len(runs) /\ \A n \in 1..Len(runs) : runs'[n].name = runs[n].name /\ runs'[n].set = runs[n].set
    BY <1>4, Totalled
  <2> QED
    BY <1>1, <2>1 DEF NamesInv, RunsNamed
<1>5. CASE SummarizeAndFinalize(s) /\ SendsInv
  <2>1. Len(runs') = Len(runs) /\ \A n \in 1..Len(runs) : runs'[n].name = runs[n].name /\ runs'[n].set = runs[n].set
    BY <1>5, Finalizes
  <2> QED
    BY <1>1, <2>1 DEF NamesInv, RunsNamed
<1> QED
  BY <1>2, <1>3, <1>4, <1>5

\* What is found of a name that is looked for is of it, or nothing is there.
LEMMA LooksFine ==
  ASSUME CodeRanges, NEW name \in Known
  PROVE  FoundFine(name, Oldest(name)) /\ FoundFine(name, Newest(name))
BY NamesFound DEF FoundFine

\* The dataset whose turn it is was found, or is created now.
LEMMA NamesMade ==
  ASSUME CodeRanges, CodeRanges', NamesInv, NEW s \in Scripts, \A o \in Scripts \ {s} : doing'[o] = doing[o],
         NEW next, FindOrCreate(s, next), UNCHANGED <<runs, apart, attached>>,
         \/ next = "fill" /\ doing[s] \in Pushing /\ doing[s].stage = "make"
         \/ next = "open" /\ doing[s] \in Holding /\ doing[s].stage = "hold"
  PROVE  NamesInv'
<1> SUFFICES ASSUME NEW names, names = doing[s].names, NEW found, found = doing[s].found,
                    NEW k, k = doing[s].turn, NEW id, id = doing[s].id,
                    NEW name, name = names[k], NEW n, n = Len(named) + 1
             PROVE  NamesInv'
  OBVIOUS
<1> DEFINE new == [found EXCEPT ![k] = n]
           Stays == /\ doing'[s].stage = next /\ doing'[s].names = names /\ doing'[s].turn = k
                    /\ next = "fill" => doing'[s].id = id
<1>1. \/ UNCHANGED named /\ doing'[s].stage = "failed"
      \/ Stays /\ UNCHANGED named /\ found[k] # 0 /\ doing'[s].found = found
      \/ /\ Stays /\ found[k] = 0 /\ named' = Append(named, [name |-> name, rows |-> {}])
         /\ \A i \in 1..Len(named) : named[i].name # name
         /\ doing'[s].found = new
  BY Creates
<1>2. /\ doing[s].stage \in {"make", "hold"} /\ (next = "fill" => doing[s].stage = "make")
      /\ \A j \in DOMAIN names : FoundFine(names[j], found[j])
      /\ Spelled(names) \subseteq apart
      /\ next = "fill" => \A j \in DOMAIN names : j < k => InPlace(names[j], found[j], id)
  BY DEF NamesInv, NameFine
<1>3. k \in DOMAIN names /\ name \in Known /\ found \in [DOMAIN names -> Nat] /\ k \in Nat /\ DOMAIN names \subseteq Nat
  BY ListShapes
<1>4. next \in {"fill", "open"} /\ (next = "open" => k = 1)
  BY DEF Holding
<1>5. UNCHANGED named => Len(named') = Len(named) /\ \A i \in 1..Len(named) :
        named'[i].name = named[i].name /\ named[i].rows \subseteq named'[i].rows
  OBVIOUS
<1>6. Spelled(names)' = Spelled(names)
  BY DEF Spelled
<1>7. ASSUME NEW list, Stays, doing'[s].found = list, list[k] \in Matches(name)',
             \A j \in DOMAIN names : FoundFine(names[j], list[j])',
             next = "fill" => \A j \in DOMAIN names : j < k => InPlace(names[j], list[j], id)'
      PROVE  NameFine(s)'
  BY <1>2, <1>4, <1>6, <1>7 DEF NameFine
<1>8. CASE UNCHANGED named /\ doing'[s].stage = "failed"
  <2>1. NameFine(s)' /\ Pending(s)' = {}
    BY <1>8 DEF NameFine, Pending
  <2>2. RunsNamed'
    BY <1>5, <1>8, RunsStayNamed
  <2> QED
    BY <1>5, <1>8, <2>1, <2>2, NamesFrame
<1>9. CASE Stays /\ UNCHANGED named /\ found[k] # 0 /\ doing'[s].found = found
  <2>1. \A x : Matches(x)' = Matches(x)
    BY <1>9 DEF Matches
  <2>2. found[k] \in Matches(name)'
    BY <1>2, <1>3, <1>9, <2>1 DEF FoundFine
  <2>3. \A j \in DOMAIN names : FoundFine(names[j], found[j])'
    BY <1>2, <1>9, <2>1 DEF FoundFine
  <2>4. next = "fill" => \A j \in DOMAIN names : j < k => InPlace(names[j], found[j], id)'
    BY <1>2, <1>9, <2>1 DEF InPlace
  <2>5. NameFine(s)'
    BY <1>7, <1>9, <2>2, <2>3, <2>4
  <2>6. Pending(s)' \subseteq Pending(s)
    BY <1>2, <1>9 DEF Pending
  <2>7. \A o \in Scripts \ {s} : Pending(s)' \cap Pending(o) \subseteq apart'
    BY <2>6 DEF NamesInv, CreatorsKnown
  <2>8. RunsNamed'
    BY <1>5, <1>9, RunsStayNamed
  <2> QED
    BY <1>5, <1>9, <2>5, <2>7, <2>8, NamesFrame
<1>10. CASE /\ Stays /\ found[k] = 0 /\ named' = Append(named, [name |-> name, rows |-> {}])
            /\ \A i \in 1..Len(named) : named[i].name # name
            /\ doing'[s].found = new
  <2>1. /\ Len(named) \in Nat /\ Len(named') = n
        /\ \A i \in 1..Len(named) : named'[i] = named[i]
        /\ named'[n].name = name
    BY <1>3, <1>10, Appended
  <2>2. DOMAIN named = 1..Len(named) /\ DOMAIN named' = 1..n
    BY <2>1, LenProperties DEF CodeRanges
  <2>3. /\ \A x : Matches(x) \subseteq Matches(x)' /\ Matches(x) \subseteq 1..Len(named)
        /\ \A x : Folded[x] # Folded[name] => Matches(x)' = Matches(x)
        /\ n \in Matches(name)'
    BY <2>1, <2>2 DEF Matches
  <2>4. Matches(name) = {} \/ Folded[name] \in apart
    BY <1>2, <1>3, <1>10 DEF FoundFine
  <2>5. Folded[name] \in Pending(s)
    BY <1>2, <1>3, <1>10, PendingOf
  <2>6. new[k] = n /\ n # 0 /\ \A j \in DOMAIN names : j # k => new[j] = found[j]
    BY <1>3, <2>1
  <2>7. ASSUME NEW j \in DOMAIN names, j # k PROVE FoundFine(names[j], found[j])'
    <3>1. FoundFine(names[j], found[j])
      BY <1>2
    <3>2. CASE found[j] # 0
      BY <2>3, <3>1, <3>2 DEF FoundFine
    <3>3. CASE found[j] = 0 /\ Folded[names[j]] # Folded[name]
      <4>1. (\E i \in 1..Len(named) : named[i].name = names[j]) => \E i \in 1..n : named'[i].name = names[j]
        BY <2>1
      <4> QED
        BY <2>1, <2>3, <3>1, <3>3, <4>1 DEF FoundFine
    <3>4. CASE found[j] = 0 /\ names[j] = name
      <4>1. \E i \in 1..n : named'[i].name = names[j]
        BY <2>1, <3>4
      <4> QED
        BY <2>1, <3>4, <4>1 DEF FoundFine
    <3>5. CASE found[j] = 0 /\ Folded[names[j]] = Folded[name] /\ names[j] # name
      <4>1. Folded[names[j]] \in Spelled(names)
        BY <1>3, <3>5 DEF Spelled
      <4> QED
        BY <1>2, <3>5, <4>1 DEF FoundFine
    <3> QED
      BY <3>2, <3>3, <3>4, <3>5
  <2>8. ASSUME NEW list, list = new
        PROVE  /\ list[k] \in Matches(name)'
               /\ \A j \in DOMAIN names : FoundFine(names[j], list[j])'
               /\ next = "fill" => \A j \in DOMAIN names : j < k => InPlace(names[j], list[j], id)'
    <3> HIDE DEF new
    <3>1. list[k] \in Matches(name)'
      BY <2>3, <2>6, <2>8
    <3>2. FoundFine(name, list[k])'
      BY <2>6, <2>8, <3>1 DEF FoundFine
    <3>3. \A j \in DOMAIN names : FoundFine(names[j], list[j])'
      <4> TAKE j \in DOMAIN names
      <4>1. CASE j = k
        BY <3>2, <4>1
      <4>2. CASE j # k
        <5>1. list[j] = found[j]
          BY <2>6, <2>8, <4>2
        <5> QED
          BY <2>7, <4>2, <5>1
      <4> QED
        BY <4>1, <4>2
    <3>4. ASSUME next = "fill", NEW j \in DOMAIN names, j < k PROVE InPlace(names[j], list[j], id)'
      <4>1. j # k /\ list[j] = found[j]
        BY <1>3, <2>6, <2>8, <3>4
      <4>2. InPlace(names[j], found[j], id)
        BY <1>2, <3>4
      <4> QED
        BY <2>1, <2>3, <4>1, <4>2 DEF InPlace
    <3> QED
      BY <3>1, <3>3, <3>4
  <2> HIDE DEF new
  <2>9. NameFine(s)'
    BY <1>7, <1>10, <2>8
  <2>10. Pending(s)' \subseteq Pending(s)
    <3>1. doing'[s].stage = "open" => Pending(s)' = {}
      BY DEF Pending
    <3>2. doing'[s].stage = "fill" => Pending(s)' = {Folded[names[j]] : j \in {i \in DOMAIN names : new[i] = 0}}
      BY <1>10 DEF Pending
    <3>3. \A j \in DOMAIN names : new[j] = 0 => found[j] = 0
      BY <2>6
    <3>4. Pending(s) = {Folded[names[j]] : j \in {i \in DOMAIN names : found[i] = 0}}
      BY <1>2, PendingOf
    <3> QED
      BY <1>4, <1>10, <3>1, <3>2, <3>3, <3>4
  <2>11. \A o \in Scripts \ {s} : Folded[name] \in Pending(o) => Folded[name] \in apart'
    BY <2>5 DEF NamesInv, CreatorsKnown
  <2> QED
    BY <1>3, <1>10, <2>4, <2>9, <2>10, <2>11, NamesCreate
<1> QED
  BY <1>1, <1>8, <1>9, <1>10

\* The dashboard creates a dataset beside what there is.
LEMMA NamesByHand ==
  ASSUME CodeRanges, CodeRanges', NamesInv, NEW s \in Scripts, \A o \in Scripts \ {s} : doing'[o] = doing[o],
         CreateDataset(s)
  PROVE  NamesInv'
<1>1. PICK name \in Known :
        /\ named' = Append(named, [name |-> name, rows |-> {}])
        /\ apart' = IF Matches(name) # {} \/ Folded[name] \in PendingElse(s)
                      THEN apart \cup {Folded[name]} ELSE apart
  BY Creating
<1>2. doing'[s].stage = "idle"
  BY NextStages
<1>3. NameFine(s)' /\ Pending(s)' = {}
  BY <1>2 DEF NameFine, Pending
<1>4. \A o \in Scripts \ {s} : Folded[name] \in Pending(o) => Folded[name] \in PendingElse(s)
  BY DEF PendingElse
<1>5. UNCHANGED <<runs, attached>>
  BY DEF CreateDataset
<1> QED
  BY <1>1, <1>3, <1>4, <1>5, NamesCreate

LEMMA NamesStep ==
  ASSUME CodeRanges, CodeRanges', SendsInv, NamesInv, NEW s \in Scripts,
         \/ CreateDataset(s) \/ BeginPush(s) \/ PushScorer(s) \/ ReadDatasets(s) \/ PushDataset(s) \/ PushExamples(s)
         \/ ReadAgain(s) \/ AttachScorer(s) \/ StartRun(s) \/ HoldDataset(s) \/ OpenRun(s)
         \/ BeginBatch(s) \/ PublishResult(s) \/ AddItems(s) \/ SetTotal(s) \/ FailBatch(s)
         \/ ReadRunReport(s) \/ SummarizeAndFinalize(s)
  PROVE  NamesInv'
<1> DEFINE d == doing[s]
           e == doing'[s]
           Away == {"scorer", "datasets", "post", "total", "answered", "report", "reported", "idle", "failed"}
<1>1. \A o \in Scripts \ {s} : doing'[o] = doing[o]
  BY OthersStay
<1>2. NameFine(s)
  BY DEF NamesInv
<1>3. UNCHANGED named =>
        /\ Len(named') = Len(named)
        /\ \A i \in 1..Len(named) : named'[i].name = named[i].name /\ named[i].rows \subseteq named'[i].rows
        /\ \A x : Matches(x)' = Matches(x)
        /\ \A x, i : FoundFine(x, i) /\ apart \subseteq apart' => FoundFine(x, i)'
        /\ \A x, i, id : InPlace(x, i, id) => InPlace(x, i, id)'
  BY DEF Matches, FoundFine, InPlace
<1>4. ASSUME UNCHANGED <<named, apart, attached>>, e.stage \in Away, RunsNamed'
      PROVE  NamesInv'
  <2>1. NameFine(s)' /\ Pending(s)' = {}
    BY <1>4 DEF NameFine, Pending
  <2> QED
    BY <1>1, <1>3, <1>4, <2>1, NamesFrame
<1>5. CASE CreateDataset(s)
  BY <1>1, <1>5, NamesByHand
<1>6. CASE \/ BeginPush(s) \/ PushScorer(s) \/ BeginBatch(s) \/ PublishResult(s) \/ AddItems(s) \/ FailBatch(s)
           \/ ReadRunReport(s)
  <2>1. UNCHANGED <<named, apart, attached, runs>>
    BY <1>6 DEF BeginPush, PushScorer, BeginBatch, PublishResult, AddItems, FailBatch, ReadRunReport
  <2>2. e.stage \in Away
    BY <1>6, NextStages
  <2> QED
    BY <1>3, <1>4, <2>1, <2>2, RunsStayNamed
<1>7. CASE OpenRun(s) \/ SetTotal(s) \/ SummarizeAndFinalize(s)
  <2>1. UNCHANGED <<named, apart, attached>>
    BY <1>7 DEF OpenRun, SetTotal, SummarizeAndFinalize
  <2>2. e.stage \in Away
    BY <1>7, NextStages
  <2>3. RunsNamed'
    BY <1>3, <1>7, <2>1, RunsStayNamed
  <2> QED
    BY <1>4, <2>1, <2>2, <2>3
<1>8. CASE ReadDatasets(s)
  <2>1. d \in Pushing /\ e.stage = "make" /\ e.names = d.names /\ e.found = OldestOf(d.names) /\ e.turn = d.turn
    BY <1>8, NextStages
  <2>2. UNCHANGED <<named, attached, runs>> /\ Looks(s, d.names) /\ d.stage = "datasets"
    BY <1>8 DEF ReadDatasets, At
  <2>3. \A k \in DOMAIN d.names : e.found[k] = Oldest(d.names[k]) /\ d.names[k] \in Known
    BY <2>1, ListShapes, Listing
  <2>4. /\ apart \subseteq apart' /\ Spelled(d.names) \subseteq apart'
        /\ \A o \in Scripts \ {s} : {Folded[d.names[k]] : k \in DOMAIN d.names} \cap Pending(o) \subseteq apart'
    BY <2>2, LooksMarks
  <2>5. \A k \in DOMAIN d.names : \A x, i : x = d.names[k] /\ i = e.found[k] => FoundFine(x, i)'
    BY <1>3, <2>2, <2>3, <2>4, LooksFine
  <2>6. d.turn = 1
    BY <2>1, <2>2 DEF Pushing
  <2>7. NameFine(s)'
    <3>1. Spelled(d.names)' = Spelled(d.names)
      BY <2>1 DEF Spelled
    <3>2. \A k \in DOMAIN d.names : ~(k < e.turn)
      BY <2>1, <2>6, ListShapes
    <3> QED
      BY <2>1, <2>4, <2>5, <3>1, <3>2 DEF NameFine
  <2>8. Pending(s)' \subseteq {Folded[d.names[k]] : k \in DOMAIN d.names}
    BY <2>1 DEF Pending
  <2>9. RunsNamed'
    BY <1>3, <2>2, RunsStayNamed
  <2> QED
    BY <1>1, <1>3, <2>2, <2>4, <2>7, <2>8, <2>9, NamesFrame
<1>9. CASE StartRun(s)
  <2>1. PICK name \in Known : /\ e.stage = "hold" /\ e.names = <<name>>
                              /\ e.turn = 1 /\ e.found = <<Newest(name)>>
                              /\ Looks(s, <<name>>)
    BY <1>9, Starting
  <2>2. UNCHANGED <<named, attached, runs>>
    BY <1>9 DEF StartRun
  <2> DEFINE names == <<name>>
  <2>3. DOMAIN names = {1} /\ names[1] = name /\ e.found[1] = Newest(name)
    BY <2>1
  <2> HIDE DEF names
  <2>4. /\ apart \subseteq apart' /\ Spelled(names) \subseteq apart'
        /\ \A o \in Scripts \ {s} : {Folded[names[k]] : k \in DOMAIN names} \cap Pending(o) \subseteq apart'
    BY <2>1, LooksMarks DEF names
  <2>5. \A i : i = e.found[1] => FoundFine(name, i)'
    BY <1>3, <2>2, <2>3, <2>4, LooksFine
  <2>6. NameFine(s)'
    <3>1. Spelled(<<name>>)' = Spelled(<<name>>)
      BY DEF Spelled
    <3> QED
      BY <2>1, <2>3, <2>4, <2>5, <3>1 DEF NameFine, names
  <2>7. Pending(s)' \subseteq {Folded[names[k]] : k \in DOMAIN names}
    BY <2>1 DEF Pending, names
  <2>8. RunsNamed'
    BY <1>3, <2>2, RunsStayNamed
  <2> QED
    BY <1>1, <1>3, <2>2, <2>4, <2>6, <2>7, <2>8, NamesFrame
<1>10. CASE PushExamples(s)
  <2>1. d \in Pushing /\ d.stage = "fill" /\ Moves(s, "relist")
    BY <1>10, NextStages DEF PushExamples
  <2>2. /\ e.names = d.names /\ e.found = d.found /\ e.id = d.id
        /\ \/ d.turn < Len(d.names) /\ e.turn = d.turn + 1 /\ e.stage = "make"
           \/ d.turn = Len(d.names) /\ e.turn = 1 /\ e.stage = "relist"
    BY <2>1, TurnEnds
  <2>3. UNCHANGED <<apart, attached, runs>>
    BY <1>10 DEF PushExamples
  <2>4. Len(named') = Len(named) /\ \A i \in 1..Len(named) : /\ named'[i].name = named[i].name
                                                             /\ named[i].rows \subseteq named'[i].rows
                                                             /\ (i = d.found[d.turn] => d.id \in named'[i].rows)
    BY <1>10, <2>1, Fills
  <2>5. \A x : Matches(x)' = Matches(x) /\ Matches(x) \subseteq 1..Len(named)
    BY <2>4, SameMatches
  <2>6. /\ d.found[d.turn] \in Matches(d.names[d.turn])
        /\ \A k \in DOMAIN d.names : FoundFine(d.names[k], d.found[k])
        /\ \A k \in DOMAIN d.names : k < d.turn => InPlace(d.names[k], d.found[k], d.id)
        /\ Spelled(d.names) \subseteq apart
    BY <1>2, <2>1 DEF NameFine
  <2>7. \A k \in DOMAIN d.names : k =< d.turn => InPlace(d.names[k], d.found[k], d.id)'
    <3> SUFFICES ASSUME NEW k \in DOMAIN d.names, k =< d.turn PROVE InPlace(d.names[k], d.found[k], d.id)'
      OBVIOUS
    <3>1. k < d.turn \/ k = d.turn
      BY <2>1, ListShapes
    <3>2. CASE k < d.turn
      BY <2>2, <2>4, <2>5, <2>6, <3>2 DEF InPlace
    <3>3. CASE k = d.turn
      BY <2>2, <2>4, <2>5, <2>6, <3>3 DEF InPlace
    <3> QED
      BY <3>1, <3>2, <3>3
  <2>8. \A k \in DOMAIN d.names : FoundFine(d.names[k], d.found[k])'
    BY <2>2, <2>3, <2>4, <2>5, <2>6 DEF FoundFine
  <2>9. Spelled(d.names)' = Spelled(d.names)
    BY <2>2 DEF Spelled
  <2>10. NameFine(s)'
    <3>1. Len(d.names) \in Nat /\ d.turn \in Nat /\ \A k \in DOMAIN d.names : k \in Nat /\ k =< Len(d.names)
      BY <2>1, ListShapes
    <3>2. CASE d.turn < Len(d.names) /\ e.turn = d.turn + 1 /\ e.stage = "make"
      <4>1. \A k \in DOMAIN d.names : k < e.turn => k =< d.turn
        BY <3>1, <3>2
      <4> QED
        BY <2>2, <2>3, <2>6, <2>7, <2>8, <2>9, <3>2, <4>1 DEF NameFine
    <3>3. CASE d.turn = Len(d.names) /\ e.turn = 1 /\ e.stage = "relist"
      BY <2>2, <2>7, <3>1, <3>3 DEF NameFine
    <3> QED
      BY <2>2, <3>2, <3>3
  <2>11. Pending(s)' \subseteq Pending(s)
    BY <2>1, <2>2 DEF Pending
  <2>12. \A o \in Scripts \ {s} : Pending(s)' \cap Pending(o) \subseteq apart'
    BY <2>3, <2>11 DEF NamesInv, CreatorsKnown
  <2>13. RunsNamed'
    BY <2>3, <2>4, RunsStayNamed
  <2> QED
    BY <1>1, <2>3, <2>4, <2>10, <2>12, <2>13, NamesFrame
<1>11. CASE ReadAgain(s)
  <2>1. /\ d \in Pushing /\ d.stage = "relist" /\ e.stage = "link" /\ e.names = d.names
        /\ e.id = d.id /\ e.into = d.found /\ e.found = OldestOf(d.names) /\ e.turn = 1
    BY <1>11, NextStages
  <2>2. UNCHANGED <<named, apart, attached, runs>>
    BY <1>11 DEF ReadAgain
  <2>3. ASSUME NEW k \in DOMAIN d.names
        PROVE  (InPlace(d.names[k], d.into[k], d.id) /\ d.found[k] \in Matches(d.names[k]))'
    <3>1. InPlace(d.names[k], d.found[k], d.id)
      BY <1>2, <2>1 DEF NameFine
    <3>2. e.found[k] = Oldest(d.names[k]) /\ d.names[k] \in Known
      BY <2>1, ListShapes, Listing
    <3>3. Oldest(d.names[k]) \in Matches(d.names[k])
      BY <3>1, <3>2, NamesFound DEF InPlace
    <3> QED
      BY <1>3, <2>1, <2>2, <3>1, <3>2, <3>3
  <2>4. \A k \in DOMAIN d.names : ~(k < 1)
    BY <2>1, ListShapes
  <2>5. NameFine(s)' /\ Pending(s)' = {}
    BY <2>1, <2>3, <2>4 DEF NameFine, Pending
  <2>6. RunsNamed'
    BY <1>3, <2>2, RunsStayNamed
  <2> QED
    BY <1>1, <1>3, <2>2, <2>5, <2>6, NamesFrame
<1>12. CASE AttachScorer(s)
  <2>1. d \in Linking /\ d.stage = "link" /\ Moves(s, "pushed")
    BY <1>12, NextStages DEF AttachScorer
  <2>2. /\ e.names = d.names /\ e.found = d.found /\ e.id = d.id /\ e.into = d.into /\ e.slug = d.slug
        /\ \/ d.turn < Len(d.names) /\ e.turn = d.turn + 1 /\ e.stage = "link"
           \/ d.turn = Len(d.names) /\ e.turn = 1 /\ e.stage = "pushed"
    BY <2>1, TurnEnds
  <2>3. UNCHANGED <<named, apart, runs>> /\ attached' = attached \cup {<<d.found[d.turn], d.slug>>}
    BY <1>12 DEF AttachScorer
  <2>4. \A k \in DOMAIN d.names : InPlace(d.names[k], d.into[k], d.id)' /\ d.found[k] \in Matches(d.names[k])'
    BY <1>2, <1>3, <2>1, <2>2, <2>3 DEF NameFine
  <2>5. \A k \in DOMAIN d.names : k =< d.turn => <<d.found[k], d.slug>> \in attached'
    <3> SUFFICES ASSUME NEW k \in DOMAIN d.names, k =< d.turn PROVE <<d.found[k], d.slug>> \in attached'
      OBVIOUS
    <3>1. k < d.turn \/ k = d.turn
      BY <2>1, ListShapes
    <3>2. k < d.turn => <<d.found[k], d.slug>> \in attached
      BY <1>2, <2>1 DEF NameFine
    <3> QED
      BY <2>3, <3>1, <3>2
  <2>6. Len(d.names) \in Nat /\ d.turn \in Nat /\ \A k \in DOMAIN d.names : k \in Nat /\ k =< Len(d.names)
    BY <2>1, ListShapes
  <2>7. NameFine(s)' /\ Pending(s)' = {}
    <3>1. CASE d.turn < Len(d.names) /\ e.turn = d.turn + 1 /\ e.stage = "link"
      <4>1. \A k \in DOMAIN d.names : k < e.turn => k =< d.turn
        BY <2>6, <3>1
      <4> QED
        BY <2>2, <2>4, <2>5, <3>1, <4>1 DEF NameFine, Pending
    <3>2. CASE d.turn = Len(d.names) /\ e.turn = 1 /\ e.stage = "pushed"
      BY <2>2, <2>4, <2>5, <2>6, <3>2 DEF NameFine, Pending
    <3> QED
      BY <2>2, <3>1, <3>2
  <2>8. RunsNamed'
    BY <1>3, <2>3, RunsStayNamed
  <2> QED
    BY <1>1, <1>3, <2>3, <2>7, <2>8, NamesFrame
<1>13. CASE PushDataset(s)
  <2>1. d \in Pushing /\ d.stage = "make"
    BY <1>13, NextStages
  <2>2. FindOrCreate(s, "fill") /\ UNCHANGED <<runs, apart, attached>>
    BY <1>13 DEF PushDataset
  <2> QED
    BY <1>1, <2>1, <2>2, NamesMade
<1>14. CASE HoldDataset(s)
  <2>1. d \in Holding /\ d.stage = "hold"
    BY <1>14, NextStages
  <2>2. FindOrCreate(s, "open") /\ UNCHANGED <<runs, apart, attached>>
    BY <1>14 DEF HoldDataset
  <2> QED
    BY <1>1, <2>1, <2>2, NamesMade
<1> QED
  BY <1>5, <1>6, <1>7, <1>8, <1>9, <1>10, <1>11, <1>12, <1>13, <1>14


-----------------------------------------------------------------------------
(* The code part as a whole. *)

LEMMA CodeBegins == ASSUME CodeInit PROVE CodeInv
<1>1. CodeRanges
  BY CodeInitRanges
<1>2. \A s \in Scripts : doing[s] = [stage |-> "idle"]
  BY DEF CodeInit
<1>3. \A s \in Scripts : doing[s].stage = "idle"
  BY <1>2
<1>4. ScorersInv
  BY <1>3, NilAssumption DEF CodeInit, ScorersInv, At
<1>5. PICK names \in Opened :
        runs = [n \in DOMAIN names |-> Opening(names[n], n)] /\ apart = Spelled(names)
  BY DEF CodeInit
<1>6. /\ DOMAIN runs = DOMAIN names /\ DOMAIN named = DOMAIN names
      /\ DOMAIN runs = 1..Len(runs) /\ DOMAIN named = 1..Len(named)
      /\ \A n \in DOMAIN names : runs[n].name = names[n] /\ runs[n].set = n /\ named[n].name = names[n]
  <2>1. DOMAIN runs = DOMAIN names /\ \A n \in DOMAIN names : runs[n].name = names[n] /\ runs[n].set = n
    BY <1>5 DEF Opening
  <2>2. named = [n \in DOMAIN runs |-> [name |-> runs[n].name, rows |-> {}]]
    BY DEF CodeInit
  <2>3. DOMAIN named = DOMAIN names /\ \A n \in DOMAIN names : named[n].name = names[n]
    BY <2>1, <2>2
  <2> QED
    BY <1>1, <2>1, <2>3, RunsKept
<1>7. NamesApart
  <2>1. \A i, j \in DOMAIN names : names[i] = names[j] => i = j
    BY NamesAssumption
  <2> SUFFICES ASSUME NEW i \in 1..Len(named), NEW j \in 1..Len(named), i # j,
                      Folded[named[i].name] = Folded[named[j].name]
               PROVE  Folded[named[i].name] \in apart
    BY DEF NamesApart
  <2>2. i \in DOMAIN names /\ j \in DOMAIN names /\ named[i].name = names[i] /\ named[j].name = names[j]
    BY <1>6
  <2> QED
    BY <1>5, <2>1, <2>2 DEF Spelled
<1>8. RunsNamed
  BY <1>6 DEF RunsNamed, Matches
<1>9. NamesInv
  BY <1>3, <1>7, <1>8 DEF NamesInv, NameFine, CreatorsKnown, Pending
<1> QED
  BY <1>1, <1>4, <1>9, SendsBegin DEF CodeInv

\* Names are found as long as nobody pushes, reads or runs.
LEMMA NamesSame ==
  ASSUME NamesInv, UNCHANGED <<named, attached, runs, doing, apart>>
  PROVE  NamesInv'
<1>1. \A name : Matches(name)' = Matches(name)
  BY DEF Matches
<1>2. \A s \in Scripts : NameFine(s)'
  <2>1. \A x, i : FoundFine(x, i)' <=> FoundFine(x, i)
    BY <1>1 DEF FoundFine
  <2>2. \A x, i, id : InPlace(x, i, id)' <=> InPlace(x, i, id)
    BY <1>1 DEF InPlace
  <2>3. \A x : Spelled(x)' = Spelled(x)
    BY DEF Spelled
  <2> QED
    BY <1>1, <2>1, <2>2, <2>3 DEF NamesInv, NameFine
<1>3. CreatorsKnown'
  BY DEF NamesInv, CreatorsKnown, Pending
<1>4. NamesApart'
  BY DEF NamesInv, NamesApart
<1>5. RunsNamed'
  BY <1>1 DEF NamesInv, RunsNamed
<1> QED
  BY <1>2, <1>3, <1>4, <1>5 DEF NamesInv

LEMMA CodeSteps == ASSUME CodeInv, CodeStep PROVE CodeInv'
<1>1. CodeRanges /\ ScorersInv /\ SendsInv /\ NamesInv
  BY DEF CodeInv
<1>2. CASE GradeJob
  <2>1. UNCHANGED <<named, scorers, attached, runs, items, jobs, doing, begun, apart, wasted>> /\ graded' \subseteq jobs
    BY <1>1, <1>2 DEF GradeJob, CodeRanges
  <2>2. CodeRanges'
    BY <1>1, <2>1 DEF CodeRanges
  <2>3. ScorersInv'
    BY <1>1, <2>1 DEF ScorersInv, At
  <2>4. SendsInv'
    BY <1>1, <2>1 DEF SendsInv, SendFine, BatchesApart, ItemsFine, RunsFine, At, ItemsOf, Recorded
  <2>5. NamesInv'
    BY <1>1, <2>1, NamesSame
  <2> QED
    BY <2>2, <2>3, <2>4, <2>5 DEF CodeInv
<1>3. ASSUME NEW s \in Scripts,
             \/ CreateDataset(s) \/ BeginPush(s) \/ PushScorer(s) \/ ReadDatasets(s) \/ PushDataset(s) \/ PushExamples(s)
             \/ ReadAgain(s) \/ AttachScorer(s) \/ StartRun(s) \/ HoldDataset(s) \/ OpenRun(s)
             \/ BeginBatch(s) \/ PublishResult(s) \/ AddItems(s) \/ SetTotal(s) \/ FailBatch(s)
             \/ ReadRunReport(s) \/ SummarizeAndFinalize(s)
      PROVE  CodeInv'
  <2>1. CodeRanges'
    BY <1>1, <1>3, Creating, PushRanges, RunRanges
  <2>2. ScorersInv'
    BY <1>1, <1>3, ScorersStep
  <2>3. SendsInv'
    BY <1>1, <1>3, <2>1, SendsStep
  <2>4. NamesInv'
    BY <1>1, <1>3, <2>1, NamesStep
  <2> QED
    BY <2>1, <2>2, <2>3, <2>4 DEF CodeInv
<1> QED
  BY <1>2, <1>3 DEF CodeStep

\* Nothing else moves it.
LEMMA CodeStays == ASSUME CodeInv, UNCHANGED codeVars PROVE CodeInv'
<1>1. UNCHANGED <<named, scorers, attached, runs, items, jobs, graded, doing, begun, apart, wasted>>
  BY DEF codeVars
<1>2. CodeRanges'
  BY <1>1 DEF CodeInv, CodeRanges
<1>3. ScorersInv'
  BY <1>1 DEF CodeInv, ScorersInv, At
<1>4. SendsInv'
  BY <1>1 DEF CodeInv, SendsInv, SendFine, BatchesApart, ItemsFine, RunsFine, At, ItemsOf, Recorded
<1>5. NamesInv'
  BY <1>1, NamesSame DEF CodeInv
<1> QED
  BY <1>2, <1>3, <1>4, <1>5 DEF CodeInv

LEMMA RemoteStays == ASSUME RemoteInv, UNCHANGED remoteVars PROVE RemoteInv'
<1>1. UNCHANGED <<offered, by, queued, polls, can, handed, lost, triggered>>
  BY DEF remoteVars
<1>2. RemoteRanges'
  BY <1>1 DEF RemoteInv, RemoteRanges
<1>3. RequestsKnown'
  BY <1>1 DEF RemoteInv, RequestsKnown
<1>4. RequestsOrdered'
  BY <1>1 DEF RemoteInv, RequestsOrdered
<1>5. RequestsKept'
  BY <1>1 DEF RemoteInv, RequestsKept
<1> QED
  BY <1>2, <1>3, <1>4, <1>5 DEF RemoteInv

\* What was accounted for follows.
LEMMA CodeInvAccounts == ASSUME CodeInv PROVE OneByName /\ PushesStand /\ LocalRunsAccounted
<1>1. CodeRanges /\ ScorersInv /\ SendsInv /\ NamesInv
  BY DEF CodeInv
<1>2. DOMAIN named = 1..Len(named) /\ DOMAIN runs = 1..Len(runs)
  BY <1>1, RunsKept
<1>3. \A x, y : \A i \in Matches(x), j \in Matches(y) : Folded[x] = Folded[y] /\ i # j => Folded[x] \in apart
  BY <1>1, <1>2 DEF NamesInv, NamesApart, Matches
<1>4. OneByName
  <2>1. ASSUME NEW m \in DOMAIN runs, NEW n \in DOMAIN runs, Folded[runs[m].name] = Folded[runs[n].name],
               runs[m].set # runs[n].set
        PROVE  Folded[runs[m].name] \in apart
    BY <1>1, <1>2, <1>3, <2>1 DEF NamesInv, RunsNamed
  <2> QED
    BY <1>1, <1>2, <2>1 DEF OneByName, NamesInv, NamesApart
<1>5. PushesStand
  <2>1. ASSUME NEW s \in Scripts, At(s, "pushed"), NEW k \in DOMAIN doing[s].names
        PROVE  /\ doing[s].id \in named[doing[s].into[k]].rows
               /\ <<doing[s].into[k], doing[s].slug>> \in attached \/ Folded[doing[s].names[k]] \in apart
    <3> DEFINE name == doing[s].names[k]
    <3>1. NameFine(s) /\ doing[s].stage = "pushed"
      BY <1>1, <2>1 DEF NamesInv, At
    <3>2. /\ doing[s].into[k] \in Matches(name) /\ doing[s].found[k] \in Matches(name)
          /\ doing[s].id \in named[doing[s].into[k]].rows /\ <<doing[s].found[k], doing[s].slug>> \in attached
      BY <3>1 DEF NameFine, InPlace
    <3> QED
      BY <1>3, <3>2
  <2> QED
    BY <1>1, <2>1 DEF PushesStand, ScorersInv
<1>6. LocalRunsAccounted
  <2> DEFINE underway == UNION {doing[s].batch : s \in {x \in Scripts : At(x, "post")}}
  <2>1. \A i, j \in items : i.trace \in jobs /\ (i.trace = j.trace => i = j)
    BY <1>1 DEF CodeRanges, SendsInv, ItemsFine
  <2>2. jobs \subseteq Recorded \cup wasted \cup underway
    BY <1>1 DEF SendsInv, ItemsFine
  <2>3. wasted \cap Recorded = {}
    BY <1>1 DEF SendsInv, ItemsFine
  <2>4. \A s \in Scripts : At(s, "answered") => doing[s].batch \subseteq ItemsOf(doing[s].run)
    BY <1>1 DEF SendsInv, SendFine, At
  <2>5. \A n \in DOMAIN runs : /\ runs[n].total =< Cardinality(ItemsOf(n))
                               /\ runs[n].status = "complete" => runs[n].summary = 0
    BY <1>1, <1>2 DEF SendsInv, RunsFine
  <2> QED
    BY <2>1, <2>2, <2>3, <2>4, <2>5 DEF LocalRunsAccounted, Recorded
<1> QED
  BY <1>4, <1>5, <1>6

-----------------------------------------------------------------------------
(* Labels. *)

Requests == {r \in Labellers : setting[r] # Nothing}
LabelOf(row) == <<row.trace, row.name>>

LabelRanges ==
  /\ labels \subseteq Rows /\ setting \in [Labellers -> Rows \cup {Nothing}]
  /\ landed \subseteq Requests /\ crossing \subseteq Labellers
  /\ DOMAIN said = Labelled \X Names

\* Stamps are given out one by one.
StampsGiven ==
  /\ \A r \in Requests : setting[r].stamp =< Cardinality(Requests)
  /\ \A row \in labels : row.stamp =< Cardinality(Requests)

\* Two requests on one label that are both underway know of each other; one that is
\* alone has a newer stamp than any row of its label.
CrossingKnown ==
  \A r, o \in Requests \ landed :
    r # o /\ LabelOf(setting[r]) = LabelOf(setting[o]) => r \in crossing

AloneIsNewest ==
  \A r \in Requests \ (landed \cup crossing), row \in labels :
    LabelOf(row) = LabelOf(setting[r]) => row.stamp < setting[r].stamp

\* The newest rows of a label say what may be shown.
NewestSaid ==
  \A l \in Labelled \X Names :
    /\ \A row \in Final(l[1], l[2]) : row.value \in said[l]
    /\ said[l] # {} => \E row \in labels : LabelOf(row) = l

LabelsInv == LabelRanges /\ StampsGiven /\ CrossingKnown /\ AloneIsNewest /\ NewestSaid

LEMMA LabelsInvShows == ASSUME LabelsInv PROVE LabelsShowLastWord
<1> SUFFICES ASSUME NEW t \in Labelled, NEW n \in Names, said[<<t, n>>] # {}
             PROVE  Shown(t, n) \in said[<<t, n>>]
  BY DEF LabelsShowLastWord
<1> DEFINE mine == {row \in labels : row.trace = t /\ row.name = n}
           stamps == {row.stamp : row \in mine}
<1>1. PICK row \in labels : LabelOf(row) = <<t, n>>
  BY DEF LabelsInv, NewestSaid
<1>2. row \in mine /\ stamps # {}
  BY <1>1 DEF LabelOf
<1>3. Cardinality(Labellers) \in Nat
  BY LabellersAssumption, FS_CardinalityType
<1>4. stamps \in SUBSET (0..Cardinality(Labellers))
  BY <1>3 DEF LabelsInv, LabelRanges, Rows
<1>5. PICK s \in stamps : \A x \in stamps : x =< s
  BY <1>2, <1>3, <1>4, NatMax
<1>6. PICK top \in mine : top.stamp = s
  OBVIOUS
<1>7. top \in Final(t, n)
  BY <1>5, <1>6 DEF Final
<1>8. \A x \in Final(t, n) : x.value \in said[<<t, n>>]
  BY DEF LabelsInv, NewestSaid
<1> QED
  BY <1>7, <1>8 DEF Shown

LEMMA LabelsBegin ==
  ASSUME NEW before \in SUBSET {row \in Rows : row.stamp = 0}, LabelsInit(before)
  PROVE  LabelsInv
<1>1. Requests = {} /\ Cardinality(Requests) = 0 /\ landed = {} /\ crossing = {} /\ labels = before
  BY FS_EmptySet DEF LabelsInit, Requests
<1>2. LabelRanges
  BY <1>1 DEF LabelsInit, LabelRanges
<1>3. NewestSaid
  <2> SUFFICES ASSUME NEW l \in Labelled \X Names
               PROVE  /\ \A row \in Final(l[1], l[2]) : row.value \in said[l]
                      /\ said[l] # {} => \E row \in labels : LabelOf(row) = l
    BY DEF NewestSaid
  <2>1. said[l] = {row.value : row \in {x \in before : <<x.trace, x.name>> = l}}
    BY DEF LabelsInit
  <2>2. l = <<l[1], l[2]>>
    OBVIOUS
  <2> QED
    BY <1>1, <2>1, <2>2 DEF Final, LabelOf
<1> QED
  BY <1>1, <1>2, <1>3 DEF LabelsInv, StampsGiven, CrossingKnown, AloneIsNewest

LEMMA StampInv ==
  ASSUME LabelsInv, NEW r \in Labellers, NEW t \in Labelled, NEW n \in Names,
         NEW v \in Values(n), Stamp(r, t, n, v)
  PROVE  LabelsInv'
<1> DEFINE row == [trace |-> t, name |-> n, value |-> v, stamp |-> Cardinality(Requests) + 1]
           others == {o \in Requests \ landed : setting[o].trace = t /\ setting[o].name = n}
<1>1. /\ setting[r] = Nothing /\ setting' = [setting EXCEPT ![r] = row]
      /\ crossing' = crossing \cup others \cup (IF others = {} THEN {} ELSE {r})
      /\ UNCHANGED <<labels, landed, said>>
  BY DEF Stamp, Requests
<1>2. IsFiniteSet(Requests) /\ Cardinality(Requests) \in Nat /\ Cardinality(Labellers) \in Nat
      /\ Cardinality(Requests) + 1 =< Cardinality(Labellers)
  <2>1. Requests \subseteq Labellers \ {r}
    BY <1>1 DEF Requests
  <2>2. IsFiniteSet(Labellers \ {r}) /\ Cardinality(Labellers \ {r}) = Cardinality(Labellers) - 1
    BY LabellersAssumption, FS_RemoveElement
  <2>3. IsFiniteSet(Requests) /\ Cardinality(Requests) =< Cardinality(Labellers \ {r})
    BY <2>1, <2>2, FS_Subset
  <2> QED
    BY <2>2, <2>3, LabellersAssumption, FS_CardinalityType
<1>3. row \in Rows /\ row # Nothing
  <2>1. row \in Rows
    BY <1>2 DEF Rows, Values
  <2> QED
    BY <2>1, NothingIsNoRow
<1> HIDE DEF row
<1>4. /\ setting' \in [Labellers -> Rows \cup {Nothing}] /\ setting'[r] = row
      /\ \A o \in Labellers : o # r => setting'[o] = setting[o]
  BY <1>1, <1>3 DEF LabelsInv, LabelRanges
<1>5. Requests' = Requests \cup {r} /\ r \notin Requests
  BY <1>1, <1>3, <1>4 DEF Requests
<1>6. Cardinality(Requests') = Cardinality(Requests) + 1
  BY <1>2, <1>5, FS_AddElement
<1>7. row.stamp = Cardinality(Requests) + 1 /\ LabelOf(row) = <<t, n>>
  BY DEF row, LabelOf
<1>8. \A o \in Requests : o # r /\ setting'[o] = setting[o] /\ setting[o] \in Rows
  BY <1>4, <1>5 DEF Requests, LabelsInv, LabelRanges
<1>9. LabelRanges'
  BY <1>1, <1>4, <1>5 DEF LabelsInv, LabelRanges, Requests
<1>10. StampsGiven'
  <2>1. \A o \in Requests : setting[o].stamp \in Nat
    BY <1>8 DEF Rows
  <2>2. \A x \in labels : x.stamp \in Nat
    BY DEF LabelsInv, LabelRanges, Rows
  <2>3. \A o \in Requests' : setting'[o].stamp =< Cardinality(Requests')
    <3>1. \A o \in Requests : setting'[o].stamp =< Cardinality(Requests) + 1
      BY <1>2, <1>8, <2>1 DEF LabelsInv, StampsGiven
    <3>2. row.stamp =< Cardinality(Requests) + 1
      BY <1>2, <1>7
    <3> QED
      BY <1>4, <1>5, <1>6, <3>1, <3>2
  <2>4. \A x \in labels : x.stamp =< Cardinality(Requests) + 1
    BY <1>2, <2>2 DEF LabelsInv, StampsGiven
  <2> QED
    BY <1>1, <1>6, <2>3, <2>4 DEF StampsGiven
<1>11. CrossingKnown'
  <2> SUFFICES ASSUME NEW x \in Requests' \ landed', NEW o \in Requests' \ landed', x # o,
                      LabelOf(setting'[x]) = LabelOf(setting'[o])
               PROVE  x \in crossing'
    BY DEF CrossingKnown, LabelOf
  <2>1. \A p \in Requests \ landed : LabelOf(setting[p]) = <<t, n>> => p \in others
    BY DEF LabelOf
  <2>2. CASE x = r
    <3>1. o \in others
      BY <1>1, <1>4, <1>5, <1>7, <1>8, <2>1, <2>2
    <3> QED
      BY <1>1, <2>2, <3>1
  <2>3. CASE o = r
    <3>1. x \in others
      BY <1>1, <1>4, <1>5, <1>7, <1>8, <2>1, <2>3
    <3> QED
      BY <1>1, <3>1
  <2>4. CASE x # r /\ o # r
    BY <1>1, <1>5, <1>8, <2>4 DEF LabelsInv, CrossingKnown
  <2> QED
    BY <2>2, <2>3, <2>4
<1>12. AloneIsNewest'
  <2>1. \A x \in labels : x.stamp < row.stamp
    BY <1>2, <1>7 DEF LabelsInv, LabelRanges, StampsGiven, Rows
  <2> QED
    BY <1>1, <1>4, <1>5, <1>8, <2>1 DEF LabelsInv, AloneIsNewest, LabelOf
<1>13. NewestSaid'
  BY <1>1 DEF LabelsInv, NewestSaid, Final, LabelOf
<1> QED
  BY <1>9, <1>10, <1>11, <1>12, <1>13 DEF LabelsInv

LEMMA LandInv == ASSUME LabelsInv, NEW r \in Labellers, Land(r) PROVE LabelsInv'
<1> DEFINE row == setting[r]
           l == <<row.trace, row.name>>
<1>1. /\ r \in Requests \ landed /\ labels' = labels \cup {row} /\ landed' = landed \cup {r}
      /\ said' = [said EXCEPT ![l] = IF r \in crossing THEN @ \cup {row.value} ELSE {row.value}]
      /\ UNCHANGED <<setting, crossing>> /\ Requests' = Requests
  BY DEF Land, Requests
<1>2. row \in Rows /\ l \in Labelled \X Names /\ LabelOf(row) = l
  BY <1>1 DEF LabelsInv, LabelRanges, Requests, Rows, LabelOf
<1> HIDE DEF row
<1>3. LabelRanges'
  BY <1>1, <1>2 DEF LabelsInv, LabelRanges
<1>4. StampsGiven'
  BY <1>1 DEF LabelsInv, StampsGiven, row
<1>5. CrossingKnown'
  BY <1>1 DEF LabelsInv, CrossingKnown, LabelOf
<1>6. AloneIsNewest'
  <2> SUFFICES ASSUME NEW o \in Requests \ (landed' \cup crossing), NEW x \in labels',
                      LabelOf(x) = LabelOf(setting[o])
               PROVE  x.stamp < setting[o].stamp
    BY <1>1 DEF AloneIsNewest, LabelOf
  <2>1. CASE x \in labels
    BY <1>1, <2>1 DEF LabelsInv, AloneIsNewest
  <2>2. CASE x = row
    <3>1. o # r /\ o \in Requests \ landed
      BY <1>1
    <3>2. LabelOf(setting[o]) = LabelOf(setting[r])
      BY <2>2 DEF row
    <3> QED
      BY <1>1, <3>1, <3>2 DEF LabelsInv, CrossingKnown
  <2> QED
    BY <1>1, <2>1, <2>2
<1>7. NewestSaid'
  <2> SUFFICES ASSUME NEW k \in Labelled \X Names
               PROVE  /\ \A x \in Final(k[1], k[2])' : x.value \in said'[k]
                      /\ said'[k] # {} => \E x \in labels' : LabelOf(x)= k
    BY DEF NewestSaid, LabelOf
  <2>0. k = <<k[1], k[2]>> /\ DOMAIN said = Labelled \X Names
    BY DEF LabelsInv, LabelRanges
  <2>1. \A x \in Final(k[1], k[2]) : x.value \in said[k]
    BY DEF LabelsInv, NewestSaid
  <2>2. CASE k # l
    <3>1. said'[k] = said[k]
      BY <1>1, <2>0, <2>2
    <3>2. Final(k[1], k[2])' = Final(k[1], k[2])
      <4>1. ~(row.trace = k[1] /\ row.name = k[2])
        BY <2>0, <2>2
      <4> QED
        BY <1>1, <4>1 DEF Final
    <3> QED
      BY <1>1, <2>1, <3>1, <3>2 DEF LabelsInv, NewestSaid
  <2>3. CASE k = l
    <3>1. said'[k] = IF r \in crossing THEN said[k] \cup {row.value} ELSE {row.value}
      BY <1>1, <1>2, <2>0, <2>3
    <3>2. ASSUME NEW x \in Final(k[1], k[2])' PROVE x.value \in said'[k]
      <4>1. x \in labels' /\ x.trace = k[1] /\ x.name = k[2]
            /\ \A y \in labels' : y.trace = k[1] /\ y.name = k[2] => y.stamp =< x.stamp
        BY <3>2 DEF Final
      <4>2. CASE x = row
        BY <3>1, <4>2
      <4>3. CASE x # row
        <5>1. x \in Final(k[1], k[2])
          BY <1>1, <4>1, <4>3 DEF Final
        <5>2. row.trace = k[1] /\ row.name = k[2] /\ row.stamp =< x.stamp /\ row.stamp \in Nat /\ x.stamp \in Nat
          BY <1>1, <1>2, <2>0, <2>3, <4>1, <4>3 DEF LabelsInv, LabelRanges, Rows
        <5>3. r \in crossing
          <6>1. LabelOf(x) = LabelOf(row) /\ x \in labels
            BY <1>1, <4>1, <4>3, <5>2 DEF LabelOf
          <6>2. r \notin crossing => x.stamp < row.stamp
            BY <1>1, <6>1 DEF LabelsInv, AloneIsNewest, row
          <6> QED
            BY <5>2, <6>2
        <5> QED
          BY <2>1, <3>1, <5>1, <5>3
      <4> QED
        BY <4>2, <4>3
    <3>3. row \in labels' /\ LabelOf(row) = k
      BY <1>1, <1>2, <2>3
    <3> QED
      BY <3>2, <3>3
  <2> QED
    BY <2>2, <2>3
<1> QED
  BY <1>3, <1>4, <1>5, <1>6, <1>7 DEF LabelsInv

LEMMA LabelsSteps == ASSUME LabelsInv, LabelsStep PROVE LabelsInv'
<1> SUFFICES ASSUME NEW r \in Labellers, AddTag(r) \/ RemoveTag(r) \/ FlagTrace(r) \/ ResolveFlag(r) \/ Land(r)
             PROVE  LabelsInv'
  BY DEF LabelsStep
<1>1. CASE \E t \in Labelled, n \in Names : \E v \in Values(n) : Stamp(r, t, n, v)
  BY <1>1, StampInv
<1>2. AddTag(r) \/ RemoveTag(r) \/ FlagTrace(r) \/ ResolveFlag(r)
        => \E t \in Labelled, n \in Names : \E v \in Values(n) : Stamp(r, t, n, v)
  <2>1. \A n \in Tags : n \in Names /\ "on" \in Values(n) /\ "off" \in Values(n)
    BY LabellersAssumption DEF Names, Values
  <2>2. "flag" \in Names /\ "open" \in Values("flag") /\ "resolved" \in Values("flag")
    BY DEF Names, Values
  <2>3. AddTag(r) \/ RemoveTag(r) => \E t \in Labelled, n \in Names : \E v \in Values(n) : Stamp(r, t, n, v)
    BY <2>1 DEF AddTag, RemoveTag
  <2>4. FlagTrace(r) \/ ResolveFlag(r) => \E t \in Labelled, n \in Names : \E v \in Values(n) : Stamp(r, t, n, v)
    BY <2>2 DEF FlagTrace, ResolveFlag
  <2> QED
    BY <2>3, <2>4
<1> QED
  BY <1>1, <1>2, LandInv

LEMMA LabelsStay == ASSUME LabelsInv, UNCHANGED labelVars PROVE LabelsInv'
<1>1. UNCHANGED labelVars /\ UNCHANGED <<labels, setting, landed, crossing, said>>
  BY DEF labelVars
<1>2. LabelRanges' /\ StampsGiven'
  BY <1>1 DEF LabelsInv, LabelRanges, Requests, StampsGiven
<1>3. CrossingKnown' /\ AloneIsNewest'
  BY <1>1 DEF LabelsInv, Requests, CrossingKnown, AloneIsNewest, LabelOf
<1>4. NewestSaid'
  BY <1>1 DEF LabelsInv, NewestSaid, Final, LabelOf
<1> QED
  BY <1>2, <1>3, <1>4 DEF LabelsInv
-----------------------------------------------------------------------------
(* The rubric. *)

Fresh(x) == asking[x].stage \in {"idle", "add"}

\* The questions a request has read and still goes by.
Holds(r, k, q) ==
  \/ Is(r, "edit") /\ k = asking[r].key /\ q = asking[r].read
  \/ Reviews(r) /\ k \in DOMAIN asking[r].answers /\ q = asking[r].rubric[k]

AskingRanges ==
  /\ DOMAIN asking = Reviewers /\ rubric \in [Keys -> Questions \cup {Nothing}]
  /\ \A r \in Reviewers :
       /\ Is(r, "add") => asking[r].key \in Keys /\ asking[r].field \in Fields
       /\ Is(r, "edit") => asking[r].key \in Keys /\ asking[r].read \in Questions
       /\ Reviews(r) => /\ DOMAIN asking[r].answers \subseteq Keys
                        /\ asking[r].rubric \in [DOMAIN asking[r].answers -> Questions]

\* A question was added by a request that is done with it, and keeps its kind.
QuestionsKeep ==
  /\ \A k \in Asked : ~Fresh(rubric[k].id)
  /\ \A r \in Reviewers, k \in Keys, q \in Questions : Holds(r, k, q) =>
       /\ ~Fresh(q.id)
       /\ k \in Asked /\ rubric[k].id = q.id => rubric[k].kind = q.kind

\* A request that adds a question while no other does finds the room it counted.
RoomKept ==
  crowded = {} =>
    /\ Cardinality(Asked) =< MaxFields
    /\ \A r \in Reviewers : Is(r, "add") =>
         /\ Cardinality(Asked) < MaxFields
         /\ \A o \in Reviewers : Is(o, "add") => o = r

RubricInv == AskingRanges /\ QuestionsKeep /\ RoomKept

LEMMA RubricInvHolds == ASSUME RubricInv PROVE RubricHolds
<1>1. ASSUME NEW r \in Reviewers, Reviews(r), NEW k \in DOMAIN asking[r].rubric,
             k \in Asked, rubric[k].id = asking[r].rubric[k].id
      PROVE  rubric[k].kind = asking[r].rubric[k].kind
  <2>1. k \in DOMAIN asking[r].answers /\ k \in Keys /\ asking[r].rubric[k] \in Questions
    BY <1>1 DEF RubricInv, AskingRanges
  <2>2. Holds(r, k, asking[r].rubric[k])
    BY <1>1, <2>1 DEF Holds
  <2> QED
    BY <1>1, <2>1, <2>2 DEF RubricInv, QuestionsKeep
<1> QED
  BY <1>1 DEF RubricInv, RoomKept, RubricHolds

LEMMA QuestionParts ==
  /\ \A q \in Questions : q.id \in Reviewers /\ q.kind \in {"text", "boolean", "slider", "choice"} /\ q # Nothing
  /\ \A r \in Reviewers, f \in Fields : Question(r, f) \in Questions /\ Question(r, f).id = r
BY RubricAssumption DEF Questions, Question

LEMMA AskedFinite ==
  ASSUME AskingRanges
  PROVE  /\ Asked \subseteq Keys /\ IsFiniteSet(Asked) /\ Cardinality(Asked) \in Nat
         /\ \A k \in Asked : rubric[k] \in Questions /\ rubric[k].id \in Reviewers
<1>1. Asked \subseteq Keys
  BY DEF Asked
<1>2. IsFiniteSet(Asked) /\ Cardinality(Asked) \in Nat
  BY <1>1, RubricAssumption, FS_Subset, FS_CardinalityType
<1>3. \A k \in Asked : rubric[k] \in Questions
  BY DEF Asked, AskingRanges
<1> QED
  BY <1>1, <1>2, <1>3, QuestionParts

LEMMA Turned ==
  ASSUME AskingRanges, NEW r \in Reviewers, NEW w, asking' = [asking EXCEPT ![r] = w]
  PROVE  /\ DOMAIN asking' = Reviewers /\ asking'[r] = w
         /\ \A o \in Reviewers : o # r => asking'[o] = asking[o]
BY DEF AskingRanges

LEMMA OthersHold ==
  ASSUME AskingRanges, NEW r \in Reviewers, NEW w, asking' = [asking EXCEPT ![r] = w],
         NEW o \in Reviewers, o # r, NEW k, NEW q
  PROVE  /\ Holds(o, k, q)' <=> Holds(o, k, q)
         /\ Fresh(o)' <=> Fresh(o)
         /\ \A stage : Is(o, stage)' <=> Is(o, stage)
         /\ Reviews(o)' <=> Reviews(o)
BY Turned DEF Holds, Fresh, Is, Reviews

LEMMA KeysOthers ==
  ASSUME AskingRanges, NEW r \in Reviewers, NEW w, asking' = [asking EXCEPT ![r] = w],
         rubric' \in [Keys -> Questions \cup {Nothing}],
         w.stage = "add" => w.key \in Keys /\ w.field \in Fields,
         w.stage = "edit" => w.key \in Keys /\ w.read \in Questions,
         w.stage \in {"review", "refused", "failed", "recorded"} =>
           DOMAIN w.answers \subseteq Keys /\ w.rubric \in [DOMAIN w.answers -> Questions]
  PROVE  AskingRanges'
<1>1. DOMAIN asking' = Reviewers /\ asking'[r] = w /\ \A o \in Reviewers : o # r => asking'[o] = asking[o]
  BY Turned
<1> SUFFICES ASSUME NEW o \in Reviewers
             PROVE  /\ Is(o, "add")' => asking'[o].key \in Keys /\ asking'[o].field \in Fields
                    /\ Is(o, "edit")' => asking'[o].key \in Keys /\ asking'[o].read \in Questions
                    /\ Reviews(o)' => /\ DOMAIN asking'[o].answers \subseteq Keys
                                      /\ asking'[o].rubric \in [DOMAIN asking'[o].answers -> Questions]
  BY <1>1 DEF AskingRanges
<1>2. CASE o = r
  BY <1>1, <1>2 DEF Is, Reviews
<1>3. CASE o # r
  BY <1>1, <1>3 DEF AskingRanges, Is, Reviews
<1> QED
  BY <1>2, <1>3

\* What a step leaves of the questions: those a request held or read, those that are
\* asked with their kinds, or one whose request has just added it.
LEMMA QuestionsStep ==
  ASSUME RubricInv, AskingRanges', NEW r \in Reviewers, NEW w, asking' = [asking EXCEPT ![r] = w],
         w.stage # "idle", w.stage = "add" => Idle(r),
         \A k \in Keys, q \in Questions :
           Holds(r, k, q)' => Holds(r, k, q) \/ (k \in Asked /\ q = rubric[k]),
         \A k \in Asked' : \/ k \in Asked /\ rubric'[k].id = rubric[k].id /\ rubric'[k].kind = rubric[k].kind
                           \/ Fresh(r) /\ w.stage # "add" /\ rubric'[k].id = r
  PROVE  QuestionsKeep'
<1>1. AskingRanges /\ QuestionsKeep
  BY DEF RubricInv
<1>2. DOMAIN asking' = Reviewers /\ asking'[r] = w /\ \A o \in Reviewers : o # r => asking'[o] = asking[o]
  BY <1>1, Turned
<1>3. \A x \in Reviewers : Fresh(x)' => Fresh(x)
  BY <1>2 DEF Fresh, Idle, Is
<1>4. \A q \in Questions : q.id \in Reviewers
  BY QuestionParts
<1>5. \A k \in Asked : rubric[k] \in Questions
  BY <1>1, AskedFinite
<1>6. \A k \in Asked' : ~Fresh(rubric[k].id)'
  <2> SUFFICES ASSUME NEW k \in Asked' PROVE ~Fresh(rubric[k].id)'
    OBVIOUS
  <2>1. CASE k \in Asked /\ rubric'[k].id = rubric[k].id
    BY <1>1, <1>3, <1>4, <1>5, <2>1 DEF QuestionsKeep, Fresh
  <2>2. CASE Fresh(r) /\ w.stage # "add" /\ rubric'[k].id = r
    BY <1>2, <2>2 DEF Fresh
  <2> QED
    BY <2>1, <2>2
<1>7. ASSUME NEW o \in Reviewers, NEW k \in Keys, NEW q \in Questions, Holds(o, k, q)'
      PROVE  ~Fresh(q.id)' /\ (k \in Asked' /\ rubric'[k].id = q.id => rubric'[k].kind = q.kind)
  <2>1. Holds(o, k, q) \/ (k \in Asked /\ q = rubric[k])
    <3>1. CASE o = r
      BY <1>7, <3>1
    <3>2. CASE o # r
      BY <1>1, <1>7, <3>2, OthersHold
    <3> QED
      BY <3>1, <3>2
  <2>2. ~Fresh(q.id) /\ (k \in Asked /\ rubric[k].id = q.id => rubric[k].kind = q.kind)
    BY <1>1, <2>1 DEF QuestionsKeep
  <2>3. ~Fresh(q.id)'
    BY <1>3, <1>4, <2>2 DEF Fresh
  <2> QED
    BY <2>2, <2>3
<1> QED
  BY <1>6, <1>7 DEF QuestionsKeep

\* A step that adds no question and begins to add none keeps the room.
LEMMA RoomStep ==
  ASSUME RubricInv, AskingRanges', NEW r \in Reviewers, NEW w, asking' = [asking EXCEPT ![r] = w],
         w.stage # "add", Asked' \subseteq Asked, crowded \subseteq crowded'
  PROVE  RoomKept'
<1>1. AskingRanges
  BY DEF RubricInv
<1>2. DOMAIN asking' = Reviewers /\ asking'[r] = w /\ \A o \in Reviewers : o # r => asking'[o] = asking[o]
  BY <1>1, Turned
<1>3. \A o \in Reviewers : Is(o, "add")' => Is(o, "add")
  BY <1>2 DEF Is
<1>4. Cardinality(Asked') \in Nat /\ Cardinality(Asked) \in Nat /\ Cardinality(Asked') =< Cardinality(Asked)
  BY <1>1, AskedFinite, FS_Subset, FS_CardinalityType
<1> QED
  BY <1>3, <1>4, RubricAssumption DEF RubricInv, RoomKept

LEMMA CountInv == ASSUME RubricInv, NEW r \in Reviewers, CountFields(r) PROVE RubricInv'
<1>1. PICK k \in Keys, f \in Fields : asking' = [asking EXCEPT ![r] = [stage |-> "add", key |-> k, field |-> f]]
  BY DEF CountFields, Turn
<1> DEFINE w == [stage |-> "add", key |-> k, field |-> f]
<1>2. w.stage = "add" /\ w.key \in Keys /\ w.field \in Fields /\ asking' = [asking EXCEPT ![r] = w]
  BY <1>1
<1> HIDE DEF w
<1>3. AskingRanges /\ UNCHANGED rubric /\ Asked' = Asked /\ Idle(r) /\ Cardinality(Asked) < MaxFields
  BY DEF RubricInv, CountFields, Asked
<1>4. rubric' \in [Keys -> Questions \cup {Nothing}]
  BY <1>3 DEF AskingRanges
<1>5. AskingRanges'
  BY <1>2, <1>3, <1>4, KeysOthers
<1>6. DOMAIN asking' = Reviewers /\ asking'[r] = w /\ \A o \in Reviewers : o # r => asking'[o] = asking[o]
  BY <1>2, <1>3, Turned
<1>7. QuestionsKeep'
  <2>1. \A x \in Keys, q \in Questions : ~Holds(r, x, q)'
    BY <1>2, <1>6 DEF Holds, Is, Reviews
  <2> QED
    BY <1>2, <1>3, <1>5, <2>1, QuestionsStep
<1>8. RoomKept'
  <2>1. crowded' = {} => crowded = {} /\ \A o \in Reviewers : ~Is(o, "add")
    BY DEF CountFields
  <2>2. \A o \in Reviewers : Is(o, "add")' => o = r \/ Is(o, "add")
    BY <1>6 DEF Is
  <2>3. Cardinality(Asked) \in Nat
    BY <1>3, AskedFinite
  <2> QED
    BY <1>3, <2>1, <2>2, <2>3, RubricAssumption DEF RubricInv, RoomKept
<1> QED
  BY <1>5, <1>7, <1>8 DEF RubricInv

LEMMA AddFieldInv == ASSUME RubricInv, NEW r \in Reviewers, AddField(r) PROVE RubricInv'
<1> DEFINE w == Ends("done")
           k == asking[r].key
           q == Question(r, asking[r].field)
<1>1. /\ AskingRanges /\ Is(r, "add") /\ asking' = [asking EXCEPT ![r] = w] /\ UNCHANGED crowded
      /\ rubric' = IF k \in Asked THEN rubric ELSE [rubric EXCEPT ![k] = q]
  BY DEF RubricInv, AddField, Turn
<1>2. k \in Keys /\ asking[r].field \in Fields
  BY <1>1 DEF AskingRanges
<1>3. q \in Questions /\ q.id = r /\ q # Nothing
  BY <1>2, QuestionParts
<1>4. w.stage = "done"
  BY DEF Ends
<1> HIDE DEF w, q, k
<1>5. rubric' \in [Keys -> Questions \cup {Nothing}]
  BY <1>1, <1>2, <1>3 DEF AskingRanges
<1>6. AskingRanges'
  BY <1>1, <1>4, <1>5, KeysOthers
<1>7. DOMAIN asking' = Reviewers /\ asking'[r] = w /\ \A o \in Reviewers : o # r => asking'[o] = asking[o]
  BY <1>1, Turned
<1>8. Asked' \subseteq Asked \cup {k}
  BY <1>1, <1>2 DEF Asked, AskingRanges
<1>9. QuestionsKeep'
  <2>1. \A x \in Keys, y \in Questions : ~Holds(r, x, y)'
    BY <1>4, <1>7 DEF Holds, Is, Reviews
  <2>2. \A x \in Asked' : \/ x \in Asked /\ rubric'[x].id = rubric[x].id /\ rubric'[x].kind = rubric[x].kind
                          \/ rubric'[x].id = r
    <3>1. CASE k \in Asked
      BY <1>1, <1>8, <3>1
    <3>2. CASE k \notin Asked
      <4>1. \A x \in Keys : rubric'[x] = IF x = k THEN q ELSE rubric[x]
        BY <1>1, <1>2, <3>2 DEF AskingRanges
      <4>2. \A x \in Asked : x # k /\ x \in Keys
        BY <3>2 DEF Asked
      <4> QED
        BY <1>2, <1>3, <1>8, <4>1, <4>2
    <3> QED
      BY <3>1, <3>2
  <2>3. Fresh(r)
    BY <1>1 DEF Fresh, Is
  <2> QED
    BY <1>1, <1>4, <1>6, <2>1, <2>2, <2>3, QuestionsStep
<1>10. RoomKept'
  <2> SUFFICES ASSUME crowded' = {} PROVE /\ Cardinality(Asked') =< MaxFields
                                         /\ \A o \in Reviewers : ~Is(o, "add")'
    BY DEF RoomKept
  <2>1. crowded = {} /\ Cardinality(Asked) < MaxFields /\ \A o \in Reviewers : Is(o, "add") => o = r
    BY <1>1 DEF RubricInv, RoomKept
  <2>2. \A o \in Reviewers : ~Is(o, "add")'
    BY <1>4, <1>7, <2>1 DEF Is
  <2>3. Cardinality(Asked) \in Nat /\ IsFiniteSet(Asked)
    BY <1>1, AskedFinite
  <2>4. IsFiniteSet(Asked \cup {k})
        /\ (Cardinality(Asked \cup {k}) = Cardinality(Asked) \/ Cardinality(Asked \cup {k}) = Cardinality(Asked) + 1)
    BY <2>3, FS_AddElement
  <2>5. IsFiniteSet(Asked') /\ Cardinality(Asked') =< Cardinality(Asked \cup {k})
    BY <1>8, <2>4, FS_Subset
  <2>6. Cardinality(Asked') \in Nat /\ Cardinality(Asked \cup {k}) \in Nat
    BY <2>4, <2>5, FS_CardinalityType
  <2> QED
    BY <2>1, <2>2, <2>3, <2>4, <2>5, <2>6, RubricAssumption
<1> QED
  BY <1>6, <1>9, <1>10 DEF RubricInv

LEMMA ReadFieldInv == ASSUME RubricInv, NEW r \in Reviewers, ReadField(r) PROVE RubricInv'
<1>1. PICK k \in Asked : asking' = [asking EXCEPT ![r] = [stage |-> "edit", key |-> k, read |-> rubric[k]]]
  BY DEF ReadField, Turn
<1> DEFINE w == [stage |-> "edit", key |-> k, read |-> rubric[k]]
<1>2. AskingRanges /\ UNCHANGED <<rubric, crowded>> /\ Asked' = Asked
  BY DEF RubricInv, ReadField, Asked
<1>3. k \in Keys /\ rubric[k] \in Questions
  BY <1>2, AskedFinite
<1>4. w.stage = "edit" /\ w.key = k /\ w.read = rubric[k] /\ asking' = [asking EXCEPT ![r] = w]
  BY <1>1
<1> HIDE DEF w
<1>5. AskingRanges'
  <2>1. rubric' \in [Keys -> Questions \cup {Nothing}]
    BY <1>2 DEF AskingRanges
  <2> QED
    BY <1>2, <1>3, <1>4, <2>1, KeysOthers
<1>6. asking'[r] = w
  BY <1>2, <1>4, Turned
<1>7. \A x \in Keys, q \in Questions : Holds(r, x, q)' => x \in Asked /\ q = rubric[x]
  BY <1>4, <1>6 DEF Holds, Is, Reviews
<1>8. QuestionsKeep'
  BY <1>2, <1>4, <1>5, <1>7, QuestionsStep
<1>9. RoomKept'
  BY <1>2, <1>4, <1>5, RoomStep
<1> QED
  BY <1>5, <1>8, <1>9 DEF RubricInv

LEMMA EditFieldInv == ASSUME RubricInv, NEW r \in Reviewers, EditField(r) PROVE RubricInv'
<1> DEFINE w == Ends("done")
           k == asking[r].key
           q == asking[r].read
<1>1. PICK f \in Fields :
        /\ f.kind = q.kind
        /\ rubric' = IF k \in Asked /\ rubric[k].id = q.id
                       THEN [rubric EXCEPT ![k] = [id |-> @.id, kind |-> @.kind, required |-> f.required, options |-> f.options]]
                       ELSE rubric
  BY DEF EditField
<1>2. AskingRanges /\ QuestionsKeep /\ Is(r, "edit") /\ asking' = [asking EXCEPT ![r] = w] /\ UNCHANGED crowded
  BY DEF RubricInv, EditField, Turn
<1>3. k \in Keys /\ q \in Questions /\ w.stage = "done"
  BY <1>2 DEF AskingRanges, Ends
<1>4. k \in Asked /\ rubric[k].id = q.id => rubric[k].kind = f.kind
  <2>1. Holds(r, k, q)
    BY <1>2 DEF Holds
  <2> QED
    BY <1>1, <1>2, <1>3, <2>1 DEF QuestionsKeep
<1> DEFINE n == [id |-> rubric[k].id, kind |-> rubric[k].kind, required |-> f.required, options |-> f.options]
<1>5. k \in Asked /\ rubric[k].id = q.id =>
        n \in Questions /\ n.id = rubric[k].id /\ n.kind = rubric[k].kind /\ n # Nothing
  <2> SUFFICES ASSUME k \in Asked, rubric[k].id = q.id
               PROVE  n \in Questions /\ n.id = rubric[k].id /\ n.kind = rubric[k].kind /\ n # Nothing
    OBVIOUS
  <2>1. PICK x \in Reviewers, g \in Fields : rubric[k] = Question(x, g)
    BY <1>2, AskedFinite DEF Questions
  <2>2. g.kind = f.kind
    BY <1>4, <2>1 DEF Question
  <2>3. n = Question(x, f)
    <3>1. rubric[k] = [id |-> x, kind |-> f.kind, required |-> g.required, options |-> g.options]
      BY <2>1, <2>2 DEF Question
    <3>2. n = [id |-> x, kind |-> f.kind, required |-> f.required, options |-> f.options]
      BY <3>1
    <3> QED
      BY <3>2 DEF Question
  <2>4. n \in Questions
    BY <2>1, <2>3 DEF Questions
  <2>5. n.id = x /\ n.kind = f.kind /\ rubric[k].id = x /\ rubric[k].kind = f.kind
    BY <2>1, <2>2, <2>3 DEF Question
  <2> QED
    BY <2>4, <2>5, QuestionParts
<1>6. k \in Asked /\ rubric[k].id = q.id => rubric' = [rubric EXCEPT ![k] = n]
  BY <1>1, <1>2, <1>3 DEF AskingRanges
<1> HIDE DEF n, w, k, q
<1>7. rubric' \in [Keys -> Questions \cup {Nothing}]
  BY <1>1, <1>2, <1>3, <1>5, <1>6 DEF AskingRanges
<1>8. \A x \in Asked' : x \in Asked /\ rubric'[x].id = rubric[x].id /\ rubric'[x].kind = rubric[x].kind
  <2>1. CASE k \in Asked /\ rubric[k].id = q.id
    <3>1. \A x \in Keys : rubric'[x] = IF x = k THEN n ELSE rubric[x]
      BY <1>2, <1>3, <1>6, <2>1 DEF AskingRanges
    <3> QED
      BY <1>3, <1>5, <2>1, <3>1 DEF Asked
  <2>2. CASE ~(k \in Asked /\ rubric[k].id = q.id)
    BY <1>1, <2>2 DEF Asked
  <2> QED
    BY <2>1, <2>2
<1>9. AskingRanges'
  BY <1>2, <1>3, <1>7, KeysOthers
<1>10. \A x \in Keys, y \in Questions : ~Holds(r, x, y)'
  <2>1. asking'[r] = w
    BY <1>2, Turned
  <2> QED
    BY <1>3, <2>1 DEF Holds, Is, Reviews
<1>11. QuestionsKeep'
  BY <1>2, <1>3, <1>8, <1>9, <1>10, QuestionsStep
<1>12. RoomKept'
  BY <1>2, <1>3, <1>8, <1>9, RoomStep
<1> QED
  BY <1>9, <1>11, <1>12 DEF RubricInv

\* Any other step of a request takes no question but those that are asked.
LEMMA OtherTurns ==
  ASSUME RubricInv, NEW r \in Reviewers, NEW w, asking' = [asking EXCEPT ![r] = w],
         w.stage \notin {"idle", "add", "edit"},
         w.stage \in {"review", "refused", "failed", "recorded"} =>
           \/ /\ Reviews(r) /\ w.answers = asking[r].answers /\ w.rubric = asking[r].rubric
           \/ /\ DOMAIN w.answers \subseteq Asked
              /\ w.rubric = [k \in DOMAIN w.answers |-> rubric[k]],
         \/ UNCHANGED rubric
         \/ \E k \in Asked : rubric' = [rubric EXCEPT ![k] = Nothing],
         crowded \subseteq crowded'
  PROVE  RubricInv'
<1>1. AskingRanges /\ QuestionsKeep
  BY DEF RubricInv
<1>2. rubric' \in [Keys -> Questions \cup {Nothing}] /\ Asked \subseteq Keys /\ \A k \in Asked : rubric[k] \in Questions
  <2>1. Asked \subseteq Keys /\ \A k \in Asked : rubric[k] \in Questions
    BY <1>1, AskedFinite
  <2> QED
    BY <1>1, <2>1 DEF AskingRanges
<1>3. \A x \in Asked' : x \in Asked /\ rubric'[x] = rubric[x]
  <2>1. CASE UNCHANGED rubric
    BY <2>1 DEF Asked
  <2>2. CASE \E k \in Asked : rubric' = [rubric EXCEPT ![k] = Nothing]
    <3>1. PICK k \in Asked : rubric' = [rubric EXCEPT ![k] = Nothing]
      BY <2>2
    <3>2. \A x \in Keys : rubric'[x] = IF x = k THEN Nothing ELSE rubric[x]
      BY <1>1, <3>1 DEF AskingRanges
    <3> QED
      BY <3>2 DEF Asked
  <2> QED
    BY <2>1, <2>2
<1>4. asking'[r] = w
  BY <1>1, Turned
<1>5. AskingRanges'
  <2>1. ASSUME w.stage \in {"review", "refused", "failed", "recorded"}
        PROVE  DOMAIN w.answers \subseteq Keys /\ w.rubric \in [DOMAIN w.answers -> Questions]
    <3>1. CASE Reviews(r) /\ w.answers = asking[r].answers /\ w.rubric = asking[r].rubric
      BY <1>1, <3>1 DEF AskingRanges
    <3>2. CASE DOMAIN w.answers \subseteq Asked /\ w.rubric = [k \in DOMAIN w.answers |-> rubric[k]]
      BY <1>2, <3>2
    <3> QED
      BY <2>1, <3>1, <3>2
  <2> QED
    BY <1>1, <1>2, <2>1, KeysOthers
<1>6. QuestionsKeep'
  <2>1. ASSUME NEW k \in Keys, NEW q \in Questions, Holds(r, k, q)'
        PROVE  Holds(r, k, q) \/ (k \in Asked /\ q = rubric[k])
    <3>1. /\ w.stage \in {"review", "refused", "failed", "recorded"}
          /\ k \in DOMAIN w.answers /\ q = w.rubric[k]
      BY <1>4, <2>1 DEF Holds, Is, Reviews
    <3>2. CASE Reviews(r) /\ w.answers = asking[r].answers /\ w.rubric = asking[r].rubric
      BY <3>1, <3>2 DEF Holds
    <3>3. CASE DOMAIN w.answers \subseteq Asked /\ w.rubric = [x \in DOMAIN w.answers |-> rubric[x]]
      BY <3>1, <3>3
    <3> QED
      BY <3>1, <3>2, <3>3
  <2>2. w.stage # "idle" /\ w.stage # "add"
    OBVIOUS
  <2>3. \A x \in Asked' :
          \/ x \in Asked /\ rubric'[x].id = rubric[x].id /\ rubric'[x].kind = rubric[x].kind
          \/ Fresh(r) /\ w.stage # "add" /\ rubric'[x].id = r
    BY <1>3
  <2>4. \A k \in Keys, q \in Questions : Holds(r, k, q)' => Holds(r, k, q) \/ (k \in Asked /\ q = rubric[k])
    BY <2>1
  <2> QED
    BY <1>5, <2>2, <2>3, <2>4, QuestionsStep
<1>7. RoomKept'
  BY <1>3, <1>5, RoomStep
<1> QED
  BY <1>5, <1>6, <1>7 DEF RubricInv

LEMMA RubricBegins == ASSUME ReviewInit PROVE RubricInv
<1>1. Asked = {} /\ Cardinality(Asked) = 0
  BY FS_EmptySet DEF ReviewInit, Asked
<1>2. \A r \in Reviewers : asking[r].stage = "idle"
  BY DEF ReviewInit, Ends
<1>3. AskingRanges
  BY <1>2 DEF ReviewInit, AskingRanges, Is, Reviews
<1> QED
  BY <1>1, <1>2, <1>3, RubricAssumption DEF RubricInv, QuestionsKeep, RoomKept, Holds, Is, Reviews

LEMMA RubricStays == ASSUME RubricInv, UNCHANGED <<rubric, asking, crowded>> PROVE RubricInv'
BY DEF RubricInv, AskingRanges, QuestionsKeep, RoomKept, Holds, Is, Reviews, Asked, Fresh
-----------------------------------------------------------------------------
(* Reviews. *)

\* The row of an answer the question offered.
AnswerStands(a, row) ==
  \/ a.rubric[row.metric].kind = "text"
  \/ a.rubric[row.metric].kind = "boolean" /\ a.answers[row.metric] \in {"true", "false"}
  \/ /\ a.rubric[row.metric].kind = "slider"
     /\ a.answers[row.metric] \in DOMAIN Number
     /\ row.score = Number[a.answers[row.metric]] /\ row.score =< 10
  \/ /\ a.rubric[row.metric].kind = "choice"
     /\ a.answers[row.metric] \in DOMAIN a.rubric[row.metric].options
     /\ row.score = a.rubric[row.metric].options[a.answers[row.metric]]

Whole(a) ==
  a = [stage |-> a.stage, trace |-> a.trace, answers |-> a.answers, order |-> a.order,
       rubric |-> a.rubric, wrote |-> a.wrote]

\* A review wrote the answers it began with, in their order.
WroteFine(r) ==
  LET a == asking[r]
      n == Cardinality(DOMAIN a.answers)
  IN /\ Whole(a)
     /\ n \in Nat /\ a.order \in SetToSeqs(DOMAIN a.answers) /\ a.wrote \in Seq(Keys) /\ Len(a.wrote) =< n
     /\ a.stage = "recorded" => Len(a.wrote) = n
     /\ {row.metric : row \in RowsFrom(r)} = {a.order[i] : i \in 1..Len(a.wrote)}
     /\ \A row \in RowsFrom(r) : AnswerStands(a, row)

ReviewsInv ==
  \A r \in Reviewers : (Idle(r) => RowsFrom(r) = {}) /\ (Reviews(r) => WroteFine(r))

LEMMA ReviewsInvAccounts == ASSUME AskingRanges, ReviewsInv PROVE ReviewsAccounted
<1> SUFFICES ASSUME NEW r \in Reviewers, Reviews(r)
             PROVE  LET a == asking[r]
                        rows == {row \in evals : row.from = r}
                    IN /\ {row.metric : row \in rows} = {a.order[i] : i \in 1..Len(a.wrote)}
                       /\ a.stage = "recorded" => {row.metric : row \in rows} = DOMAIN a.answers
                       /\ \A row \in rows : AnswerStands(a, row)
  BY DEF ReviewsAccounted, AnswerStands
<1> DEFINE a == asking[r]
           S == DOMAIN a.answers
<1>1. WroteFine(r)
  BY DEF ReviewsInv
<1>2. a.stage = "recorded" => {a.order[i] : i \in 1..Len(a.wrote)} = S
  <2> SUFFICES ASSUME a.stage = "recorded" PROVE {a.order[i] : i \in 1..Len(a.wrote)} = S
    OBVIOUS
  <2> DEFINE n == Cardinality(S)
  <2>1. n \in Nat /\ Len(a.wrote) = n /\ a.order \in SetToSeqs(S)
    BY <1>1 DEF WroteFine
  <2>2. S \subseteq Keys /\ IsFiniteSet(S)
    <3>1. S \subseteq Keys
      BY DEF AskingRanges
    <3> QED
      BY <3>1, RubricAssumption, FS_Subset
  <2>3. a.order \in [1..n -> S] /\ \A i, j \in 1..n : i # j => a.order[i] # a.order[j]
    BY <2>1 DEF SetToSeqs
  <2> HIDE DEF S, a
  <2>4. a.order \in Injection(1..n, S)
    BY <2>3 DEF Injection, IsInjective
  <2>5. Cardinality(1..n) = n
    BY <2>1, FS_Interval
  <2>6. a.order \in Surjection(1..n, S)
    BY <2>2, <2>4, <2>5, FS_Injection
  <2> QED
    BY <2>1, <2>3, <2>6 DEF Surjection
<1> QED
  BY <1>1, <1>2 DEF WroteFine, RowsFrom

LEMMA WroteSame ==
  ASSUME NEW o, asking'[o] = asking[o], RowsFrom(o)' = RowsFrom(o), WroteFine(o)
  PROVE  WroteFine(o)'
<1> DEFINE a == asking[o]
           b == asking'[o]
           rows == RowsFrom(o)
           rows2 == RowsFrom(o)'
<1>1. a = b /\ rows = rows2
  OBVIOUS
<1> HIDE DEF a, b, rows, rows2
<1> QED
  BY <1>1 DEF WroteFine, a, b, rows, rows2

LEMMA ReviewsOthers ==
  ASSUME AskingRanges, ReviewsInv, NEW r \in Reviewers, NEW w, asking' = [asking EXCEPT ![r] = w],
         w.stage # "idle", w.stage \in {"review", "refused", "failed", "recorded"} => WroteFine(r)',
         \A row \in evals' : row \in evals \/ row.from = r, evals \subseteq evals'
  PROVE  ReviewsInv'
<1>1. DOMAIN asking' = Reviewers /\ asking'[r] = w /\ \A o \in Reviewers : o # r => asking'[o] = asking[o]
  BY Turned
<1> SUFFICES ASSUME NEW o \in Reviewers
             PROVE  (Idle(o)' => RowsFrom(o)' = {}) /\ (Reviews(o)' => WroteFine(o)')
  BY DEF ReviewsInv
<1>2. CASE o = r
  BY <1>1, <1>2 DEF Idle, Is, Reviews
<1>3. CASE o # r
  <2>1. asking'[o] = asking[o] /\ RowsFrom(o)' = RowsFrom(o)
    BY <1>1, <1>3 DEF RowsFrom
  <2>2. (Idle(o) => RowsFrom(o) = {}) /\ (Reviews(o) => WroteFine(o))
    BY DEF ReviewsInv
  <2> QED
    BY <2>1, <2>2, WroteSame DEF Idle, Is, Reviews
<1> QED
  BY <1>2, <1>3

\* A request takes up, or ends, a review, a question, or what needs no more than a step.
Speaks(r) ==
  /\ asking' = [asking EXCEPT ![r] = asking'[r]] /\ crowded \subseteq crowded'
  /\ asking'[r].stage \in {"add", "edit", "done", "review", "refused", "failed", "recorded"}

LEMMA ReadRubricReviews ==
  ASSUME RubricInv, ReviewsInv, NEW r \in Reviewers, ReadRubric(r), UNCHANGED evals
  PROVE  RubricInv' /\ ReviewsInv' /\ Speaks(r)
<1>0. PICK t \in Labelled, keys \in SUBSET Asked \ {{}} :
        \E answers \in [keys -> Answers], order \in SetToSeqs(keys) :
          asking' = [asking EXCEPT ![r] = [stage |-> "review", trace |-> t, answers |-> answers, order |-> order,
                                           rubric |-> [k \in keys |-> rubric[k]], wrote |-> <<>>]]
  BY DEF ReadRubric, Turn
<1>1. PICK answers \in [keys -> Answers], order \in SetToSeqs(keys) :
        asking' = [asking EXCEPT ![r] = [stage |-> "review", trace |-> t, answers |-> answers, order |-> order,
                                         rubric |-> [k \in keys |-> rubric[k]], wrote |-> <<>>]]
  BY <1>0
<1> DEFINE w == [stage |-> "review", trace |-> t, answers |-> answers, order |-> order,
                 rubric |-> [k \in keys |-> rubric[k]], wrote |-> <<>>]
<1>2. /\ w.stage = "review" /\ DOMAIN w.answers = keys /\ w.rubric = [k \in keys |-> rubric[k]]
      /\ w.order = order /\ w.wrote = <<>> /\ asking' = [asking EXCEPT ![r] = w]
      /\ Whole(w)
  BY <1>1 DEF Whole
<1> HIDE DEF w
<1>3. AskingRanges /\ Idle(r) /\ UNCHANGED <<rubric, crowded>> /\ keys \subseteq Asked
  BY DEF RubricInv, ReadRubric
<1>4. RubricInv'
  BY <1>2, <1>3, OtherTurns
<1>5. asking'[r] = w
  BY <1>2, <1>3, Turned
<1>6. IsFiniteSet(keys) /\ Cardinality(keys) \in Nat
  BY <1>3, AskedFinite, FS_Subset, FS_CardinalityType
<1>7. RowsFrom(r)' = {}
  BY <1>3 DEF ReviewsInv, RowsFrom
<1>8. WroteFine(r)'
  <2>1. Len(<<>>) = 0 /\ <<>> \in Seq(Keys)
    BY EmptySeq
  <2>2. w.wrote \in Seq(Keys) /\ Len(w.wrote) = 0
    BY <1>2, <2>1
  <2>3. {row.metric : row \in RowsFrom(r)'} = {w.order[i] : i \in 1..Len(w.wrote)}
    BY <1>7, <2>2
  <2>4. /\ w.order \in SetToSeqs(DOMAIN w.answers) /\ Cardinality(DOMAIN w.answers) \in Nat
        /\ Len(w.wrote) =< Cardinality(DOMAIN w.answers) /\ w.stage # "recorded"
    BY <1>2, <1>6, <2>2
  <2>5. \A row \in RowsFrom(r)' : AnswerStands(w, row)
    BY <1>7
  <2>6. Whole(w)
    BY <1>2
  <2> QED
    BY <1>5, <2>2, <2>3, <2>4, <2>5, <2>6 DEF WroteFine
<1>9. ReviewsInv'
  BY <1>2, <1>3, <1>8, ReviewsOthers
<1> QED
  BY <1>2, <1>3, <1>4, <1>5, <1>9 DEF Speaks

LEMMA OneMore ==
  ASSUME NEW a, Whole(a), NEW more
  PROVE  [a EXCEPT !.wrote = more] =
           [stage |-> a.stage, trace |-> a.trace, answers |-> a.answers, order |-> a.order,
            rubric |-> a.rubric, wrote |-> more]
<1> DEFINE b == [stage |-> a.stage, trace |-> a.trace, answers |-> a.answers, order |-> a.order,
                 rubric |-> a.rubric, wrote |-> a.wrote]
           c == [stage |-> a.stage, trace |-> a.trace, answers |-> a.answers, order |-> a.order,
                 rubric |-> a.rubric, wrote |-> more]
<1>1. a = b
  BY DEF Whole
<1>2. [b EXCEPT !.wrote = more] = c
  OBVIOUS
<1> HIDE DEF b, c
<1>3. [a EXCEPT !.wrote = more] = c
  BY <1>1, <1>2
<1> QED
  BY <1>3 DEF c

LEMMA RecordReviews ==
  ASSUME RubricInv, ReviewsInv, NEW r \in Reviewers, RecordAnswer(r)
  PROVE  RubricInv' /\ ReviewsInv' /\ Speaks(r)
<1> DEFINE a == asking[r]
           n == Cardinality(DOMAIN a.answers)
           k == NextKey(r)
           w == [a EXCEPT !.wrote = Append(@, k)]
           row == HumanRow(r, a.trace, "human.annotation", k, ScoreAnswer(a.rubric[k], a.answers[k]), a.rubric[k].kind)
<1>1. /\ AskingRanges /\ Is(r, "review") /\ asking' = [asking EXCEPT ![r] = w] /\ evals' = evals \cup {row}
      /\ Accepts(a.rubric[k], a.answers[k]) /\ Remaining(r) # {} /\ UNCHANGED <<rubric, crowded>>
  BY DEF RubricInv, RecordAnswer, Turn, InsertScores
<1>2. WroteFine(r) /\ Reviews(r)
  BY <1>1 DEF ReviewsInv, Is, Reviews
<1>3. /\ a.order \in [1..n -> DOMAIN a.answers] /\ n \in Nat /\ a.wrote \in Seq(Keys)
      /\ DOMAIN a.answers \subseteq Keys /\ a.rubric \in [DOMAIN a.answers -> Questions]
  BY <1>1, <1>2 DEF WroteFine, SetToSeqs, AskingRanges
<1>4. Len(a.wrote) \in Nat /\ Len(a.wrote) + 1 \in 1..n
  <2>1. Len(a.wrote) \in Nat
    BY <1>3, LenProperties
  <2>2. PICK i \in 1..n : i > Len(a.wrote)
    BY <1>1, <1>3 DEF Remaining
  <2> QED
    BY <1>3, <2>1, <2>2
<1>5. k = a.order[Len(a.wrote) + 1] /\ k \in DOMAIN a.answers /\ k \in Keys /\ a.rubric[k] \in Questions
  BY <1>3, <1>4 DEF NextKey
<1>6. Append(a.wrote, k) \in Seq(Keys) /\ Len(Append(a.wrote, k)) = Len(a.wrote) + 1
  <2> HIDE DEF k
  <2> QED
    BY <1>3, <1>5, AppendProperties
<1>7. /\ w.stage = "review" /\ w.answers = a.answers /\ w.rubric = a.rubric /\ w.order = a.order
      /\ w.wrote = Append(a.wrote, k) /\ Whole(w)
  <2> HIDE DEF k
  <2>1. Whole(a)
    BY <1>2 DEF WroteFine
  <2>2. w = [stage |-> a.stage, trace |-> a.trace, answers |-> a.answers, order |-> a.order,
             rubric |-> a.rubric, wrote |-> Append(a.wrote, k)]
    BY <2>1, OneMore
  <2>3. a.stage = "review"
    BY <1>1 DEF Is
  <2> QED
    BY <2>2, <2>3 DEF Whole
<1>8. RubricInv'
  <2> HIDE DEF w, a
  <2>1. Reviews(r) /\ w.answers = asking[r].answers /\ w.rubric = asking[r].rubric
    BY <1>2, <1>7 DEF a
  <2> QED
    BY <1>1, <1>7, <2>1, OtherTurns
<1>9. asking'[r] = w
  BY <1>1, Turned
<1>10. row.from = r /\ row.metric = k /\ row.score = ScoreAnswer(a.rubric[k], a.answers[k])
  BY DEF HumanRow
<1>11. AnswerStands(a, row)
  <2> DEFINE q == a.rubric[k]
             answer_ == a.answers[k]
  <2>1. /\ q.kind \in {"text", "boolean", "slider", "choice"}
        /\ q.kind = "boolean" => answer_ \in {"true", "false"}
        /\ q.kind = "slider" => answer_ \in DOMAIN Number /\ Number[answer_] \in Score
        /\ q.kind = "choice" => answer_ \in DOMAIN q.options
    BY <1>1, <1>5, QuestionParts DEF Accepts
  <2>2. /\ q.kind = "slider" => row.score = Number[answer_] /\ row.score =< 10
        /\ q.kind = "choice" => row.score = q.options[answer_]
    <3>1. row.score = ScoreAnswer(q, answer_)
      BY <1>10
    <3> HIDE DEF row, k, q, answer_
    <3>2. q.kind = "slider" => row.score = Number[answer_]
      BY <2>1, <3>1 DEF ScoreAnswer
    <3>3. q.kind = "choice" => row.score = q.options[answer_]
      BY <2>1, <3>1 DEF ScoreAnswer
    <3> QED
      BY <2>1, <3>2, <3>3 DEF Score
  <2>3. row.metric = k
    BY <1>10
  <2> HIDE DEF row, k
  <2> QED
    BY <2>1, <2>2, <2>3 DEF AnswerStands
<1> HIDE DEF row, k, w
<1>12. RowsFrom(r)' = RowsFrom(r) \cup {row}
  BY <1>1, <1>10 DEF RowsFrom
<1>13. {x.metric : x \in RowsFrom(r)'} = {a.order[i] : i \in 1..(Len(a.wrote) + 1)}
  <2>1. {x.metric : x \in RowsFrom(r)} = {a.order[i] : i \in 1..Len(a.wrote)}
    BY <1>2 DEF WroteFine
  <2>2. 1..(Len(a.wrote) + 1) = 1..Len(a.wrote) \cup {Len(a.wrote) + 1}
    BY <1>4
  <2>3. {x.metric : x \in RowsFrom(r)'} = {x.metric : x \in RowsFrom(r)} \cup {k}
    BY <1>10, <1>12
  <2>4. {a.order[i] : i \in 1..(Len(a.wrote) + 1)} = {a.order[i] : i \in 1..Len(a.wrote)} \cup {k}
    BY <1>5, <2>2
  <2> QED
    BY <2>1, <2>3, <2>4
<1>14. \A x \in RowsFrom(r)' : AnswerStands(w, x)
  <2>1. \A x \in RowsFrom(r) : AnswerStands(a, x)
    BY <1>2 DEF WroteFine
  <2> QED
    BY <1>7, <1>11, <1>12, <2>1 DEF AnswerStands
<1>15. WroteFine(r)'
  <2>1. Len(w.wrote) = Len(a.wrote) + 1 /\ w.wrote \in Seq(Keys) /\ Len(w.wrote) =< n
    BY <1>3, <1>4, <1>6, <1>7
  <2>2. w.order \in SetToSeqs(DOMAIN w.answers) /\ Cardinality(DOMAIN w.answers) = n
    BY <1>2, <1>7 DEF WroteFine
  <2>3. {x.metric : x \in RowsFrom(r)'} = {w.order[i] : i \in 1..Len(w.wrote)}
    BY <1>7, <1>13, <2>1
  <2> HIDE DEF a, n
  <2> QED
    BY <1>3, <1>7, <1>9, <1>14, <2>1, <2>2, <2>3 DEF WroteFine
<1>16. ReviewsInv'
  BY <1>1, <1>7, <1>10, <1>15, ReviewsOthers
<1> QED
  BY <1>1, <1>7, <1>8, <1>9, <1>16 DEF Speaks

LEMMA EndsReviews ==
  ASSUME RubricInv, ReviewsInv, NEW r \in Reviewers, RefuseAnswer(r) \/ EndReview(r)
  PROVE  RubricInv' /\ ReviewsInv' /\ Speaks(r)
<1> DEFINE a == asking[r]
           n == Cardinality(DOMAIN a.answers)
<1>1. PICK stage \in {"refused", "failed", "recorded"} :
        asking' = [asking EXCEPT ![r] = [a EXCEPT !.stage = stage]] /\ (stage = "recorded" => Remaining(r) = {})
  BY DEF RefuseAnswer, EndReview, Turn
<1> DEFINE w == [a EXCEPT !.stage = stage]
<1>2. AskingRanges /\ Is(r, "review") /\ asking' = [asking EXCEPT ![r] = w] /\ UNCHANGED <<rubric, crowded, evals>>
  BY <1>1 DEF RubricInv, RefuseAnswer, EndReview
<1>3. WroteFine(r) /\ Reviews(r)
  BY <1>2 DEF ReviewsInv, Is, Reviews
<1>4. /\ w.stage = stage /\ w.answers = a.answers /\ w.rubric = a.rubric /\ w.order = a.order /\ w.wrote = a.wrote /\ Whole(w)
  <2>1. a = [stage |-> a.stage, trace |-> a.trace, answers |-> a.answers, order |-> a.order,
             rubric |-> a.rubric, wrote |-> a.wrote]
    BY <1>3 DEF WroteFine, Whole
  <2>2. w = [stage |-> stage, trace |-> a.trace, answers |-> a.answers, order |-> a.order,
             rubric |-> a.rubric, wrote |-> a.wrote]
    BY <2>1
  <2> QED
    BY <2>2 DEF Whole
<1>5. RubricInv'
  <2> HIDE DEF w, a
  <2>1. Reviews(r) /\ w.answers = asking[r].answers /\ w.rubric = asking[r].rubric
    BY <1>3, <1>4 DEF a
  <2> QED
    BY <1>2, <1>4, <2>1, OtherTurns
<1>6. asking'[r] = w
  BY <1>2, Turned
<1> HIDE DEF w
<1>7. stage = "recorded" => Len(a.wrote) = n
  <2>1. a.order \in [1..n -> DOMAIN a.answers] /\ n \in Nat /\ a.wrote \in Seq(Keys) /\ Len(a.wrote) =< n
    BY <1>3 DEF WroteFine, SetToSeqs
  <2>2. Len(a.wrote) \in Nat
    BY <2>1, LenProperties
  <2>3. Remaining(r) = {} => ~(n > Len(a.wrote))
    BY <2>1, <2>2 DEF Remaining
  <2> QED
    BY <1>1, <2>1, <2>2, <2>3
<1>8. WroteFine(r)'
  <2>1. RowsFrom(r)' = RowsFrom(r)
    BY <1>2 DEF RowsFrom
  <2>2. /\ w.order \in SetToSeqs(DOMAIN w.answers) /\ Cardinality(DOMAIN w.answers) = n /\ n \in Nat
        /\ w.wrote \in Seq(Keys) /\ Len(w.wrote) =< n
    BY <1>3, <1>4 DEF WroteFine
  <2>3. {x.metric : x \in RowsFrom(r)'} = {w.order[i] : i \in 1..Len(w.wrote)}
    BY <1>3, <1>4, <2>1 DEF WroteFine
  <2>4. \A x \in RowsFrom(r)' : AnswerStands(w, x)
    BY <1>3, <1>4, <2>1 DEF WroteFine, AnswerStands
  <2>5. w.stage = "recorded" => Len(w.wrote) = n
    BY <1>4, <1>7
  <2> HIDE DEF a, n
  <2> QED
    BY <1>4, <1>6, <2>2, <2>3, <2>4, <2>5 DEF WroteFine
<1>9. ReviewsInv'
  BY <1>2, <1>4, <1>8, ReviewsOthers
<1> QED
  BY <1>2, <1>4, <1>5, <1>6, <1>9 DEF Speaks

LEMMA ReviewsBegin ==
  ASSUME ReviewInit, \A row \in evals : row.from \in Batches
  PROVE  ReviewsInv
<1>1. \A r \in Reviewers : asking[r].stage = "idle"
  BY DEF ReviewInit, Ends
<1> QED
  BY <1>1, BeforeAssumption DEF ReviewsInv, RowsFrom, Reviews

\* What the judges write is no person's.
LEMMA ReviewsStay ==
  ASSUME ReviewsInv, UNCHANGED asking, evals \subseteq evals', \A row \in evals' : row \in evals \/ row.from \in Batches
  PROVE  ReviewsInv'
<1>1. \A r \in Reviewers : RowsFrom(r)' = RowsFrom(r)
  BY BeforeAssumption DEF RowsFrom
<1> QED
  BY <1>1, WroteSame DEF ReviewsInv, Idle, Is, Reviews

\* A step of a request that is no review.
LEMMA RestsReviews ==
  ASSUME RubricInv, ReviewsInv, NEW r \in Reviewers, NEW w, asking' = [asking EXCEPT ![r] = w],
         w.stage \notin {"idle", "add", "edit", "review", "refused", "failed", "recorded"},
         UNCHANGED rubric \/ \E k \in Asked : rubric' = [rubric EXCEPT ![k] = Nothing],
         crowded \subseteq crowded',
         \A row \in evals' : row \in evals \/ row.from = r, evals \subseteq evals'
  PROVE  RubricInv' /\ ReviewsInv'
<1>1. AskingRanges
  BY DEF RubricInv
<1>2. RubricInv'
  BY OtherTurns
<1>3. ReviewsInv'
  BY <1>1, ReviewsOthers
<1> QED
  BY <1>2, <1>3

LEMMA ReviewSteps ==
  ASSUME RubricInv, ReviewsInv, ReviewStep
  PROVE  RubricInv' /\ ReviewsInv' /\ \E r \in Reviewers : Speaks(r)
<1> PICK r \in Reviewers :
      \/ /\ CountFields(r) \/ AddField(r) \/ ReadField(r) \/ EditField(r) \/ DeleteField(r)
              \/ ReadRubric(r) \/ SendToDataset(r)
         /\ UNCHANGED <<evals, rollup>>
      \/ SubmitFeedback(r) \/ AnnotateTrace(r)
      \/ RecordAnswer(r) \/ RefuseAnswer(r) \/ EndReview(r)
  BY DEF ReviewStep
<1>0. AskingRanges
  BY DEF RubricInv
<1>1. ASSUME CountFields(r) \/ AddField(r) \/ ReadField(r) \/ EditField(r), UNCHANGED evals
      PROVE  RubricInv' /\ ReviewsInv' /\ Speaks(r)
  <2>1. RubricInv'
    BY <1>1, CountInv, AddFieldInv, ReadFieldInv, EditFieldInv
  <2>2. asking' = [asking EXCEPT ![r] = asking'[r]] /\ asking'[r].stage \in {"add", "edit", "done"}
    <3>1. \A w : asking' = [asking EXCEPT ![r] = w] => asking'[r] = w
      BY <1>0, Turned
    <3>2. CASE CountFields(r)
      <4>1. PICK k \in Keys, f \in Fields : asking' = [asking EXCEPT ![r] = [stage |-> "add", key |-> k, field |-> f]]
        BY <3>2 DEF CountFields, Turn
      <4> QED
        BY <3>1, <4>1
    <3>3. CASE AddField(r) \/ EditField(r)
      <4>1. asking' = [asking EXCEPT ![r] = Ends("done")]
        BY <3>3 DEF AddField, EditField, Turn
      <4> QED
        BY <3>1, <4>1 DEF Ends
    <3>4. CASE ReadField(r)
      <4>1. PICK k \in Asked : asking' = [asking EXCEPT ![r] = [stage |-> "edit", key |-> k, read |-> rubric[k]]]
        BY <3>4 DEF ReadField, Turn
      <4> QED
        BY <3>1, <4>1
    <3> QED
      BY <1>1, <3>2, <3>3, <3>4
  <2>3. ReviewsInv'
    BY <1>0, <1>1, <2>2, ReviewsOthers
  <2>4. crowded \subseteq crowded'
    BY <1>1 DEF CountFields, AddField, ReadField, EditField
  <2> QED
    BY <2>1, <2>2, <2>3, <2>4 DEF Speaks
<1>2. ASSUME DeleteField(r) \/ SendToDataset(r), UNCHANGED evals PROVE RubricInv' /\ ReviewsInv' /\ Speaks(r)
  <2>1. /\ asking' = [asking EXCEPT ![r] = Ends("done")] /\ UNCHANGED crowded
        /\ UNCHANGED rubric \/ \E k \in Asked : rubric' = [rubric EXCEPT ![k] = Nothing]
    BY <1>2 DEF DeleteField, SendToDataset, Turn
  <2>2. Ends("done").stage = "done" /\ asking'[r] = Ends("done")
    BY <1>0, <2>1, Turned DEF Ends
  <2> QED
    BY <1>2, <2>1, <2>2, RestsReviews DEF Speaks
<1>3. ASSUME SubmitFeedback(r) \/ AnnotateTrace(r) PROVE RubricInv' /\ ReviewsInv' /\ Speaks(r)
  <2>1. PICK evaluator, metric : Verdict(r, evaluator, metric)
    BY <1>3 DEF SubmitFeedback, AnnotateTrace
  <2>2. PICK t \in Labelled, score \in {0, 10} : InsertScores({HumanRow(r, t, evaluator, metric, score, "score")})
    BY <2>1 DEF Verdict
  <2>3. evals' = evals \cup {HumanRow(r, t, evaluator, metric, score, "score")}
    BY <2>2 DEF InsertScores
  <2>4. HumanRow(r, t, evaluator, metric, score, "score").from = r /\ Ends("done").stage = "done"
    BY DEF HumanRow, Ends
  <2>5. asking' = [asking EXCEPT ![r] = Ends("done")] /\ UNCHANGED <<rubric, crowded>>
    BY <2>1 DEF Verdict, Turn
  <2>6. asking'[r] = Ends("done")
    BY <1>0, <2>5, Turned
  <2> QED
    BY <2>3, <2>4, <2>5, <2>6, RestsReviews DEF Speaks
<1> QED
  BY <1>1, <1>2, <1>3, ReadRubricReviews, RecordReviews, EndsReviews

-----------------------------------------------------------------------------
(* Examples. *)

Importing(r) == AtWork(r) /\ asking[r].kind = "import"
Overlaps(e, r) == {e.from, r} \cap crowded # {}
Says(x) == SpanOf[x.source].says \/ \E s \in x.had : SpanOf[s].says

CarryFields ==
  {"stage", "kind", "page", "seen", "adding", "offset", "last", "run", "held", "there", "gone"}

\* What a request is about to add is pinned, and of runs it has not passed over; an
\* import has seen the runs of any that did not overlap it.
RowFine(r, x) ==
  /\ x.from = r /\ x.kind = asking[r].kind /\ x.source \in asking[r].seen /\ x.had \subseteq PinOf(x.source)
  /\ x.kind = "import" => Says(x)

Passed(r, e) ==
  /\ e.source \in asking[r].seen \/ Overlaps(e, r)
  /\ \A x \in asking[r].adding : e.source = x.source => Overlaps(e, r)
  /\ Is(r, "pin") /\ e.source = asking[r].run => Overlaps(e, r)

CarryFine(r) ==
  /\ DOMAIN asking[r] = CarryFields
  /\ Is(r, "link") => asking[r].adding = {}
  /\ \A x \in asking[r].adding : RowFine(r, x)
  /\ Is(r, "pin") => asking[r].run \in asking[r].seen /\ \A x \in asking[r].adding : x.source # asking[r].run
  /\ \A x, y \in asking[r].adding : x.source = y.source => x = y
  /\ asking[r].kind = "import" /\ ~Is(r, "link") => \A e \in imports : e.kind = "import" => Passed(r, e)

ImportsFine ==
  /\ \A e \in imports : e.had \subseteq PinOf(e.source) /\ (e.kind = "import" => Says(e))
  /\ \A e, f \in imports :
       e.kind = "import" /\ f.kind = "import" /\ e # f /\ e.source = f.source => Overlaps(e, f.from)

ExamplesInv ==
  /\ \A r \in Reviewers : AtWork(r) => CarryFine(r)
  /\ \A r \in Reviewers : Idle(r) \/ AtWork(r) => \A e \in imports : e.from # r
  /\ \A r, o \in Reviewers : Importing(r) /\ Importing(o) /\ r # o => r \in crowded
  /\ ImportsFine

\* A request takes up, or ends, something other than a review or a question.
GoesOn(r) ==
  /\ asking' = [asking EXCEPT ![r] = asking'[r]] /\ crowded \subseteq crowded'
  /\ asking'[r].stage \in {"done", "matrix", "link", "page", "row", "pin", "added"}

LEMMA ExamplesInvStand == ASSUME ExamplesInv PROVE ExamplesStand
BY DEF ExamplesInv, ImportsFine, ExamplesStand, Says, Overlaps

LEMMA ExamplesMove ==
  ASSUME AskingRanges, ExamplesInv, NEW r \in Reviewers, NEW w, asking' = [asking EXCEPT ![r] = w],
         w.stage # "idle", AtWork(r)' => CarryFine(r)' /\ (Idle(r) \/ AtWork(r)) /\ imports' \subseteq imports,
         Importing(r)' => Importing(r) \/ \A o \in Reviewers : Importing(o) => o \in crowded' /\ r \in crowded',
         crowded \subseteq crowded', pinned \subseteq pinned',
         \A e \in imports' : e \in imports \/ (AtWork(r) /\ e.from = r /\ e.kind = asking[r].kind),
         ImportsFine'
  PROVE  ExamplesInv'
<1>1. DOMAIN asking' = Reviewers /\ asking'[r] = w /\ \A o \in Reviewers : o # r => asking'[o] = asking[o]
  BY Turned
<1>2. \A x : PinOf(x) \subseteq PinOf(x)'
  BY DEF PinOf
<1>3. \A e, o : Overlaps(e, o) => Overlaps(e, o)'
  BY DEF Overlaps
<1>4. ASSUME NEW o \in Reviewers, o # r, AtWork(o) PROVE CarryFine(o)'
  <2>1. CarryFine(o) /\ asking'[o] = asking[o]
    BY <1>1, <1>4 DEF ExamplesInv
  <2>2. \A x \in asking[o].adding : RowFine(o, x)'
    BY <1>2, <2>1 DEF CarryFine, RowFine, Says
  <2>3. ASSUME asking[o].kind = "import", ~Is(o, "link"), NEW e \in imports', e.kind = "import" PROVE Passed(o, e)'
    <3>1. CASE e \in imports
      <4>1. Passed(o, e)
        BY <2>1, <2>3, <3>1 DEF CarryFine
      <4> QED
        BY <1>3, <2>1, <4>1 DEF Passed, Is
    <3>2. CASE AtWork(r) /\ e.from = r /\ e.kind = asking[r].kind
      <4>1. Importing(r) /\ Importing(o)
        BY <1>4, <2>3, <3>2 DEF Importing
      <4>2. Overlaps(e, o)'
        BY <1>4, <3>2, <4>1 DEF ExamplesInv, Overlaps
      <4> QED
        BY <4>2 DEF Passed
    <3> QED
      BY <3>1, <3>2
  <2> QED
    BY <2>1, <2>2, <2>3 DEF CarryFine, Is
<1>5. \A o \in Reviewers : AtWork(o)' => CarryFine(o)'
  BY <1>1, <1>4 DEF AtWork
<1>6. \A o \in Reviewers : Idle(o)' \/ AtWork(o)' => \A e \in imports' : e.from # o
  <2> SUFFICES ASSUME NEW o \in Reviewers, Idle(o)' \/ AtWork(o)', NEW e \in imports' PROVE e.from # o
    OBVIOUS
  <2>1. CASE o = r
    <3>1. AtWork(r)'
      BY <1>1, <2>1 DEF Idle, Is
    <3> QED
      BY <2>1, <3>1 DEF ExamplesInv
  <2>2. CASE o # r
    <3>1. Idle(o) \/ AtWork(o)
      BY <1>1, <2>2 DEF Idle, Is, AtWork
    <3> QED
      BY <2>2, <3>1 DEF ExamplesInv
  <2> QED
    BY <2>1, <2>2
<1>7. \A o, p \in Reviewers : Importing(o)' /\ Importing(p)' /\ o # p => o \in crowded'
  <2>1. \A o \in Reviewers : o # r /\ Importing(o)' => Importing(o)
    BY <1>1 DEF Importing, AtWork
  <2> QED
    BY <2>1 DEF ExamplesInv
<1> QED
  BY <1>5, <1>6, <1>7 DEF ExamplesInv

LEMMA ImportsKept ==
  ASSUME ImportsFine, imports' \subseteq imports, crowded \subseteq crowded', pinned \subseteq pinned'
  PROVE  ImportsFine'
BY DEF ImportsFine, PinOf, Overlaps, Says

\* A request that is at nothing of the kind.
LEMMA ExamplesRest ==
  ASSUME AskingRanges, ExamplesInv, NEW r \in Reviewers, asking' = [asking EXCEPT ![r] = asking'[r]],
         asking'[r].stage \notin {"idle", "link", "page", "row", "pin"},
         imports' \subseteq imports, crowded \subseteq crowded', pinned \subseteq pinned'
  PROVE  ExamplesInv'
<1>1. ~AtWork(r)' /\ ~Importing(r)'
  BY DEF AtWork, Importing
<1>2. ImportsFine'
  BY ImportsKept DEF ExamplesInv
<1> QED
  BY <1>1, <1>2, ExamplesMove

LEMMA LinkCarries ==
  ASSUME AskingRanges, ExamplesInv, NEW r \in Reviewers, LinkAgent(r)
  PROVE  ExamplesInv' /\ GoesOn(r)
<1> DEFINE w == [Carries("import", <<>>, {}) EXCEPT !.stage = "link", !.there = Listed(AgentRuns)]
           others == {o \in Reviewers : AtWork(o) /\ asking[o].kind = "import"}
<1>1. /\ Idle(r) /\ asking' = [asking EXCEPT ![r] = w] /\ UNCHANGED <<pinned, imports>>
      /\ crowded' = crowded \cup others \cup (IF others = {} THEN {} ELSE {r})
  BY DEF LinkAgent, Turn
<1>2. DOMAIN w = CarryFields /\ w.stage = "link" /\ w.adding = {} /\ w.kind = "import"
  BY DEF Carries, CarryFields
<1> HIDE DEF w
<1>3. asking'[r] = w
  BY <1>1, Turned
<1>4. CarryFine(r)'
  BY <1>2, <1>3 DEF CarryFine, Is
<1>5. \A o \in Reviewers : Importing(o) => o \in crowded' /\ r \in crowded'
  BY <1>1 DEF Importing
<1>6. ImportsFine'
  BY <1>1, ImportsKept DEF ExamplesInv
<1> QED
  BY <1>1, <1>2, <1>3, <1>4, <1>5, <1>6, ExamplesMove DEF GoesOn

LEMMA CarriesOne ==
  ASSUME AskingRanges, ExamplesInv, NEW r \in Reviewers, AddExample(r) \/ ViewTrajectory(r)
  PROVE  ExamplesInv' /\ GoesOn(r)
<1>0. PICK t : asking' = [asking EXCEPT ![r] = Carries("single", <<t>>, {})]
               \/ asking' = [asking EXCEPT ![r] = Carries("view", <<t>>, {})]
  BY DEF AddExample, ViewTrajectory, Turn
<1>1. PICK kind \in {"single", "view"} : asking' = [asking EXCEPT ![r] = Carries(kind, <<t>>, {})]
  BY <1>0
<1> DEFINE w == Carries(kind, <<t>>, {})
<1>2. Idle(r) /\ UNCHANGED <<pinned, imports, crowded>>
  BY DEF AddExample, ViewTrajectory
<1>3. DOMAIN w = CarryFields /\ w.stage = "row" /\ w.adding = {} /\ w.kind # "import"
  BY DEF Carries, CarryFields
<1> HIDE DEF w
<1>4. asking' = [asking EXCEPT ![r] = w] /\ asking'[r] = w
  <2>1. asking' = [asking EXCEPT ![r] = w]
    BY <1>1 DEF w
  <2> QED
    BY <2>1, Turned
<1>5. CarryFine(r)' /\ ~Importing(r)'
  BY <1>3, <1>4 DEF CarryFine, Is, Importing
<1>6. ImportsFine'
  BY <1>2, ImportsKept DEF ExamplesInv
<1> QED
  BY <1>2, <1>3, <1>4, <1>5, <1>6, ExamplesMove DEF GoesOn

\* A request at work goes on with what it carries.
LEMMA CarriesOn ==
  ASSUME AskingRanges, ExamplesInv, NEW r \in Reviewers, AtWork(r), NEW w, asking' = [asking EXCEPT ![r] = w],
         DOMAIN w = CarryFields, w.stage \in {"page", "row", "pin"}, w.kind = asking[r].kind,
         UNCHANGED <<imports, crowded>>, pinned \subseteq pinned', CarryFine(r)'
  PROVE  ExamplesInv' /\ GoesOn(r)
<1>1. asking'[r] = w
  BY Turned
<1>2. ImportsFine'
  BY ImportsKept DEF ExamplesInv
<1>3. Importing(r)' => Importing(r)
  BY <1>1 DEF Importing
<1> QED
  BY <1>1, <1>2, <1>3, ExamplesMove DEF GoesOn

LEMMA ReadSourcesCarries ==
  ASSUME AskingRanges, ExamplesInv, NEW r \in Reviewers, ReadSources(r)
  PROVE  ExamplesInv' /\ GoesOn(r)
<1> DEFINE w == [asking[r] EXCEPT !.stage = "page", !.seen = Sources]
<1>1. /\ Is(r, "link") /\ asking' = [asking EXCEPT ![r] = w] /\ UNCHANGED <<pinned, imports, crowded>>
  BY DEF ReadSources, Turn
<1>2. AtWork(r) /\ CarryFine(r)
  BY <1>1 DEF AtWork, Is, ExamplesInv
<1>3. /\ DOMAIN w = CarryFields /\ w.stage = "page" /\ w.seen = Sources /\ w.adding = {}
      /\ w.kind = asking[r].kind
  BY <1>1, <1>2 DEF CarryFine, CarryFields
<1> HIDE DEF w
<1>4. asking'[r] = w
  BY <1>1, Turned
<1>5. \A e \in imports : e.source \in Sources
  BY DEF Sources
<1>6. CarryFine(r)'
  BY <1>1, <1>3, <1>4, <1>5 DEF CarryFine, Is, Passed
<1> QED
  BY <1>1, <1>2, <1>3, <1>6, CarriesOn

LEMMA FetchCarries ==
  ASSUME AskingRanges, ExamplesInv, NEW r \in Reviewers, FetchPage(r)
  PROVE  ExamplesInv' /\ GoesOn(r)
<1>1. PICK page, offset, last : asking' = [asking EXCEPT ![r] =
        [asking[r] EXCEPT !.stage = "row", !.page = page, !.offset = offset, !.last = last]]
  BY DEF FetchPage, Turn
<1> DEFINE w == [asking[r] EXCEPT !.stage = "row", !.page = page, !.offset = offset, !.last = last]
<1>2. AtWork(r) /\ ~Is(r, "link") /\ ~Is(r, "pin") /\ UNCHANGED <<pinned, imports, crowded>>
  BY DEF FetchPage, AtWork, Is
<1>3. CarryFine(r)
  BY <1>2 DEF ExamplesInv
<1>4. /\ DOMAIN w = CarryFields /\ w.stage = "row" /\ w.seen = asking[r].seen
      /\ w.adding = asking[r].adding /\ w.kind = asking[r].kind /\ asking' = [asking EXCEPT ![r] = w]
  BY <1>1, <1>3 DEF CarryFine, CarryFields
<1> HIDE DEF w
<1>5. asking'[r] = w
  BY <1>4, Turned
<1>6. CarryFine(r)'
  BY <1>2, <1>3, <1>4, <1>5 DEF CarryFine, Is, Passed, RowFine, PinOf, Overlaps
<1> QED
  BY <1>2, <1>4, <1>6, CarriesOn

LEMMA ReadRunCarries ==
  ASSUME AskingRanges, ExamplesInv, NEW r \in Reviewers, ReadRun(r)
  PROVE  ExamplesInv' /\ GoesOn(r)
<1>1. PICK t, held : /\ t \notin asking[r].seen
                     /\ asking' = [asking EXCEPT ![r] =
                          [asking[r] EXCEPT !.stage = "pin", !.seen = @ \cup {t}, !.run = t, !.held = held]]
  BY DEF ReadRun, Turn, Left
<1> DEFINE w == [asking[r] EXCEPT !.stage = "pin", !.seen = @ \cup {t}, !.run = t, !.held = held]
<1>2. AtWork(r) /\ Is(r, "row") /\ UNCHANGED <<pinned, imports, crowded>>
  BY DEF ReadRun, AtWork, Is
<1>3. CarryFine(r)
  BY <1>2 DEF ExamplesInv
<1>4. /\ DOMAIN w = CarryFields /\ w.stage = "pin" /\ w.seen = asking[r].seen \cup {t} /\ w.run = t
      /\ w.adding = asking[r].adding /\ w.kind = asking[r].kind /\ asking' = [asking EXCEPT ![r] = w]
  BY <1>1, <1>3 DEF CarryFine, CarryFields
<1> HIDE DEF w
<1>5. asking'[r] = w
  BY <1>4, Turned
<1>6. CarryFine(r)'
  <2>1. \A x \in w.adding : RowFine(r, x)' /\ x.source # t
    BY <1>1, <1>2, <1>3, <1>4, <1>5 DEF CarryFine, RowFine, PinOf
  <2>2. w.kind = "import" => \A e \in imports : e.kind = "import" => Passed(r, e)'
    <3> SUFFICES ASSUME w.kind = "import", NEW e \in imports, e.kind = "import" PROVE Passed(r, e)'
      OBVIOUS
    <3>1. Passed(r, e)
      BY <1>2, <1>3, <1>4 DEF CarryFine, Is
    <3> QED
      BY <1>1, <1>2, <1>4, <1>5, <3>1 DEF Passed, Overlaps
  <2> QED
    BY <1>2, <1>3, <1>4, <1>5, <2>1, <2>2 DEF CarryFine, Is
<1> QED
  BY <1>2, <1>4, <1>6, CarriesOn

LEMMA PinCarries ==
  ASSUME AskingRanges, ExamplesInv, NEW r \in Reviewers, WritePin(r) \/ LosePin(r)
  PROVE  ExamplesInv' /\ GoesOn(r)
<1>0. PICK t : t = asking[r].run
  OBVIOUS
<1>1. PICK held : (\E failed \in BOOLEAN : KeepRow(r, held, failed)) /\ held \subseteq PinOf(t)'
  <2>1. CASE WritePin(r)
    <3>1. KeepRow(r, asking[r].held, FALSE) /\ pinned' = pinned \cup {[root |-> t, span |-> s] : s \in asking[r].held}
      BY <1>0, <2>1 DEF WritePin, Pinned
    <3>2. ASSUME NEW s \in asking[r].held PROVE s \in {p.span : p \in {x \in pinned' : x.root = t}}
      <4>1. [root |-> t, span |-> s] \in pinned'
        BY <3>1
      <4>2. [root |-> t, span |-> s].root = t /\ [root |-> t, span |-> s].span = s
        OBVIOUS
      <4> QED
        BY <4>1, <4>2
    <3>3. asking[r].held \subseteq PinOf(t)'
      BY <3>2 DEF PinOf
    <3>4. \E failed \in BOOLEAN : KeepRow(r, asking[r].held, failed)
      <4>1. FALSE \in BOOLEAN
        OBVIOUS
      <4> QED
        BY <3>1, <4>1, Zenon
    <3> QED
      BY <3>3, <3>4
  <2>2. CASE LosePin(r)
    <3>1. TRUE \in BOOLEAN /\ KeepRow(r, {}, TRUE)
      BY <2>2 DEF LosePin
    <3>2. \E failed \in BOOLEAN : KeepRow(r, {}, failed)
      BY <3>1, Zenon
    <3> QED
      BY <3>2
  <2> QED
    BY <2>1, <2>2
<1>98. PICK failed \in BOOLEAN : KeepRow(r, held, failed)
  BY <1>1
<1>99. PICK row : row = [from |-> r, kind |-> asking[r].kind, source |-> t, had |-> held, lost |-> failed]
  OBVIOUS
<1> DEFINE w == [asking[r] EXCEPT !.stage = "row", !.run = Nothing, !.held = {},
                   !.adding = IF Kept(asking[r].kind, t, held) THEN @ \cup {row} ELSE @]
<1>2. /\ AtWork(r) /\ Is(r, "pin") /\ ~Is(r, "link") /\ UNCHANGED <<imports, crowded>> /\ pinned \subseteq pinned'
  BY DEF WritePin, LosePin, AtWork, Is
<1>3. CarryFine(r)
  BY <1>2 DEF ExamplesInv
<1>4. /\ DOMAIN w = CarryFields /\ w.stage = "row" /\ w.seen = asking[r].seen /\ w.kind = asking[r].kind
      /\ w.adding = IF Kept(asking[r].kind, t, held) THEN asking[r].adding \cup {row} ELSE asking[r].adding
  BY <1>3 DEF CarryFine, CarryFields
<1>5. asking' = [asking EXCEPT ![r] = w]
  BY <1>0, <1>98, <1>99 DEF KeepRow, Turn
<1>6. row.from = r /\ row.kind = asking[r].kind /\ row.source = t /\ row.had = held
  BY <1>99
<1> HIDE DEF w
<1>7. asking'[r] = w
  BY <1>5, Turned
<1>8. \A x : PinOf(x) \subseteq PinOf(x)'
  BY <1>2 DEF PinOf
<1>9. Kept(asking[r].kind, t, held) => RowFine(r, row)'
  BY <1>0, <1>1, <1>2, <1>3, <1>4, <1>6, <1>7 DEF RowFine, Says, Kept, CarryFine
<1>10. \A x \in asking[r].adding : RowFine(r, x)' /\ x.source # t
  BY <1>0, <1>2, <1>3, <1>4, <1>7, <1>8 DEF CarryFine, RowFine, Says
<1>11. CarryFine(r)'
  <2>1. \A x \in w.adding : RowFine(r, x)'
    BY <1>4, <1>9, <1>10
  <2>2. \A x, y \in w.adding : x.source = y.source => x = y
    BY <1>3, <1>4, <1>6, <1>10 DEF CarryFine
  <2>3. w.kind = "import" => \A e \in imports : e.kind = "import" => Passed(r, e)'
    <3> SUFFICES ASSUME w.kind = "import", NEW e \in imports, e.kind = "import" PROVE Passed(r, e)'
      OBVIOUS
    <3>1. Passed(r, e)
      BY <1>2, <1>3, <1>4 DEF CarryFine, Is
    <3>2. \A x \in w.adding : e.source = x.source => Overlaps(e, r)
      BY <1>0, <1>2, <1>4, <1>6, <3>1 DEF Passed
    <3> QED
      BY <1>2, <1>4, <1>7, <3>1, <3>2 DEF Passed, Overlaps, Is
  <2> QED
    BY <1>2, <1>4, <1>7, <2>1, <2>2, <2>3 DEF CarryFine, Is
<1> QED
  BY <1>2, <1>4, <1>5, <1>11, CarriesOn

LEMMA AddRowsCarries ==
  ASSUME AskingRanges, ExamplesInv, NEW r \in Reviewers, AddRows(r)
  PROVE  ExamplesInv' /\ GoesOn(r)
<1> DEFINE adding == asking[r].adding
<1>1. /\ AtWork(r) /\ Is(r, "row") /\ ~Is(r, "link") /\ UNCHANGED <<pinned, crowded>>
      /\ imports' = IF dataset THEN imports \cup adding ELSE imports
  BY DEF AddRows, AtWork, Is
<1>2. CarryFine(r)
  BY <1>1 DEF ExamplesInv
<1>3. asking' = [asking EXCEPT ![r] = asking'[r]] /\ asking'[r].stage = "added"
  <2>1. PICK kind, missed, tied, whole : asking' = [asking EXCEPT ![r] =
          [stage |-> "added", kind |-> kind, missed |-> missed, tied |-> tied, whole |-> whole]]
    BY DEF AddRows, Turn
  <2> QED
    BY <2>1, Turned
<1>4. \A e \in imports' : e \in imports \/ e \in adding
  BY <1>1
<1>5. \A e \in adding : e.from = r /\ e.kind = asking[r].kind
  BY <1>2 DEF CarryFine, RowFine
<1>6. ImportsFine'
  <2>1. \A e \in imports' : e.had \subseteq PinOf(e.source) /\ (e.kind = "import" => Says(e))
    BY <1>2, <1>4 DEF ExamplesInv, ImportsFine, CarryFine, RowFine
  <2>2. ASSUME NEW e \in imports', NEW f \in imports', e.kind = "import", f.kind = "import", e # f,
               e.source = f.source
        PROVE  Overlaps(e, f.from)
    <3>1. ASSUME NEW x \in imports, NEW y \in adding, x.kind = "import", y.kind = "import", x.source = y.source
          PROVE  Overlaps(x, r)
      <4>1. asking[r].kind = "import"
        BY <1>5, <3>1
      <4>2. Passed(r, x)
        BY <1>1, <1>2, <3>1, <4>1 DEF CarryFine
      <4> QED
        BY <3>1, <4>2 DEF Passed
    <3>2. CASE e \in imports /\ f \in imports
      BY <2>2, <3>2 DEF ExamplesInv, ImportsFine
    <3>3. CASE e \in adding /\ f \in adding
      BY <1>2, <2>2, <3>3 DEF CarryFine
    <3>4. CASE e \in imports /\ f \in adding
      BY <1>5, <2>2, <3>1, <3>4
    <3>5. CASE e \in adding /\ f \in imports
      <4>1. Overlaps(f, r) /\ e.from = r
        BY <1>5, <2>2, <3>1, <3>5
      <4> QED
        BY <4>1 DEF Overlaps
    <3> QED
      BY <1>4, <3>2, <3>3, <3>4, <3>5
  <2> QED
    BY <1>1, <2>1, <2>2 DEF ImportsFine, PinOf, Overlaps
<1>7. ~AtWork(r)' /\ ~Importing(r)'
  BY <1>3 DEF AtWork, Importing
<1> QED
  BY <1>1, <1>3, <1>4, <1>5, <1>6, <1>7, ExamplesMove DEF GoesOn

LEMMA ExamplesBegin == ASSUME ReviewInit, ExamplesInit PROVE ExamplesInv
<1>1. imports = {} /\ \A r \in Reviewers : asking[r].stage = "idle"
  BY DEF ReviewInit, ExamplesInit, Ends
<1> QED
  BY <1>1 DEF ExamplesInv, ImportsFine, AtWork, Importing

LEMMA ExamplesStay == ASSUME ExamplesInv, UNCHANGED <<asking, crowded, pinned, imports>> PROVE ExamplesInv'
<1>1. ImportsFine'
  BY ImportsKept DEF ExamplesInv
<1>2. \A r \in Reviewers : CarryFine(r) => CarryFine(r)'
  BY DEF CarryFine, Is, RowFine, PinOf, Passed, Overlaps
<1> QED
  BY <1>1, <1>2 DEF ExamplesInv, AtWork, Idle, Is, Importing

LEMMA ExampleSteps ==
  ASSUME RubricInv, ReviewsInv, ExamplesInv, ExamplesStep, UNCHANGED <<rubric, evals>>
  PROVE  RubricInv' /\ ReviewsInv' /\ ExamplesInv'
<1>0. AskingRanges
  BY DEF RubricInv
<1>1. PICK r \in Reviewers :
        \/ ReadSources(r) \/ FetchPage(r) \/ ReadRun(r) \/ WritePin(r) \/ LosePin(r) \/ AddRows(r)
        \/ LinkAgent(r) \/ UnlinkAgent(r) \/ AddExample(r) \/ ViewTrajectory(r)
        \/ RemoveExample(r) \/ DeleteDataset(r)
        \/ SendToDataset(r) /\ UNCHANGED exampleVars
  BY DEF ExamplesStep
<1>2. ASSUME \/ UnlinkAgent(r) \/ RemoveExample(r) \/ DeleteDataset(r)
             \/ SendToDataset(r) /\ UNCHANGED exampleVars
      PROVE  ExamplesInv' /\ GoesOn(r)
  <2>1. asking' = [asking EXCEPT ![r] = Ends("done")] /\ UNCHANGED <<crowded, pinned>> /\ imports' \subseteq imports
    BY <1>2 DEF UnlinkAgent, RemoveExample, DeleteDataset, SendToDataset, exampleVars, Turn
  <2>2. asking'[r] = Ends("done") /\ Ends("done").stage = "done"
    BY <1>0, <2>1, Turned DEF Ends
  <2> QED
    BY <1>0, <2>1, <2>2, ExamplesRest DEF GoesOn
<1>3. ExamplesInv' /\ GoesOn(r)
  BY <1>0, <1>1, <1>2, ReadSourcesCarries, FetchCarries, ReadRunCarries, PinCarries, AddRowsCarries,
     LinkCarries, CarriesOne
<1> QED
  BY <1>3, RestsReviews DEF GoesOn

\* People's verdicts and questions leave what is carried, and what was imported.
LEMMA SpeaksCarries ==
  ASSUME AskingRanges, ExamplesInv, NEW r \in Reviewers, Speaks(r), UNCHANGED exampleVars
  PROVE  ExamplesInv'
BY ExamplesRest DEF Speaks, exampleVars

-----------------------------------------------------------------------------
(* What people say, together. *)

PeopleInv == LabelsInv /\ RubricInv /\ ReviewsInv /\ ExamplesInv

LEMMA PeopleBegin == ASSUME Init PROVE PeopleInv
<1>1. ReviewInit /\ ExamplesInit
  BY DEF Init
<1>2. LabelsInv
  <2>1. LabelsInit({}) \/ \E b \in Before : LabelsInit(b.flags)
    BY DEF Init
  <2>2. \A b \in Before : b.flags \in SUBSET {row \in Rows : row.stamp = 0}
    BY BeforeAssumption
  <2> QED
    BY <2>1, <2>2, LabelsBegin
<1>3. \A row \in evals : row.from \in Batches
  <2>1. \E scored \in SUBSET Batches : evals = UNION {Graded(b, 0) : b \in scored}
    <3>1. \/ StoreInit(<<>>, {}, 0)
          \/ \E b \in Before : StoreInit(b.spans, {}, b.now) \/ StoreInit(b.spans, b.scored, b.now)
      BY DEF Init
    <3>2. \A scored, arrived, time : StoreInit(arrived, scored, time) => evals = UNION {Graded(b, 0) : b \in scored}
      BY DEF StoreInit
    <3> QED
      BY <3>1, <3>2, BeforeAssumption
  <2>2. PICK scored \in SUBSET Batches : evals = UNION {Graded(b, 0) : b \in scored}
    BY <2>1
  <2>3. \A b : \A row \in Graded(b, 0) : row.from = b
    BY DEF Graded
  <2> QED
    BY <2>2, <2>3
<1> QED
  BY <1>1, <1>2, <1>3, RubricBegins, ReviewsBegin, ExamplesBegin DEF PeopleInv

\* A step of one part leaves the others.
LEMMA PeopleSteps == ASSUME PeopleInv, [Next]_vars PROVE PeopleInv'
<1>0. LabelsInv /\ RubricInv /\ ReviewsInv /\ ExamplesInv /\ AskingRanges
  BY DEF PeopleInv, RubricInv
<1>1. CASE UNCHANGED <<labelVars, asking, crowded, rubric, pinned, imports>> /\ evals \subseteq evals'
           /\ \A row \in evals' : row \in evals \/ row.from \in Batches
  BY <1>0, <1>1, LabelsStay, RubricStays, ReviewsStay, ExamplesStay DEF PeopleInv
<1>2. CASE LabelsStep /\ UNCHANGED <<storeVars, reviewVars, exampleVars>>
  <2>1. LabelsInv'
    BY <1>0, <1>2, LabelsSteps
  <2>2. UNCHANGED <<asking, crowded, rubric, pinned, imports, evals>>
    BY <1>2 DEF storeVars, reviewVars, exampleVars
  <2> QED
    BY <1>0, <2>1, <2>2, RubricStays, ReviewsStay, ExamplesStay DEF PeopleInv
<1>3. CASE PeopleStep /\ UNCHANGED <<labelVars, exampleVars>>
  <2>1. LabelsInv'
    BY <1>0, <1>3, LabelsStay
  <2>2. CASE ReviewStep
    BY <1>0, <1>3, <2>1, <2>2, ReviewSteps, SpeaksCarries DEF PeopleInv
  <2>3. CASE QueueStep /\ UNCHANGED <<storeVars, rubric, crowded, examples>>
    <3>1. PICK r \in Reviewers, stage \in {"matrix", "done"} : asking' = [asking EXCEPT ![r] = Ends(stage)]
      BY <2>3 DEF QueueStep, ReadMatrix, ReadCoverage, Turn
    <3>2. asking'[r] = Ends(stage) /\ Ends(stage).stage = stage
      BY <1>0, <3>1, Turned DEF Ends
    <3>3. UNCHANGED <<rubric, crowded, evals>>
      BY <2>3 DEF storeVars
    <3>4. RubricInv' /\ ReviewsInv'
      BY <1>0, <3>1, <3>2, <3>3, RestsReviews
    <3>5. ExamplesInv'
      BY <1>0, <1>3, <3>1, <3>2, <3>3, ExamplesRest DEF exampleVars
    <3> QED
      BY <2>1, <3>4, <3>5 DEF PeopleInv
  <2> QED
    BY <1>3, <2>2, <2>3 DEF PeopleStep
<1>4. CASE ExamplesStep /\ UNCHANGED <<storeVars, labelVars, rubric>>
  <2>1. UNCHANGED <<evals, rubric>>
    BY <1>4 DEF storeVars
  <2> QED
    BY <1>0, <1>4, <2>1, ExampleSteps, LabelsStay DEF PeopleInv
<1>5. CASE SpansStep /\ UNCHANGED <<asking, crowded, examples, exampleVars, labelVars, rubric>>
  <2>1. UNCHANGED evals
    BY <1>5 DEF SpansStep, Persist, Retire
  <2> QED
    BY <1>1, <1>5, <2>1 DEF exampleVars
<1>6. CASE StoreStep /\ UNCHANGED <<labelVars, reviewVars, exampleVars>>
  <2>1. evals \subseteq evals' /\ \A row \in evals' : row \in evals \/ row.from \in Batches
    <3>1. ASSUME NEW b \in Batches, Grade(b) PROVE evals' = evals \cup Graded(b, now)
      BY <3>1 DEF Grade, InsertScores
    <3>2. \A b : \A row \in Graded(b, now) : row.from = b
      BY DEF Graded
    <3>3. UNCHANGED evals \/ \E b \in Batches : Grade(b)
      BY <1>6 DEF StoreStep, Persist, Bill, ScanSpan, Retire, NextBucket
    <3> QED
      BY <3>1, <3>2, <3>3
  <2> QED
    BY <1>1, <1>6, <2>1 DEF reviewVars, exampleVars
<1>7. CASE UNCHANGED <<storeVars, labelVars, reviewVars, exampleVars>>
  BY <1>1, <1>7 DEF storeVars, reviewVars, exampleVars
<1> QED
  BY <1>2, <1>3, <1>4, <1>5, <1>6, <1>7 DEF Next, KeptStep, DatasetStep, vars

-----------------------------------------------------------------------------
(* What is rolled up, queued and charted. *)

\* A review is of a trace that may be labelled.
TracesKnown == \A r \in Reviewers : Is(r, "review") => asking[r].trace \in Labelled

\* What people write is a verdict on such a trace, or an answer of a question they
\* were asked; a text weighs nothing.
Answered(r) ==
  \E t \in Labelled, evaluator \in {"human.feedback", "human.annotation"}, score \in Score : \E metric, kind :
    /\ kind = "text" => score = 0
    /\ InsertScores({HumanRow(r, t, evaluator, metric, score, kind)})

LEMMA ScoresGiven ==
  ASSUME NEW q \in Questions, NEW answer, Accepts(q, answer)
  PROVE  ScoreAnswer(q, answer) \in Score /\ (q.kind = "text" => ScoreAnswer(q, answer) = 0)
<1>1. \A s \in Reviewers, f \in Fields : Question(s, f).kind = f.kind /\ Question(s, f).options = f.options
  BY DEF Question
<1>2. PICK s \in Reviewers, f \in Fields : q = Question(s, f)
  BY DEF Questions
<1>3. q.kind \in {"text", "boolean", "slider", "choice"} /\ \A x \in DOMAIN q.options : q.options[x] \in Score
  BY <1>1, <1>2, RubricAssumption
<1>4. q.kind = "slider" => answer \in DOMAIN Number /\ Number[answer] \in Score
  BY DEF Accepts
<1> QED
  BY <1>3, <1>4 DEF ScoreAnswer, Score

LEMMA ReviewWrites ==
  ASSUME RubricInv, ReviewsInv, TracesKnown, ReviewStep
  PROVE  UNCHANGED <<evals, rollup>> \/ \E r \in Reviewers : Answered(r)
<1>1. PICK r \in Reviewers :
        UNCHANGED <<evals, rollup>> \/ SubmitFeedback(r) \/ AnnotateTrace(r) \/ RecordAnswer(r)
  BY DEF ReviewStep, RefuseAnswer, EndReview
<1>2. CASE SubmitFeedback(r) \/ AnnotateTrace(r)
  <2>1. PICK evaluator \in {"human.feedback", "human.annotation"} : \E metric : Verdict(r, evaluator, metric)
    BY <1>2 DEF SubmitFeedback, AnnotateTrace
  <2>2. PICK metric : Verdict(r, evaluator, metric)
    BY <2>1
  <2>3. PICK t \in Labelled, score \in {0, 10} : InsertScores({HumanRow(r, t, evaluator, metric, score, "score")})
    BY <2>2 DEF Verdict
  <2>4. score \in Score
    BY DEF Score
  <2> QED
    BY <2>3, <2>4 DEF Answered
<1>3. CASE RecordAnswer(r)
  <2> DEFINE a == asking[r]
             k == NextKey(r)
             n == Cardinality(DOMAIN a.answers)
             q == a.rubric[k]
             score == ScoreAnswer(q, a.answers[k])
  <2>1. Is(r, "review") /\ Remaining(r) # {} /\ InsertScores({HumanRow(r, a.trace, "human.annotation", k, score, q.kind)})
    BY <1>3 DEF RecordAnswer
  <2>8. Accepts(q, a.answers[k])
    BY <1>3 DEF RecordAnswer
  <2>2. WroteFine(r) /\ Reviews(r)
    BY <2>1 DEF ReviewsInv, Is, Reviews
  <2>3. /\ a.order \in [1..n -> DOMAIN a.answers] /\ n \in Nat /\ a.wrote \in Seq(Keys)
        /\ a.rubric \in [DOMAIN a.answers -> Questions]
    BY <2>2 DEF WroteFine, SetToSeqs, RubricInv, AskingRanges
  <2>4. Len(a.wrote) + 1 \in 1..n
    <3>1. Len(a.wrote) \in Nat
      BY <2>3, LenProperties
    <3>2. PICK i \in 1..n : i > Len(a.wrote)
      BY <2>1, <2>3 DEF Remaining
    <3> QED
      BY <2>3, <3>1, <3>2
  <2>5. q \in Questions
    BY <2>3, <2>4 DEF NextKey
  <2>6. a.trace \in Labelled
    BY <2>1 DEF TracesKnown
  <2> HIDE DEF q
  <2>7. score \in Score /\ (q.kind = "text" => score = 0)
    BY <2>5, <2>8, ScoresGiven
  <2> HIDE DEF score, a, k
  <2> QED
    BY <2>1, <2>6, <2>7 DEF Answered
<1> QED
  BY <1>1, <1>2, <1>3

LEMMA TracesStay ==
  ASSUME ReviewsInv, TracesKnown, AskingRanges, ReviewStep
  PROVE  TracesKnown'
<1>1. PICK r \in Reviewers :
        \/ CountFields(r) \/ AddField(r) \/ ReadField(r) \/ EditField(r) \/ DeleteField(r)
        \/ ReadRubric(r) \/ SendToDataset(r) \/ SubmitFeedback(r) \/ AnnotateTrace(r)
        \/ RecordAnswer(r) \/ RefuseAnswer(r) \/ EndReview(r)
  BY DEF ReviewStep
<1>2. ASSUME NEW w, asking' = [asking EXCEPT ![r] = w], w.stage = "review" => w.trace \in Labelled
      PROVE  TracesKnown'
  BY <1>2, Turned DEF TracesKnown, Is
<1>3. CASE CountFields(r)
  <2>1. PICK k \in Keys, f \in Fields : asking' = [asking EXCEPT ![r] = [stage |-> "add", key |-> k, field |-> f]]
    BY <1>3 DEF CountFields, Turn
  <2> QED
    BY <1>2, <2>1
<1>4. CASE ReadField(r)
  <2>1. PICK k \in Asked : asking' = [asking EXCEPT ![r] = [stage |-> "edit", key |-> k, read |-> rubric[k]]]
    BY <1>4 DEF ReadField, Turn
  <2> QED
    BY <1>2, <2>1
<1>5. CASE AddField(r) \/ EditField(r) \/ DeleteField(r) \/ SendToDataset(r) \/ SubmitFeedback(r) \/ AnnotateTrace(r)
  <2>1. asking' = [asking EXCEPT ![r] = Ends("done")]
    BY <1>5 DEF AddField, EditField, DeleteField, SendToDataset, SubmitFeedback, AnnotateTrace, Verdict, Turn
  <2> QED
    BY <1>2, <2>1 DEF Ends
<1>6. CASE ReadRubric(r)
  <2>1. PICK t \in Labelled, keys \in SUBSET Asked \ {{}} :
          \E answers \in [keys -> Answers], order \in SetToSeqs(keys) :
            asking' = [asking EXCEPT ![r] = [stage |-> "review", trace |-> t, answers |-> answers, order |-> order,
                                             rubric |-> [k \in keys |-> rubric[k]], wrote |-> <<>>]]
    BY <1>6 DEF ReadRubric, Turn
  <2>2. PICK answers \in [keys -> Answers], order \in SetToSeqs(keys) :
          asking' = [asking EXCEPT ![r] = [stage |-> "review", trace |-> t, answers |-> answers, order |-> order,
                                           rubric |-> [k \in keys |-> rubric[k]], wrote |-> <<>>]]
    BY <2>1
  <2> QED
    BY <1>2, <2>2
<1>7. CASE RecordAnswer(r) \/ RefuseAnswer(r) \/ EndReview(r)
  <2>1. Is(r, "review") /\ WroteFine(r)
    BY <1>7 DEF RecordAnswer, RefuseAnswer, EndReview, ReviewsInv, Reviews, Is
  <2>2. Whole(asking[r]) /\ asking[r].trace \in Labelled
    BY <2>1 DEF TracesKnown, WroteFine
  <2>3. \A more : [asking[r] EXCEPT !.wrote = more].trace = asking[r].trace
    BY <2>2 DEF Whole
  <2>4. \A stage : [asking[r] EXCEPT !.stage = stage].trace = asking[r].trace
    BY <2>2 DEF Whole
  <2>5. \E w : asking' = [asking EXCEPT ![r] = w] /\ w.trace = asking[r].trace
    BY <1>7, <2>3, <2>4 DEF RecordAnswer, RefuseAnswer, EndReview, Turn
  <2> QED
    BY <1>2, <2>2, <2>5
<1> QED
  BY <1>1, <1>3, <1>4, <1>5, <1>6, <1>7

\* The tables are in order, texts weigh nothing, and what was charted is right.
ReadsInv ==
  /\ StoreInv /\ TextsInv /\ ChartInv
  /\ part = "review" => TracesKnown

LEMMA TextsStay ==
  ASSUME TextsInv, \A row \in evals' : row \in evals \/ (row.kind = "text" => row.score = 0)
  PROVE  TextsInv'
BY DEF TextsInv

LEMMA GradedNoTexts == ASSUME NEW b, NEW time PROVE \A row \in Graded(b, time) : row.kind = "score"
BY DEF Graded

LEMMA ReadsBegin == ASSUME Init PROVE ReadsInv
<1>1. ReviewInit /\ QueueInit
  BY DEF Init
<1> DEFINE Came(arrived, time) ==
             /\ arrived \in Seq([trace : Spans, at : 0..time]) /\ time \in 0..MaxTime
             /\ \A i, j \in DOMAIN arrived : arrived[i].trace = arrived[j].trace => i = j
<1>2. \/ StoreInit(<<>>, {}, 0)
      \/ \E b \in Before : StoreInit(b.spans, {}, b.now)
      \/ \E b \in Before : StoreInit(b.spans, b.scored, b.now)
  BY DEF Init
<1>3. \A b \in Before : Came(b.spans, b.now) /\ b.scored \in SUBSET Batches /\ IsFiniteSet(b.scored)
  BY BeforeAssumption
<1>4. IsFiniteSet({}) /\ {} \in SUBSET Batches
  BY FS_EmptySet
<1>5. Came(<<>>, 0)
  <2>1. <<>> \in Seq([trace : Spans, at : 0..0]) /\ Len(<<>>) = 0 /\ 0 \in 0..MaxTime
    BY EmptySeq, StoreAssumption
  <2>2. DOMAIN <<>> = {}
    BY <2>1, LenProperties
  <2> QED
    BY <2>1, <2>2
<1> HIDE DEF Came
<1>6. \E arrived, time, graded_ :
        /\ graded_ \in SUBSET Batches
        /\ Came(arrived, time) /\ IsFiniteSet(graded_) /\ StoreInit(arrived, graded_, time)
  <2>1. CASE StoreInit(<<>>, {}, 0)
    BY <1>4, <1>5, <2>1
  <2>2. CASE \E b \in Before : StoreInit(b.spans, {}, b.now)
    <3>1. PICK b \in Before : StoreInit(b.spans, {}, b.now)
      BY <2>2
    <3>2. Came(b.spans, b.now)
      BY <1>3
    <3> QED
      BY <1>4, <3>1, <3>2
  <2>3. CASE \E b \in Before : StoreInit(b.spans, b.scored, b.now)
    <3>1. PICK b \in Before : StoreInit(b.spans, b.scored, b.now)
      BY <2>3
    <3>2. Came(b.spans, b.now) /\ b.scored \in SUBSET Batches /\ IsFiniteSet(b.scored)
      BY <1>3
    <3> QED
      BY <3>1, <3>2
  <2> QED
    BY <1>2, <2>1, <2>2, <2>3
<1>11. PICK arrived, time, graded_ :
         /\ graded_ \in SUBSET Batches
         /\ Came(arrived, time) /\ IsFiniteSet(graded_) /\ StoreInit(arrived, graded_, time)
  BY <1>6
<1>7. StoreInv
  BY <1>11, StoreBegins DEF Came
<1>8. TextsInv
  <2>1. evals = UNION {Graded(b, 0) : b \in graded_}
    BY <1>11 DEF StoreInit
  <2> QED
    BY <2>1, GradedNoTexts DEF TextsInv
<1>9. ChartInv
  BY <1>1, ChartBegins
<1>10. TracesKnown
  BY <1>1 DEF ReviewInit, TracesKnown, Is, Ends
<1> QED
  BY <1>7, <1>8, <1>9, <1>10 DEF ReadsInv

\* A step that reads no matrix, and writes only what judges and people may.
LEMMA ReadsStep ==
  ASSUME ReadsInv, StoreInv', UNCHANGED charted, evals \subseteq evals',
         \A row \in evals' : row \in evals \/ (row.kind = "text" => row.score = 0),
         part' = "review" => TracesKnown',
         UNCHANGED asking \/ (DOMAIN asking' = Reviewers /\ \A r \in Reviewers : Passes(r))
  PROVE  ReadsInv'
<1>1. TextsInv'
  BY TextsStay DEF ReadsInv
<1>2. DOMAIN asking' = Reviewers /\ \A r \in Reviewers : Passes(r)
  <2>1. CASE UNCHANGED asking
    BY <2>1 DEF ReadsInv, ChartInv, ChartFine, Passes
  <2> QED
    BY <2>1
<1>3. ChartInv'
  BY <1>2, ChartsStay DEF ReadsInv
<1> QED
  BY <1>1, <1>3 DEF ReadsInv

LEMMA ReadsSteps == ASSUME PeopleInv, ReadsInv, [Next]_vars PROVE ReadsInv'
<1>0. /\ StoreInv /\ TextsInv /\ ChartInv /\ RowsInv /\ RubricInv /\ ReviewsInv /\ AskingRanges
      /\ part = "review" => TracesKnown
  BY DEF ReadsInv, StoreInv, PeopleInv, RubricInv
<1>a. UNCHANGED part
  BY DEF Next, vars
<1>b. UNCHANGED asking => (part' = "review" => TracesKnown')
  BY <1>0, <1>a DEF TracesKnown, Is
<1>1. CASE UNCHANGED <<storeVars, asking, charted>>
  <2>1. StoreInv' /\ UNCHANGED evals
    BY <1>0, <1>1, StoreStays DEF storeVars
  <2> QED
    BY <1>1, <1>b, <2>1, ReadsStep
<1>2. CASE StoreStep /\ UNCHANGED <<asking, charted>>
  <2>1. StoreInv'
    BY <1>0, <1>2, StoreStepKeeps
  <2>2. evals \subseteq evals' /\ \A row \in evals' : row \in evals \/ (row.kind = "text" => row.score = 0)
    <3>1. ASSUME NEW b \in Batches, Grade(b) PROVE evals' = evals \cup Graded(b, now)
      BY <3>1 DEF Grade, InsertScores
    <3>2. UNCHANGED evals \/ \E b \in Batches : Grade(b)
      BY <1>2 DEF StoreStep, Persist, Bill, ScanSpan, Retire, NextBucket
    <3>3. \A b : \A row \in Graded(b, now) : row.kind # "text"
      BY GradedNoTexts
    <3> QED
      BY <3>1, <3>2, <3>3
  <2> QED
    BY <1>2, <1>b, <2>1, <2>2, ReadsStep
<1>3. CASE SpansStep /\ UNCHANGED <<asking, charted>>
  <2>1. StoreInv'
    BY <1>0, <1>3, SpansStepKeeps
  <2>2. UNCHANGED evals
    BY <1>3 DEF SpansStep, Persist, Retire
  <2> QED
    BY <1>3, <1>b, <2>1, <2>2, ReadsStep
<1>4. CASE ExamplesStep /\ UNCHANGED <<storeVars, charted>> /\ part # "review"
  <2>1. StoreInv' /\ UNCHANGED evals
    BY <1>0, <1>4, StoreStays DEF storeVars
  <2>2. DOMAIN asking' = Reviewers /\ \A r \in Reviewers : Passes(r)
    BY <1>0, <1>4, ExamplesPass
  <2> QED
    BY <1>4, <1>a, <2>1, <2>2, ReadsStep
<1>5. CASE part = "review" /\ ReviewStep /\ Untraced /\ UNCHANGED queueVars
  <2>1. DOMAIN asking' = Reviewers /\ \A r \in Reviewers : Passes(r)
    BY <1>0, <1>5, ReviewPasses
  <2>2. TracesKnown'
    BY <1>0, <1>5, TracesStay
  <2>3. UNCHANGED <<evals, rollup>> \/ \E r \in Reviewers : Answered(r)
    BY <1>0, <1>5, ReviewWrites
  <2>4. UNCHANGED charted /\ UNCHANGED <<spans, costs, scans, expired, now>>
    BY <1>5 DEF queueVars, Untraced
  <2>5. CASE UNCHANGED <<evals, rollup>>
    <3>1. StoreInv'
      BY <1>0, <2>4, <2>5, StoreStays DEF storeVars
    <3> QED
      BY <2>1, <2>2, <2>4, <2>5, <3>1, ReadsStep
  <2>6. ASSUME NEW r \in Reviewers, Answered(r) PROVE ReadsInv'
    <3>1. PICK t \in Labelled, evaluator \in {"human.feedback", "human.annotation"}, score \in Score : \E metric, kind :
            /\ kind = "text" => score = 0
            /\ InsertScores({HumanRow(r, t, evaluator, metric, score, kind)})
      BY <2>6 DEF Answered
    <3>2. PICK metric, kind :
            /\ kind = "text" => score = 0
            /\ InsertScores({HumanRow(r, t, evaluator, metric, score, kind)})
      BY <3>1
    <3>3. StoreInv'
      BY <1>0, <2>4, <3>2, BeforeAssumption, PersonKeeps
    <3>4. evals' = evals \cup {HumanRow(r, t, evaluator, metric, score, kind)}
      BY <3>2 DEF InsertScores
    <3>5. HumanRow(r, t, evaluator, metric, score, kind).kind = "text"
            => HumanRow(r, t, evaluator, metric, score, kind).score = 0
      BY <3>2 DEF HumanRow
    <3> QED
      BY <2>1, <2>2, <2>4, <3>3, <3>4, <3>5, ReadsStep
  <2> QED
    BY <2>3, <2>5, <2>6
<1>6. CASE part = "review" /\ QueueStep /\ UNCHANGED storeVars
  <2>1. StoreInv' /\ UNCHANGED evals
    BY <1>0, <1>6, StoreStays DEF storeVars
  <2>2. ChartInv'
    BY <1>0, <1>6, <2>1, QueueStepKeeps
  <2>3. TextsInv'
    BY <1>0, <2>1, TextsStay
  <2>4. PICK r \in Reviewers, stage \in {"matrix", "done"} : asking' = [asking EXCEPT ![r] = Ends(stage)]
    BY <1>6 DEF QueueStep, ReadMatrix, ReadCoverage, Turn
  <2>5. Ends(stage).stage = stage
    BY DEF Ends
  <2>6. TracesKnown'
    BY <1>0, <1>6, <2>4, <2>5, Turned DEF TracesKnown, Is
  <2> QED
    BY <2>1, <2>2, <2>3, <2>6 DEF ReadsInv
<1> QED
  <2>1. CASE KeptStep
    BY <1>0, <1>1, <1>2, <1>3, <1>4, <1>5, <1>6, <2>1
    DEF KeptStep, PeopleStep, DatasetStep, reviewVars, queueVars
  <2>2. CASE UNCHANGED <<storeVars, reviewVars, queueVars>>
    BY <1>1, <2>2 DEF reviewVars, queueVars
  <2> QED
    BY <2>1, <2>2 DEF Next, vars

-----------------------------------------------------------------------------
(* Types. *)

\* What no other invariant bounds.
CodeBounds ==
  /\ begun \in 0..MaxRequests /\ apart \subseteq {Folded[n] : n \in DOMAIN Folded}
  /\ \A i \in items : i.run \in DOMAIN runs
RemoteBounds ==
  /\ gone \subseteq Servers /\ triggered \in 0..MaxTriggers /\ registered \in 0..MaxRegistered
BoundsInv == crowded \subseteq Reviewers /\ CodeBounds /\ RemoteBounds /\ CompareTypeOK

LEMMA BoundsBegin == ASSUME Init PROVE BoundsInv
<1>1. ReviewInit /\ CodeInit /\ RemoteInit /\ CompareInit
  BY DEF Init
<1>2. CodeBounds
  <2>1. CodeRanges
    BY <1>1, CodeInitRanges
  <2>2. PICK names \in Opened : apart = Spelled(names)
    BY <1>1 DEF CodeInit
  <2>3. \A i \in DOMAIN names : names[i] \in DOMAIN Folded
    BY <2>1, NamesAssumption, Listing DEF NameLists, Known
  <2> QED
    BY <1>1, <2>2, <2>3, NamesAssumption DEF CodeInit, CodeBounds, Spelled
<1>3. RemoteBounds
  BY <1>1, RemoteAssumption DEF RemoteInit, RemoteBounds
<1>4. CompareTypeOK
  BY <1>1 DEF CompareInit, CompareTypeOK
<1>5. crowded \subseteq Reviewers
  BY <1>1 DEF ReviewInit
<1> QED
  BY <1>2, <1>3, <1>4, <1>5 DEF BoundsInv

LEMMA RemoteKeepsBounds == ASSUME RemoteBounds, RemoteStep PROVE RemoteBounds'
<1>1. gone' \subseteq Servers
  BY DEF RemoteBounds, RemoteStep, RegisterRemoteEvals, NextRemoteEval, TakeRequest, GiveUp,
     StopServing, ListRemoteEvals, TriggerRemoteEval, TimePasses, RestartApi
<1>2. UNCHANGED triggered \/ (triggered < MaxTriggers /\ triggered' = triggered + 1)
  BY DEF RemoteStep, RegisterRemoteEvals, NextRemoteEval, TakeRequest, GiveUp,
     StopServing, ListRemoteEvals, TriggerRemoteEval, TimePasses, RestartApi
<1>3. UNCHANGED registered \/ (registered < MaxRegistered /\ registered' = registered + 1)
  BY DEF RemoteStep, RegisterRemoteEvals, NextRemoteEval, TakeRequest, GiveUp,
     StopServing, ListRemoteEvals, TriggerRemoteEval, TimePasses, RestartApi
<1> QED
  BY <1>1, <1>2, <1>3, RemoteAssumption DEF RemoteBounds

LEMMA CodeKeepsBounds ==
  ASSUME CodeInv, CodeBounds, CodeStep
  PROVE  CodeBounds'
<1>0. CodeRanges /\ SendsInv
  BY DEF CodeInv
<1>1. ASSUME NEW s \in Scripts, NEW names \in NameLists, Looks(s, names)
      PROVE  apart' \subseteq {Folded[n] : n \in DOMAIN Folded}
  <2>1. \A k \in DOMAIN names : names[k] \in DOMAIN Folded
    BY <1>0, Listing DEF Known
  <2> QED
    BY <1>1, <2>1 DEF Looks, Spelled, CodeBounds
<1>2. begun' \in 0..MaxRequests
  <2>1. \/ UNCHANGED begun
        \/ \E s \in Scripts : CreateDataset(s) \/ BeginPush(s) \/ StartRun(s) \/ BeginBatch(s) \/ ReadRunReport(s)
    BY DEF CodeStep, PushScorer, ReadDatasets, PushDataset, PushExamples, ReadAgain, AttachScorer,
       HoldDataset, OpenRun, PublishResult, AddItems, SetTotal, FailBatch, SummarizeAndFinalize, GradeJob
  <2>2. ASSUME NEW s \in Scripts,
               CreateDataset(s) \/ BeginPush(s) \/ StartRun(s) \/ BeginBatch(s) \/ ReadRunReport(s)
        PROVE  begun < MaxRequests /\ begun' = begun + 1
    BY <2>2 DEF CreateDataset, BeginPush, StartRun, BeginBatch, ReadRunReport, Begins
  <2> QED
    BY <2>1, <2>2, NamesAssumption DEF CodeBounds
<1>3. apart' \subseteq {Folded[n] : n \in DOMAIN Folded}
  <2>1. \/ UNCHANGED apart
        \/ \E s \in Scripts : CreateDataset(s)
        \/ \E s \in Scripts : At(s, "datasets") /\ Looks(s, doing[s].names)
        \/ \E s \in Scripts : StartRun(s)
    <3>1. UNCHANGED apart \/ \E s \in Scripts : CreateDataset(s) \/ StartRun(s) \/ ReadDatasets(s)
      BY DEF CodeStep, BeginPush, PushScorer, PushDataset, PushExamples, ReadAgain, AttachScorer,
         HoldDataset, OpenRun, BeginBatch, PublishResult, AddItems, SetTotal, FailBatch, ReadRunReport,
         SummarizeAndFinalize, GradeJob
    <3>2. \A s \in Scripts : ReadDatasets(s) => At(s, "datasets") /\ Looks(s, doing[s].names)
      BY DEF ReadDatasets
    <3> QED
      BY <3>1, <3>2
  <2>2. ASSUME NEW s \in Scripts, At(s, "datasets") PROVE doing[s].names \in NameLists
    BY <1>0, <2>2, StageShapes, ListShapes DEF At
  <2>3. ASSUME NEW s \in Scripts, StartRun(s) PROVE \E names \in NameLists : Looks(s, names)
    <3>1. PICK name \in Known : Looks(s, <<name>>)
      BY <1>0, <2>3, Starting
    <3> DEFINE names == <<name>>
    <3>2. names \in NameLists
      BY DEF NameLists
    <3>3. Looks(s, names)
      BY <3>1
    <3> HIDE DEF names
    <3> QED
      BY <3>2, <3>3
  <2>4. ASSUME NEW s \in Scripts, CreateDataset(s) PROVE apart' \subseteq {Folded[n] : n \in DOMAIN Folded}
    <3>1. PICK name \in Known : apart' \subseteq apart \cup {Folded[name]}
      BY <1>0, <2>4, Creating
    <3> QED
      BY <3>1 DEF CodeBounds, Known
  <2> QED
    BY <1>1, <2>1, <2>2, <2>3, <2>4 DEF CodeBounds
<1>4. \A i \in items' : i.run \in DOMAIN runs'
  <2>1. DOMAIN runs \subseteq DOMAIN runs'
    <3>1. \/ DOMAIN runs' = DOMAIN runs
          \/ \E s \in Scripts : OpenRun(s)
      BY DEF CodeStep, CreateDataset, BeginPush, PushScorer, ReadDatasets, PushDataset, PushExamples, ReadAgain,
         AttachScorer, StartRun, HoldDataset, BeginBatch, PublishResult, AddItems, SetTotal, FailBatch, ReadRunReport,
         SummarizeAndFinalize, GradeJob
    <3>2. ASSUME NEW s \in Scripts, OpenRun(s) PROVE DOMAIN runs \subseteq DOMAIN runs'
      <4>1. doing[s] \in Holding
        BY <1>0, <3>2, StageShapes DEF OpenRun, At
      <4>2. Len(runs) \in Nat /\ DOMAIN runs = 1..Len(runs)
        BY <1>0, RunsKept
      <4>3. DOMAIN runs' = 1..(Len(runs) + 1)
        BY <1>0, <3>2, <4>1, Opens, LenProperties
      <4> QED
        BY <4>2, <4>3
    <3> QED
      BY <3>1, <3>2
  <2>2. \/ UNCHANGED items
        \/ \E s \in Scripts : /\ At(s, "post")
                              /\ items' = items \cup {[run |-> doing[s].run, trace |-> t] : t \in doing[s].batch}
    BY DEF CodeStep, CreateDataset, BeginPush, PushScorer, ReadDatasets, PushDataset, PushExamples, ReadAgain, AttachScorer,
       StartRun, HoldDataset, OpenRun, BeginBatch, PublishResult, AddItems, SetTotal, FailBatch, ReadRunReport,
       SummarizeAndFinalize, GradeJob
  <2>3. ASSUME NEW s \in Scripts, At(s, "post") PROVE doing[s].run \in DOMAIN runs
    <3>1. doing[s].run \in 1..Len(runs)
      BY <1>0, <2>3 DEF SendsInv, SendFine, At
    <3> QED
      BY <1>0, <3>1, RunsKept
  <2> QED
    BY <2>1, <2>2, <2>3 DEF CodeBounds
<1> QED
  BY <1>2, <1>3, <1>4 DEF CodeBounds

LEMMA CrowdsAreKnown ==
  ASSUME crowded \subseteq Reviewers, ReviewStep \/ ExamplesStep
  PROVE  crowded' \subseteq Reviewers
BY DEF ReviewStep, CountFields, AddField, ReadField, EditField, DeleteField, ReadRubric, SendToDataset,
   SubmitFeedback, AnnotateTrace, Verdict, RecordAnswer, RefuseAnswer, EndReview,
   ExamplesStep, ReadSources, FetchPage, ReadRun, WritePin, LosePin, AddRows, LinkAgent, UnlinkAgent, AddExample,
   ViewTrajectory, RemoveExample, DeleteDataset, exampleVars

\* Rows come in one by one, of those that evaluators may write.
LEMMA ResultsBegin == ASSUME Init PROVE ResultsKnown
BY FS_EmptySet DEF Init, CompareInit, ResultsKnown

LEMMA ResultsSteps == ASSUME ResultsKnown, [Next]_vars PROVE ResultsKnown'
<1>1. RowArrives \/ UNCHANGED compareVars
  BY DEF Next, RunsStep, vars
<1>2. CASE RowArrives
  <2>1. PICK row \in ResultRows \ results : results' = results \cup {row}
    BY <1>2 DEF RowArrives
  <2>2. IsFiniteSet(results \cup {row})
    BY FS_AddElement DEF ResultsKnown
  <2> QED
    BY <1>2, <2>1, <2>2 DEF RowArrives, ResultsKnown
<1>3. CASE UNCHANGED compareVars
  BY <1>3 DEF compareVars, ResultsKnown
<1> QED
  BY <1>1, <1>2, <1>3

LEMMA BoundsSteps == ASSUME CodeInv, BoundsInv, [Next]_vars PROVE BoundsInv'
<1>1. CodeStep \/ UNCHANGED codeVars
  BY DEF Next, RunsStep, vars
<1>2. RemoteStep \/ UNCHANGED remoteVars
  BY DEF Next, RunsStep, vars
<1>3. RowArrives \/ UNCHANGED compareVars
  BY DEF Next, RunsStep, vars
<1>4. ReviewStep \/ ExamplesStep \/ UNCHANGED crowded
  BY DEF Next, KeptStep, PeopleStep, DatasetStep, vars, reviewVars
<1>5. CodeBounds'
  <2>1. CASE UNCHANGED codeVars
    BY <2>1 DEF BoundsInv, CodeBounds, codeVars
  <2> QED
    BY <1>1, <2>1, CodeKeepsBounds DEF BoundsInv
<1>6. RemoteBounds'
  <2>1. CASE UNCHANGED remoteVars
    BY <2>1 DEF BoundsInv, RemoteBounds, remoteVars
  <2> QED
    BY <1>2, <2>1, RemoteKeepsBounds DEF BoundsInv
<1>7. CompareTypeOK'
  BY <1>3 DEF BoundsInv, CompareTypeOK, RowArrives, compareVars
<1>8. crowded' \subseteq Reviewers
  BY <1>4, CrowdsAreKnown DEF BoundsInv
<1> QED
  BY <1>5, <1>6, <1>7, <1>8 DEF BoundsInv

LEMMA InvTypes ==
  ASSUME PeopleInv, CodeInv, RemoteInv, StoreInv, BoundsInv
  PROVE  TypeOK
<1>1. LabelsTypeOK
  BY DEF PeopleInv, LabelsInv, LabelRanges, Requests, LabelsTypeOK
<1>2. ReviewTypeOK
  BY AskedFinite DEF PeopleInv, RubricInv, BoundsInv, ReviewTypeOK
<1>3. CodeTypeOK
  <2>1. ASSUME NEW n \in DOMAIN runs PROVE runs[n].status \in {"running", "complete"} /\ runs[n].set \in DOMAIN named
    <3>1. n \in 1..Len(runs) /\ runs[n] \in Locals
      BY RunsKept DEF CodeInv
    <3>2. runs[n].set \in Matches(runs[n].name)
      BY <3>1 DEF CodeInv, NamesInv, RunsNamed
    <3> QED
      BY <3>1, <3>2 DEF Locals, Matches
  <2>2. graded \subseteq jobs
    BY DEF CodeInv, CodeRanges
  <2> QED
    BY <2>1, <2>2 DEF BoundsInv, CodeBounds, CodeTypeOK
<1>4. RemoteTypeOK
  BY DEF RemoteInv, RemoteBounds, BoundsInv, RemoteRanges, RemoteTypeOK
<1>5. CompareTypeOK
  BY DEF BoundsInv
<1>6. DOMAIN spans = 1..Len(spans) /\ \A i \in 1..Len(spans) : spans[i] \in [trace : Spans, at : Nat]
  BY LenProperties, ElementOfSeq DEF StoreInv, SpansInv
<1>7. \A i \in DOMAIN spans : spans[i].trace \in Spans /\ spans[i].at \in 0..now
  BY <1>6, StoreAssumption DEF StoreInv, SpansInv
<1>8. \A row \in evals : row.trace \in Spans /\ row.score \in Score /\ row.at \in 0..now
  BY DEF StoreInv, RowsInv, RowKept
<1>9. expired \cap Here = {}
  BY <1>6 DEF StoreInv, SpansInv, Here
<1> QED
  BY <1>1, <1>2, <1>3, <1>4, <1>5, <1>7, <1>8, <1>9 DEF TypeOK

-----------------------------------------------------------------------------
(* What the lists show, and what is made of it. *)

Explained(x) ==
  x.had = {} => x.lost \/ x.source \in expired \/ SpanOf[x.source].root # x.source \/ x.kind = "single"

\* A run that was there, and ties with no other, has been looked at, is on the page at
\* hand, or is on a page to come: those that are newer come before it in every order of
\* those that tie.
InPage(a, t) == \E i \in DOMAIN a.page : a.page[i] = t
Since(t) == {s \in Matching(AgentRuns) : CameIn(s) > CameIn(t)}
ToCome(a, t) ==
  /\ a.stage \in {"link", "page"} \/ ~a.last
  /\ Cardinality(Since(t)) >= a.offset
Reached(a, t) ==
  \/ a.stage # "link" /\ t \in a.seen
  \/ a.stage \in {"row", "pin"} /\ InPage(a, t)
  \/ ToCome(a, t)

Working == {"link", "page", "row", "pin"}
FindsAll(a) ==
  /\ a.gone \subseteq expired /\ a.offset \in Nat /\ a.kind \in {"import", "single", "view"}
  /\ \A x \in a.adding : Explained(x)
  /\ a.kind = "import" =>
       /\ \A i \in DOMAIN a.page : a.page[i] \in Here \cup expired
       /\ a.stage = "pin" /\ a.held = {} => a.run \in expired \/ SpanOf[a.run].root # a.run
  /\ expired = a.gone => \A t \in a.there : t \in Matching(AgentRuns) /\ (t \in Tied \/ Reached(a, t))

AsksItsRun(e) == SpanOf[e.question].root = e.source /\ e.question \in Here \cup expired

ImportsInv ==
  /\ \A r \in Reviewers : AtWork(r) => part = "examples" /\ FindsAll(asking[r])
  /\ \A r \in Reviewers : Is(r, "added") /\ asking[r].whole => asking[r].missed \subseteq asking[r].tied
  /\ \A e \in imports : Explained(e)
  /\ \A e \in examples : AsksItsRun(e)

\* A run that ties with no other has its place in every order of those that do.
LEMMA SinceIs ==
  ASSUME SpansInv, NEW t \in Matching(AgentRuns)
  PROVE  /\ Matching(AgentRuns) \in SUBSET Here /\ IsFiniteSet(Matching(AgentRuns)) /\ IsFiniteSet(Since(t))
         /\ Cardinality(Since(t)) \in Nat
         /\ t \notin Tied => \A tie \in Ties : Place(Matching(AgentRuns), t, AgentRuns, tie) = Cardinality(Since(t))
<1>1. Matching(AgentRuns) \in SUBSET Here /\ AgentRuns.sort = "newest"
  BY AgentRunsAre DEF AgentRuns, Runs
<1>2. IsFiniteSet(Matching(AgentRuns))
  BY <1>1, HereFinite
<1>3. IsFiniteSet(Since(t)) /\ Cardinality(Since(t)) \in Nat
  <2>1. Since(t) \in SUBSET Matching(AgentRuns)
    BY DEF Since
  <2> QED
    BY <1>2, <2>1, FS_Subset, FS_CardinalityType
<1>4. ASSUME t \notin Tied, NEW tie \in Ties
      PROVE  Place(Matching(AgentRuns), t, AgentRuns, tie) = Cardinality(Since(t))
  <2>1. ASSUME NEW s \in Matching(AgentRuns) PROVE Later(s, t, tie) <=> CameIn(s) > CameIn(t)
    <3>1. CameIn(s) \in Nat /\ CameIn(t) \in Nat
      BY <1>1, CameAt
    <3>2. CASE s = t
      <4>1. tie[t] \in Nat
        BY <1>1, TiesTell
      <4> QED
        BY <3>1, <3>2, <4>1 DEF Later
    <3>3. CASE s # t
      <4>1. CameIn(t) # CameIn(s)
        BY <1>4, <3>3 DEF Tied
      <4> QED
        BY <3>1, <4>1 DEF Later
    <3> QED
      BY <3>2, <3>3
  <2>2. \A s : Sooner(s, t, AgentRuns, tie) <=> Later(s, t, tie)
    BY <1>1 DEF Sooner
  <2>3. {s \in Matching(AgentRuns) : Sooner(s, t, AgentRuns, tie)} = Since(t)
    BY <2>1, <2>2 DEF Since
  <2> QED
    BY <2>3, Zenon DEF Place
<1> QED
  BY <1>1, <1>2, <1>3, <1>4

LEMMA ImportsAreWhole == ASSUME ImportsInv PROVE ExamplesAsk /\ ImportsWhole
BY DEF ImportsInv, ExamplesAsk, ImportsWhole, Explained, AsksItsRun

\* While a request does one thing, the others go on as they were.
LEMMA ImportsTurn ==
  ASSUME ImportsInv, NEW r \in Reviewers, NEW w, asking'[r] = w,
         \A o \in Reviewers : o # r => asking'[o] = asking[o],
         UNCHANGED <<part, spans, costs, expired>>,
         w.stage \in Working => part = "examples" /\ FindsAll(w),
         w.stage = "added" /\ w.whole => w.missed \subseteq w.tied,
         \A e \in imports' : e \in imports \/ Explained(e),
         \A e \in examples' : e \in examples \/ AsksItsRun(e)
  PROVE  ImportsInv'
<1>1. asking'[r] = w /\ \A o \in Reviewers : o # r => asking'[o] = asking[o]
  OBVIOUS
<1>2. Here' = Here /\ UNCHANGED expired
  BY DEF Here
<1>3. \A x : Explained(x)' <=> Explained(x)
  BY <1>2 DEF Explained
<1>4. \A e : AsksItsRun(e)' <=> AsksItsRun(e)
  BY <1>2 DEF AsksItsRun
<1>5. Matching(AgentRuns)' = Matching(AgentRuns)
  <2>1. \A t : OfAgentRuns(t)' <=> OfAgentRuns(t)
    BY DEF OfAgentRuns, OfAgent, Billed
  <2>2. \A t : t \in Matching(AgentRuns)' <=> t \in Here' /\ OfAgentRuns(t)'
    BY AgentRunsAre
  <2>3. \A t : t \in Matching(AgentRuns)' <=> t \in Matching(AgentRuns)
    BY <1>2, <2>1, <2>2, AgentRunsAre
  <2> QED
    BY <2>3
<1>6. \A t : CameIn(t)' = CameIn(t)
  BY DEF CameIn
<1>7. Tied' = Tied /\ \A t : Since(t)' = Since(t)
  BY <1>5, <1>6 DEF Tied, Since
<1>8. ASSUME NEW a, FindsAll(a) PROVE FindsAll(a)'
  <2>1. \A t : Reached(a, t)' <=> Reached(a, t)
    BY <1>7 DEF Reached, ToCome, InPage
  <2> QED
    BY <1>2, <1>3, <1>5, <1>7, <1>8, <2>1 DEF FindsAll
<1>9. ASSUME NEW o \in Reviewers, AtWork(o)' PROVE part' = "examples" /\ FindsAll(asking[o])'
  <2>1. PICK a : a = asking'[o]
    OBVIOUS
  <2>2. FindsAll(a) /\ part = "examples"
    BY <1>1, <1>9, <2>1 DEF ImportsInv, AtWork, Working
  <2>3. FindsAll(a)'
    BY <1>8, <2>2
  <2> QED
    BY <2>1, <2>2, <2>3
<1>10. \A o \in Reviewers : Is(o, "added")' /\ asking'[o].whole => asking'[o].missed \subseteq asking'[o].tied
  BY <1>1 DEF ImportsInv, Is
<1>11. (\A e \in imports' : Explained(e)') /\ \A e \in examples' : AsksItsRun(e)'
  BY <1>3, <1>4 DEF ImportsInv
<1> QED
  BY <1>9, <1>10, <1>11 DEF ImportsInv

LEMMA ImportsMove ==
  ASSUME AskingRanges, ImportsInv, NEW r \in Reviewers, NEW w, asking' = [asking EXCEPT ![r] = w],
         UNCHANGED <<part, spans, costs, expired>>,
         w.stage \in Working => part = "examples" /\ FindsAll(w),
         w.stage = "added" /\ w.whole => w.missed \subseteq w.tied,
         \A e \in imports' : e \in imports \/ Explained(e),
         \A e \in examples' : e \in examples \/ AsksItsRun(e)
  PROVE  ImportsInv'
BY Turned, ImportsTurn

\* A span comes in as the newest, or expires.
LEMMA SpansMove ==
  ASSUME SpansInv, NEW t \in Spans, Persist(t) \/ Retire(t)
  PROVE  /\ Here \cup expired \subseteq Here' \cup expired' /\ expired \subseteq expired'
         /\ UNCHANGED costs
         /\ expired' = expired => Here \subseteq Here' /\ \A s \in Here : CameIn(s)' = CameIn(s)
<1> DEFINE n == Len(spans)
<1>0. /\ Here = {spans[i].trace : i \in 1..n} /\ DOMAIN spans = 1..n /\ Here \cap expired = {} /\ n \in Nat
      /\ \A i \in 1..n : spans[i].trace \in Spans
  BY HereIs
<1>1. CASE Persist(t)
  <2>1. spans' = Append(spans, [trace |-> t, at |-> now]) /\ UNCHANGED <<expired, costs>>
    BY <1>1 DEF Persist
  <2>2. DOMAIN spans' = 1..(n + 1) /\ \A i \in 1..n : spans'[i] = spans[i]
    BY <2>1, AppendProperties DEF SpansInv
  <2>3. \A i \in 1..n : i \in DOMAIN spans'
    BY <1>0, <2>2
  <2>4. Here \subseteq Here'
    BY <1>0, <2>2, <2>3 DEF Here
  <2>5. ASSUME NEW s \in Here PROVE CameIn(s)' = CameIn(s)
    <3>1. \A i \in DOMAIN spans' : spans'[i].trace = s <=> i \in DOMAIN spans /\ spans[i].trace = s
      <4>1. t # s /\ spans'[n + 1].trace = t
        BY <1>1, <2>1, AppendProperties DEF Persist, SpansInv
      <4>2. \A i \in DOMAIN spans' : i \in 1..n \/ i = n + 1
        BY <1>0, <2>2
      <4> QED
        BY <1>0, <2>2, <4>1, <4>2
    <3>2. PICK j \in DOMAIN spans : spans[j].trace = s
      BY <1>0
    <3>3. \A i \in DOMAIN spans : spans[i].trace = s => i = j
      BY <1>0, <3>2 DEF SpansInv
    <3>4. CameIn(s) = spans[j].at
      <4>1. (CHOOSE i \in DOMAIN spans : spans[i].trace = s) = j
        BY <3>2, <3>3
      <4> QED
        BY <4>1, Zenon DEF CameIn
    <3>5. CameIn(s)' = spans'[j].at
      <4>1. j \in DOMAIN spans' /\ spans'[j].trace = s /\ \A i \in DOMAIN spans' : spans'[i].trace = s => i = j
        BY <1>0, <2>2, <2>3, <3>1, <3>2, <3>3
      <4>2. (CHOOSE i \in DOMAIN spans' : spans'[i].trace = s) = j
        BY <4>1
      <4> QED
        BY <4>2, Zenon DEF CameIn
    <3> QED
      BY <1>0, <2>2, <3>2, <3>4, <3>5
  <2> QED
    BY <2>1, <2>4, <2>5
<1>2. CASE Retire(t)
  <2>1. PICK i \in DOMAIN spans : spans[i].trace = t /\ spans' = RemoveAt(spans, i)
    BY <1>2 DEF Retire
  <2>2. expired' = expired \cup {t} /\ UNCHANGED costs
    BY <1>2 DEF Retire
  <2>3. t \in Here /\ t \notin expired
    BY <1>0, <2>1
  <2>4. ASSUME NEW s \in Here, s # t PROVE s \in Here'
    <3>1. PICK j \in 1..n : spans[j].trace = s
      BY <1>0
    <3>2. j # i /\ i \in 1..n
      BY <1>0, <2>1, <2>4, <3>1
    <3>3. PICK S : S = [trace : Spans, at : Nat]
      OBVIOUS
    <3>4. spans \in Seq(S)
      BY <3>3 DEF SpansInv
    <3>5. /\ spans' \in Seq(S) /\ Len(spans') = n - 1
          /\ \A k \in 1..(n - 1) : spans'[k] = IF k < i THEN spans[k] ELSE spans[k + 1]
      BY <2>1, <3>2, <3>4, Removed
    <3>6. DOMAIN spans' = 1..(n - 1)
      BY <3>5, LenProperties
    <3>7. \E k \in 1..(n - 1) : spans'[k] = spans[j]
      <4>1. CASE j < i
        <5>1. j \in 1..(n - 1)
          BY <1>0, <3>2, <4>1
        <5> QED
          BY <3>5, <4>1, <5>1
      <4>2. CASE ~(j < i)
        <5>1. j - 1 \in 1..(n - 1) /\ ~(j - 1 < i) /\ (j - 1) + 1 = j
          BY <1>0, <3>2, <4>2
        <5> QED
          BY <3>5, <5>1
      <4> QED
        BY <4>1, <4>2
    <3>8. s \in Spans
      BY DEF Here
    <3> QED
      BY <3>1, <3>6, <3>7, <3>8 DEF Here
  <2> QED
    BY <2>2, <2>3, <2>4
<1> QED
  BY <1>1, <1>2

LEMMA ImportsWait ==
  ASSUME SpansInv, SpansInv', ImportsInv, NEW t \in Spans, Persist(t) \/ Retire(t),
         UNCHANGED <<part, asking, imports, examples>>
  PROVE  ImportsInv'
<1>1. /\ Here \cup expired \subseteq Here' \cup expired' /\ expired \subseteq expired'
      /\ UNCHANGED costs
      /\ expired' = expired => Here \subseteq Here' /\ \A s \in Here : CameIn(s)' = CameIn(s)
  BY SpansMove
<1>2. (\A x : Explained(x) => Explained(x)') /\ \A e : AsksItsRun(e) => AsksItsRun(e)'
  BY <1>1 DEF Explained, AsksItsRun
<1>3. \A s : OfAgentRuns(s)' <=> OfAgentRuns(s)
  BY <1>1 DEF OfAgentRuns, OfAgent, Billed
<1>4. \A s : s \in Matching(AgentRuns)' <=> s \in Here' /\ OfAgentRuns(s)'
  BY AgentRunsAre
<1>5. ASSUME expired' = expired, NEW s \in Matching(AgentRuns)
      PROVE  /\ s \in Matching(AgentRuns)' /\ (s \in Tied => s \in Tied')
             /\ Cardinality(Since(s)) \in Nat /\ Cardinality(Since(s))' \in Nat
             /\ Cardinality(Since(s)) <= Cardinality(Since(s))'
  <2>1. \A u \in Matching(AgentRuns) : u \in Matching(AgentRuns)' /\ CameIn(u)' = CameIn(u)
    BY <1>1, <1>3, <1>4, <1>5, AgentRunsAre
  <2>2. Since(s) \in SUBSET Since(s)'
    BY <1>5, <2>1 DEF Since
  <2>3. s \in Tied => s \in Tied'
    BY <1>5, <2>1 DEF Tied
  <2>4. IsFiniteSet(Since(s)) /\ IsFiniteSet(Since(s)')
    <3>1. \A T \in SUBSET Here' : IsFiniteSet(T)
      <4>1. \A T \in SUBSET Here' : T \in SUBSET Spans
        BY DEF Here
      <4> QED
        BY <4>1, StoreAssumption, FS_Subset
    <3>2. Since(s)' \in SUBSET Here'
      BY <1>4 DEF Since
    <3> QED
      BY <1>5, <3>1, <3>2, SinceIs
  <2>5. PICK A, B : A = Since(s) /\ B = Since(s)'
    OBVIOUS
  <2>6. Cardinality(A) <= Cardinality(B) /\ Cardinality(A) \in Nat /\ Cardinality(B) \in Nat
    BY <2>2, <2>4, <2>5, FS_Subset, FS_CardinalityType
  <2> QED
    BY <1>5, <2>1, <2>3, <2>5, <2>6
<1>6. ASSUME NEW a, FindsAll(a) PROVE FindsAll(a)'
  <2>1. a.gone \subseteq expired' /\ (expired' = a.gone => expired' = expired)
    BY <1>1, <1>6 DEF FindsAll
  <2>2. ASSUME expired' = expired, NEW s \in Matching(AgentRuns), Reached(a, s) PROVE Reached(a, s)'
    <3>1. ToCome(a, s) => ToCome(a, s)'
      <4>1. a.offset \in Nat
        BY <1>6 DEF FindsAll
      <4>2. Cardinality(Since(s)) >= a.offset => Cardinality(Since(s))' >= a.offset
        BY <1>5, <2>2, <4>1
      <4> QED
        BY <4>2 DEF ToCome
    <3> QED
      BY <2>2, <3>1 DEF Reached, InPage
  <2>3. a.kind = "import" => \A i \in DOMAIN a.page : a.page[i] \in Here' \cup expired'
    BY <1>1, <1>6 DEF FindsAll
  <2>4. expired' = a.gone => \A s \in a.there : s \in Matching(AgentRuns)' /\ (s \in Tied' \/ Reached(a, s)')
    BY <1>5, <1>6, <2>1, <2>2 DEF FindsAll
  <2> QED
    BY <1>1, <1>2, <1>6, <2>1, <2>3, <2>4 DEF FindsAll
<1>7. ASSUME NEW o \in Reviewers, AtWork(o)' PROVE part' = "examples" /\ FindsAll(asking[o])'
  <2>1. PICK a : a = asking[o]
    OBVIOUS
  <2>2. FindsAll(a) /\ part = "examples"
    BY <1>7, <2>1 DEF ImportsInv, AtWork
  <2>3. FindsAll(a)'
    BY <1>6, <2>2
  <2> QED
    BY <2>1, <2>2, <2>3
<1> QED
  BY <1>2, <1>7 DEF ImportsInv, Is

\* A request of the examples begins, goes on, or ends.
Asks(r) ==
  /\ AskingRanges /\ SpansInv /\ ExamplesInv /\ ImportsInv /\ part = "examples"
  /\ UNCHANGED <<part, spans, costs, expired>>

LEMMA LinkFinds == ASSUME NEW r \in Reviewers, Asks(r), LinkAgent(r), UNCHANGED examples PROVE ImportsInv'
<1> USE DEF Asks
<1>1. PICK w : w = [Carries("import", <<>>, {}) EXCEPT !.stage = "link", !.there = Listed(AgentRuns)]
  OBVIOUS
<1>2. /\ w.stage = "link" /\ w.kind = "import" /\ w.page = <<>> /\ w.adding = {} /\ w.offset = 0
      /\ w.gone = expired /\ w.there = Listed(AgentRuns)
  BY <1>1 DEF Carries
<1>3. asking' = [asking EXCEPT ![r] = w] /\ UNCHANGED imports
  BY <1>1 DEF LinkAgent, Turn
<1>4. w.there = Matching(AgentRuns)
  BY <1>2, AgentRunsAre, ListedAll DEF Plain
<1>5. ASSUME NEW t \in w.there PROVE t \in Matching(AgentRuns) /\ Reached(w, t)
  <2>1. Cardinality(Since(t)) \in Nat
    BY <1>4, <1>5, SinceIs
  <2>2. ToCome(w, t)
    BY <1>2, <2>1 DEF ToCome
  <2> QED
    BY <1>4, <1>5, <2>2 DEF Reached
<1>6. \A i \in DOMAIN w.page : FALSE
  <2>1. <<>> \in Seq(Spans) /\ Len(<<>>) = 0
    BY EmptySeq
  <2>2. DOMAIN <<>> = {}
    BY <2>1, LenProperties
  <2> QED
    BY <1>2, <2>2
<1>7. FindsAll(w)
  BY <1>2, <1>5, <1>6 DEF FindsAll
<1> QED
  BY <1>2, <1>3, <1>7, ImportsMove

LEMMA OneFinds ==
  ASSUME NEW r \in Reviewers, Asks(r), AddExample(r) \/ ViewTrajectory(r), UNCHANGED examples
  PROVE  ImportsInv'
<1> USE DEF Asks
<1>0. PICK t : asking' = [asking EXCEPT ![r] = Carries("single", <<t>>, {})]
               \/ asking' = [asking EXCEPT ![r] = Carries("view", <<t>>, {})]
  BY DEF AddExample, ViewTrajectory, Turn
<1>1. PICK kind \in {"single", "view"} : asking' = [asking EXCEPT ![r] = Carries(kind, <<t>>, {})]
  BY <1>0
<1>2. PICK w : w = Carries(kind, <<t>>, {})
  OBVIOUS
<1>3. w.stage = "row" /\ w.kind = kind /\ w.adding = {} /\ w.offset = 0 /\ w.gone = expired /\ w.there = {}
  BY <1>2 DEF Carries
<1>4. FindsAll(w)
  BY <1>3 DEF FindsAll
<1>5. asking' = [asking EXCEPT ![r] = w] /\ UNCHANGED imports
  BY <1>1, <1>2 DEF AddExample, ViewTrajectory
<1> QED
  BY <1>3, <1>4, <1>5, ImportsMove

LEMMA SourcesFind == ASSUME NEW r \in Reviewers, Asks(r), ReadSources(r), UNCHANGED examples PROVE ImportsInv'
<1> USE DEF Asks
<1>1. PICK a : a = asking[r]
  OBVIOUS
<1>2. PICK w : w = [a EXCEPT !.stage = "page", !.seen = Sources]
  OBVIOUS
<1>3. AtWork(r) /\ a.stage = "link" /\ asking' = [asking EXCEPT ![r] = w] /\ UNCHANGED imports
  BY <1>1, <1>2 DEF ReadSources, Turn, AtWork, Is
<1>4. DOMAIN a = CarryFields /\ FindsAll(a)
  BY <1>1, <1>3 DEF ExamplesInv, CarryFine, ImportsInv
<1>5. /\ w.stage = "page" /\ w.kind = a.kind /\ w.page = a.page /\ w.adding = a.adding /\ w.offset = a.offset
      /\ w.gone = a.gone /\ w.there = a.there
  BY <1>2, <1>4 DEF CarryFields
<1>6. \A t : Reached(a, t) => Reached(w, t)
  BY <1>3, <1>5 DEF Reached, ToCome
<1>7. FindsAll(w)
  BY <1>4, <1>5, <1>6 DEF FindsAll
<1> QED
  BY <1>3, <1>5, <1>7, ImportsMove

LEMMA FetchFinds == ASSUME NEW r \in Reviewers, Asks(r), FetchPage(r), UNCHANGED examples PROVE ImportsInv'
<1> USE DEF Asks
<1>1. PICK a : a = asking[r]
  OBVIOUS
<1>2a. PICK tie \in Ties :
        LET rows == Page(AgentRuns, ImportPage, a.offset, tie) IN
          Turn(r, [a EXCEPT !.stage = "row", !.page = [i \in DOMAIN rows |-> rows[i].trace],
                             !.offset = @ + ImportPage, !.last = Len(rows) < ImportPage])
  BY <1>1 DEF FetchPage
<1>2b. PICK rows : rows = Page(AgentRuns, ImportPage, a.offset, tie)
  OBVIOUS
<1>2. Turn(r, [a EXCEPT !.stage = "row", !.page = [i \in DOMAIN rows |-> rows[i].trace],
                         !.offset = @ + ImportPage, !.last = Len(rows) < ImportPage])
  BY <1>2a, <1>2b
<1>3. PICK page : page = [i \in DOMAIN rows |-> rows[i].trace]
  OBVIOUS
<1>4. PICK w : w = [a EXCEPT !.stage = "row", !.page = page, !.offset = @ + ImportPage, !.last = Len(rows) < ImportPage]
  OBVIOUS
<1>5. /\ AtWork(r) /\ (a.stage = "page" \/ (a.stage = "row" /\ Left(r) = {} /\ ~a.last))
      /\ asking' = [asking EXCEPT ![r] = w] /\ UNCHANGED imports
  BY <1>1, <1>2, <1>3, <1>4 DEF FetchPage, Turn, AtWork, Is
<1>6. DOMAIN a = CarryFields /\ FindsAll(a)
  BY <1>1, <1>5 DEF ExamplesInv, CarryFine, ImportsInv
<1>7. /\ w.stage = "row" /\ w.kind = a.kind /\ w.page = page /\ w.adding = a.adding /\ w.offset = a.offset + ImportPage
      /\ w.gone = a.gone /\ w.there = a.there /\ w.seen = a.seen /\ w.last = (Len(rows) < ImportPage)
  BY <1>4, <1>6 DEF CarryFields
<1>8. a.offset \in Nat /\ ImportPage \in Nat
  BY <1>6, ImportsAssumption DEF FindsAll
<1>9. /\ DOMAIN rows = 1..Len(rows) /\ Len(rows) \in Nat
      /\ {rows[i].trace : i \in DOMAIN rows} = PageOf(AgentRuns, ImportPage, a.offset, tie)
      /\ a.offset + ImportPage <= Cardinality(Matching(AgentRuns)) => Len(rows) >= ImportPage
  BY <1>2b, <1>8, AgentRunsAre, PageIs
<1>10. ASSUME NEW t \in Matching(AgentRuns), t \notin Tied, Reached(a, t) PROVE Reached(w, t)
  <2>1. CASE t \in a.seen
    BY <1>7, <2>1 DEF Reached
  <2>2. CASE a.stage = "row" /\ InPage(a, t)
    <3>1. t \in a.seen
      BY <1>1, <1>5, <2>2 DEF Left, InPage
    <3> QED
      BY <2>1, <3>1
  <2>3. CASE ToCome(a, t)
    <3> DEFINE at == Cardinality(Since(t))
    <3>1. at = Place(Matching(AgentRuns), t, AgentRuns, tie)
      BY <1>10, SinceIs
    <3>2. IsFiniteSet(Matching(AgentRuns)) /\ Since(t) \in SUBSET Matching(AgentRuns)
      BY SinceIs DEF Since
    <3>4. /\ at \in Nat /\ Cardinality(Matching(AgentRuns)) \in Nat /\ at <= Cardinality(Matching(AgentRuns))
      BY <3>2, FS_Subset, FS_CardinalityType
    <3>5. at >= a.offset
      BY <2>3 DEF ToCome
    <3> HIDE DEF at
    <3>6. CASE at < a.offset + ImportPage
      <4>1. t \in PageOf(AgentRuns, ImportPage, a.offset, tie)
        BY <1>8, <1>10, <3>1, <3>4, <3>5, <3>6 DEF PageOf
      <4>2. PICK i \in DOMAIN rows : rows[i].trace = t
        BY <1>9, <4>1
      <4>3. InPage(w, t)
        BY <1>3, <1>7, <4>2 DEF InPage
      <4> QED
        BY <1>7, <4>3 DEF Reached
    <3>7. CASE ~(at < a.offset + ImportPage)
      <4>1. at >= a.offset + ImportPage /\ a.offset + ImportPage <= Cardinality(Matching(AgentRuns))
        BY <1>8, <3>4, <3>7
      <4>2. ~w.last
        <5>1. Len(rows) >= ImportPage /\ Len(rows) \in Nat
          BY <1>9, <4>1
        <5>2. ~(Len(rows) < ImportPage)
          BY <1>8, <5>1
        <5> HIDE <1>9
        <5> QED
          BY <1>7, <5>2
      <4>3. ToCome(w, t)
        BY <1>7, <4>1, <4>2 DEF ToCome, at
      <4> QED
        BY <4>3 DEF Reached
    <3> QED
      BY <3>6, <3>7
  <2> QED
    BY <1>5, <1>10, <2>1, <2>2, <2>3 DEF Reached
<1>11. \A i \in DOMAIN w.page : w.page[i] \in Here
  <2>1. \A i \in DOMAIN rows : rows[i].trace \in PageOf(AgentRuns, ImportPage, a.offset, tie)
    BY <1>9
  <2>2. PageOf(AgentRuns, ImportPage, a.offset, tie) \subseteq Matching(AgentRuns)
    BY DEF PageOf
  <2> QED
    BY <1>3, <1>7, <2>1, <2>2, AgentRunsAre
<1>12. FindsAll(w)
  BY <1>6, <1>7, <1>8, <1>10, <1>11 DEF FindsAll
<1> QED
  BY <1>5, <1>7, <1>12, ImportsMove

LEMMA RunFinds == ASSUME NEW r \in Reviewers, Asks(r), ReadRun(r), UNCHANGED examples PROVE ImportsInv'
<1> USE DEF Asks
<1>1. PICK a : a = asking[r]
  OBVIOUS
<1>2. PICK i \in Left(r), tie \in Ties :
        LET t == asking[r].page[i]
            page == Page(OfRun(t), PinLimit, 0, tie)
        IN Turn(r, [asking[r] EXCEPT !.stage = "pin", !.seen = @ \cup {t}, !.run = t,
                      !.held = {page[k].trace : k \in DOMAIN page}])
  BY DEF ReadRun
<1>3. PICK t : t = asking[r].page[i]
  OBVIOUS
<1>4. PICK page : page = Page(OfRun(t), PinLimit, 0, tie)
  OBVIOUS
<1>5. PICK held : held = {page[k].trace : k \in DOMAIN page}
  OBVIOUS
<1>6. PICK w : w = [a EXCEPT !.stage = "pin", !.seen = @ \cup {t}, !.run = t, !.held = held]
  OBVIOUS
<1>7. AtWork(r) /\ a.stage = "row" /\ UNCHANGED imports /\ i \in DOMAIN a.page
  BY <1>1 DEF ReadRun, AtWork, Is, Left
<1>8. asking' = [asking EXCEPT ![r] = w]
  BY <1>1, <1>2, <1>3, <1>4, <1>5, <1>6, Zenon DEF Turn
<1>9. DOMAIN a = CarryFields /\ FindsAll(a)
  BY <1>1, <1>7 DEF ExamplesInv, CarryFine, ImportsInv
<1>10. /\ w.stage = "pin" /\ w.kind = a.kind /\ w.page = a.page /\ w.adding = a.adding /\ w.offset = a.offset
       /\ w.gone = a.gone /\ w.there = a.there /\ w.seen = a.seen \cup {t} /\ w.last = a.last
       /\ w.run = t /\ w.held = held
  BY <1>6, <1>9 DEF CarryFields
<1>11. t \in Here /\ SpanOf[t].root = t => held # {}
  <2>1. PinLimit \in Nat \ {0}
    BY ImportsAssumption
  <2> QED
    BY <1>4, <1>5, <2>1, ReadOfRun
<1>12. a.kind = "import" => t \in Here \cup expired
  BY <1>1, <1>3, <1>7, <1>9 DEF FindsAll
<1>13. \A x : Reached(a, x) => Reached(w, x)
  BY <1>7, <1>10 DEF Reached, ToCome, InPage
<1>14. FindsAll(w)
  BY <1>9, <1>10, <1>11, <1>12, <1>13 DEF FindsAll
<1> QED
  BY <1>7, <1>8, <1>10, <1>14, ImportsMove

LEMMA PinFinds ==
  ASSUME NEW r \in Reviewers, Asks(r), WritePin(r) \/ LosePin(r), UNCHANGED examples
  PROVE  ImportsInv'
<1> USE DEF Asks
<1>1. PICK a : a = asking[r]
  OBVIOUS
<1>2. PICK held, failed : /\ KeepRow(r, held, failed)
                          /\ failed = TRUE \/ held = a.held
  BY <1>1 DEF WritePin, LosePin
<1>3. PICK row : row = [from |-> r, kind |-> a.kind, source |-> a.run, had |-> held, lost |-> failed]
  OBVIOUS
<1>4. PICK w : w = [a EXCEPT !.stage = "row", !.run = Nothing, !.held = {},
                      !.adding = IF Kept(a.kind, a.run, held) THEN @ \cup {row} ELSE @]
  OBVIOUS
<1>5. AtWork(r) /\ a.stage = "pin" /\ UNCHANGED imports
  BY <1>1 DEF WritePin, LosePin, AtWork, Is
<1>6. asking' = [asking EXCEPT ![r] = w]
  BY <1>1, <1>2, <1>3, <1>4 DEF KeepRow, Turn
<1>7. DOMAIN a = CarryFields /\ FindsAll(a)
  BY <1>1, <1>5 DEF ExamplesInv, CarryFine, ImportsInv
<1>8. /\ w.stage = "row" /\ w.kind = a.kind /\ w.page = a.page /\ w.offset = a.offset
      /\ w.gone = a.gone /\ w.there = a.there /\ w.seen = a.seen /\ w.last = a.last
      /\ w.adding = IF Kept(a.kind, a.run, held) THEN a.adding \cup {row} ELSE a.adding
  BY <1>4, <1>7 DEF CarryFields
<1>9. Kept(a.kind, a.run, held) => Explained(row)
  <2>1. row.had = held /\ row.lost = failed /\ row.source = a.run /\ row.kind = a.kind
    BY <1>3
  <2>2. Kept(a.kind, a.run, held) => a.kind \in {"single", "import"}
    BY DEF Kept
  <2> QED
    BY <1>2, <1>5, <1>7, <2>1, <2>2 DEF Explained, FindsAll
<1>10. \A x \in w.adding : Explained(x)
  BY <1>7, <1>8, <1>9 DEF FindsAll
<1>11. \A x : Reached(a, x) => Reached(w, x)
  BY <1>5, <1>8 DEF Reached, ToCome, InPage
<1>12. FindsAll(w)
  BY <1>7, <1>8, <1>10, <1>11 DEF FindsAll
<1> QED
  BY <1>5, <1>6, <1>8, <1>12, ImportsMove

LEMMA AddedFinds == ASSUME NEW r \in Reviewers, Asks(r), AddRows(r), UNCHANGED examples PROVE ImportsInv'
<1> USE DEF Asks
<1>1. PICK a : a = asking[r]
  OBVIOUS
<1>2. PICK w : w = [stage |-> "added", kind |-> a.kind, missed |-> a.there \ a.seen, tied |-> Tied,
                    whole |-> (expired = a.gone /\ ~Full(r))]
  OBVIOUS
<1>3. /\ AtWork(r) /\ a.stage = "row" /\ asking' = [asking EXCEPT ![r] = w]
      /\ Full(r) \/ (Left(r) = {} /\ a.last)
      /\ imports' = IF dataset THEN imports \cup a.adding ELSE imports
  BY <1>1, <1>2 DEF AddRows, Turn, AtWork, Is
<1>4. FindsAll(a)
  BY <1>1, <1>3 DEF ImportsInv
<1>5. w.stage = "added" /\ w.missed = a.there \ a.seen /\ w.tied = Tied /\ w.whole = (expired = a.gone /\ ~Full(r))
  BY <1>2
<1>6. w.whole => w.missed \subseteq w.tied
  <2> SUFFICES ASSUME expired = a.gone, ~Full(r), NEW t \in a.there, t \notin Tied PROVE t \in a.seen
    BY <1>5
  <2>1. Reached(a, t)
    BY <1>4 DEF FindsAll
  <2>2. ~ToCome(a, t)
    BY <1>3 DEF ToCome
  <2>3. InPage(a, t) => t \in a.seen
    BY <1>1, <1>3 DEF InPage, Left
  <2> QED
    BY <2>1, <2>2, <2>3 DEF Reached
<1>7. \A e \in imports' : e \in imports \/ Explained(e)
  BY <1>3, <1>4 DEF FindsAll
<1> QED
  BY <1>3, <1>5, <1>6, <1>7, ImportsMove DEF Working

LEMMA SentAsks ==
  ASSUME NEW r \in Reviewers, SpansInv, SendToDataset(r)
  PROVE  \A e \in examples' : e \in examples \/ AsksItsRun(e)
<1>1. PICK chosen, ties :
        /\ chosen \in SUBSET Labelled /\ ties \in [chosen -> Ties]
        /\ examples' = examples \cup
             UNION {{[from |-> r, source |-> t, question |-> s] : s \in Captured(t, ties[t])} : t \in chosen}
  BY DEF SendToDataset
<1>2. ASSUME NEW t \in chosen, NEW tie \in Ties, NEW s \in Captured(t, tie), NEW e, e = [from |-> r, source |-> t, question |-> s]
      PROVE  AsksItsRun(e)
  <2>1. t \in Spans
    BY <1>1, StoreAssumption
  <2>2. 1 \in Nat \ {0}
    OBVIOUS
  <2>3. PICK page : page = Page(OfRun(t), 1, 0, tie)
    OBVIOUS
  <2>4. \A i \in DOMAIN page : page[i].trace \in Here /\ SpanOf[page[i].trace].root = t
    BY <2>1, <2>2, <2>3, ReadOfRun
  <2>5. PICK i \in DOMAIN page : s = page[i].trace
    BY <2>3 DEF Captured
  <2> QED
    BY <1>2, <2>4, <2>5 DEF AsksItsRun
<1>3. \A t \in chosen : ties[t] \in Ties
  BY <1>1
<1> QED
  BY <1>1, <1>2, <1>3

\* Where no runs are imported, requests take up other things.
LEMMA ImportsRest ==
  ASSUME ImportsInv, part # "examples", UNCHANGED <<part, imports>>,
         Here \cup expired \subseteq Here' \cup expired', expired \subseteq expired',
         \A e \in examples' : e \in examples \/ AsksItsRun(e),
         \A r \in Reviewers : asking'[r] = asking[r] \/ asking'[r].stage \notin Working \cup {"added"}
  PROVE  ImportsInv'
<1>1. (\A x : Explained(x) => Explained(x)') /\ \A e : AsksItsRun(e) => AsksItsRun(e)'
  BY DEF Explained, AsksItsRun
<1>2. \A r \in Reviewers : ~AtWork(r)'
  BY DEF ImportsInv, AtWork, Working
<1>3. \A r \in Reviewers : Is(r, "added")' /\ asking'[r].whole => asking'[r].missed \subseteq asking'[r].tied
  BY DEF ImportsInv, Is
<1> QED
  BY <1>1, <1>2, <1>3 DEF ImportsInv

LEMMA ImportsStay ==
  ASSUME ImportsInv, UNCHANGED <<part, spans, costs, expired, asking, examples, imports>>
  PROVE  ImportsInv'
<1>1. CASE Reviewers = {}
  <2>1. \A x : (Explained(x) => Explained(x)') /\ (AsksItsRun(x) => AsksItsRun(x)')
    BY DEF Explained, AsksItsRun, Here
  <2> QED
    BY <1>1, <2>1 DEF ImportsInv
<1>2. ASSUME NEW r \in Reviewers PROVE ImportsInv'
  <2>1. /\ asking[r].stage \in Working => part = "examples" /\ FindsAll(asking[r])
        /\ asking[r].stage = "added" /\ asking[r].whole => asking[r].missed \subseteq asking[r].tied
    BY DEF ImportsInv, AtWork, Is, Working
  <2> QED
    BY <2>1, ImportsTurn
<1> QED
  BY <1>1, <1>2

LEMMA ImportsBegin == ASSUME Init PROVE ImportsInv
<1>1. imports = {} /\ examples = {} /\ \A r \in Reviewers : asking[r].stage = "idle"
  BY DEF Init, ReviewInit, ExamplesInit, Ends
<1> QED
  BY <1>1 DEF ImportsInv, AtWork, Is

LEMMA ImportSteps ==
  ASSUME AskingRanges, SpansInv, ExamplesInv, ImportsInv, part = "examples", ExamplesStep,
         UNCHANGED <<part, spans, costs, expired>>
  PROVE  ImportsInv'
<1>1. PICK r \in Reviewers :
        \/ /\ \/ ReadSources(r) \/ FetchPage(r) \/ ReadRun(r) \/ WritePin(r) \/ LosePin(r) \/ AddRows(r)
              \/ LinkAgent(r) \/ UnlinkAgent(r) \/ AddExample(r) \/ ViewTrajectory(r)
           /\ UNCHANGED examples
        \/ RemoveExample(r) \/ DeleteDataset(r)
        \/ SendToDataset(r) /\ UNCHANGED exampleVars
  BY DEF ExamplesStep
<1>2. Asks(r)
  BY DEF Asks
<1>3. CASE \/ UnlinkAgent(r) /\ UNCHANGED examples
           \/ RemoveExample(r) \/ DeleteDataset(r)
           \/ SendToDataset(r) /\ UNCHANGED exampleVars
  <2>1. asking' = [asking EXCEPT ![r] = Ends("done")] /\ imports' \subseteq imports
    BY <1>3 DEF UnlinkAgent, RemoveExample, DeleteDataset, SendToDataset, exampleVars, Turn
  <2>2. Ends("done").stage \notin Working \cup {"added"}
    BY DEF Ends, Working
  <2>3. \A e \in examples' : e \in examples \/ AsksItsRun(e)
    <3>1. CASE SendToDataset(r)
      BY <3>1, SentAsks
    <3>2. CASE ~SendToDataset(r)
      BY <1>3, <3>2 DEF UnlinkAgent, RemoveExample, DeleteDataset
    <3> QED
      BY <3>1, <3>2
  <2>4. \A e \in imports' : e \in imports \/ Explained(e)
    BY <2>1
  <2> QED
    BY <2>1, <2>2, <2>3, <2>4, ImportsMove
<1>4. CASE ReadSources(r) /\ UNCHANGED examples
  BY <1>2, <1>4, SourcesFind
<1>5. CASE FetchPage(r) /\ UNCHANGED examples
  BY <1>2, <1>5, FetchFinds
<1>6. CASE ReadRun(r) /\ UNCHANGED examples
  BY <1>2, <1>6, RunFinds
<1>7. CASE (WritePin(r) \/ LosePin(r)) /\ UNCHANGED examples
  BY <1>2, <1>7, PinFinds
<1>8. CASE AddRows(r) /\ UNCHANGED examples
  BY <1>2, <1>8, AddedFinds
<1>9. CASE LinkAgent(r) /\ UNCHANGED examples
  BY <1>2, <1>9, LinkFinds
<1>10. CASE (AddExample(r) \/ ViewTrajectory(r)) /\ UNCHANGED examples
  BY <1>2, <1>10, OneFinds
<1> QED
  BY <1>1, <1>3, <1>4, <1>5, <1>6, <1>7, <1>8, <1>9, <1>10

LEMMA ImportsSteps == ASSUME PeopleInv, ReadsInv, ImportsInv, [Next]_vars PROVE ImportsInv'
<1>0. AskingRanges /\ RubricInv /\ ReviewsInv /\ ExamplesInv /\ SpansInv
  BY DEF PeopleInv, RubricInv, ReadsInv, StoreInv
<1>1. SpansInv' /\ UNCHANGED part
  BY ReadsSteps DEF ReadsInv, StoreInv, Next, vars
<1>2. CASE part # "examples" /\ UNCHANGED <<spans, expired, asking, examples, imports>>
  BY <1>1, <1>2, ImportsRest DEF Here
<1>3. ASSUME NEW t \in Spans, Persist(t) \/ Retire(t), UNCHANGED <<asking, examples, imports>> PROVE ImportsInv'
  BY <1>0, <1>1, <1>3, ImportsWait
<1>4. CASE part = "store" /\ StoreStep /\ UNCHANGED <<asking, examples, imports>>
  <2>1. UNCHANGED <<spans, expired>> \/ \E t \in Spans : Persist(t) \/ Retire(t)
    BY <1>4 DEF StoreStep, Bill, ScanSpan, Grade, NextBucket
  <2> QED
    BY <1>2, <1>3, <1>4, <2>1
<1>5. CASE part = "examples" /\ SpansStep /\ UNCHANGED <<asking, examples, imports>>
  BY <1>3, <1>5 DEF SpansStep
<1>6. CASE part = "examples" /\ ExamplesStep /\ UNCHANGED storeVars
  BY <1>0, <1>1, <1>6, ImportSteps DEF storeVars
<1>7. CASE part = "review" /\ ReviewStep /\ Untraced /\ UNCHANGED imports
  <2>1. PICK r \in Reviewers : Speaks(r)
    BY <1>0, <1>7, ReviewSteps
  <2>2. \A o \in Reviewers : asking'[o] = asking[o] \/ asking'[o].stage \notin Working \cup {"added"}
    BY <1>0, <2>1, Turned DEF Speaks, Working
  <2>3. \A e \in examples' : e \in examples \/ AsksItsRun(e)
    <3>1. UNCHANGED examples \/ \E o \in Reviewers : SendToDataset(o)
      BY <1>7 DEF ReviewStep, CountFields, AddField, ReadField, EditField, DeleteField, ReadRubric,
                  SubmitFeedback, AnnotateTrace, Verdict, RecordAnswer, RefuseAnswer, EndReview
    <3> QED
      BY <1>0, <3>1, SentAsks
  <2> QED
    BY <1>1, <1>7, <2>2, <2>3, ImportsRest DEF Untraced, Here
<1>8. CASE part = "review" /\ QueueStep /\ UNCHANGED <<storeVars, examples, imports>>
  <2>1. PICK r \in Reviewers, stage \in {"matrix", "done"} : asking' = [asking EXCEPT ![r] = Ends(stage)]
    BY <1>8 DEF QueueStep, ReadMatrix, ReadCoverage, Turn
  <2>2. Ends(stage).stage = stage
    BY DEF Ends
  <2>3. \A o \in Reviewers : asking'[o] = asking[o] \/ asking'[o].stage \notin Working \cup {"added"}
    BY <1>0, <2>1, <2>2, Turned DEF Working
  <2> QED
    BY <1>1, <1>8, <2>3, ImportsRest DEF storeVars, Here
<1>9. CASE UNCHANGED <<storeVars, reviewVars, exampleVars>>
  <2>1. UNCHANGED <<spans, costs, expired, asking, examples, imports>>
    BY <1>9 DEF storeVars, reviewVars, exampleVars
  <2>2. CASE part = "examples"
    BY <1>0, <1>1, <2>1, <2>2, ImportsStay
  <2> QED
    BY <1>2, <2>1, <2>2
<1> QED
  <2>1. CASE KeptStep
    <3>1. CASE part = "labels" /\ UNCHANGED <<storeVars, reviewVars, exampleVars>>
      BY <1>9, <3>1
    <3> QED
      BY <1>4, <1>5, <1>6, <1>7, <1>8, <2>1, <3>1
      DEF KeptStep, PeopleStep, DatasetStep, reviewVars, exampleVars
  <2>2. CASE UNCHANGED <<storeVars, reviewVars, exampleVars>>
    BY <1>9, <2>2
  <2> QED
    BY <2>1, <2>2 DEF Next, vars

-----------------------------------------------------------------------------
(* The theorems. *)

\* A name stands for one dataset but for those in two spellings that were created by
\* hand, by one file or by requests that overlapped; a push that ended is there, a local
\* run has what was sent for it, and completes only as an empty one; an eval that was
\* asked for is one the server of the registration in force can run, and waits, was handed
\* out, or was lost with the process, once and in the order of the requests.
THEOREM CodeRunsStayAccounted == Spec => []CodeRunsAccounted
<1>1. Init => CodeInv /\ RemoteInv
  BY CodeBegins, RemoteInitInv DEF Init
<1>2. CodeInv /\ RemoteInv /\ [Next]_vars => (CodeInv /\ RemoteInv)'
  <2> SUFFICES ASSUME CodeInv, RemoteInv, [Next]_vars PROVE CodeInv' /\ RemoteInv'
    OBVIOUS
  <2>1. CodeStep \/ UNCHANGED codeVars
    BY DEF Next, RunsStep, vars
  <2>2. RemoteStep \/ UNCHANGED remoteVars
    BY DEF Next, RunsStep, vars
  <2> QED
    BY <2>1, <2>2, CodeSteps, CodeStays, RemoteStepInv, RemoteStays
<1>3. CodeInv /\ RemoteInv => CodeRunsAccounted
  BY CodeInvAccounts, RemoteInvServes DEF CodeRunsAccounted
<1> QED
  BY <1>1, <1>2, <1>3, PTL DEF Spec

\* What people said stands: a label shows the last word on it, or one of those that
\* crossed; a rubric has as many questions as it may, but for those added at once, and
\* a question keeps its kind; a review has the rows it claims, each of an answer that
\* was offered; and what an example was made of is kept, once, and missed by an import
\* only where runs tie, one expired or there were more than it takes.
THEOREM PeoplesWordStands == Spec => []LastWordStands
<1>1. Init => PeopleInv
  BY PeopleBegin
<1>2. PeopleInv /\ [Next]_vars => PeopleInv'
  BY PeopleSteps
<1>3. PeopleInv => LastWordStands
  BY LabelsInvShows, RubricInvHolds, ReviewsInvAccounts, ExamplesInvStand DEF PeopleInv, RubricInv, LastWordStands
<1> QED
  BY <1>1, <1>2, <1>3, PTL DEF Spec

\* What is rolled up of rows, charted and billed is their sum, in whatever order they came
\* in, while spans expire and people add verdicts of their own.
THEOREM RowsStayAddedUp == Spec => []RowsAddUp
<1>1. Init => CodeInv /\ RemoteInv /\ PeopleInv /\ ReadsInv /\ BoundsInv
  BY CodeBegins, RemoteInitInv, PeopleBegin, ReadsBegin, BoundsBegin DEF Init
<1>2. CodeInv /\ RemoteInv /\ PeopleInv /\ ReadsInv /\ BoundsInv /\ [Next]_vars
        => (CodeInv /\ RemoteInv /\ PeopleInv /\ ReadsInv /\ BoundsInv)'
  <2> SUFFICES ASSUME CodeInv, RemoteInv, PeopleInv, ReadsInv, BoundsInv, [Next]_vars
               PROVE  CodeInv' /\ RemoteInv' /\ PeopleInv' /\ ReadsInv' /\ BoundsInv'
    OBVIOUS
  <2>1. CodeStep \/ UNCHANGED codeVars
    BY DEF Next, RunsStep, vars
  <2>2. RemoteStep \/ UNCHANGED remoteVars
    BY DEF Next, RunsStep, vars
  <2> QED
    BY <2>1, <2>2, CodeSteps, CodeStays, RemoteStepInv, RemoteStays, PeopleSteps, ReadsSteps, BoundsSteps
<1>3. CodeInv /\ RemoteInv /\ PeopleInv /\ ReadsInv /\ BoundsInv => RowsAddUp
  BY InvTypes, StoreInvAddsUp, StoreInvMonitor, StoreInvUsage DEF ReadsInv, RowsAddUp
<1> QED
  BY <1>1, <1>2, <1>3, PTL DEF Spec

\* The queue holds the runs a person or a judge found wanting, those nobody scored and
\* those a text makes bad, however ties fall; those nobody scored lead it, and of the others
\* what people found bad; the matrix places each trace both sides scored once; and a verdict on a judge
\* stands on the pairs it was made of.
THEOREM QueueStaysRight == Spec => []QueueIsRight
<1>1. Init => PeopleInv /\ ReadsInv
  BY PeopleBegin, ReadsBegin
<1>2. PeopleInv /\ ReadsInv /\ [Next]_vars => (PeopleInv /\ ReadsInv)'
  BY PeopleSteps, ReadsSteps
<1>3. ReadsInv => QueueIsRight
  BY StoreInvQueue, ChartInvHolds, RowsInvAgree DEF ReadsInv, StoreInv, QueueIsRight, QueueRight
<1> QED
  BY <1>1, <1>2, <1>3, PTL DEF Spec

\* What is read of the rows is what they say, and, where there are none, the zeros the
\* queue takes for verdicts.
THEOREM ReadsStayRight == Spec => []ReadsAreRight
<1>1. RowsAddUp /\ QueueIsRight => ReadsAreRight
  BY DEF ReadsAreRight
<1> QED
  BY <1>1, RowsStayAddedUp, QueueStaysRight, PTL

\* However runs are compared, by two, with many or in their own reports, and whichever way
\* their rows are read, what is said of them is the same: seen from the baseline a comparison
\* says the opposite, two runs are as far apart alone as beside others, and reports and
\* comparisons of a run are made of the same rows.
THEOREM ComparisonsStayRight == Spec => []ComparisonsAgree
<1>1. Init => ResultsKnown
  BY ResultsBegin
<1>2. ResultsKnown /\ [Next]_vars => ResultsKnown'
  BY ResultsSteps
<1>3. ResultsKnown => ComparisonsAgree
  BY AllComparisonsAgree DEF ComparisonsAgree
<1> QED
  BY <1>1, <1>2, <1>3, PTL DEF Spec

\* Every list of the same traces that is answered shows the same: a page is the page of
\* the whole list whichever way it is made and however ties fall, and a run that ties with
\* no other is on the same page of every query; no failure below a run and nothing that was found hides it,
\* what is counted of runs is what is listed of them, and what is made examples of is
\* what the lists showed.
THEOREM PagesStayRight == Spec => []ReadsAgree
<1>1. Init => PeopleInv /\ ReadsInv /\ ImportsInv
  BY PeopleBegin, ReadsBegin, ImportsBegin
<1>2. PeopleInv /\ ReadsInv /\ ImportsInv /\ [Next]_vars => (PeopleInv /\ ReadsInv /\ ImportsInv)'
  BY PeopleSteps, ReadsSteps, ImportsSteps
<1>3. PeopleInv /\ ReadsInv /\ ImportsInv => ReadsAgree
  BY PagesAreCut, AllSurface, AllCounted, ImportsAreWhole
  DEF PeopleInv, LabelsInv, LabelRanges, ReadsInv, StoreInv, ReadsAgree
<1> QED
  BY <1>1, <1>2, <1>3, PTL DEF Spec
=============================================================================
