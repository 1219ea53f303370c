--------------------------- MODULE SettingsProofs ----------------------------
(***************************************************************************)
(* Proofs about the parts of Settings, which alert, keep the judges'       *)
(* prompts and provider keys, judge answers, keep settings and their       *)
(* copies, and take traces in under them: for any deliveries, editors,     *)
(* callers, requests, processes, events and rules, and any bounds.         *)
(*                                                                         *)
(* Each part has an inductive invariant, kept by its own steps and by      *)
(* those that leave its variables alone, as the steps of every other part  *)
(* do.                                                                     *)
(***************************************************************************)
EXTENDS Settings, FiniteSetTheorems, TLAPS

-----------------------------------------------------------------------------
(* Alerts. *)

Handling == [id : Deliveries, org : Orgs, kind : {"evaluation", "security", "rate"},
             low : BOOLEAN, failed : BOOLEAN, digest : Digests]

AlertTypes ==
  /\ inbox \subseteq Deliveries
  /\ handled # Idle => handled \in Handling
  /\ history \in [Orgs -> Seq(BOOLEAN)] /\ \A o \in Orgs : Len(history[o]) <= Window
  /\ cooling \in [Orgs -> BOOLEAN]
  /\ buckets \in [Orgs -> [items : SUBSET Alert, due : BOOLEAN]]
  /\ flushing \in [left : SUBSET Orgs, taken : SUBSET Alert]
  /\ raised \in SUBSET Alert /\ posted \in SUBSET Alert /\ lost \in SUBSET Alert

\* What a delivery has yet to raise has not been raised: nothing of one that is to
\* come, and of the one at hand only what came before.
YetToRaise ==
  /\ \A a \in raised : a[1] \notin inbox
  /\ handled # Idle =>
       /\ handled.id \notin inbox
       /\ \A a \in raised : a[1] = handled.id => handled.kind = "rate" /\ a[2] # "rate"

AlertsInv == AlertTypes /\ YetToRaise /\ AlertsAccounted

\* AlertsAccounted, alert by alert.
EachInOnePlace ==
  /\ \A a : a \in raised <=> \/ a \in posted \/ a \in lost \/ a \in flushing.taken
                           \/ \E o \in Orgs : a \in buckets[o].items
  /\ \A a : /\ a \in posted => a \notin lost /\ a \notin flushing.taken
            /\ a \in lost => a \notin flushing.taken
            /\ \A o \in Orgs : a \in buckets[o].items =>
                 /\ a \notin posted /\ a \notin lost /\ a \notin flushing.taken
                 /\ \A q \in Orgs : o # q => a \notin buckets[q].items

LEMMA HeldIs ==
  \A a : a \in Held <=> a \in flushing.taken \/ \E o \in Orgs : a \in buckets[o].items
<1> DEFINE inBuckets == UNION {buckets[o].items : o \in Orgs}
<1>1. \A a : a \in inBuckets <=> \E o \in Orgs : a \in buckets[o].items
  OBVIOUS
<1>2. Held = inBuckets \cup flushing.taken
  BY DEF Held
<1> HIDE DEF inBuckets
<1> QED
  BY <1>1, <1>2

LEMMA HeldIsNext ==
  \A a : a \in Held' <=> a \in flushing'.taken \/ \E o \in Orgs : a \in buckets'[o].items
<1> DEFINE inBuckets == UNION {buckets'[o].items : o \in Orgs}
<1>1. \A a : a \in inBuckets <=> \E o \in Orgs : a \in buckets'[o].items
  OBVIOUS
<1>2. Held' = inBuckets \cup flushing'.taken
  BY DEF Held
<1> HIDE DEF inBuckets
<1> QED
  BY <1>1, <1>2

LEMMA OnePlace == AlertsAccounted => EachInOnePlace
<1> SUFFICES ASSUME AlertsAccounted PROVE EachInOnePlace
  OBVIOUS
<1>1. \A i, j \in 1..3 : i # j => <<posted, lost, flushing.taken>>[i]
                                    \cap <<posted, lost, flushing.taken>>[j] = {}
  BY DEF AlertsAccounted
<1>2. posted \cap lost = {} /\ posted \cap flushing.taken = {} /\ lost \cap flushing.taken = {}
  BY <1>1
<1>3. /\ \A o \in Orgs : buckets[o].items \cap (posted \cup lost \cup flushing.taken) = {}
      /\ \A o, q \in Orgs : o # q => buckets[o].items \cap buckets[q].items = {}
      /\ raised = posted \cup lost \cup Held
  BY DEF AlertsAccounted
<1> QED
  BY <1>2, <1>3, HeldIs DEF EachInOnePlace

LEMMA OnePlaceNext == EachInOnePlace' => AlertsAccounted'
<1> SUFFICES ASSUME EachInOnePlace' PROVE AlertsAccounted'
  OBVIOUS
<1>1. \A i, j \in 1..3 : i # j => <<posted', lost', flushing'.taken>>[i]
                                    \cap <<posted', lost', flushing'.taken>>[j] = {}
  BY DEF EachInOnePlace
<1>2. raised' = posted' \cup lost' \cup Held'
  BY HeldIsNext DEF EachInOnePlace
<1>3. /\ \A o \in Orgs : buckets'[o].items \cap (posted' \cup lost' \cup flushing'.taken) = {}
      /\ \A o, q \in Orgs : o # q => buckets'[o].items \cap buckets'[q].items = {}
  BY DEF EachInOnePlace
<1> QED
  BY <1>1, <1>2, <1>3 DEF AlertsAccounted

LEMMA AlertsInitInv == AlertsInit => AlertsInv
<1> SUFFICES ASSUME AlertsInit PROVE AlertsInv
  OBVIOUS
<1>1. AlertTypes
  BY WindowAssumption DEF AlertsInit, AlertTypes
<1>2. YetToRaise
  BY DEF AlertsInit, YetToRaise
<1>3. AlertsAccounted
  BY DEF AlertsInit, AlertsAccounted, Held
<1> QED
  BY <1>1, <1>2, <1>3 DEF AlertsInv

\* The history of a metric is a window.
LEMMA RememberedFew ==
  ASSUME NEW h \in Seq(BOOLEAN), Len(h) <= Window, NEW failed \in BOOLEAN
  PROVE  Remembered(h, failed) \in Seq(BOOLEAN) /\ Len(Remembered(h, failed)) <= Window
<1> DEFINE all == Append(h, failed)
<1>1. all \in Seq(BOOLEAN) /\ Len(all) = Len(h) + 1 /\ Len(h) \in Nat
  OBVIOUS
<1>2. Remembered(h, failed) = IF Len(all) > Window THEN Tail(all) ELSE all
  BY DEF Remembered
<1> HIDE DEF all
<1>n. all # <<>>
  BY <1>1
<1>3. Tail(all) \in Seq(BOOLEAN) /\ Len(Tail(all)) = Len(h)
  BY <1>1, <1>n
<1>4. CASE Len(all) > Window
  BY <1>2, <1>3, <1>4
<1>5. CASE ~(Len(all) > Window)
  BY <1>1, <1>2, <1>5, WindowAssumption
<1> QED
  BY <1>4, <1>5

\* An alert that was not raised before, added to a bucket or posted, is in one place.
LEMMA DeliverStep ==
  ASSUME AlertsInv, handled \in Handling, NEW a \in Alert, a \notin raised, Deliver(a),
         UNCHANGED flushing
  PROVE  /\ AlertsAccounted'
         /\ buckets' \in [Orgs -> [items : SUBSET Alert, due : BOOLEAN]]
         /\ raised' = raised \cup {a} /\ posted' \in SUBSET Alert /\ lost' = lost
<1>t. AlertTypes /\ EachInOnePlace
  BY OnePlace DEF AlertsInv
<1>o. handled.org \in Orgs
  BY DEF Handling
<1>1. raised' = raised \cup {a} /\ lost' = lost
  BY DEF Deliver
<1>2. CASE handled.digest = "realtime"
  <2>1. posted' = posted \cup {a} /\ buckets' = buckets
    BY <1>2 DEF Deliver
  <2>2. EachInOnePlace'
    BY <1>1, <1>t, <2>1 DEF EachInOnePlace
  <2> QED
    BY <1>1, <1>t, <2>1, <2>2, OnePlaceNext DEF AlertTypes
<1>3. CASE handled.digest # "realtime"
  <2>1. posted' = posted
    BY <1>3 DEF Deliver
  <2>2. buckets' = [buckets EXCEPT ![handled.org].items = @ \cup {a}]
    BY <1>3 DEF Deliver
  <2>3. \A o \in Orgs : buckets'[o].items = buckets[o].items \cup (IF o = handled.org THEN {a} ELSE {})
    BY <2>2, <1>t, <1>o DEF AlertTypes
  <2>4. buckets' \in [Orgs -> [items : SUBSET Alert, due : BOOLEAN]]
    BY ZenonT(60), <2>2, <1>t, <1>o DEF AlertTypes
  <2>5. EachInOnePlace'
    BY <1>1, <1>t, <1>o, <2>1, <2>3 DEF EachInOnePlace
  <2> QED
    BY <1>1, <1>t, <2>1, <2>4, <2>5, OnePlaceNext DEF AlertTypes
<1> QED
  BY <1>2, <1>3

LEMMA AlertsStepInv == ASSUME AlertsInv, AlertsStep PROVE AlertsInv'
<1>t. AlertTypes /\ YetToRaise /\ AlertsAccounted /\ EachInOnePlace
  BY OnePlace DEF AlertsInv
<1>1. CASE Receive
  <2>1. PICK e \in inbox, o \in Orgs, digest \in Digests, kind \in {"evaluation", "security"},
             low \in BOOLEAN, failed \in BOOLEAN :
          /\ inbox' = inbox \ {e}
          /\ handled' = [id |-> e, org |-> o, kind |-> kind, low |-> low, failed |-> failed,
                         digest |-> digest]
    BY <1>1 DEF Receive
  <2>2. UNCHANGED <<history, cooling, buckets, flushing, raised, posted, lost>>
    BY <1>1 DEF Receive, fates
  <2>3. handled'.id = e /\ handled' \in Handling
    BY <2>1, <1>t DEF Handling, AlertTypes
  <2>4. AlertTypes'
    BY <2>1, <2>2, <2>3, <1>t DEF AlertTypes
  <2>5. YetToRaise'
    BY <2>1, <2>2, <2>3, <1>t DEF YetToRaise
  <2> QED
    BY <2>2, <2>4, <2>5, <1>t DEF AlertsInv, AlertsAccounted, Held
<1>2. CASE Skip
  BY <1>2, <1>t DEF Skip, fates, AlertsInv, AlertTypes, YetToRaise, AlertsAccounted, Held
<1>3. CASE SecurityAlert
  <2> DEFINE a == <<handled.id, "security">>
  <2>1. handled \in Handling /\ handled.kind = "security" /\ handled' = Idle
        /\ UNCHANGED <<inbox, history, cooling, flushing>>
    BY <1>3, <1>t DEF SecurityAlert, AlertTypes
  <2>2. a \in Alert /\ a \notin raised
    BY <2>1, <1>3, <1>t DEF Alert, Handling, YetToRaise, SecurityAlert
  <2>3. Deliver(a)
    BY <1>3 DEF SecurityAlert
  <2>4. /\ AlertsAccounted'
        /\ buckets' \in [Orgs -> [items : SUBSET Alert, due : BOOLEAN]]
        /\ raised' = raised \cup {a} /\ posted' \in SUBSET Alert /\ lost' = lost
    BY <2>1, <2>2, <2>3, DeliverStep
  <2>5. AlertTypes'
    BY <2>1, <2>2, <2>4, <1>t DEF AlertTypes
  <2>6. YetToRaise'
    BY <2>1, <2>4, <1>3, <1>t DEF YetToRaise, SecurityAlert
  <2> QED
    BY <2>4, <2>5, <2>6 DEF AlertsInv
<1>4. CASE ScoreAlert
  <2> DEFINE a == <<handled.id, "score">>
  <2>1. handled \in Handling /\ handled.kind = "evaluation" /\ handled # Idle
        /\ handled' = [handled EXCEPT !.kind = "rate"]
        /\ UNCHANGED <<inbox, history, cooling, flushing>>
    BY <1>4, <1>t DEF ScoreAlert, AlertTypes
  <2>2. a \in Alert /\ a \notin raised
    BY <2>1, <1>t DEF Alert, Handling, YetToRaise
  <2>3. handled' \in Handling /\ handled'.id = handled.id /\ handled'.kind = "rate"
    BY <2>1 DEF Handling
  <2>4. CASE Deaf
    BY <2>1, <2>3, <2>4, <1>t DEF Deaf, fates, AlertsInv, AlertTypes, YetToRaise, AlertsAccounted, Held
  <2>5. CASE Deliver(a)
    <3>4. /\ AlertsAccounted'
          /\ buckets' \in [Orgs -> [items : SUBSET Alert, due : BOOLEAN]]
          /\ raised' = raised \cup {a} /\ posted' \in SUBSET Alert /\ lost' = lost
      BY <2>1, <2>2, <2>5, DeliverStep
    <3>5. AlertTypes'
      BY <2>1, <2>2, <2>3, <3>4, <1>t DEF AlertTypes
    <3>6. YetToRaise'
      BY <2>1, <2>3, <3>4, <1>t DEF YetToRaise
    <3> QED
      BY <3>4, <3>5, <3>6 DEF AlertsInv
  <2> QED
    BY <2>4, <2>5, <1>4 DEF ScoreAlert
<1>5. CASE RateAlert
  <2> DEFINE a == <<handled.id, "rate">>
             o == handled.org
             h == Remembered(history[o], handled.failed)
  <2>1. handled \in Handling /\ handled.kind = "rate" /\ handled # Idle /\ handled' = Idle
        /\ UNCHANGED <<inbox, flushing>>
    BY <1>5, <1>t DEF RateAlert, AlertTypes
  <2>2. a \in Alert /\ a \notin raised
    BY <2>1, <1>t DEF Alert, Handling, YetToRaise
  <2>3. o \in Orgs /\ handled.failed \in BOOLEAN
    BY <2>1 DEF Handling
  <2>4. h \in Seq(BOOLEAN) /\ Len(h) <= Window
    BY <2>3, <1>t, RememberedFew DEF AlertTypes
  <2>5. history' \in [Orgs -> Seq(BOOLEAN)] /\ \A q \in Orgs : Len(history'[q]) <= Window
    <3>1. history' = [history EXCEPT ![o] = h]
      BY <1>5 DEF RateAlert
    <3> HIDE DEF o, h
    <3> QED
      BY <3>1, <2>3, <2>4, <1>t DEF AlertTypes
  <2>6. CASE Deaf /\ UNCHANGED cooling
    BY <2>1, <2>5, <2>6, <1>t DEF Deaf, fates, AlertsInv, AlertTypes, YetToRaise, AlertsAccounted, Held
  <2>7. CASE Deliver(a) /\ cooling' = [cooling EXCEPT ![o] = TRUE]
    <3>4. /\ AlertsAccounted'
          /\ buckets' \in [Orgs -> [items : SUBSET Alert, due : BOOLEAN]]
          /\ raised' = raised \cup {a} /\ posted' \in SUBSET Alert /\ lost' = lost
      BY <2>1, <2>2, <2>7, DeliverStep
    <3>5. AlertTypes'
      BY <2>1, <2>2, <2>3, <2>5, <2>7, <3>4, <1>t DEF AlertTypes
    <3>6. YetToRaise'
      BY <2>1, <3>4, <1>t DEF YetToRaise
    <3> QED
      BY <3>4, <3>5, <3>6 DEF AlertsInv
  <2> QED
    BY <2>6, <2>7, <1>5 DEF RateAlert
<1>6. CASE CooledDown
  BY <1>6, <1>t DEF CooledDown, fates, AlertsInv, AlertTypes, YetToRaise, AlertsAccounted, Held
<1>7. CASE FallDue
  <2>1. PICK o \in Orgs : buckets' = [buckets EXCEPT ![o].due = TRUE]
    BY <1>7 DEF FallDue
  <2>2. \A q \in Orgs : buckets'[q].items = buckets[q].items
    BY <2>1, <1>t DEF AlertTypes
  <2>3. buckets' \in [Orgs -> [items : SUBSET Alert, due : BOOLEAN]]
    BY ZenonT(60), <2>1, <1>t DEF AlertTypes
  <2>4. UNCHANGED <<inbox, handled, history, cooling, flushing, raised, posted, lost>>
    BY <1>7 DEF FallDue, fates
  <2> QED
    BY <2>2, <2>3, <2>4, <1>t DEF AlertsInv, AlertTypes, YetToRaise, AlertsAccounted, Held
<1>8. CASE StartPass
  <2>1. /\ flushing'.taken = flushing.taken
        /\ flushing' \in [left : SUBSET Orgs, taken : SUBSET Alert]
    BY <1>8, <1>t DEF StartPass, AlertTypes
  <2>2. UNCHANGED <<inbox, handled, history, cooling, buckets, raised, posted, lost>>
    BY <1>8 DEF StartPass, fates
  <2> QED
    BY <2>1, <2>2, <1>t DEF AlertsInv, AlertTypes, YetToRaise, AlertsAccounted, Held
<1>9. CASE TakeItems
  <2>1. PICK o \in flushing.left :
          /\ flushing' = [left |-> flushing.left \ {o}, taken |-> buckets[o].items]
          /\ buckets' = [buckets EXCEPT ![o] = [items |-> {}, due |-> FALSE]]
    BY <1>9 DEF TakeItems
  <2>2. o \in Orgs /\ flushing.taken = {}
    BY <1>9, <1>t DEF TakeItems, AlertTypes
  <2>3. /\ flushing'.taken = buckets[o].items /\ buckets'[o].items = {}
        /\ \A q \in Orgs \ {o} : buckets'[q] = buckets[q]
    BY <2>1, <2>2, <1>t DEF AlertTypes
  <2>4. UNCHANGED <<inbox, handled, history, cooling, raised, posted, lost>>
    BY <1>9 DEF TakeItems, fates
  <2>5. AlertTypes'
    BY <2>1, <2>2, <2>4, <1>t DEF AlertTypes
  <2>6. EachInOnePlace'
    BY <2>2, <2>3, <2>4, <1>t DEF EachInOnePlace
  <2> QED
    BY <2>4, <2>5, <2>6, OnePlaceNext, <1>t DEF AlertsInv, YetToRaise
<1>10. CASE PostDigest
  <2>1. flushing'.taken = {} /\ flushing' \in [left : SUBSET Orgs, taken : SUBSET Alert]
    BY <1>10, <1>t DEF PostDigest, AlertTypes
  <2>2. /\ posted' = posted \cup flushing.taken
        /\ UNCHANGED <<inbox, handled, history, cooling, buckets, raised, lost>>
    BY <1>10 DEF PostDigest
  <2>3. AlertTypes'
    BY <2>1, <2>2, <1>t DEF AlertTypes
  <2>4. EachInOnePlace'
    BY <2>1, <2>2, <1>t DEF EachInOnePlace
  <2> QED
    BY <2>2, <2>3, <2>4, OnePlaceNext, <1>t DEF AlertsInv, YetToRaise
<1>11. CASE StopAlerts
  <2>1. /\ lost' = lost \cup Held /\ handled' = Idle
        /\ history' = [o \in Orgs |-> <<>>]
        /\ buckets' = [o \in Orgs |-> [items |-> {}, due |-> FALSE]]
        /\ flushing' = [left |-> {}, taken |-> {}]
        /\ cooling' = [o \in Orgs |-> FALSE]
        /\ UNCHANGED <<inbox, raised, posted>>
    BY <1>11 DEF StopAlerts
  <2>2. Held \subseteq Alert
    BY <1>t, HeldIs DEF AlertTypes
  <2>3. AlertTypes'
    BY <2>1, <2>2, <1>t, WindowAssumption DEF AlertTypes
  <2>4. flushing'.taken = {} /\ \A o \in Orgs : buckets'[o].items = {}
    BY <2>1
  <2>5. \A a : a \in lost' <=> \/ a \in lost \/ a \in flushing.taken
                             \/ \E o \in Orgs : a \in buckets[o].items
    BY <2>1, HeldIs
  <2>6. EachInOnePlace'
    BY <2>1, <2>4, <2>5, <1>t DEF EachInOnePlace
  <2> QED
    BY <2>1, <2>3, <2>6, OnePlaceNext, <1>t DEF AlertsInv, YetToRaise
<1> QED
  BY <1>1, <1>2, <1>3, <1>4, <1>5, <1>6, <1>7, <1>8, <1>9, <1>10, <1>11 DEF AlertsStep

LEMMA AlertsIdle == ASSUME AlertsInv, UNCHANGED alertVars PROVE AlertsInv'
BY DEF alertVars, AlertsInv, AlertTypes, YetToRaise, AlertsAccounted, Held

-----------------------------------------------------------------------------
(* Provider credentials. *)

CredentialTypes ==
  /\ turnedDown \in SUBSET ApiKeys
  /\ credentials \in [Ids -> {Nil, Gone} \cup Rows]
  /\ deks \in [Nodes -> SUBSET Ids]
  /\ step \in [Callers -> {"new", "storing", "unsealing", "marking", "using", "clearing", "done"}]
  /\ holds = [r \in Callers |-> holds[r]]
  /\ kept \in SUBSET (Nodes \X Ids)

\* What a request holds is of a row there is or was, the key it unseals is the row's
\* own, and a rejection it is about to note is one of the row's own key.
HeldInv(r) ==
  LET h == holds[r] IN
  /\ step[r] = "storing" => h \in [key : ApiKeys]
  /\ step[r] = "unsealing" =>
       /\ h \in [node : Nodes, id : Ids, key : ApiKeys, of : Ids]
       /\ h.of = h.id /\ credentials[h.id] # Nil
       /\ h.id \in Saved => credentials[h.id].key = h.key
  /\ step[r] = "marking" =>
       /\ h \in [id : Ids, verdict : Verdicts]
       /\ credentials[h.id] # Nil
       /\ h.verdict = "rejected" /\ h.id \in Saved => credentials[h.id].key \in turnedDown
  /\ step[r] = "using" => h \in [node : Nodes, of : Ids] /\ credentials[h.of] # Nil
  /\ step[r] = "clearing" => h \in [node : Nodes, id : Ids] /\ credentials[h.id] = Gone

RowsInv == \A c \in Saved : credentials[c].status = "invalid" => credentials[c].key \in turnedDown

Clearing(n, c) == \E r \in Callers : step[r] = "clearing" /\ holds[r].node = n /\ holds[r].id = c

DeksInv ==
  \A n \in Nodes : \A c \in deks[n] :
    credentials[c] # Nil /\ (c \in Saved \/ <<n, c>> \in kept \/ Clearing(n, c))

CredentialsInv == CredentialTypes /\ RowsInv /\ DeksInv /\ \A r \in Callers : HeldInv(r)

LEMMA CredentialsInvIs == CredentialsInv => VerdictOfOwnKey
BY DEF CredentialsInv, RowsInv, DeksInv, Clearing, VerdictOfOwnKey

LEMMA CredentialsInitInv ==
  ASSUME CredentialsInit
  PROVE  CredentialsInv
<1>1. credentials \in [Ids -> {Nil} \cup [key : ApiKeys, status : {"active"}]]
  BY DEF CredentialsInit, Earlier
<1>2. CredentialTypes
  BY <1>1 DEF CredentialsInit, CredentialTypes, Rows
<1>3. RowsInv
  <2> SUFFICES ASSUME NEW c \in Saved PROVE credentials[c].status # "invalid"
    BY DEF RowsInv
  <2> QED
    BY <1>1 DEF Saved
<1> QED
  BY <1>2, <1>3 DEF CredentialsInit, CredentialsInv, DeksInv, HeldInv

\* Rows come, change their status and go for good; keys are turned down for good.
RowsGoOn ==
  /\ turnedDown \subseteq turnedDown'
  /\ \A c \in Ids : /\ credentials[c] # Nil => credentials'[c] # Nil
                    /\ credentials[c] = Gone => credentials'[c] = Gone
                    /\ credentials[c] # Nil /\ c \in Saved' =>
                         c \in Saved /\ credentials'[c].key = credentials[c].key

LEMMA HeldStays ==
  ASSUME CredentialsInv, RowsGoOn, NEW r \in Callers, HeldInv(r), step'[r] = step[r], holds'[r] = holds[r]
  PROVE  HeldInv(r)'
BY DEF RowsGoOn, HeldInv, CredentialsInv, CredentialTypes

LEMMA UnchangedRowsGoOn ==
  ASSUME credentials' = credentials, turnedDown \subseteq turnedDown' PROVE RowsGoOn
BY DEF RowsGoOn, Saved

\* The step of a request is about itself.
LEMMA TakesStep ==
  ASSUME CredentialsInv, RowsGoOn, NEW r \in Callers, NEW s, NEW h, Takes(r, s, h),
         s \in {"new", "storing", "unsealing", "marking", "using", "clearing", "done"},
         HeldInv(r)'
  PROVE  /\ step' \in [Callers -> {"new", "storing", "unsealing", "marking", "using", "clearing", "done"}]
         /\ holds' = [q \in Callers |-> holds'[q]]
         /\ \A q \in Callers : HeldInv(q)'
<1>1. /\ step' \in [Callers -> {"new", "storing", "unsealing", "marking", "using", "clearing", "done"}]
      /\ holds' = [q \in Callers |-> holds'[q]]
      /\ \A q \in Callers \ {r} : step'[q] = step[q] /\ holds'[q] = holds[q]
  BY DEF Takes, CredentialsInv, CredentialTypes
<1>2. \A q \in Callers \ {r} : HeldInv(q)'
  BY <1>1, HeldStays DEF CredentialsInv
<1> QED
  BY <1>1, <1>2

LEMMA TakesIs ==
  ASSUME CredentialTypes, NEW r \in Callers, NEW s, NEW h, Takes(r, s, h)
  PROVE  step'[r] = s /\ holds'[r] = h
BY DEF Takes, CredentialTypes

\* A clearing that is not over goes on.
LEMMA ClearingStays ==
  ASSUME CredentialTypes, NEW r \in Callers, step[r] # "clearing", NEW s, NEW h, Takes(r, s, h),
         NEW n \in Nodes, NEW c \in Ids, Clearing(n, c)
  PROVE  Clearing(n, c)'
BY DEF Clearing, Takes, CredentialTypes

LEMMA DeksStay ==
  ASSUME CredentialsInv, RowsGoOn, UNCHANGED <<deks, kept>>, Saved \subseteq Saved',
         NEW r \in Callers, step[r] # "clearing", NEW s, NEW h, Takes(r, s, h)
  PROVE  DeksInv'
<1> SUFFICES ASSUME NEW n \in Nodes, NEW c \in deks[n]
             PROVE  credentials'[c] # Nil /\ (c \in Saved' \/ <<n, c>> \in kept' \/ Clearing(n, c)')
  BY DEF DeksInv
<1>1. c \in Ids /\ credentials[c] # Nil /\ (c \in Saved \/ <<n, c>> \in kept \/ Clearing(n, c))
  BY DEF CredentialsInv, CredentialTypes, DeksInv
<1>2. Clearing(n, c) => Clearing(n, c)'
  BY <1>1, ClearingStays DEF CredentialsInv
<1> QED
  BY <1>1, <1>2 DEF RowsGoOn

\* A data key that is unwrapped is of a row, or out of reach of its deletion.
LEMMA UnwrapStep ==
  ASSUME CredentialsInv, UNCHANGED credentials, turnedDown \subseteq turnedDown',
         NEW r \in Callers, step[r] # "clearing", NEW s, NEW h, Takes(r, s, h),
         NEW n \in Nodes, NEW c \in Ids, credentials[c] # Nil,
         deks' = [deks EXCEPT ![n] = @ \cup {c}],
         kept' = IF c \in Saved THEN kept ELSE kept \cup {<<n, c>>}
  PROVE  DeksInv' /\ deks' \in [Nodes -> SUBSET Ids] /\ kept' \in SUBSET (Nodes \X Ids)
<1>t. CredentialTypes /\ DeksInv
  BY DEF CredentialsInv
<1>1. deks' \in [Nodes -> SUBSET Ids] /\ kept' \in SUBSET (Nodes \X Ids)
  BY <1>t DEF CredentialTypes
<1>2. kept \subseteq kept' /\ (c \in Saved \/ <<n, c>> \in kept')
  OBVIOUS
<1>3. Saved' = Saved
  BY DEF Saved
<1>4. \A m \in Nodes : \A d \in deks'[m] : d \in deks[m] \/ (m = n /\ d = c)
  BY <1>t DEF CredentialTypes
<1> SUFFICES ASSUME NEW m \in Nodes, NEW d \in deks'[m]
             PROVE  credentials'[d] # Nil /\ (d \in Saved' \/ <<m, d>> \in kept' \/ Clearing(m, d)')
  BY <1>1 DEF DeksInv
<1>5. CASE m = n /\ d = c
  BY <1>2, <1>3, <1>5
<1>6. CASE d \in deks[m]
  <2>1. d \in Ids /\ credentials[d] # Nil /\ (d \in Saved \/ <<m, d>> \in kept \/ Clearing(m, d))
    BY <1>6, <1>t DEF CredentialTypes, DeksInv
  <2>2. Clearing(m, d) => Clearing(m, d)'
    BY <2>1, <1>t, ClearingStays
  <2> QED
    BY <2>1, <2>2, <1>2, <1>3
<1> QED
  BY <1>4, <1>5, <1>6

LEMMA CredentialsStepInv == ASSUME CredentialsInv, CredentialsStep PROVE CredentialsInv'
<1> PICK r \in Callers :
      \/ TryNewKey(r) \/ StoreKey(r) \/ ReadSealed(r) \/ Unseal(r) \/ Mark(r)
      \/ Use(r) \/ UnsealForUse(r) \/ DeleteRow(r) \/ ClearDeks(r)
  BY DEF CredentialsStep
<1>t. CredentialTypes /\ RowsInv /\ DeksInv /\ HeldInv(r)
  BY DEF CredentialsInv
\* A request that only reads.
<1>a. ASSUME NEW s \in {"storing", "unsealing", "using"}, NEW h, Takes(r, s, h), step[r] = "new",
             UNCHANGED <<credentials, deks, turnedDown, kept>>, HeldInv(r)'
      PROVE  CredentialsInv'
  <2>1. RowsGoOn
    BY <1>a, UnchangedRowsGoOn
  <2>2. Saved \subseteq Saved'
    BY <1>a DEF Saved
  <2>3. DeksInv'
    BY <1>a, <2>1, <2>2, DeksStay
  <2>4. /\ step' \in [Callers -> {"new", "storing", "unsealing", "marking", "using", "clearing", "done"}]
        /\ holds' = [q \in Callers |-> holds'[q]]
        /\ \A q \in Callers : HeldInv(q)'
    BY <1>a, <2>1, TakesStep
  <2>5. RowsInv'
    BY <1>a, <1>t DEF RowsInv, Saved
  <2> QED
    BY <1>a, <1>t, <2>3, <2>4, <2>5 DEF CredentialsInv, CredentialTypes
<1>1. CASE TryNewKey(r)
  <2>1. PICK k \in ApiKeys : Takes(r, "storing", [key |-> k])
    BY <1>1 DEF TryNewKey
  <2>2. HeldInv(r)'
    BY <1>t, <2>1, TakesIs DEF HeldInv
  <2> QED
    BY <1>a, <1>1, <2>1, <2>2 DEF TryNewKey
<1>2. CASE StoreKey(r)
  <2>1. holds[r].key \in ApiKeys /\ step[r] = "storing" /\ UNCHANGED <<deks, turnedDown, kept>>
    BY <1>2, <1>t DEF StoreKey, HeldInv
  <2>2. PICK c \in Ids :
          /\ Takes(r, "marking", [id |-> c, verdict |-> "fine"])
          /\ \/ c \in Saved /\ credentials' = [credentials EXCEPT ![c].status = "active"]
             \/ /\ credentials[c] = Nil
                /\ credentials' = [credentials EXCEPT ![c] = [key |-> holds[r].key, status |-> "active"]]
    BY <1>2 DEF StoreKey, Saved
  <2>3. /\ credentials'[c] \in Rows /\ credentials'[c].status = "active"
        /\ credentials[c] # Nil => c \in Saved /\ credentials'[c].key = credentials[c].key
        /\ \A d \in Ids \ {c} : credentials'[d] = credentials[d]
        /\ credentials' \in [Ids -> {Nil, Gone} \cup Rows]
    <3>1. CASE c \in Saved /\ credentials' = [credentials EXCEPT ![c].status = "active"]
      <4>1. credentials[c] \in Rows
        BY <3>1, <1>t DEF Saved, CredentialTypes
      <4> QED
        BY <4>1, <3>1, <1>t DEF CredentialTypes, Rows
    <3>2. CASE /\ credentials[c] = Nil
               /\ credentials' = [credentials EXCEPT ![c] = [key |-> holds[r].key, status |-> "active"]]
      BY <3>2, <2>1, <1>t DEF CredentialTypes, Rows
    <3> QED
      BY <3>1, <3>2, <2>2
  <2>4. RowsGoOn /\ Saved \subseteq Saved'
    BY <2>1, <2>3, GoneAssumption DEF RowsGoOn, Saved
  <2>5. step[r] # "clearing" /\ DeksInv'
    BY <2>1, <2>2, <2>4, DeksStay
  <2>6. HeldInv(r)'
    BY <1>t, <2>2, <2>3, TakesIs, GoneAssumption DEF HeldInv, Verdicts
  <2>7. /\ step' \in [Callers -> {"new", "storing", "unsealing", "marking", "using", "clearing", "done"}]
        /\ holds' = [q \in Callers |-> holds'[q]]
        /\ \A q \in Callers : HeldInv(q)'
    BY <2>2, <2>4, <2>6, TakesStep
  <2>8. RowsInv'
    BY <1>t, <2>1, <2>3 DEF RowsInv, Saved
  <2> QED
    BY <1>t, <2>1, <2>3, <2>5, <2>7, <2>8 DEF CredentialsInv, CredentialTypes
<1>3. CASE ReadSealed(r)
  <2>1. PICK n \in Nodes, c \in Saved :
          Takes(r, "unsealing", [node |-> n, id |-> c, key |-> credentials[c].key, of |-> c])
    BY <1>3 DEF ReadSealed
  <2>2. c \in Ids /\ credentials[c] # Nil /\ credentials[c].key \in ApiKeys
    BY <1>t DEF Saved, CredentialTypes, Rows
  <2>3. credentials' = credentials
    BY <1>3 DEF ReadSealed
  <2>4. HeldInv(r)'
    BY <1>t, <2>1, <2>2, <2>3, TakesIs DEF HeldInv
  <2> QED
    BY <1>a, <1>3, <2>1, <2>4 DEF ReadSealed
<1>4. CASE Unseal(r)
  <2> DEFINE n == holds[r].node
             c == holds[r].of
  <2>1. /\ n \in Nodes /\ c \in Ids /\ holds[r].id = c /\ credentials[c] # Nil /\ holds[r].key \in ApiKeys
        /\ c \in Saved => credentials[c].key = holds[r].key
        /\ step[r] = "unsealing"
    BY <1>4, <1>t DEF Unseal, HeldInv
  <2>2. PICK verdict \in Verdicts :
          Hears(holds[r].key, verdict) /\ Takes(r, "marking", [id |-> c, verdict |-> verdict])
    BY <1>4, <2>1 DEF Unseal
  <2>3. /\ deks' = [deks EXCEPT ![n] = @ \cup {c}]
        /\ kept' = IF c \in Saved THEN kept ELSE kept \cup {<<n, c>>}
        /\ UNCHANGED credentials
    BY <1>4 DEF Unseal
  <2> HIDE DEF n
  <2>4. /\ turnedDown \subseteq turnedDown' /\ turnedDown' \in SUBSET ApiKeys
        /\ verdict = "rejected" => holds[r].key \in turnedDown'
    BY <2>1, <2>2, <1>t DEF Hears, CredentialTypes
  <2>5. RowsGoOn
    BY <2>3, <2>4, UnchangedRowsGoOn
  <2>6. HeldInv(r)'
    BY <1>t, <2>1, <2>2, <2>3, <2>4, TakesIs DEF HeldInv, Saved
  <2>7. /\ step' \in [Callers -> {"new", "storing", "unsealing", "marking", "using", "clearing", "done"}]
        /\ holds' = [q \in Callers |-> holds'[q]]
        /\ \A q \in Callers : HeldInv(q)'
    BY <2>2, <2>5, <2>6, TakesStep
  <2> HIDE DEF c
  <2>8. DeksInv' /\ deks' \in [Nodes -> SUBSET Ids] /\ kept' \in SUBSET (Nodes \X Ids)
    BY <2>1, <2>2, <2>3, <2>4, UnwrapStep
  <2>9. RowsInv'
    BY <1>t, <2>3, <2>4 DEF RowsInv, Saved
  <2> QED
    BY <1>t, <2>3, <2>4, <2>7, <2>8, <2>9 DEF CredentialsInv, CredentialTypes
<1>5. CASE Mark(r)
  <2> DEFINE c == holds[r].id
  <2>1. /\ c \in Ids /\ holds[r].verdict \in Verdicts /\ step[r] = "marking"
        /\ holds[r].verdict = "rejected" /\ c \in Saved => credentials[c].key \in turnedDown
        /\ UNCHANGED <<deks, turnedDown, kept>>
    BY <1>5, <1>t DEF Mark, HeldInv
  <2>2. /\ credentials' \in [Ids -> {Nil, Gone} \cup Rows]
        /\ \A d \in Ids \ {c} : credentials'[d] = credentials[d]
        /\ c \notin Saved => credentials' = credentials
        /\ c \in Saved => /\ credentials'[c] \in Rows /\ credentials'[c].key = credentials[c].key
                          /\ credentials'[c].status = "invalid" => holds[r].verdict # "fine"
    <3>1. CASE c \in Saved
      <4>1. credentials[c] \in Rows
        BY <3>1, <1>t DEF Saved, CredentialTypes
      <4>2. credentials' = [credentials EXCEPT ![c].status =
                              IF holds[r].verdict = "fine" THEN "active" ELSE "invalid"]
        BY <3>1, <1>5 DEF Mark
      <4> HIDE DEF c
      <4> QED
        BY <4>1, <4>2, <3>1, <2>1, <1>t DEF CredentialTypes, Rows
    <3>2. CASE c \notin Saved
      BY <3>2, <1>5, <1>t DEF Mark, CredentialTypes
    <3> QED
      BY <3>1, <3>2
  <2>3. RowsGoOn /\ Saved \subseteq Saved'
    BY <2>1, <2>2, GoneAssumption DEF RowsGoOn, Saved
  <2>4. Takes(r, "done", Nil)
    BY <1>5 DEF Mark, Ends
  <2>5. DeksInv'
    BY <2>1, <2>3, <2>4, DeksStay
  <2>6. HeldInv(r)'
    BY <1>t, <2>4, TakesIs DEF HeldInv
  <2>7. /\ step' \in [Callers -> {"new", "storing", "unsealing", "marking", "using", "clearing", "done"}]
        /\ holds' = [q \in Callers |-> holds'[q]]
        /\ \A q \in Callers : HeldInv(q)'
    BY <2>3, <2>4, <2>6, TakesStep
  <2>8. RowsInv'
    BY <1>t, <2>1, <2>2 DEF RowsInv, Saved, Verdicts
  <2> QED
    BY <1>t, <2>1, <2>2, <2>5, <2>7, <2>8 DEF CredentialsInv, CredentialTypes
<1>6. CASE Use(r)
  <2>1. PICK n \in Nodes, c \in Saved : Takes(r, "using", [node |-> n, of |-> c])
    BY <1>6 DEF Use
  <2>2. c \in Ids /\ credentials[c] # Nil /\ credentials' = credentials
    BY <1>6 DEF Saved, Use
  <2>3. HeldInv(r)'
    BY <1>t, <2>1, <2>2, TakesIs DEF HeldInv
  <2> QED
    BY <1>a, <1>6, <2>1, <2>3 DEF Use
<1>7. CASE UnsealForUse(r)
  <2> DEFINE n == holds[r].node
             c == holds[r].of
  <2>1. n \in Nodes /\ c \in Ids /\ credentials[c] # Nil /\ step[r] = "using"
    BY <1>7, <1>t DEF UnsealForUse, HeldInv
  <2>2. Takes(r, "done", Nil)
    BY <1>7 DEF UnsealForUse, Ends
  <2>3. /\ deks' = [deks EXCEPT ![n] = @ \cup {c}]
        /\ kept' = IF c \in Saved THEN kept ELSE kept \cup {<<n, c>>}
        /\ UNCHANGED <<credentials, turnedDown>>
    BY <1>7 DEF UnsealForUse
  <2> HIDE DEF n, c
  <2>4. RowsGoOn
    BY <2>3, UnchangedRowsGoOn
  <2>5. HeldInv(r)'
    BY <1>t, <2>2, TakesIs DEF HeldInv
  <2>6. /\ step' \in [Callers -> {"new", "storing", "unsealing", "marking", "using", "clearing", "done"}]
        /\ holds' = [q \in Callers |-> holds'[q]]
        /\ \A q \in Callers : HeldInv(q)'
    BY <2>2, <2>4, <2>5, TakesStep
  <2>7. DeksInv' /\ deks' \in [Nodes -> SUBSET Ids] /\ kept' \in SUBSET (Nodes \X Ids)
    BY <2>1, <2>2, <2>3, UnwrapStep
  <2>8. RowsInv'
    BY <1>t, <2>3 DEF RowsInv, Saved
  <2> QED
    BY <1>t, <2>3, <2>6, <2>7, <2>8 DEF CredentialsInv, CredentialTypes
<1>8. CASE DeleteRow(r)
  <2>1. PICK n \in Nodes, c \in Saved :
          /\ credentials' = [credentials EXCEPT ![c] = Gone]
          /\ kept' = kept \cup {<<m, c>> : m \in {o \in Nodes \ {n} : c \in deks[o]}}
          /\ Takes(r, "clearing", [node |-> n, id |-> c])
    BY <1>8 DEF DeleteRow
  <2>2. c \in Ids /\ step[r] = "new" /\ UNCHANGED <<deks, turnedDown>>
    BY <1>8 DEF DeleteRow, Saved
  <2>3. /\ credentials' \in [Ids -> {Nil, Gone} \cup Rows]
        /\ credentials'[c] = Gone /\ \A d \in Ids \ {c} : credentials'[d] = credentials[d]
        /\ kept' \in SUBSET (Nodes \X Ids)
    BY <2>1, <2>2, <1>t DEF CredentialTypes
  <2>4. RowsGoOn
    BY <2>2, <2>3, GoneAssumption DEF RowsGoOn, Saved
  <2>5. HeldInv(r)'
    BY <1>t, <2>1, <2>2, <2>3, TakesIs DEF HeldInv
  <2>6. /\ step' \in [Callers -> {"new", "storing", "unsealing", "marking", "using", "clearing", "done"}]
        /\ holds' = [q \in Callers |-> holds'[q]]
        /\ \A q \in Callers : HeldInv(q)'
    BY <2>1, <2>4, <2>5, TakesStep
  <2>7. Clearing(n, c)'
    BY <1>t, <2>1, TakesIs DEF Clearing
  <2>8. DeksInv'
    <3> SUFFICES ASSUME NEW m \in Nodes, NEW d \in deks[m]
                 PROVE  credentials'[d] # Nil
                        /\ (d \in Saved' \/ <<m, d>> \in kept' \/ Clearing(m, d)')
      BY <2>2 DEF DeksInv
    <3>1. d \in Ids /\ credentials[d] # Nil /\ (d \in Saved \/ <<m, d>> \in kept \/ Clearing(m, d))
      BY <1>t DEF CredentialTypes, DeksInv
    <3>2. CASE d = c
      <4>1. m # n => <<m, d>> \in kept'
        BY <2>1, <3>2
      <4> QED
        BY <4>1, <2>3, <2>7, <3>2, GoneAssumption
    <3>3. CASE d # c
      <4>1. Clearing(m, d) => Clearing(m, d)'
        BY <1>t, <2>1, <2>2, <3>1, ClearingStays
      <4>2. kept \subseteq kept'
        BY <2>1
      <4> QED
        BY <4>1, <4>2, <2>3, <3>1, <3>3 DEF Saved
    <3> QED
      BY <3>2, <3>3
  <2>9. RowsInv'
    BY <1>t, <2>2, <2>3 DEF RowsInv, Saved
  <2> QED
    BY <1>t, <2>2, <2>3, <2>6, <2>8, <2>9 DEF CredentialsInv, CredentialTypes
<1>9. CASE ClearDeks(r)
  <2> DEFINE n == holds[r].node
  <2>1. n \in Nodes /\ step[r] = "clearing" /\ UNCHANGED <<credentials, turnedDown>>
    BY <1>9, <1>t DEF ClearDeks, HeldInv
  <2>2. deks' = [deks EXCEPT ![n] = {}] /\ kept' = {k \in kept : k[1] # n}
    BY <1>9 DEF ClearDeks
  <2>3. Takes(r, "done", Nil)
    BY <1>9 DEF ClearDeks, Ends
  <2>4. RowsGoOn
    BY <2>1, UnchangedRowsGoOn
  <2>5. HeldInv(r)'
    BY <1>t, <2>3, TakesIs DEF HeldInv
  <2>6. /\ step' \in [Callers -> {"new", "storing", "unsealing", "marking", "using", "clearing", "done"}]
        /\ holds' = [q \in Callers |-> holds'[q]]
        /\ \A q \in Callers : HeldInv(q)'
    BY <2>3, <2>4, <2>5, TakesStep
  <2>7. \A m \in Nodes \ {n}, c \in Ids : Clearing(m, c) => Clearing(m, c)'
    BY <2>1, <2>3, <1>t DEF Clearing, Takes, CredentialTypes
  <2> HIDE DEF n
  <2>8. deks' \in [Nodes -> SUBSET Ids] /\ kept' \in SUBSET (Nodes \X Ids)
    BY <2>1, <2>2, <1>t DEF CredentialTypes
  <2>9. DeksInv'
    <3> SUFFICES ASSUME NEW m \in Nodes, NEW d \in deks'[m]
                 PROVE  credentials'[d] # Nil
                        /\ (d \in Saved' \/ <<m, d>> \in kept' \/ Clearing(m, d)')
      BY <2>8 DEF DeksInv
    <3>1. m # n /\ d \in deks[m]
      BY <2>1, <2>2, <1>t DEF CredentialTypes
    <3>2. d \in Ids /\ credentials[d] # Nil /\ (d \in Saved \/ <<m, d>> \in kept \/ Clearing(m, d))
      BY <3>1, <1>t DEF CredentialTypes, DeksInv
    <3>3. <<m, d>> \in kept => <<m, d>> \in kept'
      BY <2>2, <3>1
    <3> QED
      BY <3>1, <3>2, <3>3, <2>1, <2>7 DEF Saved
  <2>10. RowsInv'
    BY <1>t, <2>1 DEF RowsInv, Saved
  <2> QED
    BY <1>t, <2>1, <2>6, <2>8, <2>9, <2>10 DEF CredentialsInv, CredentialTypes
<1> QED
  BY <1>1, <1>2, <1>3, <1>4, <1>5, <1>6, <1>7, <1>8, <1>9

LEMMA CredentialsIdle == ASSUME CredentialsInv, UNCHANGED credentialVars PROVE CredentialsInv'
BY DEF credentialVars, CredentialsInv, CredentialTypes, RowsInv, DeksInv, HeldInv, Clearing, Saved

-----------------------------------------------------------------------------
(* Judge prompts. *)

JudgeTypes ==
  /\ shipped \in [Names -> Templates \cup {None}]
  /\ prompts \in [Names -> PromptRows \cup {None}]
  /\ versions \in SUBSET Histories /\ orgVersions \in SUBSET Histories
  /\ overrides \in [Names -> OverrideRows \cup {None}]
  /\ crossed \in SUBSET (Names \X {"platform", "org"})
  /\ doing \in [Editors -> {"new", "saving", "overriding", "done"}]
  /\ read = [e \in Editors |-> read[e]]

\* The history of a prompt ends with the version of its row.
NumberedInv == \A v \in versions : Known(v[1]) /\ v[2] <= prompts[v[1]].version

\* What is read to be saved is the default there is, or was crossed.
SavingInv(e) ==
  doing[e] = "saving" =>
    /\ read[e] \in [name : Names, template : Templates, edited : BOOLEAN]
    /\ Known(read[e].name)
    /\ ~read[e].edited => \/ read[e].template = prompts[read[e].name].default
                          \/ <<read[e].name, "platform">> \in crossed

\* The version an organization's save has chosen is free, and no other save has
\* chosen one, or they crossed.
Free(n, version) == \A v \in orgVersions : v[1] = n => v[2] < version
OverridingInv(e) ==
  doing[e] = "overriding" =>
    /\ read[e] \in [name : Names, template : Templates, version : 1..MaxVersion]
    /\ \/ <<read[e].name, "org">> \in crossed
       \/ Free(read[e].name, read[e].version) /\ ~Others(e, read[e].name, "overriding")

\* Of the versions of an organization one is the highest.
HasHighest(n) ==
  \/ \A v \in orgVersions : v[1] # n
  \/ \E w \in orgVersions : w[1] = n /\ \A v \in orgVersions : v[1] = n => v[2] <= w[2]

OneText ==
  /\ \A v, w \in versions : v[1] = w[1] /\ v[2] = w[2] => v = w
  /\ \A v, w \in orgVersions : v[1] = w[1] /\ v[2] = w[2] => v = w \/ <<v[1], "org">> \in crossed

RowHolds(n) ==
  Known(n) => IF prompts[n].edited
                THEN <<n, prompts[n].version, prompts[n].template>> \in versions
                ELSE prompts[n].template = prompts[n].default \/ <<n, "platform">> \in crossed

OverrideHolds(n) ==
  overrides[n] # None => <<n, overrides[n].version, overrides[n].template>> \in orgVersions

PlatformInv == NumberedInv /\ (\A e \in Editors : SavingInv(e)) /\ \A n \in Names : RowHolds(n)
OrgInv ==
  /\ \A e \in Editors : OverridingInv(e)
  /\ \A n \in Names : HasHighest(n) /\ OverrideHolds(n)
JudgeInv == JudgeTypes /\ PlatformInv /\ OrgInv /\ OneText

LEMMA JudgeInvIs == JudgeInv => JudgeHistoryKept
BY DEF JudgeInv, PlatformInv, OrgInv, OneText, RowHolds, OverrideHolds, JudgeHistoryKept

LEMMA JudgeInitInv ==
  ASSUME JudgeInit
  PROVE  JudgeInv
BY DEF JudgeInit, JudgeInv, JudgeTypes, PlatformInv, OrgInv, OneText, NumberedInv, SavingInv,
       OverridingInv, HasHighest, RowHolds, OverrideHolds, Known

\* Highest is what its name says, and a number.
LEMMA HighestIs ==
  ASSUME orgVersions \in SUBSET Histories, NEW n, HasHighest(n)
  PROVE  /\ Highest(n) \in 0..MaxVersion
         /\ \A v \in orgVersions : v[1] = n => v[2] <= Highest(n)
<1> DEFINE all == {v[2] : v \in {w \in orgVersions : w[1] = n}}
<1>1. Highest(n) = IF all = {} THEN 0 ELSE CHOOSE v \in all : \A w \in all : w <= v
  BY DEF Highest
<1>2. \A v \in orgVersions : v[1] = n => v[2] \in all
  OBVIOUS
<1>3. all \subseteq 1..MaxVersion
  BY DEF Histories
<1>4. all # {} => \E v \in all : \A w \in all : w <= v
  BY DEF HasHighest
<1> HIDE DEF all
<1>5. CASE all = {}
  BY <1>1, <1>2, <1>5, VersionsAssumption
<1>6. CASE all # {}
  <2>1. Highest(n) \in all /\ \A w \in all : w <= Highest(n)
    BY <1>1, <1>4, <1>6
  <2>2. Highest(n) \in 1..MaxVersion
    BY <2>1, <1>3
  <2>3. \A v \in orgVersions : v[1] = n => v[2] <= Highest(n)
    BY <2>1, <1>2
  <2> QED
    BY <2>2, <2>3, VersionsAssumption
<1> QED
  BY <1>5, <1>6

\* The step of an editor that writes nothing of the prompts there are.
LEMMA TurnsStep ==
  ASSUME JudgeTypes, NEW e \in Editors, NEW s \in {"new", "saving", "overriding", "done"}, NEW h,
         Turns(e, s, h)
  PROVE  /\ doing' \in [Editors -> {"new", "saving", "overriding", "done"}]
         /\ read' = [f \in Editors |-> read'[f]]
         /\ doing'[e] = s /\ read'[e] = h
         /\ \A f \in Editors \ {e} : doing'[f] = doing[f] /\ read'[f] = read[f]
BY DEF Turns, JudgeTypes

\* Steps that change nothing of the organization's own versions.
LEMMA OrgStays ==
  ASSUME JudgeInv, UNCHANGED orgVersions, crossed \subseteq crossed', NEW e \in Editors,
         \A f \in Editors : \/ doing'[f] = doing[f] /\ read'[f] = read[f]
                            \/ f = e /\ doing'[f] # "overriding",
         \A n \in Names : overrides'[n] = overrides[n] \/ overrides'[n] = None
  PROVE  OrgInv'
<1>t. OrgInv
  BY DEF JudgeInv
<1>1. \A f \in Editors : OverridingInv(f)'
  BY <1>t DEF OrgInv, OverridingInv, Others, Free
<1>2. \A n \in Names : HasHighest(n)' /\ OverrideHolds(n)'
  BY <1>t DEF OrgInv, HasHighest, OverrideHolds
<1> QED
  BY <1>1, <1>2 DEF OrgInv

\* ... and of the platform's.
LEMMA PlatformStays ==
  ASSUME JudgeInv, UNCHANGED <<prompts, versions>>, crossed \subseteq crossed', NEW e \in Editors,
         \A f \in Editors : \/ doing'[f] = doing[f] /\ read'[f] = read[f]
                            \/ f = e /\ doing'[f] # "saving"
  PROVE  PlatformInv'
<1>t. PlatformInv
  BY DEF JudgeInv
<1>1. \A f \in Editors : SavingInv(f)'
  BY <1>t DEF PlatformInv, SavingInv, Known
<1>2. \A n \in Names : RowHolds(n)'
  BY <1>t DEF PlatformInv, RowHolds, Known
<1>3. NumberedInv'
  BY <1>t DEF PlatformInv, NumberedInv, Known
<1> QED
  BY <1>1, <1>2, <1>3 DEF PlatformInv

\* A row that is saved or created under a version of its own.
LEMMA NewVersion ==
  ASSUME JudgeInv, NEW n \in Names, NEW row \in PromptRows, NEW template \in Templates,
         Known(n) => prompts[n].version < row.version /\ prompts[n].default = row.default,
         prompts' = [prompts EXCEPT ![n] = row],
         versions' = versions \cup {<<n, row.version, template>>},
         row.template = template,
         ~row.edited => template = row.default \/ <<n, "platform">> \in crossed,
         UNCHANGED <<orgVersions, crossed>>,
         NEW e \in Editors,
         \A f \in Editors : \/ doing'[f] = doing[f] /\ read'[f] = read[f]
                            \/ f = e /\ doing'[f] # "saving"
  PROVE  PlatformInv' /\ OneText' /\ versions' \in SUBSET Histories
         /\ prompts' \in [Names -> PromptRows \cup {None}]
<1>t. JudgeTypes /\ PlatformInv /\ OneText
  BY DEF JudgeInv
<1>1. /\ prompts' \in [Names -> PromptRows \cup {None}]
      /\ prompts'[n] = row /\ row # None
      /\ \A m \in Names \ {n} : prompts'[m] = prompts[m]
  BY <1>t, NoRowAssumption DEF JudgeTypes
<1>2. row.version \in 1..MaxVersion /\ versions' \in SUBSET Histories
  BY <1>t DEF PromptRows, JudgeTypes, Histories
<1>3. \A v \in versions : v[1] = n => v[2] < row.version
  <2> SUFFICES ASSUME NEW v \in versions, v[1] = n PROVE v[2] < row.version
    OBVIOUS
  <2>1. Known(n) /\ v[2] <= prompts[n].version /\ v[2] \in 1..MaxVersion
    BY <1>t DEF PlatformInv, NumberedInv, JudgeTypes, Histories
  <2>2. prompts[n].version \in 1..MaxVersion
    BY <2>1, <1>t DEF JudgeTypes, Known, PromptRows
  <2> QED
    BY <2>1, <2>2, <1>2
<1>4. NumberedInv'
  <2> SUFFICES ASSUME NEW v \in versions'
               PROVE  prompts'[v[1]] # None /\ v[2] <= prompts'[v[1]].version
    BY DEF NumberedInv, Known
  <2>1. CASE v = <<n, row.version, template>>
    BY <2>1, <1>1, <1>2
  <2>2. CASE v \in versions /\ v[1] = n
    BY <2>2, <1>1, <1>2, <1>3, <1>t DEF JudgeTypes, Histories
  <2>3. CASE v \in versions /\ v[1] # n
    BY <2>3, <1>1, <1>t DEF JudgeTypes, Histories, PlatformInv, NumberedInv, Known
  <2> QED
    BY <2>1, <2>2, <2>3
<1>5. ASSUME NEW f \in Editors PROVE SavingInv(f)'
  <2> SUFFICES ASSUME doing'[f] = "saving", doing'[f] = doing[f], read'[f] = read[f]
               PROVE  SavingInv(f)'
    BY DEF SavingInv
  <2>1. /\ read[f] \in [name : Names, template : Templates, edited : BOOLEAN]
        /\ Known(read[f].name)
        /\ ~read[f].edited => \/ read[f].template = prompts[read[f].name].default
                              \/ <<read[f].name, "platform">> \in crossed
    BY <1>t DEF PlatformInv, SavingInv
  <2>2. read[f].name \in Names
    BY <2>1
  <2>3. CASE read[f].name = n
    BY <2>1, <2>2, <2>3, <1>1 DEF SavingInv, Known
  <2>4. CASE read[f].name # n
    BY <2>1, <2>2, <2>4, <1>1 DEF SavingInv, Known
  <2> QED
    BY <2>3, <2>4
<1>6. ASSUME NEW m \in Names PROVE RowHolds(m)'
  <2>1. CASE m = n
    BY <2>1, <1>1 DEF RowHolds
  <2>2. CASE m # n
    BY <2>2, <1>1, <1>t DEF RowHolds, PlatformInv, Known
  <2> QED
    BY <2>1, <2>2
<1>7. OneText'
  <2>1. ASSUME NEW v \in versions', NEW w \in versions', v[1] = w[1], v[2] = w[2] PROVE v = w
    <3> DEFINE new == <<n, row.version, template>>
    <3>1. new[1] = n /\ new[2] = row.version
      OBVIOUS
    <3>2. \A u \in versions : u[1] = n => u[2] # row.version
      BY <1>2, <1>3, <1>t DEF JudgeTypes, Histories
    <3>3. (v \in versions \/ v = new) /\ (w \in versions \/ w = new)
      OBVIOUS
    <3>4. v \in versions /\ w \in versions => v = w
      BY <2>1, <1>t DEF OneText
    <3> HIDE DEF new
    <3> QED
      BY <2>1, <3>1, <3>2, <3>3, <3>4
  <2> QED
    BY <2>1, <1>t DEF OneText
<1> QED
  BY <1>1, <1>2, <1>4, <1>5, <1>6, <1>7 DEF PlatformInv

LEMMA JudgeStepInv == ASSUME JudgeInv, JudgeStep PROVE JudgeInv'
<1>t. JudgeTypes /\ PlatformInv /\ OrgInv /\ OneText
  BY DEF JudgeInv
<1>1. CASE Seed
  <2>1. UNCHANGED <<shipped, versions, overrides, orgVersions, doing, read>>
    BY <1>1 DEF Seed
  <2>2. \A n \in Names :
          /\ shipped[n] = None => prompts'[n] = prompts[n]
          /\ shipped[n] # None /\ Known(n) =>
               prompts'[n] = [prompts[n] EXCEPT !.default = shipped[n],
                                !.template = IF prompts[n].edited THEN @ ELSE shipped[n]]
          /\ shipped[n] # None /\ ~Known(n) =>
               prompts'[n] = [template |-> shipped[n], default |-> shipped[n], edited |-> FALSE, version |-> 1]
    BY <1>1 DEF Seed
  <2>3. /\ crossed \subseteq crossed' /\ crossed' \in SUBSET (Names \X {"platform", "org"})
        /\ \A n \in Names, e \in Editors :
             shipped[n] # None /\ doing[e] = "saving" /\ read[e].name = n => <<n, "platform">> \in crossed'
        /\ \A n \in Names : <<n, "org">> \in crossed' <=> <<n, "org">> \in crossed
    <3> DEFINE met == {m \in Names : shipped[m] # None
                                     /\ \E e \in Editors : doing[e] = "saving" /\ read[e].name = m}
    <3>1. crossed' = crossed \cup {<<n, "platform">> : n \in met}
      BY <1>1 DEF Seed
    <3>2. \A n \in Names, e \in Editors :
            shipped[n] # None /\ doing[e] = "saving" /\ read[e].name = n => n \in met
      OBVIOUS
    <3>3. met \subseteq Names
      OBVIOUS
    <3> HIDE DEF met
    <3> QED
      BY <3>1, <3>2, <3>3, <1>t DEF JudgeTypes
  <2>4. \A n \in Names : Known(n) => prompts[n] \in PromptRows
    BY <1>t DEF JudgeTypes, Known
  <2>5. ASSUME NEW n \in Names
        PROVE  /\ prompts'[n] \in PromptRows \cup {None}
               /\ Known(n) => /\ prompts'[n] \in PromptRows
                              /\ prompts'[n].version = prompts[n].version
                              /\ prompts'[n].edited = prompts[n].edited
                              /\ prompts[n].edited => prompts'[n].template = prompts[n].template
                              /\ ~prompts[n].edited => \/ prompts'[n].template = prompts'[n].default
                                                       \/ prompts'[n] = prompts[n]
               /\ ~Known(n) /\ prompts'[n] # None => ~prompts'[n].edited /\ prompts'[n].template = prompts'[n].default
               /\ shipped[n] = None => prompts'[n] = prompts[n]
    <3>1. CASE shipped[n] = None
      BY <3>1, <2>2, <2>4, <1>t DEF JudgeTypes, Known
    <3>2. CASE shipped[n] # None /\ Known(n)
      <4>1. shipped[n] \in Templates
        BY <3>2, <1>t DEF JudgeTypes
      <4>2. prompts[n] \in PromptRows
        BY <3>2, <2>4
      <4>3. prompts'[n] = [prompts[n] EXCEPT !.default = shipped[n],
                             !.template = IF prompts[n].edited THEN @ ELSE shipped[n]]
        BY <3>2, <2>2
      <4>4. /\ prompts'[n] \in PromptRows
            /\ prompts'[n].version = prompts[n].version
            /\ prompts'[n].edited = prompts[n].edited
            /\ prompts'[n].default = shipped[n]
            /\ prompts'[n].template = IF prompts[n].edited THEN prompts[n].template ELSE shipped[n]
        BY <4>1, <4>2, <4>3 DEF PromptRows
      <4> QED
        BY <4>4, <3>2
    <3>3. CASE shipped[n] # None /\ ~Known(n)
      <4>1. shipped[n] \in Templates /\ 1 \in 1..MaxVersion
        BY <3>3, <1>t, VersionsAssumption DEF JudgeTypes
      <4>2. prompts'[n] = [template |-> shipped[n], default |-> shipped[n], edited |-> FALSE, version |-> 1]
        BY <3>3, <2>2
      <4>3. prompts'[n] \in PromptRows /\ ~prompts'[n].edited /\ prompts'[n].template = prompts'[n].default
        BY <4>1, <4>2 DEF PromptRows
      <4> QED
        BY <4>3, <3>3
    <3> QED
      BY <3>1, <3>2, <3>3
  <2>6. prompts' \in [Names -> PromptRows \cup {None}]
    BY <1>1, <2>5 DEF Seed
  <2>7. \A n \in Names : Known(n) => prompts'[n] # None
    BY <2>5, NoRowAssumption
  <2>8. NumberedInv'
    BY <1>t, <2>1, <2>5, <2>7 DEF PlatformInv, NumberedInv, Known, JudgeTypes, Histories
  <2>9. ASSUME NEW e \in Editors PROVE SavingInv(e)'
    <3> SUFFICES ASSUME doing[e] = "saving" PROVE SavingInv(e)'
      BY <2>1 DEF SavingInv
    <3>1. /\ read[e] \in [name : Names, template : Templates, edited : BOOLEAN]
          /\ Known(read[e].name)
          /\ ~read[e].edited => \/ read[e].template = prompts[read[e].name].default
                                \/ <<read[e].name, "platform">> \in crossed
      BY <1>t DEF PlatformInv, SavingInv
    <3>2. read[e].name \in Names
      BY <3>1
    <3>3. \/ prompts'[read[e].name] = prompts[read[e].name]
          \/ <<read[e].name, "platform">> \in crossed'
      BY <3>2, <2>3, <2>5
    <3> QED
      BY <3>1, <3>2, <3>3, <2>1, <2>3, <2>7 DEF SavingInv, Known
  <2>10. ASSUME NEW n \in Names PROVE RowHolds(n)'
    BY <1>t, <2>1, <2>3, <2>5 DEF PlatformInv, RowHolds, Known
  <2>11. OrgInv'
    BY <1>t, <2>1, <2>3 DEF OrgInv, OverridingInv, HasHighest, OverrideHolds, Others, Free
  <2>12. OneText'
    BY <1>t, <2>1, <2>3 DEF OneText
  <2> QED
    BY <1>t, <2>1, <2>3, <2>6, <2>8, <2>9, <2>10, <2>11, <2>12 DEF JudgeInv, JudgeTypes, PlatformInv
<1>2. CASE Release
  <2>1. UNCHANGED <<prompts, versions, overrides, orgVersions, doing, read, crossed>>
        /\ shipped' \in [Names -> Templates \cup {None}]
    BY <1>2, <1>t DEF Release, JudgeTypes
  <2> QED
    BY <2>1, <1>t DEF JudgeInv, JudgeTypes, PlatformInv, OrgInv, OneText, NumberedInv, SavingInv,
       OverridingInv, HasHighest, RowHolds, OverrideHolds, Known, Others, Free
<1>3. ASSUME NEW e \in Editors, Create(e) PROVE JudgeInv'
  <2>1. PICK n \in Names, t \in Templates :
          /\ ~Known(n)
          /\ prompts' = [prompts EXCEPT ![n] = [template |-> t, default |-> t,
                                                edited |-> FALSE, version |-> 1]]
          /\ versions' = versions \cup {<<n, 1, t>>}
    BY <1>3 DEF Create
  <2> DEFINE row == [template |-> t, default |-> t, edited |-> FALSE, version |-> 1]
  <2>2. row \in PromptRows /\ row.version = 1 /\ row.template = t /\ row.default = t /\ ~row.edited
    BY VersionsAssumption DEF PromptRows
  <2>3. Turns(e, "done", None) /\ UNCHANGED <<shipped, overrides, orgVersions, crossed>>
    BY <1>3 DEF Create, Stays
  <2>4. /\ doing' \in [Editors -> {"new", "saving", "overriding", "done"}]
        /\ read' = [f \in Editors |-> read'[f]]
        /\ doing'[e] = "done" /\ read'[e] = None
        /\ \A f \in Editors \ {e} : doing'[f] = doing[f] /\ read'[f] = read[f]
    BY <1>t, <2>3, TurnsStep
  <2> HIDE DEF row
  <2>5. PlatformInv' /\ OneText' /\ versions' \in SUBSET Histories
        /\ prompts' \in [Names -> PromptRows \cup {None}]
    <3>1. prompts' = [prompts EXCEPT ![n] = row] /\ versions' = versions \cup {<<n, row.version, t>>}
      BY <2>1, <2>2 DEF row
    <3>2. \A f \in Editors : \/ doing'[f] = doing[f] /\ read'[f] = read[f]
                             \/ f = e /\ doing'[f] # "saving"
      BY <2>4
    <3>3. row.template = row.default /\ ~Known(n) /\ UNCHANGED <<orgVersions, crossed>>
      BY <2>1, <2>2, <2>3
    <3> QED
      BY <3>1, <3>2, <3>3, <2>2, NewVersion
  <2>6. OrgInv'
    BY <2>3, <2>4, OrgStays
  <2> QED
    BY <1>t, <2>3, <2>4, <2>5, <2>6 DEF JudgeInv, JudgeTypes
<1>4. ASSUME NEW e \in Editors, ReadForSave(e) PROVE JudgeInv'
  <2>1. PICK n \in Names, t \in Templates, edited \in BOOLEAN :
          /\ Known(n)
          /\ ~edited => t = prompts[n].default
          /\ Turns(e, "saving", [name |-> n, template |-> t, edited |-> edited])
    BY <1>4 DEF ReadForSave
  <2>2. UNCHANGED <<shipped, prompts, versions, overrides, orgVersions, crossed>>
    BY <1>4 DEF ReadForSave
  <2>3. /\ doing' \in [Editors -> {"new", "saving", "overriding", "done"}]
        /\ read' = [f \in Editors |-> read'[f]]
        /\ doing'[e] = "saving" /\ read'[e] = [name |-> n, template |-> t, edited |-> edited]
        /\ \A f \in Editors \ {e} : doing'[f] = doing[f] /\ read'[f] = read[f]
    BY <1>t, <2>1, TurnsStep
  <2>4. OrgInv'
    BY <2>2, <2>3, OrgStays
  <2>5. ASSUME NEW f \in Editors PROVE SavingInv(f)'
    BY <1>t, <2>1, <2>2, <2>3 DEF PlatformInv, SavingInv, Known
  <2>6. PlatformInv' /\ OneText'
    BY <1>t, <2>2, <2>5 DEF PlatformInv, NumberedInv, RowHolds, Known, OneText
  <2> QED
    BY <1>t, <2>2, <2>3, <2>4, <2>6 DEF JudgeInv, JudgeTypes
<1>5. ASSUME NEW e \in Editors, Save(e) PROVE JudgeInv'
  <2> DEFINE n == read[e].name
             t == read[e].template
             row == [prompts[n] EXCEPT !.template = t, !.edited = read[e].edited,
                                       !.version = prompts[n].version + 1]
  <2>1. /\ read[e] \in [name : Names, template : Templates, edited : BOOLEAN]
        /\ Known(n)
        /\ ~read[e].edited => t = prompts[n].default \/ <<n, "platform">> \in crossed
    BY <1>5, <1>t DEF Save, PlatformInv, SavingInv
  <2>2. n \in Names /\ t \in Templates /\ prompts[n] \in PromptRows
    BY <2>1, <1>t DEF JudgeTypes, Known
  <2>3. /\ prompts[n].version + 1 <= MaxVersion
        /\ versions' = versions \cup {<<n, prompts[n].version + 1, t>>}
        /\ prompts' = [prompts EXCEPT ![n] = row]
    BY <1>5 DEF Save
  <2>4. /\ row \in PromptRows /\ row.version = prompts[n].version + 1 /\ row.template = t
        /\ row.default = prompts[n].default /\ row.edited = read[e].edited
        /\ prompts[n].version < row.version
    <3>1. prompts[n].version + 1 \in 1..MaxVersion /\ prompts[n].version \in Nat
      BY <2>2, <2>3, VersionsAssumption DEF PromptRows
    <3>2. read[e].edited \in BOOLEAN
      BY <2>1
    <3> HIDE DEF n, t
    <3>3. row \in PromptRows
      BY <2>2, <3>1, <3>2 DEF PromptRows
    <3>4. /\ row.version = prompts[n].version + 1 /\ row.template = t
          /\ row.default = prompts[n].default /\ row.edited = read[e].edited
      BY <2>2 DEF PromptRows
    <3> HIDE DEF row
    <3> QED
      BY <3>1, <3>3, <3>4
  <2>5. Turns(e, "done", None) /\ UNCHANGED <<shipped, overrides, orgVersions, crossed>>
    BY <1>5 DEF Save, Stays
  <2>6. /\ doing' \in [Editors -> {"new", "saving", "overriding", "done"}]
        /\ read' = [f \in Editors |-> read'[f]]
        /\ doing'[e] = "done" /\ read'[e] = None
        /\ \A f \in Editors \ {e} : doing'[f] = doing[f] /\ read'[f] = read[f]
    BY <1>t, <2>5, TurnsStep
  <2> HIDE DEF row, n, t
  <2>7. PlatformInv' /\ OneText' /\ versions' \in SUBSET Histories
        /\ prompts' \in [Names -> PromptRows \cup {None}]
    <3>1. versions' = versions \cup {<<n, row.version, t>>}
      BY <2>3, <2>4
    <3> QED
      BY ZenonT(40), <3>1, <2>1, <2>2, <2>3, <2>4, <2>5, <2>6, NewVersion
  <2>8. OrgInv'
    BY <2>5, <2>6, OrgStays
  <2> QED
    BY <1>t, <2>5, <2>6, <2>7, <2>8 DEF JudgeInv, JudgeTypes
<1>6. ASSUME NEW e \in Editors, ReadHighest(e) PROVE JudgeInv'
  <2>1. PICK n \in Names, t \in Templates :
          /\ Highest(n) < MaxVersion
          /\ Turns(e, "overriding", [name |-> n, template |-> t, version |-> Highest(n) + 1])
          /\ crossed' = IF Others(e, n, "overriding") THEN crossed \cup {<<n, "org">>} ELSE crossed
    BY <1>6 DEF ReadHighest
  <2>2. UNCHANGED <<shipped, prompts, versions, overrides, orgVersions>>
    BY <1>6 DEF ReadHighest
  <2> DEFINE what == [name |-> n, template |-> t, version |-> Highest(n) + 1]
  <2>3. /\ doing' \in [Editors -> {"new", "saving", "overriding", "done"}]
        /\ read' = [f \in Editors |-> read'[f]]
        /\ doing'[e] = "overriding" /\ read'[e] = what
        /\ \A f \in Editors \ {e} : doing'[f] = doing[f] /\ read'[f] = read[f]
    BY <1>t, <2>1, TurnsStep
  <2>4. /\ Highest(n) \in 0..MaxVersion
        /\ \A v \in orgVersions : v[1] = n => v[2] <= Highest(n)
    BY <1>t, HighestIs DEF OrgInv, JudgeTypes
  <2>5. /\ what \in [name : Names, template : Templates, version : 1..MaxVersion]
        /\ what.name = n /\ Free(n, what.version)
    BY <2>1, <2>4, <1>t, VersionsAssumption DEF Free, JudgeTypes, Histories
  <2>6. crossed \subseteq crossed' /\ crossed' \in SUBSET (Names \X {"platform", "org"})
    BY <2>1, <1>t DEF JudgeTypes
  <2>7. PlatformInv'
    BY <2>2, <2>3, <2>6, PlatformStays
  <2> HIDE DEF what
  <2>8. ASSUME NEW f \in Editors PROVE OverridingInv(f)'
    <3>1. CASE f = e
      <4>1. <<n, "org">> \in crossed' \/ ~Others(e, n, "overriding")'
        BY <2>1, <2>3 DEF Others
      <4> QED
        BY <3>1, <4>1, <2>2, <2>3, <2>5 DEF OverridingInv, Free
    <3>2. CASE f # e /\ doing[f] = "overriding"
      <4>1. /\ read[f] \in [name : Names, template : Templates, version : 1..MaxVersion]
            /\ \/ <<read[f].name, "org">> \in crossed
               \/ Free(read[f].name, read[f].version) /\ ~Others(f, read[f].name, "overriding")
        BY <3>2, <1>t DEF OrgInv, OverridingInv
      <4>2. doing'[f] = doing[f] /\ read'[f] = read[f]
        BY <3>2, <2>3
      <4>3. CASE read[f].name = n
        <5>1. Others(e, n, "overriding")
          BY <3>2, <4>3 DEF Others
        <5> QED
          BY <5>1, <4>1, <4>2, <4>3, <2>1 DEF OverridingInv
      <4>4. CASE read[f].name # n
        <5>1. Others(f, read[f].name, "overriding")' => Others(f, read[f].name, "overriding")
          BY <4>2, <4>4, <2>3, <2>5 DEF Others
        <5> QED
          BY <5>1, <4>1, <4>2, <2>2, <2>6 DEF OverridingInv, Free
      <4> QED
        BY <4>3, <4>4
    <3>3. CASE f # e /\ doing[f] # "overriding"
      BY <3>3, <2>3 DEF OverridingInv
    <3> QED
      BY <3>1, <3>2, <3>3
  <2>9. OrgInv' /\ OneText'
    BY <1>t, <2>2, <2>6, <2>8 DEF OrgInv, HasHighest, OverrideHolds, OneText
  <2> QED
    BY <1>t, <2>2, <2>3, <2>6, <2>7, <2>9 DEF JudgeInv, JudgeTypes
<1>7. ASSUME NEW e \in Editors, Override(e) PROVE JudgeInv'
  <2> DEFINE new == <<read[e].name, read[e].version, read[e].template>>
  <2>n. PICK n : n = read[e].name
    OBVIOUS
  <2>1. /\ read[e] \in [name : Names, template : Templates, version : 1..MaxVersion]
        /\ <<n, "org">> \in crossed \/ (Free(n, read[e].version) /\ ~Others(e, n, "overriding"))
        /\ doing[e] = "overriding"
    <3>1. doing[e] = "overriding" /\ OverridingInv(e)
      BY <1>7, <1>t DEF Override, OrgInv
    <3> QED
      BY <2>n, <3>1 DEF OverridingInv
  <2>2. /\ orgVersions' = orgVersions \cup {new}
        /\ overrides' = [overrides EXCEPT ![n] = [template |-> read[e].template,
                                                  version |-> read[e].version]]
        /\ UNCHANGED <<shipped, prompts, versions, crossed>>
    BY <1>7, <2>n DEF Override
  <2>3. /\ doing' \in [Editors -> {"new", "saving", "overriding", "done"}]
        /\ read' = [f \in Editors |-> read'[f]]
        /\ doing'[e] = "done" /\ read'[e] = None
        /\ \A f \in Editors \ {e} : doing'[f] = doing[f] /\ read'[f] = read[f]
    BY <1>7, <1>t, TurnsStep DEF Override, Stays
  <2>4. /\ n \in Names /\ new \in Histories /\ new[1] = n /\ new[2] = read[e].version
        /\ [template |-> read[e].template, version |-> read[e].version] \in OverrideRows
    BY <2>n, <2>1 DEF Histories, OverrideRows
  <2>5. /\ overrides' \in [Names -> OverrideRows \cup {None}]
        /\ OverrideHolds(n)'
        /\ \A m \in Names \ {n} : OverrideHolds(m)'
    <3> DEFINE live == [template |-> read[e].template, version |-> read[e].version]
    <3>1. overrides' = [overrides EXCEPT ![n] = live] /\ live \in OverrideRows
      BY <2>2, <2>4
    <3>2. <<n, live.version, live.template>> \in orgVersions' /\ orgVersions \subseteq orgVersions'
      BY <2>n, <2>2
    <3> HIDE DEF live, new
    <3>3. overrides'[n] = live /\ \A m \in Names \ {n} : overrides'[m] = overrides[m]
      BY <1>t, <2>4, <3>1 DEF JudgeTypes
    <3>4. OverrideHolds(n)'
      BY <3>2, <3>3 DEF OverrideHolds
    <3>5. \A m \in Names \ {n} : OverrideHolds(m)'
      BY <1>t, <3>2, <3>3 DEF OrgInv, OverrideHolds
    <3> QED
      BY <1>t, <2>4, <3>1, <3>4, <3>5 DEF JudgeTypes
  <2>6. PlatformInv'
    BY <2>2, <2>3, PlatformStays
  <2>7. ASSUME NEW f \in Editors PROVE OverridingInv(f)'
    <3>1. CASE f # e /\ doing[f] = "overriding"
      <4>1. /\ read[f] \in [name : Names, template : Templates, version : 1..MaxVersion]
            /\ \/ <<read[f].name, "org">> \in crossed
               \/ Free(read[f].name, read[f].version) /\ ~Others(f, read[f].name, "overriding")
        BY <3>1, <1>t DEF OrgInv, OverridingInv
      <4>2. doing'[f] = doing[f] /\ read'[f] = read[f]
        BY <3>1, <2>3
      <4>3. CASE <<read[f].name, "org">> \in crossed
        BY <4>1, <4>2, <4>3, <2>2 DEF OverridingInv
      <4>4. CASE Free(read[f].name, read[f].version) /\ ~Others(f, read[f].name, "overriding")
        <5>1. read[f].name # n
          BY <2>n, <4>4, <3>1, <2>1 DEF Others
        <5>2. ~Others(f, read[f].name, "overriding")'
          BY <4>2, <4>4, <2>3 DEF Others
        <5>3. Free(read[f].name, read[f].version)'
          BY <4>2, <4>4, <5>1, <2>2, <2>4 DEF Free
        <5> QED
          BY <4>1, <4>2, <5>2, <5>3 DEF OverridingInv
      <4> QED
        BY <4>1, <4>3, <4>4
    <3> QED
      BY <3>1, <2>3 DEF OverridingInv
  <2> HIDE DEF new
  <2>8. ASSUME NEW m \in Names PROVE HasHighest(m)'
    <3>1. CASE m # n
      BY <3>1, <1>t, <2>2, <2>4 DEF OrgInv, HasHighest
    <3>2. CASE m = n /\ \A v \in orgVersions : v[1] # n
      BY <3>2, <2>1, <2>2, <2>4 DEF HasHighest
    <3>3. ASSUME m = n, NEW w \in orgVersions, w[1] = n, \A v \in orgVersions : v[1] = n => v[2] <= w[2]
          PROVE  HasHighest(m)'
      <4>1. w[2] \in Nat /\ new[2] \in Nat /\ \A v \in orgVersions : v[2] \in Nat
        BY <1>t, <2>4 DEF JudgeTypes, Histories
      <4>2. CASE new[2] <= w[2]
        BY <3>3, <4>1, <4>2, <2>2, <2>4 DEF HasHighest
      <4>3. CASE w[2] <= new[2]
        BY <3>3, <4>1, <4>3, <2>2, <2>4 DEF HasHighest
      <4> QED
        BY <4>1, <4>2, <4>3
    <3> QED
      BY <3>1, <3>2, <3>3, <1>t DEF OrgInv, HasHighest
  <2>9. OneText'
    <3>1. ASSUME NEW v \in orgVersions', NEW w \in orgVersions', v[1] = w[1], v[2] = w[2],
                 <<v[1], "org">> \notin crossed
          PROVE  v = w
      <4>1. v \in orgVersions /\ w \in orgVersions => v = w
        BY <3>1, <1>t DEF OneText
      <4>2. v[1] = n => Free(n, new[2])
        BY <3>1, <2>1, <2>4
      <4>3. \A u \in orgVersions : u[1] = n /\ v[1] = n => u[2] # new[2]
        BY <4>2, <1>t, <2>4 DEF Free, JudgeTypes, Histories
      <4> QED
        BY <3>1, <4>1, <4>3, <2>2, <2>4
    <3> QED
      BY <3>1, <1>t, <2>2 DEF OneText
  <2>10. OrgInv'
    <3>1. \A m \in Names : OverrideHolds(m)'
      BY <2>4, <2>5
    <3> QED
      BY <3>1, <2>7, <2>8 DEF OrgInv
  <2>11. JudgeTypes'
    BY <1>t, <2>2, <2>3, <2>4, <2>5 DEF JudgeTypes
  <2> QED
    BY <2>6, <2>9, <2>10, <2>11 DEF JudgeInv
<1>8. ASSUME NEW e \in Editors, ResetOrg(e) PROVE JudgeInv'
  <2>1. PICK n \in Names : overrides' = [overrides EXCEPT ![n] = None]
    BY <1>8 DEF ResetOrg
  <2>2. UNCHANGED <<shipped, prompts, versions, orgVersions, crossed>>
    BY <1>8 DEF ResetOrg
  <2>3. /\ doing' \in [Editors -> {"new", "saving", "overriding", "done"}]
        /\ read' = [f \in Editors |-> read'[f]]
        /\ doing'[e] = "done" /\ read'[e] = None
        /\ \A f \in Editors \ {e} : doing'[f] = doing[f] /\ read'[f] = read[f]
    BY <1>8, <1>t, TurnsStep DEF ResetOrg, Stays
  <2>4. /\ overrides' \in [Names -> OverrideRows \cup {None}]
        /\ \A m \in Names : overrides'[m] = overrides[m] \/ overrides'[m] = None
    BY <2>1, <1>t DEF JudgeTypes
  <2>5. PlatformInv' /\ OrgInv'
    BY <2>2, <2>3, <2>4, PlatformStays, OrgStays
  <2> QED
    BY <1>t, <2>2, <2>3, <2>4, <2>5 DEF JudgeInv, JudgeTypes, OneText
<1> QED
  BY <1>1, <1>2, <1>3, <1>4, <1>5, <1>6, <1>7, <1>8 DEF JudgeStep

LEMMA JudgeIdle == ASSUME JudgeInv, UNCHANGED judgeVars PROVE JudgeInv'
BY DEF judgeVars, JudgeInv, JudgeTypes, PlatformInv, OrgInv, OneText, NumberedInv, SavingInv,
       OverridingInv, HasHighest, RowHolds, OverrideHolds, Known, Others, Free

-----------------------------------------------------------------------------
(* An answer that is judged. *)

Judged(v) ==
  /\ v.score \in Int /\ v.reply \in {"number", "unread", "down", "keyless"}
  /\ v.lost => v.reply = "down"
  /\ v.reply \in {"down", "keyless"} => v.score = 0

\* What a metric may have said: the SDK's always have a key, and mark a call that failed.
OfMetric(path, v) ==
  IF path = "sdk" THEN v.reply # "keyless" /\ (v.reply = "down" => v.lost) ELSE ~v.lost

GradingFields == {"path", "stage", "wanted", "limits", "customs", "found", "results"}

\* Results are those of the metrics, then with those of the prompts that were found in
\* their place; what is stored and told is what they are.
GradingInv ==
  grading # NoOne =>
    /\ DOMAIN grading = GradingFields /\ grading.path \in {"sdk", "dashboard"}
    /\ grading.stage \in {"metrics", "templates", "customs", "storing", "answered"}
    /\ \A j \in DOMAIN grading.limits : grading.limits[j] \in Int
    /\ \A j \in DOMAIN grading.customs : grading.customs[j] \in Int
    /\ \A j \in DOMAIN grading.results : Judged(grading.results[j])
    /\ grading.stage = "metrics" => DOMAIN grading.results = {}
    /\ grading.stage \in {"templates", "customs"} => DOMAIN grading.results = grading.wanted
    /\ grading.stage \in {"storing", "answered"} =>
         DOMAIN grading.results = grading.wanted \cup grading.found
    /\ grading.stage \in {"templates", "customs"} =>
         \A j \in DOMAIN grading.results :
           j \in grading.wanted /\ OfMetric(grading.path, grading.results[j])
    /\ grading.stage \in {"storing", "answered"} =>
         \A j \in DOMAIN grading.results :
           IF j \in grading.found THEN ~grading.results[j].lost
           ELSE j \in grading.wanted /\ OfMetric(grading.path, grading.results[j])
    /\ grading.stage = "answered" =>
         evalRows \in {{}, ScoresGiven} /\ streamed \subseteq ScoresGiven

\* Every judge that is asked says what it may.
LEMMA JudgesSay ==
  ASSUME NEW judges, NEW keyed \in BOOLEAN, NEW marks \in BOOLEAN,
         NEW results \in AskJudges(judges, keyed, marks)
  PROVE  /\ DOMAIN results = judges
         /\ \A j \in judges :
              /\ Judged(results[j]) /\ (results[j].lost => marks)
              /\ keyed => results[j].reply # "keyless"
              /\ marks /\ results[j].reply = "down" => results[j].lost
<1>1. CASE keyed
  <2>1. PICK said \in [judges -> Replies] : results = [j \in judges |-> Graded(said[j], marks)]
    BY <1>1 DEF AskJudges
  <2>2. ASSUME NEW j \in judges
        PROVE  /\ Judged(results[j]) /\ (results[j].lost => marks)
               /\ results[j].reply # "keyless"
               /\ marks /\ results[j].reply = "down" => results[j].lost
    <3>1. PICK reply \in Replies : results[j] = Graded(reply, marks)
      BY <2>1
    <3> DEFINE gone == marks /\ reply.kind = "down"
               score == IF reply.kind = "number" THEN Clamp(reply.value) ELSE 0
    <3>2. results[j].reply = reply.kind /\ results[j].lost = gone /\ results[j].score = score
      BY <3>1 DEF Graded
    <3>k. /\ reply.kind \in {"number", "unread", "down"}
          /\ reply.kind = "number" => reply.value \in Int
      BY <3>1, RepliesAssumption
    <3>c. \A v \in Int : Clamp(v) \in Int
      BY DEF Clamp
    <3>3. reply.kind \in {"number", "unread", "down"} /\ score \in Int
      BY <3>k, <3>c
    <3>4. /\ gone \in BOOLEAN /\ (gone => marks /\ reply.kind = "down")
          /\ marks /\ reply.kind = "down" => gone
          /\ reply.kind = "down" => score = 0
      OBVIOUS
    <3> HIDE DEF gone, score
    <3>5. Judged(results[j])
      BY <3>2, <3>3, <3>4 DEF Judged
    <3> QED
      BY <3>2, <3>3, <3>4, <3>5
  <2> QED  BY <2>1, <2>2
<1>2. CASE ~keyed
  <2>1. results = [j \in judges |-> NoKey]
    BY <1>2 DEF AskJudges
  <2>2. NoKey.score = 0 /\ ~NoKey.lost /\ NoKey.reply = "keyless"
    BY DEF NoKey
  <2>3. Judged(NoKey)
    BY <2>2 DEF Judged
  <2> QED
    BY <1>2, <2>1, <2>2, <2>3
<1> QED  BY <1>1, <1>2

LEMMA GradingStep ==
  ASSUME GradingInv, JudgingStep
  PROVE  GradingInv'
<1>1. ASSUME NEW path \in {"sdk", "dashboard"}, AskForScores(path) PROVE GradingInv'
  <2>1. PICK wanted \in SUBSET BuiltIn, slugs \in SUBSET Slugs :
          \E named \in SUBSET wanted : \E limits \in [named -> Limits], customs \in [slugs -> Limits] :
            grading' = [path |-> path, stage |-> "metrics", wanted |-> wanted,
                        limits |-> limits, customs |-> customs,
                        found |-> {}, results |-> [m \in {} |-> NoKey]]
    BY <1>1 DEF AskForScores
  <2>n. PICK named \in SUBSET wanted : \E limits \in [named -> Limits], customs \in [slugs -> Limits] :
          grading' = [path |-> path, stage |-> "metrics", wanted |-> wanted,
                      limits |-> limits, customs |-> customs,
                      found |-> {}, results |-> [m \in {} |-> NoKey]]
    BY <2>1
  <2>l. PICK limits \in [named -> Limits], customs \in [slugs -> Limits] :
          grading' = [path |-> path, stage |-> "metrics", wanted |-> wanted,
                      limits |-> limits, customs |-> customs,
                      found |-> {}, results |-> [m \in {} |-> NoKey]]
    BY <2>n
  <2>2. /\ DOMAIN grading' = GradingFields /\ grading'.path = path /\ grading'.stage = "metrics"
        /\ grading'.limits = limits /\ grading'.customs = customs
        /\ DOMAIN grading'.results = {}
    BY <2>l DEF GradingFields
  <2>3. /\ \A j \in DOMAIN limits : limits[j] \in Int
        /\ \A j \in DOMAIN customs : customs[j] \in Int
    BY RepliesAssumption
  <2> QED  BY <2>2, <2>3 DEF GradingInv
<1>2. CASE RunMetrics
  <2>1. PICK keyed \in (IF grading.path = "sdk" THEN {TRUE} ELSE BOOLEAN) :
          \E results \in AskJudges(grading.wanted, keyed, grading.path = "sdk") :
            grading' = [grading EXCEPT !.stage = "templates", !.results = results]
    BY <1>2 DEF RunMetrics
  <2>2. PICK results \in AskJudges(grading.wanted, keyed, grading.path = "sdk") :
          grading' = [grading EXCEPT !.stage = "templates", !.results = results]
    BY <2>1
  <2>3. keyed \in BOOLEAN /\ (grading.path = "sdk" => keyed) /\ (grading.path = "sdk") \in BOOLEAN
    OBVIOUS
  <2>4. /\ DOMAIN results = grading.wanted
        /\ \A j \in grading.wanted :
             /\ Judged(results[j]) /\ (results[j].lost => grading.path = "sdk")
             /\ keyed => results[j].reply # "keyless"
             /\ grading.path = "sdk" /\ results[j].reply = "down" => results[j].lost
    <3>1. PICK marks \in BOOLEAN : marks <=> grading.path = "sdk"
      OBVIOUS
    <3>2. results \in AskJudges(grading.wanted, keyed, marks)
      <4>1. marks = (grading.path = "sdk")
        BY <3>1
      <4> QED
        BY <2>2, <4>1
    <3>3. /\ DOMAIN results = grading.wanted
          /\ \A j \in grading.wanted :
               /\ Judged(results[j]) /\ (results[j].lost => marks)
               /\ keyed => results[j].reply # "keyless"
               /\ marks /\ results[j].reply = "down" => results[j].lost
      BY <2>3, <3>1, <3>2, JudgesSay
    <3> QED
      BY <3>1, <3>3
  <2>5. grading # NoOne /\ DOMAIN grading = GradingFields  BY <1>2 DEF RunMetrics, Stage, GradingInv
  <2>6. /\ DOMAIN grading' = GradingFields /\ grading'.path = grading.path
        /\ grading'.stage = "templates" /\ grading'.results = results
        /\ grading'.limits = grading.limits /\ grading'.customs = grading.customs
        /\ grading'.wanted = grading.wanted
    BY <2>2, <2>5 DEF GradingFields
  <2> QED  BY <2>3, <2>4, <2>5, <2>6 DEF GradingInv, OfMetric, Judged
<1>3. CASE FindTemplates
  <2>1. PICK there : grading' = [grading EXCEPT !.stage = "customs", !.found = there]
    BY <1>3 DEF FindTemplates
  <2>2. grading # NoOne /\ DOMAIN grading = GradingFields /\ grading.stage = "templates"
    BY <1>3 DEF FindTemplates, Stage, GradingInv
  <2>3. /\ DOMAIN grading' = GradingFields /\ grading'.path = grading.path
        /\ grading'.stage = "customs" /\ grading'.results = grading.results
        /\ grading'.limits = grading.limits /\ grading'.customs = grading.customs
        /\ grading'.wanted = grading.wanted
    BY <2>1, <2>2 DEF GradingFields
  <2> QED  BY <2>2, <2>3 DEF GradingInv
<1>4. CASE RunCustomJudges
  <2>k. PICK keyed \in BOOLEAN :
          \E customs \in AskJudges(grading.found, keyed, FALSE) :
            grading' = [grading EXCEPT !.stage = "storing",
                          !.results = [j \in DOMAIN customs \cup DOMAIN grading.results |->
                                         IF j \in DOMAIN customs THEN customs[j]
                                         ELSE grading.results[j]]]
    BY <1>4 DEF RunCustomJudges
  <2>1. PICK customs \in AskJudges(grading.found, keyed, FALSE) :
          grading' = [grading EXCEPT !.stage = "storing",
                        !.results = [j \in DOMAIN customs \cup DOMAIN grading.results |->
                                       IF j \in DOMAIN customs THEN customs[j]
                                       ELSE grading.results[j]]]
    BY <2>k
  <2> DEFINE results == [j \in DOMAIN customs \cup DOMAIN grading.results |->
                           IF j \in DOMAIN customs THEN customs[j] ELSE grading.results[j]]
  <2>2. /\ DOMAIN customs = grading.found
        /\ \A j \in grading.found : Judged(customs[j]) /\ ~customs[j].lost
    BY <2>1, JudgesSay
  <2>3. grading # NoOne /\ DOMAIN grading = GradingFields /\ grading.stage = "customs"
    BY <1>4 DEF RunCustomJudges, Stage, GradingInv
  <2>4. \A j \in DOMAIN results :
          IF j \in grading.found THEN results[j] = customs[j]
          ELSE j \in DOMAIN grading.results /\ results[j] = grading.results[j]
    BY <2>2
  <2>w. DOMAIN results = grading.wanted \cup grading.found  BY <2>2, <2>3 DEF GradingInv
  <2>5. grading' = [grading EXCEPT !.stage = "storing", !.results = results]  BY <2>1
  <2> HIDE DEF results
  <2>6. /\ DOMAIN grading' = GradingFields /\ grading'.path = grading.path
        /\ grading'.stage = "storing" /\ grading'.results = results
        /\ grading'.limits = grading.limits /\ grading'.customs = grading.customs
        /\ grading'.wanted = grading.wanted /\ grading'.found = grading.found
    BY <2>3, <2>5 DEF GradingFields
  <2> QED  BY <2>2, <2>3, <2>4, <2>w, <2>6 DEF GradingInv
<1>5. CASE Answer
  <2>1. grading # NoOne /\ DOMAIN grading = GradingFields /\ grading.stage = "storing"
        /\ grading' = [grading EXCEPT !.stage = "answered"]
        /\ evalRows' \in {{}, ScoresGiven} /\ streamed' \in SUBSET ScoresGiven
    BY <1>5 DEF Answer, Stage, GradingInv
  <2>2. /\ DOMAIN grading' = GradingFields /\ grading'.path = grading.path
        /\ grading'.stage = "answered" /\ grading'.results = grading.results
        /\ grading'.limits = grading.limits /\ grading'.customs = grading.customs
        /\ grading'.wanted = grading.wanted /\ grading'.found = grading.found
    BY <2>1 DEF GradingFields
  <2>3. ScoresGiven' = ScoresGiven  BY <2>2 DEF ScoresGiven
  <2> QED  BY <2>1, <2>2, <2>3 DEF GradingInv
<1>6. CASE ComparePair \/ RankMany \/ NotCompared
  BY <1>6 DEF GradingInv, ComparePair, RankMany, NotCompared, Compare
<1> QED  BY <1>1, <1>2, <1>3, <1>4, <1>5, <1>6 DEF JudgingStep

\* What the gate says follows.
LEMMA GateIsRight == ASSUME GradingInv PROVE GateFollows
<1> SUFFICES ASSUME grading # NoOne, grading.stage = "answered" PROVE GateFollows
  BY DEF GateFollows, Stage
<1>1. \A j : Threshold(j) \in Int  BY RepliesAssumption DEF Threshold, GradingInv
<1>2. \A j \in DOMAIN grading.results :
        /\ Judged(grading.results[j])
        /\ IF j \in grading.found THEN ~grading.results[j].lost
           ELSE j \in grading.wanted /\ OfMetric(grading.path, grading.results[j])
  BY DEF GradingInv
<1>3. grading.path \in {"sdk", "dashboard"}  BY DEF GradingInv
<1>4. DOMAIN grading.results = grading.wanted \cup grading.found  BY DEF GradingInv
<1>5. ASSUME NEW j \in DOMAIN grading.results
      PROVE  LET score == IF Looked(j) THEN grading.results[j].score ELSE 0
             IN  j \in FailedJudges <=> ~Reported(j) /\ score < Threshold(j) /\ Threshold(j) > 0
  <2> DEFINE score == IF Looked(j) THEN grading.results[j].score ELSE 0
  <2>1. score = grading.results[j].score /\ score \in Int  BY <1>2 DEF Judged, Looked
  <2>2. grading.results[j].lost <=> Reported(j)
    <3>1. Reported(j) => j \notin grading.found /\ grading.path = "sdk"  BY DEF Reported
    <3>2. grading.results[j].lost => ~Looked(j) /\ j \notin grading.found /\ grading.path = "sdk"
      BY <1>2, <1>3 DEF Judged, Looked, OfMetric
    <3>3. Reported(j) => grading.results[j].lost
      BY <1>2, <3>1 DEF Judged, Looked, OfMetric, Reported
    <3> QED  BY <3>2, <3>3 DEF Reported
  <2> HIDE DEF score
  <2>3. j \in FailedJudges <=> ~Reported(j) /\ ~(score >= Threshold(j)) /\ Threshold(j) > 0
    BY <2>1, <2>2 DEF FailedJudges, Passes
  <2>4. j \in FailedJudges <=> ~Reported(j) /\ score < Threshold(j) /\ Threshold(j) > 0
    BY <1>1, <2>1, <2>3
  <2> QED  BY <2>4 DEF score
<1>6. evalRows \in {{}, ScoresGiven} /\ streamed \subseteq ScoresGiven  BY DEF GradingInv
<1>7. ASSUME NEW row \in evalRows, ~Looked(row.judge) PROVE row.score = 0
  <2>1. PICK j \in DOMAIN grading.results : row = [judge |-> j, score |-> grading.results[j].score]
    BY <1>6 DEF ScoresGiven
  <2> QED  BY <1>2, <1>7, <2>1 DEF Judged, Looked
<1> QED  BY <1>4, <1>5, <1>6, <1>7 DEF GateFollows

-----------------------------------------------------------------------------
(* Answers that are compared. *)

\* Every nonempty set of naturals has a least element.
LEMMA NatMin ==
  ASSUME NEW S \in SUBSET Nat, S # {}
  PROVE  \E n \in S : \A m \in S : n <= m
<1> DEFINE R == OpToRel(<, Nat)
<1>1. IsWellFoundedOn(R, Nat)
  BY NatLessThanWellFounded
<1>2. \A x, y \in Nat : x < y => <<x, y>> \in R
  BY DEF OpToRel
<1> HIDE DEF R
<1>3. PICK x \in S : \A y \in S : ~(<<y, x>> \in R)
  BY <1>1, WFMin
<1>4. \A y \in S : ~(y < x)
  BY <1>2, <1>3
<1>5. \A y \in S : x <= y
  BY <1>3, <1>4
<1> QED
  BY <1>3, <1>5

\* The turns of finitely many places are the numbers up to how many they are, each once.
LEMMA TurnsCount ==
  ASSUME NEW S \in SUBSET Nat, IsFiniteSet(S)
  PROVE  /\ Cardinality(S) \in Nat
         /\ \A i \in S : Turn(S, i) \in 1..Cardinality(S)
         /\ \A i, j \in S : Turn(S, i) = Turn(S, j) => i = j
         /\ \A n \in 1..Cardinality(S) : \E i \in S : Turn(S, i) = n
<1> DEFINE Upto(i) == {j \in S : j <= i}
           N == Cardinality(S)
           f == [i \in S |-> Turn(S, i)]
<1>1. N \in Nat
  BY FS_CardinalityType
<1>2. \A i \in S : IsFiniteSet(Upto(i)) /\ Cardinality(Upto(i)) \in Nat /\ Cardinality(Upto(i)) <= N
  BY FS_Subset, FS_CardinalityType
<1>3. \A i \in S : Turn(S, i) = Cardinality(Upto(i))
  BY DEF Turn
<1>4. ASSUME NEW i \in S PROVE Turn(S, i) \in 1..N
  <2>1. i \in Upto(i)
    OBVIOUS
  <2>2. Cardinality(Upto(i)) # 0
    BY <1>2, <2>1, FS_EmptySet
  <2> HIDE DEF Upto, N
  <2> QED
    BY <1>1, <1>2, <1>3, <2>2
<1>5. ASSUME NEW i \in S, NEW j \in S, i < j PROVE Turn(S, i) # Turn(S, j)
  <2>1. Upto(i) \in SUBSET Upto(j) /\ j \in Upto(j) /\ j \notin Upto(i)
    <3>1. i \in Nat /\ j \in Nat /\ j <= j /\ ~(j <= i)
      BY <1>5
    <3>2. \A k \in Nat : k <= i => k <= j
      BY <1>5, <3>1
    <3> QED
      BY <3>1, <3>2
  <2>2. Upto(i) # Upto(j)
    BY <2>1
  <2> HIDE DEF Upto
  <2> QED
    BY <1>2, <1>3, <2>1, <2>2, FS_Subset
<1>6. \A i, j \in S : Turn(S, i) = Turn(S, j) => i = j
  BY <1>5
<1>7. f \in Injection(S, 1..N)
  BY <1>4, <1>6 DEF Injection, IsInjective
<1>8. IsFiniteSet(1..N) /\ Cardinality(1..N) = N
  BY <1>1, FS_Interval
<1>9. f \in Surjection(S, 1..N)
  <2> HIDE DEF f
  <2> QED
    BY <1>7, <1>8, FS_Injection
<1>10. \A n \in 1..N : \E i \in S : f[i] = n
  <2> HIDE DEF f
  <2> QED
    BY <1>9 DEF Surjection
<1> QED
  BY <1>1, <1>4, <1>6, <1>10

\* The names of all there is, once each, the one of the first place that is there first.
NamesAll(names, m, order, cands) ==
  /\ \E n \in Nat \ {0} : names \in [1..n -> ToSet(cands)]
  /\ ToSet(names) = ToSet(cands) /\ IsInjective(names)
  /\ \A first \in 1..m :
       (/\ order[first] \in DOMAIN cands
        /\ \A i \in 1..(first - 1) : order[i] \notin DOMAIN cands)
       => names[1] = cands[order[first]]

\* What an order of places that leaves none out comes to.
LEMMA NamesRanked ==
  ASSUME NEW m \in Nat, NEW order \in [1..m -> Int],
         NEW cands, DOMAIN cands \subseteq Int,
         \A k \in DOMAIN cands : \E i \in 1..m : order[i] = k,
         DOMAIN cands # {},
         NEW names, names = NamesOf(cands, order)
  PROVE  NamesAll(names, m, order, cands)
<1> DEFINE places == FirstNamed(cands, order)
           N == Cardinality(places)
           At(n) == CHOOSE i \in places : Turn(places, i) = n
<1>1. DOMAIN order = 1..m
  OBVIOUS
<1>2. \A i : i \in places <=> /\ i \in 1..m /\ order[i] \in DOMAIN cands
                             /\ \A j \in 1..(i - 1) :
                                  order[j] \in DOMAIN cands => cands[order[j]] # cands[order[i]]
  BY <1>1 DEF FirstNamed
<1>3. places \in SUBSET Nat /\ places \in SUBSET (1..m)
  BY <1>2
<1>4. IsFiniteSet(1..m)
  BY FS_Interval
<1>5. IsFiniteSet(places)
  BY <1>3, <1>4, FS_Subset
<1> HIDE DEF places
<1>6. /\ N \in Nat
      /\ \A i \in places : Turn(places, i) \in 1..N
      /\ \A i, j \in places : Turn(places, i) = Turn(places, j) => i = j
      /\ \A n \in 1..N : \E i \in places : Turn(places, i) = n
  BY <1>3, <1>5, TurnsCount
<1> HIDE DEF N
<1>7. \A n \in 1..N : At(n) \in places /\ Turn(places, At(n)) = n
  BY <1>6
<1>8. \A i \in places : At(Turn(places, i)) = i
  BY <1>6, <1>7
<1>9. names = [n \in 1..N |-> cands[order[At(n)]]]
  BY DEF NamesOf, places, N
<1> HIDE DEF At
<1>10. DOMAIN names = 1..N /\ \A n \in 1..N : names[n] = cands[order[At(n)]]
  BY <1>9
<1>11. \A i \in places : Turn(places, i) \in DOMAIN names /\ names[Turn(places, i)] = cands[order[i]]
  BY <1>6, <1>8, <1>10
<1>12. ASSUME NEW k \in DOMAIN cands
       PROVE  \E i \in places : cands[order[i]] = cands[k]
  <2> DEFINE same == {i \in 1..m : order[i] \in DOMAIN cands /\ cands[order[i]] = cands[k]}
  <2>1. same \in SUBSET Nat /\ same # {}
    OBVIOUS
  <2>2. PICK i \in same : \A j \in same : i <= j
    <3> HIDE DEF same
    <3> QED
      BY <2>1, NatMin
  <2>3. ASSUME NEW j \in 1..(i - 1), order[j] \in DOMAIN cands PROVE cands[order[j]] # cands[order[i]]
    <3>1. i \in 1..m /\ j \in 1..m /\ ~(i <= j)
      BY <2>2
    <3> QED
      BY <2>2, <2>3, <3>1
  <2>4. i \in places
    BY <1>2, <2>2, <2>3
  <2> QED
    BY <2>2, <2>4
<1>13. N \in Nat \ {0}
  <2>1. PICK k : k \in DOMAIN cands
    OBVIOUS
  <2>2. PICK i : i \in places
    BY <1>12, <2>1
  <2>3. Turn(places, i) \in 1..N
    BY <1>6, <2>2
  <2> QED
    BY <1>6, <2>3
<1>14. ToSet(names) = ToSet(cands)
  <2>1. ASSUME NEW n \in 1..N PROVE names[n] \in ToSet(cands)
    <3>1. At(n) \in places /\ order[At(n)] \in DOMAIN cands
      BY <1>2, <1>7
    <3> QED
      BY <1>10, <3>1 DEF ToSet
  <2>2. ASSUME NEW k \in DOMAIN cands PROVE cands[k] \in ToSet(names)
    <3>1. PICK i \in places : cands[order[i]] = cands[k]
      BY <1>12
    <3> QED
      BY <1>11, <3>1 DEF ToSet
  <2> QED
    BY SMTT(30), <1>10, <2>1, <2>2 DEF ToSet
<1>15. IsInjective(names)
  <2> SUFFICES ASSUME NEW a \in 1..N, NEW b \in 1..N, names[a] = names[b] PROVE a = b
    BY <1>10 DEF IsInjective
  <2>1. At(a) \in places /\ At(b) \in places /\ Turn(places, At(a)) = a /\ Turn(places, At(b)) = b
    BY <1>7
  <2>2. cands[order[At(a)]] = cands[order[At(b)]]
    BY <1>10
  <2>3. ASSUME NEW i \in places, NEW j \in places, i < j PROVE cands[order[i]] # cands[order[j]]
    <3>1. i \in 1..m /\ j \in 1..m /\ order[i] \in DOMAIN cands
      BY <1>2
    <3>2. i \in 1..(j - 1)
      BY <2>3, <3>1
    <3> QED
      BY <1>2, <3>1, <3>2
  <2>4. ~(At(a) < At(b)) /\ ~(At(b) < At(a)) /\ At(a) \in Nat /\ At(b) \in Nat
    BY <1>3, <2>1, <2>2, <2>3
  <2> QED
    BY <2>1, <2>4
<1>16. ASSUME NEW first \in 1..m, order[first] \in DOMAIN cands,
              \A i \in 1..(first - 1) : order[i] \notin DOMAIN cands
       PROVE  names[1] = cands[order[first]]
  <2>1. first \in places
    BY <1>2, <1>16
  <2>2. ASSUME NEW i \in places, i < first PROVE FALSE
    <3>1. i \in 1..m /\ order[i] \in DOMAIN cands
      BY <1>2
    <3>2. i \in 1..(first - 1)
      BY <2>2, <3>1
    <3> QED
      BY <1>16, <3>1, <3>2
  <2>n. \A i \in places : i \in Nat /\ ~(i < first)
    BY <1>3, <2>2
  <2>m. \A i \in places : i <= first <=> i = first
    BY <2>1, <2>n
  <2>3. {j \in places : j <= first} = {first}
    BY <2>1, <2>m
  <2>4. Turn(places, first) = Cardinality({first})
    BY <2>3 DEF Turn
  <2>5. Turn(places, first) = 1
    BY <2>4, FS_Singleton
  <2> QED
    BY <1>11, <2>1, <2>5
<1>17. names \in [1..N -> ToSet(cands)]
  <2>1. \A n \in 1..N : order[At(n)] \in DOMAIN cands
    BY <1>2, <1>7
  <2> QED
    BY <1>9, <2>1 DEF ToSet
<1> QED
  BY <1>13, <1>14, <1>15, <1>16, <1>17 DEF NamesAll

\* A ranking covers every name once, its head wins, and when the judge named no place
\* it is the first that was shown.
LEMMA RankingIs ==
  ASSUME NEW n \in Nat, NEW order \in [1..n -> 0..4], NEW cands \in [1..3 -> Candidates]
  PROVE  LET result == RankAll(cands, order)
         IN  /\ ~result.tie /\ result.winner \in Candidates
             /\ result.winner = Head(result.ranking)
             /\ ToSet(result.ranking) = ToSet(cands) /\ IsInjective(result.ranking)
             /\ ToSet(order) \cap (1..3) = {} => result.winner = cands[1]
<1> DEFINE all == order \o [i \in DOMAIN cands |-> i]
           names == NamesOf(cands, all)
           result == RankAll(cands, order)
<1>1. DOMAIN cands = 1..3 /\ order \in Seq(0..4) /\ Len(order) = n
  OBVIOUS
<1>2. [i \in DOMAIN cands |-> i] \in Seq(1..3) /\ Len([i \in DOMAIN cands |-> i]) = 3
  BY <1>1
<1>3. /\ DOMAIN all = 1..(n + 3)
      /\ \A i \in 1..n : all[i] = order[i]
      /\ \A k \in 1..3 : all[n + k] = k
      /\ all \in [1..(n + 3) -> Int]
  <2> DEFINE rest == [i \in DOMAIN cands |-> i]
  <2>1. rest \in Seq(Int) /\ Len(rest) = 3 /\ order \in Seq(Int) /\ \A k \in 1..3 : rest[k] = k
    BY <1>1
  <2> HIDE DEF rest
  <2>2. all \in Seq(Int) /\ Len(all) = n + 3
    BY <1>1, <2>1
  <2>3. /\ \A i \in 1..n : all[i] = order[i]
        /\ \A k \in 1..3 : all[n + k] = k
    BY <1>1, <2>1
  <2> HIDE DEF all
  <2> QED
    BY <2>2, <2>3
<1>4. result.winner = Head(names) /\ result.ranking = names /\ ~result.tie
  BY DEF RankAll
<1> HIDE DEF all, result
<1>5. n + 3 \in Nat /\ \A k \in DOMAIN cands : \E i \in 1..(n + 3) : all[i] = k
  <2>1. ASSUME NEW k \in 1..3 PROVE n + k \in 1..(n + 3) /\ all[n + k] = k
    BY <1>3
  <2> QED
    BY <1>1, <2>1
<1>d. DOMAIN cands \subseteq Int /\ DOMAIN cands # {}
  BY <1>1
<1>6. NamesAll(names, n + 3, all, cands)
  <2>1. \A x : x = NamesOf(cands, all) => NamesAll(x, n + 3, all, cands)
    BY <1>3, <1>5, <1>d, NamesRanked
  <2> QED
    BY <2>1 DEF names
<1>7. PICK c \in Nat \ {0} : names \in [1..c -> ToSet(cands)]
  BY <1>6 DEF NamesAll
<1>8. names[1] \in Candidates /\ Head(names) = names[1]
  <2> HIDE DEF names
  <2>1. ToSet(cands) \subseteq Candidates
    BY DEF ToSet
  <2>2. names \in Seq(Candidates) /\ Len(names) = c /\ 1 \in 1..c
    BY <1>7, <2>1
  <2> QED
    BY <2>2
<1>9. ASSUME ToSet(order) \cap (1..3) = {} PROVE names[1] = cands[1]
  <2>1. ASSUME NEW i \in 1..n PROVE all[i] \notin DOMAIN cands
    <3>1. order[i] \in ToSet(order)
      BY <1>1 DEF ToSet
    <3> QED
      BY <1>1, <1>3, <1>9, <3>1
  <2>2. n + 1 \in 1..(n + 3) /\ all[n + 1] = 1 /\ (n + 1) - 1 = n
    BY <1>3
  <2> HIDE DEF names
  <2> QED
    BY <1>1, <1>6, <2>1, <2>2 DEF NamesAll
<1> QED
  BY <1>4, <1>6, <1>8, <1>9 DEF result, NamesAll

\* A pair is won by one of the two, in both orders, or by none.
LEMMA PairIs ==
  ASSUME NEW a, NEW b, NEW forth \in Opinions, NEW back \in Opinions,
         NEW result, result = PairTwice(a, b, forth, back)
  PROVE  \/ /\ result = Undecided(<<a, b>>)
            /\ \/ "down" \in {forth, back} \/ Pick(a, b, forth) # Pick(b, a, back)
               \/ Pick(a, b, forth) = "tie"
         \/ /\ "down" \notin {forth, back} /\ Pick(a, b, forth) = Pick(b, a, back)
            /\ Pick(a, b, forth) # "tie" /\ {forth, back} \subseteq {"A", "B"}
            /\ result = Won(a, b) /\ Pick(a, b, forth) = a
         \/ /\ "down" \notin {forth, back} /\ Pick(a, b, forth) = Pick(b, a, back)
            /\ Pick(a, b, forth) # "tie" /\ {forth, back} \subseteq {"A", "B"}
            /\ result = Won(b, a) /\ Pick(a, b, forth) = b
<1>1. Pick(a, b, forth) = IF forth = "A" THEN a ELSE IF forth = "B" THEN b ELSE "tie"
  BY DEF Pick, Opinions
<1>2. Pick(b, a, back) = IF back = "A" THEN b ELSE IF back = "B" THEN a ELSE "tie"
  BY DEF Pick, Opinions
<1>3. CASE "down" \notin {forth, back} /\ Pick(a, b, forth) = Pick(b, a, back) /\ Pick(a, b, forth) # "tie"
  <2>1. {forth, back} \subseteq {"A", "B"}
    BY <1>1, <1>2, <1>3
  <2>2. result = IF Pick(a, b, forth) = a THEN Won(a, b) ELSE Won(Pick(a, b, forth), a)
    BY <1>3 DEF PairTwice
  <2>3. Pick(a, b, forth) = a \/ Pick(a, b, forth) = b
    BY <1>1, <2>1
  <2> QED
    BY <1>3, <2>1, <2>2, <2>3
<1>4. CASE ~("down" \notin {forth, back} /\ Pick(a, b, forth) = Pick(b, a, back) /\ Pick(a, b, forth) # "tie")
  BY <1>4 DEF PairTwice
<1> QED
  BY <1>3, <1>4

LEMMA WonIs ==
  ASSUME NEW winner, NEW loser, NEW result, result = Won(winner, loser)
  PROVE  /\ result.winner = winner /\ ~result.tie
         /\ Head(result.ranking) = winner /\ ToSet(result.ranking) = {winner, loser}
<1>1. result.winner = winner /\ ~result.tie /\ result.ranking = <<winner, loser>>
  BY DEF Won
<1> QED
  BY <1>1 DEF ToSet

LEMMA UndecidedIs ==
  ASSUME NEW cands, NEW result, result = Undecided(cands)
  PROVE  result.winner = NoOne /\ result.tie /\ result.ranking = cands
BY DEF Undecided

\* Who wins a pair does so by what was said in both orders.
LEMMA PairWinner ==
  ASSUME NEW a, NEW b, NEW forth \in Opinions, NEW back \in Opinions,
         NEW result, result = PairTwice(a, b, forth, back)
  PROVE  result.winner = IF /\ forth # "down" /\ back # "down"
                            /\ Pick(a, b, forth) = Pick(b, a, back)
                            /\ Pick(a, b, forth) # "tie"
                         THEN Pick(a, b, forth) ELSE NoOne
<1>1. CASE forth = "down" \/ back = "down" \/ Pick(a, b, forth) # Pick(b, a, back)
           \/ Pick(a, b, forth) = "tie"
  <2>1. result = Undecided(<<a, b>>)
    BY <1>1 DEF PairTwice
  <2> QED
    BY <1>1, <2>1, UndecidedIs
<1>2. CASE /\ forth # "down" /\ back # "down" /\ Pick(a, b, forth) = Pick(b, a, back)
           /\ Pick(a, b, forth) # "tie"
  <2>1. \E winner, loser : result = Won(winner, loser) /\ winner = Pick(a, b, forth)
    BY <1>2 DEF PairTwice
  <2> QED
    BY <1>2, <2>1, WonIs
<1> QED
  BY <1>1, <1>2

\* Swapping the two changes no winner.
LEMMA SwapsDo ==
  ASSUME NEW a, NEW b, NEW forth \in Opinions, NEW back \in Opinions
  PROVE  SwapsAgree(a, b, forth, back)
<1>1. PairTwice(a, b, forth, back).winner =
        IF /\ forth # "down" /\ back # "down"
           /\ Pick(a, b, forth) = Pick(b, a, back) /\ Pick(a, b, forth) # "tie"
        THEN Pick(a, b, forth) ELSE NoOne
  BY PairWinner
<1>2. PairTwice(b, a, back, forth).winner =
        IF /\ back # "down" /\ forth # "down"
           /\ Pick(b, a, back) = Pick(a, b, forth) /\ Pick(b, a, back) # "tie"
        THEN Pick(b, a, back) ELSE NoOne
  BY PairWinner
<1> QED
  BY <1>1, <1>2 DEF SwapsAgree

PairingInv == PairsFair /\ (pairing # NoOne => pairing.result.winner \in Candidates \cup {NoOne})

LEMMA PairStep ==
  ASSUME ComparePair
  PROVE  PairingInv'
<1>1. PICK a \in Candidates, b \in Candidates, forth \in Opinions, back \in Opinions :
        pairing' = [cands |-> <<a, b>>, said |-> <<forth, back>>,
                    result |-> PairTwice(a, b, forth, back)]
  BY DEF ComparePair, Compare
<1> DEFINE result == PairTwice(a, b, forth, back)
<1>2. pairing'.cands = <<a, b>> /\ pairing'.said = <<forth, back>> /\ pairing'.result = result
  BY <1>1
<1>3. SwapsAgree(a, b, forth, back)
  BY SwapsDo
<1>p. \/ /\ result = Undecided(<<a, b>>)
            /\ \/ "down" \in {forth, back} \/ Pick(a, b, forth) # Pick(b, a, back)
               \/ Pick(a, b, forth) = "tie"
      \/ /\ Pick(a, b, forth) = Pick(b, a, back)
         /\ {forth, back} \subseteq {"A", "B"}
         /\ result = Won(a, b)
      \/ /\ Pick(a, b, forth) = Pick(b, a, back)
         /\ {forth, back} \subseteq {"A", "B"}
         /\ result = Won(b, a)
  BY PairIs
<1> HIDE DEF result
<1>4. /\ ToSet(result.ranking) = ToSet(<<a, b>>)
      /\ result.winner \in Candidates \cup {NoOne}
      /\ (result.tie /\ result.winner = NoOne)
         \/ (/\ ~result.tie /\ result.winner = Head(result.ranking)
             /\ result.winner \in Candidates /\ {forth, back} \subseteq {"A", "B"}
             /\ Pick(a, b, forth) = Pick(b, a, back))
  <2>1. ToSet(<<a, b>>) = {a, b}
    BY DEF ToSet
  <2>2. CASE result = Undecided(<<a, b>>)
    BY <2>2, UndecidedIs
  <2>3. CASE result = Won(a, b) /\ Pick(a, b, forth) = Pick(b, a, back) /\ {forth, back} \subseteq {"A", "B"}
    <3>1. /\ result.winner = a /\ ~result.tie /\ Head(result.ranking) = a
          /\ ToSet(result.ranking) = {a, b}
      BY <2>3, WonIs
    <3> QED
      BY <1>1, <2>1, <2>3, <3>1
  <2>4. CASE result = Won(b, a) /\ Pick(a, b, forth) = Pick(b, a, back) /\ {forth, back} \subseteq {"A", "B"}
    <3>1. /\ result.winner = b /\ ~result.tie /\ Head(result.ranking) = b
          /\ ToSet(result.ranking) = {b, a}
      BY <2>4, WonIs
    <3> QED
      BY <1>1, <2>1, <2>4, <3>1
  <2> QED
    BY <1>p, <2>2, <2>3, <2>4
<1>5. /\ ToSet(result.ranking) = ToSet(<<a, b>>)
      /\ result.tie <=> result.winner = NoOne
      /\ ~result.tie => result.winner = Head(result.ranking)
      /\ ~result.tie => {forth, back} \subseteq {"A", "B"}
  BY <1>4, RepliesAssumption
<1>6. a # b /\ forth = back => result.tie
  <2> SUFFICES ASSUME a # b, forth = back, {forth, back} \subseteq {"A", "B"},
                      Pick(a, b, forth) = Pick(b, a, back)
               PROVE  FALSE
    BY <1>4
  <2>1. CASE forth = "A"
    BY <2>1 DEF Pick
  <2>2. CASE forth = "B"
    BY <2>2 DEF Pick
  <2> QED
    BY <2>1, <2>2
<1>7. Len(<<a, b>>) = 2 /\ <<a, b>>[1] = a /\ <<a, b>>[2] = b
      /\ <<forth, back>>[1] = forth /\ <<forth, back>>[2] = back
  OBVIOUS
<1>8. PairsFair'
  BY <1>2, <1>3, <1>5, <1>6, <1>7 DEF PairsFair
<1> QED
  BY <1>2, <1>4, <1>8 DEF PairingInv

LEMMA RankStep ==
  ASSUME RankMany
  PROVE  PairingInv'
<1>1. PICK cands \in [1..3 -> Candidates] :
        \E order \in UNION {[1..n -> 0..4] : n \in 0..3} :
          pairing' = [cands |-> cands, said |-> order, result |-> RankAll(cands, order)]
  BY DEF RankMany, Compare
<1>2. PICK n \in 0..3 :
        \E order \in [1..n -> 0..4] :
          pairing' = [cands |-> cands, said |-> order, result |-> RankAll(cands, order)]
  BY <1>1
<1>3. PICK order \in [1..n -> 0..4] :
        pairing' = [cands |-> cands, said |-> order, result |-> RankAll(cands, order)]
  BY <1>2
<1> DEFINE result == RankAll(cands, order)
<1>4. pairing'.cands = cands /\ pairing'.said = order /\ pairing'.result = result
  BY <1>3
<1>5. /\ ~result.tie /\ result.winner \in Candidates
      /\ result.winner = Head(result.ranking)
      /\ ToSet(result.ranking) = ToSet(cands) /\ IsInjective(result.ranking)
      /\ ToSet(order) \cap (1..3) = {} => result.winner = cands[1]
  BY <1>1, <1>2, <1>3, RankingIs
<1> HIDE DEF result
<1>6. Len(cands) = 3 /\ Len(cands) # 2
  OBVIOUS
<1>7. result.winner # NoOne
  BY <1>5, RepliesAssumption
<1>8. PairsFair'
  BY <1>4, <1>5, <1>6, <1>7 DEF PairsFair
<1> QED
  BY <1>4, <1>5, <1>8 DEF PairingInv

LEMMA NotComparedStep ==
  ASSUME NotCompared
  PROVE  PairingInv'
<1>1. PICK cands : pairing' = [cands |-> cands, said |-> <<>>, result |-> Undecided(cands)]
  BY DEF NotCompared, Compare
<1>2. /\ pairing'.cands = cands /\ pairing'.said = <<>> /\ pairing'.result.winner = NoOne
      /\ pairing'.result.tie /\ pairing'.result.ranking = cands
  BY <1>1, UndecidedIs
<1>3. Len(<<>>) # 2
  OBVIOUS
<1>4. PairsFair'
  BY <1>2, <1>3 DEF PairsFair
<1> QED
  BY <1>2, <1>4 DEF PairingInv

-----------------------------------------------------------------------------
JudgingInv == GradingInv /\ PairingInv

LEMMA JudgingInitInv == JudgingInit => JudgingInv
BY DEF JudgingInit, JudgingInv, GradingInv, PairingInv, PairsFair

LEMMA JudgingStepInv ==
  ASSUME JudgingInv, JudgingStep
  PROVE  JudgingInv'
<1>1. GradingInv'
  BY GradingStep DEF JudgingInv
<1>2. CASE ComparePair \/ RankMany \/ NotCompared
  BY <1>1, <1>2, PairStep, RankStep, NotComparedStep DEF JudgingInv
<1>3. CASE UNCHANGED pairing
  BY <1>1, <1>3 DEF JudgingInv, PairingInv, PairsFair
<1>4. (ComparePair \/ RankMany \/ NotCompared) \/ UNCHANGED pairing
  BY DEF JudgingStep, AskForScores, RunMetrics, FindTemplates, RunCustomJudges, Answer, StoresNothing
<1> QED
  BY <1>2, <1>3, <1>4

LEMMA JudgingIdle ==
  ASSUME JudgingInv, UNCHANGED judgingVars
  PROVE  JudgingInv'
BY DEF judgingVars, JudgingInv, GradingInv, PairingInv, PairsFair, ScoresGiven

LEMMA JudgingTypes == JudgingInv => JudgingTypeOK
BY DEF JudgingInv, GradingInv, PairingInv, JudgingTypeOK

-----------------------------------------------------------------------------
(* The parts side by side. *)

LEMMA AlertsInvariance == Spec => []AlertsInv
<1>1. Init => AlertsInv
  BY AlertsInitInv DEF Init
<1>2. AlertsInv /\ [Next]_vars => AlertsInv'
  BY AlertsStepInv, AlertsIdle DEF Next, vars
<1> QED
  BY <1>1, <1>2, PTL DEF Spec

LEMMA CredentialsInvariance == Spec => []CredentialsInv
<1>1. Init => CredentialsInv
  BY CredentialsInitInv DEF Init
<1>2. CredentialsInv /\ [Next]_vars => CredentialsInv'
  BY CredentialsStepInv, CredentialsIdle DEF Next, vars
<1> QED
  BY <1>1, <1>2, PTL DEF Spec

LEMMA JudgeInvariance == Spec => []JudgeInv
<1>1. Init => JudgeInv
  BY JudgeInitInv DEF Init
<1>2. JudgeInv /\ [Next]_vars => JudgeInv'
  BY JudgeStepInv, JudgeIdle DEF Next, vars
<1> QED
  BY <1>1, <1>2, PTL DEF Spec

LEMMA JudgingInvariance == Spec => []JudgingInv
<1>1. Init => JudgingInv
  BY JudgingInitInv DEF Init
<1>2. JudgingInv /\ [Next]_vars => JudgingInv'
  BY JudgingStepInv, JudgingIdle DEF Next, vars
<1> QED
  BY <1>1, <1>2, PTL DEF Spec

\* However deliveries, flushes and stops of the process interleave, every alert that
\* was raised is in one place.
THEOREM AlertsStayAccounted == Spec => []AlertsAccounted
<1>1. AlertsInv => AlertsAccounted
  BY DEF AlertsInv
<1> QED
  BY <1>1, AlertsInvariance, PTL

\* Whatever keys are stored, tried, used and deleted at once, a credential is invalid
\* only by its own key, and a deletion leaves no data key with its process.
THEOREM VerdictsAreOwn == Spec => []VerdictOfOwnKey
BY CredentialsInvIs, CredentialsInvariance, PTL

\* However saves, starts of the API and an organization's own versions interleave, a
\* version is one text and the live text is in the history or the default.
THEOREM JudgeHistoryIsKept == Spec => []JudgeHistoryKept
BY JudgeInvIs, JudgeInvariance, PTL

\* Whatever judges and callers answer, and whichever prompts and keys are there: a gate
\* fails an answer for exactly the judges below a threshold that was set, those out of
\* reach among them but for the reported ones, and a comparison decides as its answer says.
THEOREM GradesStayRight == Spec => []GradesHold
<1>1. JudgingInv => GradesHold
  BY GateIsRight DEF JudgingInv, PairingInv, GradesHold
<1> QED
  BY JudgingInvariance, <1>1, PTL

-----------------------------------------------------------------------------
(* Settings, their copies, and what is taken in under them. *)

\* What a copy of each setting may be.
CopiesOf(k) ==
  CASE k = "tier"   -> Tiers
    [] k = "alerts" -> Alerts
    [] k = "rules"  -> RuleSets
    [] k = "room"   -> {"left", "over"}
    [] OTHER        -> Policies

Idling == {"read", "write", "ingest", "done"}
Published == {"evaluate", "online", "rules", "order", "secure", "guard"}
Metered == {"gate", "publish"} \cup Published
Served == {"tier", "room"} \cup Metered
Stages == Idling \cup {"reading", "settling", "adding", "patching"} \cup Served

StoredRows == [tier : Tiers, default : Policies \cup {Absent}, named : Policies \cup {Absent},
               alerts : Alerts \cup {Absent}, rules : RuleTables]

RowTypes ==
  /\ stored \in StoredRows
  /\ cache = [p \in Procs |-> [k \in Settings \cup {"room"} |-> cache[p][k]]]
  /\ \A p \in Procs, k \in Settings \cup {"room"} : cache[p][k] \in CopiesOf(k) \cup {Absent}
  /\ at \in [Requests -> Stages]
  /\ known = [r \in Requests |-> known[r]] /\ fetched = [r \in Requests |-> fetched[r]]
  /\ overtaken \in SUBSET Requests /\ excused \in SUBSET (Procs \X Settings)
  /\ asked \in SUBSET Settings /\ slipped \in BOOLEAN

\* What a request knows where it stands.  The rules that an addition saw leave room
\* for one more, and the patch of what a rule scores was one of the rule that was seen.
KnownInv(r) ==
  LET k == known[r] IN
  /\ at[r] \in Idling => k = Absent
  /\ at[r] = "reading" => k \in KnownReads /\ k.key # "rules"
  /\ at[r] = "settling" =>
       k \in KnownWrites /\ (k.value # Absent => k.value \in CopiesOf(k.key))
  /\ at[r] = "adding" =>
       k \in KnownDrafts /\ Scores(k.rule) /\ Cardinality(Present(k.seen)) < MaxRules
  /\ at[r] = "patching" =>
       /\ k \in KnownPatches /\ Row(k.seen[k.rule])
       /\ k.field \in {"metrics", "judges"} => Scores(Patched(k.seen[k.rule], k.field, k.value))
  /\ at[r] \in Served => k \in KnownEvents
  /\ at[r] \in Served /\ at[r] # "tier" =>
       k.quota \in Quotas /\ (k.quota.sure => k.quota.days = 36500)
  /\ at[r] \in {"tier", "room", "rules"} => k.key = at[r]
  /\ at[r] \in {"gate", "guard"} => k.key = k.event.security /\ k.key \in {"default", "named"}

\* A row that is read is one a lookup is waiting for, and as long as nobody overtakes
\* it what a lookup made now would return; a named policy that was not found is not there.
FetchedInv(r) ==
  fetched[r] # Absent =>
    /\ Looking(r)
    /\ fetched[r] = [value |-> fetched[r].value]
    /\ fetched[r].value \in CopiesOf(Key(r)) \cup {Absent}
    /\ fetched[r].value = Absent => Key(r) = "named" /\ (r \in overtaken \/ ~Row(stored.named))
    /\ fetched[r].value # Absent /\ Key(r) # "room" =>
         r \in overtaken \/ Effective(Key(r)) = fetched[r].value

OvertakenInv(r) == r \in overtaken => Pending(r) /\ Key(r) \in Settings

\* What a write has to put where the copy was is what it wrote, unless overtaken.
SettlingInv(r) ==
  at[r] = "settling" /\ known[r].value # Absent /\ r \notin overtaken
    => Agrees(Key(r), known[r].value)

\* A request has published what belongs to its stage.
IngestInv(r) ==
  /\ traces[r] # Absent => traces[r] \in Stamps /\ (traces[r].paid => traces[r].days = 36500)
  /\ evals[r] \in {0, 1} /\ answers[r] \in {"ok", "refused", "late", Absent}
  /\ at[r] # "done" => answers[r] = Absent /\ r \notin scans
  /\ at[r] \in Stages \ (Published \cup {"done"}) => traces[r] = Absent
  /\ at[r] \in Published => traces[r] # Absent
  /\ traces[r] = Absent => evals[r] = 0 /\ r \notin scans
  /\ at[r] \in {"evaluate", "online", "rules", "order"} => evals[r] = 0
  /\ at[r] \in {"rules", "order"} => ~Event(r).running
  /\ at[r] = "secure" /\ Event(r).running => evals[r] = 0
  /\ answers[r] = "refused" => traces[r] = Absent
  /\ answers[r] \in {"ok", "late"} => traces[r] # Absent
  /\ r \in scans => answers[r] = "ok"

IngestDomains ==
  /\ traces = [r \in Requests |-> traces[r]]
  /\ evals = [r \in Requests |-> evals[r]]
  /\ answers = [r \in Requests |-> answers[r]]
  /\ scans \in SUBSET Requests

\* What concerns the rows and their copies, and all of it.
CopiesInv ==
  /\ RowTypes /\ CachesAgree
  /\ \A r \in Requests : KnownInv(r) /\ FetchedInv(r) /\ OvertakenInv(r) /\ SettlingInv(r)

CachesInv ==
  /\ CopiesInv /\ RulesInBounds
  /\ IngestDomains /\ \A r \in Requests : IngestInv(r)

-----------------------------------------------------------------------------
(* What lookups return. *)

\* No rules are a set of rules, as are those that are switched on.
LEMMA RuleSetsFacts ==
  /\ {} \in RuleSets
  /\ \A rules \in RuleTables : Active(rules) \in RuleSets
  /\ Absent \notin RuleSets
<1>1. \A rules \in RuleTables : Active(rules) \in RuleSets  BY DEF RuleSets
<1>2. {} \in RuleSets
  <2> DEFINE none == [x \in Rules |-> Absent]
  <2>1. none \in RuleTables  BY DEF RuleTables
  <2>2. Active(none) = {}  BY DEF Active, Enabled, Row
  <2> QED  BY <1>1, <2>1, <2>2
<1> QED  BY <1>1, <1>2, AbsentAssumption

\* A set of rules is one of rows of rules.
LEMMA RuleSetsAreRows ==
  ASSUME NEW rules \in RuleSets PROVE rules \subseteq Rules \X RuleRows
<1>1. PICK table \in RuleTables : rules = Active(table)  BY DEF RuleSets
<1>2. \A x \in Enabled(table) : <<x, table[x]>> \in Rules \X RuleRows
  BY <1>1 DEF Enabled, Row, RuleTables
<1> QED  BY <1>1, <1>2 DEF Active

\* What a lookup returns is a copy, there, and reads back as itself.
LEMMA EffectiveFacts ==
  ASSUME RowTypes, NEW k \in Settings
  PROVE  /\ Effective(k) \in CopiesOf(k) /\ Effective(k) # Absent
<1> USE AbsentAssumption, RuleSetsFacts DEF RowTypes, StoredRows, Words
<1>1. CASE k = "tier"
  BY <1>1 DEF Effective, CopiesOf, ReadBack, Tiers, Policies
<1>2. CASE k = "rules"
  BY <1>2 DEF Effective, CopiesOf, ActiveRules
<1>3. CASE k = "alerts"
  BY <1>3 DEF Effective, CopiesOf, AlertsOrDefault, AlertsReadBack, Row, Alerts
<1>4. CASE k \in {"default", "named"}
  BY <1>4 DEF Effective, CopiesOf, OrDefault, ReadBack, Row, Policies
<1> QED  BY <1>1, <1>2, <1>3, <1>4 DEF Settings

\* Copies of settings are there.
LEMMA CopiesAreThere ==
  ASSUME NEW k \in Settings \cup {"room"} PROVE Absent \notin CopiesOf(k)
BY AbsentAssumption, RuleSetsFacts DEF CopiesOf, Settings, Words

\* A request that looks up or settles knows its process and its setting.
LEMMA KnowsItsCopy ==
  ASSUME NEW r \in Requests, KnownInv(r)
  PROVE  /\ Looking(r) => P(r) \in Procs /\ Key(r) \in Settings \cup {"room"}
         /\ at[r] = "settling" => P(r) \in Procs /\ Key(r) \in Settings
         /\ at[r] \in {"adding", "patching"} => P(r) \in Procs
<1>1. ASSUME at[r] = "reading" PROVE P(r) \in Procs /\ Key(r) \in Settings
  BY <1>1 DEF KnownInv, KnownReads, P, Key
<1>2. ASSUME at[r] = "settling" PROVE P(r) \in Procs /\ Key(r) \in Settings
  BY <1>2 DEF KnownInv, KnownWrites, P, Key
<1>3. ASSUME at[r] \in {"tier", "room", "gate", "rules", "guard"}
      PROVE  P(r) \in Procs /\ Key(r) \in Settings \cup {"room"}
  <2>1. known[r] \in KnownEvents  BY <1>3 DEF KnownInv, Served, Metered, Published
  <2>2. Key(r) \in {"tier", "room", "rules", "default", "named"}  BY <1>3 DEF KnownInv, Key
  <2> QED  BY <2>1, <2>2 DEF KnownEvents, P, Settings
<1>4. ASSUME at[r] \in {"adding", "patching"} PROVE P(r) \in Procs
  BY <1>4 DEF KnownInv, KnownDrafts, KnownPatches, P
<1> QED  BY <1>1, <1>2, <1>3, <1>4 DEF Looking

-----------------------------------------------------------------------------
(* What a step leaves alone. *)

\* As long as the rows stay, so does what a lookup returns.
LEMMA EffectiveStays ==
  ASSUME stored' = stored
  PROVE  \A k : Effective(k)' = Effective(k)
BY DEF Effective, ActiveRules

\* A step of one request leaves the others where they are.
LEMMA OthersStand ==
  ASSUME RowTypes, NEW r \in Requests, NEW s, NEW k, Move(r, s, k)
  PROVE  /\ at'[r] = s /\ known'[r] = k
         /\ \A q \in Requests : q # r => at'[q] = at[q] /\ known'[q] = known[q]
         /\ s \in Stages => at' \in [Requests -> Stages]
         /\ known' = [q \in Requests |-> known'[q]]
BY DEF Move, RowTypes

\* A request that a step leaves alone, with the row it is about, stays as it was.
LEMMA OthersKeep ==
  ASSUME NEW q \in Requests, KnownInv(q), FetchedInv(q), OvertakenInv(q), SettlingInv(q),
         stored' = stored, at'[q] = at[q], known'[q] = known[q], fetched'[q] = fetched[q],
         (q \in overtaken') <=> (q \in overtaken)
  PROVE  KnownInv(q)' /\ FetchedInv(q)' /\ OvertakenInv(q)' /\ SettlingInv(q)'
<1>1. KnownInv(q)'  BY DEF KnownInv
<1> USE EffectiveStays DEF Key, Looking, Pending
<1>2. FetchedInv(q)'  BY DEF FetchedInv
<1>3. OvertakenInv(q)'  BY DEF OvertakenInv
<1>4. SettlingInv(q)'  BY DEF SettlingInv, Agrees
<1> QED  BY <1>1, <1>2, <1>3, <1>4

\* The copies agree after a step that leaves them, the rows, and whoever settles alone.
LEMMA CopiesKeep ==
  ASSUME CachesAgree, stored' = stored,
         \A p \in Procs, k \in Settings :
           cache'[p][k] # Absent /\ <<p, k>> \notin excused'
             => cache'[p][k] = cache[p][k] /\ <<p, k>> \notin excused,
         \A q \in Requests : at[q] = "settling" => at'[q] = "settling" /\ known'[q] = known[q]
  PROVE  CachesAgree'
<1> SUFFICES ASSUME NEW p \in Procs, NEW k \in Settings,
                    cache'[p][k] # Absent, <<p, k>> \notin excused'
             PROVE  \/ Agrees(k, cache[p][k])'
                    \/ \E q \in Requests : at'[q] = "settling" /\ P(q)' = p /\ Key(q)' = k
  BY DEF CachesAgree
<1>1. \/ Agrees(k, cache[p][k])
      \/ \E q \in Requests : at[q] = "settling" /\ P(q) = p /\ Key(q) = k
  BY DEF CachesAgree
<1> QED  BY <1>1, EffectiveStays DEF Agrees, P, Key

-----------------------------------------------------------------------------
(* Steps that read and write no setting. *)

\* A request that has read nothing and settles nothing moves on; the count that its
\* process keeps of the evaluations may rise.
Quiet(r) ==
  /\ fetched[r] = Absent /\ at[r] # "settling"
  /\ UNCHANGED <<stored, fetched, overtaken, excused, asked>>
  /\ \/ UNCHANGED cache
     \/ P(r) \in Procs /\ \E room \in {"left", "over"} :
                            cache' = [cache EXCEPT ![P(r)]["room"] = room]

LEMMA QuietStep ==
  ASSUME CopiesInv, NEW r \in Requests, NEW s \in Stages \ {"settling"}, NEW k,
         Move(r, s, k), Quiet(r), slipped' \in BOOLEAN, KnownInv(r)'
  PROVE  CopiesInv'
<1> USE DEF CopiesInv
<1>1. /\ at'[r] = s /\ known'[r] = k
      /\ \A q \in Requests : q # r => at'[q] = at[q] /\ known'[q] = known[q]
      /\ at' \in [Requests -> Stages] /\ known' = [q \in Requests |-> known'[q]]
  BY OthersStand
<1>2. /\ cache' = [p \in Procs |-> [x \in Settings \cup {"room"} |-> cache'[p][x]]]
      /\ \A p \in Procs, x \in Settings : cache'[p][x] = cache[p][x]
      /\ \A p \in Procs : cache'[p]["room"] \in {cache[p]["room"], "left", "over"}
  <2>1. CASE UNCHANGED cache  BY <2>1 DEF RowTypes
  <2>2. CASE P(r) \in Procs /\ \E room \in {"left", "over"} :
                                  cache' = [cache EXCEPT ![P(r)]["room"] = room]
    <3>1. PICK room \in {"left", "over"} : cache' = [cache EXCEPT ![P(r)]["room"] = room]
      BY <2>2
    <3>2. \A p \in Procs, x \in Settings \cup {"room"} :
            cache'[p][x] = IF p = P(r) /\ x = "room" THEN room ELSE cache[p][x]
      BY <2>2, <3>1 DEF RowTypes
    <3>3. cache' = [p \in Procs |-> [x \in Settings \cup {"room"} |-> cache'[p][x]]]
      <4>1. cache' = [p \in Procs |-> cache'[p]]  BY <3>1 DEF RowTypes
      <4>2. \A p \in Procs : cache'[p] = [x \in Settings \cup {"room"} |-> cache'[p][x]]
        BY ZenonT(60), <2>2, <3>1 DEF RowTypes
      <4> QED  BY <4>1, <4>2
    <3> QED  BY <3>2, <3>3 DEF Settings
  <2> QED  BY <2>1, <2>2 DEF Quiet
<1>3. RowTypes'
  <2>1. \A p \in Procs, x \in Settings \cup {"room"} : cache'[p][x] \in CopiesOf(x) \cup {Absent}
    BY <1>2 DEF RowTypes, CopiesOf, Settings
  <2> QED  BY <1>1, <1>2, <2>1 DEF RowTypes, Quiet
<1>4. r \notin overtaken  BY DEF OvertakenInv, Pending, Quiet
<1>5. KnownInv(r)' /\ FetchedInv(r)' /\ OvertakenInv(r)' /\ SettlingInv(r)'
  BY <1>1, <1>4 DEF FetchedInv, OvertakenInv, SettlingInv, Quiet
<1>6. \A q \in Requests : q # r =>
        KnownInv(q)' /\ FetchedInv(q)' /\ OvertakenInv(q)' /\ SettlingInv(q)'
  BY <1>1, OthersKeep DEF Quiet
<1>7. CachesAgree'  BY <1>1, <1>2, CopiesKeep DEF Quiet
<1> QED  BY <1>3, <1>5, <1>6, <1>7

-----------------------------------------------------------------------------
(* Lookups. *)

\* A lookup that uses a copy, or what it read, has a copy that is there; as long as nobody
\* overtook it and the copy is not one that a write did not reach, it is what is stored.
LEMMA UsesWhatIsStored ==
  ASSUME CopiesInv, NEW r \in Requests, Looking(r), NEW v, [value |-> v] # Absent,
         Uses(r, Key(r), v)
  PROVE  /\ v \in CopiesOf(Key(r))
         /\ Key(r) # "room" /\ r \notin overtaken /\ <<P(r), Key(r)>> \notin excused
            /\ ~(\E q \in Requests : at[q] = "settling" /\ P(q) = P(r) /\ Key(q) = Key(r))
              => Agrees(Key(r), v)
<1> USE DEF CopiesInv
<1>1. P(r) \in Procs /\ Key(r) \in Settings \cup {"room"}  BY KnowsItsCopy
<1>2. CASE fetched[r] = Absent /\ v = Copy(r, Key(r))
  <2>1. v \in CopiesOf(Key(r))  BY <1>1, <1>2 DEF Uses, Copy, RowTypes
  <2>2. ASSUME Key(r) \in Settings, <<P(r), Key(r)>> \notin excused,
               ~(\E q \in Requests : at[q] = "settling" /\ P(q) = P(r) /\ Key(q) = Key(r))
        PROVE  Agrees(Key(r), v)
    BY <1>1, <1>2, <2>2 DEF CachesAgree, Uses, Copy
  <2> QED  BY <1>1, <2>1, <2>2
<1>3. CASE fetched[r] = [value |-> v]
  <2>1. fetched[r] # Absent /\ fetched[r].value = v /\ v # Absent  BY <1>3 DEF Uses
  <2> QED  BY <1>1, <2>1, EffectiveFacts DEF Agrees, FetchedInv
<1> QED  BY <1>2, <1>3 DEF Uses

\* A function with a value replaced has the domain it had.
LEMMA StillAFunction ==
  ASSUME NEW S, NEW f, f = [x \in S |-> f[x]], NEW k, NEW v, NEW g, g = [f EXCEPT ![k] = v]
  PROVE  g = [x \in S |-> g[x]]
OBVIOUS

\* One copy is replaced.
LEMMA OneCopy ==
  ASSUME RowTypes, NEW p \in Procs, NEW k \in Settings \cup {"room"},
         NEW v \in CopiesOf(k) \cup {Absent}, cache' = [cache EXCEPT ![p][k] = v]
  PROVE  /\ \A q \in Procs, x \in Settings \cup {"room"} :
              cache'[q][x] = IF q = p /\ x = k THEN v ELSE cache[q][x]
         /\ cache' = [q \in Procs |-> [x \in Settings \cup {"room"} |-> cache'[q][x]]]
         /\ \A q \in Procs, x \in Settings \cup {"room"} :
              cache'[q][x] \in CopiesOf(x) \cup {Absent}
<1>1. \A q \in Procs, x \in Settings \cup {"room"} :
        cache'[q][x] = IF q = p /\ x = k THEN v ELSE cache[q][x]
  BY DEF RowTypes
<1>2. cache' = [q \in Procs |-> cache'[q]]  BY DEF RowTypes
<1>3. \A q \in Procs : cache'[q] = [x \in Settings \cup {"room"} |-> cache'[q][x]]
  <2> TAKE q \in Procs
  <2>1. cache[q] = [x \in Settings \cup {"room"} |-> cache[q][x]]  BY DEF RowTypes
  <2>2. cache'[q] = IF q = p THEN [cache[q] EXCEPT ![k] = v] ELSE cache[q]  BY DEF RowTypes
  <2>3. CASE q = p
    <3>1. cache'[q] = [cache[q] EXCEPT ![k] = v]  BY <2>2, <2>3
    <3> HIDE DEF Settings
    <3> QED  BY <2>1, <3>1, StillAFunction
  <2>4. CASE q # p  BY <2>1, <2>2, <2>4
  <2> QED  BY <2>3, <2>4
<1>4. \A q \in Procs, x \in Settings \cup {"room"} : cache'[q][x] \in CopiesOf(x) \cup {Absent}
  <2>1. \A q \in Procs, x \in Settings \cup {"room"} : cache[q][x] \in CopiesOf(x) \cup {Absent}
    BY DEF RowTypes
  <2> QED  BY <1>1, <2>1
<1> QED  BY <1>1, <1>2, <1>3, <1>4

\* A lookup is over: it used the copy that is there, or stored what it had read.
LEMMA LookupStep ==
  ASSUME CopiesInv, NEW r \in Requests, Looking(r), NEW v, [value |-> v] # Absent,
         Uses(r, Key(r), v), NEW s \in Stages \ {"settling"}, NEW k, Move(r, s, k),
         slipped' \in BOOLEAN, KnownInv(r)'
  PROVE  CopiesInv'
<1> USE DEF CopiesInv
<1>1. P(r) \in Procs /\ Key(r) \in Settings \cup {"room"} /\ at[r] # "settling"
  BY KnowsItsCopy DEF Looking
<1>2. v \in CopiesOf(Key(r))  BY UsesWhatIsStored
<1>3. CASE fetched[r] = Absent /\ UNCHANGED <<cache, fetched, overtaken, excused>>
  <2>1. Quiet(r)  BY <1>1, <1>3 DEF Quiet, Uses
  <2> QED  BY <2>1, QuietStep
<1>4. CASE /\ fetched[r] = [value |-> v]
           /\ cache' = [cache EXCEPT ![P(r)][Key(r)] = v]
           /\ fetched' = [fetched EXCEPT ![r] = Absent]
           /\ overtaken' = overtaken \ {r}
           /\ excused' = IF r \in overtaken THEN excused \cup {<<P(r), Key(r)>>}
                         ELSE excused \ {<<P(r), Key(r)>>}
  <2>0. UNCHANGED <<stored, asked>> /\ v # Absent  BY DEF Uses
  <2>1. /\ at'[r] = s /\ known'[r] = k
        /\ \A q \in Requests : q # r => at'[q] = at[q] /\ known'[q] = known[q]
        /\ at' \in [Requests -> Stages] /\ known' = [q \in Requests |-> known'[q]]
    BY OthersStand
  <2>2. /\ fetched'[r] = Absent /\ \A q \in Requests : q # r => fetched'[q] = fetched[q]
        /\ fetched' = [q \in Requests |-> fetched'[q]]
    BY <1>4 DEF RowTypes
  <2>3. /\ \A q \in Procs, x \in Settings \cup {"room"} :
              cache'[q][x] = IF q = P(r) /\ x = Key(r) THEN v ELSE cache[q][x]
        /\ cache' = [q \in Procs |-> [x \in Settings \cup {"room"} |-> cache'[q][x]]]
        /\ \A q \in Procs, x \in Settings \cup {"room"} :
              cache'[q][x] \in CopiesOf(x) \cup {Absent}
    BY <1>1, <1>2, <1>4, OneCopy
  <2>4. excused' \in SUBSET (Procs \X Settings)
    BY <1>1, <1>4 DEF RowTypes, OvertakenInv
  <2>5. RowTypes'  BY <1>4, <2>0, <2>1, <2>2, <2>3, <2>4 DEF RowTypes
  <2>6. FetchedInv(r)' /\ OvertakenInv(r)' /\ SettlingInv(r)'
    BY <1>4, <2>1, <2>2 DEF FetchedInv, OvertakenInv, SettlingInv
  <2>7. \A q \in Requests : q # r =>
          KnownInv(q)' /\ FetchedInv(q)' /\ OvertakenInv(q)' /\ SettlingInv(q)'
    BY <1>4, <2>0, <2>1, <2>2, OthersKeep
  <2>8. Key(r) \in Settings /\ r \notin overtaken => Agrees(Key(r), v)
    BY <1>2, <1>4, <2>0, EffectiveFacts DEF Agrees, FetchedInv, Settings
  <2>9. CachesAgree'
    <3> SUFFICES ASSUME NEW p \in Procs, NEW x \in Settings,
                        cache'[p][x] # Absent, <<p, x>> \notin excused'
                 PROVE  \/ Agrees(x, cache[p][x])'
                        \/ \E q \in Requests : at'[q] = "settling" /\ P(q)' = p /\ Key(q)' = x
      BY DEF CachesAgree
    <3>1. CASE p = P(r) /\ x = Key(r)
      <4>1. r \notin overtaken  BY <1>4, <3>1
      <4> QED  BY <2>0, <2>3, <2>8, <3>1, <4>1, EffectiveStays DEF Agrees
    <3>2. CASE ~(p = P(r) /\ x = Key(r))
      <4>1. cache'[p][x] = cache[p][x] /\ <<p, x>> \notin excused  BY <1>4, <2>3, <3>2
      <4>2. \/ Agrees(x, cache[p][x])
            \/ \E q \in Requests : at[q] = "settling" /\ P(q) = p /\ Key(q) = x
        BY <4>1 DEF CachesAgree
      <4> QED  BY <1>1, <2>0, <2>1, <4>1, <4>2, EffectiveStays DEF Agrees, P, Key
    <3> QED  BY <3>1, <3>2
  <2> QED  BY <2>5, <2>6, <2>7, <2>9
<1> QED  BY <1>3, <1>4 DEF Uses

\* A lookup has read something, which is what it would read now unless it is marked as
\* overtaken.
LEMMA ReadingStep ==
  ASSUME CopiesInv, NEW r \in Requests, Looking(r), NEW w, fetched' = [fetched EXCEPT ![r] = w],
         UNCHANGED <<stored, cache, at, known, excused, asked>>, slipped' \in BOOLEAN,
         \/ overtaken' = overtaken
         \/ overtaken' = overtaken \cup {r} /\ Key(r) \in Settings,
         w # Absent, w = [value |-> w.value], w.value \in CopiesOf(Key(r)) \cup {Absent},
         w.value = Absent => Key(r) = "named" /\ ~Row(stored.named),
         w.value # Absent /\ Key(r) # "room"
           => r \in overtaken' \/ Effective(Key(r)) = w.value
  PROVE  CopiesInv'
<1> USE DEF CopiesInv
<1>1. /\ fetched'[r] = w /\ \A q \in Requests : q # r => fetched'[q] = fetched[q]
      /\ fetched' = [q \in Requests |-> fetched'[q]]
  BY DEF RowTypes
<1>2. RowTypes'  BY ZenonT(40), <1>1 DEF RowTypes
<1>3. KnownInv(r)'  BY DEF KnownInv
<1>4. FetchedInv(r)'
  <2>1. Effective(Key(r))' = Effective(Key(r)) /\ Key(r)' = Key(r) /\ Looking(r)'
    BY EffectiveStays DEF Key, Looking
  <2> QED  BY <1>1, <2>1 DEF FetchedInv
<1>5. OvertakenInv(r)'
  <2>1. r \in overtaken => Key(r) \in Settings  BY DEF OvertakenInv
  <2> QED  BY <1>1, <2>1 DEF OvertakenInv, Pending, Key
<1>6. SettlingInv(r)'  BY DEF SettlingInv, Looking
<1>7. \A q \in Requests : q # r =>
        KnownInv(q)' /\ FetchedInv(q)' /\ OvertakenInv(q)' /\ SettlingInv(q)'
  BY <1>1, OthersKeep
<1>8. CachesAgree'  BY CopiesKeep
<1> QED  BY <1>2, <1>3, <1>4, <1>5, <1>6, <1>7, <1>8

-----------------------------------------------------------------------------
(* Writes. *)

\* A request that stands at "done" knows nothing.
LEMMA LeavingKnows ==
  ASSUME NEW r \in Requests, at'[r] = "done", known'[r] = Absent PROVE KnownInv(r)'
BY DEF KnownInv, Idling, Served, Metered, Published

\* The rows are rewritten: whoever had read or written a setting among the touched ones
\* is overtaken, and each of its copies is excused or about to be settled by the writer.
LEMMA RewriteStep ==
  ASSUME CopiesInv, NEW r \in Requests, NEW s \in Stages, NEW k, Move(r, s, k),
         at[r] \in {"write", "adding", "patching"}, NEW touched \in SUBSET Settings,
         stored' \in StoredRows, UNCHANGED <<cache, fetched, asked>>, slipped' \in BOOLEAN,
         overtaken' = overtaken \cup {q \in Requests \ {r} : Pending(q) /\ Key(q) \in touched},
         excused' \in SUBSET (Procs \X Settings), excused \subseteq excused',
         \A p \in Procs, x \in touched : cache[p][x] # Absent =>
           \/ <<p, x>> \in excused'
           \/ at'[r] = "settling" /\ P(r)' = p /\ Key(r)' = x,
         \A x \in Settings \ touched : Effective(x)' = Effective(x) /\ stored'[x] = stored[x],
         "named" \notin touched => stored'.named = stored.named,
         KnownInv(r)', SettlingInv(r)'
  PROVE  CopiesInv'
<1> USE DEF CopiesInv
<1>1. /\ at'[r] = s /\ known'[r] = k
      /\ \A q \in Requests : q # r => at'[q] = at[q] /\ known'[q] = known[q]
      /\ at' \in [Requests -> Stages] /\ known' = [q \in Requests |-> known'[q]]
  BY OthersStand
<1>2. RowTypes'  BY <1>1 DEF RowTypes
<1>3. fetched[r] = Absent /\ r \notin overtaken
  BY DEF FetchedInv, OvertakenInv, Looking, Pending
<1>4. FetchedInv(r)' /\ OvertakenInv(r)'  BY <1>3 DEF FetchedInv, OvertakenInv
<1>5. ASSUME NEW q \in Requests, q # r
      PROVE  KnownInv(q)' /\ FetchedInv(q)' /\ OvertakenInv(q)' /\ SettlingInv(q)'
  <2>1. at'[q] = at[q] /\ known'[q] = known[q] /\ fetched'[q] = fetched[q]  BY <1>1, <1>5
  <2>2. q \in overtaken' <=> q \in overtaken \/ (Pending(q) /\ Key(q) \in touched)  BY <1>5
  <2>3. Key(q)' = Key(q) /\ (Looking(q)' <=> Looking(q)) /\ (Pending(q)' <=> Pending(q))
    BY <2>1 DEF Key, Looking, Pending
  <2>4. KnownInv(q)'  BY <2>1 DEF KnownInv
  <2>5. FetchedInv(q)'
    <3> SUFFICES ASSUME fetched[q] # Absent PROVE FetchedInv(q)'  BY <2>1 DEF FetchedInv
    <3>1. Looking(q) /\ FetchedInv(q)  BY DEF FetchedInv
    <3>2. Key(q) \in Settings \cup {"room"}  BY <3>1, KnowsItsCopy
    <3>3. CASE q \in overtaken'  BY <2>1, <2>3, <3>1, <3>3 DEF FetchedInv
    <3>4. CASE q \notin overtaken'
      <4>1. q \notin overtaken /\ Key(q) \notin touched  BY <2>2, <3>4 DEF Pending
      <4>2. Key(q) # "room" => Effective(Key(q))' = Effective(Key(q))
        BY <2>3, <3>2, <4>1
      <4> QED  BY <2>1, <2>3, <3>1, <4>1, <4>2 DEF FetchedInv
    <3> QED  BY <3>3, <3>4
  <2>6. OvertakenInv(q)'  BY <2>2, <2>3 DEF OvertakenInv
  <2>7. SettlingInv(q)'
    <3> SUFFICES ASSUME at[q] = "settling", q \notin overtaken' PROVE SettlingInv(q)'
      BY <2>1 DEF SettlingInv
    <3>1. q \notin overtaken /\ Key(q) \notin touched  BY <2>2 DEF Pending
    <3>2. /\ Effective(Key(q))' = Effective(Key(q))
          /\ stored'[Key(q)] = stored[Key(q)]
      BY <2>3, <3>1, KnowsItsCopy
    <3> QED  BY <2>1, <2>3, <3>1, <3>2 DEF SettlingInv, Agrees
  <2> QED  BY <2>4, <2>5, <2>6, <2>7
<1>6. CachesAgree'
  <2> SUFFICES ASSUME NEW p \in Procs, NEW x \in Settings,
                      cache[p][x] # Absent, <<p, x>> \notin excused'
               PROVE  \/ Agrees(x, cache[p][x])'
                      \/ \E q \in Requests : at'[q] = "settling" /\ P(q)' = p /\ Key(q)' = x
    BY DEF CachesAgree
  <2>1. CASE x \in touched  BY <2>1
  <2>2. CASE x \notin touched
    <3>1. <<p, x>> \notin excused  OBVIOUS
    <3>2. \/ Agrees(x, cache[p][x])
          \/ \E q \in Requests : at[q] = "settling" /\ P(q) = p /\ Key(q) = x
      BY <3>1 DEF CachesAgree
    <3>3. CASE Agrees(x, cache[p][x])  BY <2>2, <3>3 DEF Agrees
    <3>4. CASE \E q \in Requests : at[q] = "settling" /\ P(q) = p /\ Key(q) = x
      <4>1. PICK q \in Requests : at[q] = "settling" /\ P(q) = p /\ Key(q) = x  BY <3>4
      <4>2. at'[q] = "settling" /\ P(q)' = p /\ Key(q)' = x  BY <1>1, <4>1 DEF P, Key
      <4> QED  BY <4>2
    <3> QED  BY <3>2, <3>3, <3>4
  <2> QED  BY <2>1, <2>2
<1> QED  BY <1>2, <1>4, <1>5, <1>6

\* A write of one of the settings it touches.
LEMMA WriteStep ==
  ASSUME CopiesInv, NEW r \in Requests, at[r] \in {"write", "adding", "patching"},
         NEW k \in KnownWrites, k.value # Absent => k.value \in CopiesOf(k.key),
         NEW new \in StoredRows, NEW touched \in SUBSET Settings, Write(r, k, new, touched),
         \A x \in Settings \ touched : Effective(x)' = Effective(x) /\ stored'[x] = stored[x],
         k.value # Absent => Agrees(k.key, k.value)',
         "named" \notin touched => new.named = stored.named, slipped' \in BOOLEAN
  PROVE  CopiesInv'
<1>1. RowTypes  BY DEF CopiesInv
<1>2. Move(r, "settling", k) /\ stored' = new /\ UNCHANGED <<cache, fetched, asked>>
  BY DEF Write
<1>3. at'[r] = "settling" /\ known'[r] = k  BY <1>1, <1>2, OthersStand
<1>4. KnownInv(r)'  BY <1>3 DEF KnownInv, Idling, Served, Metered, Published
<1>5. SettlingInv(r)'  BY <1>3 DEF SettlingInv, Key
<1>6. P(r)' = k.proc /\ Key(r)' = k.key  BY <1>3 DEF P, Key
<1>7. /\ excused' \in SUBSET (Procs \X Settings) /\ excused \subseteq excused'
      /\ \A p \in Procs, x \in touched :
           cache[p][x] # Absent /\ <<p, x>> # <<k.proc, k.key>> => <<p, x>> \in excused'
  BY <1>1 DEF Write, RowTypes
<1>8. "settling" \in Stages  BY DEF Stages
<1> QED  BY <1>2, <1>3, <1>4, <1>5, <1>6, <1>7, <1>8, RewriteStep DEF Write

\* The tier changes without the quotas being told.
LEMMA RetypeStep ==
  ASSUME CopiesInv, NEW r \in Requests, RetypeOwner(r), slipped' \in BOOLEAN
  PROVE  CopiesInv'
<1>1. RowTypes /\ FetchedInv(r) /\ OvertakenInv(r)  BY DEF CopiesInv
<1>2. PICK tier \in Tiers : ReTier(tier)  BY DEF RetypeOwner
<1>3. at[r] = "write" /\ Move(r, "done", Absent)  BY DEF RetypeOwner, Leave
<1>4. at'[r] = "done" /\ known'[r] = Absent  BY <1>1, <1>3, OthersStand
<1>5. ~Pending(r)  BY <1>1, <1>3 DEF FetchedInv, Looking, Pending
<1>6. stored' = [stored EXCEPT !.tier = tier] /\ UNCHANGED <<cache, fetched, asked>>
  BY <1>2 DEF ReTier
<1>7. stored' \in StoredRows /\ stored'.named = stored.named  BY <1>1, <1>6 DEF StoredRows, RowTypes
<1>8. overtaken' = overtaken \cup {q \in Requests \ {r} : Pending(q) /\ Key(q) \in {"tier"}}
  BY <1>2, <1>5 DEF ReTier
<1>9. /\ excused' \in SUBSET (Procs \X Settings) /\ excused \subseteq excused'
      /\ \A p \in Procs, x \in {"tier"} : cache[p][x] # Absent => <<p, x>> \in excused'
  BY <1>1, <1>2 DEF ReTier, RowTypes, Settings
<1>10. \A x \in Settings \ {"tier"} : Effective(x)' = Effective(x) /\ stored'[x] = stored[x]
  <2>1. /\ stored'.default = stored.default /\ stored'.named = stored.named
        /\ stored'.alerts = stored.alerts /\ stored'.rules = stored.rules
    BY <1>1, <1>6 DEF RowTypes, StoredRows
  <2> QED  BY <2>1 DEF Effective, ActiveRules, Settings
<1>11. KnownInv(r)'  BY <1>4, LeavingKnows
<1>12. SettlingInv(r)'  BY <1>4 DEF SettlingInv
<1>13. "done" \in Stages /\ {"tier"} \in SUBSET Settings  BY DEF Stages, Idling, Settings
<1> HIDE DEF Settings
<1> QED  BY <1>3, <1>6, <1>7, <1>8, <1>9, <1>10, <1>11, <1>12, <1>13, RewriteStep

\* What was written is put where the copy was.
LEMMA WriteThroughStep ==
  ASSUME CopiesInv, NEW r \in Requests, WriteThrough(r), slipped' \in BOOLEAN
  PROVE  CopiesInv'
<1> USE DEF CopiesInv
<1> DEFINE v == known[r].value
<1>1. /\ at[r] = "settling" /\ v # Absent /\ Move(r, "done", Absent)
      /\ cache' = [cache EXCEPT ![P(r)][Key(r)] = v]
      /\ overtaken' = overtaken \ {r} /\ UNCHANGED <<stored, fetched, asked>>
      /\ excused' = IF r \in overtaken THEN excused \cup {<<P(r), Key(r)>>}
                    ELSE excused \ {<<P(r), Key(r)>>}
  BY DEF WriteThrough, Leave
<1>2. P(r) \in Procs /\ Key(r) \in Settings  BY <1>1, KnowsItsCopy
<1>3. v \in CopiesOf(Key(r))  BY <1>1 DEF KnownInv, Key
<1>4. r \notin overtaken => Agrees(Key(r), v)  BY <1>1 DEF SettlingInv
<1> HIDE DEF v
<1>5. /\ at'[r] = "done" /\ known'[r] = Absent
      /\ \A q \in Requests : q # r => at'[q] = at[q] /\ known'[q] = known[q]
      /\ at' \in [Requests -> Stages] /\ known' = [q \in Requests |-> known'[q]]
  <2>1. "done" \in Stages  BY DEF Stages, Idling
  <2> QED  BY <1>1, <2>1, OthersStand
<1>6. /\ \A q \in Procs, x \in Settings \cup {"room"} :
            cache'[q][x] = IF q = P(r) /\ x = Key(r) THEN v ELSE cache[q][x]
      /\ cache' = [q \in Procs |-> [x \in Settings \cup {"room"} |-> cache'[q][x]]]
      /\ \A q \in Procs, x \in Settings \cup {"room"} : cache'[q][x] \in CopiesOf(x) \cup {Absent}
  <2>1. v \in CopiesOf(Key(r)) \cup {Absent} /\ Key(r) \in Settings \cup {"room"}  BY <1>2, <1>3
  <2> HIDE DEF Settings
  <2> QED  BY <1>1, <1>2, <2>1, OneCopy
<1>7. RowTypes'
  <2>1. excused' \in SUBSET (Procs \X Settings)  BY <1>1, <1>2 DEF RowTypes
  <2> QED  BY <1>1, <1>5, <1>6, <2>1 DEF RowTypes
<1>8. KnownInv(r)'  BY <1>5, LeavingKnows
<1>9. FetchedInv(r)' /\ OvertakenInv(r)' /\ SettlingInv(r)'
  BY <1>1, <1>5 DEF FetchedInv, OvertakenInv, SettlingInv, Looking
<1>10. \A q \in Requests : q # r =>
         KnownInv(q)' /\ FetchedInv(q)' /\ OvertakenInv(q)' /\ SettlingInv(q)'
  BY <1>1, <1>5, OthersKeep
<1>11. CachesAgree'
  <2> SUFFICES ASSUME NEW p \in Procs, NEW x \in Settings,
                      cache'[p][x] # Absent, <<p, x>> \notin excused'
               PROVE  \/ Agrees(x, cache[p][x])'
                      \/ \E q \in Requests : at'[q] = "settling" /\ P(q)' = p /\ Key(q)' = x
    BY DEF CachesAgree
  <2>1. CASE p = P(r) /\ x = Key(r)
    <3>1. r \notin overtaken  BY <1>1, <2>1
    <3> QED  BY <1>1, <1>4, <1>6, <2>1, <3>1, EffectiveStays DEF Agrees
  <2>2. CASE ~(p = P(r) /\ x = Key(r))
    <3>1. cache'[p][x] = cache[p][x] /\ <<p, x>> \notin excused  BY <1>1, <1>6, <2>2
    <3>2. \/ Agrees(x, cache[p][x])
          \/ \E q \in Requests : at[q] = "settling" /\ P(q) = p /\ Key(q) = x
      BY <3>1 DEF CachesAgree
    <3>3. CASE Agrees(x, cache[p][x])  BY <1>1, <3>1, <3>3, EffectiveStays DEF Agrees
    <3>4. CASE \E q \in Requests : at[q] = "settling" /\ P(q) = p /\ Key(q) = x
      <4>1. PICK q \in Requests : at[q] = "settling" /\ P(q) = p /\ Key(q) = x  BY <3>4
      <4>2. at'[q] = "settling" /\ P(q)' = p /\ Key(q)' = x  BY <1>5, <2>2, <4>1 DEF P, Key
      <4> QED  BY <4>2
    <3> QED  BY <3>2, <3>3, <3>4
  <2> QED  BY <2>1, <2>2
<1> QED  BY <1>7, <1>8, <1>9, <1>10, <1>11

\* What was written is dropped from where the copy was, and with the tier the room left.
LEMMA InvalidateStep ==
  ASSUME CopiesInv, NEW r \in Requests, Invalidate(r), slipped' \in BOOLEAN
  PROVE  CopiesInv'
<1> USE DEF CopiesInv
<1>1. /\ at[r] = "settling" /\ Move(r, "done", Absent)
      /\ cache' = [cache EXCEPT ![P(r)] =
                     [k \in DOMAIN cache[P(r)] |->
                        IF k \in Dropped(Key(r)) THEN Absent ELSE cache[P(r)][k]]]
      /\ overtaken' = overtaken \ {r} /\ UNCHANGED <<stored, fetched, asked>>
      /\ excused' = excused \ {<<P(r), Key(r)>>}
  BY DEF Invalidate, Leave
<1>2. P(r) \in Procs /\ Key(r) \in Settings  BY <1>1, KnowsItsCopy
<1>3. /\ at'[r] = "done" /\ known'[r] = Absent
      /\ \A q \in Requests : q # r => at'[q] = at[q] /\ known'[q] = known[q]
      /\ at' \in [Requests -> Stages] /\ known' = [q \in Requests |-> known'[q]]
  <2>1. "done" \in Stages  BY DEF Stages, Idling
  <2> QED  BY <1>1, <2>1, OthersStand
<1>4. Key(r) \in Dropped(Key(r))  BY DEF Dropped
<1>5. \A p \in Procs : cache'[p] = [x \in Settings \cup {"room"} |->
                         IF p = P(r) /\ x \in Dropped(Key(r)) THEN Absent ELSE cache[p][x]]
  <2> TAKE p \in Procs
  <2>1. cache[p] = [x \in Settings \cup {"room"} |-> cache[p][x]]  BY DEF RowTypes
  <2>2. CASE p = P(r)
    <3>1. cache'[p] = [k \in DOMAIN cache[p] |-> IF k \in Dropped(Key(r)) THEN Absent ELSE cache[p][k]]
      BY <1>1, <2>2 DEF RowTypes
    <3>2. DOMAIN cache[p] = Settings \cup {"room"}  BY <2>1
    <3> QED  BY <2>2, <3>1, <3>2
  <2>3. CASE p # P(r)
    <3>1. cache'[p] = cache[p]  BY <1>1, <2>3 DEF RowTypes
    <3> QED  BY <2>1, <2>3, <3>1
  <2> QED  BY <2>2, <2>3
<1>6. RowTypes'
  <2>1. \A p \in Procs, x \in Settings \cup {"room"} : cache'[p][x] \in CopiesOf(x) \cup {Absent}
    <3>1. \A p \in Procs, x \in Settings \cup {"room"} : cache[p][x] \in CopiesOf(x) \cup {Absent}
      BY DEF RowTypes
    <3>2. \A p \in Procs, x \in Settings \cup {"room"} : cache'[p][x] \in {cache[p][x], Absent}
      BY ZenonT(60), <1>5
    <3> QED  BY <3>1, <3>2
  <2>2. cache' = [p \in Procs |-> [x \in Settings \cup {"room"} |-> cache'[p][x]]]
    <3>1. cache' = [p \in Procs |-> cache'[p]]  BY <1>1 DEF RowTypes
    <3>2. \A p \in Procs : cache'[p] = [x \in Settings \cup {"room"} |-> cache'[p][x]]  BY <1>5
    <3> QED  BY <3>1, <3>2
  <2>3. excused' \in SUBSET (Procs \X Settings)  BY <1>1 DEF RowTypes
  <2> QED  BY <1>1, <1>3, <2>1, <2>2, <2>3 DEF RowTypes
<1>7. KnownInv(r)'  BY <1>3, LeavingKnows
<1>8. FetchedInv(r)' /\ OvertakenInv(r)' /\ SettlingInv(r)'
  BY <1>1, <1>3 DEF FetchedInv, OvertakenInv, SettlingInv, Looking
<1>9. \A q \in Requests : q # r =>
        KnownInv(q)' /\ FetchedInv(q)' /\ OvertakenInv(q)' /\ SettlingInv(q)'
  BY <1>1, <1>3, OthersKeep
<1>10. CachesAgree'
  <2> SUFFICES ASSUME NEW p \in Procs, NEW x \in Settings,
                      cache'[p][x] # Absent, <<p, x>> \notin excused'
               PROVE  \/ Agrees(x, cache[p][x])'
                      \/ \E q \in Requests : at'[q] = "settling" /\ P(q)' = p /\ Key(q)' = x
    BY DEF CachesAgree
  <2>1. ~(p = P(r) /\ x = Key(r)) /\ cache'[p][x] = cache[p][x]  BY ZenonT(40), <1>4, <1>5
  <2>2. <<p, x>> \notin excused  BY <1>1, <2>1
  <2>3. \/ Agrees(x, cache[p][x])
        \/ \E q \in Requests : at[q] = "settling" /\ P(q) = p /\ Key(q) = x
    BY <2>1, <2>2 DEF CachesAgree
  <2>4. CASE Agrees(x, cache[p][x])  BY <1>1, <2>1, <2>4, EffectiveStays DEF Agrees
  <2>5. CASE \E q \in Requests : at[q] = "settling" /\ P(q) = p /\ Key(q) = x
    <3>1. PICK q \in Requests : at[q] = "settling" /\ P(q) = p /\ Key(q) = x  BY <2>5
    <3>2. at'[q] = "settling" /\ P(q)' = p /\ Key(q)' = x  BY <1>3, <2>1, <3>1 DEF P, Key
    <3> QED  BY <3>2
  <2> QED  BY <2>3, <2>4, <2>5
<1> QED  BY <1>6, <1>7, <1>8, <1>9, <1>10

-----------------------------------------------------------------------------
(* Copies that are lost. *)

\* A copy gets too old.
LEMMA ExpireStep ==
  ASSUME CopiesInv, Expire, slipped' \in BOOLEAN
  PROVE  CopiesInv'
<1> USE DEF CopiesInv
<1>1. PICK p \in Procs, k \in Settings \cup {"room"} :
        cache' = [cache EXCEPT ![p][k] = Absent] /\ excused' = excused \ {<<p, k>>}
  BY DEF Expire
<1>2. UNCHANGED <<stored, at, known, fetched, overtaken, asked>>  BY DEF Expire
<1>3. /\ \A q \in Procs, x \in Settings \cup {"room"} :
            cache'[q][x] = IF q = p /\ x = k THEN Absent ELSE cache[q][x]
      /\ cache' = [q \in Procs |-> [x \in Settings \cup {"room"} |-> cache'[q][x]]]
      /\ \A q \in Procs, x \in Settings \cup {"room"} : cache'[q][x] \in CopiesOf(x) \cup {Absent}
  BY <1>1, OneCopy
<1>4. RowTypes'
  <2>1. excused' \in SUBSET (Procs \X Settings)  BY <1>1 DEF RowTypes
  <2> QED  BY <1>2, <1>3, <2>1 DEF RowTypes
<1>5. \A q \in Requests : KnownInv(q)' /\ FetchedInv(q)' /\ OvertakenInv(q)' /\ SettlingInv(q)'
  BY <1>2, OthersKeep
<1>6. \A q \in Procs, x \in Settings :
        cache'[q][x] # Absent /\ <<q, x>> \notin excused'
          => cache'[q][x] = cache[q][x] /\ <<q, x>> \notin excused
  BY <1>1, <1>3
<1>7. CachesAgree'  BY <1>2, <1>6, CopiesKeep
<1> QED  BY <1>4, <1>5, <1>7

\* A process starts anew: its copies and its requests are gone.
LEMMA RestartStep ==
  ASSUME CopiesInv, Restart, slipped' \in BOOLEAN
  PROVE  CopiesInv'
<1> USE DEF CopiesInv
<1>1. PICK p \in Procs :
        /\ cache' = [cache EXCEPT ![p] = [k \in DOMAIN cache[p] |-> Absent]]
        /\ at' = [r \in Requests |-> IF r \in Serves(p) THEN "done" ELSE at[r]]
        /\ known' = [r \in Requests |-> IF r \in Serves(p) THEN Absent ELSE known[r]]
        /\ fetched' = [r \in Requests |-> IF r \in Serves(p) THEN Absent ELSE fetched[r]]
        /\ overtaken' = overtaken \ Serves(p)
        /\ excused' = {x \in excused : x[1] # p}
  BY DEF Restart
<1>2. UNCHANGED <<stored, asked>>  BY DEF Restart
<1>3. \A q \in Procs : cache'[q] = [x \in Settings \cup {"room"} |-> IF q = p THEN Absent ELSE cache[q][x]]
  <2> TAKE q \in Procs
  <2>1. cache[q] = [x \in Settings \cup {"room"} |-> cache[q][x]]  BY DEF RowTypes
  <2>2. DOMAIN cache[q] = Settings \cup {"room"}  BY <2>1
  <2>3. cache'[q] = IF q = p THEN [k \in DOMAIN cache[q] |-> Absent] ELSE cache[q]
    BY <1>1 DEF RowTypes
  <2>4. CASE q = p  BY <2>2, <2>3, <2>4
  <2>5. CASE q # p  BY <2>1, <2>3, <2>5
  <2> QED  BY <2>4, <2>5
<1>4. cache' = [q \in Procs |-> [x \in Settings \cup {"room"} |-> cache'[q][x]]]
  <2>1. cache' = [q \in Procs |-> cache'[q]]  BY <1>1 DEF RowTypes
  <2>2. \A q \in Procs : cache'[q] = [x \in Settings \cup {"room"} |-> cache'[q][x]]  BY <1>3
  <2> QED  BY <2>1, <2>2
<1>5. \A q \in Procs, x \in Settings \cup {"room"} : cache'[q][x] \in CopiesOf(x) \cup {Absent}
  <2>1. \A q \in Procs, x \in Settings \cup {"room"} : cache[q][x] \in CopiesOf(x) \cup {Absent}
    BY DEF RowTypes
  <2>2. \A q \in Procs, x \in Settings \cup {"room"} : cache'[q][x] \in {cache[q][x], Absent}
    BY ZenonT(40), <1>3
  <2> QED  BY <2>1, <2>2
<1>6. RowTypes'
  <2>1. at' \in [Requests -> Stages]  BY <1>1 DEF RowTypes, Stages, Idling
  <2>2. excused' \in SUBSET (Procs \X Settings)  BY <1>1 DEF RowTypes
  <2>3. known' = [r \in Requests |-> known'[r]] /\ fetched' = [r \in Requests |-> fetched'[r]]
    BY <1>1
  <2>4. overtaken' \in SUBSET Requests  BY <1>1 DEF RowTypes
  <2> QED  BY <1>2, <1>4, <1>5, <2>1, <2>2, <2>3, <2>4 DEF RowTypes
<1>7. ASSUME NEW q \in Requests
      PROVE  KnownInv(q)' /\ FetchedInv(q)' /\ OvertakenInv(q)' /\ SettlingInv(q)'
  <2>1. CASE q \in Serves(p)
    <3>1. at'[q] = "done" /\ known'[q] = Absent /\ fetched'[q] = Absent /\ q \notin overtaken'
      BY <1>1, <2>1
    <3>2. KnownInv(q)'  BY <3>1, LeavingKnows
    <3> QED  BY <3>1, <3>2 DEF FetchedInv, OvertakenInv, SettlingInv
  <2>2. CASE q \notin Serves(p)
    <3>1. /\ at'[q] = at[q] /\ known'[q] = known[q] /\ fetched'[q] = fetched[q]
          /\ (q \in overtaken' <=> q \in overtaken)
      BY <1>1, <2>2
    <3> QED  BY <1>2, <3>1, OthersKeep
  <2> QED  BY <2>1, <2>2
<1>8. CachesAgree'
  <2> SUFFICES ASSUME NEW q \in Procs, NEW x \in Settings,
                      cache'[q][x] # Absent, <<q, x>> \notin excused'
               PROVE  \/ Agrees(x, cache[q][x])'
                      \/ \E r \in Requests : at'[r] = "settling" /\ P(r)' = q /\ Key(r)' = x
    BY DEF CachesAgree
  <2>1. q # p /\ cache'[q][x] = cache[q][x]  BY <1>3
  <2>2. <<q, x>> \notin excused  BY <1>1, <2>1
  <2>3. \/ Agrees(x, cache[q][x])
        \/ \E r \in Requests : at[r] = "settling" /\ P(r) = q /\ Key(r) = x
    BY <2>1, <2>2 DEF CachesAgree
  <2>4. CASE Agrees(x, cache[q][x])  BY <1>2, <2>1, <2>4, EffectiveStays DEF Agrees
  <2>5. CASE \E r \in Requests : at[r] = "settling" /\ P(r) = q /\ Key(r) = x
    <3>1. PICK r \in Requests : at[r] = "settling" /\ P(r) = q /\ Key(r) = x  BY <2>5
    <3>2. r \notin Serves(p)  BY <2>1, <3>1 DEF Serves
    <3>3. at'[r] = "settling" /\ P(r)' = q /\ Key(r)' = x  BY <1>1, <3>1, <3>2 DEF P, Key
    <3> QED  BY <3>3
  <2> QED  BY <2>3, <2>4, <2>5
<1> QED  BY <1>6, <1>7, <1>8

-----------------------------------------------------------------------------
(* The steps of requests that read and write settings. *)

\* Whatever is read is not Absent.
LEMMA WrittenDown ==
  /\ \A v \in Words \cup {Absent} : [value |-> v] # Absent
  /\ \A v \in RuleSets : [value |-> v] # Absent
<1>1. \A v \in Words \cup {Absent} : [value |-> v] \in [value : Words \cup {Absent}]  OBVIOUS
<1>2. \A v \in RuleSets : [value |-> v] \in [value : RuleSets]
  <2> HIDE DEF RuleSets
  <2> QED  OBVIOUS
<1> QED  BY <1>1, <1>2, AbsentAssumption

\* ... nor is a copy of it that is written down.
LEMMA CopiesWrittenDown ==
  ASSUME NEW k \in Settings \cup {"room"}, NEW v \in CopiesOf(k) \cup {Absent}
  PROVE  [value |-> v] # Absent
<1>1. CASE k = "rules" /\ v # Absent  BY <1>1, WrittenDown DEF CopiesOf
<1>2. CASE k # "rules" \/ v = Absent
  <2>1. v \in Words \cup {Absent}  BY <1>2 DEF CopiesOf, Words, Settings
  <2> QED  BY <2>1, WrittenDown
<1> QED  BY <1>1, <1>2

\* Reading a row, or what stands for it.
LEMMA FetchSteps ==
  ASSUME CopiesInv, NEW r \in Requests, slipped' \in BOOLEAN,
         Fetch(r) \/ FetchDefault(r) \/ FetchRoom(r) \/ RulesUnreadable(r)
  PROVE  CopiesInv'
<1>0. RowTypes /\ KnownInv(r) /\ FetchedInv(r) /\ OvertakenInv(r)  BY DEF CopiesInv
<1>1. CASE Fetch(r)
  <2> DEFINE v == IF Key(r) = "named" /\ ~Row(stored.named) THEN Absent ELSE Effective(Key(r))
             w == [value |-> v]
  <2>1. Looking(r) /\ Key(r) # "room" /\ fetched' = [fetched EXCEPT ![r] = w]
        /\ UNCHANGED <<stored, cache, at, known, overtaken, excused, asked>>
    BY <1>1 DEF Fetch, Missed, Fetched
  <2>2. Key(r) \in Settings  BY <1>0, <2>1, KnowsItsCopy
  <2>3. v \in CopiesOf(Key(r)) \cup {Absent}  BY <1>0, <2>2, EffectiveFacts
  <2>4. v = Absent => Key(r) = "named" /\ ~Row(stored.named)  BY <1>0, <2>2, EffectiveFacts
  <2>5. v # Absent => Effective(Key(r)) = v  OBVIOUS
  <2> HIDE DEF v
  <2>6. w # Absent /\ w = [value |-> w.value] /\ w.value = v  BY <2>2, <2>3, CopiesWrittenDown
  <2> HIDE DEF w
  <2> QED  BY <2>1, <2>3, <2>4, <2>5, <2>6, ReadingStep
<1>2. CASE FetchDefault(r)
  <2> DEFINE v == OrDefault(stored.default)
             w == [value |-> v]
  <2>1. fetched' = [fetched EXCEPT ![r] = w] /\ fetched[r] = [value |-> Absent]
        /\ UNCHANGED <<stored, cache, at, known, overtaken, excused, asked>>
    BY <1>2 DEF FetchDefault, Fetched
  <2>2. Looking(r) /\ Key(r) = "named" /\ (r \in overtaken \/ ~Row(stored.named))
    BY <1>0, <2>1, WrittenDown DEF FetchedInv
  <2>3. v \in Policies  BY <1>0 DEF RowTypes, StoredRows, OrDefault, ReadBack, Row, Policies
  <2>4. v # Absent /\ v \in CopiesOf(Key(r)) /\ Key(r) \in Settings
    BY <2>2, <2>3, AbsentAssumption DEF CopiesOf, Words, Settings
  <2>5. r \in overtaken \/ Effective(Key(r)) = v  BY <2>2 DEF Effective
  <2> HIDE DEF v
  <2>6. w # Absent /\ w = [value |-> w.value] /\ w.value = v  BY <2>4, CopiesWrittenDown
  <2> HIDE DEF w
  <2> QED  BY <2>1, <2>2, <2>4, <2>5, <2>6, ReadingStep
<1>3. CASE FetchRoom(r)
  <2>1. PICK v \in {"left", "over"} : Fetched(r, [value |-> v])  BY <1>3 DEF FetchRoom
  <2> DEFINE w == [value |-> v]
  <2>2. Looking(r) /\ Key(r) = "room" /\ fetched' = [fetched EXCEPT ![r] = w]
        /\ UNCHANGED <<stored, cache, at, known, overtaken, excused, asked>>
    BY <1>3, <2>1 DEF FetchRoom, Missed, Fetched
  <2>3. v # Absent /\ v \in CopiesOf(Key(r))  BY <2>2, AbsentAssumption DEF CopiesOf, Words
  <2>4. w # Absent /\ w = [value |-> w.value] /\ w.value = v  BY <2>2, <2>3, CopiesWrittenDown
  <2> HIDE DEF w
  <2> QED  BY <2>2, <2>3, <2>4, ReadingStep
<1>4. CASE RulesUnreadable(r)
  <2> DEFINE w == [value |-> {}]
  <2>1. Looking(r) /\ Key(r) = "rules" /\ fetched' = [fetched EXCEPT ![r] = w]
        /\ UNCHANGED <<stored, cache, at, known, excused, asked>>
        /\ overtaken' = overtaken \cup {r}
    BY <1>4 DEF RulesUnreadable, Missed
  <2>2. {} # Absent /\ {} \in CopiesOf(Key(r)) /\ Key(r) \in Settings
    BY <2>1, RuleSetsFacts DEF CopiesOf, Settings
  <2>3. w # Absent /\ w = [value |-> w.value] /\ w.value = {}  BY <2>1, <2>2, CopiesWrittenDown
  <2>4. r \in overtaken'  BY <2>1
  <2> HIDE DEF w
  <2> QED  BY <2>1, <2>2, <2>3, <2>4, ReadingStep
<1> QED  BY <1>1, <1>2, <1>3, <1>4

\* The dashboard's lookups.
LEMMA DashboardSteps ==
  ASSUME CopiesInv, NEW r \in Requests, slipped' \in BOOLEAN,
         ReadSetting(r) \/ AnswerSetting(r) \/ ReadFails(r)
  PROVE  CopiesInv'
<1>0. RowTypes /\ KnownInv(r) /\ FetchedInv(r)  BY DEF CopiesInv
<1>1. CASE ReadSetting(r)
  <2>1. PICK p \in Procs, k \in asked \ {"rules"} : Move(r, "reading", [proc |-> p, key |-> k])
    BY <1>1 DEF ReadSetting
  <2>2. at'[r] = "reading" /\ known'[r] = [proc |-> p, key |-> k]  BY <1>0, <2>1, OthersStand
  <2>3. k \in Settings /\ k # "rules"  BY <1>0, <2>1 DEF RowTypes
  <2>4. KnownInv(r)'  BY <2>2, <2>3 DEF KnownInv, KnownReads, Idling, Served, Metered, Published
  <2>5. Quiet(r)  BY <1>0, <1>1 DEF ReadSetting, Quiet, rows, FetchedInv, Looking
  <2>6. "reading" \in Stages \ {"settling"}  BY DEF Stages
  <2> QED  BY <2>1, <2>4, <2>5, <2>6, QuietStep
<1>2. CASE AnswerSetting(r)
  <2>1. PICK v \in Tiers \cup Policies \cup Alerts : Uses(r, Key(r), v)
    BY <1>2 DEF AnswerSetting
  <2>2. at[r] = "reading" /\ Move(r, "done", Absent)  BY <1>2 DEF AnswerSetting, Leave
  <2>3. Looking(r)  BY <2>2 DEF Looking
  <2>4. [value |-> v] # Absent  BY WrittenDown DEF Words
  <2>5. at'[r] = "done" /\ known'[r] = Absent  BY <1>0, <2>2, OthersStand
  <2>6. "done" \in Stages \ {"settling"}  BY DEF Stages, Idling
  <2> QED  BY <2>1, <2>2, <2>3, <2>4, <2>5, <2>6, LeavingKnows, LookupStep
<1>3. CASE ReadFails(r)
  <2>1. at[r] = "reading" /\ Move(r, "done", Absent)  BY <1>3 DEF ReadFails, Leave
  <2>2. at'[r] = "done" /\ known'[r] = Absent  BY <1>0, <2>1, OthersStand
  <2>3. "done" \in Stages \ {"settling"}  BY DEF Stages, Idling
  <2>4. Quiet(r)  BY <1>3, <2>1 DEF ReadFails, Quiet, Missed, rows
  <2> QED  BY <2>1, <2>2, <2>3, <2>4, LeavingKnows, QuietStep
<1> QED  BY <1>1, <1>2, <1>3

\* The rows that a write leaves alone are looked up as before.
LEMMA OtherRowsStay ==
  /\ stored'.tier = stored.tier => Effective("tier")' = Effective("tier")
  /\ stored'.default = stored.default => Effective("default")' = Effective("default")
  /\ stored'.named = stored.named /\ (Row(stored.named) \/ stored'.default = stored.default)
       => Effective("named")' = Effective("named")
  /\ stored'.alerts = stored.alerts => Effective("alerts")' = Effective("alerts")
  /\ stored'.rules = stored.rules => Effective("rules")' = Effective("rules")
BY DEF Effective, ActiveRules

\* The policies, alert settings and plans that requests write.
LEMMA SettingWrites ==
  ASSUME CopiesInv, NEW r \in Requests, slipped' \in BOOLEAN,
         SavePolicy(r) \/ DeletePolicy(r) \/ SaveAlerts(r) \/ ChangePlan(r)
  PROVE  CopiesInv'
<1>0. RowTypes /\ stored \in StoredRows  BY DEF CopiesInv, RowTypes
<1>1. CASE SavePolicy(r)
  <2> PICK p \in Procs, slug \in {"default", "named"}, policy \in Policies :
        Write(r, [proc |-> p, key |-> slug, value |-> policy], [stored EXCEPT ![slug] = policy],
              {slug} \cup IF Row(stored.named) THEN {} ELSE {"named"})
    BY <1>1 DEF SavePolicy
  <2> DEFINE k == [proc |-> p, key |-> slug, value |-> policy]
             new == [stored EXCEPT ![slug] = policy]
             touched == {slug} \cup IF Row(stored.named) THEN {} ELSE {"named"}
  <2>1. at[r] = "write" /\ Write(r, k, new, touched)  BY <1>1 DEF SavePolicy
  <2>2. k \in KnownWrites /\ policy \in CopiesOf(slug)  BY DEF KnownWrites, Settings, CopiesOf
  <2>3. touched \in SUBSET Settings  BY DEF Settings
  <2>4. /\ new.tier = stored.tier /\ new.alerts = stored.alerts /\ new.rules = stored.rules
        /\ slug # "default" => new.default = stored.default
        /\ slug # "named" => new.named = stored.named
        /\ new[slug] = policy /\ new \in StoredRows
    BY <1>0 DEF StoredRows
  <2>5. stored' = new  BY <2>1 DEF Write
  <2>6. \A x \in Settings \ touched : Effective(x)' = Effective(x) /\ stored'[x] = stored[x]
    BY <2>4, <2>5, OtherRowsStay DEF Settings
  <2>7. policy # Absent  BY AbsentAssumption DEF Words
  <2>8. Agrees(slug, policy)'
    <3>1. stored'[slug] = policy  BY <2>4, <2>5
    <3>2. CASE slug = "default"  BY <2>7, <3>1, <3>2 DEF Agrees, Effective, OrDefault, ReadBack, Row, Policies
    <3>3. CASE slug = "named"  BY <2>7, <3>1, <3>3 DEF Agrees, Effective, OrDefault, ReadBack, Row, Policies
    <3> QED  BY <3>2, <3>3
  <2>9. "named" \notin touched => new.named = stored.named  BY <2>4
  <2>10. k.key = slug /\ k.value = policy  OBVIOUS
  <2> HIDE DEF k, new, touched, Settings
  <2> QED  BY <2>1, <2>2, <2>3, <2>4, <2>6, <2>8, <2>9, <2>10, WriteStep
<1>2. CASE DeletePolicy(r)
  <2> PICK p \in Procs : Write(r, [proc |-> p, key |-> "named", value |-> Absent],
                               [stored EXCEPT !.named = Absent], {"named"})
    BY <1>2 DEF DeletePolicy
  <2> DEFINE k == [proc |-> p, key |-> "named", value |-> Absent]
             new == [stored EXCEPT !.named = Absent]
  <2>1. at[r] = "write" /\ Write(r, k, new, {"named"})  BY <1>2 DEF DeletePolicy
  <2>2. k \in KnownWrites /\ k.value = Absent  BY DEF KnownWrites, Settings
  <2>3. {"named"} \in SUBSET Settings  BY DEF Settings
  <2>4. /\ new.tier = stored.tier /\ new.alerts = stored.alerts /\ new.rules = stored.rules
        /\ new.default = stored.default /\ new \in StoredRows
    BY <1>0 DEF StoredRows
  <2>5. stored' = new  BY <2>1 DEF Write
  <2>6. \A x \in Settings \ {"named"} : Effective(x)' = Effective(x) /\ stored'[x] = stored[x]
    BY <2>4, <2>5, OtherRowsStay DEF Settings
  <2> HIDE DEF k, new, Settings
  <2> QED  BY <2>1, <2>2, <2>3, <2>4, <2>6, WriteStep
<1>3. CASE SaveAlerts(r)
  <2> PICK p \in Procs, alerts \in Alerts :
        Write(r, [proc |-> p, key |-> "alerts", value |-> alerts],
              [stored EXCEPT !.alerts = alerts], {"alerts"})
    BY <1>3 DEF SaveAlerts
  <2> DEFINE k == [proc |-> p, key |-> "alerts", value |-> alerts]
             new == [stored EXCEPT !.alerts = alerts]
  <2>1. at[r] = "write" /\ Write(r, k, new, {"alerts"})  BY <1>3 DEF SaveAlerts
  <2>2. k \in KnownWrites /\ k.value = alerts /\ k.key = "alerts" /\ alerts \in CopiesOf("alerts")
    BY DEF KnownWrites, Settings, CopiesOf
  <2>3. {"alerts"} \in SUBSET Settings  BY DEF Settings
  <2>4. /\ new.tier = stored.tier /\ new.alerts = alerts /\ new.rules = stored.rules
        /\ new.default = stored.default /\ new.named = stored.named /\ new \in StoredRows
    BY <1>0 DEF StoredRows
  <2>5. stored' = new  BY <2>1 DEF Write
  <2>6. \A x \in Settings \ {"alerts"} : Effective(x)' = Effective(x) /\ stored'[x] = stored[x]
    BY <2>4, <2>5, OtherRowsStay DEF Settings
  <2>7. alerts # Absent  BY AbsentAssumption DEF Words
  <2>8. Agrees("alerts", alerts)'
    BY <2>4, <2>5, <2>7 DEF Agrees, Effective, AlertsOrDefault, AlertsReadBack, Row, Alerts
  <2> HIDE DEF k, new, Settings
  <2> QED  BY <2>1, <2>2, <2>3, <2>4, <2>6, <2>8, WriteStep
<1>4. CASE ChangePlan(r)
  <2> PICK p \in Procs, tier \in Tiers :
        Write(r, [proc |-> p, key |-> "tier", value |-> Absent],
              [stored EXCEPT !.tier = tier], {"tier"})
    BY <1>4 DEF ChangePlan
  <2> DEFINE k == [proc |-> p, key |-> "tier", value |-> Absent]
             new == [stored EXCEPT !.tier = tier]
  <2>1. at[r] = "write" /\ Write(r, k, new, {"tier"})  BY <1>4 DEF ChangePlan
  <2>2. k \in KnownWrites /\ k.value = Absent  BY DEF KnownWrites, Settings
  <2>3. {"tier"} \in SUBSET Settings  BY DEF Settings
  <2>4. /\ new.alerts = stored.alerts /\ new.rules = stored.rules
        /\ new.default = stored.default /\ new.named = stored.named /\ new \in StoredRows
    BY <1>0 DEF StoredRows
  <2>5. stored' = new  BY <2>1 DEF Write
  <2>6. \A x \in Settings \ {"tier"} : Effective(x)' = Effective(x) /\ stored'[x] = stored[x]
    BY <2>4, <2>5, OtherRowsStay DEF Settings
  <2> HIDE DEF k, new, Settings
  <2> QED  BY <2>1, <2>2, <2>3, <2>4, <2>6, WriteStep
<1> QED  BY <1>1, <1>2, <1>3, <1>4

LEMMA CachesStepKeeps ==
  ASSUME CopiesInv, NEW r \in Requests, slipped' \in BOOLEAN, CachesStep(r)
  PROVE  CopiesInv'
BY FetchSteps, DashboardSteps, WriteThroughStep, InvalidateStep, SettingWrites, RetypeStep
   DEF CachesStep

-----------------------------------------------------------------------------
(* The rules. *)

\* A patched rule is a rule.
LEMMA PatchedIsRule ==
  ASSUME NEW rule \in RuleRows, NEW field \in Patches, NEW v \in BOOLEAN
  PROVE  Patched(rule, field, v) \in RuleRows
BY DEF RuleRows, Patches, Patched

\* New rules are written, whatever they are.
LEMMA RulesWritten ==
  ASSUME CopiesInv, NEW r \in Requests, at[r] \in {"write", "adding", "patching"},
         NEW p \in Procs, NEW table \in RuleTables, slipped' \in BOOLEAN,
         Write(r, [proc |-> p, key |-> "rules", value |-> Absent],
               [stored EXCEPT !.rules = table], {"rules"})
  PROVE  CopiesInv'
<1> DEFINE k == [proc |-> p, key |-> "rules", value |-> Absent]
           new == [stored EXCEPT !.rules = table]
<1>0. stored \in StoredRows  BY DEF CopiesInv, RowTypes
<1>1. Write(r, k, new, {"rules"})  OBVIOUS
<1>2. k \in KnownWrites /\ k.value = Absent  BY DEF KnownWrites, Settings
<1>3. {"rules"} \in SUBSET Settings  BY DEF Settings
<1>4. /\ new.tier = stored.tier /\ new.alerts = stored.alerts
      /\ new.default = stored.default /\ new.named = stored.named /\ new \in StoredRows
  BY <1>0 DEF StoredRows
<1>5. stored' = new  BY <1>1 DEF Write
<1>6. \A x \in Settings \ {"rules"} : Effective(x)' = Effective(x) /\ stored'[x] = stored[x]
  BY <1>4, <1>5, OtherRowsStay DEF Settings
<1> HIDE DEF k, new, Settings
<1> QED  BY <1>1, <1>2, <1>3, <1>4, <1>6, WriteStep

\* What a step of a request that writes rules makes of them.
LEMMA NewRules ==
  ASSUME CopiesInv, NEW r \in Requests, CreateRule(r)
  PROVE  \E x \in Rules :
           /\ ~Row(stored.rules[x]) /\ known[r].rule \in RuleRows
           /\ [stored.rules EXCEPT ![x] = known[r].rule] \in RuleTables
           /\ WriteRules(r, [stored.rules EXCEPT ![x] = known[r].rule])
<1> DEFINE x == CHOOSE y \in Rules : ~Row(stored.rules[y])
<1>1. x \in Rules /\ ~Row(stored.rules[x])
  <2>1. \E y \in Rules : ~Row(stored.rules[y])  BY DEF CreateRule, Present
  <2> QED  BY <2>1
<1>2. known[r].rule \in RuleRows  BY DEF CopiesInv, CreateRule, KnownInv, KnownDrafts
<1>3. stored.rules \in RuleTables  BY DEF CopiesInv, RowTypes, StoredRows
<1>4. WriteRules(r, [stored.rules EXCEPT ![x] = known[r].rule])  BY DEF CreateRule
<1> HIDE DEF x
<1>5. [stored.rules EXCEPT ![x] = known[r].rule] \in RuleTables  BY <1>1, <1>2, <1>3 DEF RuleTables
<1> QED  BY <1>1, <1>2, <1>4, <1>5

LEMMA RulesStepKeeps ==
  ASSUME CopiesInv, NEW r \in Requests, RulesStep(r), slipped \in BOOLEAN
  PROVE  CopiesInv'
<1>0. RowTypes /\ KnownInv(r) /\ FetchedInv(r) /\ stored.rules \in RuleTables
  BY DEF CopiesInv, RowTypes, StoredRows
<1>1. CASE ListRules(r)
  <2> PICK p \in Procs, rule \in Drafts :
        /\ Scores(rule)
        /\ Read(r, "adding", [proc |-> p, key |-> "rules", rule |-> rule, seen |-> stored.rules])
    BY <1>1 DEF ListRules
  <2> DEFINE k == [proc |-> p, key |-> "rules", rule |-> rule, seen |-> stored.rules]
  <2>1. /\ at[r] = "write" /\ Move(r, "adding", k) /\ UNCHANGED <<rows, slipped>>
        /\ Cardinality(Present(stored.rules)) < MaxRules
    BY <1>1 DEF ListRules, Read
  <2>2. at'[r] = "adding" /\ known'[r] = k  BY <1>0, <2>1, OthersStand
  <2>3. k \in KnownDrafts  BY <1>0, RulesAssumption DEF KnownDrafts
  <2>4. KnownInv(r)'
    BY <2>1, <2>2, <2>3 DEF KnownInv, Idling, Served, Metered, Published
  <2>5. Quiet(r)  BY <1>0, <2>1 DEF Quiet, rows, FetchedInv, Looking
  <2>6. "adding" \in Stages \ {"settling"}  BY DEF Stages
  <2> HIDE DEF k
  <2> QED  BY <2>1, <2>4, <2>5, <2>6, QuietStep
<1>2. CASE CreateRule(r)
  <2>1. PICK table \in RuleTables : WriteRules(r, table)  BY <1>2, NewRules
  <2>2. at[r] = "adding"  BY <1>2 DEF CreateRule
  <2>3. P(r) \in Procs  BY <1>0, <2>2, KnowsItsCopy
  <2>4. slipped' \in BOOLEAN  BY <1>2 DEF CreateRule
  <2> QED  BY <2>1, <2>2, <2>3, <2>4, RulesWritten DEF WriteRules, Settle
<1>3. CASE ReadRule(r)
  <2> PICK p \in Procs, x \in Present(stored.rules), field \in Patches, v \in BOOLEAN :
        /\ field \in {"metrics", "judges"} => Scores(Patched(stored.rules[x], field, v))
        /\ Read(r, "patching", [proc |-> p, key |-> "rules", rule |-> x, field |-> field,
                                value |-> v, seen |-> stored.rules])
    BY <1>3 DEF ReadRule
  <2> DEFINE k == [proc |-> p, key |-> "rules", rule |-> x, field |-> field,
                   value |-> v, seen |-> stored.rules]
  <2>1. at[r] = "write" /\ Move(r, "patching", k) /\ UNCHANGED <<rows, slipped>>
    BY <1>3 DEF ReadRule, Read
  <2>2. at'[r] = "patching" /\ known'[r] = k  BY <1>0, <2>1, OthersStand
  <2>3. x \in Rules /\ Row(stored.rules[x])  BY DEF Present
  <2>4. k \in KnownPatches  BY <1>0, <2>3 DEF KnownPatches
  <2>5. KnownInv(r)'
    BY <2>2, <2>3, <2>4 DEF KnownInv, Idling, Served, Metered, Published
  <2>6. Quiet(r)  BY <1>0, <2>1 DEF Quiet, rows, FetchedInv, Looking
  <2>7. "patching" \in Stages \ {"settling"}  BY DEF Stages
  <2> HIDE DEF k
  <2> QED  BY <2>1, <2>5, <2>6, <2>7, QuietStep
<1>4. CASE UpdateRule(r)
  <2> DEFINE x == known[r].rule
             row == stored.rules[x]
             new == [stored.rules EXCEPT ![x] = Patched(row, known[r].field, known[r].value)]
  <2>1. at[r] = "patching" /\ WriteRules(r, IF Row(row) THEN new ELSE stored.rules)
    BY <1>4 DEF UpdateRule
  <2>2. x \in Rules /\ known[r].field \in Patches /\ known[r].value \in BOOLEAN
    BY <1>0, <2>1 DEF KnownInv, KnownPatches
  <2>3. Row(row) => row \in RuleRows  BY <1>0, <2>2 DEF RuleTables, Row
  <2>4. Row(row) => Patched(row, known[r].field, known[r].value) \in RuleRows
    BY <2>2, <2>3, PatchedIsRule
  <2>5. Row(row) => new \in RuleTables  BY <1>0, <2>2, <2>4 DEF RuleTables
  <2>6. PICK table \in RuleTables : WriteRules(r, table)  BY <1>0, <2>1, <2>5
  <2>7. P(r) \in Procs  BY <1>0, <2>1, KnowsItsCopy
  <2>8. slipped' \in BOOLEAN  BY <1>4 DEF UpdateRule
  <2> QED  BY <2>1, <2>6, <2>7, <2>8, RulesWritten DEF WriteRules, Settle
<1>5. CASE DeleteRule(r)
  <2> PICK p \in Procs, x \in Rules :
        Write(r, [proc |-> p, key |-> "rules", value |-> Absent],
              [stored EXCEPT !.rules[x] = Absent], {"rules"})
    BY <1>5 DEF DeleteRule
  <2> DEFINE table == [stored.rules EXCEPT ![x] = Absent]
  <2>1. at[r] = "write" /\ UNCHANGED slipped  BY <1>5 DEF DeleteRule
  <2>2. table \in RuleTables  BY <1>0 DEF RuleTables
  <2>3. [stored EXCEPT !.rules[x] = Absent] = [stored EXCEPT !.rules = table]  OBVIOUS
  <2> QED  BY <2>1, <2>2, <2>3, RulesWritten
<1> QED  BY <1>1, <1>2, <1>3, <1>4, <1>5 DEF RulesStep

\* Writes of other settings leave the rules alone.
LEMMA RulesStay ==
  ASSUME CopiesInv, NEW r \in Requests, CachesStep(r) \/ ListRules(r) \/ ReadRule(r)
  PROVE  stored'.rules = stored.rules
<1>1. stored \in StoredRows  BY DEF CopiesInv, RowTypes
<1> USE <1>1 DEF StoredRows
<1>2. CASE Fetch(r) \/ FetchDefault(r) \/ FetchRoom(r) \/ RulesUnreadable(r)
  BY <1>2 DEF Fetch, FetchDefault, FetchRoom, RulesUnreadable, Fetched
<1>3. CASE ReadSetting(r) \/ AnswerSetting(r) \/ ReadFails(r) \/ WriteThrough(r) \/ Invalidate(r)
  BY <1>3 DEF ReadSetting, AnswerSetting, ReadFails, WriteThrough, Invalidate, Uses, rows
<1>4. CASE SavePolicy(r)  BY <1>4 DEF SavePolicy, Write
<1>5. CASE DeletePolicy(r)  BY <1>5 DEF DeletePolicy, Write
<1>6. CASE SaveAlerts(r)  BY <1>6 DEF SaveAlerts, Write
<1>7. CASE ChangePlan(r)  BY <1>7 DEF ChangePlan, Write
<1>8. CASE RetypeOwner(r)  BY <1>8 DEF RetypeOwner, ReTier
<1>9. CASE ListRules(r) \/ ReadRule(r)  BY <1>9 DEF ListRules, ReadRule, Read, rows
<1> QED  BY <1>2, <1>3, <1>4, <1>5, <1>6, <1>7, <1>8, <1>9 DEF CachesStep

\* Where nobody slips, an addition finds room and a patch leaves a rule that scores.
LEMMA RulesStayInBounds ==
  ASSUME CopiesInv, RulesInBounds, NEW r \in Requests, RulesStep(r), slipped \in BOOLEAN
  PROVE  RulesInBounds'
<1>0. KnownInv(r) /\ stored.rules \in RuleTables /\ stored \in StoredRows
  BY DEF CopiesInv, RowTypes, StoredRows
<1>1. CASE ListRules(r) \/ ReadRule(r)
  <2>1. stored'.rules = stored.rules  BY <1>1, RulesStay
  <2>2. slipped' = slipped  BY <1>1 DEF ListRules, ReadRule, Read
  <2> QED  BY <2>1, <2>2 DEF RulesInBounds, Present
<1> SUFFICES ASSUME ~slipped', CreateRule(r) \/ UpdateRule(r) \/ DeleteRule(r)
             PROVE  RulesInBounds'
  BY <1>1 DEF RulesInBounds, RulesStep
<1>2. ~slipped /\ Cardinality(Present(stored.rules)) <= MaxRules
      /\ \A y \in Present(stored.rules) : Scores(stored.rules[y])
  BY DEF RulesInBounds, CreateRule, UpdateRule, DeleteRule
<1>3. \A rules : IsFiniteSet(Present(rules)) /\ Cardinality(Present(rules)) \in Nat
  <2> TAKE rules
  <2>1. Present(rules) \subseteq Rules  BY DEF Present
  <2> QED  BY <2>1, RulesAssumption, FS_Subset, FS_CardinalityType
<1>4. CASE CreateRule(r)
  <2>1. PICK x \in Rules : /\ ~Row(stored.rules[x]) /\ known[r].rule \in RuleRows
                           /\ WriteRules(r, [stored.rules EXCEPT ![x] = known[r].rule])
    BY <1>4, NewRules
  <2>2. stored'.rules = [stored.rules EXCEPT ![x] = known[r].rule]
    BY <1>0, <2>1 DEF WriteRules, Write, StoredRows
  <2>3. \A y \in Rules : stored'.rules[y] = IF y = x THEN known[r].rule ELSE stored.rules[y]
    BY <1>0, <2>2 DEF RuleTables
  <2>4. Row(known[r].rule)  BY <2>1, AbsentAssumption DEF Row
  <2>5. Present(stored.rules)' = Present(stored.rules) \cup {x}
    BY <2>1, <2>3, <2>4 DEF Present
  <2>6. Scores(known[r].rule) /\ Cardinality(Present(known[r].seen)) < MaxRules
    BY <1>0, <1>4 DEF CreateRule, KnownInv
  <2>7. Present(stored.rules) \subseteq Present(known[r].seen)  BY <1>4 DEF CreateRule
  <2>8. Cardinality(Present(stored.rules)) <= Cardinality(Present(known[r].seen))
    BY <1>3, <2>7, FS_Subset
  <2>9. x \notin Present(stored.rules)  BY <2>1 DEF Present
  <2>10. Cardinality(Present(stored.rules) \cup {x}) = Cardinality(Present(stored.rules)) + 1
    BY <1>3, <2>9, FS_AddElement
  <2>11. Cardinality(Present(stored.rules)') <= MaxRules
    BY <1>3, <2>5, <2>6, <2>8, <2>10, RulesAssumption
  <2>12. \A y \in Present(stored.rules)' : Scores(stored'.rules[y])
    BY <1>2, <2>3, <2>5, <2>6, <2>9 DEF Present
  <2> QED  BY <2>11, <2>12 DEF RulesInBounds, Scores
<1>5. CASE UpdateRule(r)
  <2> DEFINE x == known[r].rule
             new == Patched(stored.rules[x], known[r].field, known[r].value)
  <2>1. WriteRules(r, IF Row(stored.rules[x]) THEN [stored.rules EXCEPT ![x] = new]
                      ELSE stored.rules)
    BY <1>5 DEF UpdateRule
  <2>2. stored'.rules = IF Row(stored.rules[x]) THEN [stored.rules EXCEPT ![x] = new]
                        ELSE stored.rules
    BY <1>0, <2>1 DEF WriteRules, Write, StoredRows
  <2>3. CASE ~Row(stored.rules[x])  BY <1>2, <2>2, <2>3 DEF RulesInBounds, Present
  <2>4. CASE Row(stored.rules[x])
    <3>1. x \in Rules /\ known[r].field \in Patches /\ known[r].value \in BOOLEAN
      BY <1>0, <1>5 DEF UpdateRule, KnownInv, KnownPatches
    <3>2. stored.rules[x] \in RuleRows  BY <1>0, <2>4, <3>1 DEF RuleTables, Row
    <3>3. \A y \in Rules : stored'.rules[y] = IF y = x THEN new ELSE stored.rules[y]
      BY <1>0, <2>2, <2>4 DEF RuleTables
    <3>4. new \in RuleRows  BY <3>1, <3>2, PatchedIsRule
    <3>5. Row(new)  BY <3>4, AbsentAssumption DEF Row
    <3>6. Present(stored.rules)' = Present(stored.rules)
      BY <2>4, <3>1, <3>3, <3>5 DEF Present
    <3>7. Scores(new)
      <4>1. CASE known[r].field \in {"metrics", "judges"}
        <5>1. known[r].seen[x] = stored.rules[x]  BY <1>5, <4>1 DEF UpdateRule
        <5> QED  BY <1>0, <1>5, <4>1, <5>1 DEF UpdateRule, KnownInv
      <4>2. CASE known[r].field \in {"enabled", "rate"}
        <5>1. Scores(stored.rules[x])  BY <1>2, <2>4, <3>1 DEF Present
        <5> QED  BY <3>2, <4>2, <5>1 DEF Scores, Patched, RuleRows
      <4> QED  BY <3>1, <4>1, <4>2 DEF Patches
    <3>8. \A y \in Present(stored.rules)' : Scores(stored'.rules[y])
      BY <1>2, <3>3, <3>6, <3>7 DEF Present
    <3> HIDE DEF new
    <3> QED  BY <1>2, <3>6, <3>8 DEF RulesInBounds, Scores
  <2> QED  BY <2>3, <2>4
<1>6. CASE DeleteRule(r)
  <2>1. PICK x \in Rules : stored' = [stored EXCEPT !.rules[x] = Absent]
    BY <1>6 DEF DeleteRule, Write
  <2>2. \A y \in Rules : stored'.rules[y] = IF y = x THEN Absent ELSE stored.rules[y]
    BY <1>0, <2>1 DEF RuleTables, StoredRows
  <2>3. Present(stored.rules)' \subseteq Present(stored.rules)  BY <2>2 DEF Present, Row
  <2>4. Cardinality(Present(stored.rules)') <= Cardinality(Present(stored.rules))
    BY <1>3, <2>3, FS_Subset
  <2>5. \A y \in Present(stored.rules)' : stored'.rules[y] = stored.rules[y]
    BY <2>2 DEF Present, Row
  <2>6. \A y \in Present(stored.rules)' : Scores(stored'.rules[y])  BY <1>2, <2>3, <2>5
  <2>7. Cardinality(Present(stored.rules)') \in Nat
    <3>1. Present(stored.rules)' \subseteq Rules  BY DEF Present
    <3> QED  BY <3>1, RulesAssumption, FS_Subset, FS_CardinalityType
  <2>8. Cardinality(Present(stored.rules)') <= MaxRules
    BY <1>2, <1>3, <2>4, <2>7, RulesAssumption
  <2> QED  BY <2>6, <2>8 DEF RulesInBounds, Scores
<1> QED  BY <1>4, <1>5, <1>6

-----------------------------------------------------------------------------
(* What a request knows of its event. *)

\* A request that goes on with its event keeps what it knows of it.
LEMMA GoesKnows ==
  ASSUME RowTypes, NEW r \in Requests, KnownInv(r), at[r] \in Metered,
         NEW s \in Metered, NEW key \in EventKeys, Goes(r, s, key),
         s = "rules" => key = "rules",
         s \in {"gate", "guard"} => key = Event(r).security /\ key \in {"default", "named"}
  PROVE  /\ KnownInv(r)' /\ at'[r] = s /\ Event(r)' = Event(r)
         /\ Move(r, s, [known[r] EXCEPT !.key = key])
<1>1. at'[r] = s /\ known'[r] = [known[r] EXCEPT !.key = key]  BY OthersStand DEF Goes
<1>2. known[r] \in KnownEvents /\ known[r].quota \in Quotas
      /\ (known[r].quota.sure => known[r].quota.days = 36500)
  BY DEF KnownInv, Served, Metered, Published
<1>3. /\ known'[r] \in KnownEvents /\ known'[r].key = key /\ known'[r].event = known[r].event
      /\ known'[r].quota = known[r].quota
  BY <1>1, <1>2 DEF KnownEvents
<1>4. s \notin Idling \cup {"reading", "settling", "adding", "patching", "tier", "room"}
  BY DEF Metered, Published, Idling
<1>5. KnownInv(r)'
  <2>1. at'[r] \in {"tier", "room", "rules"} => known'[r].key = at'[r]  BY <1>1, <1>3, <1>4
  <2>2. at'[r] \in {"gate", "guard"} =>
          known'[r].key = known'[r].event.security /\ known'[r].key \in {"default", "named"}
    BY <1>1, <1>3 DEF Event
  <2> QED  BY <1>1, <1>2, <1>3, <1>4, <2>1, <2>2 DEF KnownInv
<1> QED  BY <1>1, <1>3, <1>5 DEF Event, Goes

\* What is learnt of an event.
LEMMA LearnsKnown ==
  ASSUME RowTypes, NEW r \in Requests, known[r] \in KnownEvents, NEW s, NEW key \in EventKeys,
         NEW quota \in Quotas, Learns(r, s, key, quota)
  PROVE  /\ at'[r] = s /\ known'[r] \in KnownEvents
         /\ known'[r].key = key /\ known'[r].quota = quota /\ known'[r].event = Event(r)
<1>1. P(r) \in Procs /\ Event(r) \in Events  BY DEF P, Event, KnownEvents
<1>2. at'[r] = s /\ known'[r] = [proc |-> P(r), key |-> key, event |-> Event(r), quota |-> quota]
  BY OthersStand DEF Learns
<1>3. [proc |-> P(r), key |-> key, event |-> Event(r), quota |-> quota] \in KnownEvents
  <2> HIDE DEF Quotas
  <2> QED  BY <1>1 DEF KnownEvents
<1> QED  BY <1>2, <1>3

\* A request that has learnt its quota knows one that keeps what was paid for.
LEMMA AfterQuotaKnows ==
  ASSUME RowTypes, NEW r \in Requests, known[r] \in KnownEvents, NEW quota \in Quotas,
         quota.sure => quota.days = 36500, AfterQuota(r, quota)
  PROVE  \E s \in {"gate", "publish"} : (\E k : Move(r, s, k)) /\ at'[r] = s /\ KnownInv(r)'
<1>1. CASE Learns(r, "gate", Event(r).security, quota) /\ Event(r).security # Absent
  <2>1. Event(r).security \in {"default", "named"}
    BY <1>1, EventsAssumption DEF Event, KnownEvents
  <2>2. Event(r).security \in EventKeys  BY <2>1 DEF EventKeys
  <2>3. /\ at'[r] = "gate" /\ known'[r] \in KnownEvents /\ known'[r].key = Event(r).security
        /\ known'[r].quota = quota /\ known'[r].event = Event(r)
    BY <1>1, <2>2, LearnsKnown
  <2>4. KnownInv(r)'
    BY <2>1, <2>3 DEF KnownInv, Idling, Served, Metered, Published
  <2> QED  BY <1>1, <2>3, <2>4 DEF Learns
<1>2. CASE Learns(r, "publish", "none", quota)
  <2>1. "none" \in EventKeys  BY DEF EventKeys
  <2>2. at'[r] = "publish" /\ known'[r] \in KnownEvents /\ known'[r].quota = quota
    BY <1>2, <2>1, LearnsKnown
  <2>3. KnownInv(r)'
    BY <2>2 DEF KnownInv, Idling, Served, Metered, Published
  <2> QED  BY <1>2, <2>2, <2>3 DEF Learns
<1> QED  BY <1>1, <1>2 DEF AfterQuota

-----------------------------------------------------------------------------
(* The steps of a request that brings an event. *)

\* What a step of one request leaves of the events of the others.
LEMMA IngestFrame ==
  ASSUME NEW q \in Requests, IngestInv(q), at'[q] = at[q], known'[q] = known[q],
         traces'[q] = traces[q], evals'[q] = evals[q], answers'[q] = answers[q],
         (q \in scans') <=> (q \in scans)
  PROVE  IngestInv(q)'
BY DEF IngestInv, Event

\* A request that is gone, or has not come to publish, leaves its event as it is.
LEMMA IngestRests ==
  ASSUME NEW q \in Requests, IngestInv(q), UNCHANGED <<topics, answers>>,
         \/ at'[q] = "done"
         \/ {at[q], at'[q]} \subseteq Stages \ (Published \cup {"done"})
  PROVE  IngestInv(q)'
<1>1. traces' = traces /\ evals' = evals /\ scans' = scans /\ answers' = answers  BY DEF topics
<1>2. CASE at'[q] = "done"  BY <1>1, <1>2 DEF IngestInv, Published
<1>3. CASE {at[q], at'[q]} \subseteq Stages \ (Published \cup {"done"})
  <2>1. at'[q] \notin {"done", "evaluate", "online", "rules", "order", "secure", "guard"}
        /\ at'[q] \in Stages \ (Published \cup {"done"}) /\ traces[q] = Absent
        /\ answers[q] = Absent /\ q \notin scans
    BY <1>3 DEF IngestInv, Published
  <2> QED  BY <1>1, <2>1 DEF IngestInv, Published
<1> QED  BY <1>2, <1>3

\* Requests that read and write settings bring no event.
LEMMA SettingsBringNothing ==
  ASSUME CopiesInv, NEW r \in Requests, CachesStep(r) \/ RulesStep(r)
  PROVE  /\ \A q \in Requests : q # r => at'[q] = at[q] /\ known'[q] = known[q]
         /\ \/ at'[r] = at[r] /\ known'[r] = known[r]
            \/ at'[r] = "done"
            \/ {at[r], at'[r]} \subseteq Stages \ (Published \cup {"done"})
<1> DEFINE Before == Stages \ (Published \cup {"done"})
<1>0. RowTypes  BY DEF CopiesInv
<1>1. {"read", "reading", "write", "settling", "adding", "patching"} \subseteq Before
  BY DEF Stages, Published, Idling, Served, Metered
<1>2. CASE Fetch(r) \/ FetchDefault(r) \/ FetchRoom(r) \/ RulesUnreadable(r)
  BY <1>2 DEF Fetch, FetchDefault, FetchRoom, RulesUnreadable, Fetched
<1>3. CASE \E s \in {"reading", "settling", "adding", "patching", "done"} : \E k : Move(r, s, k)
           /\ at[r] \in {"read", "reading", "write", "settling", "adding", "patching"}
  <2>1. PICK s \in {"reading", "settling", "adding", "patching", "done"} : \E k : Move(r, s, k)
    BY <1>3
  <2>2. at'[r] = s /\ \A q \in Requests : q # r => at'[q] = at[q] /\ known'[q] = known[q]
    BY <1>0, <2>1, OthersStand
  <2> QED  BY <1>1, <1>3, <2>1, <2>2
<1>4. CASE ReadSetting(r)  BY <1>3, <1>4 DEF ReadSetting
<1>5. CASE AnswerSetting(r) \/ ReadFails(r) \/ WriteThrough(r) \/ Invalidate(r) \/ RetypeOwner(r)
  BY <1>3, <1>5 DEF AnswerSetting, ReadFails, WriteThrough, Invalidate, RetypeOwner, Leave
<1>6. CASE \E k, new, touched : Write(r, k, new, touched)
           /\ at[r] \in {"write", "adding", "patching"}
  BY <1>3, <1>6 DEF Write
<1>7. CASE SavePolicy(r)
  <2>1. at[r] = "write" /\ \E k, new, touched : Write(r, k, new, touched)  BY <1>7 DEF SavePolicy
  <2> QED  BY <1>6, <2>1
<1>8. CASE DeletePolicy(r)
  <2>1. at[r] = "write" /\ \E k, new, touched : Write(r, k, new, touched)  BY <1>8 DEF DeletePolicy
  <2> QED  BY <1>6, <2>1
<1>9. CASE SaveAlerts(r)
  <2>1. at[r] = "write" /\ \E k, new, touched : Write(r, k, new, touched)  BY <1>9 DEF SaveAlerts
  <2> QED  BY <1>6, <2>1
<1>10. CASE ChangePlan(r)
  <2>1. at[r] = "write" /\ \E k, new, touched : Write(r, k, new, touched)  BY <1>10 DEF ChangePlan
  <2> QED  BY <1>6, <2>1
<1>11. CASE DeleteRule(r)
  <2>1. at[r] = "write" /\ \E k, new, touched : Write(r, k, new, touched)  BY <1>11 DEF DeleteRule
  <2> QED  BY <1>6, <2>1
<1>12. CASE CreateRule(r) \/ UpdateRule(r)
  <2>1. at[r] \in {"adding", "patching"} /\ \E rules : WriteRules(r, rules)
    BY <1>12 DEF CreateRule, UpdateRule
  <2> QED  BY <1>6, <2>1 DEF WriteRules
<1>13. CASE ListRules(r)
  <2>1. at[r] = "write" /\ \E k : Move(r, "adding", k)  BY <1>13 DEF ListRules, Read
  <2> QED  BY <1>3, <2>1
<1>14. CASE ReadRule(r)
  <2>1. at[r] = "write" /\ \E k : Move(r, "patching", k)  BY <1>14 DEF ReadRule, Read
  <2> QED  BY <1>3, <2>1
<1> QED  BY <1>2, <1>4, <1>5, <1>7, <1>8, <1>9, <1>10, <1>11, <1>12, <1>13, <1>14
         DEF CachesStep, RulesStep

\* What all steps of a request with an event have to show of it.
IngestKept(r) == CopiesInv' /\ IngestInv(r)'

\* The request comes in, and learns its quota.
LEMMA QuotaSteps ==
  ASSUME CopiesInv, NEW r \in Requests, IngestInv(r), slipped' \in BOOLEAN,
         Arrive(r) \/ KnowTier(r) \/ KnowRoom(r) \/ QuotaUnknown(r)
  PROVE  IngestKept(r)
<1>0. RowTypes /\ KnownInv(r) /\ FetchedInv(r) /\ stored.tier \in Tiers
  BY DEF CopiesInv, RowTypes, StoredRows
<1> DEFINE Before == Stages \ (Published \cup {"done"})
<1>1. {"ingest", "tier", "room", "gate", "publish"} \subseteq Before \ {"settling"}
  BY DEF Stages, Published, Idling, Served, Metered
<1>2. at[r] \in {"tier", "room"} => known[r] \in KnownEvents /\ Looking(r) /\ Key(r) = at[r]
  BY <1>0 DEF KnownInv, Served, Looking, Key
<1>3. CASE Arrive(r)
  <2> PICK p \in Procs, e \in Events :
        Move(r, "tier", [proc |-> p, key |-> "tier", event |-> e, quota |-> Absent])
    BY <1>3 DEF Arrive
  <2> DEFINE k == [proc |-> p, key |-> "tier", event |-> e, quota |-> Absent]
  <2>1. at[r] = "ingest" /\ UNCHANGED <<rows, topics, answers>>  BY <1>3 DEF Arrive
  <2>2. at'[r] = "tier" /\ known'[r] = k  BY <1>0, OthersStand
  <2>3. k \in KnownEvents /\ k.key = "tier"
    <3> HIDE DEF Quotas
    <3> QED  BY DEF KnownEvents, EventKeys
  <2>4. KnownInv(r)'  BY <2>2, <2>3 DEF KnownInv, Idling, Served, Metered, Published
  <2>5. Quiet(r)  BY <1>0, <2>1 DEF Quiet, rows, FetchedInv, Looking
  <2>6. IngestInv(r)'  BY <1>1, <2>1, <2>2, IngestRests
  <2> HIDE DEF k
  <2> QED  BY <1>1, <2>4, <2>5, <2>6, QuietStep DEF IngestKept
<1>4. CASE KnowTier(r)
  <2>1. PICK tier \in Tiers :
          LET quota == [days |-> RetentionDays[tier], over |-> FALSE, sure |-> Pays(r)] IN
          /\ Uses(r, "tier", tier)
          /\ IF EvalQuota[tier] = Unlimited THEN AfterQuota(r, quota)
             ELSE Learns(r, "room", "room", quota)
    BY <1>4 DEF KnowTier
  <2> DEFINE quota == [days |-> RetentionDays[tier], over |-> FALSE, sure |-> Pays(r)]
  <2>2. at[r] = "tier" /\ UNCHANGED <<topics, answers>>  BY <1>4 DEF KnowTier
  <2>3. quota \in Quotas /\ (quota.sure => Pays(r)) /\ quota.days = RetentionDays[tier]
    <3>1. RetentionDays[tier] \in {14, 36500}  BY DEF RetentionDays, Tiers
    <3>2. Pays(r) \in BOOLEAN  BY DEF Pays
    <3> QED  BY <3>1, <3>2 DEF Quotas
  <2>4. [value |-> tier] # Absent  BY WrittenDown DEF Words
  <2>5. Pays(r) => RetentionDays[tier] = 36500
    <3> SUFFICES ASSUME Pays(r) PROVE tier # "Free"  BY DEF RetentionDays, Tiers
    <3>1. Agrees("tier", tier)
      BY <1>2, <2>1, <2>2, <2>4, UsesWhatIsStored DEF Pays
    <3> QED  BY <3>1 DEF Agrees, Effective, Pays
  <2> HIDE DEF quota
  <2>6. CASE AfterQuota(r, quota)
    <3>1. PICK s \in {"gate", "publish"} : (\E k : Move(r, s, k)) /\ at'[r] = s /\ KnownInv(r)'
      BY <1>0, <1>2, <2>2, <2>3, <2>5, <2>6, AfterQuotaKnows
    <3>2. CopiesInv'  BY <1>1, <1>2, <2>1, <2>2, <2>4, <3>1, LookupStep
    <3>3. IngestInv(r)'  BY <1>1, <2>2, <3>1, IngestRests
    <3> QED  BY <3>2, <3>3 DEF IngestKept
  <2>7. CASE Learns(r, "room", "room", quota)
    <3>1. "room" \in EventKeys  BY DEF EventKeys
    <3>2. /\ at'[r] = "room" /\ known'[r] \in KnownEvents /\ known'[r].key = "room"
          /\ known'[r].quota = quota
      BY <1>0, <1>2, <2>2, <2>3, <2>7, <3>1, LearnsKnown
    <3>3. KnownInv(r)'
      BY <2>3, <2>5, <3>2 DEF KnownInv, Idling, Served, Metered, Published
    <3>4. \E k : Move(r, "room", k)  BY <2>7 DEF Learns
    <3>5. CopiesInv'  BY <1>1, <1>2, <2>1, <2>2, <2>4, <3>3, <3>4, LookupStep
    <3>6. IngestInv(r)'  BY <1>1, <2>2, <3>2, IngestRests
    <3> QED  BY <3>5, <3>6 DEF IngestKept
  <2> QED  BY <2>1, <2>6, <2>7 DEF quota
<1>5. CASE KnowRoom(r)
  <2>1. PICK room \in {"left", "over"} :
          /\ Uses(r, "room", room)
          /\ AfterQuota(r, [known[r].quota EXCEPT !.over = (room = "over")])
    BY <1>5 DEF KnowRoom
  <2> DEFINE quota == [known[r].quota EXCEPT !.over = (room = "over")]
  <2>2. at[r] = "room" /\ UNCHANGED <<topics, answers>>  BY <1>5 DEF KnowRoom
  <2>3. known[r].quota \in Quotas /\ (known[r].quota.sure => known[r].quota.days = 36500)
    BY <1>0, <2>2 DEF KnownInv, Served
  <2>4. quota \in Quotas /\ (quota.sure => quota.days = 36500)
    <3> DEFINE over == room = "over"
    <3>1. over \in BOOLEAN  OBVIOUS
    <3>2. quota = [known[r].quota EXCEPT !.over = over]  OBVIOUS
    <3> HIDE DEF over, quota
    <3>3. quota \in Quotas  BY <2>3, <3>1, <3>2 DEF Quotas
    <3>4. quota.sure = known[r].quota.sure /\ quota.days = known[r].quota.days
      BY <2>3, <3>2 DEF Quotas
    <3> QED  BY <2>3, <3>3, <3>4
  <2>5. [value |-> room] # Absent  BY WrittenDown DEF Words
  <2> HIDE DEF quota
  <2>6. PICK s \in {"gate", "publish"} : (\E k : Move(r, s, k)) /\ at'[r] = s /\ KnownInv(r)'
    <3>1. AfterQuota(r, quota)  BY <2>1 DEF quota
    <3> QED  BY <1>0, <1>2, <2>2, <2>4, <3>1, AfterQuotaKnows
  <2>7. CopiesInv'  BY <1>1, <1>2, <2>1, <2>2, <2>5, <2>6, LookupStep
  <2>8. IngestInv(r)'  BY <1>1, <2>2, <2>6, IngestRests
  <2> QED  BY <2>7, <2>8 DEF IngestKept
<1>6. CASE QuotaUnknown(r)
  <2>1. at[r] \in {"tier", "room"} /\ Missed(r) /\ UNCHANGED <<rows, topics, answers>>
        /\ AfterQuota(r, FailOpen(stored.tier # "Free"))
    BY <1>6 DEF QuotaUnknown
  <2>2. FailOpen(stored.tier # "Free") \in Quotas /\ FailOpen(stored.tier # "Free").days = 36500
    BY DEF FailOpen, Quotas
  <2>3. PICK s \in {"gate", "publish"} : (\E k : Move(r, s, k)) /\ at'[r] = s /\ KnownInv(r)'
    BY <1>0, <1>2, <2>1, <2>2, AfterQuotaKnows
  <2>4. Quiet(r)  BY <2>1 DEF Quiet, rows, Missed
  <2>5. CopiesInv'  BY <1>1, <2>3, <2>4, QuietStep
  <2>6. IngestInv(r)'  BY <1>1, <2>1, <2>3, IngestRests
  <2> QED  BY <2>5, <2>6 DEF IngestKept
<1> QED  BY <1>3, <1>4, <1>5, <1>6

\* A request that is answered before it publishes, or after.
LEMMA AnsweredKept ==
  ASSUME RowTypes, IngestDomains, NEW r \in Requests, IngestInv(r), NEW a, Answered(r, a),
         UNCHANGED topics, at[r] # "done",
         \/ a = "refused" /\ traces[r] = Absent
         \/ a \in {"ok", "late"} /\ traces[r] # Absent
  PROVE  /\ at'[r] = "done" /\ KnownInv(r)' /\ IngestInv(r)' /\ Move(r, "done", Absent)
         /\ answers' = [answers EXCEPT ![r] = a]
<1>1. Move(r, "done", Absent) /\ answers' = [answers EXCEPT ![r] = a]  BY DEF Answered, Leave
<1>2. at'[r] = "done" /\ known'[r] = Absent  BY <1>1, OthersStand
<1>3. answers'[r] = a  BY <1>1 DEF IngestDomains
<1>4. KnownInv(r)'  BY <1>2, LeavingKnows
<1>5. "refused" # "ok" /\ "refused" # "late" /\ r \notin scans  BY DEF IngestInv
<1>6. IngestInv(r)'  BY <1>2, <1>3, <1>5 DEF IngestInv, Published, topics
<1> QED  BY <1>1, <1>2, <1>4, <1>6

\* The gate, and the publication of the trace.
LEMMA PublishSteps ==
  ASSUME CopiesInv, IngestDomains, NEW r \in Requests, IngestInv(r), slipped' \in BOOLEAN,
         Gate(r) \/ NoPolicy(r) \/ Publish(r) \/ Refuse(r)
  PROVE  IngestKept(r)
<1>0. RowTypes /\ KnownInv(r) /\ FetchedInv(r)  BY DEF CopiesInv
<1>1. {"gate", "publish", "guard", "evaluate"} \subseteq Metered
      /\ {"publish", "evaluate", "done"} \subseteq Stages \ {"settling"}
      /\ {"gate", "publish"} \subseteq Stages \ (Published \cup {"done"})
      /\ "none" \in EventKeys /\ "guard" \in Published
  BY DEF Stages, Published, Idling, Served, Metered, EventKeys
<1>2. CASE Gate(r)
  <2>1. PICK policy \in Policies : Uses(r, Event(r).security, policy) /\ Goes(r, "publish", "none")
    BY <1>2 DEF Gate
  <2>2. at[r] = "gate" /\ UNCHANGED <<topics, answers>>  BY <1>2 DEF Gate
  <2>3. Looking(r) /\ Key(r) = Event(r).security  BY <1>0, <2>2 DEF Looking, KnownInv, Key, Event
  <2>4. KnownInv(r)' /\ at'[r] = "publish" /\ Move(r, "publish", [known[r] EXCEPT !.key = "none"])
    BY <1>0, <1>1, <2>1, <2>2, GoesKnows
  <2>5. [value |-> policy] # Absent  BY WrittenDown DEF Words
  <2>6. CopiesInv'
    <3> DEFINE k == [known[r] EXCEPT !.key = "none"]
    <3>1. Move(r, "publish", k)  BY <2>4
    <3> HIDE DEF k
    <3> QED  BY <1>1, <2>1, <2>3, <2>4, <2>5, <3>1, LookupStep
  <2>7. IngestInv(r)'  BY <1>1, <2>2, <2>4, IngestRests
  <2> QED  BY <2>6, <2>7 DEF IngestKept
<1>3. CASE NoPolicy(r)
  <2>1. /\ at[r] \in {"gate", "guard"} /\ Missed(r) /\ UNCHANGED <<rows, topics>>
        /\ Answered(r, IF at[r] = "gate" THEN "refused" ELSE "late")
    BY <1>3 DEF NoPolicy
  <2>2. at[r] = "gate" => traces[r] = Absent  BY <1>1 DEF IngestInv
  <2>3. at[r] = "guard" => traces[r] # Absent  BY <1>1 DEF IngestInv
  <2>4. KnownInv(r)' /\ IngestInv(r)' /\ Move(r, "done", Absent)
    BY <1>0, <2>1, <2>2, <2>3, AnsweredKept
  <2>5. Quiet(r)  BY <2>1 DEF Quiet, rows, Missed
  <2>6. CopiesInv'  BY <1>1, <2>4, <2>5, QuietStep
  <2> QED  BY <2>4, <2>6 DEF IngestKept
<1>4. CASE Publish(r)
  <2>1. /\ at[r] = "publish" /\ Goes(r, "evaluate", "none")
        /\ traces' = [traces EXCEPT ![r] = [days |-> known[r].quota.days, paid |-> known[r].quota.sure]]
        /\ UNCHANGED <<rows, evals, scans, answers>>
    BY <1>4 DEF Publish
  <2>2. KnownInv(r)' /\ at'[r] = "evaluate" /\ Move(r, "evaluate", [known[r] EXCEPT !.key = "none"])
    BY <1>0, <1>1, <2>1, GoesKnows
  <2>3. Quiet(r)  BY <1>0, <2>1 DEF Quiet, rows, FetchedInv, Looking
  <2>4. CopiesInv'
    <3> DEFINE k == [known[r] EXCEPT !.key = "none"]
    <3>1. Move(r, "evaluate", k)  BY <2>2
    <3> HIDE DEF k
    <3> QED  BY <1>1, <2>2, <2>3, <3>1, QuietStep
  <2>5. known[r].quota \in Quotas /\ (known[r].quota.sure => known[r].quota.days = 36500)
    BY <1>0, <2>1 DEF KnownInv, Served, Metered
  <2> DEFINE stamp == [days |-> known[r].quota.days, paid |-> known[r].quota.sure]
  <2>6. stamp \in Stamps /\ (stamp.paid => stamp.days = 36500)  BY <2>5 DEF Quotas, Stamps
  <2>7. stamp # Absent  BY <2>6, NoEventAssumption
  <2>8. traces'[r] = stamp  BY <2>1 DEF IngestDomains
  <2>9. /\ traces[r] = Absent /\ evals[r] = 0 /\ answers[r] = Absent /\ r \notin scans
    BY <1>1, <2>1 DEF IngestInv
  <2> HIDE DEF stamp
  <2>10. IngestInv(r)'
    BY <2>1, <2>2, <2>6, <2>7, <2>8, <2>9, NoEventAssumption DEF IngestInv, Published
  <2> QED  BY <2>4, <2>10 DEF IngestKept
<1>5. CASE Refuse(r)
  <2>1. at[r] = "publish" /\ Answered(r, "refused") /\ UNCHANGED <<rows, topics>>
    BY <1>5 DEF Refuse
  <2>2. traces[r] = Absent  BY <1>1, <2>1 DEF IngestInv
  <2>3. KnownInv(r)' /\ IngestInv(r)' /\ Move(r, "done", Absent)
    BY <1>0, <2>1, <2>2, AnsweredKept
  <2>4. Quiet(r)  BY <1>0, <2>1 DEF Quiet, rows, FetchedInv, Looking
  <2>5. CopiesInv'  BY <1>1, <2>3, <2>4, QuietStep
  <2> QED  BY <2>3, <2>5 DEF IngestKept
<1> QED  BY <1>2, <1>3, <1>4, <1>5

\* What a published trace goes on with.
LEMMA GoesOn ==
  ASSUME CopiesInv, NEW r \in Requests, slipped' \in BOOLEAN, at[r] \in Published,
         NEW s \in Published, NEW key \in EventKeys, Goes(r, s, key),
         s = "rules" => key = "rules",
         s = "guard" => key = Event(r).security /\ key \in {"default", "named"},
         \/ Quiet(r)
         \/ \E v : Looking(r) /\ [value |-> v] # Absent /\ Uses(r, Key(r), v)
  PROVE  CopiesInv' /\ at'[r] = s /\ Event(r)' = Event(r)
<1>0. RowTypes /\ KnownInv(r)  BY DEF CopiesInv
<1>1. /\ Published \subseteq Metered /\ Published \subseteq Stages \ {"settling"}
      /\ "gate" \notin Published
  BY DEF Stages, Published, Idling, Served, Metered
<1> DEFINE k == [known[r] EXCEPT !.key = key]
<1>2. KnownInv(r)' /\ at'[r] = s /\ Event(r)' = Event(r) /\ Move(r, s, k)
  BY <1>0, <1>1, GoesKnows
<1> HIDE DEF k
<1>3. CASE Quiet(r)  BY <1>1, <1>2, <1>3, QuietStep
<1>4. CASE \E v : Looking(r) /\ [value |-> v] # Absent /\ Uses(r, Key(r), v)
  <2>1. PICK v : Looking(r) /\ [value |-> v] # Absent /\ Uses(r, Key(r), v)  BY <1>4
  <2> QED  BY <1>1, <1>2, <2>1, LookupStep
<1> QED  BY <1>2, <1>3, <1>4

\* An evaluation is published, or none is.
LEMMA OrderedIsQuiet ==
  ASSUME CopiesInv, NEW r \in Requests, at[r] \in {"evaluate", "order"},
         \/ Bump(r) /\ UNCHANGED <<stored, fetched, overtaken, excused, asked>>
         \/ UNCHANGED rows
  PROVE  Quiet(r)
<1>1. KnownInv(r) /\ FetchedInv(r)  BY DEF CopiesInv
<1>2. known[r] \in KnownEvents /\ fetched[r] = Absent
  BY <1>1 DEF KnownInv, Served, Metered, Published, FetchedInv, Looking
<1>3. P(r) \in Procs  BY <1>2 DEF KnownEvents, P
<1> QED  BY <1>2, <1>3 DEF Quiet, Bump, rows

\* The evaluation that the event asks for, or that a rule orders.
LEMMA EvaluationSteps ==
  ASSUME CopiesInv, IngestDomains, NEW r \in Requests, IngestInv(r), slipped' \in BOOLEAN,
         Evaluate(r) \/ EvaluateFails(r) \/ Online(r) \/ ApplyRules(r) \/ OrderScore(r)
  PROVE  IngestKept(r)
<1>0. RowTypes /\ KnownInv(r) /\ FetchedInv(r)  BY DEF CopiesInv
<1>1. {"evaluate", "online", "rules", "order", "secure"} \subseteq Published
      /\ {"none", "rules"} \subseteq EventKeys /\ "done" \in Stages \ {"settling"}
  BY DEF Published, EventKeys, Stages, Idling
<1>2. at[r] \in {"evaluate", "online", "rules", "order"} =>
        traces[r] # Absent /\ evals[r] = 0 /\ answers[r] = Absent /\ r \notin scans
  BY <1>1 DEF IngestInv
<1>3. CASE Evaluate(r)
  <2>1. /\ at[r] = "evaluate" /\ UNCHANGED <<traces, scans, answers>>
        /\ Goes(r, IF Ordered(r) THEN "secure" ELSE "online", "none")
        /\ IF Ordered(r)
             THEN /\ evals' = [evals EXCEPT ![r] = @ + 1] /\ Bump(r)
                  /\ UNCHANGED <<stored, fetched, overtaken, excused, asked>>
             ELSE UNCHANGED <<rows, evals>>
    BY <1>3 DEF Evaluate, AfterScore
  <2>2. Quiet(r)  BY <2>1, OrderedIsQuiet
  <2>3. CASE Ordered(r)
    <3>1. CopiesInv' /\ at'[r] = "secure" /\ Event(r)' = Event(r)  BY <1>1, <2>1, <2>2, <2>3, GoesOn
    <3>2. evals'[r] = 1  BY <1>2, <2>1, <2>3 DEF IngestDomains
    <3>3. ~Event(r).running  BY <2>3 DEF Ordered, Evaluated
    <3>4. IngestInv(r)'  BY <1>1, <1>2, <2>1, <3>1, <3>2, <3>3 DEF IngestInv
    <3> QED  BY <3>1, <3>4 DEF IngestKept
  <2>4. CASE ~Ordered(r)
    <3>1. CopiesInv' /\ at'[r] = "online" /\ Event(r)' = Event(r)  BY <1>1, <2>1, <2>2, <2>4, GoesOn
    <3>2. evals' = evals  BY <2>1, <2>4
    <3>3. IngestInv(r)'  BY <1>1, <1>2, <2>1, <3>1, <3>2 DEF IngestInv
    <3> QED  BY <3>1, <3>3 DEF IngestKept
  <2> QED  BY <2>3, <2>4
<1>4. CASE EvaluateFails(r)
  <2>1. at[r] = "evaluate" /\ Answered(r, "late") /\ UNCHANGED <<rows, topics>>
    BY <1>4 DEF EvaluateFails
  <2>2. KnownInv(r)' /\ IngestInv(r)' /\ Move(r, "done", Absent)
    BY <1>0, <1>2, <2>1, AnsweredKept
  <2>3. Quiet(r)  BY <2>1, OrderedIsQuiet
  <2>4. CopiesInv'  BY <1>1, <2>2, <2>3, QuietStep
  <2> QED  BY <2>2, <2>4 DEF IngestKept
<1>5. CASE Online(r)
  <2>1. at[r] = "online" /\ UNCHANGED <<rows, topics, answers>>
        /\ IF Event(r).running \/ known[r].quota.over
             THEN Goes(r, "secure", "none") ELSE Goes(r, "rules", "rules")
    BY <1>5 DEF Online
  <2>2. Quiet(r)  BY <1>0, <2>1 DEF Quiet, rows, FetchedInv, Looking
  <2>3. PICK s \in {"secure", "rules"} :
          CopiesInv' /\ at'[r] = s /\ Event(r)' = Event(r) /\ (s = "rules" => ~Event(r).running)
    <3>1. CASE Event(r).running \/ known[r].quota.over  BY <1>1, <2>1, <2>2, <3>1, GoesOn
    <3>2. CASE ~(Event(r).running \/ known[r].quota.over)  BY <1>1, <2>1, <2>2, <3>2, GoesOn
    <3> QED  BY <3>1, <3>2
  <2>4. IngestInv(r)'  BY <1>1, <1>2, <2>1, <2>3 DEF IngestInv, topics
  <2> QED  BY <2>3, <2>4 DEF IngestKept
<1>6. CASE ApplyRules(r)
  <2>1. at[r] = "rules" /\ UNCHANGED <<topics, answers>>  BY <1>6 DEF ApplyRules
  <2>2. PICK rules \in {Copy(r, "rules")} \cup (IF fetched[r] = Absent THEN {} ELSE {fetched[r].value}) :
          /\ Uses(r, "rules", rules)
          /\ Goes(r, IF Selectable(rules, Event(r)) = {} THEN "secure" ELSE "order", "none")
    BY <1>6 DEF ApplyRules
  <2>3. Looking(r) /\ Key(r) = "rules" /\ P(r) \in Procs
    BY <1>0, <2>1, KnowsItsCopy DEF Looking, KnownInv, Key
  <2>4. [value |-> rules] # Absent
    <3>1. CASE rules = Copy(r, "rules")
      <4>1. rules \in CopiesOf("rules") \cup {Absent}
        BY <1>0, <2>3, <3>1 DEF RowTypes, Copy, Settings
      <4> QED  BY <4>1, CopiesWrittenDown DEF Settings
    <3>2. CASE fetched[r] # Absent /\ rules = fetched[r].value
      BY <1>0, <3>2 DEF FetchedInv
    <3> QED  BY <2>2, <3>1, <3>2
  <2>5. PICK s \in {"secure", "order"} : CopiesInv' /\ at'[r] = s /\ Event(r)' = Event(r)
    <3>1. CASE Selectable(rules, Event(r)) = {}  BY <1>1, <2>1, <2>2, <2>3, <2>4, <3>1, GoesOn
    <3>2. CASE Selectable(rules, Event(r)) # {}  BY <1>1, <2>1, <2>2, <2>3, <2>4, <3>2, GoesOn
    <3> QED  BY <3>1, <3>2
  <2>6. ~Event(r).running  BY <2>1 DEF IngestInv
  <2>7. IngestInv(r)'  BY <1>1, <1>2, <2>1, <2>5, <2>6 DEF IngestInv, topics
  <2> QED  BY <2>5, <2>7 DEF IngestKept
<1>7. CASE OrderScore(r)
  <2>1. /\ at[r] = "order" /\ UNCHANGED <<traces, scans, answers>> /\ Goes(r, "secure", "none")
        /\ \/ /\ evals' = [evals EXCEPT ![r] = @ + 1] /\ Bump(r)
              /\ UNCHANGED <<stored, fetched, overtaken, excused, asked>>
           \/ UNCHANGED <<rows, evals>>
    BY <1>7 DEF OrderScore
  <2>2. Quiet(r)  BY <2>1, OrderedIsQuiet
  <2>3. CopiesInv' /\ at'[r] = "secure" /\ Event(r)' = Event(r)  BY <1>1, <2>1, <2>2, GoesOn
  <2>4. evals'[r] \in {0, 1}
    <3>1. evals' = [evals EXCEPT ![r] = evals[r] + 1] \/ evals' = evals  BY <2>1
    <3> QED  BY <1>2, <2>1, <3>1 DEF IngestDomains
  <2>5. ~Event(r).running  BY <2>1 DEF IngestInv
  <2>6. IngestInv(r)'  BY <1>1, <1>2, <2>1, <2>3, <2>4, <2>5 DEF IngestInv
  <2> QED  BY <2>3, <2>6 DEF IngestKept
<1> QED  BY <1>3, <1>4, <1>5, <1>6, <1>7

\* The scan of a trace that is published.
LEMMA ScanSteps ==
  ASSUME CopiesInv, IngestDomains, NEW r \in Requests, IngestInv(r), slipped' \in BOOLEAN,
         Secure(r) \/ Scan(r)
  PROVE  IngestKept(r)
<1>0. RowTypes /\ KnownInv(r) /\ FetchedInv(r)  BY DEF CopiesInv
<1>1. {"secure", "guard"} \subseteq Published /\ "done" \in Stages \ {"settling"}
  BY DEF Published, Stages, Idling
<1>2. at[r] \in {"secure", "guard"} =>
        traces[r] # Absent /\ answers[r] = Absent /\ r \notin scans
  BY <1>1 DEF IngestInv
<1>3. CASE Secure(r)
  <2>1. at[r] = "secure" /\ UNCHANGED <<rows, topics>>  BY <1>3 DEF Secure
  <2>2. Quiet(r)  BY <1>0, <2>1 DEF Quiet, rows, FetchedInv, Looking
  <2>3. CASE Answered(r, "ok")
    <3>1. KnownInv(r)' /\ IngestInv(r)' /\ Move(r, "done", Absent)
      BY <1>0, <1>2, <2>1, <2>3, AnsweredKept
    <3>2. CopiesInv'  BY <1>1, <2>2, <3>1, QuietStep
    <3> QED  BY <3>1, <3>2 DEF IngestKept
  <2>4. CASE Goes(r, "guard", Event(r).security) /\ UNCHANGED answers /\ Event(r).security # Absent
    <3>1. known[r] \in KnownEvents  BY <1>0, <2>1 DEF KnownInv, Served, Metered, Published
    <3>2. Event(r).security \in {"default", "named"}
      BY <2>4, <3>1, EventsAssumption DEF Event, KnownEvents
    <3>3. Event(r).security \in EventKeys  BY <3>2 DEF EventKeys
    <3>4. CopiesInv' /\ at'[r] = "guard" /\ Event(r)' = Event(r)
      BY <1>1, <2>1, <2>2, <2>4, <3>2, <3>3, GoesOn
    <3>5. IngestInv(r)'  BY <1>1, <1>2, <2>1, <2>4, <3>4 DEF IngestInv, topics
    <3> QED  BY <3>4, <3>5 DEF IngestKept
  <2> QED  BY <1>3, <2>3, <2>4 DEF Secure
<1>4. CASE Scan(r)
  <2>1. PICK policy \in Policies : Uses(r, Event(r).security, policy)  BY <1>4 DEF Scan
  <2>2. /\ at[r] = "guard" /\ UNCHANGED <<traces, evals>>
        /\ \/ scans' = scans \cup {r} /\ Answered(r, "ok")
           \/ UNCHANGED scans /\ Answered(r, "late")
    BY <1>4 DEF Scan
  <2>3. Looking(r) /\ Key(r) = Event(r).security  BY <1>0, <2>2 DEF Looking, KnownInv, Key, Event
  <2>4. [value |-> policy] # Absent  BY WrittenDown DEF Words
  <2>5. PICK a \in {"ok", "late"} : Answered(r, a) /\ (r \in scans' => a = "ok")
    BY <1>2, <2>2
  <2>6. Move(r, "done", Absent) /\ answers' = [answers EXCEPT ![r] = a]
    BY <2>5 DEF Answered, Leave
  <2>7. at'[r] = "done" /\ known'[r] = Absent  BY <1>0, <2>6, OthersStand
  <2>8. KnownInv(r)'  BY <2>7, LeavingKnows
  <2>9. CopiesInv'  BY <1>1, <2>1, <2>3, <2>4, <2>6, <2>8, LookupStep
  <2>10. answers'[r] = a  BY <2>6 DEF IngestDomains
  <2>11. IngestInv(r)'  BY <1>2, <2>2, <2>5, <2>7, <2>10 DEF IngestInv, Published
  <2> QED  BY <2>9, <2>11 DEF IngestKept
<1> QED  BY <1>3, <1>4

\* A request with an event touches what is its own, and copies.
LEMMA IngestTouches ==
  ASSUME RowTypes, IngestDomains, NEW r \in Requests, IngestStep(r)
  PROVE  /\ stored' = stored /\ slipped' = slipped /\ IngestDomains'
         /\ \A q \in Requests : q # r =>
              /\ at'[q] = at[q] /\ known'[q] = known[q] /\ traces'[q] = traces[q]
              /\ evals'[q] = evals[q] /\ answers'[q] = answers[q]
              /\ (q \in scans' <=> q \in scans)
<1>1. \E s : \E k : Move(r, s, k)
  <2>1. CASE Arrive(r)  BY <2>1 DEF Arrive
  <2>2. CASE KnowTier(r) \/ KnowRoom(r) \/ QuotaUnknown(r)
    BY <2>2 DEF KnowTier, KnowRoom, QuotaUnknown, AfterQuota, Learns
  <2>3. CASE Gate(r) \/ Publish(r) \/ Online(r) \/ OrderScore(r)
    BY <2>3 DEF Gate, Publish, Online, OrderScore, Goes
  <2>4. CASE Evaluate(r) \/ ApplyRules(r)  BY <2>4 DEF Evaluate, AfterScore, ApplyRules, Goes
  <2>5. CASE NoPolicy(r) \/ Refuse(r) \/ EvaluateFails(r) \/ Secure(r) \/ Scan(r)
    BY <2>5 DEF NoPolicy, Refuse, EvaluateFails, Secure, Scan, Answered, Leave, Goes
  <2> QED  BY <2>1, <2>2, <2>3, <2>4, <2>5 DEF IngestStep
<1>2. \A q \in Requests : q # r => at'[q] = at[q] /\ known'[q] = known[q]  BY <1>1, OthersStand
<1>3. stored' = stored /\ slipped' = slipped
  BY DEF IngestStep, Arrive, KnowTier, KnowRoom, QuotaUnknown, Gate, NoPolicy, Publish, Refuse,
         Evaluate, EvaluateFails, Online, ApplyRules, OrderScore, Secure, Scan, Uses, rows
<1>4. \E v : traces' = traces \/ traces' = [traces EXCEPT ![r] = v]
  BY DEF IngestStep, Arrive, KnowTier, KnowRoom, QuotaUnknown, Gate, NoPolicy, Publish, Refuse,
         Evaluate, EvaluateFails, Online, ApplyRules, OrderScore, Secure, Scan, topics
<1>5. evals' = evals \/ evals' = [evals EXCEPT ![r] = evals[r] + 1]
  BY DEF IngestStep, Arrive, KnowTier, KnowRoom, QuotaUnknown, Gate, NoPolicy, Publish, Refuse,
         Evaluate, EvaluateFails, Online, ApplyRules, OrderScore, Secure, Scan, topics
<1>6. \E v : answers' = answers \/ answers' = [answers EXCEPT ![r] = v]
  BY DEF IngestStep, Arrive, KnowTier, KnowRoom, QuotaUnknown, Gate, NoPolicy, Publish, Refuse,
         Evaluate, EvaluateFails, Online, ApplyRules, OrderScore, Secure, Scan, Answered
<1>7. scans' = scans \/ scans' = scans \cup {r}
  BY DEF IngestStep, Arrive, KnowTier, KnowRoom, QuotaUnknown, Gate, NoPolicy, Publish, Refuse,
         Evaluate, EvaluateFails, Online, ApplyRules, OrderScore, Secure, Scan, topics
<1>8. traces' = [q \in Requests |-> traces'[q]] /\ \A q \in Requests : q # r => traces'[q] = traces[q]
  <2>1. PICK v : traces' = traces \/ traces' = [traces EXCEPT ![r] = v]  BY <1>4
  <2> QED  BY <2>1 DEF IngestDomains
<1>9. evals' = [q \in Requests |-> evals'[q]] /\ \A q \in Requests : q # r => evals'[q] = evals[q]
  BY <1>5 DEF IngestDomains
<1>10. answers' = [q \in Requests |-> answers'[q]]
       /\ \A q \in Requests : q # r => answers'[q] = answers[q]
  <2>1. PICK v : answers' = answers \/ answers' = [answers EXCEPT ![r] = v]  BY <1>6
  <2> QED  BY <2>1 DEF IngestDomains
<1> QED  BY <1>2, <1>3, <1>7, <1>8, <1>9, <1>10 DEF IngestDomains

-----------------------------------------------------------------------------
(* The invariant. *)

LEMMA CachesStart == Init => CachesInv
<1> SUFFICES ASSUME Init PROVE CachesInv  OBVIOUS
<1>1. /\ cache = [p \in Procs |-> [k \in Settings \cup {"room"} |-> Absent]]
      /\ known = [r \in Requests |-> Absent] /\ fetched = known
      /\ overtaken = {} /\ excused = {} /\ slipped = FALSE
      /\ traces = known /\ answers = known
      /\ evals = [r \in Requests |-> 0] /\ scans = {}
  BY DEF Init, CachesInit
<1>2. stored \in Stored /\ asked \in SUBSET Settings
      /\ at \in [Requests -> {"read", "write", "ingest", "done"}]
  <2>1. CASE part = "caches"  BY <2>1, BeginningsAssumption DEF Init
  <2>2. CASE part # "caches"
    <3>1. stored = (CHOOSE s \in Stored : TRUE) /\ asked = {}
          /\ at = [r \in Requests |-> "done"]
      BY <2>2 DEF Init
    <3>2. Stored # {}  BY BeginningsAssumption
    <3>3. stored \in Stored  BY <3>1, <3>2
    <3> HIDE DEF Settings
    <3> QED  BY <3>1, <3>3
  <2> QED  BY <2>1, <2>2
<1>3. stored \in StoredRows /\ Cardinality(Present(stored.rules)) <= MaxRules
      /\ \A x \in Present(stored.rules) : Scores(stored.rules[x])
  BY <1>2, BeginningsAssumption DEF StoredRows
<1>4. RowTypes
  <2>1. at \in [Requests -> Stages]  BY <1>2 DEF Stages, Idling
  <2>2. cache = [p \in Procs |-> [k \in Settings \cup {"room"} |-> cache[p][k]]]
        /\ \A p \in Procs, k \in Settings \cup {"room"} : cache[p][k] \in CopiesOf(k) \cup {Absent}
    <3> HIDE DEF Settings
    <3> QED  BY <1>1
  <2>3. known = [r \in Requests |-> known[r]] /\ fetched = [r \in Requests |-> fetched[r]]  BY <1>1
  <2> QED  BY <1>1, <1>2, <1>3, <2>1, <2>2, <2>3 DEF RowTypes
<1>5. \A p \in Procs, k \in Settings : cache[p][k] = Absent  BY <1>1
<1>6. CachesAgree  BY <1>5 DEF CachesAgree
<1>7. \A r \in Requests : KnownInv(r) /\ FetchedInv(r) /\ OvertakenInv(r) /\ SettlingInv(r)
  <2> TAKE r \in Requests
  <2>1. at[r] \in Idling /\ known[r] = Absent /\ fetched[r] = Absent /\ r \notin overtaken
    BY <1>1, <1>2 DEF Idling
  <2>2. KnownInv(r)  BY <2>1 DEF KnownInv, Idling, Served, Metered, Published
  <2> QED  BY <2>1, <2>2 DEF FetchedInv, OvertakenInv, SettlingInv, Idling
<1>8. RulesInBounds  BY <1>3 DEF RulesInBounds, Scores
<1>9. IngestDomains  BY <1>1 DEF IngestDomains
<1>10. \A r \in Requests : IngestInv(r)
  <2> TAKE r \in Requests
  <2>1. /\ traces[r] = Absent /\ answers[r] = Absent /\ evals[r] = 0 /\ r \notin scans
        /\ at[r] \in {"read", "write", "ingest", "done"}
    BY <1>1, <1>2
  <2>2. Absent \notin {"ok", "refused", "late"}  BY NoEventAssumption
  <2> QED  BY <2>1, <2>2 DEF IngestInv, Published
<1> QED  BY <1>4, <1>6, <1>7, <1>8, <1>9, <1>10 DEF CachesInv, CopiesInv

\* Another part's step changes nothing of this one.
LEMMA CachesFrame ==
  ASSUME CachesInv, UNCHANGED ingestVars
  PROVE  CachesInv'
<1>1. /\ UNCHANGED <<stored, cache, at, known, fetched, overtaken, excused, asked, slipped>>
      /\ UNCHANGED <<traces, evals, scans, answers>>
  BY DEF ingestVars, ruleVars, cacheVars, rows
<1>2. RowTypes'  BY <1>1 DEF CachesInv, CopiesInv, RowTypes
<1>3. CachesAgree'  BY <1>1, CopiesKeep DEF CachesInv, CopiesInv
<1>4. \A r \in Requests : KnownInv(r)' /\ FetchedInv(r)' /\ OvertakenInv(r)' /\ SettlingInv(r)'
  BY <1>1, OthersKeep DEF CachesInv, CopiesInv
<1>5. \A r \in Requests : IngestInv(r)'  BY <1>1, IngestFrame DEF CachesInv
<1>6. RulesInBounds' /\ IngestDomains'
  BY <1>1 DEF CachesInv, RulesInBounds, Present, IngestDomains
<1> QED  BY <1>2, <1>3, <1>4, <1>5, <1>6 DEF CachesInv, CopiesInv

LEMMA CachesNextKeeps ==
  ASSUME CachesInv, CachesNext
  PROVE  CachesInv'
<1> USE DEF CachesInv
<1>0. RowTypes /\ slipped \in BOOLEAN  BY DEF CopiesInv, RowTypes
<1>1. ASSUME NEW r \in Requests, CachesStep(r), UNCHANGED <<slipped, topics, answers>>
      PROVE  CachesInv'
  <2>1. CopiesInv'  BY <1>0, <1>1, CachesStepKeeps
  <2>2. stored'.rules = stored.rules  BY <1>1, RulesStay
  <2>3. RulesInBounds'  BY <1>1, <2>2 DEF RulesInBounds, Present
  <2>4. IngestDomains'  BY <1>1 DEF IngestDomains, topics
  <2>5. \A q \in Requests : IngestInv(q)'
    <3> TAKE q \in Requests
    <3>1. CASE at'[q] = at[q] /\ known'[q] = known[q]  BY <1>1, <3>1, IngestFrame DEF topics
    <3>2. CASE q = r  BY <1>1, <3>1, <3>2, SettingsBringNothing, IngestRests
    <3> QED  BY <1>1, <3>1, <3>2, SettingsBringNothing
  <2> QED  BY <2>1, <2>3, <2>4, <2>5
<1>2. ASSUME NEW r \in Requests, RulesStep(r), UNCHANGED <<topics, answers>>
      PROVE  CachesInv'
  <2>1. CopiesInv'  BY <1>0, <1>2, RulesStepKeeps
  <2>2. RulesInBounds'  BY <1>0, <1>2, RulesStayInBounds
  <2>3. IngestDomains'  BY <1>2 DEF IngestDomains, topics
  <2>4. \A q \in Requests : IngestInv(q)'
    <3> TAKE q \in Requests
    <3>1. CASE at'[q] = at[q] /\ known'[q] = known[q]  BY <1>2, <3>1, IngestFrame DEF topics
    <3>2. CASE q = r  BY <1>2, <3>1, <3>2, SettingsBringNothing, IngestRests
    <3> QED  BY <1>2, <3>1, <3>2, SettingsBringNothing
  <2> QED  BY <2>1, <2>2, <2>3, <2>4
<1>3. ASSUME NEW r \in Requests, IngestStep(r)
      PROVE  CachesInv'
  <2>1. /\ stored' = stored /\ slipped' = slipped /\ IngestDomains'
        /\ \A q \in Requests : q # r =>
             /\ at'[q] = at[q] /\ known'[q] = known[q] /\ traces'[q] = traces[q]
             /\ evals'[q] = evals[q] /\ answers'[q] = answers[q]
             /\ (q \in scans' <=> q \in scans)
    BY <1>0, <1>3, IngestTouches
  <2>2. IngestKept(r)
    BY <1>0, <1>3, <2>1, QuotaSteps, PublishSteps, EvaluationSteps, ScanSteps DEF IngestStep
  <2>3. \A q \in Requests : IngestInv(q)'  BY <2>1, <2>2, IngestFrame DEF IngestKept
  <2>4. RulesInBounds'  BY <2>1 DEF RulesInBounds, Present
  <2> QED  BY <2>1, <2>2, <2>3, <2>4 DEF IngestKept
<1>4. ASSUME Expire \/ Restart, UNCHANGED <<slipped, topics, answers>>
      PROVE  CachesInv'
  <2>1. CopiesInv'  BY <1>0, <1>4, ExpireStep, RestartStep
  <2>2. stored' = stored  BY <1>4 DEF Expire, Restart
  <2>3. RulesInBounds'  BY <1>4, <2>2 DEF RulesInBounds, Present
  <2>4. IngestDomains'  BY <1>4 DEF IngestDomains, topics
  <2>5. \A q \in Requests : at'[q] = "done" \/ (at'[q] = at[q] /\ known'[q] = known[q])
    <3>1. CASE Expire  BY <3>1 DEF Expire
    <3>2. CASE Restart
      <4>1. PICK p \in Procs :
              /\ at' = [r \in Requests |-> IF r \in Serves(p) THEN "done" ELSE at[r]]
              /\ known' = [r \in Requests |-> IF r \in Serves(p) THEN Absent ELSE known[r]]
        BY <3>2 DEF Restart
      <4> QED  BY <4>1
    <3> QED  BY <1>4, <3>1, <3>2
  <2>6. \A q \in Requests : IngestInv(q)'
    <3> TAKE q \in Requests
    <3>1. CASE at'[q] = at[q] /\ known'[q] = known[q]  BY <1>4, <3>1, IngestFrame DEF topics
    <3>2. CASE at'[q] = "done"  BY <1>4, <3>2, IngestRests
    <3> QED  BY <2>5, <3>1, <3>2
  <2> QED  BY <2>1, <2>3, <2>4, <2>6
<1> QED  BY <1>1, <1>2, <1>3, <1>4 DEF CachesNext

LEMMA CachesInvariance == Spec => []CachesInv
<1>1. Init => CachesInv  BY CachesStart
<1>2. CachesInv /\ [Next]_vars => CachesInv'
  <2> SUFFICES ASSUME CachesInv, [Next]_vars PROVE CachesInv'  OBVIOUS
  <2>1. CASE CachesNext  BY <2>1, CachesNextKeeps
  <2>2. CASE UNCHANGED ingestVars  BY <2>2, CachesFrame
  <2> QED  BY <2>1, <2>2 DEF Next, vars
<1> QED  BY <1>1, <1>2, PTL DEF Spec

-----------------------------------------------------------------------------
(* What follows from it. *)

\* The traces that come in are accounted for: what a request was answered is what it
\* published, no trace is graded twice, none that runs or is not there is graded or scanned,
\* and those of an organization that paid when its quota was looked up are kept for good.
THEOREM IngestStaysAccounted == Spec => []IngestAccounted
<1>1. CachesInv => IngestAccounted
  <2> SUFFICES ASSUME CachesInv PROVE IngestAccounted  OBVIOUS
  <2>1. \A r \in Requests : IngestInv(r)  BY DEF CachesInv
  <2> QED  BY <2>1 DEF IngestAccounted, PaidTracesStay, IngestInv
<1> QED  BY <1>1, CachesInvariance, PTL

-----------------------------------------------------------------------------
(* No variable leaves its range. *)

LEMMA KnownIsThere ==
  ASSUME NEW r \in Requests, KnownInv(r), at[r] \in Stages
  PROVE  (known[r] = Absent) = (at[r] \in Idling)
<1>1. CASE at[r] \in Idling  BY <1>1 DEF KnownInv
<1>2. CASE at[r] = "reading"
  BY <1>2, AbsentAssumption DEF KnownInv, Idling
<1>3. CASE at[r] = "settling"
  BY <1>3, AbsentAssumption DEF KnownInv, Idling
<1>4. CASE at[r] \in {"adding", "patching"}
  BY <1>4, NoDraftAssumption DEF KnownInv, Idling
<1>5. CASE at[r] \in Served
  BY <1>5, NoEventAssumption DEF KnownInv, Idling, Served, Metered, Published
<1> QED  BY <1>1, <1>2, <1>3, <1>4, <1>5 DEF Stages

LEMMA CachesTypes ==
  ASSUME CachesInv
  PROVE  CachesTypeOK /\ IngestTypeOK
<1>1. RowTypes /\ \A r \in Requests : KnownInv(r)
  BY DEF CachesInv, CopiesInv
<1>2. /\ stored.tier \in Tiers /\ stored.default \in Policies \cup {Absent}
      /\ stored.named \in Policies \cup {Absent} /\ stored.alerts \in Alerts \cup {Absent}
      /\ stored.rules \in RuleTables
  BY <1>1 DEF RowTypes, StoredRows
<1>3. \A p \in Procs, k \in Settings \cup {"room"} : cache[p][k] \in CopiesOf(k) \cup {Absent}
  BY <1>1 DEF RowTypes
<1>4. ASSUME NEW p \in Procs
      PROVE  /\ cache[p]["tier"] \in Tiers \cup {Absent}
             /\ cache[p]["default"] \in Policies \cup {Absent}
             /\ cache[p]["named"] \in Policies \cup {Absent}
             /\ cache[p]["alerts"] \in Alerts \cup {Absent}
             /\ cache[p]["room"] \in {"left", "over", Absent}
             /\ cache[p]["rules"] = Absent \/ cache[p]["rules"] \subseteq Rules \X RuleRows
  <2>1. /\ CopiesOf("tier") = Tiers /\ CopiesOf("default") = Policies
        /\ CopiesOf("named") = Policies /\ CopiesOf("alerts") = Alerts
        /\ CopiesOf("room") = {"left", "over"} /\ CopiesOf("rules") = RuleSets
    BY DEF CopiesOf
  <2>2. {"tier", "default", "named", "alerts", "room", "rules"} \subseteq Settings \cup {"room"}
    BY DEF Settings
  <2>3. /\ cache[p]["tier"] \in Tiers \cup {Absent}
        /\ cache[p]["default"] \in Policies \cup {Absent}
        /\ cache[p]["named"] \in Policies \cup {Absent}
        /\ cache[p]["alerts"] \in Alerts \cup {Absent}
        /\ cache[p]["room"] \in {"left", "over"} \cup {Absent}
        /\ cache[p]["rules"] \in RuleSets \cup {Absent}
    BY <1>3, <2>1, <2>2
  <2> QED  BY <2>3, RuleSetsAreRows
<1>5. overtaken \subseteq Requests /\ excused \subseteq Procs \X Settings /\ asked \subseteq Settings
  BY <1>1 DEF RowTypes
<1>6. \A r \in Requests : at[r] \in Stages
  BY <1>1 DEF RowTypes
<1>7. \A r \in Requests : (known[r] = Absent) = (at[r] \in {"read", "write", "ingest", "done"})
  BY <1>1, <1>6, KnownIsThere DEF Idling
<1>8. CachesTypeOK
  BY <1>2, <1>4, <1>5, <1>7 DEF CachesTypeOK
<1>9. IngestDomains /\ \A r \in Requests : IngestInv(r)
  BY DEF CachesInv
<1>10. /\ evals \in [Requests -> 0..3]
       /\ answers \in [Requests -> {"ok", "refused", "late", Absent}]
       /\ scans \subseteq Requests
       /\ \A r \in Requests : traces[r] = Absent \/ traces[r] \in Stamps
  BY <1>9 DEF IngestDomains, IngestInv
<1> QED  BY <1>8, <1>10 DEF IngestTypeOK

\* However requests read, write and ingest through the copies of their processes, the
\* copies of every setting agree with what a lookup would return, or are the empty list of
\* risks as it was written, but where named requests overlapped; the rules stay within their limit and
\* score something, unless requests overlapped; and no history, bucket or counter of any
\* part grows past its bound.
THEOREM CachesStayRight == Spec => []CachesHold
<1>1. CachesInv /\ AlertsInv /\ JudgeInv /\ CredentialsInv /\ JudgingInv => CachesHold
  <2> SUFFICES ASSUME CachesInv, AlertsInv, JudgeInv, CredentialsInv, JudgingInv
               PROVE  CachesHold
    OBVIOUS
  <2>1. CachesTypeOK /\ IngestTypeOK  BY CachesTypes
  <2>2. AlertsTypeOK
    BY DEF AlertsInv, AlertTypes, AlertsTypeOK
  <2>3. JudgeTypeOK  BY DEF JudgeInv, JudgeTypes, JudgeTypeOK
  <2>4. CredentialsTypeOK  BY DEF CredentialsInv, CredentialTypes, CredentialsTypeOK
  <2>5. JudgingTypeOK  BY JudgingTypes
  <2>6. CachesAgree /\ RulesInBounds  BY DEF CachesInv, CopiesInv
  <2> QED  BY <2>1, <2>2, <2>3, <2>4, <2>5, <2>6 DEF CachesHold, TypeOK
<1> QED
  BY <1>1, CachesInvariance, AlertsInvariance, JudgeInvariance, CredentialsInvariance,
     JudgingInvariance, PTL
=============================================================================
