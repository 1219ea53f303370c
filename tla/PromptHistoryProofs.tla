------------------------- MODULE PromptHistoryProofs -------------------------
(***************************************************************************)
(* Proofs about PromptHistory, for any number of requests.                 *)
(***************************************************************************)
EXTENDS PromptHistory, TLAPS

\* The row is the newest of the versions the prompt has had.
PastInv ==
  head # NoRow =>
    /\ Snapshot(head) \in past
    /\ \A s \in past : s.version <= head.version

\* What a request carries from one statement to the next.
Carried(r) ==
  /\ stage[r] = "merging" => job[r].kind = "edit" /\ job[r].part \in Sections
  /\ stage[r] = "finding" => job[r].kind = "restore"
  /\ stage[r] \in {"reading", "saving", "writing", "promoting"} =>
       job[r].kind \in {"edit", "restore", "promote"}
  /\ stage[r] \in {"saving", "writing"} => job[r].kind # "promote"
  /\ stage[r] = "promoting" => job[r].kind = "promote"
  /\ job[r].kind = "promote" => job[r].env \in Environments
  /\ stage[r] \in {"saving", "writing", "promoting"} =>
       read[r] \in Heads /\ Snapshot(read[r]) \in past
  /\ stage[r] = "writing" /\ head # NoRow => Snapshot(read[r]) \in history
  /\ stage[r] \in {"reading", "saving", "writing"} /\ job[r].kind = "restore" =>
       \E s \in past : s.version = job[r].version /\ s.body = body[r]

CarriedInv == \A r \in Editors : Carried(r)

IInv == PromptTypeOK /\ PastInv /\ CarriedInv /\ NoTornVersions /\ LostOnlyByOverlap

-----------------------------------------------------------------------------
\* A row's snapshot is a snapshot.
LEMMA SnapshotType ==
  ASSUME NEW h \in Heads
  PROVE  /\ Snapshot(h) \in Snapshots
         /\ Snapshot(h).version = h.version
         /\ Snapshot(h).body = h.body
  BY DEF Heads, Snapshots, Snapshot

LEMMA InitIInv == PromptInit => IInv
<1> SUFFICES ASSUME PromptInit PROVE IInv
  OBVIOUS
<1> USE NamesAssumption
<1>1. NoConfig \in Configs
  BY DEF NoConfig, Configs
<1>2. head \in Heads
  BY <1>1 DEF PromptInit, Heads, Bodies
<1>3. Snapshot(head) \in Snapshots /\ Snapshot(head).version = 1
  BY <1>2, SnapshotType DEF PromptInit
<1>4. PromptTypeOK
  BY <1>1, <1>2, <1>3 DEF PromptInit, PromptTypeOK, Stages, Bodies
<1>5. PastInv
  BY <1>3 DEF PromptInit, PastInv
<1>6. CarriedInv
  BY DEF PromptInit, CarriedInv, Carried, NoJob
<1>7. NoTornVersions /\ LostOnlyByOverlap
  BY <1>3 DEF PromptInit, NoTornVersions, LostOnlyByOverlap
<1> QED
  BY <1>4, <1>5, <1>6, <1>7 DEF IInv

-----------------------------------------------------------------------------
\* A step that leaves the tables alone preserves what is said of them, and
\* what the other requests carry.
LEMMA LocalStep ==
  ASSUME IInv, NEW r \in Editors, UNCHANGED store,
         stage' \in [Editors -> Stages], job' \in [Editors -> Jobs \cup {NoJob}],
         read' \in [Editors -> Heads \cup {NoRow}], body' \in [Editors -> Bodies],
         config' \in [Editors -> Configs],
         \A q \in Editors \ {r} : /\ stage'[q] = stage[q] /\ job'[q] = job[q]
                                   /\ read'[q] = read[q] /\ body'[q] = body[q],
         Carried(r)'
  PROVE  IInv'
<1>1. PromptTypeOK'
  BY DEF IInv, PromptTypeOK, store
<1>2. PastInv'
  BY DEF IInv, PastInv, store, Snapshot
<1>3. ASSUME NEW q \in Editors PROVE Carried(q)'
  <2>1. CASE q = r
    BY <2>1
  <2>2. CASE q # r
    <3>1. Carried(q)
      BY DEF IInv, CarriedInv
    <3> QED
      BY <2>2, <3>1 DEF Carried, store, Snapshot
  <2> QED
    BY <2>1, <2>2
<1>4. NoTornVersions' /\ LostOnlyByOverlap'
  BY DEF IInv, NoTornVersions, LostOnlyByOverlap, store
<1> QED
  BY <1>1, <1>2, <1>3, <1>4 DEF IInv, CarriedInv

\* The steps that only read, or give up.
LEMMA ReadingSteps ==
  ASSUME IInv, NEW r \in Editors,
         \/ Edit(r) \/ Restore(r) \/ Promotion(r) \/ MergeConfig(r) \/ FindVersion(r)
         \/ ReadHead(r) \/ Abort(r)
  PROVE  IInv'
<1> USE DEF On, Goto
<1>t. PromptTypeOK /\ PastInv /\ Carried(r) /\ NoTornVersions
  BY DEF IInv, CarriedInv
<1>1. CASE Edit(r)
  <2> PICK b \in BOOLEAN, p \in Sections \cup {NoPart} :
             /\ Begin(r, [kind |-> "edit", body |-> b, part |-> p],
                      IF p = NoPart THEN "reading" ELSE "merging")
             /\ body' = [body EXCEPT ![r] = IF b THEN r ELSE @]
    BY <1>1 DEF Edit
  <2>1. [kind |-> "edit", body |-> b, part |-> p] \in Jobs
    BY DEF Jobs
  <2>2. UNCHANGED store /\ read' = read /\ config' = config
    BY DEF Begin
  <2>3. /\ stage' \in [Editors -> Stages] /\ job' \in [Editors -> Jobs \cup {NoJob}]
        /\ body' \in [Editors -> Bodies]
    BY <1>t, <2>1 DEF Begin, PromptTypeOK, Stages, Bodies
  <2>4. job'[r].kind = "edit" /\ job'[r].part = p
    BY <1>t DEF Begin, PromptTypeOK
  <2>5. stage'[r] = IF p = NoPart THEN "reading" ELSE "merging"
    BY <1>t DEF Begin, PromptTypeOK
  <2>6. Carried(r)'
    BY <2>4, <2>5 DEF Carried
  <2> QED
    BY <1>t, <2>2, <2>3, <2>6, LocalStep DEF Begin, PromptTypeOK
<1>2. CASE Restore(r)
  <2> PICK s \in past : Begin(r, [kind |-> "restore", version |-> s.version], "finding")
    BY <1>2 DEF Restore
  <2>1. [kind |-> "restore", version |-> s.version] \in Jobs
    BY <1>t DEF Jobs, PromptTypeOK, Snapshots
  <2>2. UNCHANGED store /\ read' = read /\ config' = config /\ body' = body
    BY <1>2 DEF Begin, Restore
  <2>3. stage' \in [Editors -> Stages] /\ job' \in [Editors -> Jobs \cup {NoJob}]
    BY <1>t, <2>1 DEF Begin, PromptTypeOK, Stages
  <2>4. job'[r].kind = "restore" /\ stage'[r] = "finding"
    BY <1>t DEF Begin, PromptTypeOK
  <2>5. Carried(r)'
    BY <2>4 DEF Carried
  <2> QED
    BY <1>t, <2>2, <2>3, <2>5, LocalStep DEF Begin, PromptTypeOK
<1>3. CASE Promotion(r)
  <2> PICK e \in Environments : Begin(r, [kind |-> "promote", env |-> e], "reading")
    BY <1>3 DEF Promotion
  <2>1. [kind |-> "promote", env |-> e] \in Jobs
    BY DEF Jobs
  <2>2. UNCHANGED store /\ read' = read /\ config' = config /\ body' = body
    BY <1>3 DEF Begin, Promotion
  <2>3. stage' \in [Editors -> Stages] /\ job' \in [Editors -> Jobs \cup {NoJob}]
    BY <1>t, <2>1 DEF Begin, PromptTypeOK, Stages
  <2>4. job'[r].kind = "promote" /\ job'[r].env = e /\ stage'[r] = "reading"
    BY <1>t DEF Begin, PromptTypeOK
  <2>5. Carried(r)'
    BY <2>4 DEF Carried
  <2> QED
    BY <1>t, <2>2, <2>3, <2>5, LocalStep DEF Begin, PromptTypeOK
<1>4. CASE MergeConfig(r)
  <2>1. job[r].kind = "edit" /\ job[r].part \in Sections
    BY <1>4, <1>t DEF MergeConfig, Carried
  <2>2. UNCHANGED store /\ read' = read /\ job' = job /\ body' = body
    BY <1>4 DEF MergeConfig
  <2>3. NoConfig \in Configs /\ (head # NoRow => head.config \in Configs)
    BY <1>t DEF NoConfig, Configs, PromptTypeOK, Heads
  <2>4. config' \in [Editors -> Configs]
    BY <1>4, <1>t, <2>1, <2>3 DEF MergeConfig, PromptTypeOK, Configs
  <2>5. stage' \in [Editors -> Stages] /\ stage'[r] = "reading"
    BY <1>4, <1>t DEF MergeConfig, PromptTypeOK, Stages
  <2>6. Carried(r)'
    BY <2>1, <2>2, <2>5 DEF Carried
  <2> QED
    BY <1>4, <1>t, <2>2, <2>4, <2>5, <2>6, LocalStep DEF MergeConfig, PromptTypeOK
<1>5. CASE FindVersion(r)
  <2>1. UNCHANGED store /\ read' = read /\ job' = job /\ config' = config
    BY <1>5 DEF FindVersion
  <2>2. job[r].kind = "restore"
    BY <1>5, <1>t DEF FindVersion, Carried
  <2>3. CASE stage' = [stage EXCEPT ![r] = "done"] /\ body' = body
    <3>1. stage' \in [Editors -> Stages] /\ stage'[r] = "done"
      BY <1>t, <2>3 DEF PromptTypeOK, Stages
    <3>2. Carried(r)'
      BY <2>1, <2>2, <3>1 DEF Carried
    <3> QED
      BY <1>t, <2>1, <2>3, <3>1, <3>2, LocalStep DEF PromptTypeOK
  <2>4. ASSUME NEW s \in history, s.version = job[r].version,
               body' = [body EXCEPT ![r] = s.body], stage' = [stage EXCEPT ![r] = "reading"]
        PROVE  IInv'
    <3>1. s \in past /\ s.body \in Bodies
      BY <1>t DEF NoTornVersions, PromptTypeOK, Snapshots
    <3>2. body' \in [Editors -> Bodies] /\ body'[r] = s.body
      BY <1>t, <2>4, <3>1 DEF PromptTypeOK
    <3>3. stage' \in [Editors -> Stages] /\ stage'[r] = "reading"
      BY <1>t, <2>4 DEF PromptTypeOK, Stages
    <3>4. past' = past
      BY <2>1 DEF store
    <3>5. Carried(r)'
      BY <2>1, <2>2, <2>4, <3>1, <3>2, <3>3, <3>4 DEF Carried
    <3> QED
      BY <1>t, <2>1, <2>4, <3>2, <3>3, <3>5, LocalStep DEF PromptTypeOK
  <2> QED
    BY <1>5, <2>3, <2>4 DEF FindVersion
<1>6. CASE ReadHead(r)
  <2>1. UNCHANGED store /\ job' = job /\ body' = body /\ config' = config
    BY <1>6 DEF ReadHead
  <2>2. job[r].kind \in {"edit", "restore", "promote"}
    BY <1>6, <1>t DEF ReadHead, Carried
  <2>3. CASE head = NoRow
    <3>1. stage' \in [Editors -> Stages] /\ stage'[r] = "done" /\ read' = read
      BY <1>6, <1>t, <2>3 DEF ReadHead, PromptTypeOK, Stages
    <3>2. Carried(r)'
      BY <1>t, <2>1, <3>1 DEF Carried
    <3> QED
      BY <1>6, <1>t, <2>1, <2>3, <3>1, <3>2, LocalStep DEF ReadHead, PromptTypeOK
  <2>4. CASE head # NoRow
    <3>1. /\ read' = [read EXCEPT ![r] = head]
          /\ stage' = [stage EXCEPT ![r] = IF job[r].kind = "promote"
                                             THEN "promoting" ELSE "saving"]
      BY <1>6, <2>4 DEF ReadHead
    <3>2. head \in Heads
      BY <1>t, <2>4 DEF PromptTypeOK
    <3>3. read' \in [Editors -> Heads \cup {NoRow}] /\ read'[r] = head
      BY <1>t, <3>1, <3>2 DEF PromptTypeOK
    <3>4. /\ stage' \in [Editors -> Stages]
          /\ stage'[r] = IF job[r].kind = "promote" THEN "promoting" ELSE "saving"
      BY <1>t, <3>1 DEF PromptTypeOK, Stages
    <3>5. Snapshot(head) \in past /\ past' = past
      BY <1>t, <2>1, <2>4 DEF PastInv, store
    <3>6. stage[r] = "reading"
      BY <1>6 DEF ReadHead
    <3>7. Snapshot(read[r])' = Snapshot(head)
      BY <3>3 DEF Snapshot
    <3>8. Carried(r)'
      BY <1>t, <2>1, <2>2, <3>2, <3>3, <3>4, <3>5, <3>6, <3>7 DEF Carried
    <3> QED
      BY <1>t, <2>1, <3>1, <3>3, <3>4, <3>8, LocalStep DEF PromptTypeOK
  <2> QED
    BY <2>3, <2>4
<1>7. CASE Abort(r)
  <2>1. UNCHANGED store /\ job' = job /\ read' = read /\ body' = body /\ config' = config
    BY <1>7 DEF Abort, locals
  <2>2. stage' \in [Editors -> Stages] /\ stage'[r] = "done"
    BY <1>7, <1>t DEF Abort, PromptTypeOK, Stages
  <2>3. Carried(r)'
    BY <1>t, <2>1, <2>2 DEF Carried
  <2> QED
    BY <1>7, <1>t, <2>1, <2>2, <2>3, LocalStep DEF Abort, PromptTypeOK
<1> QED
  BY <1>1, <1>2, <1>3, <1>4, <1>5, <1>6, <1>7

-----------------------------------------------------------------------------
\* The steps that write a table.

LEMMA SaveVersionStep ==
  ASSUME IInv, NEW r \in Editors, SaveVersion(r)
  PROVE  IInv'
<1> USE DEF On, Goto
<1>t. PromptTypeOK /\ PastInv /\ CarriedInv /\ NoTornVersions /\ LostOnlyByOverlap
  BY DEF IInv
<1>u. UNCHANGED <<head, deployed, envs, past, overwritten, job, read, body, config>>
  BY DEF SaveVersion, locals
<1>1. CASE head = NoRow
  <2>1. UNCHANGED store
    BY <1>1, <1>u DEF SaveVersion, store
  <2>2. stage' \in [Editors -> Stages] /\ stage'[r] = "done"
    BY <1>1, <1>t DEF SaveVersion, PromptTypeOK, Stages
  <2>3. Carried(r)'
    BY <1>t, <1>u, <2>2 DEF Carried, CarriedInv
  <2> QED
    BY <1>1, <1>t, <1>u, <2>1, <2>2, <2>3, LocalStep DEF SaveVersion, PromptTypeOK
<1>2. CASE head # NoRow
  <2> DEFINE saved == Snapshot(read[r])
  <2>1. /\ history' = history \cup {saved}
        /\ stage' = [stage EXCEPT ![r] = "writing"]
    BY <1>2 DEF SaveVersion
  <2>2. stage[r] = "saving" /\ read[r] \in Heads /\ saved \in past
    BY <1>t DEF SaveVersion, CarriedInv, Carried
  <2>3. saved \in Snapshots
    BY <2>2, SnapshotType
  <2>4. Snapshot(head)' = Snapshot(head) /\ \A q \in Editors : Snapshot(read[q])' = Snapshot(read[q])
    BY <1>u DEF Snapshot
  <2> HIDE DEF saved
  <2>5. PromptTypeOK'
    BY <1>2, <1>t, <1>u, <2>1, <2>3 DEF PromptTypeOK, Stages
  <2>6. PastInv'
    BY <1>t, <1>u, <2>4 DEF PastInv
  <2>7. ASSUME NEW q \in Editors PROVE Carried(q)'
    <3>1. Carried(q) /\ Carried(r)
      BY <1>t DEF CarriedInv
    <3>2. CASE q = r
      <4>1. stage'[q] = "writing" /\ saved \in history' /\ saved = Snapshot(read[q])'
        BY <1>t, <2>1, <2>4, <3>2 DEF PromptTypeOK, saved
      <4> QED
        BY <1>u, <2>2, <2>4, <3>1, <3>2, <4>1 DEF Carried
    <3>3. CASE q # r
      <4>1. stage'[q] = stage[q]
        BY <1>t, <2>1, <3>3 DEF PromptTypeOK
      <4> QED
        BY <1>u, <2>1, <2>4, <3>1, <4>1 DEF Carried
    <3> QED
      BY <3>2, <3>3
  <2>8. NoTornVersions'
    BY <1>t, <1>u, <2>1, <2>2 DEF NoTornVersions
  <2>9. LostOnlyByOverlap'
    BY <1>t, <1>u, <2>1 DEF LostOnlyByOverlap
  <2> QED
    BY <2>5, <2>6, <2>7, <2>8, <2>9 DEF IInv, CarriedInv
<1> QED
  BY <1>1, <1>2

\* What an update leaves is a row, one version further.
LEMMA WrittenType ==
  ASSUME PromptTypeOK, head # NoRow, NEW r \in Editors
  PROVE  Written(r) \in Heads /\ Written(r).version = head.version + 1
<1>1. head \in Heads /\ body[r] \in Bodies /\ config[r] \in Configs
  BY DEF PromptTypeOK
<1> QED
  BY <1>1 DEF Written, Heads

LEMMA WriteHeadStep ==
  ASSUME IInv, NEW r \in Editors, WriteHead(r)
  PROVE  IInv'
<1> USE DEF On, Goto
<1>t. PromptTypeOK /\ PastInv /\ CarriedInv /\ NoTornVersions /\ LostOnlyByOverlap
  BY DEF IInv
<1>u. UNCHANGED <<deployed, history, envs, job, read, body, config>>
  BY DEF WriteHead, locals
<1>s. /\ stage' \in [Editors -> Stages] /\ stage'[r] = "done"
      /\ \A q \in Editors \ {r} : stage'[q] = stage[q]
  BY <1>t DEF WriteHead, PromptTypeOK, Stages
<1>1. CASE head = NoRow
  <2>1. UNCHANGED store
    BY <1>1, <1>u DEF WriteHead, store
  <2>2. Carried(r)'
    BY <1>t, <1>u, <1>s DEF Carried, CarriedInv
  <2> QED
    BY <1>1, <1>t, <1>u, <1>s, <2>1, <2>2, LocalStep DEF PromptTypeOK
<1>2. CASE head # NoRow
  <2> DEFINE new == Snapshot(head')
  <2>1. /\ head' = Written(r)
        /\ past' = past \cup {new}
        /\ overwritten' = IF read[r].version = head.version
                            THEN overwritten ELSE overwritten \cup {head.version}
    BY <1>2 DEF WriteHead
  <2>2. head' \in Heads /\ head'.version = head.version + 1 /\ head' # NoRow
    BY <1>2, <1>t, <2>1, WrittenType, NamesAssumption
  <2>3. new \in Snapshots /\ new.version = head.version + 1
    BY <2>2, SnapshotType
  <2>4. head \in Heads /\ head.version \in Nat \ {0}
    BY <1>2, <1>t DEF PromptTypeOK, Heads
  <2>5. \A s \in past : s.version <= head.version /\ s.version \in Nat
    BY <1>2, <1>t DEF PastInv, PromptTypeOK, Snapshots
  <2>6. /\ stage[r] = "writing" /\ read[r] \in Heads
        /\ Snapshot(read[r]) \in history
    BY <1>2, <1>t DEF WriteHead, CarriedInv, Carried
  <2>7. \A q \in Editors : Snapshot(read[q])' = Snapshot(read[q])
    BY <1>u DEF Snapshot
  <2> HIDE DEF new
  <2>8. PromptTypeOK'
    BY <1>t, <1>u, <1>s, <2>1, <2>2, <2>3, <2>4 DEF PromptTypeOK
  <2>9. PastInv'
    BY <1>t, <2>1, <2>2, <2>3, <2>4, <2>5 DEF PastInv, new, Snapshot
  <2>10. ASSUME NEW q \in Editors PROVE Carried(q)'
    <3>1. Carried(q)
      BY <1>t DEF CarriedInv
    <3>2. CASE q = r
      BY <1>u, <1>s, <3>1, <3>2 DEF Carried
    <3>3. CASE q # r
      BY <1>2, <1>u, <1>s, <2>1, <2>7, <3>1, <3>3 DEF Carried
    <3> QED
      BY <3>2, <3>3
  <2>11. NoTornVersions'
    <3>1. ASSUME NEW s \in past', NEW u \in past', s.version = u.version PROVE s = u
      BY <1>t, <2>1, <2>3, <2>4, <2>5, <3>1 DEF NoTornVersions
    <3> QED
      BY <1>t, <1>u, <2>1, <3>1 DEF NoTornVersions
  <2>12. LostOnlyByOverlap'
    <3> SUFFICES ASSUME NEW v \in 1..head.version
                 PROVE  v \in overwritten' \/ \E s \in history : s.version = v
      BY <1>u, <2>2, <2>4 DEF LostOnlyByOverlap
    <3>1. CASE v < head.version
      BY <1>2, <1>t, <2>1, <2>4, <3>1 DEF LostOnlyByOverlap
    <3>2. CASE v = head.version /\ read[r].version = head.version
      BY <2>6, <3>2, SnapshotType
    <3>3. CASE v = head.version /\ read[r].version # head.version
      BY <2>1, <3>3
    <3> QED
      BY <2>4, <3>1, <3>2, <3>3
  <2> QED
    BY <2>8, <2>9, <2>10, <2>11, <2>12 DEF IInv, CarriedInv
<1> QED
  BY <1>1, <1>2

\* Steps that change neither the row, unless they delete the prompt, nor what
\* a request carries.
LEMMA RowStep ==
  ASSUME IInv, NEW r \in Editors, PromptTypeOK', stage'[r] = "done",
         \A q \in Editors \ {r} : stage'[q] = stage[q],
         UNCHANGED <<past, overwritten, job, locals>>,
         \/ head' = head /\ history' = history
         \/ head' = NoRow /\ history' = {},
         \A e \in Environments : envs'[e] = envs[e] \/ envs'[e] = NoRow \/ envs'[e] \in past
  PROVE  IInv'
<1>t. PastInv /\ CarriedInv /\ NoTornVersions /\ LostOnlyByOverlap
  BY DEF IInv
<1>1. PastInv'
  BY <1>t DEF PastInv, Snapshot
<1>2. ASSUME NEW q \in Editors PROVE Carried(q)'
  <2>1. Carried(q)
    BY <1>t DEF CarriedInv
  <2>2. UNCHANGED <<past, job, read, body, config>>
    BY DEF locals
  <2>3. Snapshot(read[q])' = Snapshot(read[q])
    BY <2>2 DEF Snapshot
  <2>4. CASE q = r
    BY <2>1, <2>2, <2>4 DEF Carried
  <2>5. CASE q # r
    BY <2>1, <2>2, <2>3, <2>5 DEF Carried
  <2> QED
    BY <2>4, <2>5
<1>3. NoTornVersions'
  BY <1>t DEF NoTornVersions
<1>4. LostOnlyByOverlap'
  BY <1>t DEF LostOnlyByOverlap
<1> QED
  BY <1>1, <1>2, <1>3, <1>4 DEF IInv, CarriedInv

LEMMA RowSteps ==
  ASSUME IInv, NEW r \in Editors, Promote(r) \/ Demote(r) \/ Toggle(r) \/ Delete(r)
  PROVE  IInv'
<1> USE DEF On, Goto
<1>t. PromptTypeOK /\ CarriedInv
  BY DEF IInv
<1>s. /\ stage' \in [Editors -> Stages] /\ stage'[r] = "done"
      /\ \A q \in Editors \ {r} : stage'[q] = stage[q]
      /\ UNCHANGED <<past, overwritten, job, read, body, config>>
  BY <1>t DEF Promote, Demote, Toggle, Delete, PromptTypeOK, Stages, locals
<1>1. CASE Promote(r)
  <2>1. UNCHANGED <<head, deployed, history>>
    BY <1>1 DEF Promote
  <2>2. /\ read[r] \in Heads /\ Promoted(r) \in past /\ job[r].env \in Environments
    BY <1>1, <1>t DEF Promote, CarriedInv, Carried, Promoted
  <2>3. Promoted(r) \in Snapshots
    BY <2>2, SnapshotType DEF Promoted
  <2>4. PromptTypeOK'
    BY <1>1, <1>t, <1>s, <2>1, <2>2, <2>3 DEF Promote, PromptTypeOK
  <2>5. \A e \in Environments : envs'[e] = envs[e] \/ envs'[e] \in past
    BY <1>1, <1>t, <2>2 DEF Promote, PromptTypeOK
  <2> QED
    BY <1>s, <2>1, <2>4, <2>5, RowStep DEF locals
<1>2. CASE Demote(r)
  <2>1. UNCHANGED <<head, deployed, history>>
    BY <1>2 DEF Demote
  <2>2. PromptTypeOK'
    BY <1>2, <1>t, <1>s, <2>1 DEF Demote, PromptTypeOK
  <2>3. \A e \in Environments : envs'[e] = envs[e] \/ envs'[e] = NoRow
    BY <1>2, <1>t DEF Demote, PromptTypeOK
  <2> QED
    BY <1>s, <2>1, <2>2, <2>3, RowStep DEF locals
<1>3. CASE Toggle(r)
  <2>1. UNCHANGED <<head, history, envs>>
    BY <1>3 DEF Toggle
  <2>2. PromptTypeOK'
    BY <1>3, <1>t, <1>s, <2>1 DEF Toggle, PromptTypeOK
  <2> QED
    BY <1>s, <2>1, <2>2, RowStep DEF locals
<1>4. CASE Delete(r)
  <2>1. /\ head' = NoRow /\ deployed' = FALSE /\ history' = {}
        /\ envs' = [e \in Environments |-> NoRow]
    BY <1>4 DEF Delete
  <2>2. PromptTypeOK'
    BY <1>t, <1>s, <2>1 DEF PromptTypeOK
  <2> QED
    BY <1>s, <2>1, <2>2, RowStep DEF locals
<1> QED
  BY <1>1, <1>2, <1>3, <1>4

-----------------------------------------------------------------------------
LEMMA NextIInv == IInv /\ [PromptNext]_promptVars => IInv'
<1> SUFFICES ASSUME IInv, [PromptNext]_promptVars PROVE IInv'
  OBVIOUS
<1>1. CASE PromptNext
  <2> PICK r \in Editors :
        \/ Edit(r) \/ Restore(r) \/ Promotion(r) \/ MergeConfig(r) \/ FindVersion(r)
        \/ ReadHead(r) \/ SaveVersion(r) \/ WriteHead(r) \/ Promote(r) \/ Abort(r)
        \/ Demote(r) \/ Toggle(r) \/ Delete(r)
    BY <1>1 DEF PromptNext
  <2> QED
    BY ReadingSteps, SaveVersionStep, WriteHeadStep, RowSteps
<1>2. CASE UNCHANGED promptVars
  BY <1>2 DEF promptVars, IInv, PromptTypeOK, PastInv, CarriedInv, Carried, NoTornVersions,
             LostOnlyByOverlap, Snapshot
<1> QED
  BY <1>1, <1>2

LEMMA Invariance == PromptSpec => []IInv
  BY InitIInv, NextIInv, PTL DEF PromptSpec

\* Every value has its type, and nothing of a prompt outlives it.
THEOREM TypeCorrect == PromptSpec => []PromptTypeOK
<1>1. IInv => PromptTypeOK
  BY DEF IInv
<1> QED
  BY <1>1, Invariance, PTL

\* However many edits, restores, promotions and failures interleave, no
\* version is one that nobody wrote.
THEOREM VersionsAreWhole == PromptSpec => []NoTornVersions
<1>1. IInv => NoTornVersions
  BY DEF IInv
<1> QED
  BY <1>1, Invariance, PTL

\* Only an update over a row its request had not read loses a version.
THEOREM LossNeedsOverlap == PromptSpec => []LostOnlyByOverlap
<1>1. IInv => LostOnlyByOverlap
  BY DEF IInv
<1> QED
  BY <1>1, Invariance, PTL

\* Only a request's own update ends its writing and changes the row.
LEMMA RestoreStep ==
  ASSUME IInv, [PromptNext]_promptVars, NEW r \in Editors, stage[r] = "writing", stage'[r] = "done",
         job[r].kind = "restore", head' # head, NEW s \in past, s.version = job[r].version
  PROVE  head'.body = s.body
<1> USE DEF On, Goto
<1>t. PromptTypeOK /\ CarriedInv /\ NoTornVersions
  BY DEF IInv
<1>1. PICK q \in Editors : WriteHead(q) \/ Delete(q)
  BY DEF PromptNext, promptVars, store, Begin, Edit, Restore, Promotion, MergeConfig, FindVersion,
         ReadHead, SaveVersion, Promote, Abort, Demote, Toggle
<1>2. WriteHead(r)
  BY <1>1, <1>t DEF WriteHead, Delete, PromptTypeOK
<1>3. head' = Written(r)
  BY <1>2 DEF WriteHead
<1>4. head'.body = body[r]
  BY <1>3 DEF Written
<1>5. PICK u \in past : u.version = job[r].version /\ u.body = body[r]
  BY <1>t DEF CarriedInv, Carried
<1>6. u = s
  BY <1>5, <1>t DEF NoTornVersions
<1> QED
  BY <1>4, <1>5, <1>6

\* A restore writes the body its version had.
THEOREM RestoresAreFaithful == PromptSpec => RestoreIsFaithful
<1>1. IInv /\ [PromptNext]_promptVars =>
        [\A r \in Editors :
           stage[r] = "writing" /\ stage'[r] = "done"
             /\ job[r].kind = "restore" /\ head' # head =>
             \A s \in past : s.version = job[r].version => head'.body = s.body]_promptVars
  BY RestoreStep
<1> QED
  BY <1>1, Invariance, PTL DEF PromptSpec, RestoreIsFaithful
=============================================================================
