--------------------------- MODULE DatasetRunProofs ---------------------------
(***************************************************************************)
(* Theorems about DatasetRun, for every set of items, readers and source   *)
(* traces and every bound.                                                 *)
(***************************************************************************)
EXTENDS DatasetRun, FiniteSetTheorems, TLAPS

-----------------------------------------------------------------------------
(* The inductive invariant.  SettledWhenComplete is not inductive: whether  *)
(* a request may finalize depends on what its three reads returned, so the *)
(* invariant says what those reads can still be trusted for.               *)

\* Item rows appear once, all together, and only while the launch inserts them.
EnrolInv ==
  /\ launch \in {"requested", "refused"} => status = "none"
  /\ launch \in {"requested", "refused", "created"} =>
       listed = {} /\ jobs = {} /\ scored = {} /\ unscored = {}
  /\ launch = "empty" => listed = {}
  /\ launch = "enrolled" => request.task
  /\ launch \in {"requested", "refused", "created", "empty", "publishing",
                 "enrolling"} => items = {} /\ total = 0
  /\ launch = "requested" => generated = 0 /\ genFailed = 0
  /\ launch \in {"inserted", "enrolled", "returned"} /\ Stored => items = listed
  /\ items = {} \/ items = listed
  /\ Stored /\ total > 0 => items # {}

\* Where a generation coroutine stands, and what is recorded of its item.
WorkerInv ==
  \A i \in Items :
    /\ recorded[i] # "blank" => i \in items
    /\ worker[i] # "none" => launch = "returned" /\ request.task /\ i \in listed
    /\ worker[i] \in {"none", "waiting", "generating", "ok", "error"} =>
         recorded[i] = "blank"
    /\ worker[i] = "publishing" => recorded[i] # "error"

\* A task run scores each item under a trace of its own, and only once its
\* generation succeeded.
TraceInv ==
  /\ \A i \in jobs : traceOf[i] \in Traces
  /\ launch = "publishing" => ~request.task
  /\ request.task => \A i \in Items :
       /\ traceOf[i] \in {i, NoTrace}
       /\ i \in listed => traceOf[i] = i
       /\ i \in jobs \cup scored \cup unscored =>
            worker[i] = "done" /\ recorded[i] # "error"
  /\ request.task \/ request.kind = "metrics" =>
       \A i \in Items : traceOf[i] \in {i, NoTrace}

\* What a reading request that is under way may rely on.
ReaderOK(r) ==
  LET rd == reader[r] IN
  /\ rd.pc \in {"row", "items"} => rd.generated <= generated
  /\ rd.pc \in {"items", "finalize"} =>
       /\ rd.items \in {{}, items}
       /\ rd.errors \subseteq rd.items \cap Errors
  /\ rd.pc = "finalize" /\ rd.items # {} =>
       /\ AllSettled /\ rd.errors = Errors
       /\ rd.completed + Cardinality(rd.errors) = Cardinality(rd.items)
  /\ r \in ListReaders /\ rd.pc # "idle" => items # {}
  /\ r \in ListReaders /\ rd.pc \in {"items", "finalize"} => rd.items = items

\* It is about a run that exists, or did when the request read it.
ReaderInv ==
  /\ \A r \in Readers \ askers : reader[r].pc = "idle"
  /\ status = "none" => \A r \in Readers : reader[r].pc = "idle"
  /\ Stored => \A r \in Readers : ReaderOK(r)

\* What the summary of a complete run says about its items.
CompleteInv ==
  status = "complete" =>
    /\ summary.total > 0 =>
         /\ AllSettled
         /\ summary.total = Cardinality(items)
         /\ summary.completed + summary.failed = summary.total
         /\ summary.failed = Cardinality(Errors)
    /\ ByList =>
         summary.total > 0 \/ (launch = "returned" /\ listed = {})

IInv ==
  /\ TypeOK
  /\ EnrolInv
  /\ WorkerInv
  /\ TraceInv
  /\ CountersMatchItems
  /\ ReaderInv
  /\ CompleteInv

-----------------------------------------------------------------------------
(* Counting.                                                               *)

\* Sets of items are finite and no larger than the sets they are part of.
LEMMA ItemSets ==
  ASSUME NEW S \in SUBSET Items, NEW T \in SUBSET S
  PROVE  /\ IsFiniteSet(S) /\ Cardinality(S) \in Nat
         /\ IsFiniteSet(T) /\ Cardinality(T) \in Nat
         /\ Cardinality(T) <= Cardinality(S)
         /\ Cardinality(T) = Cardinality(S) => T = S
<1>1. IsFiniteSet(S)
  BY FS_Subset, ItemsAssumption
<1>2. /\ IsFiniteSet(T)
      /\ Cardinality(T) <= Cardinality(S)
      /\ Cardinality(S) = Cardinality(T) => S = T
  BY <1>1, FS_Subset
<1> QED
  BY <1>1, <1>2, FS_CardinalityType

\* A set of items uses at most as many traces as it has items.
LEMMA TraceCount ==
  ASSUME NEW S \in SUBSET Items
  PROVE  LET T == {traceOf[i] : i \in S}
         IN  IsFiniteSet(T) /\ Cardinality(T) \in Nat /\ Cardinality(T) <= Cardinality(S)
<1> DEFINE T == {traceOf[i] : i \in S}
           f == [i \in S |-> traceOf[i]]
<1>1. IsFiniteSet(S)
  BY ItemSets
<1>2. f \in Surjection(S, T)
  BY DEF Surjection
<1>3. IsFiniteSet(T) /\ Cardinality(T) <= Cardinality(S)
  BY <1>1, <1>2, FS_Surjection
<1> QED
  BY <1>3, FS_CardinalityType

\* What a report counts as completed is a number, bounded by the items, and
\* reaches it only when every item's trace has results.
LEMMA CompletedCount ==
  ASSUME NEW S \in SUBSET Items
  PROVE  /\ CompletedOf(S) \in Nat
         /\ CompletedOf(S) <= Cardinality(S)
         /\ CompletedOf(S) >= Cardinality(S) => \A i \in S : traceOf[i] \in Counted
<1> DEFINE T == {traceOf[i] : i \in S}
<1>1. IsFiniteSet(T) /\ Cardinality(T) \in Nat /\ Cardinality(T) <= Cardinality(S)
  BY TraceCount
<1>2. T \cap Counted \in SUBSET T
  OBVIOUS
<1>3. /\ IsFiniteSet(T \cap Counted)
      /\ Cardinality(T \cap Counted) <= Cardinality(T)
      /\ Cardinality(T) = Cardinality(T \cap Counted) => T = T \cap Counted
  BY <1>1, <1>2, FS_Subset
<1>4. Cardinality(T \cap Counted) \in Nat
  BY <1>3, FS_CardinalityType
<1>5. Cardinality(S) \in Nat
  BY ItemSets
<1>6. CompletedOf(S) = Cardinality(T \cap Counted)
  BY DEF CompletedOf
<1> QED
  <2>1. CompletedOf(S) \in Nat /\ CompletedOf(S) <= Cardinality(S)
    BY <1>1, <1>3, <1>4, <1>5, <1>6
  <2>2. ASSUME CompletedOf(S) >= Cardinality(S)
        PROVE  \A i \in S : traceOf[i] \in Counted
    <3>1. Cardinality(T) = Cardinality(T \cap Counted)
      BY <2>2, <1>1, <1>3, <1>4, <1>5, <1>6
    <3> QED
      BY <3>1, <1>3
  <2> QED
    BY <2>1, <2>2

-----------------------------------------------------------------------------
(* Types.                                                                  *)

\* Who reads the run is as it was.
LEMMA AskersStay == ASSUME [Next]_vars PROVE askers' = askers /\ ByList' = ByList
<1> SUFFICES askers' = askers
  BY DEF ByList
<1> USE DEF inputVars
<1>1. CASE Launch
  BY <1>1 DEF Launch, Refuse, CreateRun, ListExamples, FinalizeEmpty, PublishExample,
              PublishExampleFails, InsertItems, SetTotal, Spawn
<1>2. ASSUME NEW i \in Items, Generation(i) \/ Score(i) \/ ScoreNothing(i) \/ LoseJob(i)
      PROVE  askers' = askers
  BY <1>2 DEF Generation, StartGeneration, Generate, RecordGeneration,
       RecordGenerationFails, PublishTaskScore, PublishTaskScoreFails, Score,
       ScoreNothing, LoseJob
<1>3. ASSUME NEW r \in Readers, Read(r) PROVE askers' = askers
  BY <1>3 DEF Read, ReadRun, ReadItems, ReadResults, Finalize
<1>4. CASE DeleteDataset \/ Crash \/ UNCHANGED vars
  BY <1>4 DEF DeleteDataset, Crash, vars
<1> QED
  BY <1>1, <1>2, <1>3, <1>4 DEF Next

LEMMA TypeInit == Init => TypeOK
BY ReadersAssumption DEF Init, TypeOK, NoSummary, IdleReader, Snapshots, LaunchStates, WorkerStates,
       ReaderStates

LEMMA TypeLaunch == TypeOK /\ Launch => TypeOK'
<1> SUFFICES ASSUME TypeOK, Launch PROVE TypeOK'
  OBVIOUS
<1> USE DEF TypeOK, LaunchStates, inputVars, runVars, resultVars, Stored
<1>1. CASE Refuse \/ CreateRun
  BY <1>1 DEF Refuse, CreateRun
<1>2. CASE ListExamples
  BY <1>2 DEF ListExamples, Traces
<1>3. CASE FinalizeEmpty
  BY <1>3 DEF FinalizeEmpty, NoSummary
<1>4. ASSUME NEW i \in Items, PublishExample(i) PROVE TypeOK'
  <2>1. TraceChoices(i) \subseteq Traces
    BY DEF TraceChoices, Traces
  <2> QED
    BY <1>4, <2>1 DEF PublishExample
<1>5. CASE PublishExampleFails
  BY <1>5 DEF PublishExampleFails, Fault
<1>6. CASE InsertItems
  BY <1>6 DEF InsertItems
<1>7. CASE SetTotal
  <2>1. Cardinality(listed) \in Nat
    BY ItemSets
  <2> QED
    BY <1>7, <2>1 DEF SetTotal
<1>8. CASE Spawn
  BY <1>8 DEF Spawn, WorkerStates
<1> QED
  BY <1>1, <1>2, <1>3, <1>4, <1>5, <1>6, <1>7, <1>8 DEF Launch

LEMMA TypeGeneration ==
  ASSUME NEW i \in Items, TypeOK, Generation(i)
  PROVE  TypeOK'
<1> USE DEF TypeOK, WorkerStates, inputVars, runVars, resultVars
<1>1. CASE StartGeneration(i) \/ Generate(i)
  BY <1>1 DEF StartGeneration, Generate
<1>2. CASE RecordGeneration(i)
  BY <1>2 DEF RecordGeneration, AfterRecord
<1>3. CASE RecordGenerationFails(i)
  BY <1>3 DEF RecordGenerationFails, AfterRecord, Fault
<1>4. CASE PublishTaskScore(i) \/ PublishTaskScoreFails(i)
  BY <1>4 DEF PublishTaskScore, PublishTaskScoreFails, Fault
<1> QED
  BY <1>1, <1>2, <1>3, <1>4 DEF Generation

LEMMA TypeScoring ==
  ASSUME NEW i \in Items, TypeOK, TraceInv,
         Score(i) \/ ScoreNothing(i) \/ LoseJob(i)
  PROVE  TypeOK'
BY DEF TypeOK, TraceInv, Score, ScoreNothing, LoseJob, Fault, inputVars, runVars

LEMMA TypeRead ==
  ASSUME NEW r \in Readers, TypeOK, Read(r)
  PROVE  TypeOK'
<1> USE DEF inputVars, runVars, resultVars
<1>0. reader[r] \in Snapshots /\ IdleReader \in Snapshots
  BY DEF TypeOK, Snapshots, IdleReader, ReaderStates
<1>1. CASE ReadRun(r)
  <2>1. [pc |-> "row", status |-> status, generated |-> generated,
         items |-> {}, errors |-> {}, completed |-> 0] \in Snapshots
    BY <1>1 DEF ReadRun, Stored, TypeOK, Snapshots, ReaderStates
  <2> QED
    BY <1>1, <2>1 DEF ReadRun, TypeOK
<1>2. CASE ReadItems(r)
  <2>1. [reader[r] EXCEPT !.pc = "items", !.items = items, !.errors = Errors] \in Snapshots
    BY <1>0 DEF TypeOK, Snapshots, ReaderStates, Errors
  <2> QED
    BY <1>2, <2>1 DEF ReadItems, TypeOK
<1>3. CASE ReadResults(r)
  <2>1. CompletedOf(reader[r].items) \in Nat
    BY <1>0, CompletedCount DEF Snapshots
  <2>2. [reader[r] EXCEPT !.pc = "finalize",
                          !.completed = CompletedOf(reader[r].items)] \in Snapshots
    BY <1>0, <2>1 DEF Snapshots, ReaderStates
  <2> QED
    BY <1>0, <1>3, <2>2 DEF ReadResults, TypeOK
<1>4. CASE Finalize(r)
  <2>1. /\ Cardinality(reader[r].items) \in Nat
        /\ Cardinality(reader[r].errors) \in Nat
    BY <1>0, ItemSets DEF Snapshots
  <2>2. SummaryOf(reader[r]) \in [total : Nat, completed : Nat, failed : Nat]
    BY <1>0, <2>1 DEF SummaryOf, Snapshots
  <2> QED
    BY <1>0, <1>4, <2>2 DEF Finalize, TypeOK
<1> QED
  BY <1>1, <1>2, <1>3, <1>4 DEF Read

LEMMA TypeDeleteCrash == TypeOK /\ (DeleteDataset \/ Crash) => TypeOK'
BY DEF TypeOK, DeleteDataset, Crash, Fault, LaunchStates, WorkerStates, inputVars,
       runVars, resultVars

LEMMA TypeNext == IInv /\ [Next]_vars => TypeOK'
<1> SUFFICES ASSUME IInv, [Next]_vars PROVE TypeOK'
  OBVIOUS
<1> USE DEF IInv
<1>1. CASE Launch
  BY <1>1, TypeLaunch
<1>2. ASSUME NEW i \in Items,
             Generation(i) \/ Score(i) \/ ScoreNothing(i) \/ LoseJob(i)
      PROVE  TypeOK'
  BY <1>2, TypeGeneration, TypeScoring
<1>3. ASSUME NEW r \in Readers, Read(r) PROVE TypeOK'
  BY <1>3, TypeRead
<1>4. CASE DeleteDataset \/ Crash
  BY <1>4, TypeDeleteCrash
<1>5. CASE UNCHANGED vars
  BY <1>5 DEF TypeOK, vars
<1> QED
  BY <1>1, <1>2, <1>3, <1>4, <1>5 DEF Next

-----------------------------------------------------------------------------
(* Enrolment.                                                              *)

LEMMA EnrolInit == Init => EnrolInv
BY DEF Init, EnrolInv, Stored

LEMMA EnrolNext == IInv /\ [Next]_vars => EnrolInv'
<1> SUFFICES ASSUME TypeOK, EnrolInv, WorkerInv, [Next]_vars PROVE EnrolInv'
  BY DEF IInv
<1> USE DEF EnrolInv, Stored, inputVars, runVars, resultVars
<1>1. CASE Refuse \/ CreateRun
  BY <1>1 DEF Refuse, CreateRun
<1>2. CASE ListExamples
  BY <1>2 DEF ListExamples, TypeOK
<1>3. CASE FinalizeEmpty
  BY <1>3 DEF FinalizeEmpty
<1>4. ASSUME NEW i \in Items, PublishExample(i) PROVE EnrolInv'
  BY <1>4 DEF PublishExample
<1>5. CASE PublishExampleFails \/ InsertItems
  BY <1>5 DEF PublishExampleFails, InsertItems, Fault
<1>6. CASE SetTotal
  <2>1. listed = {} => Cardinality(listed) = 0
    BY FS_EmptySet
  <2> QED
    BY <1>6, <2>1 DEF SetTotal
<1>7. CASE Spawn
  BY <1>7 DEF Spawn
<1>8. ASSUME NEW i \in Items, Generation(i) PROVE EnrolInv'
  <2>1. launch = "returned"
    BY <1>8 DEF WorkerInv, Generation, StartGeneration, Generate, RecordGeneration,
                RecordGenerationFails, PublishTaskScore, PublishTaskScoreFails
  <2> QED
    BY <1>8, <2>1 DEF Generation, StartGeneration, Generate, RecordGeneration,
                      RecordGenerationFails, PublishTaskScore, PublishTaskScoreFails
<1>9. ASSUME NEW i \in Items, Score(i) \/ ScoreNothing(i) \/ LoseJob(i)
      PROVE  EnrolInv'
  BY <1>9 DEF Score, ScoreNothing, LoseJob
<1>10. ASSUME NEW r \in Readers, Read(r) PROVE EnrolInv'
  BY <1>10 DEF Read, ReadRun, ReadItems, ReadResults, Finalize
<1>11. CASE DeleteDataset
  BY <1>11 DEF DeleteDataset
<1>12. CASE Crash
  BY <1>12 DEF Crash, LaunchActive
<1>13. CASE UNCHANGED vars
  BY <1>13 DEF vars
<1> QED
  BY <1>1, <1>2, <1>3, <1>4, <1>5, <1>6, <1>7, <1>8, <1>9, <1>10, <1>11, <1>12, <1>13
     DEF Next, Launch

-----------------------------------------------------------------------------
(* The generation coroutines.                                              *)

LEMMA WorkerInit == Init => WorkerInv
BY DEF Init, WorkerInv

LEMMA WorkerNext == IInv /\ [Next]_vars => WorkerInv'
<1> SUFFICES ASSUME TypeOK, EnrolInv, WorkerInv, TraceInv, [Next]_vars PROVE WorkerInv'
  BY DEF IInv
<1> USE DEF TypeOK, WorkerInv, Stored, inputVars, runVars, resultVars
<1>1. CASE Refuse \/ CreateRun \/ ListExamples \/ FinalizeEmpty
  <2>1. \A i \in Items : worker[i] = "none"
    BY <1>1 DEF Refuse, CreateRun, ListExamples, FinalizeEmpty
  <2> QED
    BY <1>1, <2>1 DEF Refuse, CreateRun, ListExamples, FinalizeEmpty
<1>2. ASSUME NEW i \in Items, PublishExample(i) PROVE WorkerInv'
  BY <1>2 DEF PublishExample
<1>3. CASE PublishExampleFails \/ InsertItems \/ SetTotal
  <2>1. \A i \in Items : worker[i] = "none" /\ recorded[i] = "blank"
    BY <1>3 DEF PublishExampleFails, InsertItems, SetTotal
  <2>2. worker' = worker /\ recorded' = recorded
    BY <1>3 DEF PublishExampleFails, InsertItems, SetTotal
  <2> QED
    BY <2>1, <2>2
<1>4. CASE Spawn
  BY <1>4 DEF Spawn, EnrolInv
<1>5. ASSUME NEW i \in Items, StartGeneration(i) \/ Generate(i) PROVE WorkerInv'
  BY <1>5 DEF StartGeneration, Generate
<1>6. ASSUME NEW i \in Items, RecordGeneration(i) PROVE WorkerInv'
  BY <1>6 DEF RecordGeneration, AfterRecord, EnrolInv
<1>7. ASSUME NEW i \in Items,
             \/ RecordGenerationFails(i)
             \/ PublishTaskScore(i)
             \/ PublishTaskScoreFails(i)
      PROVE  WorkerInv'
  BY <1>7 DEF RecordGenerationFails, PublishTaskScore, PublishTaskScoreFails,
              AfterRecord, Fault
<1>8. ASSUME NEW i \in Items, Score(i) \/ ScoreNothing(i) \/ LoseJob(i)
      PROVE  WorkerInv'
  BY <1>8 DEF Score, ScoreNothing, LoseJob
<1>9. ASSUME NEW r \in Readers, Read(r) PROVE WorkerInv'
  BY <1>9 DEF Read, ReadRun, ReadItems, ReadResults, Finalize
<1>10. CASE DeleteDataset
  BY <1>10 DEF DeleteDataset
<1>11. CASE Crash
  BY <1>11 DEF Crash, LaunchActive, WorkerActive
<1>12. CASE UNCHANGED vars
  BY <1>12 DEF vars
<1> QED
  BY <1>1, <1>2, <1>3, <1>4, <1>5, <1>6, <1>7, <1>8, <1>9, <1>10, <1>11, <1>12
     DEF Next, Launch, Generation

-----------------------------------------------------------------------------
(* The traces items are scored under.                                      *)

LEMMA TraceInit == Init => TraceInv
BY DEF Init, TraceInv

LEMMA TraceNext == IInv /\ [Next]_vars => TraceInv'
<1> SUFFICES ASSUME TypeOK, EnrolInv, WorkerInv, TraceInv, [Next]_vars PROVE TraceInv'
  BY DEF IInv
<1> USE DEF TypeOK, TraceInv, Stored, Traces, inputVars, runVars, resultVars
<1> USE ItemsAssumption
<1>1. CASE Refuse \/ CreateRun \/ FinalizeEmpty
  BY <1>1 DEF Refuse, CreateRun, FinalizeEmpty, EnrolInv
<1>2. CASE ListExamples
  BY <1>2 DEF ListExamples, EnrolInv
<1>3. ASSUME NEW i \in Items, PublishExample(i) PROVE TraceInv'
  <2>1. ~request.task
    BY <1>3 DEF PublishExample
  <2>2. /\ TraceChoices(i) \subseteq Traces
        /\ request.kind = "metrics" => TraceChoices(i) = {i}
    BY DEF TraceChoices
  <2> QED
    BY <1>3, <2>1, <2>2 DEF PublishExample
<1>4. CASE PublishExampleFails \/ InsertItems \/ SetTotal
  BY <1>4 DEF PublishExampleFails, InsertItems, SetTotal, EnrolInv, Fault
<1>5. CASE Spawn
  <2>1. request.task => \A i \in Items : i \notin jobs \cup scored \cup unscored
    BY <1>5 DEF Spawn, WorkerInv
  <2> QED
    BY <1>5, <2>1 DEF Spawn
<1>6. ASSUME NEW i \in Items, StartGeneration(i) \/ Generate(i) PROVE TraceInv'
  BY <1>6 DEF StartGeneration, Generate
<1>7. ASSUME NEW i \in Items, RecordGeneration(i) PROVE TraceInv'
  BY <1>7 DEF RecordGeneration, AfterRecord
<1>8. ASSUME NEW i \in Items, RecordGenerationFails(i) PROVE TraceInv'
  BY <1>8 DEF RecordGenerationFails, AfterRecord, Fault
<1>9. ASSUME NEW i \in Items, PublishTaskScore(i) \/ PublishTaskScoreFails(i)
      PROVE  TraceInv'
  BY <1>9 DEF PublishTaskScore, PublishTaskScoreFails, Fault, WorkerInv
<1>10. ASSUME NEW i \in Items, Score(i) \/ ScoreNothing(i) \/ LoseJob(i)
       PROVE  TraceInv'
  BY <1>10 DEF Score, ScoreNothing, LoseJob, Fault
<1>11. ASSUME NEW r \in Readers, Read(r) PROVE TraceInv'
  BY <1>11 DEF Read, ReadRun, ReadItems, ReadResults, Finalize
<1>12. CASE DeleteDataset
  BY <1>12 DEF DeleteDataset
<1>13. CASE Crash
  BY <1>13 DEF Crash, LaunchActive, WorkerActive, Fault
<1>14. CASE UNCHANGED vars
  BY <1>14 DEF vars
<1> QED
  BY <1>1, <1>2, <1>3, <1>4, <1>5, <1>6, <1>7, <1>8, <1>9, <1>10, <1>11, <1>12,
     <1>13, <1>14 DEF Next, Launch, Generation

-----------------------------------------------------------------------------
(* The counters.                                                           *)

LEMMA CountersInit == Init => CountersMatchItems
BY DEF Init, CountersMatchItems, Stored

\* A step that touches neither the item rows nor the counters keeps them equal.
LEMMA CountersKept ==
  ASSUME CountersMatchItems, Stored' => Stored,
         items' = items, recorded' = recorded,
         generated' = generated, genFailed' = genFailed
  PROVE  CountersMatchItems'
<1>1. Recorded' = Recorded /\ Errors' = Errors
  BY DEF Recorded, Errors
<1> QED
  BY <1>1 DEF CountersMatchItems

\* With nothing recorded, the counters are as many as the item rows: none.
LEMMA NothingRecorded ==
  ASSUME \A i \in items : recorded[i] = "blank"
  PROVE  Cardinality(Recorded) = 0 /\ Cardinality(Errors) = 0
<1>1. Recorded = {} /\ Errors = {}
  BY DEF Recorded, Errors
<1> QED
  BY <1>1, FS_EmptySet

LEMMA CountersNext == IInv /\ [Next]_vars => CountersMatchItems'
<1> SUFFICES ASSUME TypeOK, EnrolInv, WorkerInv, CountersMatchItems, [Next]_vars
             PROVE  CountersMatchItems'
  BY DEF IInv
<1> USE DEF inputVars, runVars, resultVars
<1>1. CASE CreateRun
  <2>1. \A i \in items : recorded[i] = "blank"
    BY <1>1 DEF CreateRun, EnrolInv
  <2>2. Recorded' = Recorded /\ Errors' = Errors
    BY <1>1 DEF CreateRun, Recorded, Errors
  <2>3. generated' = 0 /\ genFailed' = 0
    BY <1>1 DEF CreateRun, EnrolInv
  <2> QED
    BY <2>1, <2>2, <2>3, NothingRecorded DEF CountersMatchItems
<1>2. CASE Refuse \/ ListExamples \/ FinalizeEmpty \/ SetTotal \/ Spawn \/ PublishExampleFails
  BY <1>2, CountersKept DEF Refuse, ListExamples, FinalizeEmpty, SetTotal, Spawn,
                            PublishExampleFails, Stored
<1>3. ASSUME NEW i \in Items, PublishExample(i) PROVE CountersMatchItems'
  BY <1>3, CountersKept DEF PublishExample, Stored
<1>4. CASE InsertItems
  <2>1. \A i \in Items : recorded[i] = "blank"
    BY <1>4 DEF InsertItems, EnrolInv, WorkerInv
  <2>2. items \in SUBSET Items /\ items' \in SUBSET Items
    BY <1>4 DEF InsertItems, TypeOK
  <2>3. Recorded' = Recorded /\ Errors' = Errors
    BY <1>4, <2>1, <2>2 DEF InsertItems, Recorded, Errors
  <2> QED
    BY <1>4, <2>3 DEF InsertItems, CountersMatchItems, Stored
<1>5. ASSUME NEW i \in Items, RecordGeneration(i) PROVE CountersMatchItems'
  <2>1. CASE ~Stored
    BY <1>5, <2>1 DEF RecordGeneration, CountersMatchItems, Stored
  <2>2. CASE Stored
    <3>1. i \in items /\ recorded[i] = "blank"
      BY <1>5, <2>2 DEF RecordGeneration, EnrolInv, WorkerInv
    <3>2. Recorded' = Recorded \cup {i}
      BY <1>5, <2>2, <3>1 DEF RecordGeneration, Recorded, TypeOK
    <3>3. Errors' = IF worker[i] = "error" THEN Errors \cup {i} ELSE Errors
      BY <1>5, <2>2, <3>1 DEF RecordGeneration, Errors, TypeOK
    <3>4. i \notin Recorded /\ i \notin Errors
      BY <3>1 DEF Recorded, Errors
    <3>5. Recorded \in SUBSET Items /\ Errors \in SUBSET Items
      BY DEF TypeOK, Recorded, Errors
    <3>6. IsFiniteSet(Recorded) /\ IsFiniteSet(Errors)
      BY <3>5, ItemSets
    <3>7. /\ Cardinality(Recorded \cup {i}) = Cardinality(Recorded) + 1
          /\ Cardinality(Errors \cup {i}) = Cardinality(Errors) + 1
      BY <3>4, <3>6, FS_AddElement
    <3>8. Cardinality(Errors) \in Nat
      BY <3>5, ItemSets
    <3> QED
      BY <1>5, <2>2, <3>2, <3>3, <3>7, <3>8 DEF RecordGeneration, CountersMatchItems, Stored
  <2> QED
    BY <2>1, <2>2
<1>6. ASSUME NEW i \in Items,
             \/ StartGeneration(i) \/ Generate(i) \/ RecordGenerationFails(i)
             \/ PublishTaskScore(i) \/ PublishTaskScoreFails(i)
             \/ Score(i) \/ ScoreNothing(i) \/ LoseJob(i)
      PROVE  CountersMatchItems'
  BY <1>6, CountersKept DEF StartGeneration, Generate, RecordGenerationFails,
       PublishTaskScore, PublishTaskScoreFails, Score, ScoreNothing, LoseJob, Stored
<1>7. ASSUME NEW r \in Readers, Read(r) PROVE CountersMatchItems'
  BY <1>7, CountersKept DEF Read, ReadRun, ReadItems, ReadResults, Finalize, Stored
<1>8. CASE DeleteDataset
  BY <1>8 DEF DeleteDataset, CountersMatchItems, Stored
<1>9. CASE Crash \/ UNCHANGED vars
  BY <1>9, CountersKept DEF Crash, vars, Stored
<1> QED
  BY <1>1, <1>2, <1>3, <1>4, <1>5, <1>6, <1>7, <1>8, <1>9
     DEF Next, Launch, Generation

-----------------------------------------------------------------------------
(* What stays true of a stored run from one step to the next.              *)

LEMMA Forward ==
  ASSUME TypeOK, EnrolInv, WorkerInv, TraceInv, [Next]_vars, Stored'
  PROVE  /\ request' = request /\ Counted \subseteq Counted'
         /\ Stored \/ (status = "none" /\ items' = {} /\ reader' = reader)
         /\ Stored =>
              /\ generated <= generated'
              /\ Errors \subseteq Errors'
              /\ items # {} => items' = items
              /\ \A i \in Items : recorded[i] # "blank" => recorded'[i] = recorded[i]
              /\ AllSettled /\ items # {} => AllSettled'
<1> USE DEF Stored, inputVars, runVars, resultVars
<1>1. request' = request /\ Counted \subseteq Counted'
  <2> USE DEF Counted
  <2>1. CASE Launch
    BY <2>1 DEF Launch, Refuse, CreateRun, ListExamples, FinalizeEmpty, PublishExample,
                PublishExampleFails, InsertItems, SetTotal, Spawn
  <2>2. ASSUME NEW i \in Items,
               Generation(i) \/ Score(i) \/ ScoreNothing(i) \/ LoseJob(i)
        PROVE  request' = request /\ Counted \subseteq Counted'
    BY <2>2 DEF Generation, StartGeneration, Generate, RecordGeneration,
                RecordGenerationFails, PublishTaskScore, PublishTaskScoreFails,
                Score, ScoreNothing, LoseJob
  <2>3. ASSUME NEW r \in Readers, Read(r)
        PROVE  request' = request /\ Counted \subseteq Counted'
    BY <2>3 DEF Read, ReadRun, ReadItems, ReadResults, Finalize
  <2>4. CASE DeleteDataset \/ Crash \/ UNCHANGED vars
    BY <2>4 DEF DeleteDataset, Crash, vars
  <2> QED
    BY <2>1, <2>2, <2>3, <2>4 DEF Next
\* Only the launch's first step makes a row, and it makes no items.
<1>2. Stored \/ (CreateRun /\ items' = {})
  <2>1. CASE Launch
    BY <2>1 DEF Launch, Refuse, CreateRun, ListExamples, FinalizeEmpty, PublishExample,
                PublishExampleFails, InsertItems, SetTotal, Spawn, EnrolInv
  <2>2. ASSUME NEW i \in Items,
               Generation(i) \/ Score(i) \/ ScoreNothing(i) \/ LoseJob(i)
        PROVE  Stored
    BY <2>2 DEF Generation, StartGeneration, Generate, RecordGeneration,
                RecordGenerationFails, PublishTaskScore, PublishTaskScoreFails,
                Score, ScoreNothing, LoseJob
  <2>3. ASSUME NEW r \in Readers, Read(r) PROVE Stored
    BY <2>3 DEF Read, ReadRun, ReadItems, ReadResults, Finalize
  <2>4. CASE DeleteDataset \/ Crash \/ UNCHANGED vars
    BY <2>4 DEF DeleteDataset, Crash, vars
  <2> QED
    BY <2>1, <2>2, <2>3, <2>4 DEF Next
\* Items, traces and outcomes on record do not change any more.
<1>3. Stored => /\ generated <= generated'
                /\ items # {} => items' = items /\ traceOf' = traceOf
                /\ \A i \in Items : recorded[i] # "blank" => recorded'[i] = recorded[i]
  <2> SUFFICES ASSUME Stored PROVE
        /\ generated <= generated'
        /\ items # {} => items' = items /\ traceOf' = traceOf
        /\ \A i \in Items : recorded[i] # "blank" => recorded'[i] = recorded[i]
    OBVIOUS
  <2> USE DEF TypeOK
  <2>1. CASE Launch
    BY <2>1 DEF Launch, Refuse, CreateRun, ListExamples, FinalizeEmpty, PublishExample,
                PublishExampleFails, InsertItems, SetTotal, Spawn, EnrolInv
  <2>2. ASSUME NEW i \in Items, Generation(i)
        PROVE  /\ generated <= generated' /\ items' = items /\ traceOf' = traceOf
               /\ \A j \in Items : recorded[j] # "blank" => recorded'[j] = recorded[j]
    BY <2>2 DEF Generation, StartGeneration, Generate, RecordGeneration,
                RecordGenerationFails, PublishTaskScore, PublishTaskScoreFails, WorkerInv
  <2>3. ASSUME NEW i \in Items, Score(i) \/ ScoreNothing(i) \/ LoseJob(i)
        PROVE  UNCHANGED <<generated, items, traceOf, recorded>>
    BY <2>3 DEF Score, ScoreNothing, LoseJob
  <2>4. ASSUME NEW r \in Readers, Read(r)
        PROVE  UNCHANGED <<generated, items, traceOf, recorded>>
    BY <2>4 DEF Read, ReadRun, ReadItems, ReadResults, Finalize
  <2>5. CASE DeleteDataset
    BY <2>5 DEF DeleteDataset
  <2>6. CASE Crash \/ UNCHANGED vars
    BY <2>6 DEF Crash, vars
  <2> QED
    BY <2>1, <2>2, <2>3, <2>4, <2>5, <2>6 DEF Next
<1>4. ASSUME Stored PROVE Errors \subseteq Errors'
  <2>1. items \subseteq Items /\ (items = {} \/ items' = items)
    BY <1>3, <1>4 DEF TypeOK
  <2> QED
    BY <1>3, <1>4, <2>1 DEF Errors
<1>5. ASSUME Stored, AllSettled, items # {} PROVE AllSettled'
  <2>1. items' = items /\ traceOf' = traceOf /\ items \subseteq Items
    BY <1>3, <1>5 DEF TypeOK
  <2> QED
    BY <1>1, <1>3, <1>5, <2>1 DEF AllSettled, Settled
<1> QED
  BY <1>1, <1>2, <1>3, <1>4, <1>5 DEF CreateRun, EnrolInv

\* Once every item is settled no further generation fails.
LEMMA FailuresStay ==
  ASSUME IInv, [Next]_vars, Stored, Stored', AllSettled, items # {}
  PROVE  Errors' = Errors
<1>1. /\ request' = request /\ items' = items /\ Errors \subseteq Errors'
      /\ \A i \in Items : recorded[i] # "blank" => recorded'[i] = recorded[i]
  BY Forward DEF IInv
<1>2. ASSUME NEW i \in Errors' PROVE i \in Errors
  <2>1. i \in items /\ i \in Items /\ recorded'[i] = "error"
    BY <1>1, <1>2 DEF Errors, IInv, TypeOK
  <2>2. request.task
    BY <1>1, <2>1, WorkerNext, TypeNext DEF WorkerInv, TypeOK
  <2>3. recorded[i] # "blank"
    BY <2>1, <2>2 DEF AllSettled, Settled
  <2> QED
    BY <1>1, <2>1, <2>3 DEF Errors
<1> QED
  BY <1>1, <1>2

-----------------------------------------------------------------------------
(* What a request may conclude from its reads.                             *)

\* When the decision to finalize falls on the whole run, every item is
\* settled, although the row, the items and the results were read at three
\* different moments: a stale count can only be too low, and a failure that
\* the items did not show yet leaves a result missing.
LEMMA DecisionIsSound ==
  ASSUME TypeOK, EnrolInv, WorkerInv, TraceInv, CountersMatchItems, ReaderInv, Stored,
         NEW r \in Readers, reader[r].pc = "items", reader[r].items # {},
         Settles(reader[r])
  PROVE  /\ AllSettled /\ reader[r].errors = Errors
         /\ CompletedOf(items) + Cardinality(reader[r].errors) = Cardinality(items)
<1> DEFINE rd == reader[r]
<1>1. /\ rd.items = items /\ items \in SUBSET Items
      /\ rd.errors \subseteq Errors /\ rd.generated <= generated
      /\ rd.generated \in Nat
  BY DEF ReaderInv, ReaderOK, TypeOK, Snapshots
<1>2. /\ Recorded \in SUBSET items /\ Errors \in SUBSET items
      /\ rd.errors \in SUBSET items /\ rd.errors \in SUBSET Errors
      /\ Errors \in SUBSET Items
  BY <1>1 DEF Recorded, Errors
<1>3. /\ Cardinality(items) \in Nat /\ Cardinality(rd.errors) \in Nat
      /\ Cardinality(Recorded) \in Nat /\ Cardinality(Recorded) <= Cardinality(items)
      /\ Cardinality(Recorded) = Cardinality(items) => Recorded = items
      /\ Cardinality(Errors) \in Nat /\ Cardinality(rd.errors) <= Cardinality(Errors)
      /\ Cardinality(rd.errors) = Cardinality(Errors) => rd.errors = Errors
  BY <1>1, <1>2, ItemSets
<1>4. /\ CompletedOf(items) \in Nat
      /\ CompletedOf(items) >= Cardinality(items) - Cardinality(rd.errors)
  BY <1>1, CompletedCount DEF Settles
<1>5. CASE ~request.task
  <2>1. Errors = {}
    <3>1. \A i \in Items : worker[i] = "none"
      BY <1>5 DEF WorkerInv
    <3> QED
      BY <1>1, <3>1 DEF WorkerInv, Errors
  <2>2. rd.errors = {} /\ Cardinality(rd.errors) = 0
    BY <1>2, <2>1, FS_EmptySet
  <2>3. /\ CompletedOf(items) <= Cardinality(items)
        /\ CompletedOf(items) >= Cardinality(items) => \A i \in items : traceOf[i] \in Counted
    BY <1>1, CompletedCount
  <2>4. CompletedOf(items) >= Cardinality(items)
    BY <1>3, <1>4, <2>2
  <2> QED
    BY <1>3, <1>4, <1>5, <2>1, <2>2, <2>3, <2>4 DEF AllSettled, Settled
<1>6. CASE request.task
  <2>1. Recorded = items
    <3>1. ~(rd.generated < Cardinality(items))
      BY <1>1, <1>6 DEF Settles
    <3>2. generated = Cardinality(Recorded)
      BY DEF CountersMatchItems
    <3> QED
      BY <1>1, <1>3, <3>1, <3>2 DEF TypeOK
  \* The traces that have results are those of items that did not fail.
  <2> DEFINE T == {traceOf[i] : i \in items} \cap Counted
  <2>2. \A i \in items : traceOf[i] = i
    BY <1>1, <1>6 DEF TraceInv, EnrolInv
  <2>3. T \in SUBSET (items \ Errors)
    <3>1. \A i \in items : i \in Counted => recorded[i] # "error"
      <4>1. \A i \in items : i \notin priorRows
        BY <1>1, ItemsAssumption DEF TypeOK
      <4> QED
        BY <1>1, <1>6, <4>1 DEF Counted, TraceInv
    <3> QED
      BY <2>2, <3>1 DEF Errors
  <2>4. items \ Errors \in SUBSET Items
    BY <1>1
  <2>5. /\ Cardinality(T) <= Cardinality(items \ Errors)
        /\ Cardinality(items \ Errors) \in Nat
        /\ Cardinality(T) = Cardinality(items \ Errors) => T = items \ Errors
    BY <2>3, <2>4, ItemSets
  <2>6. Cardinality(items \ Errors) = Cardinality(items) - Cardinality(Errors)
    <3>1. IsFiniteSet(items)
      BY <1>1, ItemSets
    <3>2. items \cap Errors = Errors
      BY <1>2
    <3> QED
      BY ZenonT(40), <3>1, <3>2, FS_Difference
  <2>7. CompletedOf(items) = Cardinality(T)
    BY DEF CompletedOf
  <2>8. /\ CompletedOf(items) = Cardinality(items) - Cardinality(rd.errors)
        /\ T = items \ Errors /\ Cardinality(rd.errors) = Cardinality(Errors)
    BY <1>3, <1>4, <2>5, <2>6, <2>7
  <2>9. AllSettled
    <3> SUFFICES ASSUME NEW i \in items PROVE Settled(i)
      BY DEF AllSettled
    <3>1. CASE i \in Errors
      BY <3>1 DEF Errors, Settled
    <3>2. CASE i \notin Errors
      <4>1. traceOf[i] \in Counted
        BY <2>2, <2>8, <3>2
      <4>2. recorded[i] = "output"
        BY <1>1, <2>1, <3>2 DEF Recorded, Errors, TypeOK
      <4> QED
        BY <4>1, <4>2 DEF Settled
    <3> QED
      BY <3>1, <3>2
  <2> QED
    BY <1>3, <1>4, <2>8, <2>9
<1> QED
  BY <1>5, <1>6

LEMMA ReaderInit == Init => ReaderInv
BY DEF Init, ReaderInv, Stored, IdleReader

\* A request moves only by a step of its own.
LEMMA ReaderMoves ==
  ASSUME NEW r \in Readers, TypeOK, [Next]_vars
  PROVE  reader'[r] = reader[r] \/ Read(r)
<1>1. CASE Launch
  BY <1>1 DEF Launch, Refuse, CreateRun, ListExamples, FinalizeEmpty, PublishExample,
              PublishExampleFails, InsertItems, SetTotal, Spawn
<1>2. ASSUME NEW i \in Items,
             Generation(i) \/ Score(i) \/ ScoreNothing(i) \/ LoseJob(i)
      PROVE  reader' = reader
  BY <1>2 DEF Generation, StartGeneration, Generate, RecordGeneration,
              RecordGenerationFails, PublishTaskScore, PublishTaskScoreFails,
              Score, ScoreNothing, LoseJob
<1>3. ASSUME NEW q \in Readers, Read(q), q # r
      PROVE  reader'[r] = reader[r]
  BY <1>3 DEF Read, ReadRun, ReadItems, ReadResults, Finalize, TypeOK
<1>4. CASE DeleteDataset \/ Crash \/ UNCHANGED vars
  BY <1>4 DEF DeleteDataset, Crash, vars
<1> QED
  BY <1>1, <1>2, <1>3, <1>4 DEF Next

LEMMA ReaderNext == IInv /\ [Next]_vars => ReaderInv'
<1> SUFFICES ASSUME IInv, [Next]_vars PROVE ReaderInv'
  OBVIOUS
<1> USE DEF IInv
<1>1. ASSUME status' = "none", NEW r \in Readers PROVE reader'[r].pc = "idle"
  <2>1. status = "none" /\ ~Read(r)
    <3>1. CASE Launch
      BY <1>1, <3>1 DEF Launch, Refuse, CreateRun, ListExamples, FinalizeEmpty,
           PublishExample, PublishExampleFails, InsertItems, SetTotal, Spawn, Stored,
           runVars, ReaderInv, Read, ReadRun, ReadItems, ReadResults, Finalize
    <3>2. ASSUME NEW i \in Items,
                 Generation(i) \/ Score(i) \/ ScoreNothing(i) \/ LoseJob(i)
          PROVE  status = "none"
      BY <1>1, <3>2 DEF Generation, StartGeneration, Generate, RecordGeneration,
           RecordGenerationFails, PublishTaskScore, PublishTaskScoreFails, Score,
           ScoreNothing, LoseJob, runVars
    <3>3. ASSUME NEW q \in Readers, Read(q) PROVE status = "none"
      BY <1>1, <3>3 DEF Read, ReadRun, ReadItems, ReadResults, Finalize, Stored, runVars
    <3>4. ASSUME DeleteDataset \/ Crash PROVE status = "none"
      BY <1>1, <3>4 DEF DeleteDataset, Crash, runVars
    <3>5. status = "none"
      BY <1>1, <3>1, <3>2, <3>3, <3>4 DEF Next, vars
    <3> QED
      BY <3>5 DEF ReaderInv, Read, ReadRun, ReadItems, ReadResults, Finalize, Stored
  <2> QED
    BY <2>1, ReaderMoves DEF ReaderInv
<1>2. ASSUME Stored', NEW r \in Readers PROVE ReaderOK(r)'
  <2>1. CASE ~Stored
    BY <1>2, <2>1, Forward DEF ReaderInv, ReaderOK
  <2>2. CASE Stored
    <3> DEFINE rd == reader[r]
    <3>1. /\ ReaderOK(r)
          /\ generated <= generated' /\ Errors \subseteq Errors'
          /\ items # {} => items' = items
          /\ AllSettled /\ items # {} => AllSettled' /\ Errors' = Errors
          /\ generated \in Nat /\ generated' \in Nat /\ rd.generated \in Nat
      BY <1>2, <2>2, Forward, FailuresStay, TypeNext DEF ReaderInv, TypeOK, Snapshots
    <3>2. CASE reader'[r] = reader[r]
      BY <3>1, <3>2 DEF ReaderOK
    <3>3. CASE ReadRun(r)
      <4>1. r \in ListReaders => items # {}
        BY <3>3 DEF ReadRun, EnrolInv
      <4>2. reader'[r].pc = "row" /\ reader'[r].generated = generated
        BY <3>3 DEF ReadRun, TypeOK
      <4> QED
        BY <3>1, <4>1, <4>2 DEF ReaderOK
    <3>4. CASE ReadItems(r)
      <4>1. /\ reader'[r].pc = "items" /\ reader'[r].generated = rd.generated
            /\ reader'[r].items = items /\ reader'[r].errors = Errors
            /\ items' = items /\ rd.pc = "row"
        BY <3>4 DEF ReadItems, TypeOK, Snapshots, runVars
      <4>2. Errors \subseteq items
        BY DEF Errors
      <4> QED
        BY <3>1, <4>1, <4>2 DEF ReaderOK
    <3>5. CASE ReadResults(r)
      <4>1. items' = items /\ rd.pc = "items" /\ rd.items \in {{}, items}
        BY <3>1, <3>5 DEF ReadResults, runVars, ReaderOK
      <4>2. CASE ~Settles(rd)
        <5>1. reader'[r].pc = "idle"
          BY <3>5, <4>2 DEF ReadResults, TypeOK, IdleReader
        <5> QED
          BY <3>1, <5>1 DEF ReaderOK
      <4>3. CASE Settles(rd)
        <5>1. /\ reader'[r].pc = "finalize" /\ reader'[r].items = rd.items
              /\ reader'[r].errors = rd.errors
              /\ reader'[r].completed = CompletedOf(rd.items)
          BY <3>5, <4>3 DEF ReadResults, TypeOK, Snapshots
        <5>2. rd.items # {} =>
                /\ AllSettled /\ rd.items = items /\ rd.errors = Errors
                /\ CompletedOf(items) + Cardinality(rd.errors) = Cardinality(items)
          BY <2>2, <4>1, <4>3, DecisionIsSound
        <5> QED
          BY <3>1, <4>1, <5>1, <5>2 DEF ReaderOK
      <4> QED
        BY <4>2, <4>3
    <3>6. CASE Finalize(r)
      <4>1. reader'[r].pc = "idle"
        BY <3>6 DEF Finalize, TypeOK, IdleReader
      <4> QED
        BY <4>1 DEF ReaderOK
    <3> QED
      BY <3>2, <3>3, <3>4, <3>5, <3>6, ReaderMoves DEF Read
  <2> QED
    BY <2>1, <2>2
<1>3. ASSUME NEW r \in Readers \ askers' PROVE reader'[r].pc = "idle"
  <2>1. r \in Readers \ askers
    BY <1>3, AskersStay
  <2>2. reader[r].pc = "idle" /\ ~Read(r)
    BY <2>1 DEF ReaderInv, Read, ReadRun, ReadItems, ReadResults, Finalize
  <2> QED
    BY <2>1, <2>2, ReaderMoves
<1> QED
  BY <1>1, <1>2, <1>3 DEF ReaderInv

-----------------------------------------------------------------------------
(* Complete runs.                                                          *)

LEMMA CompleteInit == Init => CompleteInv
BY DEF Init, CompleteInv

\* A step that leaves a complete row alone, or writes the row of a run that
\* is not complete, keeps what the summary says.
LEMMA CompleteKept ==
  ASSUME IInv, [Next]_vars, status' = "complete", summary' = summary,
         status = "complete"
  PROVE  CompleteInv'
<1>1. Stored /\ Stored'
  BY DEF Stored
<1>2. /\ AllSettled /\ items # {} => AllSettled' /\ Errors' = Errors
      /\ items # {} => items' = items
  BY <1>1, Forward, FailuresStay DEF IInv
<1>3. summary.total > 0 => items # {}
  <2>1. items = {} => Cardinality(items) = 0
    BY FS_EmptySet
  <2> QED
    BY <2>1 DEF IInv, CompleteInv
<1>4. launch = "returned" /\ listed = {} => launch' = "returned" /\ listed' = {}
  <2> SUFFICES ASSUME launch = "returned", listed = {}
               PROVE  launch' = "returned" /\ listed' = {}
    OBVIOUS
  <2>1. CASE Launch
    BY <2>1 DEF Launch, Refuse, CreateRun, ListExamples, FinalizeEmpty, PublishExample,
                PublishExampleFails, InsertItems, SetTotal, Spawn
  <2>2. ASSUME NEW i \in Items,
               Generation(i) \/ Score(i) \/ ScoreNothing(i) \/ LoseJob(i)
        PROVE  launch' = launch /\ listed' = listed
    BY <2>2 DEF Generation, StartGeneration, Generate, RecordGeneration,
         RecordGenerationFails, PublishTaskScore, PublishTaskScoreFails, Score,
         ScoreNothing, LoseJob
  <2>3. ASSUME NEW r \in Readers, Read(r)
        PROVE  launch' = launch /\ listed' = listed
    BY <2>3 DEF Read, ReadRun, ReadItems, ReadResults, Finalize
  <2>4. CASE DeleteDataset \/ Crash \/ UNCHANGED vars
    BY <2>4 DEF DeleteDataset, Crash, LaunchActive, inputVars, vars
  <2> QED
    BY <2>1, <2>2, <2>3, <2>4 DEF Next
<1> QED
  BY <1>2, <1>3, <1>4, AskersStay DEF IInv, CompleteInv

\* No other step completes a run or writes its summary.
LEMMA OnlyFinalized ==
  ASSUME [Next]_vars, status' = "complete", ~FinalizeEmpty, \A r \in Readers : ~Finalize(r)
  PROVE  status = "complete" /\ summary' = summary
<1>1. CASE Launch
  BY <1>1 DEF Launch, Refuse, CreateRun, ListExamples, PublishExample,
                    PublishExampleFails, InsertItems, SetTotal, Spawn, runVars
<1>2. ASSUME NEW i \in Items,
             Generation(i) \/ Score(i) \/ ScoreNothing(i) \/ LoseJob(i)
      PROVE  status = "complete" /\ summary' = summary
  BY <1>2 DEF Generation, StartGeneration, Generate, RecordGeneration,
       RecordGenerationFails, PublishTaskScore, PublishTaskScoreFails, Score,
       ScoreNothing, LoseJob, runVars
<1>3. ASSUME NEW r \in Readers, Read(r)
      PROVE  status = "complete" /\ summary' = summary
  BY <1>3 DEF Read, ReadRun, ReadItems, ReadResults, runVars
<1>4. CASE DeleteDataset \/ Crash \/ UNCHANGED vars
  BY <1>4 DEF DeleteDataset, Crash, runVars, vars
<1> QED
  BY <1>1, <1>2, <1>3, <1>4 DEF Next

LEMMA CompleteNext == IInv /\ [Next]_vars => CompleteInv'
<1> SUFFICES ASSUME IInv, [Next]_vars, status' = "complete" PROVE CompleteInv'
  BY DEF CompleteInv
<1>1. CASE FinalizeEmpty
  BY <1>1 DEF FinalizeEmpty, NoSummary, CompleteInv, IInv, EnrolInv, Stored
<1>2. ASSUME NEW r \in Readers, Finalize(r) PROVE CompleteInv'
  <2> DEFINE rd == reader[r]
  <2>1. Stored
    BY <1>2 DEF Finalize, Stored
  <2>2. /\ ReaderOK(r) /\ rd.pc = "finalize"
        /\ rd.items \in SUBSET Items /\ rd.errors \in SUBSET Items
        /\ rd.completed \in Nat
    BY <1>2, <2>1 DEF IInv, ReaderInv, TypeOK, Snapshots, Finalize
  <2>3. /\ Cardinality(rd.items) \in Nat /\ Cardinality(rd.errors) \in Nat
        /\ rd.items = {} <=> Cardinality(rd.items) = 0
    BY <2>2, ItemSets, FS_EmptySet
  <2>4. /\ summary'.total = Cardinality(rd.items)
        /\ summary'.completed = rd.completed
        /\ summary'.failed = Cardinality(rd.errors)
    BY <1>2, <2>1 DEF Finalize, SummaryOf
  <2>5. items' = items
    BY <1>2 DEF Finalize
  <2>6. summary'.total > 0 =>
          /\ AllSettled' /\ summary'.total = Cardinality(items)
          /\ summary'.completed + summary'.failed = summary'.total
          /\ summary'.failed = Cardinality(Errors')
    <3>1. (AllSettled => AllSettled') /\ Errors' = Errors
      BY <1>2 DEF Finalize, AllSettled, Settled, Counted, Errors, inputVars, resultVars
    <3> QED
      BY <2>2, <2>3, <2>4, <3>1 DEF ReaderOK
  <2>7. ByList => summary'.total > 0
    <3>1. r \in askers /\ rd.pc = "finalize"
      BY <1>2 DEF Finalize, IInv, ReaderInv
    <3> QED
      BY <2>2, <2>3, <2>4, <3>1 DEF ReaderOK, Readers, ByList
  <2> QED
    BY <2>5, <2>6, <2>7, AskersStay DEF CompleteInv
<1> QED
  BY <1>1, <1>2, OnlyFinalized, CompleteKept

-----------------------------------------------------------------------------
(* The theorems.                                                           *)

LEMMA Inductive == Spec => []IInv
<1>1. Init => IInv
  BY TypeInit, EnrolInit, WorkerInit, TraceInit, CountersInit, ReaderInit, CompleteInit
     DEF IInv
<1>2. IInv /\ [Next]_vars => IInv'
  BY TypeNext, EnrolNext, WorkerNext, TraceNext, CountersNext, ReaderNext, CompleteNext
     DEF IInv
<1> QED
  BY <1>1, <1>2, PTL DEF Spec

\* The variables of the model keep their types.
THEOREM TypeCorrect == Spec => []TypeOK
BY Inductive, PTL DEF IInv

\* The counters of the run row are the item rows counted, at every moment at
\* which another transaction could look.
THEOREM CountersCorrect == Spec => []CountersMatchItems
BY Inductive, PTL DEF IInv

\* However many requests read the run at once, however stale their reads, a
\* run finalized over its items has every one of them settled.
THEOREM CompleteRunsAreSettled == Spec => []SettledWhenComplete
<1>1. IInv => SettledWhenComplete
  BY DEF IInv, CompleteInv, SettledWhenComplete
<1> QED
  BY <1>1, Inductive, PTL

\* The summary of such a run accounts for each item once.
THEOREM SummariesAddUp == Spec => []SummaryAccountsForItems
<1>1. IInv => SummaryAccountsForItems
  BY DEF IInv, CompleteInv, SummaryAccountsForItems
<1> QED
  BY <1>1, Inductive, PTL

\* The list's guard on the total keeps it from finalizing a run whose items
\* are not there yet.
THEOREM ListIsGuarded == Spec => []ListFinalizesWholeRuns
<1>1. IInv => ListFinalizesWholeRuns
  BY DEF IInv, ReaderInv, ReaderOK, ListFinalizesWholeRuns, Readers
<1> QED
  BY <1>1, Inductive, PTL

\* Runs that are scored under fresh traces never complete on older results.
THEOREM FreshTracesAttribute == Spec => []ResultsAreThisRuns
<1>1. IInv => ResultsAreThisRuns
  BY ItemsAssumption DEF IInv, TypeOK, TraceInv, ResultsAreThisRuns, Counted, Traces
<1> QED
  BY <1>1, Inductive, PTL

\* Where no report is asked for, a run reported complete has all the examples it
\* was launched on, each settled.
THEOREM ListOnlyRunsAreWhole == Spec => []ListWaitsForEveryResult
<1>1. IInv => ListWaitsForEveryResult
  <2> SUFFICES ASSUME IInv, ByList, status = "complete", launch \notin {"failed", "crashed"}
               PROVE  items = listed /\ AllSettled
    BY DEF ListWaitsForEveryResult, FinalizedOnceEveryExampleHasResult
  <2>1. CASE summary.total > 0
    <3>1. AllSettled /\ summary.total = Cardinality(items)
      BY <2>1 DEF IInv, CompleteInv
    <3>2. items # {}
      BY <2>1, <3>1, FS_EmptySet
    <3> QED
      BY <3>1, <3>2 DEF IInv, EnrolInv
  <2>2. CASE launch = "returned" /\ listed = {}
    <3>1. items = {}
      BY <2>2 DEF IInv, EnrolInv, Stored
    <3> QED
      BY <2>2, <3>1 DEF AllSettled
  <2> QED
    BY <2>1, <2>2 DEF IInv, CompleteInv
<1> QED
  BY <1>1, Inductive, PTL

\* Two requests that finalize a run over its items write the same summary: whatever
\* each had read before, both found every item and every failure.
LEMMA SameSummary ==
  ASSUME IInv, [Next]_vars, status = "complete", status' = "complete",
         summary.total > 0, summary'.total > 0
  PROVE  summary' = summary
<1>1. Stored /\ summary \in [total : Nat, completed : Nat, failed : Nat]
  BY DEF Stored, IInv, TypeOK
<1>2. ~FinalizeEmpty
  BY <1>1 DEF FinalizeEmpty, NoSummary
<1>3. ASSUME NEW r \in Readers, Finalize(r) PROVE summary' = summary
  <2> DEFINE rd == reader[r]
  <2>1. /\ ReaderOK(r) /\ rd.pc = "finalize" /\ rd \in Snapshots
        /\ summary' = SummaryOf(rd)
    BY <1>1, <1>3 DEF IInv, ReaderInv, Finalize, TypeOK
  <2>2. rd.items # {}
    BY <2>1, FS_EmptySet DEF SummaryOf
  <2>3. /\ rd.items = items /\ rd.errors = Errors
        /\ rd.completed + Cardinality(Errors) = Cardinality(items)
    BY <2>1, <2>2 DEF ReaderOK
  <2>4. /\ summary.total = Cardinality(items) /\ summary.failed = Cardinality(Errors)
        /\ summary.completed + Cardinality(Errors) = Cardinality(items)
    BY DEF IInv, CompleteInv
  <2>5. rd.completed \in Nat /\ Cardinality(items) \in Nat /\ Cardinality(Errors) \in Nat
    <3>1. items \in SUBSET Items /\ Errors \in SUBSET Items
      BY DEF IInv, TypeOK, Errors
    <3> QED
      BY <2>1, <3>1, ItemSets DEF Snapshots
  <2>6. rd.completed = summary.completed
    BY <1>1, <2>3, <2>4, <2>5
  <2>7. summary = [total |-> summary.total, completed |-> summary.completed, failed |-> summary.failed]
    BY <1>1
  <2> QED
    BY <2>1, <2>3, <2>4, <2>6, <2>7 DEF SummaryOf
<1> QED
  BY <1>2, <1>3, OnlyFinalized

\* However many requests finalize a run, those that saw its items agree: the summary
\* over them never changes.
THEOREM SummariesAgree ==
  Spec => [][status = "complete" /\ status' = "complete" /\ summary.total > 0 /\ summary'.total > 0
               => summary' = summary]_vars
<1>1. IInv /\ [Next]_vars =>
        [status = "complete" /\ status' = "complete" /\ summary.total > 0 /\ summary'.total > 0
           => summary' = summary]_vars
  BY SameSummary
<1> QED
  BY <1>1, Inductive, PTL DEF Spec

\* Where no report is asked for, what the row says of a complete run stays.
THEOREM ListOnlySummariesStay == Spec => FinalSummaryStable
<1>1. ASSUME IInv, [Next]_vars, ByList, status = "complete", status' = "complete"
      PROVE  summary' = summary
  <2>1. IInv'
    BY <1>1, TypeNext, EnrolNext, WorkerNext, TraceNext, CountersNext, ReaderNext, CompleteNext DEF IInv
  <2>2. summary.total > 0 \/ (launch = "returned" /\ listed = {} /\ items = {})
    BY <1>1 DEF IInv, CompleteInv, EnrolInv, Stored
  <2>3. CASE summary.total > 0 /\ summary'.total > 0
    BY <1>1, <2>3, SameSummary
  \* An empty run was completed by its launch, and no request of the list looks at it.
  <2>4. CASE ~(summary.total > 0)
    <3>1. ~FinalizeEmpty
      BY <2>2, <2>4 DEF FinalizeEmpty
    <3>2. \A r \in Readers : ~Finalize(r)
      BY <1>1, <2>2, <2>4 DEF Finalize, IInv, ReaderInv, ReaderOK, Readers, Stored, ByList
    <3> QED
      BY <1>1, <3>1, <3>2, OnlyFinalized
  <2>5. CASE summary.total > 0 /\ ~(summary'.total > 0)
    <3>1. items # {}
      BY <1>1, <2>5, FS_EmptySet DEF IInv, CompleteInv
    <3>2. items' = items
      BY <1>1, <3>1, Forward DEF IInv, Stored
    <3>3. items' = {}
      BY <1>1, <2>1, <2>5, AskersStay DEF IInv, CompleteInv, EnrolInv, Stored
    <3> QED
      BY <3>1, <3>2, <3>3
  <2> QED
    BY <2>3, <2>4, <2>5
<1>2. IInv /\ [Next]_vars => [ByList /\ status = "complete" /\ status' = "complete" => summary' = summary]_vars
  BY <1>1
<1> QED
  BY <1>2, Inductive, PTL DEF Spec, FinalSummaryStable

-----------------------------------------------------------------------------
(* Refinement: the run as its readers see it is a RunLifecycle.            *)

SettledItems == {i \in Items : Settled(i)}

LEMMA LifecycleInit == Init => Lifecycle!Init
<1> SUFFICES ASSUME Init PROVE Lifecycle!Init
  OBVIOUS
<1>1. NoTrace \notin Counted
  BY ItemsAssumption DEF Init, Counted, Traces
<1>2. Outcomes = {}
  BY <1>1 DEF Init, Outcomes, Settled
<1>3. Phase = "absent" /\ Members = NoTrace
  BY DEF Init, Phase, Members, Stored
<1> QED
  BY <1>2, <1>3 DEF Lifecycle!Init

\* Short of a deletion, no outcome is ever withdrawn.
LEMMA OutcomesAccumulate ==
  ASSUME IInv, [Next]_vars, ~DeleteDataset
  PROVE  SettledItems \subseteq SettledItems'
<1> SUFFICES ASSUME NEW i \in Items, Settled(i) PROVE Settled(i)'
  BY DEF SettledItems
<1> USE DEF IInv, Settled, Counted, inputVars, runVars, resultVars
<1>0. NoTrace \notin Counted
  BY ItemsAssumption DEF Traces, TypeOK
<1>1. CASE ListExamples
  <2>1. request.task => i \notin priorRows
    BY ItemsAssumption DEF TypeOK
  <2>2. request.task => traceOf[i] \notin Counted
    BY <1>0, <1>1, <2>1 DEF ListExamples, EnrolInv, TraceInv
  <2>3. launch = "created" => recorded[i] # "error"
    BY DEF EnrolInv, WorkerInv
  <2> QED
    BY <1>1, <2>2, <2>3 DEF ListExamples
<1>2. ASSUME NEW j \in Items, PublishExample(j) PROVE Settled(i)'
  BY <1>0, <1>2 DEF PublishExample, TypeOK
<1>3. CASE Refuse \/ CreateRun \/ FinalizeEmpty \/ PublishExampleFails
           \/ InsertItems \/ SetTotal \/ Spawn
  BY <1>3 DEF Refuse, CreateRun, FinalizeEmpty, PublishExampleFails, InsertItems,
              SetTotal, Spawn
<1>4. ASSUME NEW j \in Items, RecordGeneration(j) PROVE Settled(i)'
  BY <1>4 DEF RecordGeneration, WorkerInv, TypeOK
<1>5. ASSUME NEW j \in Items,
             \/ StartGeneration(j) \/ Generate(j) \/ RecordGenerationFails(j)
             \/ PublishTaskScore(j) \/ PublishTaskScoreFails(j)
             \/ Score(j) \/ ScoreNothing(j) \/ LoseJob(j)
      PROVE  Settled(i)'
  BY <1>5 DEF StartGeneration, Generate, RecordGenerationFails, PublishTaskScore,
              PublishTaskScoreFails, Score, ScoreNothing, LoseJob
<1>6. ASSUME NEW r \in Readers, Read(r) PROVE Settled(i)'
  BY <1>6 DEF Read, ReadRun, ReadItems, ReadResults, Finalize
<1>7. CASE Crash \/ UNCHANGED vars
  BY <1>7 DEF Crash, vars
<1> QED
  BY <1>1, <1>2, <1>3, <1>4, <1>5, <1>6, <1>7 DEF Next, Launch, Generation

\* A step that leaves the row's status and the items alone settles at most.
LEMMA QuietStep ==
  ASSUME SettledItems \subseteq SettledItems', status' = status, items' = items, ByList' = ByList
  PROVE  Lifecycle!Next
<1>1. Phase' = Phase /\ Members' = Members
  BY DEF Phase, Members, Stored
<1>2. Outcomes' \in SUBSET Items /\ Outcomes \subseteq Outcomes'
  BY DEF Outcomes, SettledItems
<1>3. Lifecycle!Settle(Outcomes')
  BY <1>1, <1>2 DEF Lifecycle!Settle
<1> QED
  BY <1>2, <1>3 DEF Lifecycle!Next

LEMMA LifecycleStep ==
  ASSUME ByList, IInv, IInv', [Next]_vars
  PROVE  [Lifecycle!Next]_(Lifecycle!vars)
<1>0. ByList' /\ ByList' = ByList /\ Outcomes = SettledItems /\ Outcomes' = SettledItems'
  BY AskersStay DEF Outcomes, SettledItems
<1>1. CASE CreateRun
  <2>1. SettledItems' = SettledItems
    BY <1>1 DEF CreateRun, SettledItems, Settled, Counted, inputVars, resultVars
  <2>2. /\ Phase = "absent" /\ Phase' = "open"
        /\ Members = NoTrace /\ Members' = NoTrace
    BY <1>0, <1>1 DEF CreateRun, Phase, Members, Stored, IInv, EnrolInv
  <2> QED
    BY <1>0, <2>1, <2>2 DEF Lifecycle!Next, Lifecycle!Open
<1>2. CASE InsertItems /\ Stored
  <2>1. /\ SettledItems' = SettledItems /\ Phase' = Phase
        /\ items = {} /\ items' = listed /\ status' = status
    BY <1>0, <1>2 DEF InsertItems, SettledItems, Settled, Counted, inputVars, resultVars,
                Phase, Stored, IInv, EnrolInv
  <2>2. CASE status = "running"
    <3>1. Phase = "open" /\ Members = NoTrace
      BY <1>0, <2>1, <2>2 DEF Phase, Members
    <3>2. CASE listed = {}
      BY <1>2, <2>1, <3>2, OutcomesAccumulate, <1>0, QuietStep DEF InsertItems, DeleteDataset
    <3>3. CASE listed # {}
      <4>1. Members' = listed /\ listed \in SUBSET Items
        BY <1>0, <2>1, <2>2, <3>3 DEF Members, Stored, IInv, TypeOK
      <4>2. Lifecycle!Enrol(listed)
        BY <1>0, <2>1, <3>1, <4>1 DEF Lifecycle!Enrol
      <4> QED
        BY <4>1, <4>2 DEF Lifecycle!Next
    <3> QED
      BY <3>2, <3>3
  \* A run that is complete before its items are there was empty.
  <2>3. CASE status = "complete"
    <3>1. summary.total = 0
      BY <2>1, <2>3, FS_EmptySet DEF IInv, CompleteInv, TypeOK
    <3> QED
      BY <1>2, <2>3, <3>1 DEF InsertItems, IInv, CompleteInv
  <2> QED
    BY <1>2, <2>2, <2>3 DEF Stored
<1>3. CASE FinalizeEmpty /\ Stored
  <2>1. /\ SettledItems' = SettledItems /\ items = {} /\ items' = {}
        /\ status' = "complete"
    BY <1>3 DEF FinalizeEmpty, SettledItems, Settled, Counted, inputVars, resultVars,
                IInv, EnrolInv
  <2>2. CASE status = "running"
    <3>1. Phase = "open" /\ Phase' = "complete" /\ Members = NoTrace /\ Members' = {}
      BY <1>0, <2>1, <2>2 DEF Phase, Members, Stored
    <3> QED
      BY <1>0, <2>1, <3>1 DEF Lifecycle!Next, Lifecycle!CompleteEmpty
  <2>3. CASE status = "complete"
    BY <2>1, <2>3, <1>0, QuietStep
  <2> QED
    BY <1>3, <2>2, <2>3 DEF Stored
<1>4. ASSUME NEW r \in Readers, Finalize(r), Stored
      PROVE  [Lifecycle!Next]_(Lifecycle!vars)
  <2>1. /\ SettledItems' = SettledItems /\ items' = items /\ status' = "complete"
    BY <1>4 DEF Finalize, SettledItems, Settled, Counted, inputVars, resultVars
  <2>2. CASE status = "running"
    <3>1. ReaderOK(r) /\ reader[r].pc = "finalize" /\ r \in ListReaders
      <4>1. ReaderOK(r) /\ reader[r].pc = "finalize" /\ r \in askers
        BY <1>4 DEF IInv, ReaderInv, Finalize
      <4> QED
        BY <4>1 DEF ByList, Readers
    <3>2. items # {} /\ AllSettled
      BY <3>1 DEF ReaderOK
    <3>3. /\ Phase = "open" /\ Phase' = "complete"
          /\ Members = items /\ Members' = items
      BY <1>0, <2>1, <2>2, <3>2 DEF Phase, Members, Stored
    <3>4. items \subseteq SettledItems /\ items # NoTrace
      <4>1. items \subseteq Items
        BY DEF IInv, TypeOK
      <4> QED
        BY <3>2, <4>1, ItemsAssumption DEF AllSettled, SettledItems
    <3> QED
      BY <1>0, <2>1, <3>3, <3>4 DEF Lifecycle!Next, Lifecycle!Complete
  <2>3. CASE status = "complete"
    BY <2>1, <2>3, <1>0, QuietStep
  <2> QED
    BY <1>4, <2>2, <2>3 DEF Stored
<1>5. CASE DeleteDataset
  <2>1. /\ Phase \in {"open", "complete"} /\ Phase' = "deleted" /\ Members' = NoTrace
    BY <1>0, <1>5 DEF DeleteDataset, Phase, Members, Stored
  <2>2. SettledItems' \in SUBSET SettledItems
    BY <1>5 DEF DeleteDataset, SettledItems, Settled, Counted, inputVars, resultVars
  <2> QED
    BY <1>0, <2>1, <2>2 DEF Lifecycle!Next, Lifecycle!Delete
\* Every other step leaves the status and the items as they are.
<1>6. ASSUME ~CreateRun, ~(InsertItems /\ Stored), ~(FinalizeEmpty /\ Stored),
             \A r \in Readers : ~(Finalize(r) /\ Stored), ~DeleteDataset
      PROVE  status' = status /\ items' = items
  <2> USE DEF runVars
  <2>1. CASE Launch
    BY <1>6, <2>1 DEF Launch, Refuse, ListExamples, FinalizeEmpty, PublishExample,
                      PublishExampleFails, InsertItems, SetTotal, Spawn
  <2>2. ASSUME NEW i \in Items,
               Generation(i) \/ Score(i) \/ ScoreNothing(i) \/ LoseJob(i)
        PROVE  status' = status /\ items' = items
    BY <2>2 DEF Generation, StartGeneration, Generate, RecordGeneration,
         RecordGenerationFails, PublishTaskScore, PublishTaskScoreFails, Score,
         ScoreNothing, LoseJob
  <2>3. ASSUME NEW r \in Readers, Read(r)
        PROVE  status' = status /\ items' = items
    BY <1>6, <2>3 DEF Read, ReadRun, ReadItems, ReadResults, Finalize
  <2>4. CASE Crash \/ UNCHANGED vars
    BY <2>4 DEF Crash, vars
  <2> QED
    BY <1>6, <2>1, <2>2, <2>3, <2>4 DEF Next
<1> QED
  BY <1>1, <1>2, <1>3, <1>4, <1>5, <1>6, OutcomesAccumulate, <1>0, QuietStep

\* Where a report is asked for, nothing is said of the run.
LEMMA LifecycleSilent ==
  ASSUME ~ByList, [Next]_vars
  PROVE  [Lifecycle!Next]_(Lifecycle!vars)
<1>1. ~ByList'
  BY AskersStay
<1>2. UNCHANGED <<Phase, Members, Outcomes>>
  BY <1>1 DEF Phase, Members, Outcomes
<1> QED
  BY <1>2 DEF Lifecycle!vars

\* Read through the list of runs alone, a run behaves as RunLifecycle says:
\* members fixed once, complete only when they are all settled, never undone.
THEOREM ListOnlyRefinement == Spec => ImplementsLifecycle
<1> SUFFICES Spec => Lifecycle!Spec
  BY DEF ImplementsLifecycle
<1>1. Init => Lifecycle!Init
  BY LifecycleInit
<1>2. IInv /\ IInv' /\ [Next]_vars => [Lifecycle!Next]_(Lifecycle!vars)
  BY LifecycleStep, LifecycleSilent
<1> QED
  BY <1>1, <1>2, Inductive, PTL DEF Spec, Lifecycle!Spec
=============================================================================
