------------------------------ MODULE DatasetRun ------------------------------
(***************************************************************************)
(* One dataset run, from launch to "complete".                             *)
(*                                                                         *)
(* A launch request creates a dataset_runs row, enrols the dataset's       *)
(* examples as dataset_run_items and has each of them scored by a worker   *)
(* outside this service, which writes its results to ClickHouse.  A task   *)
(* run first generates an output for every item, in coroutines detached    *)
(* from the request; a grading run publishes what already exists.  Nothing *)
(* runs on a timer: the run becomes "complete" when some request that      *)
(* reads it (the report, or the list of runs) finds every result in.       *)
(*                                                                         *)
(* Every await of the code is a step boundary here.  The readers keep what *)
(* each query returned, so what they decide on may be stale, and the       *)
(* launch, the generation coroutines, the workers and the readers          *)
(* interleave freely.                                                      *)
(***************************************************************************)
EXTENDS Integers, FiniteSets

CONSTANTS
  Items,          \* the examples a launch may enrol, one per trial
  SourceTraces,   \* production traces that examples were imported from
  NoTrace,        \* "no trace id"
  Kinds,          \* the kinds of run that are launched
  ReportReaders,  \* requests that build a run's report
  ListReaders,    \* requests that list a dataset's runs
  Askings,        \* which of these requests there are, at once
  Concurrency,    \* TASK_CONCURRENCY: generations at once within one run
  MaxFaults,      \* bound: failed writes, failed publishes, lost jobs, crashes
  MaxDeletes      \* bound: deletions of the dataset

Readers == ReportReaders \cup ListReaders
Traces  == Items \cup SourceTraces   \* a fresh uuid is named by its item

ASSUME ItemsAssumption ==
  /\ IsFiniteSet(Items)
  /\ Items \cap SourceTraces = {}
  /\ NoTrace \notin Traces
  /\ \A S \in SUBSET Items : S # NoTrace
ASSUME KindsAssumption   == Kinds \subseteq {"agentic", "metrics", "security"}
ASSUME ReadersAssumption ==
  ReportReaders \cap ListReaders = {} /\ Askings \subseteq SUBSET Readers
ASSUME BoundsAssumption  ==
  /\ Concurrency \in Nat \ {0}
  /\ MaxFaults \in Nat
  /\ MaxDeletes \in Nat

VARIABLES
  request,    \* the launch: whether it carries a task, its kind, the source
              \* trace in each example's metadata
  priorRows,  \* source traces with result rows older than this run
  askers,     \* the requests that read the run
  launch,     \* where the launching coroutine stands
  listed,     \* the examples it read from the dataset
  traceOf,    \* the trace id each item is scored under
  status, total, generated, genFailed, summary,   \* the dataset_runs row
  items,      \* the dataset_run_items rows
  recorded,   \* their output / gen_error columns
  worker,     \* where each generation coroutine stands
  jobs,       \* scoring jobs published and not yet processed
  scored,     \* traces this run's jobs produced a result with a score for
  unscored,   \* traces this run's jobs produced only score-less rows for
  reader,     \* what each reading request has fetched so far
  faults, deletes

runVars    == <<status, total, generated, genFailed, summary, items, recorded>>
resultVars == <<jobs, scored, unscored>>
inputVars  == <<request, priorRows, askers>>
vars == <<request, priorRows, askers, launch, listed, traceOf, status, total,
          generated, genFailed, summary, items, recorded, worker, jobs,
          scored, unscored, reader, faults, deletes>>

-----------------------------------------------------------------------------
NoSummary == [total |-> 0, completed |-> 0, failed |-> 0]

IdleReader == [pc |-> "idle", status |-> "none", generated |-> 0,
               items |-> {}, errors |-> {}, completed |-> 0]

LaunchStates == {"requested", "refused", "created", "empty", "publishing",
                 "enrolling", "inserted", "enrolled", "returned", "failed",
                 "crashed"}
WorkerStates == {"none", "waiting", "generating", "ok", "error",
                 "publishing", "done", "lost"}
ReaderStates == {"idle", "row", "items", "finalize"}

\* What a reader may hold: the row's status and count, the items with those
\* of them that failed, the number of results.
Snapshots == [pc : ReaderStates, status : {"none", "running", "complete"},
              generated : Nat, items : SUBSET Items, errors : SUBSET Items,
              completed : Nat]

TypeOK ==
  /\ request \in [task : BOOLEAN, kind : Kinds,
                  source : [Items -> SourceTraces \cup {NoTrace}]]
  /\ priorRows \in SUBSET SourceTraces
  /\ askers \in SUBSET Readers
  /\ launch \in LaunchStates
  /\ listed \in SUBSET Items
  /\ traceOf \in [Items -> Traces \cup {NoTrace}]
  /\ status \in {"none", "running", "complete", "deleted"}
  /\ total \in Nat /\ generated \in Nat /\ genFailed \in Nat
  /\ summary \in [total : Nat, completed : Nat, failed : Nat]
  /\ items \in SUBSET Items
  /\ recorded \in [Items -> {"blank", "output", "error"}]
  /\ worker \in [Items -> WorkerStates]
  /\ jobs \in SUBSET Items
  /\ scored \in SUBSET Traces /\ unscored \in SUBSET Traces
  /\ reader \in [Readers -> Snapshots]
  /\ faults \in Nat /\ deletes \in Nat

\* The run row is in the database.
Stored == status \in {"running", "complete"}

\* Items whose execution was recorded, and those recorded as failed.
Recorded == {i \in items : recorded[i] # "blank"}
Errors   == {i \in items : recorded[i] = "error"}

\* The traces a report of this run finds results for: a metrics run counts
\* only rows that carry a score, the other kinds count any row.
Counted == priorRows \cup scored
             \cup (IF request.kind = "metrics" THEN {} ELSE unscored)

\* Coroutines of the run that hold a permit of its semaphore.
Holding == {i \in Items : worker[i] \in {"generating", "ok", "error", "publishing"}}

-----------------------------------------------------------------------------
Init ==
  /\ request \in [task : BOOLEAN, kind : Kinds,
                  source : [Items -> SourceTraces \cup {NoTrace}]]
  /\ priorRows \in SUBSET SourceTraces
  /\ askers \in Askings
  /\ launch = "requested"
  /\ listed = {}
  /\ traceOf = [i \in Items |-> NoTrace]
  /\ status = "none"
  /\ total = 0 /\ generated = 0 /\ genFailed = 0
  /\ summary = NoSummary
  /\ items = {}
  /\ recorded = [i \in Items |-> "blank"]
  /\ worker = [i \in Items |-> "none"]
  /\ jobs = {} /\ scored = {} /\ unscored = {}
  /\ reader = [r \in Readers |-> IdleReader]
  /\ faults = 0 /\ deletes = 0

Fault == faults < MaxFaults /\ faults' = faults + 1

-----------------------------------------------------------------------------
(* The launch request: _launch_run.                                        *)

\* Quota exceeded, no usable task or key, or not the org's dataset: the
\* request fails before any row exists.
Refuse ==
  /\ launch = "requested"
  /\ launch' = "refused"
  /\ UNCHANGED <<inputVars, listed, traceOf, runVars, worker, resultVars,
                 reader, faults, deletes>>

\* create_run
CreateRun ==
  /\ launch = "requested"
  /\ launch' = "created"
  /\ status' = "running"
  /\ UNCHANGED <<inputVars, listed, traceOf, total, generated, genFailed,
                 summary, items, recorded, worker, resultVars, reader,
                 faults, deletes>>

\* list_examples: whatever the dataset holds by then, up to the cap.
ListExamples ==
  /\ launch = "created"
  /\ \E E \in SUBSET Items :
       /\ listed' = E
       /\ launch' = IF E = {} THEN "empty"
                    ELSE IF request.task THEN "enrolling" ELSE "publishing"
       /\ traceOf' = IF request.task
                       THEN [i \in Items |-> IF i \in E THEN i ELSE NoTrace]
                       ELSE traceOf
  /\ UNCHANGED <<inputVars, runVars, worker, resultVars, reader, faults, deletes>>

\* An empty dataset is complete at once.
FinalizeEmpty ==
  /\ launch = "empty"
  /\ launch' = "returned"
  /\ status' = IF Stored THEN "complete" ELSE status
  /\ summary' = IF Stored THEN NoSummary ELSE summary
  /\ UNCHANGED <<inputVars, listed, traceOf, total, generated, genFailed,
                 items, recorded, worker, resultVars, reader, faults, deletes>>

\* Seeded fault: metrics are graded under the source trace as well.
TraceChoicesShared(i) ==
  IF request.source[i] # NoTrace THEN {i, request.source[i]} ELSE {i}

\* The trace a grading run may score an example under: its source trace when
\* that still has events, unless the run grades metrics; otherwise a fresh id.
TraceChoices(i) ==
  IF request.kind # "metrics" /\ request.source[i] # NoTrace
    THEN {i, request.source[i]}
    ELSE {i}

\* A grading run publishes one job per example, awaiting each.
PublishExample(i) ==
  /\ launch = "publishing"
  /\ i \in listed /\ traceOf[i] = NoTrace
  /\ \E t \in TraceChoices(i) : traceOf' = [traceOf EXCEPT ![i] = t]
  /\ jobs' = jobs \cup {i}
  /\ launch' = IF \A j \in listed \ {i} : traceOf[j] # NoTrace
                 THEN "enrolling" ELSE launch
  /\ UNCHANGED <<inputVars, listed, runVars, worker, scored, unscored,
                 reader, faults, deletes>>

\* The broker is unreachable: the request fails, the row and the jobs that
\* were already published stay.
PublishExampleFails ==
  /\ launch = "publishing"
  /\ Fault
  /\ launch' = "failed"
  /\ UNCHANGED <<inputVars, listed, traceOf, runVars, worker, resultVars,
                 reader, deletes>>

\* add_run_items, its first statement; the foreign key refuses it once the
\* run row is gone.
InsertItems ==
  /\ launch = "enrolling"
  /\ launch' = IF Stored THEN "inserted" ELSE "failed"
  /\ items' = IF Stored THEN listed ELSE items
  /\ UNCHANGED <<inputVars, listed, traceOf, status, total, generated,
                 genFailed, summary, recorded, worker, resultVars, reader,
                 faults, deletes>>

\* add_run_items, its second statement.
SetTotal ==
  /\ launch = "inserted"
  /\ launch' = IF request.task THEN "enrolled" ELSE "returned"
  /\ total' = IF Stored THEN Cardinality(listed) ELSE total
  /\ UNCHANGED <<inputVars, listed, traceOf, status, generated, genFailed,
                 summary, items, recorded, worker, resultVars, reader,
                 faults, deletes>>

\* A task run starts its generation coroutines and answers the request.
Spawn ==
  /\ launch = "enrolled"
  /\ launch' = "returned"
  /\ worker' = [i \in Items |-> IF i \in listed THEN "waiting" ELSE worker[i]]
  /\ UNCHANGED <<inputVars, listed, traceOf, runVars, resultVars, reader,
                 faults, deletes>>

Launch ==
  \/ Refuse \/ CreateRun \/ ListExamples \/ FinalizeEmpty
  \/ \E i \in Items : PublishExample(i)
  \/ PublishExampleFails \/ InsertItems \/ SetTotal \/ Spawn

-----------------------------------------------------------------------------
(* Generation, one coroutine per item: the inner function `one` of         *)
(* _generate_and_score.                                                    *)

\* async with gate
StartGeneration(i) ==
  /\ worker[i] = "waiting"
  /\ Cardinality(Holding) < Concurrency
  /\ worker' = [worker EXCEPT ![i] = "generating"]
  /\ UNCHANGED <<inputVars, launch, listed, traceOf, runVars, resultVars,
                 reader, faults, deletes>>

\* task_runner.generate never raises: it returns an output, or an error
\* (which an empty output becomes).
Generate(i) ==
  /\ worker[i] = "generating"
  /\ \E outcome \in {"ok", "error"} : worker' = [worker EXCEPT ![i] = outcome]
  /\ UNCHANGED <<inputVars, launch, listed, traceOf, runVars, resultVars,
                 reader, faults, deletes>>

\* After the record the coroutine publishes an output and drops an error.
AfterRecord(i) == IF worker[i] = "ok" THEN "publishing" ELSE "done"

\* record_generation: the item and the run's counters in one transaction,
\* which matches no row when the dataset was deleted.
RecordGeneration(i) ==
  /\ worker[i] \in {"ok", "error"}
  /\ worker' = [worker EXCEPT ![i] = AfterRecord(i)]
  /\ IF Stored
       THEN /\ recorded' = [recorded EXCEPT
                              ![i] = IF worker[i] = "ok" THEN "output" ELSE "error"]
            /\ generated' = generated + 1
            /\ genFailed' = genFailed + (IF worker[i] = "error" THEN 1 ELSE 0)
       ELSE UNCHANGED <<recorded, generated, genFailed>>
  /\ UNCHANGED <<inputVars, launch, listed, traceOf, status, total, summary,
                 items, resultVars, reader, faults, deletes>>

\* Seeded fault: the two writes of record_generation are not one transaction,
\* and the second fails.
RecordGenerationHalfFails(i) ==
  /\ worker[i] \in {"ok", "error"}
  /\ Fault
  /\ worker' = [worker EXCEPT ![i] = AfterRecord(i)]
  /\ recorded' = IF Stored
                   THEN [recorded EXCEPT
                           ![i] = IF worker[i] = "ok" THEN "output" ELSE "error"]
                   ELSE recorded
  /\ UNCHANGED <<inputVars, launch, listed, traceOf, status, total, generated,
                 genFailed, summary, items, resultVars, reader, deletes>>

\* The write fails; the exception is logged and scoring goes on.
RecordGenerationFails(i) ==
  /\ worker[i] \in {"ok", "error"}
  /\ Fault
  /\ worker' = [worker EXCEPT ![i] = AfterRecord(i)]
  /\ UNCHANGED <<inputVars, launch, listed, traceOf, runVars, resultVars,
                 reader, deletes>>

\* _publish_task_score
PublishTaskScore(i) ==
  /\ worker[i] = "publishing"
  /\ worker' = [worker EXCEPT ![i] = "done"]
  /\ jobs' = jobs \cup {i}
  /\ UNCHANGED <<inputVars, launch, listed, traceOf, runVars, scored,
                 unscored, reader, faults, deletes>>

\* The publish fails; the exception is logged and the job never exists.
PublishTaskScoreFails(i) ==
  /\ worker[i] = "publishing"
  /\ Fault
  /\ worker' = [worker EXCEPT ![i] = "done"]
  /\ UNCHANGED <<inputVars, launch, listed, traceOf, runVars, resultVars,
                 reader, deletes>>

Generation(i) ==
  \/ StartGeneration(i) \/ Generate(i)
  \/ RecordGeneration(i) \/ RecordGenerationFails(i)
  \/ PublishTaskScore(i) \/ PublishTaskScoreFails(i)

-----------------------------------------------------------------------------
(* The evaluator and security workers, outside this service.               *)

\* A job is processed and its result rows reach ClickHouse.
Score(i) ==
  /\ i \in jobs
  /\ jobs' = jobs \ {i}
  /\ scored' = scored \cup {traceOf[i]}
  /\ UNCHANGED <<inputVars, launch, listed, traceOf, runVars, worker,
                 unscored, reader, faults, deletes>>

\* The evaluator has nothing to grade and writes rows without a score.
ScoreNothing(i) ==
  /\ i \in jobs
  /\ request.kind # "security"
  /\ Fault
  /\ jobs' = jobs \ {i}
  /\ unscored' = unscored \cup {traceOf[i]}
  /\ UNCHANGED <<inputVars, launch, listed, traceOf, runVars, worker,
                 scored, reader, deletes>>

\* The job is never processed.
LoseJob(i) ==
  /\ i \in jobs
  /\ Fault
  /\ jobs' = jobs \ {i}
  /\ UNCHANGED <<inputVars, launch, listed, traceOf, runVars, worker,
                 scored, unscored, reader, deletes>>

-----------------------------------------------------------------------------
(* The reading requests: _build_report, get_dataset_runs and the           *)
(* _summarize_and_finalize they share.                                     *)

\* Seeded fault: a row that is gone is read as if it were there.
ReadRunMissing(r) ==
  /\ r \in askers /\ reader[r].pc = "idle"
  /\ r \in ListReaders => status = "running" /\ total > 0
  /\ reader' = [reader EXCEPT ![r] =
                  [pc |-> "row", status |-> status, generated |-> generated,
                   items |-> {}, errors |-> {}, completed |-> 0]]
  /\ UNCHANGED <<inputVars, launch, listed, traceOf, runVars, worker,
                 resultVars, faults, deletes>>

\* Seeded fault: the list settles running rows before their total is set.
ReadRunUntotalled(r) ==
  /\ r \in askers /\ reader[r].pc = "idle"
  /\ Stored
  /\ r \in ListReaders => status = "running"
  /\ reader' = [reader EXCEPT ![r] =
                  [pc |-> "row", status |-> status, generated |-> generated,
                   items |-> {}, errors |-> {}, completed |-> 0]]
  /\ UNCHANGED <<inputVars, launch, listed, traceOf, runVars, worker,
                 resultVars, faults, deletes>>

\* get_run / list_runs: the run row.  The list goes on only with a running
\* row whose total is set; the report goes on with any row.
ReadRun(r) ==
  /\ r \in askers /\ reader[r].pc = "idle"
  /\ Stored
  /\ r \in ListReaders => status = "running" /\ total > 0
  /\ reader' = [reader EXCEPT ![r] =
                  [pc |-> "row", status |-> status, generated |-> generated,
                   items |-> {}, errors |-> {}, completed |-> 0]]
  /\ UNCHANGED <<inputVars, launch, listed, traceOf, runVars, worker,
                 resultVars, faults, deletes>>

\* get_run_items
ReadItems(r) ==
  /\ reader[r].pc = "row"
  /\ reader' = [reader EXCEPT ![r] =
                  [reader[r] EXCEPT !.pc = "items", !.items = items,
                                    !.errors = Errors]]
  /\ UNCHANGED <<inputVars, launch, listed, traceOf, runVars, worker,
                 resultVars, faults, deletes>>

\* What the report calls "completed": distinct traces that have a result.
CompletedOf(S) == Cardinality({traceOf[i] : i \in S} \cap Counted)

\* Seeded faults: the run need not have finished generating; failed
\* generations are taken off the denominator twice; or not at all.
SettlesUngated(rd) ==
  /\ CompletedOf(rd.items) >= Cardinality(rd.items) - Cardinality(rd.errors)
  /\ rd.status = "running"

SettlesTwiceDiscounted(rd) ==
  /\ ~(request.task /\ rd.generated < Cardinality(rd.items))
  /\ CompletedOf(rd.items) >= Cardinality(rd.items) - 2 * Cardinality(rd.errors)
  /\ rd.status = "running"

SettlesUndiscounted(rd) ==
  /\ ~(request.task /\ rd.generated < Cardinality(rd.items))
  /\ CompletedOf(rd.items) >= Cardinality(rd.items)
  /\ rd.status = "running"

\* The decision of _summarize_and_finalize, from the row and the items as
\* they were read and the results as they are now.
Settles(rd) ==
  /\ ~(request.task /\ rd.generated < Cardinality(rd.items))
  /\ CompletedOf(rd.items) >= Cardinality(rd.items) - Cardinality(rd.errors)
  /\ rd.status = "running"

\* The ClickHouse query and the decision.
ReadResults(r) ==
  /\ reader[r].pc = "items"
  /\ reader' = [reader EXCEPT ![r] =
                  IF Settles(reader[r])
                    THEN [reader[r] EXCEPT !.pc = "finalize",
                                           !.completed = CompletedOf(reader[r].items)]
                    ELSE IdleReader]
  /\ UNCHANGED <<inputVars, launch, listed, traceOf, runVars, worker,
                 resultVars, faults, deletes>>

SummaryOf(rd) == [total |-> Cardinality(rd.items), completed |-> rd.completed,
                  failed |-> Cardinality(rd.errors)]

\* finalize_run: an update that does not look at the row's present status.
Finalize(r) ==
  /\ reader[r].pc = "finalize"
  /\ reader' = [reader EXCEPT ![r] = IdleReader]
  /\ status' = IF Stored THEN "complete" ELSE status
  /\ summary' = IF Stored THEN SummaryOf(reader[r]) ELSE summary
  /\ UNCHANGED <<inputVars, launch, listed, traceOf, total, generated,
                 genFailed, items, recorded, worker, resultVars, faults,
                 deletes>>

Read(r) == ReadRun(r) \/ ReadItems(r) \/ ReadResults(r) \/ Finalize(r)

-----------------------------------------------------------------------------
(* Deletion and crashes.                                                   *)

\* DELETE FROM datasets: the run and its items cascade.
DeleteDataset ==
  /\ Stored
  /\ deletes < MaxDeletes
  /\ deletes' = deletes + 1
  /\ status' = "deleted"
  /\ items' = {}
  /\ recorded' = [i \in Items |-> "blank"]
  /\ UNCHANGED <<inputVars, launch, listed, traceOf, total, generated,
                 genFailed, summary, worker, resultVars, reader, faults>>

LaunchActive == launch \in {"created", "empty", "publishing", "enrolling",
                            "inserted", "enrolled"}
WorkerActive(i) == worker[i] \in {"waiting", "generating", "ok", "error", "publishing"}

\* The process that holds the launch and its coroutines stops.  They live in
\* memory only; a restart resumes neither.
Crash ==
  /\ LaunchActive \/ \E i \in Items : WorkerActive(i)
  /\ Fault
  /\ launch' = IF LaunchActive THEN "crashed" ELSE launch
  /\ worker' = [i \in Items |-> IF WorkerActive(i) THEN "lost" ELSE worker[i]]
  /\ UNCHANGED <<inputVars, listed, traceOf, runVars, resultVars, reader, deletes>>

-----------------------------------------------------------------------------
Next ==
  \/ Launch
  \/ \E i \in Items : Generation(i) \/ Score(i) \/ ScoreNothing(i) \/ LoseJob(i)
  \/ \E r \in Readers : Read(r)
  \/ DeleteDataset
  \/ Crash

Spec == Init /\ [][Next]_vars

\* Coroutines that can run do run, workers drain their topics, and the run is
\* looked at again and again by at least the requests of ListReaders.
FairSpec ==
  /\ Spec
  /\ WF_vars(Launch)
  /\ \A i \in Items : WF_vars(Generation(i)) /\ WF_vars(Score(i))
  /\ \A r \in Readers : WF_vars(Read(r))

-----------------------------------------------------------------------------
(* What is promised about it.                                              *)

\* An item is settled when its generation is recorded as failed, or it has a
\* result (and, in a task run, the output the result is about is on record).
Settled(i) ==
  \/ recorded[i] = "error"
  \/ traceOf[i] \in Counted /\ (request.task => recorded[i] = "output")

AllSettled == \A i \in items : Settled(i)

\* The counters of the row are the item rows counted: no generation is
\* counted twice, forgotten, or visible on one side only (record_generation).
CountersMatchItems ==
  Stored => /\ generated = Cardinality(Recorded)
            /\ genFailed = Cardinality(Errors)

\* A run finalized over at least one item has every item settled, whatever
\* snapshot the request that finalized it had decided on.
SettledWhenComplete ==
  status = "complete" /\ summary.total > 0 => AllSettled

\* The summary such a run carries accounts for every item exactly once.
SummaryAccountsForItems ==
  status = "complete" /\ summary.total > 0 =>
    /\ summary.total = Cardinality(items)
    /\ summary.completed + summary.failed = summary.total

\* A request of the runs list never finalizes a run it saw no items of: the
\* total it waits for is written after the items.
ListFinalizesWholeRuns ==
  \A r \in ListReaders :
    reader[r].pc = "finalize" /\ Stored =>
      reader[r].items # {} /\ reader[r].items = items

\* In a metrics run and in a task run the results that complete the run came
\* from this run's jobs, never from older rows of a shared source trace.
ResultsAreThisRuns ==
  status = "complete" /\ (request.task \/ request.kind = "metrics") =>
    \A i \in items : traceOf[i] \in Counted => traceOf[i] \in scored \cup unscored

\* A run is reported complete only when every example it was launched on has
\* a result (the report's own description of when it finalizes).
FinalizedOnceEveryExampleHasResult ==
  status = "complete" /\ launch \notin {"failed", "crashed"} =>
    items = listed /\ AllSettled

\* The list of runs keeps to that, where no report is asked for.
ByList == askers \cap ReportReaders = {}
ListWaitsForEveryResult == ByList => FinalizedOnceEveryExampleHasResult

\* Two requests of the list that finalize a run agree: what the row says of a
\* complete run stays.
FinalSummaryStable ==
  [][ByList /\ status = "complete" /\ status' = "complete" => summary' = summary]_vars

\* The launch never got as far as a run with items, or something an item needs
\* was lost, or two items share a trace: the run can stay "running" for ever.
Pinned ==
  \/ launch \in {"refused", "failed", "crashed"}
  \/ \E i \in items :
       \/ worker[i] = "lost"
       \/ worker[i] = "done" /\ recorded[i] = "blank"
       \/ /\ worker[i] = "done" \/ ~request.task
          /\ i \notin jobs
          /\ recorded[i] # "error" /\ traceOf[i] \notin Counted
       \/ \E j \in items \ {i} : traceOf[j] = traceOf[i]

\* Every launched run is eventually complete or deleted, unless it is pinned
\* by a loss: a failing provider alone never holds a run at "running".
EventuallySettles == <>(status \in {"complete", "deleted"} \/ Pinned)

-----------------------------------------------------------------------------
(* The run as its readers see it, RunLifecycle.                            *)

Phase == IF ~ByList \/ status = "none" THEN "absent" ELSE IF status = "running" THEN "open" ELSE status

\* Undecided until the items are inserted; none when a run completes without.
Members ==
  IF Stored /\ ByList /\ items # {} THEN items
  ELSE IF ByList /\ status = "complete" THEN {} ELSE NoTrace

Outcomes == {i \in Items : ByList /\ Settled(i)}

Lifecycle == INSTANCE RunLifecycle WITH
  Undecided <- NoTrace, phase <- Phase, members <- Members, settled <- Outcomes

\* Read through the list of runs alone, a run keeps its promise; nothing is said
\* of one that a report is asked for.
ImplementsLifecycle == Lifecycle!Spec
=============================================================================
