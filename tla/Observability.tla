---------------------------- MODULE Observability ----------------------------
(***************************************************************************)
(* What is kept of traces and read of them: the tables and their rollups,  *)
(* the list of traces, the dashboards, labels, and the reviews of people.  *)
(* A behaviour is about one part and leaves the others where they began:   *)
(*   "store"   rows of every table come in, in any order, and expire       *)
(*   "labels"  tags and flags are set by overlapping requests              *)
(*   "review"  people judge runs, edit the rubric, and read the queue      *)
(*   "examples" runs become examples while their spans come and expire     *)
(*   "code"    scripts push resources and run evals of their own           *)
(*   "remote"  servers run evals that the dashboard asks for               *)
(*   "compare" results of runs come in while the runs are compared         *)
(***************************************************************************)
EXTENDS ReviewQueue, Examples, CodeFirst, RemoteEvals, RunCompare

CONSTANT Before       \* what people find when they begin: the traces that came
                      \* in and when, the judges' messages, the flags, the time

ASSUME BeforeAssumption ==
  /\ Batches \cap Reviewers = {}
  /\ \A b \in Before :
       /\ b.now \in 0..MaxTime /\ b.spans \in Seq([trace : Spans, at : 0..b.now])
       /\ \A i, j \in DOMAIN b.spans : b.spans[i].trace = b.spans[j].trace => i = j
       /\ b.scored \subseteq Batches /\ IsFiniteSet(b.scored)
       /\ b.flags \subseteq {row \in Rows : row.stamp = 0}

VARIABLE part

vars == <<part, labelVars, storeVars, reviewVars, queueVars, exampleVars, codeVars, remoteVars, compareVars>>

Init ==
  /\ part \in {"store", "labels", "review", "examples", "code", "remote", "compare"}
  /\ ReviewInit /\ QueueInit /\ ExamplesInit /\ CodeInit /\ RemoteInit /\ CompareInit
  /\ part # "code" => runs = <<>>
  /\ part # "compare" => runKind = "metrics"
  /\ \/ part \in {"store", "code", "remote", "compare"} /\ StoreInit(<<>>, {}, 0) /\ LabelsInit({})
     \/ part \in {"labels", "examples"} /\ \E b \in Before : StoreInit(b.spans, {}, b.now) /\ LabelsInit({})
     \/ part = "review" /\ \E b \in Before : StoreInit(b.spans, b.scored, b.now) /\ LabelsInit(b.flags)

\* Nothing that people write moves what the tracer wrote.
Untraced == UNCHANGED <<spans, costs, scans, expired, now>>

PeopleStep ==
  \/ ReviewStep /\ Untraced /\ UNCHANGED queueVars
  \/ QueueStep /\ UNCHANGED <<storeVars, rubric, crowded, examples>>

DatasetStep ==
  \/ ExamplesStep /\ UNCHANGED storeVars
  \/ SpansStep /\ UNCHANGED <<asking, crowded, examples, exampleVars>>

KeptStep ==
  \/ part = "store" /\ StoreStep /\ UNCHANGED <<labelVars, reviewVars, queueVars, exampleVars>>
  \/ part = "labels" /\ LabelsStep /\ UNCHANGED <<storeVars, reviewVars, queueVars, exampleVars>>
  \/ part = "review" /\ PeopleStep /\ UNCHANGED <<labelVars, exampleVars>>
  \/ part = "examples" /\ DatasetStep /\ UNCHANGED <<labelVars, queueVars, rubric>>

RunsStep ==
  \/ part = "code" /\ CodeStep /\ UNCHANGED <<remoteVars, compareVars>>
  \/ part = "remote" /\ RemoteStep /\ UNCHANGED <<codeVars, compareVars>>
  \/ part = "compare" /\ RowArrives /\ UNCHANGED <<codeVars, remoteVars>>

Next ==
  /\ UNCHANGED part
  /\ \/ KeptStep /\ UNCHANGED <<codeVars, remoteVars, compareVars>>
     \/ RunsStep /\ UNCHANGED <<storeVars, labelVars, reviewVars, queueVars, exampleVars>>

Spec == Init /\ [][Next]_vars

TypeOK ==
  /\ LabelsTypeOK /\ ReviewTypeOK /\ CodeTypeOK /\ RemoteTypeOK /\ CompareTypeOK
  /\ \A i \in DOMAIN spans : spans[i].trace \in Spans /\ spans[i].at \in 0..now
  /\ \A row \in evals : row.trace \in Spans /\ row.score \in Score /\ row.at \in 0..now
  /\ expired \cap Here = {}

\* Whatever rows came in, in whatever order, what is rolled up of them, charted and
\* billed is their sum: the cost and the quality of a run, the totals of the monitor,
\* what judges used.  A review adds rows of the same kind.
RowsAddUp ==
  /\ TypeOK
  /\ part \in {"store", "labels", "review"} => RollupsAddUp /\ MonitorAddsUp /\ UsageAddsUp

\* Every list of the same traces shows the same.  The lists are read where the rows
\* they join come in; span rows come and go for examples as they do in the store.
\* What is made an example of is what the lists show.
ReadsAgree ==
  /\ part \in {"store", "labels"} => PagesAgree /\ RunsSurface /\ PagesCount
  /\ ExamplesAsk /\ ImportsWhole

\* The queue, the matrix and the agreement are made of scores, which examples add none of.
QueueIsRight == part \in {"store", "labels", "review"} => QueueRight

\* What is read of the rows is what they say.
ReadsAreRight == RowsAddUp /\ QueueIsRight

\* What people said stands: the last label, the questions, the answers,
\* the examples made of runs.
LastWordStands == LabelsShowLastWord /\ RubricHolds /\ ReviewsAccounted /\ ExamplesStand

\* What is defined in code is found by its name, and what is asked of code is
\* accounted for.
CodeRunsAccounted == OneByName /\ PushesStand /\ LocalRunsAccounted /\ RemoteEvalsServed

\* Whatever way runs are read and compared, the same rows say the same of them.
ComparisonsAgree ==
  part = "compare" => ComparisonsMirror /\ ManyAgreeWithTwo /\ ComparedTheSame /\ ReportsAgree
=============================================================================
