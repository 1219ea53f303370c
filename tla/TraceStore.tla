----------------------------- MODULE TraceStore ------------------------------
(***************************************************************************)
(* The tables the workers write traces, costs, scans and scores to, and    *)
(* the rollups per run that materialized views keep of them: every insert  *)
(* folds its rows into the rollup of their root, in whatever order they    *)
(* arrive.  Nothing is ever updated; raw traces and scans of an            *)
(* organization on the free tier expire.                                   *)
(***************************************************************************)
EXTENDS Labels, FiniteSetsExt, SequencesExt

CONSTANTS
  Spans, SpanOf,      \* spans, and what the tracer makes of each
  Batches, BatchOf,   \* messages of the evaluator, and the scores in each
  MaxRows,            \* bound on the rows inserted
  MaxScans,           \* bound on the scans of one span
  MaxTime             \* bound on the time buckets that pass

VARIABLES
  spans,              \* traces, in the order they were ingested
  costs, scans,       \* trace_costs and security_scans: when, how often
  evals,              \* evaluations
  rollup,             \* the four rollup tables
  expired,            \* traces past their retention
  now

storeVars == <<spans, costs, scans, evals, rollup, expired, now>>

Roots == {SpanOf[t].root : t \in Spans}
Here == Spans \cap {spans[i].trace : i \in DOMAIN spans}
Billed == {t \in Spans : costs[t] # Nothing}
Score == 0..10                   \* tenths

\* People are no judges, and what a message of the evaluator says is whole.
ASSUME StoreAssumption ==
  /\ IsFiniteSet(Spans) /\ Labelled \subseteq Spans /\ MaxTime \in Nat /\ Nothing \notin Nat
  /\ \A t \in Spans : SpanOf[t].cost \in Nat /\ SpanOf[t].risk \in 0..3
  /\ \A b \in Batches :
       /\ BatchOf[b].trace \in Spans /\ BatchOf[b].usage \in Nat
       /\ BatchOf[b].evaluator \notin {"human.feedback", "human.annotation"}
       /\ IsFiniteSet(DOMAIN BatchOf[b].scores) /\ BatchOf[b].first \in DOMAIN BatchOf[b].scores
       /\ \A x \in DOMAIN BatchOf[b].scores : BatchOf[b].scores[x] \in Score
Human(row) == row.evaluator \in {"human.feedback", "human.annotation"}

CostOf(traces)  == SumFunction([t \in traces |-> SpanOf[t].cost])
ScansOf(traces) == SumFunction([t \in traces |-> scans[t]])
ScoreSum(rows)  == SumFunction([row \in rows |-> row.score])

RowCount == Len(spans) + Cardinality(expired) + Cardinality(Billed) + Cardinality(evals)
              + ScansOf(Spans)

-----------------------------------------------------------------------------
\* What the views fold in for a row of each table.
FoldSpan(acc)       == [acc EXCEPT !.spans = @ + 1]
FoldCost(acc, t)    == [acc EXCEPT !.cost = @ + SpanOf[t].cost]
FoldScan(acc, t)    == [acc EXCEPT !.risk = Max({@, SpanOf[t].risk}),
                                   !.detections = @ + (IF SpanOf[t].risk > 0 THEN 1 ELSE 0)]

\* Seeded fault: what people say is folded in with what the judges say.
RatedByAll(row) == row.evaluator # "fluiq.security"

Rated(row) == row.evaluator # "fluiq.security" /\ ~Human(row)

FoldScores(acc, rows) ==
  LET rated == {row \in rows : Rated(row)} IN
    [acc EXCEPT !.scores = @ + Cardinality(rated),
                !.sum = @ + ScoreSum(rated),
                !.min = Min({@} \cup {row.score : row \in rated})]

\* A score of the API's own evaluator is inserted without its root: it folds into
\* no run.
OfRoot(rows, root) ==
  {row \in rows : SpanOf[row.trace].root = root /\ row.evaluator # "fluiq.eval"}

InsertScores(rows) ==
  /\ evals' = evals \cup rows
  /\ rollup' = [root \in Roots |-> FoldScores(rollup[root], OfRoot(rows, root))]

\* One row per metric; the first carries what the judges of all of them used.
Graded(b, time) ==
  {[from |-> b, trace |-> BatchOf[b].trace, evaluator |-> BatchOf[b].evaluator,
    metric |-> x, score |-> BatchOf[b].scores[x], kind |-> "score", at |-> time,
    usage |-> IF x = BatchOf[b].first THEN BatchOf[b].usage ELSE 0] :
      x \in DOMAIN BatchOf[b].scores}

StoreInit(arrived, graded, time) ==
  /\ spans = arrived /\ now = time
  /\ evals = UNION {Graded(b, 0) : b \in graded}
  /\ expired = {}
  /\ costs = [t \in Spans |-> Nothing] /\ scans = [t \in Spans |-> 0]
  /\ rollup = [r \in Roots |-> FoldScores(
                 [cost |-> 0, scores |-> 0, sum |-> 0, min |-> 10, risk |-> 0, detections |-> 0,
                  spans |-> Cardinality({i \in DOMAIN arrived : SpanOf[arrived[i].trace].root = r})],
                 OfRoot(evals, r))]

-----------------------------------------------------------------------------
Persist(t) ==
  /\ t \notin Here \cup expired
  /\ spans' = Append(spans, [trace |-> t, at |-> now])
  /\ rollup' = [rollup EXCEPT ![SpanOf[t].root] = FoldSpan(@)]
  /\ UNCHANGED <<costs, scans, evals, expired, now>>

Bill(t) ==
  /\ t \notin Billed /\ SpanOf[t].cost > 0
  /\ costs' = [costs EXCEPT ![t] = now]
  /\ rollup' = [rollup EXCEPT ![SpanOf[t].root] = FoldCost(@, t)]
  /\ UNCHANGED <<spans, scans, evals, expired, now>>

\* A security run over a dataset scans a trace again under its own id.
ScanSpan(t) ==
  /\ scans[t] < MaxScans
  /\ scans' = [scans EXCEPT ![t] = @ + 1]
  /\ rollup' = [rollup EXCEPT ![SpanOf[t].root] = FoldScan(@, t)]
  /\ UNCHANGED <<spans, costs, evals, expired, now>>

Grade(b) ==
  /\ \A row \in evals : row.from # b
  /\ InsertScores(Graded(b, now))
  /\ UNCHANGED <<spans, costs, scans, expired, now>>

Retire(t) ==
  /\ \E i \in DOMAIN spans : spans[i].trace = t /\ spans' = RemoveAt(spans, i)
  /\ expired' = expired \cup {t}
  /\ UNCHANGED <<costs, scans, evals, rollup, now>>

NextBucket ==
  /\ now < MaxTime
  /\ now' = now + 1
  /\ UNCHANGED <<spans, costs, scans, evals, rollup, expired>>

\* Where rows are not what matters, at most one span comes or goes.
SpansStep ==
  /\ Len(spans) = MaxRows - 1
  /\ \E t \in Spans : Persist(t) \/ Retire(t)

StoreStep ==
  /\ RowCount < MaxRows
  /\ \/ \E t \in Spans : Persist(t) \/ Bill(t) \/ ScanSpan(t) \/ Retire(t)
     \/ \E b \in Batches : Grade(b)
     \/ NextBucket

-----------------------------------------------------------------------------
\* A run's rollup is what summing the rows of its spans would give, in whatever
\* order they came in, people's verdicts, the scanner's and those the API scored
\* itself left out of its quality.  A span that has expired is still counted.
RollupsAddUp ==
  \A root \in Roots :
    LET tree == {t \in Spans : SpanOf[t].root = root}
        rated == {row \in evals : row.trace \in tree /\ row.from \in Batches
                                    /\ row.evaluator \notin {"fluiq.security", "fluiq.eval"}}
    IN /\ rollup[root].cost = CostOf(tree \cap Billed)
       /\ rollup[root].spans = Cardinality(tree \cap (Here \cup expired))
       /\ rollup[root].scores = Cardinality(rated)
       /\ rollup[root].sum = ScoreSum(rated)
       /\ \A row \in rated : rollup[root].min =< row.score
       /\ rollup[root].detections = ScansOf({t \in tree : SpanOf[t].risk > 0})
=============================================================================
