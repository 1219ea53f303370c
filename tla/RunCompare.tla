------------------------------ MODULE RunCompare ------------------------------
(***************************************************************************)
(* What is read of finished and unfinished runs: the summary of a run, its *)
(* report with trials folded into their example, two runs compared, and    *)
(* several side by side.  Each goes to the same rows of evaluations, which *)
(* come in at any time and more than once, and each has its own way        *)
(* through them.  No query orders its rows: the items of a launch have one *)
(* time stamp, and results have none that is read.                         *)
(***************************************************************************)
EXTENDS Naturals, FiniteSetsExt, SequencesExt

CONSTANTS
  Members,            \* by run, its items: an example, a trace
  ResultRows,         \* rows evaluators may write, each with a number
  Noise,              \* smaller movements are none; 0.05 in the code
  None

\* Items are listed, scores run up from 0, and a result is known by its number.
ASSUME CompareAssumption ==
  /\ Noise \in Nat /\ None \notin Nat
  /\ \A run \in DOMAIN Members : Members[run] \in Seq(ToSet(Members[run]))
  /\ \A row \in ResultRows :
       /\ row.n \in Nat /\ row.score \in Nat /\ row.runScore \in Nat
       /\ None \notin {row.metric, row.layer}
       /\ \A other \in ResultRows : other.n = row.n => other = row

VARIABLES
  runKind,            \* "metrics" or "agentic", the same for all compared
  results             \* evaluations that are in

compareVars == <<runKind, results>>

CompareInit == runKind \in {"metrics", "agentic"} /\ results = {}

\* The evaluator answers at least once: a row may repeat what another says.
RowArrives ==
  /\ \E row \in ResultRows \ results : results' = results \cup {row}
  /\ UNCHANGED runKind

-----------------------------------------------------------------------------
RunIds == DOMAIN Members
ItemsIn(run) == ToSet(Members[run])
ExamplesIn(run) == {i.example : i \in ItemsIn(run)}
TracesIn(run) == {i.trace : i \in ItemsIn(run)}
RowsFor(trace) == {row \in results : row.trace = trace}
Measured(rows) == {row \in rows : row.evaluator = "fluiq.eval"}
Layered(rows) == {row \in rows : row.layer # ""}
Unlayered(rows) == {row \in Measured(rows) : row.layer = ""}
Decided(rows) == {row \in rows : row.layer = "deterministic"}

\* A score in parts so small that a mean of means is exact, of up to four each.
Scale == 144
InParts(score) == Scale * score
MeanOf(value) ==
  IF DOMAIN value = {} THEN None ELSE SumFunction(value) \div Cardinality(DOMAIN value)
MeanScore(rows) == MeanOf([row \in rows |-> InParts(row.score)])
Least(S) == CHOOSE x \in S : \A y \in S : x =< y
Most(S) == CHOOSE x \in S : \A y \in S : y =< x

\* A request reads items and rows of a run one way or the other.
Ways == {"forth", "back"}
LastOf(rows, way) ==
  CHOOSE row \in rows : \A other \in rows : IF way = "forth" THEN other.n =< row.n ELSE row.n =< other.n

\* _example_scores: by layer or metric, of several rows the last.
PerMetric(rows, way) ==
  IF runKind = "agentic"
    THEN [l \in {row.layer : row \in Layered(rows)} |->
            InParts(LastOf({row \in Layered(rows) : row.layer = l}, way).score)]
    ELSE [m \in {row.metric : row \in Measured(rows)} |->
            InParts(LastOf({row \in Measured(rows) : row.metric = m}, way).score)]

OverallScore(rows, way) ==
  LET per == PerMetric(rows, way) IN
  IF runKind = "metrics" THEN MeanScore(Measured(rows))
    ELSE IF Decided(rows) # {} THEN InParts(LastOf(Decided(rows), way).runScore)
    ELSE IF DOMAIN per # {} THEN Least({per[l] : l \in DOMAIN per})
    ELSE None

-----------------------------------------------------------------------------
TrialsAt(run, example) == {i \in DOMAIN Members[run] : Members[run][i].example = example}

\* Seeded fault: two runs are compared by the trial that came first.
FirstItem(run, way, example) ==
  Members[run][IF way = "forth" THEN Least(TrialsAt(run, example)) ELSE Most(TrialsAt(run, example))]

\* compare_dataset_runs: by example, the last of its trials.
ItemFor(run, way, example) ==
  Members[run][IF way = "forth" THEN Most(TrialsAt(run, example)) ELSE Least(TrialsAt(run, example))]

ComparedRows(run, way, example) == RowsFor(ItemFor(run, way, example).trace)
ComparedOn(run, way, example) == PerMetric(ComparedRows(run, way, example), way)

\* read is the way each run is read.
Movement(run, base, read, example) ==
  LET a == OverallScore(ComparedRows(run, read[run], example), read[run])
      b == OverallScore(ComparedRows(base, read[base], example), read[base])
  IN IF example \notin ExamplesIn(base) THEN "added"
       ELSE IF a = None \/ b = None THEN "pending"
       ELSE IF a + InParts(Noise) < b THEN "regressed"
       ELSE IF b + InParts(Noise) < a THEN "improved"
       ELSE "unchanged"

Movements(run, base, read) == [e \in ExamplesIn(run) |-> Movement(run, base, read, e)]
Missing(run, base) == ExamplesIn(base) \ ExamplesIn(run)

\* The pairs behind a metric's delta: examples on which both runs have it.
PairsOn(run, base, read, metric) ==
  {e \in ExamplesIn(run) \cap ExamplesIn(base) :
     \A r \in {run, base} : metric \in DOMAIN ComparedOn(r, read[r], e)}
PairAvg(run, base, read, metric) ==
  MeanOf([e \in PairsOn(run, base, read, metric) |-> ComparedOn(run, read[run], e)[metric]])

-----------------------------------------------------------------------------
\* compare_runs_multi: a later item of an example overwrites the earlier.
ScoresAt(trace, way) ==
  [overall |-> OverallScore(RowsFor(trace), way), per |-> PerMetric(RowsFor(trace), way)]
NthItem(run, way, k) == Members[run][IF way = "forth" THEN k ELSE Len(Members[run]) + 1 - k]

ScoredIn(run, way) ==
  LET upTo[k \in 0..Len(Members[run])] ==
        IF k = 0 THEN [e \in {} |-> None]
        ELSE LET item == NthItem(run, way, k) IN
             [e \in DOMAIN upTo[k - 1] \cup {item.example} |->
                IF e = item.example THEN ScoresAt(item.trace, way) ELSE upTo[k - 1][e]]
  IN upTo[Len(Members[run])]

CompletedIn(run, way) ==
  LET scored == ScoredIn(run, way) IN {e \in DOMAIN scored : scored[e].overall # None}
OverallAvg(run, way) ==
  LET scored == ScoredIn(run, way) IN MeanOf([e \in CompletedIn(run, way) |-> scored[e].overall])
Bearing(run, way, metric) ==
  LET scored == ScoredIn(run, way) IN {e \in DOMAIN scored : metric \in DOMAIN scored[e].per}
Matrix(run, way, metric) ==
  LET scored == ScoredIn(run, way) IN
  MeanOf([e \in Bearing(run, way, metric) |-> scored[e].per[metric]])

MetricNames(runs, read) ==
  UNION {LET scored == ScoredIn(r, read[r]) IN UNION {DOMAIN scored[e].per : e \in DOMAIN scored} : r \in runs}

\* The score of a run on an example: on one metric, or overall.
ScoreOn(run, way, example, drill) ==
  LET scored == ScoredIn(run, way) IN
  IF example \notin DOMAIN scored THEN None
    ELSE IF drill = None THEN scored[example].overall
    ELSE IF drill \in DOMAIN scored[example].per THEN scored[example].per[drill]
    ELSE None

\* How far the runs are apart on an example.
SpreadOf(runs, read, example, drill) ==
  LET scores == {ScoreOn(r, read[r], example, drill) : r \in runs} \ {None}
      present == {r \in runs : ScoreOn(r, read[r], example, drill) # None}
  IN IF Cardinality(present) < 2 THEN None ELSE Most(scores) - Least(scores)

-----------------------------------------------------------------------------
\* The summary of a run goes by trace.
AnsweredTraces(run) ==
  {t \in TracesIn(run) : (IF runKind = "metrics" THEN Measured(RowsFor(t)) ELSE RowsFor(t)) # {}}
SummaryRows(run) == UNION {RowsFor(t) : t \in TracesIn(run)}

MetricsSummary(run) ==
  LET rows == Measured(SummaryRows(run)) IN
  [completed |-> Cardinality(AnsweredTraces(run)),
   avg       |-> MeanOf([t \in AnsweredTraces(run) |-> MeanScore(Measured(RowsFor(t)))]),
   on        |-> [m \in {row.metric : row \in rows} |-> MeanScore({row \in rows : row.metric = m})]]

\* The pass rate is an average over the same rows as the run scores.
AgenticSummary(run) ==
  LET rows == SummaryRows(run) IN
  [completed |-> Cardinality(AnsweredTraces(run)),
   avg       |-> MeanOf([row \in Decided(rows) |-> InParts(row.runScore)]),
   on        |-> [l \in {row.layer : row \in Layered(rows)} |->
                    MeanScore({row \in Layered(rows) : row.layer = l})],
   metrics   |-> [m \in {row.metric : row \in Unlayered(rows)} |->
                    MeanScore({row \in Unlayered(rows) : row.metric = m})]]

\* _fold_trials: an example with one trial keeps its rows as they are, the rows of
\* several become one for each metric, with their mean and how far they are apart.
FoldTrials(run, example) ==
  LET trials == {Members[run][i] : i \in TrialsAt(run, example)}
      rows == UNION {Measured(RowsFor(i.trace)) : i \in trials}
      on(m) == {row \in rows : row.metric = m}
  IN [done   |-> \A i \in trials : i.trace \in AnsweredTraces(run),
      result |->
        IF Cardinality(TrialsAt(run, example)) = 1
          THEN {[row |-> row.n, metric |-> row.metric, score |-> [sum |-> row.score, of |-> 1], trials |-> 1] :
                  row \in rows}
          ELSE {[row |-> None, metric |-> m, trials |-> Cardinality(on(m)),
                 score |-> [sum |-> SumFunction([row \in on(m) |-> row.score]), of |-> Cardinality(on(m))],
                 spread |-> Most({row.score : row \in on(m)}) - Least({row.score : row \in on(m)})] :
                  m \in {row.metric : row \in rows}}]

-----------------------------------------------------------------------------
CompareTypeOK == results \subseteq ResultRows /\ runKind \in {"metrics", "agentic"}

Once(run) == Cardinality(ExamplesIn(run)) = Len(Members[run])
Apart(run) == Cardinality(TracesIn(run)) = Len(Members[run])
\* No trace of the run was given two scores for one metric or layer.
AnsweredOnce(run) ==
  \A r1, r2 \in SummaryRows(run) :
    /\ r1.trace = r2.trace
    /\ \/ r1 \in Measured(results) /\ r2 \in Measured(results) /\ r1.metric = r2.metric
       \/ r1 \in Layered(results) /\ r1.layer = r2.layer
    => r1 = r2

Opposite == [improved |-> "regressed", regressed |-> "improved", unchanged |-> "unchanged", pending |-> "pending"]

\* Seen from the baseline a comparison says the opposite: what improved has regressed,
\* what was added is missing, and each metric is compared over the same examples.
ComparisonsMirror ==
  \A run, base \in RunIds : \A read \in [{run, base} -> Ways] : run # base =>
    LET there == Movements(run, base, read)
        back == Movements(base, run, read)
    IN /\ \A e \in ExamplesIn(run) \cap ExamplesIn(base) : there[e] = Opposite[back[e]]
       /\ {e \in ExamplesIn(run) : there[e] = "added"} = Missing(base, run)
       /\ \A m \in MetricNames({run, base}, read) : PairsOn(run, base, read, m) = PairsOn(base, run, read, m)

\* Two runs and several are compared alike: of an example that both have, the two are
\* as far apart here as there; it is pending exactly when one of them has no score;
\* and the delta of a metric that each example of a run has is over the run's average.
ManyAgreeWithTwo ==
  \A run, base \in RunIds : \A read \in [{run, base} -> Ways] : run # base =>
    LET moved == Movements(run, base, read)
        names == MetricNames({run, base}, read)
        pairs == [m \in names |-> PairsOn(run, base, read, m)]
    IN /\ \A e \in ExamplesIn(run) \cap ExamplesIn(base) :
            LET apart == SpreadOf({run, base}, read, e, None) IN
            /\ (apart = None) <=> (moved[e] = "pending")
            /\ apart # None => ((apart =< InParts(Noise)) <=> (moved[e] = "unchanged"))
            /\ \A m \in names : (SpreadOf({run, base}, read, e, m) # None) <=> (e \in pairs[m])
       /\ \A m \in names :
            pairs[m] = Bearing(run, read[run], m) => PairAvg(run, base, read, m) = Matrix(run, read[run], m)

\* A run whose examples are each there once, and answered once, is compared the same at
\* every read.  With trials, or with results that came twice, it may not be: which trial
\* or result is the last, no query says.
ComparedTheSame ==
  \A run \in RunIds :
    Once(run) /\ AnsweredOnce(run) => ScoredIn(run, "forth") = ScoredIn(run, "back")

FoldedSum(run, metric) ==
  SumFunction([e \in ExamplesIn(run) |->
    SumFunction([r \in {x \in FoldTrials(run, e).result : x.metric = metric} |->
                  (r.trials * r.score.sum) \div r.score.of])])
SummarySum(run, metric) ==
  SumFunction([row \in {x \in Measured(SummaryRows(run)) : x.metric = metric} |-> row.score])

\* The report of a run is made of the rows its summary is made of: folding trials moves
\* no metric's sum, and an example is done when each of its trials is.  A run whose
\* examples and traces are each there once has the averages of its summary beside other
\* runs too, metric by metric, if no answer came twice.
ReportsAgree ==
  \A run \in RunIds :
    LET summary == IF runKind = "metrics" THEN MetricsSummary(run) ELSE AgenticSummary(run)
    IN /\ (runKind = "metrics" /\ Apart(run)) =>
            /\ \A m \in DOMAIN summary.on : FoldedSum(run, m) = SummarySum(run, m)
            /\ (\A e \in ExamplesIn(run) : FoldTrials(run, e).done)
                 <=> (summary.completed = Len(Members[run]))
       /\ (Once(run) /\ Apart(run) /\ AnsweredOnce(run)) =>
            /\ \A m \in DOMAIN summary.on : summary.on[m] = Matrix(run, "forth", m)
            /\ runKind = "metrics" =>
                 /\ summary.avg = OverallAvg(run, "forth")
                 /\ summary.completed = Cardinality(CompletedIn(run, "forth"))
            /\ (runKind = "agentic" /\ \A t \in AnsweredTraces(run) : Decided(RowsFor(t)) # {}) =>
                 summary.avg = OverallAvg(run, "forth")
=============================================================================
