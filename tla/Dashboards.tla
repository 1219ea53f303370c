----------------------------- MODULE Dashboards ------------------------------
(***************************************************************************)
(* The reads behind the dashboards: totals over time, runs per agent,      *)
(* spending per day, what the judges used.  Each asks a table of its own,  *)
(* or a rollup; a join would count a trace once per row it meets.          *)
(***************************************************************************)
EXTENDS TraceList

NaN == Nothing                     \* the average of no rows
ASSUME NothingIsNoAverage == NaN \notin [sum : Nat, of : Nat]
UsageOf(rows) == SumFunction([row \in rows |-> row.usage])
Avg(rows) == [sum |-> ScoreSum(rows), of |-> Cardinality(rows)]
AvgIf(rows) == IF rows = {} THEN NaN ELSE Avg(rows)

\* A judge's score is any that is not a person's.
Judges(rows)   == {row \in rows : ~Human(row)}
Feedback(rows) == {row \in rows : row.evaluator = "human.feedback"}

-----------------------------------------------------------------------------
\* fetch_monitor_series: three queries, one row per bucket that has any.
Traffic(b) ==
  LET in == {t \in Here : \E i \in DOMAIN spans : spans[i].trace = t /\ spans[i].at = b} IN
  [spans  |-> Cardinality(in),
   runs   |-> Cardinality({t \in in : SpanOf[t].isRoot}),
   errors |-> Cardinality({t \in in : SpanOf[t].success # "yes"})]
Spend(b) == CostOf({t \in Billed : costs[t] = b})
Scores(b) ==
  LET in == {row \in evals : row.at = b} IN
  [judged |-> Cardinality(Judges(in)), judge |-> AvgIf(Judges(in)),
   given |-> Cardinality(Feedback(in)), feedback |-> AvgIf(Feedback(in))]

Buckets == 0..MaxTime
ScoredBuckets == {row.at : row \in evals}

\* An average counts for as much as went into it; a single bucket without any
\* makes the total of no number at all.
Weighed(avg, of) == IF avg = NaN THEN NaN ELSE [sum |-> avg.sum, of |-> of]
TotalOf(averages) ==
  IF averages = {} \/ \E b \in averages : b.avg = NaN THEN NaN
    ELSE [sum |-> SumFunction([b \in averages |-> b.avg.sum]),
          of  |-> SumFunction([b \in averages |-> b.avg.of])]

Totals ==
  [spans  |-> SumFunction([b \in Buckets |-> Traffic(b).spans]),
   runs   |-> SumFunction([b \in Buckets |-> Traffic(b).runs]),
   errors |-> SumFunction([b \in Buckets |-> Traffic(b).errors]),
   cost   |-> SumFunction([b \in Buckets |-> Spend(b)]),
   judge  |-> TotalOf({[bucket |-> b, avg |-> Weighed(Scores(b).judge, Scores(b).judged)] : b \in ScoredBuckets}),
   feedback |-> TotalOf({[bucket |-> b, avg |-> Weighed(Scores(b).feedback, Scores(b).given)] : b \in ScoredBuckets})]

-----------------------------------------------------------------------------
\* fetch_agent_summary: roots by agent, each with the rollup of its run.
Agents == {[agent |-> SpanOf[t].agent, kind |-> SpanOf[t].kind] :
             t \in {s \in Here : TopLevel(s) /\ SpanOf[s].agent # ""}}
RunsOf(a) == {t \in Here : TopLevel(t) /\ SpanOf[t].agent = a.agent /\ SpanOf[t].kind = a.kind}
AgentCost(a) == SumFunction([t \in RunsOf(a) |-> rollup[SpanOf[t].root].cost])

\* fetch_spending_by_day: costs of the traces that are still there, on the day
\* the trace came in.
Spending(b) ==
  CostOf({t \in Billed : \E i \in DOMAIN spans : spans[i].trace = t /\ spans[i].at = b})

\* fetch_costs_for_traces: what a run cost, from the rows themselves.
RunCost(root) == CostOf({t \in Billed : SpanOf[t].root = root})

\* fetch_monitor_breakdown: what each model cost, calls of no model left out.
Models == {SpanOf[t].model : t \in Billed} \ {""}
Breakdown(model) ==
  LET calls == {t \in Billed : SpanOf[t].model = model} IN
  [calls |-> Cardinality(calls), cost |-> CostOf(calls)]

\* fetch_recent_evals: the scores of traces that came in since, by any evaluator.
RecentScores(since) ==
  {row \in evals : \E i \in DOMAIN spans : spans[i].trace = row.trace /\ spans[i].at >= since}

\* fetch_judge_usage: by evaluator, and over all of them.
Evaluators == {row.evaluator : row \in evals}
Usage(e) ==
  LET rows == {row \in evals : row.evaluator = e} IN
  [tokens |-> UsageOf(rows),
   runs   |-> Cardinality({row.trace : row \in rows})]
TotalUsage ==
  [tokens |-> SumFunction([e \in Evaluators |-> Usage(e).tokens]),
   runs   |-> SumFunction([e \in Evaluators |-> Usage(e).runs])]

\* fetch_run_judge_usage: over the traces of one dataset run.
RunUsage(traces) == UsageOf({row \in evals : row.trace \in traces})

-----------------------------------------------------------------------------
\* The monitor's totals are those of the whole window: an average weighs each
\* score once, whatever bucket it fell in.  It comes to nothing only because a
\* bucket has scores of the other kind alone.
MonitorAddsUp ==
  LET totals == Totals IN
  /\ totals.spans = Len(spans)
  /\ totals.cost = CostOf(Billed)
  /\ SumFunction([model \in Models |-> Breakdown(model).cost])
       = totals.cost - CostOf({t \in Billed : SpanOf[t].model = ""})
  /\ totals.judge # NaN => totals.judge = AvgIf(Judges(evals))
  /\ totals.feedback # NaN => totals.feedback = AvgIf(Feedback(evals))
  /\ (totals.judge = NaN /\ Judges(evals) # {}) =>
       \E b \in ScoredBuckets : Scores(b).judged = 0

\* Three pages count the same things: the list's runs of an agent are the agent's
\* runs; an agent's cost is what its runs cost, once each unless two roots are
\* orphans of one run; the list's failures are among the monitor's errors; what is
\* charted as spent is on the monitor too, but for the traces that have expired
\* or are yet to come; the feed of recent scores is what the list shows as scores.
PagesCount ==
  LET totals == Totals IN
  /\ \A a \in Agents :
       /\ Cardinality(RunsOf(a))
            = Cardinality(Listed([Runs EXCEPT !.agent = a.agent, !.kind = a.kind]))
       /\ (\A s, t \in RunsOf(a) : SpanOf[s].root = SpanOf[t].root => s = t) =>
            AgentCost(a) = SumFunction([root \in {SpanOf[t].root : t \in RunsOf(a)} |-> RunCost(root)])
  /\ Cardinality(Listed([Runs EXCEPT !.roots = FALSE, !.status = "failed"])) =< totals.errors
  /\ SumFunction([b \in Buckets |-> Spending(b)]) + CostOf(Billed \ Here) = totals.cost
  /\ \A t \in Listed([Runs EXCEPT !.roots = FALSE]) :
       {row.score : row \in {e \in RecentScores(0) : e.trace = t}} = ScoresOf(t)

\* What the judges used is what every message says it used, counted once, by
\* evaluator and run by run.  The runs that are counted beside it are no messages: a
\* trace is counted once for an evaluator, however many messages of that one were
\* about it, and for people once for feedback and once for annotations.
UsageAddsUp ==
  LET judged == {row.from : row \in evals} \cap Batches
      about  == {<<BatchOf[b].trace, BatchOf[b].evaluator>> : b \in judged}
      people == {<<row.trace, row.evaluator>> : row \in {e \in evals : e.from \notin Batches}}
  IN /\ TotalUsage.tokens = SumFunction([b \in judged |-> BatchOf[b].usage])
     /\ TotalUsage.tokens =
          SumFunction([root \in Roots |-> RunUsage({t \in Spans : SpanOf[t].root = root})])
     /\ TotalUsage.runs = Cardinality(about) + Cardinality(people)

=============================================================================
