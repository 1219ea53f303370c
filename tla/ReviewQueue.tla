---------------------------- MODULE ReviewQueue ------------------------------
(***************************************************************************)
(* What is read of people's verdicts beside the judges': the queue of      *)
(* traces that want a person, the matrix that crosses the two verdicts     *)
(* trace by trace, and the comparison that asks whether a judge is any     *)
(* good.  A join finds a default, not a null, where it finds nothing.      *)
(***************************************************************************)
EXTENDS Review

CONSTANTS
  Metrics,            \* metrics of the judges
  MinLabelled         \* pairs below which no verdict is given; 10 in the code

ASSUME QueueAssumption == MinLabelled \in Nat \ {0}

VARIABLE charted      \* matrices read, each by two queries
queueVars == <<charted>>
QueueInit == charted = [r \in Reviewers |-> Nothing]

People(rows) == {row \in rows : Human(row)}
RowsOf(t) == {row \in evals : row.trace = t}
Threshold == 5
Zero == [sum |-> 0, of |-> 1]
Bad(avg)  == avg # NaN /\ avg.sum < Threshold * avg.of
Good(avg) == avg.sum >= Threshold * avg.of
Less(a, b) == IF b = NaN THEN a # NaN ELSE a # NaN /\ a.sum * b.of < b.sum * a.of

-----------------------------------------------------------------------------
\* fetch_review_queue: zero on both sides for a trace nobody scored, no number
\* for the side that did not score a trace the other did.
\* Seeded fault: people count as judges.
JudgeScoreOfAll(t) == IF RowsOf(t) = {} THEN Zero ELSE AvgIf(RowsOf(t))

JudgeScore(t) == IF RowsOf(t) = {} THEN Zero ELSE AvgIf(Judges(RowsOf(t)))

HumanScore(t) == IF RowsOf(t) = {} THEN Zero ELSE AvgIf(People(RowsOf(t)))

Having(t, source) ==
  \/ source \in {"all", "flagged"}   /\ Shown(t, "flag") = "open"
  \/ source \in {"all", "feedback"}  /\ Bad(HumanScore(t))
  \/ source \in {"all", "low_score"} /\ Bad(JudgeScore(t))

\* What people found worse comes first, then what judges scored lower, then what
\* came in later; what is equal in all comes in any order.
Worse(s, t, tie) ==
  \/ Less(HumanScore(s), HumanScore(t))
  \/ /\ ~Less(HumanScore(t), HumanScore(s))
     /\ \/ Less(JudgeScore(s), JudgeScore(t))
        \/ /\ ~Less(JudgeScore(t), JudgeScore(s))
           /\ CameIn(s) > CameIn(t) \/ (CameIn(s) = CameIn(t) /\ tie[s] < tie[t])

Queued(source) ==
  {t \in Here : TopLevel(t) /\ Having(t, source) /\ Shown(t, "flag") # "resolved"}
Queue(source, tie) ==
  LET ahead(t) == Cardinality({s \in Queued(source) : Worse(s, t, tie)})
  IN [k \in 1..Cardinality(Queued(source)) |-> CHOOSE t \in Queued(source) : ahead(t) = k - 1]

-----------------------------------------------------------------------------
\* fetch_review_matrix: the traces both sides scored, and in a second query how
\* many either side scored.
BothSides == {t \in Spans : Judges(RowsOf(t)) # {} /\ People(RowsOf(t)) # {}}
Cell(t) == <<Good(AvgIf(People(RowsOf(t)))), Good(AvgIf(Judges(RowsOf(t))))>>
Cells == [c \in BOOLEAN \X BOOLEAN |-> Cardinality({t \in BothSides : Cell(t) = c})]
Coverage ==
  [both       |-> Cardinality(BothSides),
   judge_only |-> Cardinality({t \in Spans : Judges(RowsOf(t)) # {} /\ People(RowsOf(t)) = {}}),
   human_only |-> Cardinality({t \in Spans : Judges(RowsOf(t)) = {} /\ People(RowsOf(t)) # {}})]

ReadMatrix(r) ==
  /\ Idle(r) /\ Turn(r, Ends("matrix"))
  /\ charted' = [charted EXCEPT ![r] = [cells |-> Cells, coverage |-> Nothing, rows |-> evals]]

ReadCoverage(r) ==
  /\ Is(r, "matrix") /\ Turn(r, Ends("done"))
  /\ charted' = [charted EXCEPT ![r].coverage = Coverage, ![r].rows = IF @ = evals THEN evals ELSE {}]

-----------------------------------------------------------------------------
\* fetch_labelled_metrics: per metric, the traces each side scored on it.
LabelledMetrics ==
  [m \in {row.metric : row \in evals} |->
     [judged   |-> {row.trace : row \in {e \in Judges(evals) : e.metric = m}},
      labelled |-> {row.trace : row \in {e \in People(evals) : e.metric = m}}]]

\* fetch_judge_agreement_pairs: one metric of the judge beside one field of the
\* rubric, or all of them.  A trace that is not there has no organization.
OnMetric(t, m) == {row \in Judges(RowsOf(t)) : row.metric = m}
OnField(t, f)  == {row \in People(RowsOf(t)) : f = "" \/ row.metric = f}
Pairs(m, f) ==
  {[trace |-> t, judge |-> AvgIf(OnMetric(t, m)), human |-> AvgIf(OnField(t, f))] :
     t \in {s \in Here : OnMetric(s, m) # {} /\ OnField(s, f) # {}}}

\* Averages of at most three rows, in sixths of a tenth.
Sixths(avg) == (6 * avg.sum) \div avg.of
J(pair) == Sixths(pair.judge)
H(pair) == Sixths(pair.human)
SumJ(pairs) == SumFunction([p \in pairs |-> J(p)])
SumH(pairs) == SumFunction([p \in pairs |-> H(p)])
SquareOf(n) == n * n
Crosses(pair) == Good(pair.judge) # Good(pair.human)

\* n^2 times the variance of one side and the covariance of both.
Spread(Side(_), pairs) ==
  Cardinality(pairs) * SumFunction([p \in pairs |-> SquareOf(Side(p))])
    - SquareOf(SumFunction([p \in pairs |-> Side(p)]))
Shared(pairs) ==
  Cardinality(pairs) * SumFunction([p \in pairs |-> J(p) * H(p)]) - SumJ(pairs) * SumH(pairs)

Constant(Side(_), pairs) == Spread(Side, pairs) = 0

\* _pearson: none where a side never varies; weak below 0.3.
WeakCorrelation(pairs) ==
  \/ Shared(pairs) =< 0
  \/ SquareOf(Shared(pairs)) =< (9 * Spread(J, pairs) * Spread(H, pairs) - 1) \div 100

\* _verdict.  Shares are in twentieths of the number of pairs, the bias in
\* sixths of a tenth.
Agreed(pairs) == Cardinality({p \in pairs : ~Crosses(p)})
BaseRate(pairs) ==
  LET good == Cardinality({p \in pairs : Good(p.human)}) IN Max({good, Cardinality(pairs) - good})
AtBaseRate(pairs) == 20 * Agreed(pairs) >= 20 * BaseRate(pairs) - Cardinality(pairs)
Bias(pairs) == SumJ(pairs) - SumH(pairs)

JudgeVerdict(pairs) ==
  LET n == Cardinality(pairs) IN
  CASE n = 0 -> "no_data"
    [] n > 0 /\ n < MinLabelled -> "insufficient"
    [] n >= MinLabelled /\ Constant(J, pairs) ->
         IF AtBaseRate(pairs) THEN "matches_base_rate" ELSE "weak"
    [] n >= MinLabelled /\ ~Constant(J, pairs) /\ Constant(H, pairs) -> "undetermined"
    [] n >= MinLabelled /\ ~Constant(J, pairs) /\ ~Constant(H, pairs) ->
         CASE WeakCorrelation(pairs) ->
                IF AtBaseRate(pairs) THEN "matches_base_rate" ELSE "weak"
           [] ~WeakCorrelation(pairs) /\ Bias(pairs) > 9 * n  -> "lenient"
           [] ~WeakCorrelation(pairs) /\ Bias(pairs) < -9 * n -> "harsh"
           [] OTHER -> IF 5 * Agreed(pairs) >= 4 * n THEN "good" ELSE "mixed"

\* disagreements: across the threshold, or at least 0.34 apart.
Gap(pair) == IF J(pair) > H(pair) THEN J(pair) - H(pair) ELSE H(pair) - J(pair)
Disagreements(pairs) == {p \in pairs : Crosses(p) \/ 100 * Gap(p) >= 34 * 60}

QueueStep == \E r \in Reviewers : ReadMatrix(r) \/ ReadCoverage(r)

-----------------------------------------------------------------------------
\* The queue holds every run a person flagged or found bad or a judge scored low,
\* unless a person resolved it.  Beyond those it holds every run nobody scored, which
\* reads as scored zero by both sides, and the runs that a text makes bad, which reads
\* as a verdict of zero.  The runs nobody scored lead, but for those that really were
\* scored zero; among the others what people found bad leads.
Texts(t) == {row \in RowsOf(t) : row.kind = "text"}
Found(t) == AvgIf(People(RowsOf(t)))
Open(t)  == TopLevel(t) /\ Shown(t, "flag") # "resolved"
Wanted ==
  {t \in Here : Open(t) /\ (\/ Shown(t, "flag") = "open"
                            \/ Bad(AvgIf(People(RowsOf(t)) \ Texts(t)))
                            \/ Bad(AvgIf(Judges(RowsOf(t)))))}
Unscored == {t \in Here : Open(t) /\ RowsOf(t) = {}}
QueueHolds ==
  /\ Queued("all") = Wanted \cup Unscored
                       \cup {t \in Here : Open(t) /\ Texts(t) # {} /\ Bad(Found(t))}
  /\ Queued("all") = UNION {Queued(s) : s \in {"flagged", "feedback", "low_score"}}
  /\ \A tie \in Ties : LET queue == Queue("all", tie) IN
       /\ {queue[i] : i \in DOMAIN queue} = Queued("all") /\ Len(queue) = Cardinality(Queued("all"))
       /\ \A i, j \in DOMAIN queue : i < j =>
            /\ queue[j] \in Unscored =>
                 queue[i] \in Unscored \/ \A row \in RowsOf(queue[i]) : row.score = 0
            /\ Bad(Found(queue[j])) => queue[i] \in Unscored \/ Bad(Found(queue[i]))

\* What a person told us is bad leads the queue, as fetch_review_queue says it does.
FoundBadLeads ==
  \A tie \in Ties : LET queue == Queue("all", tie) IN
    \A i, j \in DOMAIN queue : i < j /\ Bad(Found(queue[j])) => Bad(Found(queue[i]))

\* A matrix places every trace both sides scored once, and says so: the cells
\* add up to the coverage, and fall short only by what arrived between the two
\* queries.  Every other trace somebody scored is on one side alone.
MatrixHolds ==
  \A r \in Reviewers : (charted[r] # Nothing /\ charted[r].coverage # Nothing) =>
    LET placed == SumFunction(charted[r].cells)
        c == charted[r].coverage
    IN /\ placed =< c.both
       /\ charted[r].rows # {} => placed = c.both
       /\ charted[r].rows # {} =>
            c.both + c.judge_only + c.human_only = Cardinality({row.trace : row \in charted[r].rows})

\* A verdict on a judge stands on its pairs.  A judge that says the same of
\* everything is never called good, nor any judge people contradict on more
\* than one pair in five; whatever the two sides decide differently is shown; the
\* pairs are those of the offered metrics, and the matrix of a single metric
\* counts the same disagreements.
AgreementHolds ==
  \A m \in Metrics :
    LET pairs == Pairs(m, "")
        across == {p \in pairs : Crosses(p)}
        verdict == JudgeVerdict(pairs)
    IN /\ Constant(J, pairs) => verdict \notin {"good", "mixed", "lenient", "harsh"}
       /\ verdict = "good" => 5 * Cardinality(across) =< Cardinality(pairs)
       /\ verdict = "lenient" => \E p \in pairs : J(p) > H(p)
       /\ verdict = "harsh" => \E p \in pairs : J(p) < H(p)
       /\ across \subseteq Disagreements(pairs)
       /\ \A p \in pairs : m \in DOMAIN LabelledMetrics /\ p.trace \in LabelledMetrics[m].judged
       /\ (\A row \in Judges(evals) : row.metric = m /\ row.trace \in Here) =>
            {p.trace : p \in across} = {t \in BothSides : Cell(t)[1] # Cell(t)[2]}

QueueRight == QueueHolds /\ MatrixHolds /\ AgreementHolds
=============================================================================
