------------------------------- MODULE Review --------------------------------
(***************************************************************************)
(* What people say of traces: feedback from end users, annotations, and    *)
(* reviews that answer the questions of a rubric the administrators edit.  *)
(* Each answer is a row among the judges' scores, written one by one.      *)
(***************************************************************************)
EXTENDS Dashboards

CONSTANTS
  Reviewers,          \* requests, each served once
  Keys,               \* keys of the rubric's questions
  Fields,             \* questions an administrator may ask: kind, options, required
  Answers, Number,    \* answers a reviewer may give; tenths, of those that are numbers
  MaxFields

VARIABLES
  rubric,             \* review_rubric_fields by key
  asking,             \* what each request is about and how far it is
  crowded,            \* requests that add a question while another does
  examples            \* what was sent to a dataset

reviewVars == <<rubric, asking, crowded, examples>>

\* A question, whose id is the request that added it.
Question(r, field) ==
  [id |-> r, kind |-> field.kind, required |-> field.required, options |-> field.options]
Questions == {Question(r, f) : r \in Reviewers, f \in Fields}

ASSUME RubricAssumption ==
  /\ IsFiniteSet(Keys) /\ MaxFields \in Nat /\ Nothing \notin Questions
  /\ DOMAIN Number \subseteq Answers
  /\ \A f \in Fields : /\ f.kind \in {"text", "boolean", "slider", "choice"}
                        /\ \A a \in DOMAIN f.options : f.options[a] \in Score

Asked == {k \in Keys : rubric[k] # Nothing}
Is(r, stage) == asking[r].stage = stage
Idle(r) == Is(r, "idle")
Reviews(r) == asking[r].stage \in {"review", "refused", "failed", "recorded"}
Ends(stage) == [stage |-> stage]
Turn(r, what) == asking' = [asking EXCEPT ![r] = what]

ReviewInit ==
  /\ rubric = [k \in Keys |-> Nothing] /\ asking = [r \in Reviewers |-> Ends("idle")]
  /\ crowded = {} /\ examples = {}

-----------------------------------------------------------------------------
\* The rubric.
CountFields(r) ==
  /\ Idle(r) /\ Cardinality(Asked) < MaxFields
  /\ \E k \in Keys, f \in Fields :
       Turn(r, [stage |-> "add", key |-> k, field |-> f])
  /\ crowded' = crowded \cup (IF \E o \in Reviewers : Is(o, "add")
                                THEN {r} \cup {o \in Reviewers : Is(o, "add")} ELSE {})
  /\ UNCHANGED <<rubric, examples>>

AddField(r) ==
  /\ Is(r, "add") /\ Turn(r, Ends("done"))
  /\ LET k == asking[r].key IN
       rubric' = IF k \in Asked THEN rubric     \* the key is unique
                   ELSE [rubric EXCEPT ![k] = Question(r, asking[r].field)]
  /\ UNCHANGED <<crowded, examples>>

ReadField(r) ==
  /\ Idle(r)
  /\ \E k \in Asked : Turn(r, [stage |-> "edit", key |-> k, read |-> rubric[k]])
  /\ UNCHANGED <<rubric, crowded, examples>>

\* The options are validated against the kind that was read; key and kind stay.
EditField(r) ==
  /\ Is(r, "edit") /\ Turn(r, Ends("done"))
  /\ LET k == asking[r].key IN
       \E f \in Fields :
         /\ f.kind = asking[r].read.kind
         /\ rubric' = IF k \in Asked /\ rubric[k].id = asking[r].read.id
                        THEN [rubric EXCEPT ![k] = [id |-> @.id, kind |-> @.kind, required |-> f.required,
                                                    options |-> f.options]]
                        ELSE rubric
  /\ UNCHANGED <<crowded, examples>>

DeleteField(r) ==
  /\ Idle(r) /\ Turn(r, Ends("done"))
  /\ \E k \in Asked : rubric' = [rubric EXCEPT ![k] = Nothing]
  /\ UNCHANGED <<crowded, examples>>

-----------------------------------------------------------------------------
HumanRow(r, t, evaluator, metric, score, kind) ==
  [from |-> r, trace |-> t, evaluator |-> evaluator, metric |-> metric, score |-> score,
   kind |-> kind, at |-> now, usage |-> 0]

Verdict(r, evaluator, metric) ==
  /\ Idle(r) /\ Turn(r, Ends("done"))
  /\ \E t \in Labelled, score \in {0, 10} :
       InsertScores({HumanRow(r, t, evaluator, metric, score, "score")})
  /\ UNCHANGED <<rubric, crowded, examples>>
SubmitFeedback(r) == Verdict(r, "human.feedback", "user_feedback")
AnnotateTrace(r)  == Verdict(r, "human.annotation", "annotation")

\* score_answer: a text is recorded at 0; an answer the question does not know,
\* or a number out of range, is refused.
Accepts(field, answer) ==
  CASE field.kind = "text" -> TRUE
    [] field.kind = "boolean" -> answer \in {"true", "false"}
    [] field.kind = "slider" -> answer \in DOMAIN Number /\ Number[answer] \in Score
    [] field.kind = "choice" -> answer \in DOMAIN field.options

ScoreAnswer(field, answer) ==
  CASE field.kind = "text" -> 0
    [] field.kind = "boolean" -> IF answer = "true" THEN 10 ELSE 0
    [] field.kind = "slider" -> IF answer \in DOMAIN Number THEN Number[answer] ELSE 0
    [] field.kind = "choice" -> IF answer \in DOMAIN field.options THEN field.options[answer] ELSE 0

\* The questions are read, and every required one has to be answered.
ReadRubric(r) ==
  /\ Idle(r) /\ Asked # {}
  /\ \E t \in Labelled, keys \in SUBSET Asked \ {{}} :
       /\ \A k \in Asked \ keys : ~rubric[k].required
       /\ \E answers \in [keys -> Answers], order \in SetToSeqs(keys) :
            Turn(r, [stage |-> "review", trace |-> t, answers |-> answers,
                     order |-> order, rubric |-> [k \in keys |-> rubric[k]], wrote |-> <<>>])
  /\ UNCHANGED <<rubric, crowded, examples>>

Remaining(r) == {i \in DOMAIN asking[r].order : i > Len(asking[r].wrote)}
NextKey(r) == asking[r].order[Len(asking[r].wrote) + 1]

RecordAnswer(r) ==
  /\ Is(r, "review") /\ Remaining(r) # {}
  /\ LET k == NextKey(r)
         field == asking[r].rubric[k]
         answer == asking[r].answers[k]
     IN /\ Accepts(field, answer)
        /\ InsertScores({HumanRow(r, asking[r].trace, "human.annotation", k,
                                  ScoreAnswer(field, answer), field.kind)})
        /\ Turn(r, [asking[r] EXCEPT !.wrote = Append(@, k)])
  /\ UNCHANGED <<rubric, crowded, examples>>

\* What was recorded before the answer that is refused, or before an insert that
\* fails, stays.
RefuseAnswer(r) ==
  /\ Is(r, "review") /\ Remaining(r) # {}
  /\ Turn(r, [asking[r] EXCEPT !.stage =
                IF Accepts(asking[r].rubric[NextKey(r)], asking[r].answers[NextKey(r)])
                  THEN "failed" ELSE "refused"])
  /\ UNCHANGED <<rubric, crowded, examples, evals, rollup>>

EndReview(r) ==
  /\ Is(r, "review") /\ Remaining(r) = {}
  /\ Turn(r, [asking[r] EXCEPT !.stage = "recorded"])
  /\ UNCHANGED <<rubric, crowded, examples, evals, rollup>>

-----------------------------------------------------------------------------
\* A trace becomes an example with the question of the newest span of its run.
OfRun(t) == [Runs EXCEPT !.roots = FALSE, !.root = t]
Captured(t, tie) == LET page == Page(OfRun(t), 1, 0, tie) IN {page[i].trace : i \in DOMAIN page}

SendToDataset(r) ==
  /\ Idle(r) /\ Turn(r, Ends("done"))
  /\ \E chosen \in SUBSET Labelled \ {{}} : \E ties \in [chosen -> Ties] :
       /\ \E t \in chosen : Captured(t, ties[t]) # {}
       /\ examples' = examples \cup
            UNION {{[from |-> r, source |-> t, question |-> s] : s \in Captured(t, ties[t])} : t \in chosen}
  /\ UNCHANGED <<rubric, crowded>>

ReviewStep == \E r \in Reviewers :
  \/ /\ CountFields(r) \/ AddField(r) \/ ReadField(r) \/ EditField(r) \/ DeleteField(r)
          \/ ReadRubric(r) \/ SendToDataset(r)
     /\ UNCHANGED <<evals, rollup>>
  \/ SubmitFeedback(r) \/ AnnotateTrace(r)
  \/ RecordAnswer(r) \/ RefuseAnswer(r) \/ EndReview(r)
-----------------------------------------------------------------------------
ReviewTypeOK ==
  /\ \A k \in Asked : rubric[k] \in Questions
  /\ crowded \subseteq Reviewers

\* A rubric holds as many questions as it may, but for questions added at once,
\* and an answer is of the kind of the question it is filed under.
RubricHolds ==
  /\ crowded = {} => Cardinality(Asked) =< MaxFields
  /\ \A r \in Reviewers : Reviews(r) =>
       \A k \in DOMAIN asking[r].rubric :
         (k \in Asked /\ rubric[k].id = asking[r].rubric[k].id) =>
           rubric[k].kind = asking[r].rubric[k].kind

\* A review that was recorded has a row for every answer, one that was not has
\* rows for those before the answer it ended at; no row stands for an answer the
\* question did not offer.
ReviewsAccounted ==
  \A r \in Reviewers : Reviews(r) =>
    LET a == asking[r]
        rows == {row \in evals : row.from = r}
    IN /\ {row.metric : row \in rows} = {a.order[i] : i \in 1..Len(a.wrote)}
       /\ a.stage = "recorded" => {row.metric : row \in rows} = DOMAIN a.answers
       /\ \A row \in rows : \/ a.rubric[row.metric].kind = "text"
                            \/ a.rubric[row.metric].kind = "boolean" /\ a.answers[row.metric] \in {"true", "false"}
                            \/ /\ a.rubric[row.metric].kind = "slider"
                               /\ a.answers[row.metric] \in DOMAIN Number
                               /\ row.score = Number[a.answers[row.metric]] /\ row.score =< 10
                            \/ /\ a.rubric[row.metric].kind = "choice"
                               /\ a.answers[row.metric] \in DOMAIN a.rubric[row.metric].options
                               /\ row.score = a.rubric[row.metric].options[a.answers[row.metric]]

\* An example that is sent asks what its own run was asked, if not what the root
\* of it was.
ExamplesAsk ==
  \A e \in examples : SpanOf[e.question].root = e.source /\ e.question \in Here \cup expired
=============================================================================
