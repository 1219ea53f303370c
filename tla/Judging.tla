------------------------------- MODULE Judging -------------------------------
(***************************************************************************)
(* An answer is judged while its caller waits: by the SDK, which lets the  *)
(* answer through or not, and from the dashboard.  And answers are judged  *)
(* against each other.                                                     *)
(*                                                                         *)
(* The judges are metrics of the product and prompts of the organization,  *)
(* one request may ask both, and a prompt may have a metric's name.  The   *)
(* SDK's calls go out on the platform's key, the dashboard's on the        *)
(* organization's.  Keys and prompts come and go, so that each lookup      *)
(* finds what it may.                                                      *)
(***************************************************************************)
EXTENDS Integers, FiniteSets, Sequences, SequencesExt

CONSTANTS
  BuiltIn, Slugs,     \* metrics, and names of judge prompts
  Limits,             \* thresholds a caller may give, in tenths
  DefaultLimit,       \* EVAL_DEFAULT_THRESHOLD
  Replies,            \* what a judge may answer (see Graded)
  Candidates,         \* names of the answers that are compared
  NoOne               \* nothing, nobody

ASSUME RepliesAssumption ==
  /\ DefaultLimit \in Int /\ Limits \subseteq Int /\ NoOne \notin Candidates
  /\ \A reply \in Replies : /\ reply.kind \in {"number", "unread", "down"}
                            /\ reply.kind = "number" => reply.value \in Int

VARIABLES
  grading,            \* the request
  evalRows, streamed, \* the scores stored, and told to the dashboards
  pairing             \* a comparison, and what came of it

judgingVars == <<grading, evalRows, streamed, pairing>>

JudgingInit == grading = NoOne /\ evalRows = {} /\ streamed = {} /\ pairing = NoOne

JudgingTypeOK ==
  /\ grading # NoOne => DOMAIN grading.results \subseteq grading.wanted \cup grading.found
  /\ pairing # NoOne => pairing.result.winner \in Candidates \cup {NoOne}

-----------------------------------------------------------------------------
\* What is made of a reply.  A number is brought into range (what is no number but
\* compares as one counts as above it), an object without a number is "unread" and zero.
\* A call that fails, or answers with no object, is "down": zero as well, and where it is
\* marked, lost: not the answer's fault.
Clamp(v) == IF v < 0 THEN 0 ELSE IF v > 10 THEN 10 ELSE v
Graded(reply, marks) ==
  [score |-> IF reply.kind = "number" THEN Clamp(reply.value) ELSE 0,
   lost  |-> marks /\ reply.kind = "down",
   reply |-> reply.kind]
NoKey == [score |-> 0, lost |-> FALSE, reply |-> "keyless"]

\* Every judge is asked by itself; without a key none is.
AskJudges(judges, keyed, marks) ==
  IF keyed THEN {[j \in judges |-> Graded(said[j], marks)] : said \in [judges -> Replies]}
           ELSE {[j \in judges |-> NoKey]}

Stage(s) == grading # NoOne /\ grading.stage = s
StoresNothing == UNCHANGED <<evalRows, streamed, pairing>>

AskForScores(path) ==
  /\ grading = NoOne /\ pairing = NoOne
  /\ \E wanted \in SUBSET BuiltIn, slugs \in SUBSET Slugs :
       /\ wanted \cup slugs # {}
       /\ \E named \in SUBSET wanted : \E limits \in [named -> Limits], customs \in [slugs -> Limits] :
            grading' = [path |-> path, stage |-> "metrics", wanted |-> wanted,
                        limits |-> limits, customs |-> customs,
                        found |-> {}, results |-> [m \in {} |-> NoKey]]
  /\ StoresNothing

\* run_metrics marks a call that failed, _score_metrics does not.
RunMetrics ==
  /\ Stage("metrics")
  /\ \E keyed \in (IF grading.path = "sdk" THEN {TRUE} ELSE BOOLEAN) :
       \E results \in AskJudges(grading.wanted, keyed, grading.path = "sdk") :
         grading' = [grading EXCEPT !.stage = "templates", !.results = results]
  /\ StoresNothing

\* get_custom_judge_template: a prompt that is not there is skipped.
FindTemplates ==
  /\ Stage("templates")
  /\ \E there \in SUBSET DOMAIN grading.customs :
       grading' = [grading EXCEPT !.stage = "customs", !.found = there]
  /\ StoresNothing

\* run_custom_judges, _score_custom_judges: a judge takes the place of a metric of its name.
RunCustomJudges ==
  /\ Stage("customs")
  /\ \E keyed \in (IF grading.path = "sdk" THEN {TRUE} ELSE BOOLEAN) :
       \E customs \in AskJudges(grading.found, keyed, FALSE) :
         grading' = [grading EXCEPT !.stage = "storing",
                       !.results = [j \in DOMAIN customs \cup DOMAIN @ |->
                                      IF j \in DOMAIN customs THEN customs[j] ELSE @[j]]]
  /\ StoresNothing

ScoresGiven == {[judge |-> j, score |-> grading.results[j].score] : j \in DOMAIN grading.results}

\* Storing and telling are tried, and whatever comes of it the caller is answered.
Answer ==
  /\ Stage("storing") /\ grading' = [grading EXCEPT !.stage = "answered"]
  /\ evalRows' \in {{}, ScoresGiven} /\ streamed' \in SUBSET ScoresGiven
  /\ UNCHANGED pairing

-----------------------------------------------------------------------------
\* Thresholds of custom judges go before those of metrics, found or not.
Threshold(j) ==
  IF j \in DOMAIN grading.customs THEN grading.customs[j]
    ELSE IF j \in DOMAIN grading.limits THEN grading.limits[j]
    ELSE DefaultLimit

\* Seeded fault: what could not be judged counts against the answer.
PassesScored(j) == grading.results[j].score >= Threshold(j)

Passes(j) == grading.results[j].lost \/ grading.results[j].score >= Threshold(j)

FailedJudges == {j \in DOMAIN grading.results : ~Passes(j) /\ Threshold(j) > 0}

-----------------------------------------------------------------------------
\* The candidate a judge's answer stands for, when they were shown in this order.
Pick(first, second, said) == CASE said = "A" -> first [] said = "B" -> second [] OTHER -> "tie"

Won(winner, loser) == [winner |-> winner, ranking |-> <<winner, loser>>, tie |-> FALSE]
Undecided(cands) == [winner |-> NoOne, ranking |-> cands, tie |-> TRUE]

\* Two answers are judged twice, in both orders.
PairTwice(a, b, forth, back) ==
  LET fwd == Pick(a, b, forth) rev == Pick(b, a, back) IN
  IF "down" \notin {forth, back} /\ fwd = rev /\ fwd # "tie"
    THEN Won(fwd, IF fwd = a THEN b ELSE a)
    ELSE Undecided(<<a, b>>)

\* Of the places a judge names, those there are, each name once: where it comes first.
FirstNamed(cands, order) ==
  {i \in DOMAIN order :
     /\ order[i] \in DOMAIN cands
     /\ \A j \in 1..(i - 1) :
          order[j] \in DOMAIN cands => cands[order[j]] # cands[order[i]]}
Turn(places, i) == Cardinality({j \in places : j <= i})
NamesOf(cands, order) ==
  LET places == FirstNamed(cands, order)
  IN  [n \in 1..Cardinality(places) |->
         cands[order[CHOOSE i \in places : Turn(places, i) = n]]]

\* Whom the judge left out comes last, as they were shown.
RankAll(cands, order) ==
  LET ranking == NamesOf(cands, order \o [i \in DOMAIN cands |-> i]) IN
  [winner |-> Head(ranking), ranking |-> ranking, tie |-> FALSE]

Compare(cands, said, result) ==
  /\ grading = NoOne /\ pairing = NoOne
  /\ pairing' = [cands |-> cands, said |-> said, result |-> result]
  /\ UNCHANGED <<grading, evalRows, streamed>>

Opinions == {"A", "B", "tie", "down"}
ComparePair ==
  \E a, b \in Candidates, forth, back \in Opinions :
    Compare(<<a, b>>, <<forth, back>>, PairTwice(a, b, forth, back))

\* A judge may name a place twice, one that is not there, or none.
RankMany ==
  \E cands \in [1..3 -> Candidates], order \in UNION {[1..n -> 0..4] : n \in 0..3} :
    Compare(cands, order, RankAll(cands, order))

\* Without a key, or when the call for a ranking fails, the candidates stand as they came.
NotCompared ==
  \E cands \in UNION {[1..n -> Candidates] : n \in 2..3} : Compare(cands, <<>>, Undecided(cands))

JudgingStep ==
  \/ \E path \in {"sdk", "dashboard"} : AskForScores(path)
  \/ RunMetrics \/ FindTemplates \/ RunCustomJudges \/ Answer
  \/ ComparePair \/ RankMany \/ NotCompared

-----------------------------------------------------------------------------
Looked(j) == grading.results[j].reply \in {"number", "unread"}

\* The one kind of judge that is reported when it could not be had, and not counted: a
\* metric asked for by the SDK.
Reported(j) == grading.path = "sdk" /\ j \notin grading.found /\ ~Looked(j)

\* Every judge that was asked and found is in the answer, and those fail it that are below
\* a threshold that was set, whether they looked and scored so or could not be had and
\* count as zero, but for the reported ones.  A threshold set for a prompt that is gone
\* still goes before that of the metric of its name.  The scores stored and streamed are
\* those the caller got: a judge that could not be had is a zero in the table, which
\* nothing tells from a judged one.
GateFollows ==
  Stage("answered") =>
    /\ DOMAIN grading.results = grading.wanted \cup grading.found
    /\ \A j \in DOMAIN grading.results :
         LET score == IF Looked(j) THEN grading.results[j].score ELSE 0
         IN  j \in FailedJudges <=> ~Reported(j) /\ score < Threshold(j) /\ Threshold(j) > 0
    /\ evalRows \in {{}, ScoresGiven} /\ streamed \subseteq ScoresGiven
    /\ \A row \in evalRows : ~Looked(row.judge) => row.score = 0

\* What the comments at the gate promise, and the repository's README of every judge: one
\* that could not be reached does not fail the answer.
UnreachableJudgesFailNothing ==
  Stage("answered") => \A j \in FailedJudges : Looked(j)

\* Shown a pair in the other order, the judges that answered find the same winner.
SwapsAgree(a, b, forth, back) ==
  PairTwice(a, b, forth, back).winner = PairTwice(b, a, back, forth).winner

\* A candidate wins a pair only when it wins in both orders: a judge that always prefers
\* the answer it sees first decides nothing, unless both go by one name (names are not
\* checked to be unique), and swapping the two changes no winner.  A ranking covers every
\* name once and its head wins, even when the judge named no place at all: then the first
\* that was shown wins, and it is not called a tie.
PairsFair ==
  pairing # NoOne =>
    LET cands == pairing.cands result == pairing.result IN
    /\ ToSet(result.ranking) = ToSet(cands)
    /\ result.tie <=> result.winner = NoOne
    /\ ~result.tie => result.winner = Head(result.ranking)
    /\ (Len(cands) = 2 /\ Len(pairing.said) = 2) =>
         LET forth == pairing.said[1] back == pairing.said[2] a == cands[1] b == cands[2] IN
         /\ SwapsAgree(a, b, forth, back)
         /\ (a # b /\ forth = back) => result.tie
         /\ ~result.tie => {forth, back} \subseteq {"A", "B"}
    /\ (Len(cands) = 3 /\ ~result.tie) =>
         /\ IsInjective(result.ranking)
         /\ ToSet(pairing.said) \cap (1..3) = {} => result.winner = cands[1]

\* The gate and the comparisons do what their answers say.
GradesHold == GateFollows /\ PairsFair
=============================================================================
