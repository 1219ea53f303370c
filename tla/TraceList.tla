------------------------------ MODULE TraceList ------------------------------
(***************************************************************************)
(* The list of traces.  A query narrows the traces table, joins what is    *)
(* known of each trace to it, and answers one page.  Where nothing that is *)
(* joined decides which traces are on the page, the page is cut first and  *)
(* joined after; otherwise everything is joined, narrowed and cut.         *)
(*                                                                         *)
(* A join finds a default, not a null, where it finds nothing: no level,   *)
(* no scores, no cost.                                                     *)
(***************************************************************************)
EXTENDS TraceStore

CONSTANTS
  Queries,            \* queries: roots, agent, kind, root, status, security,
                      \* quality, tag, sort
  Pages,              \* what of a list is asked for: limit, offset
  Ties                \* orders that rows may come in which the sort leaves equal

\* Tracers file a span under the run of its parent, and what names an agent says of
\* which kind it is.  An id is a UUID, and a tag is never empty.
ASSUME QueriesAssumption ==
  /\ "" \notin Tags \cup Spans
  /\ \A q \in Queries : q.sort \in {"newest", "oldest", "cost_desc"}
  /\ \A page \in Pages : page.limit \in Nat /\ page.offset \in Nat
  /\ Ties # {} /\ \A tie \in Ties : tie \in [Spans -> Nat] /\ \A s, t \in Spans : tie[s] = tie[t] => s = t
  /\ \A s, t \in Spans : SpanOf[s].parent = t => SpanOf[s].root = SpanOf[t].root
  /\ \A t \in Spans : SpanOf[t].agent # "" => SpanOf[t].kind \in {"function", "chain", "langgraph_node"}

Tree(root) == {t \in Here : SpanOf[t].root = root}
TopLevel(t) == SpanOf[t].isRoot \/ SpanOf[t].root = t
LiveScans(t) == IF t \in expired THEN 0 ELSE scans[t]
Level(risk) == <<"low", "medium", "high">>[risk]

Failed(t) == SpanOf[t].success = "no" /\ ~SpanOf[t].blocked
ReturningRoots(q) == q.roots \/ q.agent # ""

\* A root stands for its tree where roots are listed, a span for itself elsewhere.
Stands(t, q, Is(_)) ==
  IF ReturningRoots(q) THEN \E s \in Tree(SpanOf[t].root) : Is(s) ELSE Is(t)

HasStatus(t, q) ==
  CASE q.status = "all" -> TRUE
    [] q.status = "running" -> FALSE     \* a running span is never in the table
    [] q.status = "blocked" -> Stands(t, q, LAMBDA s : SpanOf[s].blocked)
    [] q.status = "failed" -> Stands(t, q, Failed)
    [] q.status = "completed" -> ~SpanOf[t].blocked /\ SpanOf[t].success # "no"

Flagged(t) ==
  \/ \E s \in Tree(SpanOf[t].root) : SpanOf[s].blocked
  \/ \E s \in Spans : SpanOf[s].root = SpanOf[t].root /\ LiveScans(s) > 0 /\ SpanOf[s].risk > 0

OfAgent(t, q) ==
  /\ TopLevel(t)
  /\ CASE q.kind = "llm" -> SpanOf[t].model = q.agent /\ t \in Billed
       [] q.kind = "" -> SpanOf[t].agent = q.agent
       [] OTHER -> SpanOf[t].agent = q.agent /\ SpanOf[t].kind = q.kind

Narrowed(t, q) ==
  /\ q.tag # "" => q.tag \in TagsOf(t)
  /\ q.root # "" => SpanOf[t].root = q.root
  /\ q.roots => TopLevel(t)
  /\ q.agent # "" => OfAgent(t, q)
  /\ HasStatus(t, q)
  /\ q.security = "flagged" => Flagged(t)

-----------------------------------------------------------------------------
\* The scans of a span come one by one, its scores as one group; a span that has no
\* scan has a row still.
ScoresOf(t) == {row.score : row \in {e \in evals : e.trace = t}}
Row(t, n) ==
  [trace |-> t, scan |-> n, scores |-> ScoresOf(t), cost |-> IF t \in Billed THEN SpanOf[t].cost ELSE 0,
   level |-> IF LiveScans(t) = 0 \/ SpanOf[t].risk = 0 THEN "" ELSE Level(SpanOf[t].risk)]
Joined(t) == {Row(t, n) : n \in {1} \cup 1..LiveScans(t)}
JoinAll(traces) == UNION {Joined(t) : t \in traces}
Bare(traces) == {[trace |-> t, scan |-> 0] : t \in traces}

BySecurity(row, q) ==
  CASE q.security \in {"all", "flagged"} -> TRUE
    [] q.security = "clean" -> row.level = ""
    [] OTHER -> row.level = q.security

ByQuality(row, q) ==
  LET worst == Min(row.scores) IN
  CASE q.quality = "all" -> TRUE
    [] q.quality = "none" -> row.scores = {}
    [] q.quality = "high" -> row.scores # {} /\ worst >= 8
    [] q.quality = "medium" -> row.scores # {} /\ worst \in 5..7
    [] q.quality = "low" -> row.scores # {} /\ worst < 5

PostJoin(q) == q.security \notin {"all", "flagged"} \/ q.quality # "all"

SortsOnJoin(q) == q.sort = "cost_desc"

\* ORDER BY one column, and what LIMIT and OFFSET leave of it.  Rows that are equal
\* in the column come in any order, in each query in one of its own.
CameIn(t) == LET i == CHOOSE j \in DOMAIN spans : spans[j].trace = t IN spans[i].at
Leads(a, b, q) ==
  CASE q.sort = "newest" -> CameIn(a.trace) > CameIn(b.trace)
    [] q.sort = "oldest" -> CameIn(a.trace) < CameIn(b.trace)
    [] q.sort = "cost_desc" -> a.cost > b.cost
Precedes(a, b, q, tie) ==
  IF a.trace = b.trace THEN a.scan < b.scan
    ELSE Leads(a, b, q) \/ (~Leads(b, a, q) /\ tie[a.trace] < tie[b.trace])
Ahead(rows, row, q, tie) == Cardinality({other \in rows : Precedes(other, row, q, tie)})
InOrder(rows, q, tie) ==
  [k \in 1..Cardinality(rows) |-> CHOOSE row \in rows : Ahead(rows, row, q, tie) = k - 1]
Cut(rows, q, limit, offset, tie) ==
  {row \in rows : offset =< Ahead(rows, row, q, tie) /\ Ahead(rows, row, q, tie) < offset + limit}

Matching(q) == {t \in Here : Narrowed(t, q)}
Qualified(q) == {row \in JoinAll(Matching(q)) : BySecurity(row, q) /\ ByQuality(row, q)}

FastPage(q, limit, offset, tie) ==
  JoinAll({row.trace : row \in Cut(Bare(Matching(q)), q, limit, offset, tie)})

\* Seeded fault: the page is cut before it is narrowed.
CutFirst(q, limit, offset, tie) == Qualified(q) \cap Cut(JoinAll(Matching(q)), q, limit, offset, tie)

SlowPage(q, limit, offset, tie) == Cut(Qualified(q), q, limit, offset, tie)

\* The calls of a model are found by a column of their costs, which has no value
\* before the join: a page that is cut first is refused.
Unanswered(q) == ~PostJoin(q) /\ ~SortsOnJoin(q) /\ q.agent # "" /\ q.kind = "llm"

Page(q, limit, offset, tie) ==
  InOrder(IF PostJoin(q) \/ SortsOnJoin(q) THEN SlowPage(q, limit, offset, tie)
            ELSE FastPage(q, limit, offset, tie), q, tie)

\* A page that has room for all, in whatever order.
AnyTie == CHOOSE tie \in Ties : TRUE
Listed(q) ==
  LET page == Page(q, Cardinality(JoinAll(Matching(q))), 0, AnyTie) IN {page[i].trace : i \in DOMAIN page}

-----------------------------------------------------------------------------
\* Whichever way a page is made, if it is answered at all, it is the page of the
\* joined and narrowed list, and the pages of a list hold each of its traces once,
\* unless a trace was scanned twice: every scan of it is a row.  The pages of two
\* queries fit together but for rows that tie: a row that ties with no other is on
\* the same page of both.
ScannedOnce == \A t \in Here : LiveScans(t) =< 1
Alone(row, rows, q) == \A other \in rows \ {row} : Leads(row, other, q) \/ Leads(other, row, q)
PagesAgree ==
  ScannedOnce => \A q \in {x \in Queries : ~Unanswered(x)} :
    LET rows == Qualified(q) IN
      /\ \A tie \in Ties : LET list == InOrder(rows, q, tie) IN
           /\ \A page \in Pages :
                Page(q, page.limit, page.offset, tie)
                  = SubSeq(list, page.offset + 1, Min({Len(list), page.offset + page.limit}))
           /\ Cardinality(Listed(q)) = Len(list)
      /\ \A row \in rows, tie, other \in Ties :
           Alone(row, rows, q) => Ahead(rows, row, q, tie) = Ahead(rows, row, q, other)

\* A run is listed as failed if a span anywhere below it failed.  Every run is
\* listed as flagged or as clean, and as both only if what was found was found
\* below its root, or a call was blocked.  A tag is counted on every run that is
\* listed under it.
IsChild(s, t) == SpanOf[s].parent = t
Below(t) == {s \in Here : s = t \/ IsChild(s, t) \/ \E m \in Spans : IsChild(s, m) /\ IsChild(m, t)}
Runs == [roots |-> TRUE, agent |-> "", kind |-> "", root |-> "", status |-> "all",
         security |-> "all", quality |-> "all", tag |-> "", sort |-> "newest"]
RunsSurface ==
  LET runs    == {t \in Here : TopLevel(t)}
      failed  == Listed([Runs EXCEPT !.status = "failed"])
      flagged == Listed([Runs EXCEPT !.security = "flagged"])
      clean   == Listed([Runs EXCEPT !.security = "clean"])
  IN /\ {t \in runs : \E s \in Below(t) : Failed(s)} \subseteq failed
     /\ runs = flagged \cup clean
     /\ \A n \in Tags : Cardinality(Listed([Runs EXCEPT !.tag = n])) =< Uses(n)
     /\ \A t \in flagged \cap clean :
          (\E s \in Spans \ {t} : SpanOf[s].root = SpanOf[t].root /\ LiveScans(s) > 0 /\ SpanOf[s].risk > 0)
            \/ \E s \in Tree(SpanOf[t].root) : SpanOf[s].blocked
=============================================================================
