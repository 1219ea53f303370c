--------------------------- MODULE MCObservability ---------------------------
EXTENDS Observability
CONSTANTS t1, t2, t3, t4, b1, b2, b3, b4, b5
\* t1 with its child t2, and two spans of a run whose root never came in.
Span == [root |-> t1, parent |-> Nothing, isRoot |-> FALSE, success |-> "yes", blocked |-> FALSE,
         agent |-> "", kind |-> "", model |-> "", cost |-> 0, risk |-> 0, says |-> TRUE]
SpanTable ==
  [t \in Spans |->
     CASE t = t1 -> [Span EXCEPT !.isRoot = TRUE, !.agent = "bot", !.kind = "function", !.cost = 2, !.says = FALSE]
       [] t = t2 -> [Span EXCEPT !.parent = t1, !.success = "no", !.cost = 3, !.risk = 3, !.model = "m"]
       [] t = t3 -> [Span EXCEPT !.root = t3, !.agent = "bot", !.kind = "function", !.blocked = TRUE,
                                 !.success = "no", !.cost = 1, !.risk = 1]
       [] t = t4 -> [Span EXCEPT !.root = t3, !.isRoot = TRUE, !.agent = "bot", !.kind = "function",
                                 !.success = "none"]]
BatchTable ==
  [b \in Batches |->
     CASE b = b1 -> [trace |-> t1, evaluator |-> "judge", scores |-> [quality |-> 8, tone |-> 2],
                     first |-> "quality", usage |-> 7]
       [] b = b2 -> [trace |-> t3, evaluator |-> "judge", scores |-> [quality |-> 3],
                     first |-> "quality", usage |-> 5]
       [] b = b4 -> [trace |-> t3, evaluator |-> "judge", scores |-> [quality |-> 8],
                     first |-> "quality", usage |-> 5]
       [] b = b3 -> [trace |-> t4, evaluator |-> "fluiq.security", scores |-> [quality |-> 6],
                     first |-> "quality", usage |-> 2]
       [] b = b5 -> [trace |-> t2, evaluator |-> "fluiq.eval", scores |-> [tone |-> 4],
                     first |-> "tone", usage |-> 0]]
Ask == [Runs EXCEPT !.roots = FALSE]
SomeQueries ==
  {Runs, [Runs EXCEPT !.quality = "none", !.sort = "cost_desc"],
   [Runs EXCEPT !.quality = "low", !.security = "high"], [Runs EXCEPT !.tag = "vip"],
   [Ask EXCEPT !.status = "completed", !.sort = "oldest", !.root = t1],
   [Ask EXCEPT !.status = "blocked", !.agent = "bot", !.kind = "function", !.security = "clean"],
   [Ask EXCEPT !.status = "failed", !.agent = "m", !.kind = "llm", !.sort = "cost_desc"]}
\* A page that others are before and after.
SomePages == {[limit |-> 1, offset |-> 1]}
\* The judge said different things of two runs, the same of both, nothing of one.
Flag(t, value) == [trace |-> t, name |-> "flag", stamp |-> 0, value |-> value]
Came(t, time) == [trace |-> t, at |-> time]
\* t2 ties with its root; t4, which comes in later, with t3.
Begin == [spans |-> <<Came(t1, 0), Came(t2, 0), Came(t3, 1)>>, now |-> 1, scored |-> {b1},
          flags |-> {Flag(t1, "open")}]
Beginnings ==
  {Begin, [Begin EXCEPT !.scored = {b1, b2}, !.flags = {Flag(t1, "resolved")}],
   [Begin EXCEPT !.scored = {b1, b4}, !.flags = {}]}
TheAgent == [agent |-> "bot", kind |-> "function"]
SomeFields ==
  {[kind |-> "boolean", required |-> TRUE, options |-> <<>>],
   [kind |-> "text", required |-> FALSE, options |-> <<>>],
   [kind |-> "slider", required |-> FALSE, options |-> <<>>],
   [kind |-> "choice", required |-> FALSE, options |-> [true |-> 10, poor |-> 5]]}
\* One of them out of range.
SomeNumbers == [half |-> 5, twelve |-> 12]
\* Ascending, descending, and the ends in the middle.
Rank(a, b, c, d) == [t \in Spans |-> CASE t = t1 -> a [] t = t2 -> b [] t = t3 -> c [] t = t4 -> d]
SomeTies == {Rank(1, 2, 3, 4), Rank(4, 3, 2, 1), Rank(2, 1, 4, 3)}
\* Two spellings of one name.
FoldTable == [d |-> "d", D |-> "d"]
SomePushes ==
  {[slug |-> "s", kind |-> "judge", names |-> <<"d">>], [slug |-> "s", kind |-> "code", names |-> <<"D", "d">>]}
SomeEvals == {[name |-> "d", inline |-> FALSE], [name |-> "D", inline |-> TRUE]}
SomeDatasets == {<<>>, <<"d", "D">>}
\* Trials of an example, two plain runs of a trace they share; results that disagree.
Item(e, t) == [example |-> e, trace |-> t]
MemberTable ==
  [a |-> <<Item("e1", "x1"), Item("e1", "x2"), Item("e2", "x3")>>,
   b |-> <<Item("e1", "x4"), Item("e2", "x5")>>,
   c |-> <<Item("e1", "x4"), Item("e3", "x4")>>]
Measure(n, t, metric, score) ==
  [n |-> n, trace |-> t, evaluator |-> "fluiq.eval", metric |-> metric, layer |-> "",
   score |-> score, runScore |-> 0]
Layer(n, t, layer, score, runScore) ==
  [n |-> n, trace |-> t, evaluator |-> "fluiq.agent_eval", metric |-> layer, layer |-> layer,
   score |-> score, runScore |-> runScore]
SomeRows ==
  {Measure(1, "x1", "m", 4), Measure(2, "x2", "m", 5), [Measure(3, "x3", "k", 7) EXCEPT !.evaluator = "human"],
   Measure(4, "x4", "m", 5), Measure(5, "x4", "m", 8), Measure(6, "x5", "k", 2),
   Layer(7, "x4", "deterministic", 3, 6), Layer(8, "x1", "deterministic", 3, 3), Layer(9, "x5", "tool", 7, 0)}
\* TLC evaluates a definition once, but what stands for a constant wherever it is
\* read: that is no more than a name.
MCSpanOf == SpanTable
MCBatchOf == BatchTable
MCQueries == SomeQueries
MCPages == SomePages
MCBefore == Beginnings
MCFields == SomeFields
MCNumber == SomeNumbers
MCTies == SomeTies
MCMembers == MemberTable
MCResultRows == SomeRows
MCFolded == FoldTable
MCPushes == SomePushes
MCLocalEvals == SomeEvals
MCOpened == SomeDatasets
MCAgent == TheAgent
\* The same people, or machines, act in every part.
Symmetry == Permutations(Reviewers)
=============================================================================
