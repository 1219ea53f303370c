------------------------------ MODULE Examples -------------------------------
(***************************************************************************)
(* Examples of a dataset that are made of runs.  All runs of an agent are  *)
(* imported page by page, each pinned first: its spans are copied to where *)
(* they never expire.  A run is also pinned when it is added by hand, and  *)
(* when an example of it is looked at that was not pinned before.          *)
(*                                                                         *)
(* Meanwhile spans come in and expire, and the dataset may go.             *)
(***************************************************************************)
EXTENDS Review

CONSTANTS
  Agent,              \* the agent, by key and kind
  ImportPage,         \* runs per page; 200 in the code
  ImportCap,          \* runs per import; 2000 in the code
  PinLimit,           \* spans per run; 500 in the code
  MaxAtOnce           \* bound on the requests begun

\* No page is empty that need not be.  A list of a model's calls is not answered, so
\* that none are imported.
ASSUME ImportsAssumption == ImportPage \in Nat \ {0} /\ PinLimit \in Nat \ {0} /\ Agent.kind # "llm"

VARIABLES
  dataset,            \* whether it is still there
  linked,             \* agents whose future runs are appended
  pinned,             \* rows of dataset_trajectory_spans
  imports             \* examples with a run behind them

exampleVars == <<dataset, linked, pinned, imports>>
ExamplesInit ==
  /\ dataset = TRUE /\ linked = {} /\ imports = {} /\ pinned = {}

AgentRuns == [Runs EXCEPT !.agent = Agent.agent, !.kind = Agent.kind]
Sources == {e.source : e \in imports} \cup {e.source : e \in examples}
AtWork(r) == asking[r].stage \in {"link", "page", "row", "pin"}
Left(r) == {i \in DOMAIN asking[r].page : asking[r].page[i] \notin asking[r].seen}
\* Runs that tie with another of the list.
Tied == {t \in Matching(AgentRuns) : \E s \in Matching(AgentRuns) \ {t} : CameIn(s) = CameIn(t)}
Full(r) == Cardinality(asking[r].adding) >= ImportCap
PinOf(root) == {row.span : row \in {p \in pinned : p.root = root}}

\* What a request carries while it pins and adds: its runs still to be looked at,
\* those it passed over or took, and the examples it will add.
Carries(kind, page, seen) ==
  [stage |-> "row", kind |-> kind, page |-> page, seen |-> seen, adding |-> {},
   offset |-> 0, last |-> TRUE, run |-> Nothing, held |-> {}, there |-> {}, gone |-> expired]

-----------------------------------------------------------------------------
LinkAgent(r) ==
  /\ Idle(r) /\ dataset
  /\ linked' = linked \cup {Agent}
  /\ Turn(r, [Carries("import", <<>>, {}) EXCEPT !.stage = "link", !.there = Listed(AgentRuns)])
  /\ LET others == {o \in Reviewers : AtWork(o) /\ asking[o].kind = "import"} IN
       crowded' = crowded \cup others \cup (IF others = {} THEN {} ELSE {r})
  /\ UNCHANGED <<dataset, pinned, imports>>

UnlinkAgent(r) ==
  /\ Idle(r) /\ Turn(r, Ends("done")) /\ Agent \in linked
  /\ linked' = linked \ {Agent}
  /\ UNCHANGED <<dataset, pinned, imports, crowded>>

\* existing_source_trace_ids.
ReadSources(r) ==
  /\ Is(r, "link")
  /\ Turn(r, [asking[r] EXCEPT !.stage = "page", !.seen = Sources])
  /\ UNCHANGED <<dataset, linked, pinned, imports, crowded>>

FetchPage(r) ==
  /\ \/ Is(r, "page")
     \/ Is(r, "row") /\ Left(r) = {} /\ ~asking[r].last /\ ~Full(r)
  /\ \E tie \in Ties : LET rows == Page(AgentRuns, ImportPage, asking[r].offset, tie) IN
       Turn(r, [asking[r] EXCEPT !.stage = "row", !.page = [i \in DOMAIN rows |-> rows[i].trace],
                                 !.offset = @ + ImportPage, !.last = Len(rows) < ImportPage])
  /\ UNCHANGED <<dataset, linked, pinned, imports, crowded>>

AddExample(r) ==
  /\ Idle(r)
  /\ \E t \in Labelled : Turn(r, Carries("single", <<t>>, {}))
  /\ UNCHANGED <<dataset, linked, pinned, imports, crowded>>

\* An example whose run is pinned is read from the pin.
ViewTrajectory(r) ==
  /\ Idle(r)
  /\ \E t \in Sources : PinOf(t) = {} /\ Turn(r, Carries("view", <<t>>, {}))
  /\ UNCHANGED <<dataset, linked, pinned, imports, crowded>>

\* _snapshot_run: the newest spans under the id are read; they are stored once
\* their media are, if both work.
ReadRun(r) ==
  /\ Is(r, "row") /\ Left(r) # {} /\ ~Full(r)
  /\ \E i \in Left(r), tie \in Ties :
       LET t == asking[r].page[i]
           page == Page(OfRun(t), PinLimit, 0, tie)
       IN /\ \A j \in Left(r) : i =< j
          /\ Turn(r, [asking[r] EXCEPT !.stage = "pin", !.seen = @ \cup {t}, !.run = t,
                                       !.held = {page[k].trace : k \in DOMAIN page}])
  /\ UNCHANGED <<dataset, linked, pinned, imports, crowded>>

\* A span that is pinned again takes its own place.
Pinned(root, held) == {[root |-> root, span |-> s] : s \in held}

\* A run is kept that has an input or an output, or a span of it that does.
Kept(kind, t, held) ==
  \/ kind = "single"
  \/ kind = "import" /\ (SpanOf[t].says \/ \E s \in held : SpanOf[s].says)

KeepRow(r, held, lost) ==
  LET t == asking[r].run
      row == [from |-> r, kind |-> asking[r].kind, source |-> t, had |-> held, lost |-> lost]
  IN Turn(r, [asking[r] EXCEPT !.stage = "row", !.run = Nothing, !.held = {},
                !.adding = IF Kept(asking[r].kind, t, held) THEN @ \cup {row} ELSE @])

WritePin(r) ==
  /\ Is(r, "pin")
  /\ pinned' = pinned \cup Pinned(asking[r].run, asking[r].held)
  /\ KeepRow(r, asking[r].held, FALSE)
  /\ UNCHANGED <<dataset, linked, imports, crowded>>

LosePin(r) ==
  /\ Is(r, "pin") /\ KeepRow(r, {}, TRUE)
  /\ UNCHANGED <<dataset, linked, pinned, imports, crowded>>

\* Nothing is added to a dataset that is gone.
AddRows(r) ==
  /\ Is(r, "row") /\ (Full(r) \/ (Left(r) = {} /\ asking[r].last))
  /\ imports' = IF dataset THEN imports \cup asking[r].adding ELSE imports
  /\ Turn(r, [stage |-> "added", kind |-> asking[r].kind, missed |-> asking[r].there \ asking[r].seen,
              tied |-> Tied, whole |-> expired = asking[r].gone /\ ~Full(r)])
  /\ UNCHANGED <<dataset, linked, pinned, crowded>>

RemoveExample(r) ==
  /\ Idle(r) /\ Turn(r, Ends("done"))
  /\ \/ \E e \in imports : imports' = imports \ {e} /\ UNCHANGED examples
     \/ \E e \in examples : examples' = examples \ {e} /\ UNCHANGED imports
  /\ UNCHANGED <<dataset, linked, pinned, crowded>>

DeleteDataset(r) ==
  /\ Idle(r) /\ Turn(r, Ends("done")) /\ dataset
  /\ dataset' = FALSE /\ linked' = {} /\ imports' = {} /\ examples' = {}
  /\ UNCHANGED <<pinned, crowded>>

Begun == Cardinality({r \in Reviewers : ~Idle(r)})
ExamplesStep == \E r \in Reviewers :
  \/ /\ ReadSources(r) \/ FetchPage(r) \/ ReadRun(r) \/ WritePin(r) \/ LosePin(r) \/ AddRows(r)
     /\ UNCHANGED examples
  \/ /\ Begun < MaxAtOnce
     /\ \/ /\ LinkAgent(r) \/ UnlinkAgent(r) \/ AddExample(r) \/ ViewTrajectory(r)
           /\ UNCHANGED examples
        \/ RemoveExample(r) \/ DeleteDataset(r)
        \/ dataset /\ SendToDataset(r) /\ UNCHANGED exampleVars

-----------------------------------------------------------------------------
\* What an example was made of can be read for ever: no later pin and no span
\* that expires takes it away.  No imported example is empty.  No two imports take
\* the same run, unless they overlap.
ExamplesStand ==
  /\ \A e \in imports : e.had \subseteq PinOf(e.source)
  /\ \A e \in {x \in imports : x.kind = "import"} :
       SpanOf[e.source].says \/ \E s \in e.had : SpanOf[s].says
  /\ \A e, f \in {x \in imports : x.kind = "import"} :
       (e # f /\ e.source = f.source) => {e.from, f.from} \cap crowded # {}

\* An example has nothing pinned only if pinning failed, its spans had expired, or
\* its root is an orphan, whose spans are filed under another id; and an import
\* misses a run that was there when it began only if the run ties with another, so
\* that one page after another may show the other twice, if one expired meanwhile, or
\* if there were more than it takes.
ImportsWhole ==
  /\ \A e \in imports : e.had = {} =>
       e.lost \/ e.source \in expired \/ SpanOf[e.source].root # e.source \/ e.kind = "single"
  /\ \A r \in Reviewers :
       Is(r, "added") /\ asking[r].whole => asking[r].missed \subseteq asking[r].tied
=============================================================================
