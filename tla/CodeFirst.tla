------------------------------ MODULE CodeFirst -------------------------------
(***************************************************************************)
(* Scorers, datasets and runs that are defined in code.  A push finds each *)
(* by its name and updates it, or creates it; a local run finds or creates *)
(* the dataset it hangs on, and sends results that were produced on the    *)
(* caller's machine to be graded.  Names of datasets are unique as they    *)
(* are written, and looked for without regard to case, but by the          *)
(* dashboard, which creates a dataset under any name that is not taken.    *)
(***************************************************************************)
EXTENDS Naturals, FiniteSetsExt, SequencesExt

CONSTANTS
  Scripts,            \* laptops and CI jobs that hold the API key
  Folded,             \* names of datasets, in lower case
  Pushes,             \* what files declare: a scorer of a kind, and datasets
                      \* that it grades
  LocalEvals,         \* local runs: the dataset, and whether it is the
                      \* one that holds inline data
  Opened,             \* the local runs that were opened before
  Slugs, BatchSize, Nil,
  MaxRequests, MaxBusy,     \* bounds on requests, and on those at a time
  MaxResults                \* bound on the results sent

VARIABLES
  named,              \* datasets in the order they were created
  scorers,            \* prompts that are scorers, by slug
  attached,           \* dataset_scorers
  runs, items,        \* dataset_runs and dataset_run_items
  jobs, graded,       \* traces sent to the evaluator, and those it answered
  doing,              \* what each script is in the middle of
  begun,              \* requests begun
  apart,              \* names that may stand for two datasets: they were created
                      \* by requests that overlapped, beside another spelling by
                      \* hand, or by one file that has both spellings
  wasted              \* traces sent by a batch that failed

Kinds == {p.kind : p \in Pushes}

\* What is declared has a name; what is there before was created by hand.
ASSUME NamesAssumption ==
  /\ BatchSize \in Nat /\ MaxRequests \in Nat
  /\ \A p \in Pushes : p.names \in Seq(DOMAIN Folded) \ {<<>>} /\ p.slug \in Slugs
  /\ \A e \in LocalEvals : e.name \in DOMAIN Folded
  /\ \A names \in Opened :
       /\ names \in Seq(DOMAIN Folded)
       /\ \A i, j \in DOMAIN names : names[i] = names[j] => i = j

ASSUME NilAssumption == Nil \notin Kinds \cup [kind : Kinds, body : Kinds]

codeVars == <<named, scorers, attached, runs, items, jobs, graded, doing, begun, apart, wasted>>

Opening(name, set) == [name |-> name, set |-> set, status |-> "running", total |-> 0, summary |-> 0]

\* The names that are there in two spellings.
Spelled(names) ==
  {Folded[names[i]] : i \in {k \in DOMAIN names :
                             \E j \in DOMAIN names : names[j] # names[k] /\ Folded[names[j]] = Folded[names[k]]}}

CodeInit ==
  /\ \E names \in Opened :
       /\ runs = [n \in DOMAIN names |-> Opening(names[n], n)]
       /\ apart = Spelled(names)
  /\ named = [n \in DOMAIN runs |-> [name |-> runs[n].name, rows |-> {}]]
  /\ begun = 0
  /\ attached = {} /\ items = {} /\ jobs = {} /\ graded = {} /\ wasted = {}
  /\ scorers = [slug \in Slugs |-> Nil]
  /\ doing = [s \in Scripts |-> [stage |-> "idle"]]

At(s, stage) == doing[s].stage = stage
Goes(s, what) == doing' = [doing EXCEPT ![s] = what]
Free(s) == doing[s].stage \in {"idle", "pushed", "answered", "reported", "failed"}
Busy == {s \in Scripts : ~Free(s)}
Begins(s, what) ==
  /\ Free(s) /\ begun < MaxRequests /\ Cardinality(Busy) < MaxBusy
  /\ begun' = begun + 1 /\ Goes(s, what)
ItemsOf(n) == {i.trace : i \in {x \in items : x.run = n}}

\* Seeded fault: a name is looked for as it is written.
NewestExact(name) ==
  LET same == {i \in DOMAIN named : named[i].name = name} IN IF same = {} THEN 0 ELSE Max(same)

\* Lists come newest first: a dictionary of them keeps the oldest of a name, a
\* search ends at the newest.
Matches(name) == {i \in DOMAIN named : Folded[named[i].name] = Folded[name]}
Oldest(name) == IF Matches(name) = {} THEN 0 ELSE Min(Matches(name))
Newest(name) == IF Matches(name) = {} THEN 0 ELSE Max(Matches(name))

\* Whoever has looked for a name and not found it is about to create it.
Pending(o) ==
  IF doing[o].stage \in {"make", "fill", "hold"}
    THEN {Folded[doing[o].names[k]] : k \in {j \in DOMAIN doing[o].names : doing[o].found[j] = 0}}
    ELSE {}
PendingElse(s) == UNION {Pending(o) : o \in Scripts \ {s}}
Looks(s, names) ==
  apart' = apart \cup ({Folded[names[k]] : k \in DOMAIN names} \cap PendingElse(s)) \cup Spelled(names)

\* The dataset that was found, or a new one: an error if the name is taken by now.
FindOrCreate(s, next) ==
  LET k == doing[s].turn
      name == doing[s].names[k]
  IN IF doing[s].found[k] # 0
       THEN Goes(s, [doing[s] EXCEPT !.stage = next]) /\ UNCHANGED named
       ELSE IF \E i \in DOMAIN named : named[i].name = name
         THEN Goes(s, [stage |-> "failed"]) /\ UNCHANGED named
         ELSE /\ named' = Append(named, [name |-> name, rows |-> {}])
              /\ Goes(s, [doing[s] EXCEPT !.stage = next, !.found[k] = Len(named) + 1])

\* POST /datasets: a name that is taken, as it is written, is refused.
CreateDataset(s) ==
  /\ Begins(s, [stage |-> "idle"])
  /\ \E name \in DOMAIN Folded :
       /\ \A i \in DOMAIN named : named[i].name # name
       /\ named' = Append(named, [name |-> name, rows |-> {}])
       /\ apart' = IF Matches(name) # {} \/ Folded[name] \in PendingElse(s)
                     THEN apart \cup {Folded[name]} ELSE apart
  /\ UNCHANGED <<scorers, attached, runs, items, jobs, graded, wasted>>

-----------------------------------------------------------------------------
BeginPush(s) ==
  /\ \E p \in Pushes :
       Begins(s, [stage |-> "scorer", slug |-> p.slug, kind |-> p.kind, names |-> p.names,
                  id |-> begun + 1, turn |-> 1, found |-> [k \in DOMAIN p.names |-> 0],
                  old |-> IF scorers[p.slug] = Nil THEN Nil ELSE scorers[p.slug].kind])
  /\ UNCHANGED <<named, scorers, attached, runs, items, jobs, graded, apart, wasted>>

\* A slug of another kind is reported and left alone; the push goes on.
MayWrite(old, kind) == old \in {Nil, kind}

PushScorer(s) ==
  /\ At(s, "scorer")
  /\ LET d == doing[s] IN
       IF d.old = Nil /\ scorers[d.slug] # Nil
         THEN Goes(s, [stage |-> "failed"]) /\ UNCHANGED scorers
         ELSE /\ Goes(s, [d EXCEPT !.stage = "datasets"])
              /\ scorers' = IF MayWrite(d.old, d.kind)
                              THEN [scorers EXCEPT ![d.slug] =
                                      [kind |-> IF d.old = Nil THEN d.kind ELSE @.kind, body |-> d.kind]]
                              ELSE scorers
  /\ UNCHANGED <<named, attached, runs, items, jobs, graded, begun, apart, wasted>>

\* The datasets are listed once for all that a push declares.
OldestOf(names) == [k \in DOMAIN names |-> Oldest(names[k])]
ReadDatasets(s) ==
  /\ At(s, "datasets") /\ Looks(s, doing[s].names)
  /\ Goes(s, [doing[s] EXCEPT !.stage = "make", !.found = OldestOf(doing[s].names)])
  /\ UNCHANGED <<named, scorers, attached, runs, items, jobs, graded, begun, wasted>>

PushDataset(s) ==
  /\ At(s, "make") /\ FindOrCreate(s, "fill")
  /\ UNCHANGED <<scorers, attached, runs, items, jobs, graded, begun, apart, wasted>>

\* On to the next of the datasets, or past the last.
Moves(s, next) ==
  Goes(s, IF doing[s].turn < Len(doing[s].names)
            THEN [doing[s] EXCEPT !.turn = @ + 1, !.stage = IF @ = "fill" THEN "make" ELSE @]
            ELSE [doing[s] EXCEPT !.turn = 1, !.stage = next])

\* Examples are added, again when a push is repeated.
PushExamples(s) ==
  /\ At(s, "fill")
  /\ named' = [named EXCEPT ![doing[s].found[doing[s].turn]].rows = @ \cup {doing[s].id}]
  /\ Moves(s, "relist")
  /\ UNCHANGED <<scorers, attached, runs, items, jobs, graded, begun, apart, wasted>>

ReadAgain(s) ==
  /\ At(s, "relist")
  /\ Goes(s, [stage |-> "link", slug |-> doing[s].slug, names |-> doing[s].names, id |-> doing[s].id,
              into |-> doing[s].found, turn |-> 1, found |-> OldestOf(doing[s].names)])
  /\ UNCHANGED <<named, scorers, attached, runs, items, jobs, graded, begun, apart, wasted>>

AttachScorer(s) ==
  /\ At(s, "link")
  /\ attached' = attached \cup {<<doing[s].found[doing[s].turn], doing[s].slug>>}
  /\ Moves(s, "pushed")
  /\ UNCHANGED <<named, scorers, runs, items, jobs, graded, begun, apart, wasted>>

-----------------------------------------------------------------------------
\* A run on a dataset that is not there is refused.
StartRun(s) ==
  /\ \E e \in LocalEvals :
       /\ e.inline \/ Newest(e.name) # 0
       /\ Begins(s, [stage |-> "hold", names |-> <<e.name>>, turn |-> 1, found |-> <<Newest(e.name)>>])
       /\ Looks(s, <<e.name>>)
  /\ UNCHANGED <<named, scorers, attached, runs, items, jobs, graded, wasted>>

HoldDataset(s) ==
  /\ At(s, "hold") /\ FindOrCreate(s, "open")
  /\ UNCHANGED <<scorers, attached, runs, items, jobs, graded, begun, apart, wasted>>

OpenRun(s) ==
  /\ At(s, "open")
  /\ runs' = Append(runs, Opening(doing[s].names[1], doing[s].found[1]))
  /\ Goes(s, [stage |-> "idle"])
  /\ UNCHANGED <<named, scorers, attached, items, jobs, graded, begun, apart, wasted>>

Sent == Cardinality(jobs) + MapThenSumSet(LAMBDA s : doing[s].left, {s \in Scripts : At(s, "post")})

BeginBatch(s) ==
  /\ \E n \in DOMAIN runs, size \in 1..BatchSize :
       /\ Sent + size =< MaxResults
       /\ Begins(s, [stage |-> "post", run |-> n, left |-> size, batch |-> {}])
  /\ UNCHANGED <<named, scorers, attached, runs, items, jobs, graded, apart, wasted>>

PublishResult(s) ==
  /\ At(s, "post") /\ doing[s].left > 0
  /\ LET trace == Cardinality(jobs) + 1 IN
       /\ jobs' = jobs \cup {trace}
       /\ Goes(s, [doing[s] EXCEPT !.left = @ - 1, !.batch = @ \cup {trace}])
  /\ UNCHANGED <<named, scorers, attached, runs, items, graded, begun, apart, wasted>>

AddItems(s) ==
  /\ At(s, "post") /\ doing[s].left = 0
  /\ items' = items \cup {[run |-> doing[s].run, trace |-> t] : t \in doing[s].batch}
  /\ Goes(s, [doing[s] EXCEPT !.stage = "total"])
  /\ UNCHANGED <<named, scorers, attached, runs, jobs, graded, begun, apart, wasted>>

\* The total is that of the last batch.
SetTotal(s) ==
  /\ At(s, "total")
  /\ runs' = [runs EXCEPT ![doing[s].run].total = Cardinality(doing[s].batch)]
  /\ Goes(s, [doing[s] EXCEPT !.stage = "answered"])
  /\ UNCHANGED <<named, scorers, attached, items, jobs, graded, begun, apart, wasted>>

\* A call to the broker or the database fails, and the request with it: what it
\* sent stays sent.
FailBatch(s) ==
  /\ doing[s].stage \in {"post", "total"}
  /\ wasted' = IF At(s, "post") THEN wasted \cup doing[s].batch ELSE wasted
  /\ Goes(s, [stage |-> "failed"])
  /\ UNCHANGED <<named, scorers, attached, runs, items, jobs, graded, begun, apart>>

GradeJob ==
  /\ \E t \in jobs \ graded : graded' = graded \cup {t}
  /\ UNCHANGED <<named, scorers, attached, runs, items, jobs, doing, begun, apart, wasted>>

-----------------------------------------------------------------------------
ReadRunReport(s) ==
  /\ \E n \in DOMAIN runs :
       Begins(s, [stage |-> "report", run |-> n, seen |-> ItemsOf(n), status |-> runs[n].status])
  /\ UNCHANGED <<named, scorers, attached, runs, items, jobs, graded, apart, wasted>>

\* A run with a task is generating until it has counted as many generations as it
\* has items; nothing counts those of a local run.
Generating(seen) == 0 < Cardinality(seen)

SummarizeAndFinalize(s) ==
  /\ At(s, "report")
  /\ LET d == doing[s]
         done == d.seen \cap graded
         settled == /\ ~Generating(d.seen) /\ Cardinality(done) >= Cardinality(d.seen)
                    /\ d.status = "running"
     IN /\ runs' = IF settled
                     THEN [runs EXCEPT ![d.run].status = "complete", ![d.run].summary = Cardinality(done)]
                     ELSE runs
        /\ Goes(s, [stage |-> "reported", run |-> d.run, whole |-> d.seen # {} /\ done = d.seen])
  /\ UNCHANGED <<named, scorers, attached, items, jobs, graded, begun, apart, wasted>>

\* Finishing a run changes nothing, and is no step.
CodeStep ==
  \/ \E s \in Scripts :
       \/ CreateDataset(s) \/ BeginPush(s) \/ PushScorer(s) \/ ReadDatasets(s) \/ PushDataset(s) \/ PushExamples(s)
       \/ ReadAgain(s) \/ AttachScorer(s) \/ StartRun(s) \/ HoldDataset(s) \/ OpenRun(s)
       \/ BeginBatch(s) \/ PublishResult(s) \/ AddItems(s) \/ SetTotal(s) \/ FailBatch(s)
       \/ ReadRunReport(s) \/ SummarizeAndFinalize(s)
  \/ GradeJob

-----------------------------------------------------------------------------
CodeTypeOK ==
  /\ begun \in 0..MaxRequests /\ graded \subseteq jobs /\ apart \subseteq {Folded[n] : n \in DOMAIN Folded}
  /\ \A i \in items : i.run \in DOMAIN runs
  /\ \A n \in DOMAIN runs : runs[n].status \in {"running", "complete"} /\ runs[n].set \in DOMAIN named

\* A name stands for one dataset, and all runs over one name hang on it, unless it
\* was created in two spellings: by hand, by a file that has both, or by requests that
\* overlapped.
OneByName ==
  /\ \A i, j \in DOMAIN named :
       i # j /\ Folded[named[i].name] = Folded[named[j].name] => Folded[named[i].name] \in apart
  /\ \A m, n \in DOMAIN runs :
       Folded[runs[m].name] = Folded[runs[n].name] /\ runs[m].set # runs[n].set => Folded[runs[m].name] \in apart

\* What a finished push declared is there: its examples are in datasets of the names,
\* and its scorer grades them, unless a name stands for two.  No push gives a scorer a
\* body of another kind.
PushesStand ==
  /\ \A s \in Scripts : At(s, "pushed") =>
       \A k \in DOMAIN doing[s].names :
         /\ doing[s].id \in named[doing[s].into[k]].rows
         /\ <<doing[s].into[k], doing[s].slug>> \in attached \/ Folded[doing[s].names[k]] \in apart
  /\ \A slug \in Slugs : scorers[slug] # Nil => scorers[slug].body = scorers[slug].kind

\* A run waits for nothing that was not sent, and shows what it answered for; what was
\* sent for no run was sent by a batch that failed or has not ended.  The total never
\* exceeds the items.  A run is complete only as an empty one: none that has items
\* completes before their generation is counted, however much of it is graded.
LocalRunsAccounted ==
  LET underway == UNION {doing[s].batch : s \in {x \in Scripts : At(x, "post")}}
  IN /\ \A i, j \in items : i.trace \in jobs /\ (i.trace = j.trace => i = j)
     /\ jobs \subseteq {i.trace : i \in items} \cup wasted \cup underway
     /\ wasted \cap {i.trace : i \in items} = {}
     /\ \A s \in Scripts : At(s, "answered") => doing[s].batch \subseteq ItemsOf(doing[s].run)
     /\ \A n \in DOMAIN runs :
          /\ runs[n].total =< Cardinality(ItemsOf(n))
          /\ runs[n].status = "complete" => runs[n].summary = 0

\* A report that finds a result for every item of a run completes the run, as
\* get_dataset_run_report says of every run, and the API of local runs of these.
ReportCompletesGraded ==
  \A s \in Scripts : At(s, "reported") /\ doing[s].whole =>
    runs[doing[s].run].status = "complete"
=============================================================================
