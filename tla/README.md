# A TLA+ model of fluiq-api

fluiq-api is the HTTP service of an LLM observability product: a FastAPI
application over PostgreSQL (accounts, prompts, datasets, runs), ClickHouse
(traces and evaluation results) and Kafka (jobs for evaluation and security
workers that live in other repositories, and their replies).  Several processes
serve the same databases; within a process, requests and background tasks are
coroutines that interleave at every `await`.

The modules here model the parts of the service where that interleaving, a failure
between two statements, or the order in which rows come in decides whether the result
is right.  TLC checks them on small instances, and TLAPS proves for every value of the
constants what they keep: every invariant and every action property of a passing run.

    tlc -workers 2 -config DatasetRun.cfg MCDatasetRun.tla
    tlc -workers 2 -config Observability.cfg MCObservability.tla
    tlapm DatasetRunProofs.tla

`PROJECT.json` holds the same information for tools: the runs with their
properties, the source lines each definition models, the seeded faults (operators
whose comment says "Seeded fault") that each property is known to catch, the
hazards and the theorems.

## The system

| part | state | operations | what is hard about it |
|---|---|---|---|
| Dataset runs (`routes/datasets`, `postgresql/dataset_runs.py`, `task_runner.py`) | `dataset_runs` and `dataset_run_items` rows, result rows in ClickHouse, detached coroutines | launch, generate, record, publish for scoring, report, list, delete | the run is finalized lazily by whichever request reads it, from three queries; coroutines die with the process |
| Security check, response gate, playground (`routes/secure`, `routes/trace`, `routes/evaluate`, `kafka/reply_consumer.py`) | futures pending per correlation id in each process, reply topics | screen, publish, register, wait, match a reply, time out | a reply races its registration and its timeout, may be for another tenant or never come; the consumer can die |
| Prompts (`routes/prompts`, `postgresql/prompts.py`) | the prompt row, its versions, its environments | edit, restore, promote, demote, toggle, delete | every operation is several autocommitted statements without a lock |
| Realtime (`realtime/broker.py`, `running_registry.py`, `consumer.py`) | per-process queues of subscribers, the registry of running traces | subscribe, publish, register, complete, expire, list | rows and registry are read at two times, bounded queues, replayed and late starts |
| Organizations (`routes/organizations`, `postgresql/organizations.py`) | members with roles, invitations, current organizations | create, invite, accept, revoke, set role, transfer, remove, switch, delete | the last owner, two pending invitations, check then act in two statements |
| Plans and trials (`postgresql/auth.py`, `routes/admin`) | user type, trial latch, an organization's own plan, keys and their count | start a trial, lazy downgrade, upgrade, administrators' changes, make and delete keys | a lazy write overwrites what happened during its `await` |
| Sessions (`routes/auth`) | refresh tokens and their revocations, reset codes | register, log in, refresh, log out, reset, delete the account | rotation is check then revoke; a deletion spans two databases |
| Settings and their caches (`shared/quotas.py`, `postgresql/guardrails.py`, `alerts.py`, `online_rules.py`) | rows, and a copy per process | save, delete, look up through the copy, expire | a fill or an invalidation during another's `await`; other processes are not told |
| Trace ingest (`routes/trace`, `shared/online_scoring.py`) | none of its own | check the quota, publish a trace and its jobs, apply the rules | the fan-out fails half-way |
| Alerts (`realtime/alert_consumer.py`, `shared/slack.py`) | digest buckets, cooldowns, sliding windows | collect, flush, alert at once | items leave the bucket before they are delivered |
| Judge prompts (`eval_prompts.py`, `eval_prompts_org.py`) | the platform's templates, an organization's overrides, versions of both | seed, save, reset, restore | version numbers from MAX + 1 |
| Provider credentials (`postgresql/credentials.py`, `shared/crypto.py`) | sealed keys with a status, unsealed data keys per process | try, store, use, mark, delete | the verdict on a key comes after its row was replaced |
| Scoring and comparing answers (`routes/evaluate`) | the request | ask judges, merge thresholds, gate, compare pairs, rank | a judge that cannot be reached scores zero, like a bad answer |
| Traces in ClickHouse (`clickhouse/schema.sql`, `queries.py`, `routes/monitor`) | span, cost, scan and score rows, rollups by materialized views | insert, expire, list, sum up | rows come in any order, a join finds a default where it finds nothing, two query plans |
| Labels, feedback, review (`routes/rubrics`, `feedback`, `review`, `judge_agreement.py`) | tags and flags that replace each other, a rubric, people's scores | label, answer, review, queue, compare with the judges | stamps are taken before inserts; a review is many inserts |
| Examples of datasets (`routes/datasets`, `postgresql/datasets.py`) | examples, pinned spans, linked agents | import, pin, add, look at, delete | paged reads of a table that changes |
| Runs compared (`routes/datasets`) | none: result rows and run items | summary, report, compare two, compare many | four reads of the same unordered rows |
| Code-first resources, local runs, remote evals (`routes/resources`) | scorers, datasets and runs by name; offers and a queue in the process | push, open a run, send results, register, poll, trigger | names in two spellings, a restart loses the queue |
| The rest | administration, blog, leads, connectors, OpenTelemetry, e-mail, storage | one statement, one external call or one conversion per request | not a question for a model checker |

The parts meet in few places.  A launch, a check or an ingest publishes a Kafka job;
an external worker answers with ClickHouse rows, a reply topic or an event topic.
Everything a request knows about another request it reads from PostgreSQL or
ClickHouse, or from a map in its own process.

What makes each part correct:

- a run's counters are its items counted; it is complete only over all of its
  items, each with an outcome of this run, and stays so; it completes unless
  something was lost;
- a check's verdict is about its own prompt, a hard block is final, nothing
  unscanned passes when failing closed, every request ends;
- a prompt version is one body for ever, none is lost, a restore gives back what
  it names, and an environment holds a version that existed;
- a finished trace leaves the running list; a subscriber gets its organization's
  events in order, and only those; an alert is delivered or retried;
- a trial is used once, an upgrade is not undone, an organization keeps an owner and
  a user an organization; a copy of a setting is what is stored, but for what a write
  could not reach;
- what an ingest answered is what it published; an answer fails the gate for exactly the
  judges below a threshold that was set; a credential is invalid only if its own key was rejected;
- rows give the same totals in whatever order they came, and every list, chart and
  page the same counts of them; a label shows what the last request said;
- two reads of the same results do not call one example better and worse.

## The modules

| module | what it is |
|---|---|
| `DatasetRun` | one dataset run: the launch, the generation coroutines, the workers, the readers |
| `RunLifecycle` | the abstract run its readers are promised |
| `DatasetRunProofs` | the theorems about it |
| `MCDatasetRun` | the instance for TLC: symmetry |
| `SecureCheck` | requests that wait for a worker's reply |
| `SecureCheckProofs` | the theorems about it |
| `MCSecureCheck` | the requests that are checked |
| `LiveTraces` | the registry of running traces, the streams and pages of dashboards |
| `LiveTracesProofs` | the theorems about it |
| `MCLiveTraces` | the instance for TLC |
| `PromptHistory` | one prompt, its versions and environments |
| `PromptHistoryProofs` | the theorems about it |
| `MCPromptHistory` | the instance of two requests for TLC: symmetry |
| `Tenants` | the tables accounts share and how a request takes its steps on them |
| `Organizations`, `Plans`, `Sessions` | the requests about members, about tiers and keys, about sessions and accounts |
| `Accounts` | the three together, with their properties |
| `AccountsProofs` | the theorems about them |
| `Workspace`, `MCWorkspace` | the requests of an organization, on accounts or on a prompt; the mixes of requests for TLC |
| `SettingCaches`, `OnlineRules`, `Ingest` | settings and their copies; the rules and which of them scores a trace; the traces that come in under them |
| `AlertDigest`, `JudgePrompts`, `Credentials`, `Judging` | the alert consumer; the prompts of the judges; provider keys; an answer judged for its caller |
| `Settings`, `MCSettings` | the five parts an organization sets up; the instance for TLC |
| `SettingsProofs` | the theorems about alerts, judge prompts, keys and answers, copies and ingest |
| `Labels`, `TraceStore`, `TraceList`, `Dashboards` | tags and flags; the tables and rollups; the list of traces; the reads that sum up |
| `Review`, `ReviewQueue`, `Examples` | what people say; what is read of it beside the judges; what datasets keep of runs |
| `CodeFirst`, `RemoteEvals`, `RunCompare` | resources and runs defined in code; evals on other machines; runs read and compared |
| `Observability`, `MCObservability` | the seven parts about traces and runs; the instance for TLC |
| `ReadsProofs` | lemmas about what is read of rows: sums, rollups, the monitor, the queue, runs compared, pages |
| `ObservabilityProofs` | the theorems about the seven parts |

### DatasetRun

The variables are the run row (`status`, `total`, `generated`, `genFailed`,
`summary`), its item rows (`items`, `recorded`), where the launching coroutine
stands (`launch`, with the examples it `listed` and the trace ids it chose,
`traceOf`), where each generation coroutine stands (`worker`), the scoring jobs in
Kafka (`jobs`), the results in ClickHouse (`priorRows`, `scored`, `unscored`) and
what each reading request has fetched so far (`reader`).

The actions follow the code from `await` to `await`.  `_launch_run` is `Refuse`,
`CreateRun`, `ListExamples`, `FinalizeEmpty`, `PublishExample`, `InsertItems`,
`SetTotal` and `Spawn`; `_generate_and_score` is `StartGeneration`, `Generate`,
`RecordGeneration` and `PublishTaskScore`; the report and the list are `ReadRun`,
`ReadItems`, `ReadResults` and `Finalize`, with their one difference (the list
passes over rows whose total is not set) as a conjunct of `ReadRun`.  Failing
publishes and writes, a deleted dataset and a restart are actions of their own.
The workers (`Score`, `ScoreNothing`, `LoseJob`) are external: all that is assumed
of them is what the report's query can find afterwards.

`askers` are the requests that read a run, one of the sets in `Askings`.  A run that is
read through the list alone (`ByList`) is a refinement of `RunLifecycle`: members
decided once, outcomes that only accumulate, and completion only when each member has
one; of a run a report is asked for the refinement says nothing.

### SecureCheck

A request is `Screen` (deny list, patterns, allow list, in the code's order),
`PublishJob`, `Register`, `TimerFires` and `Resume`; `PublishFails` and `GiveUp`
are the degraded paths of the three kinds of request.  `slots` and `future` are
the maps of pending futures of `reply_consumer.py`; `inbox` is what each
process's consumer has yet to read, in no particular order.  `Accepts` is the
consumer's test of a reply.  `Register` comes after the job was acknowledged,
because the coroutine object made before the publish does not run until it is
awaited.  A reply and a timer in the same turn of the event loop are both
possible: `TimerFires` cancels a future that already holds a reply, as
`asyncio.wait_for` may.

### PromptHistory

A request is a sequence of statements, each an action: `MergeConfig` (the route's
own read), `FindVersion` (restore), `ReadHead`, `SaveVersion`, `WriteHead`, or
`ReadHead`, `Promote`.  `Abort` abandons a request between any two of them.
Demotion, the legacy flag and deletion are one statement each; the deletion takes
versions and environments along, and later statements of others then match no row
or raise.  `past` and `overwritten` record what happened and are never read by an
action: the first is every version the prompt had, the second the versions that
were updated by a request which had read an older one.  What a fetch answers is left out: it
reads one row, and of an environment's row no config, for which there is no column
(`postgresql/prompts.py:369`), though the comment at `routes/prompts/__init__.py:651` says
that the SDK needs the toolset.

### LiveTraces

One process and one organization.  `topic` is what its consumer has yet to read,
`registry` what `running_registry` holds of each trace (nothing, an entry, or an
entry older than `RUNNING_TTL_SECONDS`), `queue` each dashboard's subscriber queue.
`Consume` is one message of `_run`: the registry's and the broker's locks are never
held across an `await`, so nothing comes between the registration, the publication
and the next message.  `EvaluateTrace` is the SDK's evaluation, which publishes for any
trace, stored or not.  `GET /traces` is two actions, `LoadRows` and `MergeRunning`,
because the rows, and then their tags, are awaited before the registry is read.
`GET /traces/stream` is `Connect`, `Take` and `Disconnect`.  The client (`Begin`, `End`), the worker
that stores a trace (`Land`, `Announce`) and the one that evaluates it (`Enrich`)
are external; Kafka keeps the messages of one organization in order, but a start
may be handled again or late (`BeginLate`).

`due`, `told` and `dropped` record what a dashboard was owed, was told and lost,
and a page's `before` and `covered` what was listed when it was begun and whether
its stream was open; no guard and no other variable reads them.

### Accounts

`db` is the tables; `at` and `known` say where each request stands and what it was
asked and has read; `uses` counts the uses of what may be used once; `slips` records
what a step wrote on the strength of a read that no longer held, and is read by the
properties only.  A request takes one action for each statement or transaction another
request can come between.  What refuses a request is a guard of its next action, since
a refused request changes nothing.  PostgreSQL runs at READ COMMITTED: a transaction
that reads and then writes is two actions, and its first update may act on the rows as
it read them or as they are when it commits.  So is the deletion of an organization: it
reads the members, and of each where to move him (`ReadMembers`), and then moves them by
what it read or finds now and deletes the row (`DeleteOrganization`), while another may
have removed one of them from there.  The deletion of an account is many steps:
ClickHouse goes first, one organization after the other, and a foreign key may refuse
the rest.

The properties say what the code keeps and name what it does not: an organization is
left without an owner by a role given to its only owner, by an administrator, by the
deletion of that owner's account or by two requests at once (`OwnerKept`); a second
pending invitation or reset code needs two made at once (`NewestOnly`); a refresh token
is exchanged twice only by exchanges that overlap (`OneShot`); and a user is left in an
organization he is no member of only by a switch, a removal or the deletion of an
organization which another removal overtook (`CurrentOrgIsMine`).

Left out: names and addresses, the annotator role (it may do less than a member),
passwords, dates, and access tokens, which are checked without state.

### Settings

`part` says which of five independent parts a behaviour is about.

*caches*: `stored` is the rows, `cache` the copy each process has of each, `fetched`
what a lookup has read and not stored yet.  `Fetch` and `Uses` are the two sides of the
`await` in `get_policy`, `get_settings`, `active_rules` and the quota lookups; `Write`
and `Invalidate` the two of every write.  `CachesAgree` holds but for the copies
`excused`: those of another process, and those a lookup stored that a write overtook.  A
write caches an empty list of risks as it is (`guardrails.py:172`, `alerts.py:138`), where
a lookup reads it back as `["high"]` (`guardrails.py:103`, `alerts.py:83`): `Agrees` allows
the first only for as long as the empty list is what is stored.  There are more rule
identifiers than `MaxRules`, so that two creations at once do exceed the limit;
`RulesInBounds` excuses them by name.
`Ingest` serves `POST /ingest` over these lookups, one publication a step, each of which
may fail; `OnlineRules` holds the writes of rules and `select_rule`.  The limits on
traces are open on every tier, so that only evaluations are refused.

*alerts*: the consumer's loop (`Receive`, `Deliver`, the three kinds of alert) and the
flush of digests (`StartPass`, `TakeItems`, `PostDigest`) share a process and take turns
where they await.  `AlertsAccounted` says where every alert is, lost ones included.

*judges*: `Seed`, `Create`, saves, resets and restores of both tables, with the locked
read of the platform's row and the unlocked MAX of the organization's.

*credentials*: a key is tried, then stored or refused; a use reads the row, unseals its
data key, and marks it when the provider refuses.  A provider may answer anything.

*judging*: one request asks metrics and prompts (`RunMetrics`, `FindTemplates`,
`RunCustomJudges`), merges their thresholds and is answered, on the SDK's path or the
dashboard's; or two or three answers are compared.  `GateFollows` says of every judge
whether it fails the answer: one out of reach counts as zero, but for the metrics of the
SDK, which the code marks and reports (`Reported`).  That the comments at the gate and the
repository's README promise more is the run `GateFailsOpen`.  `PairsFair` shows another: three answers of which the judge ranked none have a
winner, the first, though `PairwiseResult` (line 553) says there is none without a
decision.

### Observability

Again `part` says what a behaviour is about.

*store*: batches of rows (spans, costs, scans, scores) come in in any order and expire.
The materialized views are folds of each inserted row into its root's rollup
(`TraceStore`).  `TraceList` is `fetch_traces` as operators over the tables: rows are
joined to traces as a set (`JoinAll`), `Precedes` is the `ORDER BY`, `Ahead` how many
rows come before one, so `Cut` is `LIMIT` and `OFFSET`, and `InOrder` the list; `FastPage`
and `SlowPage` are the two query plans.  The code sorts by one column, and rows that are
equal in it (`Leads` neither way) come in any order, in each query in one of its own: a
query takes one of the orders in `Ties`.  The comments at `queries.py:284-286` and
`318-325` call the two plans equivalent; they are for every query but the list of a model's
calls, which names a column of the costs (line 134) that the plan which cuts first has not
joined yet, so that ClickHouse refuses it (`Unanswered`).  `Dashboards` is the monitor, the agents, the
spending and the judges' usage.  `RowsAddUp` says that what is rolled up, charted and
billed is the sum of the rows, `QueueIsRight` what the reviewers' queue, matrix and
agreement show of them; `ReadsAgree` compares the lists and pages with each other, and
says what the pages of an import hold of them (`ExamplesAsk`, `ImportsWhole`).

*labels*: overlapping requests stamp a row and insert it later; `Final` is the row that
the table's engine keeps.

*review*: feedback, annotations, and the rubric's answers, each answer an insert of its
own that may be refused or fail (`Review`); `ReviewQueue` is the queue, the matrix and
`judge_agreement` over them.  `QueueRight` says what is in the queue and what comes before
what, the zeros of the `LEFT JOIN` and of texts included; that its docstring says otherwise
is the run `QueueLead`.  In the judges' usage `UsageAddsUp` says what the column beside the
tokens counts: traces by evaluator, although the comment at `queries.py:413` calls them
"distinct messages, not rows".

*examples*: an import reads what the dataset has, pages through an agent's runs, pins
the spans of each and inserts all at the end, while spans come and expire.  Linking is to
"import ALL of its runs" (`routes/datasets/__init__.py:2288`); `ImportsWhole` says which it
may miss: one that ties with another, so that one page after another shows the other
twice, one that an expiry shifted, or one beyond the cap.

What the three promise together is `LastWordStands`: what a label shows
(`LabelsShowLastWord`), how many questions a rubric has (`RubricHolds`), which rows a
review has (`ReviewsAccounted`) and what an example keeps (`ExamplesStand`).

*code*, *remote*: pushes and local runs find things by name, with names unique as
written and looked up without regard to case; servers register offers and poll, and a
restart of the API forgets both.  A name stands for two datasets (`apart`) once it was
created in two spellings: by hand (`CreateDataset`), by one file that has both, which is
looked up once for all, or by requests that overlapped.  Read before its first batch a
local run completes empty; one that has items never completes, since nothing counts its
generations, and `finish_local_run` changes nothing, though its docstring
(`routes/resources/__init__.py:417-419`) speaks of a report that stops waiting: the run
`LocalReport`.  A request for a remote eval remembers the server whose registration was in
force (`by`); any server may take it.

*compare*: the summaries, the report with trials folded (`FoldTrials`), the comparison of
two runs (`Movements`) and of many (`Matrix`), over result rows that come in at any
time; an operator that depends on the order of rows, which no query gives, takes the
`way` it was read as a parameter.  `ComparedTheSame` gives the condition under which every
read agrees (no trials and no repeated results).

Averages are fractions, so that nothing is rounded: over rows and over the trials of an
example a sum and a count, and in a comparison parts of a `Scale` that means of up to
four scores of four divide.  NaN and None are one value; a
correlation is exact for as many rows as there are.  Left out: latency, previews, models
and comments, filters by integration and key, media offloaded to S3, and text.

## Runs

| run | instance | shows |
|---|---|---|
| `DatasetRun` | 2 examples, 1 source trace, 2 list requests that keep polling, or one and a report, 1 permit, 1 fault, 1 deletion, fairness | the safety properties in every interleaving; of a run read by the list, refinement of `RunLifecycle` and one stable summary; that a run settles |
| `DatasetRunReport` | 1 example, 1 report | violated: a report finalizes a run whose items are not in yet |
| `SecureCheck` | 2 requests out of 7 tickets, 2 processes, 2 organizations, 1 fault, fairness | tenant isolation, hard blocks, failing closed, termination |
| `SecureCheckRace` | 1 check | violated: a reply is read before its request is registered |
| `LiveTraces` | 2 traces, 1 evaluated, 1 dashboard, a queue of 2, 1 fault | bounded queues in order, no trace missed by a page and a stream together, a page that loses only ended runs |
| `PromptHistoryOverlap` | 2 requests | violated: overlapping edits lose a version |
| `Workspace` | 3 requests of mixed kinds on 3 users, 3 organizations, 2 invitations, codes, tokens and keys; or 3 requests on one prompt | owners, one-shot tokens and trials, current organizations and paid plans stand, but for what the properties name; versions are whole, lost only by overlap, restored faithfully |
| `Settings` | 3 requests in 2 processes, 3 rules of which 2 are allowed; 3 deliveries to 2 organizations; 3 editors of one prompt; 3 callers of 3 keys; one judged answer or 2 or 3 compared ones | copies agree with rows, ingest answers for what it published, no alert is unaccounted for, versions are one text, verdicts are about their own key, the gate follows its judges |
| `Observability` | 4 spans in 5 batches, 7 queries; 3 labellers; 3 reviewers; imports of one page each; 3 scripts; 2 servers; 9 results of 3 runs | every read of the same rows agrees and is what they say, the last word stands, code runs and remote evals are accounted for, comparisons do not contradict each other |
| `GateFailsOpen` | one judged answer | violated: a judge that could not be reached fails the answer |
| `QueueLead` | as `Observability` | violated: a run nobody scored comes before one a person found bad |
| `LocalReport` | as `Observability` | violated: a report finds every item of a local run graded and does not complete it |

The six violated properties are what comments and docstrings of the code say; each
finding in `PROJECT.json` quotes its line.

**Bounds.** `MaxFaults`, `MaxDeletes` and the finite sets of items, readers and requests
are the only bounds; no counter is cut off elsewhere.  Two items and one permit are what
it takes for a coroutine to wait behind another, for one of two generations to fail, and
for two examples to share a source trace.  Two readers are what it takes for one to
finalize on a snapshot older than the other's; `Askings` has two of the list, which keep
polling, and one of each kind.  Two requests in `SecureCheck` are enough
for a reply to reach the wrong one, on its own process or on the other; one fault
suffices because each of its guarantees is about the first thing that goes wrong, and
the request that is not faulted runs beside it.  Three requests on a prompt allow an
edit to overlap another and a restore to follow.  In `LiveTraces` two traces tell an entry
that is evicted from one that stays, and a queue of two has an order and overflows at the
third message.  Where the theorems below cover a property, the bounds do not matter to it.

In `Workspace` three requests are what it takes for two to overlap and a third to come
after; a behaviour is about accounts or about the prompt (`busy`), which have no table in
common, and deals the requests on accounts a mix of kinds (`MCStarts`) in every way.
Where two of them are about organizations, the guest may have founded a third one before
(`founded`): with three there is one to leave, one to be moved to, and one that is taken
away meanwhile.  In `Settings`
one request reads while two write, or one ingests while one writes, about one of four
subjects; `Window` and `MinSamples` of 2 make a rate alert possible with three
deliveries; `MaxVersion` of 4 allows two edits after a shipment, a reset and a save;
three candidates are the fewest that are ranked.  The thresholds 0, 5 and the default 7
and the answers below, between and above them, with one that is no number and one that
does not come, reach every outcome of the gate.  In `Observability`, of the spans that are there at first two came in at one time,
another later and one that ties with it may follow; `Ties` has an order, its reverse, and
one that mixes them; `Number` has a value in the range of a slider and one beyond.  At
most `MaxBusy` scripts are half-way through a request at a time.  The code's limits are
scaled down so that they are met: `MinLabelled` 2 for 10, `ImportPage` 1 for 200,
`ImportCap` 2 for 2000, `PinLimit` 2 for 500, `BatchSize` 2.  `MaxRows` 4 and `MaxScans`
2 let a root have two spans, two scores and a scan come in out of order; every verdict
of `judge_agreement` but "mixed" is reached.  Nine result rows over three runs have an
example with trials, a trace shared by two runs, and a metric that came twice.

The seven queries are those that take each of the plans, sorts and filters of the list of
traces; of each, one page is asked for (`Pages`) that has rows before and after it, and
the whole list.  `MaxResults` 2 is a batch that ends half way, or two of one result each
that overlap.

The passing runs have between 0.4 and 2.5 million distinct states: LiveTraces 2,490,656,
DatasetRun 1,259,308, Workspace 675,058, SecureCheck 533,764, Observability 428,679 and
Settings 401,150; each ends within a few minutes on two workers.  The violation runs stop
at their counterexample, after at most some 100,000 states.

**Deadlock** is not checked: every run ends when its launch, readers or requests
are done, as the service does when nobody calls it.

**Fairness.** `FairSpec` of `DatasetRun` asks that the launch, each coroutine and
each reader go on when they can (asyncio runs what is ready), that a worker takes
its job some time (Kafka redelivers until it is committed), and that the list is
polled again (the dashboard does).  Losses stay possible: `Pinned` names the
states from which the code gives no guarantee.  `FairSpec` of `SecureCheck` asks
only that a request goes on when it can and that its timer fires: nothing is assumed
of workers and consumers.  `Workspace`, `Settings` and `Observability` check safety only
and state no fairness: what must come to an end in them is one request, whose steps the
event loop runs, or is promised by nothing (an alert Slack refuses, a local run).

**Symmetry** permutes items, source traces, readers, requests, processes and
organizations in safety runs only; the runs with liveness properties use none.  In
`Workspace` and `Settings` the initial states deal their mixes in every way, so that
they are symmetric too.

## Proofs

`DatasetRunProofs` proves, for any sets of items, readers and kinds and any number
of faults and deletions:

| theorem | statement |
|---|---|
| `TypeCorrect` | `Spec => []TypeOK` |
| `CountersCorrect` | `Spec => []CountersMatchItems` |
| `CompleteRunsAreSettled` | `Spec => []SettledWhenComplete` |
| `SummariesAddUp` | `Spec => []SummaryAccountsForItems` |
| `ListIsGuarded` | `Spec => []ListFinalizesWholeRuns` |
| `FreshTracesAttribute` | `Spec => []ResultsAreThisRuns` |
| `SummariesAgree` | of any two finalizations that saw the run's items, the second writes the summary the first wrote |
| `ListOnlyRunsAreWhole` | `Spec => []ListWaitsForEveryResult`: `FinalizedOnceEveryExampleHasResult`, of a run read by the list alone |
| `ListOnlySummariesStay` | `Spec => FinalSummaryStable`, of such a run too |
| `ListOnlyRefinement` | `Spec => ImplementsLifecycle`: such a run implements `RunLifecycle` |

`SettledWhenComplete` is not inductive: `Finalize` writes on the strength of a
snapshot read long before.  The invariant `IInv` says, for each reader that holds
a snapshot, that its items are either none or exactly the present ones, that its
errors are among the recorded ones, and that once it has decided to finalize, its
items are settled now (`ReaderInv`); this rests on what the launch has enrolled
(`EnrolInv`), on which coroutines exist and have recorded (`WorkerInv`), on how
traces are chosen (`TraceInv`) and on the counters being the items counted
(`CountersMatchItems`): a snapshot's `generated` is a lower bound of the recorded
items, so a run that passes the gate had every generation on record.  Cardinality
facts are the lemmas at the head of the module.

That summaries agree rests on one more conjunct: a reader that is about to finalize has
read every failure there is.  Its results and its failures are as many as its items, and
an item that failed has no result, so that a failure it had not read would leave an item
without an outcome.  Once each item has one, no generation is left to fail, and every
later finalization counts the same failures over the same items.  With report readers a
run can still be finalized twice with different totals, over none of its items and over
all of them (the run `DatasetRunReport`), which is why `FinalSummaryStable` is about runs without
them: what a list finalizes is whole, and what an empty launch finalized it does not
look at again.

`PromptHistoryProofs` proves, for any number of requests:

| theorem | statement |
|---|---|
| `TypeCorrect` | `PromptSpec => []PromptTypeOK` |
| `VersionsAreWhole` | `PromptSpec => []NoTornVersions` |
| `LossNeedsOverlap` | `PromptSpec => []LostOnlyByOverlap` |
| `RestoresAreFaithful` | `PromptSpec => RestoreIsFaithful` |

Its invariant adds that the row's version is the largest there has been (`PastInv`)
and that what a request carries, its read row and the body it will write, is a row
the prompt had and the body of the version it looks for (`CarriedInv`).

`LiveTracesProofs` proves, for any traces, dashboards, queue size and number of
faults:

| theorem | statement |
|---|---|
| `TypeCorrect` | `Spec => []TypeOK` |
| `StreamsAreOrdered` | `Spec => []StreamInOrder` |
| `NothingIsMissed` | `Spec => []NoGap` |
| `PagesAreWhole` | `Spec => PageMissesOnlyEndedRuns` |

Its invariant carries `NoGap` back to the moment the rows were read, with the stream
open (`GapInv`), says that only a start is ever about a trace that goes on
(`TopicInv`), and so that what was listed when a page was begun is listed still or
has ended (`PageInv`).  `StreamInOrder` is inductive by itself; the work is in
`OfferedProperties`, that a full queue of the newest messages stays that after one
more.

`SecureCheckProofs` proves, for any requests, processes, organizations, tickets
and number of faults:

| theorem | statement |
|---|---|
| `TypeCorrect` | `Spec => []TypeOK` |
| `VerdictsStayHome` | `Spec => []VerdictOfOwnOrg` |
| `HardBlocksAreFinal` | `Spec => []HardBlockWins` |
| `FailClosedIsClosed` | `Spec => []UnscannedIsBlocked` |

Its invariant follows a reply from the worker to the answer: a message that names an
organization names the one of the prompt it is about (`InboxInv`), so what a check's
consumer accepts into a future (`FutureInv`) is about the check's own organization,
or names none.  A request that will be hard blocked is never past `start` unless it
is done (`HardInv`).

`AccountsProofs` proves, for any users, organizations, invitations, codes, tokens, keys
and requests:

| theorem | statement |
|---|---|
| `AccountsStaySound` | `Spec => []AccountsInv` |
| `OrganizationsKeepAnOwner` | `Spec => []OwnerKept` |
| `NewestStaysAlone` | `Spec => []NewestOnly` |
| `OneShotsAreUsedOnce` | `Spec => []OneShot` |
| `OrganizationsStayIntact` | `Spec => []OrgsIntact` |
| `CurrentOrgsAreMoved` | `Spec => CurrentOrgIsMine` |
| `PaidPlansAreKept` | `Spec => PaidPlanKept` |

None of these is inductive alone.  `AccountsInv` adds that the tables are well typed
(`TablesInv`) and refer only to rows there are (`RefsInv`), that what a request knows is
of the kind its stage needs (`StandsInv`), and for what may be used once, where the use
can still be on its way: at most one request is about to start a user's trial or to
change a password with a code, and then nothing has used it yet (`TrialsInv`,
`SpendInv`); a token that was exchanged is revoked (`TokensInv`).  The lemma
`NextIsForms` says that every step is one of 27 forms (a request moves on and the tables
stay, a row of one table is replaced, an organization goes with all that is its own ...);
each conjunct is then shown over the forms that write a table it reads, not over the
actions.

`SettingsProofs` proves, for any organizations, deliveries, editors, callers, requests,
processes, rules, events and limits:

| theorem | statement |
|---|---|
| `AlertsStayAccounted` | `Spec => []AlertsAccounted` |
| `VerdictsAreOwn` | `Spec => []VerdictOfOwnKey` |
| `JudgeHistoryIsKept` | `Spec => []JudgeHistoryKept` |
| `GradesStayRight` | `Spec => []GradesHold` |
| `CachesStayRight` | `Spec => []CachesHold` |
| `IngestStaysAccounted` | `Spec => []IngestAccounted` |

An alert is in one place at a time, so a step only has to be shown to move it.  A verdict
is followed from the provider to the row through what a caller holds (`HeldInv`): the key
it unsealed is the key of the row it will mark for as long as that row is there, since the
key of a row never changes.  For judge prompts, what an editor has read of the platform's
row still has the default there is (`SavingInv`), and an editor of an organization's has
chosen a version that is free and that no other has chosen (`OverridingInv`), unless
`crossed` names the prompt.

`CachesInv` carries the agreement of copies through the `await` of a lookup: what was
fetched is what is stored, or the lookup is among the `overtaken` (`FetchedInv`), and a
write that has not invalidated yet knows the value it stored, or has been overtaken too
(`SettlingInv`).  `IngestInv` says, for each stage of an ingest, what can have been
published.

`ObservabilityProofs` proves, for any scripts, servers, labellers, reviewers, questions,
spans, messages of judges, results, names and limits:

| theorem | statement |
|---|---|
| `CodeRunsStayAccounted` | `Spec => []CodeRunsAccounted` |
| `PeoplesWordStands` | `Spec => []LastWordStands` |
| `RowsStayAddedUp` | `Spec => []RowsAddUp` |
| `QueueStaysRight` | `Spec => []QueueIsRight` |
| `PagesStayRight` | `Spec => []ReadsAgree` |
| `ReadsStayRight` | `Spec => []ReadsAreRight` |
| `ComparisonsStayRight` | `Spec => []ComparisonsAgree` |

`CodeInv` says what a script's place implies for what it writes next: the dataset it
found has its name (`NameFine`), the batch it sends is of published jobs that no item
records and no other script sends (`SendFine`, `BatchesApart`), and a name that stands for
two datasets, or is about to, is in `apart` (`NamesApart`).  `RemoteInv` says where each
request for a remote eval is, and that it is for what the server it remembers registered.  For labels the invariant is
that stamps are given one by one, so that a request nothing crossed has a newer one than
every row of its label (`LabelsInv`); for a rubric, that a request which adds a question
alone has room for it, and that a question a reviewer goes by keeps its kind
(`RubricInv`); for a review, that its rows are the answers to the first questions of its
order (`ReviewsInv`); for examples, that an import has seen the runs of every import
that did not overlap it, and that what it is about to insert is pinned (`ExamplesInv`);
and for what an import may not miss (`ImportsInv`), that as long as no run expired since
it began, each run that was there and ties with no other has been seen, is on the page it
holds, or has a place at or after the offset it will read next, whatever order ties fall
in: runs that come in are as new or newer and only push the others on.
That a set of stamps has a least element comes from the library's theorem that `<` is
well-founded on the naturals.

`ReadsProofs` holds what the other theorems need of sums.  The library defines the sum
of a function by recursion over its domain, and its induction theorems cannot be used;
but well-foundedness gives a least counterexample, and from that follow the laws of sums
over sets (`SumSolves` and what comes after it): a sum is a natural number, adds an
element, splits in two, can be renamed, and can be grouped by a key.  On them rest

- `RowsAddUp`: the inductive `StoreInv` says of each table which rows it can hold
  (`RowsInv`, `SpansInv`) and that each rollup is the sum of the rows of its root
  (`RollupsFine`), which one lemma a table shows to be kept by what its view folds in;
  the totals of the monitor and the tokens of the judges are then one set of rows
  grouped in two ways;
- `QueueIsRight`: the queue, the matrix and the agreement are functions of the rows in
  `evals`.  That the queue is ordered is a fact about ranks: a finite set of which each
  element is as many places from the start as there are elements before it is listed
  without gaps (`Ranked`).  The agreement needs that texts weigh nothing (`TextsInv`) and
  that rows of the chart are those of messages and people (`ChartInv`);
- `ReadsAgree`, by the same fact about ranks: the rows of a list are put in the places
  `Ahead` gives them, so a page is a part of the list whichever plan makes it
  (`PagesAreCut`).  The plan that cuts first needs that a trace has one row, which is
  where `ScannedOnce` comes in.  That no failure is hidden and that what is counted is
  listed (`AllSurface`, `AllCounted`) are then facts about the rows;
- `ComparisonsAgree`: the results are finitely many of the known rows (`ResultsKnown`).
  Everything else is about the operators: a mean does not depend on the way rows are
  listed, what the comparison of two runs says one way it says mirrored the other way
  (`TwoMirror`), the matrix of two runs says what the comparison says (`ManyAgree`), and
  trials that are folded into their example add up to the summary of the run
  (`FoldsAddUp`).

**Assumptions.** They are the ASSUMEs of the modules, each named where the constant is
declared and evaluated by TLC on every run that uses it.  They say that a set the code
counts is finite; that a constant is of the type its comment gives; that names which the
code tells apart are apart (an absent row is no row, `NULL` is no kind, identifiers of
two tables do not meet); that a limit, a score and a cost are natural numbers; that the
average of no rows is not one of some, a judge is no person, and an import's page has room
for a run; that a span is filed under the run of its parent, as tracers do; and that what a
behaviour begins with is of the tables' types and within the limits (`StartsAssumption`,
`BeginningsAssumption`, `BeforeAssumption`).  Datasets that are there at first may have one
name in two spellings, since the dashboard creates them so; only two in one spelling are
excluded, as the table does.  No theorem has another hypothesis.

**Only model-checked.**

- `EventuallySettles` and `EveryRequestEnds`: liveness under fairness needs ENABLED,
  which they do not support.

Every other invariant and action property that a passing run checks is the statement of a
theorem.

## Not modelled, and the plan

Not modelled, because there is nothing in it a model checker would decide:

- administration, blog, leads, contact, demo, models and audit are one statement or one
  external call per request (what an administrator changes of accounts and tiers is in
  `Organizations` and `Plans`);
- connectors and the OpenTelemetry conversion turn one payload into another; the code
  scorer interprets expressions over Python values;
- clients, e-mail, object storage and ciphers are I/O;
- saved views and composite scores are one statement or a function of one list.

Left out of parts that are modelled: the text of prompts, examples and messages;
latencies; the agentic evaluation, the tracer, the security worker and the auto-append to
linked agents, which run in other repositories and are external actions; scorer
settings and the reports for CI of a run; the authentication before a check.

Next:

1. the relations between parts: an abstract specification of a cached setting and of a
   label, with the refinement steps from the invariants already proved;
2. liveness of the digests by TLC: an alert kept is posted or lost with its process.
