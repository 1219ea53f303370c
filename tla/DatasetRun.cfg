\* Two items under fairness; two list requests that keep polling, or a report and
\* a list request, race the launch and the coroutines.
SPECIFICATION FairSpec
CONSTANTS
  i1 = i1  i2 = i2  s1 = s1  none = none  rp = rp  l1 = l1  l2 = l2
  Items = {i1, i2}
  SourceTraces = {s1}
  NoTrace = none
  Kinds = {"metrics", "agentic"}
  ReportReaders = {rp}
  ListReaders = {l1, l2}
  Askings = {{l1, l2}, {rp, l1}}
  Concurrency = 1
  MaxFaults = 1
  MaxDeletes = 1
INVARIANTS TypeOK CountersMatchItems SettledWhenComplete SummaryAccountsForItems ListFinalizesWholeRuns ResultsAreThisRuns ListWaitsForEveryResult
PROPERTIES FinalSummaryStable ImplementsLifecycle EventuallySettles
CHECK_DEADLOCK FALSE
