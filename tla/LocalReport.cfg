SPECIFICATION Spec
CONSTANTS
  t1 = t1 t2 = t2 t3 = t3 t4 = t4 b1 = b1 b2 = b2 b3 = b3 b4 = b4 b5 = b5
  Nothing = nothing
  Labellers = {r1, r2, r3}
  Labelled = {t1, t3}
  Tags = {"vip"}
  Spans = {t1, t2, t3, t4}
  SpanOf <- MCSpanOf
  Batches = {b1, b2, b3, b4, b5}
  BatchOf <- MCBatchOf
  MaxRows = 4
  MaxScans = 2
  MaxTime = 1
  Queries <- MCQueries
  Pages <- MCPages
  Ties <- MCTies
  Reviewers = {r1, r2, r3}
  Keys = {"k1", "k2"}
  Fields <- MCFields
  Answers = {"true", "half", "twelve"}
  Number <- MCNumber
  MaxFields = 1
  Metrics = {"quality"}
  MinLabelled = 2
  Before <- MCBefore
  Agent <- MCAgent
  ImportPage = 1
  ImportCap = 2
  PinLimit = 2
  MaxAtOnce = 2
  Scripts = {r1, r2, r3}
  Folded <- MCFolded
  Pushes <- MCPushes
  LocalEvals <- MCLocalEvals
  Opened <- MCOpened
  Slugs = {"s"}
  BatchSize = 2
  MaxRequests = 3
  MaxBusy = 2
  MaxResults = 2
  Nil = nil
  Servers = {v1, v2}
  Offers = {{"a"}, {"b"}}
  MaxTriggers = 2
  MaxRegistered = 3
  Members <- MCMembers
  ResultRows <- MCResultRows
  Noise = 1
  None = none
SYMMETRY Symmetry
CHECK_DEADLOCK FALSE
INVARIANT ReportCompletesGraded
