\* One item and one report request, no failures.
SPECIFICATION Spec
CONSTANTS
  i1 = i1    s1 = s1  none = none  rp = rp  
  Items = {i1}
  SourceTraces = {s1}
  NoTrace = none
  Kinds = {"metrics"}
  ReportReaders = {rp}
  ListReaders = {}
  Askings = {{rp}}
  Concurrency = 1
  MaxFaults = 0
  MaxDeletes = 0
INVARIANT FinalizedOnceEveryExampleHasResult
CHECK_DEADLOCK FALSE
