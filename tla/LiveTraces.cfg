\* Two traces, one of them evaluated, and one dashboard; a queue of two messages.
SPECIFICATION Spec
CONSTANTS
  t1 = t1  t2 = t2  d1 = d1
  Traces = {t1, t2}
  Scored = {t1}
  Dashboards = {d1}
  QueueSize = 2
  MaxFaults = 1
INVARIANTS TypeOK NoGap StreamInOrder
PROPERTY PageMissesOnlyEndedRuns
CHECK_DEADLOCK FALSE
