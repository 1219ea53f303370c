\* One judge that may be out of reach, and nothing else going on.
SPECIFICATION Spec
CONSTANTS
  r1 = r1 r2 = r2 r3 = r3 x1 = x1 x2 = x2 x3 = x3
  default = default named = named
  k1 = k1 k2 = k2 k3 = k3
  Requests = {r1, r2, r3}
  Procs = {p1, p2}
  Rules = {x1, x2, x3}
  Absent = absent
  MaxRules = 2
  Drafts <- MCDrafts
  Events <- MCEvents
  Starts <- MCNoStarts
  Stored <- MCStored
  Asked <- MCAsked
  Deliveries = {}
  Orgs = {o1, o2}
  Window = 2
  MinSamples = 2
  FailureRate = 50
  Idle = idle
  Editors = {}
  Names = {n1}
  Templates = {t1, t2}
  None = none
  MaxVersion = 4
  Callers = {}
  Nodes = {p1, p2}
  MaxCreated = 3
  ApiKeys = {k1, k2, k3}
  ProviderOf <- MCProviderOf
  Nil = nil
  Gone = gone
  BuiltIn = {"metric"}
  Slugs = {"metric", "house"}
  Limits = {0, 5}
  DefaultLimit = 7
  Replies <- MCReplies
  Candidates = {"a", "b", "c"}
  NoOne = noone
INVARIANT UnreachableJudgesFailNothing
CHECK_DEADLOCK FALSE
