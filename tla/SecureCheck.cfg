\* Two requests of any of the kinds, of two organizations, on two replicas.
SPECIFICATION FairSpec
CONSTANTS
  r1 = r1  r2 = r2  p1 = p1  p2 = p2  o1 = o1  o2 = o2  noorg = noorg  noreply = noreply
  Requests = {r1, r2}
  Replicas = {p1, p2}
  Orgs = {o1, o2}
  NoOrg = noorg
  NoReply = noreply
  Tickets <- SomeTickets
  FailClosed = TRUE
  MaxFaults = 1
INVARIANTS TypeOK VerdictOfOwnOrg HardBlockWins UnscannedIsBlocked
PROPERTY EveryRequestEnds
CHECK_DEADLOCK FALSE
