\* One check on one replica, no failures.
SPECIFICATION Spec
CONSTANTS
  r1 = r1  p1 = p1  p2 = p2  o1 = o1  o2 = o2  noorg = noorg  noreply = noreply
  Requests = {r1}
  Replicas = {p1}
  Orgs = {o1}
  NoOrg = noorg
  NoReply = noreply
  Tickets <- CleanCheck
  FailClosed = TRUE
  MaxFaults = 0
INVARIANT NoReplyBeforeRegistration
CHECK_DEADLOCK FALSE
