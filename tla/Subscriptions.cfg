\* Two subscriptions of one client, one instance, the worker and one request.
CONSTANTS
  Subs = {s1, s2}
  Clients = {c1}
  Instances = {i1}
  Windows <- FromTheStart
  Modes = {"SUSPEND", "DESTROY"}
  Boot = "pending"
  Worker = worker
  ApiRuns = {api1}
  MaxTime = 1
  MaxRequests = 3
  MaxFaults = 1
  None = None
SPECIFICATION FairSpec
CHECK_DEADLOCK FALSE
INVARIANTS TypeOK ExpiryIsAllOrNothing
PROPERTIES TeardownIsComplete ExpiryIsEnforced
