\* Rotation beside the other operations, one broker, a fault at any step; every
\* request returns.
CONSTANTS
  Brokers = {b1}
  Ips = {i1, i2}
  Instances = {n1}
  Orders = {o1}
  Tasks = {t1, t2}
  Ops = {"allocate", "assign", "attach", "rotate", "destroy"}
  Forces = {TRUE, FALSE}
  LocksExpire = FALSE
  MaxAssignments = 3
  MaxFaults = 1
  None = None
  Lost = Lost
SPECIFICATION FairSpec
INVARIANTS OneActivePerBroker DrainingIsResolved
PROPERTIES NewIpSettled EveryRequestReturns
