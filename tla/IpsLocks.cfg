\* Two requests at a time and a crash, no rotation.
CONSTANTS
  Brokers = {b1, b2}
  Ips = {i1, i2}
  Instances = {n1}
  Orders = {}
  Tasks = {t1, t2}
  Ops = {"allocate", "assign", "attach", "detach", "release", "destroy"}
  Forces = {}
  LocksExpire = FALSE
  MaxAssignments = 2
  MaxFaults = 1
  None = None
  Lost = Lost
SPECIFICATION Spec
SYMMETRY Symmetry
INVARIANTS TypeOK OneActivePerBroker HistoryMatches ActiveIpUsable InstanceIffAttached ProviderAgrees
PROPERTY NoReuseInCooldown
