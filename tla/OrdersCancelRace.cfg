\* A cancel beside the task that places the order, no crash, no recovery.
CONSTANTS
  Orders = {o1}
  Brokers = {b1}
  Placers = {p1}
  Cancellers = {c1}
  Scanners = {}
  MaxInflight = 1
  MaxScans = 0
  MaxCrashes = 0
  None = None
SPECIFICATION Spec
CHECK_DEADLOCK FALSE
INVARIANT NeverReachedBroker
