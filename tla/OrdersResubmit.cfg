\* Recovery of an order that another task submits, or whose acceptance is lost.
CONSTANTS
  Orders = {o1}
  Brokers = {b1}
  Placers = {p1}
  Cancellers = {}
  Scanners = {s1}
  MaxInflight = 1
  MaxScans = 1
  MaxCrashes = 1
  None = None
SPECIFICATION Spec
CHECK_DEADLOCK FALSE
INVARIANT ResubmitIsIdempotent
