\* Placing, cancelling and recovery overlap, commits fail, one crash.
CONSTANTS
  Orders = {o1}
  Brokers = {b1, b2}
  Placers = {p1, p2}
  Cancellers = {c1}
  Scanners = {s1}
  MaxInflight = 1
  MaxScans = 1
  MaxCrashes = 1
  None = None
SPECIFICATION Spec
CHECK_DEADLOCK FALSE
SYMMETRY Symmetry
INVARIANTS TypeOK InflightBalanced AtMostOneAccepted EventsMatchAttempts LastEventTellsStatus RowNamesItsBroker CancelledNotLive
PROPERTY SubmittedIsSettled
