\* Recovery overlaps two requests for one order, one crash; everyone returns.
CONSTANTS
  Orders = {o1}
  Brokers = {b1, b2}
  Placers = {p1, p2}
  Cancellers = {}
  Scanners = {s1}
  MaxInflight = 1
  MaxScans = 1
  MaxCrashes = 1
  None = None
SPECIFICATION FairSpec
CHECK_DEADLOCK FALSE
INVARIANTS RowBackedByAttempt FailoverTrail
PROPERTY EveryRequestReturns
