\* Two accounts, two regions, two changes, and probes one by one, in any order.
CONSTANTS
  Brokers = {b1, b2}
  Regions = {ewr, lax}
  Priorities = {10, 20}
  Latencies = {0, 150}
  IpScores = {20, 100}
  Thresholds <- TwoThresholds
  Limit = 2
  MaxChanges = 2
  None = None
SPECIFICATION Spec
PROPERTIES DecisionIsRight FaultsSteerRoutes
