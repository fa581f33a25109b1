\* Both drainers, one fault and one failing publish call.
CONSTANTS
  Events = {1, 2}
  Aggregates = {a1, a2}
  Limit = 2
  RingSize = 2
  MaxFaults = 1
  MaxFailures = 1
SPECIFICATION FairSpec
CHECK_DEADLOCK FALSE
INVARIANTS TypeOK SentIsOnBus AggregateInOrder FeedCountsOnce
PROPERTY AtLeastOnce
