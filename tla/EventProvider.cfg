\* Two activations under the loops of a process, whichever it is.
CONSTANTS
  Admins = {a1}
  Loops = {l1}
  Drains = {d1}
  Consumers = {c1}
  MaxConfigs = 2
  MaxFailures = 1
SPECIFICATION FairSpec
INVARIANTS TypeOK CacheIsOpen UsesTheRowRead
PROPERTY LoopsCatchUp
