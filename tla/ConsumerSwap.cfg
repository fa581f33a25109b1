\* The publisher loop and the consumer loop of the worker see a new version.
CONSTANTS
  Admins = {a1}
  Loops = {l1}
  Drains = {}
  Consumers = {c1}
  MaxConfigs = 2
  MaxFailures = 0
SPECIFICATION Spec
INVARIANT ConsumerIsSubscribed

