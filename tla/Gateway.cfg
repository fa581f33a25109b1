\* Three requests, locks that expire, one that dies.
CONSTANTS
  Tasks = {t1, t2, t3}
  Limit = 1
  MaxTokens = 3
  MaxFaults = 1
  None = None
SPECIFICATION Spec
INVARIANTS LimitHolds OneRefresher
PROPERTY NewerTokensStay
SYMMETRY Symmetry
