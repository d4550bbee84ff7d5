SPECIFICATION FairSpec
CONSTANTS
  d1 = d1
  d2 = d2
  inv = inv
  w1 = w1
  w2 = w2
  Deliveries = {d1, d2}
  Parents = {inv}
  ParentOf <- Resent
  Drains = {w1, w2}
  MaxAttempts = 2
  Limit = 2
  MaxCrashes = 1
  None = None
CHECK_DEADLOCK FALSE
INVARIANTS
  SentHasArrived
  ParentMirrors
PROPERTIES
  EveryDeliverySettles
