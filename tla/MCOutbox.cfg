SPECIFICATION FairSpec
CONSTANTS
  Events = {e1, e2}
  Calls = {c1, c2}
  MaxAttempts = 2
  BatchSize = 2
  MaxCrashes = 1
CHECK_DEADLOCK FALSE
INVARIANTS
  PublishedWasDelivered
  DeadWasRefused
PROPERTIES
  EveryEventEnds
