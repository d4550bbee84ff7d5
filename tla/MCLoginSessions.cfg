SPECIFICATION FairSpec
CONSTANTS
  b1 = b1
  t1 = t1
  t2 = t2
  None = None
  Browsers = {b1}
  Tabs = {t1, t2}
  MaxSessions = 2
  MaxTokens = 2
  MaxFaults = 1
  MaxEnds = 1
INVARIANTS LineageAgrees AnswersAreTrue EndsForCause
PROPERTIES PagesSettle
CHECK_DEADLOCK FALSE
