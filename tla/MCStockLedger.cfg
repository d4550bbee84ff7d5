SPECIFICATION FairSpec
CONSTANTS
  Scale = 4
  QtyLimit = 4
  ValueLimit = 40
  CostLimit = 40
  None = None
  Sessions = {s1, s2}
  Warehouses = {1, 2}
  Variants = {1, 2}
  Commands <- Documents
  MaxSubmits = 4
CHECK_DEADLOCK FALSE
INVARIANTS
  LevelsLawful
  TransfersConserve
  BooksMatchStock
PROPERTIES
  ImplementsAtomicStock
  CommandsEnd
