SPECIFICATION FairSpec
CONSTANTS
  Sessions = {s1, s2}
  Commands <- AllCommands
  Items = {"paint", "brush"}
  Opening <- TwoEach
  MaxSubmits = 4
INVARIANTS StockIsSold SoldIsScanned AnswersAreTrue TillsExclusive NumbersGapless OrdinalsDistinct
PROPERTIES ClosedTillFrozen CheckoutIsWhole CommandsEnd
CHECK_DEADLOCK FALSE
