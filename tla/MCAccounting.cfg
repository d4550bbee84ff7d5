SPECIFICATION Spec
CONSTANTS
  Sessions = {s1, s2}
  Commands <- BookCommands
  Sources = {"a", "o", "d", "e"}
  Currencies = {"ILS"}
  MaxSubmits = 5
  HasHistory = TRUE
INVARIANTS TopologyHolds RepeatsAreAnswered
PROPERTIES ClosedBooksFinal OperationsOnce
CHECK_DEADLOCK FALSE
