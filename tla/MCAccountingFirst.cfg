SPECIFICATION FairSpec
CONSTANTS
  Sessions = {s1, s2}
  Commands <- FirstCommands
  Sources = {"a", "b", "d", "e", "o", "p"}
  Currencies = {"ILS", "JOD"}
  MaxSubmits = 3
  HasHistory = FALSE
INVARIANTS OnePerSource BooksInOneCurrency
PROPERTIES CommandsEnd
CHECK_DEADLOCK FALSE
