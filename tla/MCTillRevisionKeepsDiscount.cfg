SPECIFICATION Spec
CONSTANTS
  Sessions = {s1, s2}
  Commands <- CartCommands
  Items = {"paint", "brush"}
  Opening <- ManyEach
  MaxSubmits = 5
PROPERTIES RevisionKeepsDiscount
CHECK_DEADLOCK FALSE
