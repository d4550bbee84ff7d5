SPECIFICATION Spec
CONSTANTS
  r1 = r1
  r2 = r2
  None = None
  Requests = {r1, r2}
  Commands <- MCCommands
  Invoices <- MCInvoices
  CreditIds = {"k"}
  Base = "base"
  Rates <- MCRates
  Accounts = {"cash", "bank"}
  World0 <- MCWorld
  MaxSent = 4
  MaxChanges = 1
INVARIANTS BooksMatchBalances ChainsVerify AnswersAreTrue NoDeadlock
PROPERTIES ImplementsReceivables
CHECK_DEADLOCK FALSE
