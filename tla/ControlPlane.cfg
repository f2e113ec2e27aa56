SPECIFICATION SessionSpec
CONSTANTS
  Commands <- AllCommands
  Sessions <- AllSessions
  Tables <- TheTables
  Mine = "t"
  Backups <- TheBackups
  Attributes = {"x", "y"}
  Timeout = 6
  Cap = 4
  MaxOthers = 2
  MaxErrors = 1
CHECK_DEADLOCK FALSE
INVARIANTS
  ReportIsTrue
  BudgetKept
  WaitPays
  ListingExact
  ReportsItsEffect
PROPERTIES
  SessionReturns
