SPECIFICATION Spec
CONSTANTS
  Keys <- MCKeys
  Contents <- MCContents
  Having <- MCHaving
  Absent <- MCAbsent
  Transactions <- MCTransactions
  MaxForeign = 1
CHECK_DEADLOCK FALSE
INVARIANTS
  WholeRequest
  NotGivenUp
PROPERTIES
  KeepsPromise
