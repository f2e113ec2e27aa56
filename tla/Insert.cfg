SPECIFICATION Spec
CONSTANTS
  RCU = 1
  WCU = 1
  Second = 2
  Keys <- MCKeys
  Contents <- MCContents
  Absent <- MCAbsent
  Commands <- MCAll
  Units = {0, 3}
  MaxForeign = 2
  MaxIdle = 1
CHECK_DEADLOCK FALSE
INVARIANTS
  TokensAreRows
  TableIsRows
PROPERTY
  ImplementsRowwisePut
