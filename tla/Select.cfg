SPECIFICATION ReadSpec
CONSTANTS
  Parts = {"pages", "clause"}
  RCU = 1
  WCU = 1
  Second = 2
  Keys <- MCKeys
  Contents <- MCContents
  Absent <- MCAbsent
  MaxPos <- MCMaxPos
  BasePos <- MCBasePos
  IndexPos <- MCIndexPos
  Commands <- MCAll
  Units = {0, 3}
  MaxForeign = 1
  MaxIdle = 1
  Texts <- AllTexts
  Rare <- RareTexts
  MaxTexts = 3
  MaxMarks = 2
CHECK_DEADLOCK FALSE
INVARIANTS
  RowsExact
  NoItemTwice
  ConsistentRowsHeld
  TreeFaithful
  SelectFaithful
  
  RequestsLegal
