SPECIFICATION Spec
CONSTANTS
  RCU = 0
  WCU = 0
  Second = 2
  Keys <- MCKeys
  Contents <- MCContents
  Absent <- MCAbsent
  MaxPos <- MCMaxPos
  BasePos <- MCBasePos
  IndexPos <- MCIndexPos
  Commands <- MCTopLevelOr
  Units <- MCUnits
  MaxForeign = 1
  MaxIdle = 0
CHECK_DEADLOCK FALSE
PROPERTIES
  UpdateOnlyMatching
