SPECIFICATION FairSpec
CONSTANTS
  RCU = 2
  WCU = 1
  Second = 2
  Keys <- MCKeys
  Contents <- MCContents
  Absent <- MCAbsent
  MaxPos <- MCMaxPos
  BasePos <- MCBasePos
  IndexPos <- MCIndexPos
  Commands <- MCAll
  Units <- MCUnits
  MaxForeign = 1
  MaxIdle = 1
CHECK_DEADLOCK FALSE
INVARIANTS
  ReportIsExact
  NoMatchMissed
  ExplainIsDry
  RateRespected
PROPERTIES
  UpdateOnlyMatching
  ImplementsItemwiseWrite
  Terminates
