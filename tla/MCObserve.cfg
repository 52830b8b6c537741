SPECIFICATION FairSpec
CONSTANTS
  r1 = r1
  r2 = r2
  r3 = r3
  Vantages <- ThreeVantages
  Liars <- OneLiar
  Threshold = 2
  Keys <- MCKeys
  Type <- MCType
  Values <- MCValues
  Wanted <- MCWanted
  Start <- MCStart
  MaxInFlight = 1
  MaxChanges = 1
  MaxFaults = 1
INVARIANTS
  TypeOK
  ReadingWasTrue
  AgreementDecides
PROPERTIES
  ReportEnds
CHECK_DEADLOCK FALSE
