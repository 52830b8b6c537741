SPECIFICATION FairSpec
CONSTANTS
  i1 = i1
  i2 = i2
  k1 = k1
  k2 = k2
  Instances <- TwoInstances
  Keys <- TwoKeys
  FirstKey = k1
  Skew <- MCSkew
  AuthStateTTL = 1
  MaxRegs = 1
  MaxAge = 3
  MaxFaults = 1
INVARIANTS
  TypeOK
  AckWasServed
  StateAgeBounded
  LostToTheDeployment
PROPERTIES
  Connects
CHECK_DEADLOCK FALSE
