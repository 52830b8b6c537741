SPECIFICATION Spec
CONSTANTS
  v1 = v1
  v2 = v2
  Kinds = {"keyset", "oauth", "edge", "dcv", "reach"}
  Values <- TwoValues
  SuccessTTL = 3
  FailureTTL = 2
  MaxTime = 8
  MaxChanges = 3
INVARIANTS
  TypeOK
  CurrentServed
  WithdrawnNotServed
PROPERTIES
  BlipKeepsServing
  FailuresSpaced
CHECK_DEADLOCK FALSE
