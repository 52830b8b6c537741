SPECIFICATION Spec
CONSTANTS
  c1 = c1
  c2 = c2
  c3 = c3
  r1 = r1
  r2 = r2
  Calls <- ThreeCalls
  Regs <- TwoRegs
  MaxGrants = 2
  MaxFaults = 3
  MaxOutside = 2
  OneAtATime = TRUE
INVARIANTS
  TypeOK
  StoredIsCurrent OwnGrantOnly
PROPERTIES
  ImplementsCustody
SYMMETRY Symmetry
CHECK_DEADLOCK FALSE
