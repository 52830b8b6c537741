SPECIFICATION Spec
CONSTANTS
  c1 = c1
  c2 = c2
  c3 = c3
  r1 = r1
  r2 = r2
  Calls <- ThreeCalls
  Regs <- OneReg
  MaxGrants = 1
  MaxFaults = 0
  MaxOutside = 0
  OneAtATime = FALSE
INVARIANTS
  InvalidGrantMeansDead
SYMMETRY Symmetry
CHECK_DEADLOCK FALSE
