CONSTANTS
  Names <- MCNames
  Values <- MCValues
  Anchored <- MCAnchored
  Plans <- AllPlans
  Passes = {p1, p2}
  NoRow = NoRow
  MaxRows = 3
  MaxEdits = 1
  MaxFaults = 1
SPECIFICATION Spec
INVARIANTS TypeOK PublishedWasTrue PublishedStands OneRowPerRecord
PROPERTY ImplementsContract
CHECK_DEADLOCK FALSE
SYMMETRY Symmetry
