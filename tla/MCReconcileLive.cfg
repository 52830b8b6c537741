CONSTANTS
  Names <- MCAnchored
  Values <- MCValues
  Anchored <- MCAnchored
  Plans <- OnePlan
  Passes = {p1}
  NoRow = NoRow
  MaxRows = 5
  MaxEdits = 1
  MaxFaults = 1
SPECIFICATION RepeatSpec
PROPERTIES EveryCallEnds Convergence
CHECK_DEADLOCK FALSE
