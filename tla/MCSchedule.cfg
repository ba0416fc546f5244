CONSTANTS
  MaxTime = 100
  Intervals = {1, 3, 4, 5, 8}
  Anchors = {0, 2, 7}
  Genesis = {1, 6, 30}
  Periods = {1, 3}
  LastOpening = 20
SPECIFICATION Spec
INVARIANTS
  ClosesAtFirstUsable
  FirstBeaconAfterClose
CHECK_DEADLOCK FALSE
