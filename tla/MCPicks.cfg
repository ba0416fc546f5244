CONSTANTS
  MaxByte = 4
  MaxIterations = 5
  MaxNumbers = 5
SPECIFICATION PickSpec
INVARIANTS
  PickedWell
  AbortsOnlyOnFullDomain
  AcceptsExactlyTickets
PROPERTIES
  PickEnds
CHECK_DEADLOCK FALSE
