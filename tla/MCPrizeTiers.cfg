CONSTANTS
  Pools = {0, 1, 19, 100, 10007}
  MatchCounts = {2, 3, 4, 5, 6}
  MaxTickets = 4
SPECIFICATION Spec
INVARIANTS
  PaidPerTicket
  RolldownReachesBest
CHECK_DEADLOCK FALSE
