CONSTANTS
  Accounts = {a1, a2}
  Nobody = Nobody
  Picks <- MCPicks
  Draws <- MCDraws
  TicketPrice = 20
  Split <- DefaultSplit
  Configs <- MCConfigs
  TopUps = {7}
  Escrows = {0, 7}
  Backfills = {5}
  MaxTicketsPerTx = 2
  MaxTicketsPerRound = 2
  MaxRounds = 2
  MaxTopUp = 7
  MaxTime = 2
  StartTime = 0
  Horizon = 2
  MaxTicketsSold = 2
SPECIFICATION Spec
SYMMETRY Symmetry
CONSTRAINT FewTickets
CHECK_DEADLOCK FALSE
INVARIANTS
  TypeOK
  OneRoundInFlight
  CountsAgree
  CarriedWithinPool
  PoolBacksPrizes
  NothingOwedInFlight
  ClaimsCovered
  ResolutionCovered
PROPERTIES
  PrizesFinal
  JackpotCarriedForward
