CONSTANTS
  Accounts = {a1, a2}
  Nobody = Nobody
  Picks <- MCPicks
  Draws <- MCDraws
  TicketPrice = 20
  Split <- MCSplit
  Configs <- MCConfigs
  TopUps = {}
  Escrows = {0}
  Backfills = {}
  MaxTicketsPerTx = 2
  MaxTicketsPerRound = 4
  MaxRounds = 2
  MaxTopUp = 0
  MaxTime = 2
  StartTime = 0
  Horizon = 1
  Base = 3
  TicketIdWidth = 2
  MaxQueryLimit = 2
  Limits = {1, 3}
  MaxTicketsSold = 4
SPECIFICATION QueriesSpec
SYMMETRY Symmetry
CONSTRAINT FewTickets
INVARIANTS
  PagesExact
  PrizeViewBacked
PROPERTIES
  LastPageComplete
  PrizeViewStable
  SettledViewFinal
CHECK_DEADLOCK FALSE
