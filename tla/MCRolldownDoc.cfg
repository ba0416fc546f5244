CONSTANTS
  Accounts = {a1, a2}
  Nobody = Nobody
  Picks <- MCLowPicks
  Draws <- MCDraws
  TicketPrice = 20
  Split <- NoReferralSplit
  Configs <- MCCapConfigs
  TopUps = {}
  Escrows = {0}
  Backfills = {}
  MaxTicketsPerTx = 1
  MaxTicketsPerRound = 2
  MaxRounds = 3
  MaxTopUp = 0
  MaxTime = 3
  StartTime = 0
  Horizon = 3
  MaxTicketsSold = 4
SPECIFICATION Spec
SYMMETRY Symmetry
CONSTRAINT FewTickets
CHECK_DEADLOCK FALSE
PROPERTIES
  ForcedRolldownFindsWinner
