CONSTANTS
  admin = admin
  alice = alice
  Accounts = {admin, alice}
  Nobody = Nobody
  Picks <- MCPicks
  Draws <- MCOneDraw
  Split <- MCSplit
  Configs <- MCConfigs
  DrandKeys = {k1, k2}
  BeaconKey = k1
  NoValue = NoValue
  Sha256 <- MCSha256
  RevealSeed <- MCRevealSeed
  Values <- MCValues
  usaf = usaf
  other = other
  Denoms = {usaf, other}
  Denom = usaf
  LastBeacon = 3
  Nonces = {n1}
  WinningNumbersFor <- AlwaysLucky
  Payments <- NoPayments
  MaxGift = 0
  MayPause = TRUE
  Migrations <- LiveSettings
  CancelGrace = 1
  DefaultRevealTimeout = 1
  BeaconGenesis = 1
  BeaconPeriod = 1
  StartTime = 0
  MaxTicketsSold = 0
  MaxExtras = 0
  Settings <- LiveSettings
  TicketPrice = 10
  TopUps = {}
  Escrows = {0}
  Backfills = {}
  MaxTicketsPerTx = 0
  MaxTicketsPerRound = 0
  MaxRounds = 3
  Horizon = 3
  MaxTime = 4
  MaxHeight = 1
  MaxTopUp = 0
  MaxEscrow = 0
  Codes = {}
  Refers = {Nobody}
  Credits = {1}
  MaxLifetime = 0
  Withdrawals = {}
SPECIFICATION LiveSpec
PROPERTIES
  RoundsResolve
CHECK_DEADLOCK FALSE
