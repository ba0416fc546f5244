CONSTANTS
  admin = admin
  alice = alice
  Accounts = {admin, alice}
  Nobody = Nobody
  Picks <- MCPicks
  Draws <- MCOneDraw
  Split <- MCSplit
  Configs <- MCConfigs
  DrandKeys = {k1, k2}
  BeaconKey = k1
  NoValue = NoValue
  Sha256 <- MCSha256
  RevealSeed <- MCRevealSeed
  Values <- MCValues
  usaf = usaf
  other = other
  Denoms = {usaf, other}
  Denom = usaf
  LastBeacon = 2
  Nonces = {}
  WinningNumbersFor <- AlwaysLucky
  Payments <- MCPayments
  MaxGift = 7
  MayPause = FALSE
  Migrations <- MoneySettings
  CancelGrace = 1
  DefaultRevealTimeout = 1
  BeaconGenesis = 1
  BeaconPeriod = 1
  StartTime = 0
  MaxTicketsSold = 2
  MaxExtras = 1
  Settings <- MoneySettings
  TicketPrice = 10
  TopUps = {7, 10}
  Escrows = {0, 1, 2, 3, 4, 5, 6, 7}
  Backfills = {}
  MaxTicketsPerTx = 1
  MaxTicketsPerRound = 2
  MaxRounds = 2
  Horizon = 2
  MaxTime = 3
  MaxHeight = 0
  MaxTopUp = 7
  MaxEscrow = 7
  Codes = {c1}
  Refers = {c1, Nobody}
  Credits = {1}
  MaxLifetime = 2
  Withdrawals = {7}
SPECIFICATION WinsafSpec
CONSTRAINT Bounded
INVARIANTS
  WinsafTypeOK
  EscrowAhead
  PaymentsCovered
PROPERTIES
  KeepsBooks
  IsLottery
CHECK_DEADLOCK FALSE
