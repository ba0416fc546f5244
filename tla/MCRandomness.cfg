CONSTANTS
  admin = admin
  alice = alice
  Accounts = {admin, alice}
  Nobody = Nobody
  Picks <- AuditPicks
  Draws <- MCThreeDraws
  Split <- AuditSplit
  Configs <- MCConfigs
  DrandKeys = {k1, k2}
  BeaconKey = k1
  NoValue = NoValue
  Sha256 <- MCSha256
  RevealSeed <- MCRevealSeed
  Values <- AuditValues
  usaf = usaf
  other = other
  Denoms = {usaf, other}
  Denom = usaf
  LastBeacon = 2
  Nonces = {n1}
  WinningNumbersFor <- ByParity
  Payments <- AuditPayments
  MaxGift = 0
  MayPause = FALSE
  Migrations <- RandomnessMigrations
  CancelGrace = 1
  DefaultRevealTimeout = 1
  BeaconGenesis = 1
  BeaconPeriod = 1
  StartTime = 0
  MaxTicketsSold = 1
  MaxExtras = 0
  Settings <- RandomnessSettings
  TicketPrice = 10
  TopUps = {10}
  Escrows = {0}
  Backfills = {}
  MaxTicketsPerTx = 1
  MaxTicketsPerRound = 1
  MaxRounds = 2
  Horizon = 3
  MaxTime = 4
  MaxHeight = 2
  MaxTopUp = 0
  MaxEscrow = 0
  Codes = {}
  Refers = {Nobody}
  Credits = {1}
  MaxLifetime = 0
  Withdrawals = {}
SPECIFICATION AuditSpec
CONSTRAINT AuditBounded
INVARIANTS
  DrawnAsSold
  DrawnFromSlot
  OutcomeAuditable
PROPERTIES
  SlotsFinal
  OutcomeStands
  MechanismFixed
CHECK_DEADLOCK FALSE
