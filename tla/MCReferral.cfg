CONSTANTS
  Accounts = {a1, a2, a3}
  Picks = {}
  Draws = {}
  MaxRounds = 1
  Codes = {c1}
  Nobody = Nobody
  Credits = {1, 2}
  MaxLifetime = 2
SPECIFICATION ReferralSpec
SYMMETRY Symmetry
INVARIANTS
  ReferralTypeOK
  EarningsBalance
  RefereesCounted
PROPERTIES
  BindingsPermanent
CHECK_DEADLOCK FALSE
