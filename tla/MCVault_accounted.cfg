SPECIFICATION CoreSpec
CONSTANTS
  alice = alice
  bob = bob
  shop = shop
  treasury = treasury
  usdc = usdc
  eurc = eurc
  None = None
  Subscribers = {alice}
  Merchants = {shop}
  Treasuries = {treasury}
  Tokens = {usdc}
  DefaultToken = usdc
  MAX_SUBSCRIPTION_ID = 1
  MAX_WRITE_PATH_SCAN_DEPTH = 2
  MinInterval = 1
  MaxInterval = 1
  MaxTime = 3
  MaxBatch = 1
  Funds <- Funds2
  Grace = 0
  Plans <- NoPlans
  TokenScale <- UnitScale
  DefaultScale = 1
  Amounts = {1}
  Intervals = {1}
  Caps <- NoCaps
  Expiries <- NoExpiries
  Values = {1}
  MinTopups = {1}
  FeeBps = {0}
  CreditLimits = {0}
  PlanLimits = {0}
  CapDefaults = {}
  OracleReplies <- NoReplies
  MaxAges = {1}
  RecoveryIds = {1}
INVARIANTS AccountedIsHeld
