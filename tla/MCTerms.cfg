SPECIFICATION TermsSpec
CONSTANTS
  alice = alice
  bob = bob
  shop = shop
  treasury = treasury
  usdc = usdc
  eurc = eurc
  None = None
  Subscribers = {alice}
  Merchants = {shop}
  Treasuries = {shop, treasury}
  Tokens = {usdc, eurc}
  DefaultToken = usdc
  MAX_SUBSCRIPTION_ID = 2
  MAX_WRITE_PATH_SCAN_DEPTH = 1
  MinInterval = 1
  MaxInterval = 1
  MaxTime = 4
  MaxBatch = 1
  Funds <- Funds4
  Grace = 0
  Plans <- OnePlan
  TokenScale <- TwoUnits
  DefaultScale = 1
  Amounts = {2}
  Intervals = {1}
  Caps <- NoCaps
  Expiries <- NoExpiries
  Values = {2}
  MinTopups = {1}
  FeeBps = {5000}
  CreditLimits = {4}
  PlanLimits = {1}
  CapDefaults = {4}
  OracleReplies <- ReplyChoices
  MaxAges = {1}
  RecoveryIds = {}
INVARIANTS StatementsMatchEarnings
PROPERTIES OraclePriceCovers CreationWithinLimits
