SPECIFICATION CoreSpec
CONSTANTS
  alice = alice
  bob = bob
  shop = shop
  treasury = treasury
  usdc = usdc
  eurc = eurc
  None = None
  Subscribers = {alice}
  Merchants = {shop}
  Treasuries = {treasury}
  Tokens = {usdc}
  DefaultToken = usdc
  MAX_SUBSCRIPTION_ID = 1
  MAX_WRITE_PATH_SCAN_DEPTH = 2
  MinInterval = 1
  MaxInterval = 2
  MaxTime = 6
  MaxBatch = 1
  Funds <- Funds4
  Grace = 1
  Plans <- PlanChoices
  TokenScale <- UnitScale
  DefaultScale = 1
  Amounts = {2}
  Intervals = {2}
  Caps <- CapChoices
  Expiries <- ExpiryChoices
  Values = {1, 2}
  MinTopups = {1}
  FeeBps = {0}
  CreditLimits = {0}
  PlanLimits = {0}
  CapDefaults = {}
  OracleReplies <- NoReplies
  MaxAges = {1}
  RecoveryIds = {1}
INVARIANTS TypeOK PrepaidChargeable ChargedIsBilled DueWithoutPlan WaitingIsUnderfunded CapRespected SnapshotNeverReopened
PROPERTIES StatusFollowsMachine NoChargeAfterEnd BillingTimeAdvances
