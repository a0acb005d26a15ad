SPECIFICATION MeteredSpec
CONSTANTS
  alice = alice
  shop = shop
  treasury = treasury
  usdc = usdc
  None = None
  Subscribers = {alice}
  Merchants = {shop}
  Treasuries = {treasury}
  Tokens = {usdc}
  DefaultToken = usdc
  MAX_SUBSCRIPTION_ID = 1
  MAX_WRITE_PATH_SCAN_DEPTH = 2
  MinInterval = 2
  MaxInterval = 2
  MaxTime = 6
  MaxBatch = 1
  Funds <- Funds5
  Grace = 1
  Plans <- NoPlans
  TokenScale <- UnitScale
  DefaultScale = 1
  Amounts = {2}
  Intervals = {2}
  Caps <- CapChoices
  Expiries <- NoExpiries
  Values = {1, 2}
  MinTopups = {1}
  FeeBps = {0}
  CreditLimits = {0}
  PlanLimits = {0}
  CapDefaults = {}
  OracleReplies <- NoReplies
  MaxAges = {1}
  RecoveryIds = {1}
  plain = plain
  call1 = call1
  call2 = call2
  call3 = call3
  References = {plain, call1, call2, call3}
  DefaultReference = plain
  LimitChoices <- LimitSettings
SYMMETRY ResentCalls
INVARIANTS ReferencesChargedOnce BurstHeld RateHeld UnitsHeld QuietIsAdmitted
CHECK_DEADLOCK FALSE
