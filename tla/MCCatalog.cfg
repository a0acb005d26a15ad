SPECIFICATION MCSpec
CONSTANTS
  alice = alice
  bob = bob
  shop = shop
  cafe = cafe
  usdc = usdc
  eurc = eurc
  None = None
  Subscribers = {alice, bob}
  Merchants = {shop, cafe}
  Tokens = {usdc, eurc}
  DefaultToken = usdc
  Terms = {"basic", "plus"}
  MaxPlans = 3
  MaxSubs = 3
  MAX_SCAN_DEPTH = 2
  Limits = {1, 2}
  MetaKeys = {"invoice", "customer", "tag"}
  MetaValues = {"a", "b"}
  MAX_METADATA_KEYS = 2
INVARIANTS FamilyUniform PinnedToPlan IndexExact ReadingExact MetadataConsistent
CHECK_DEADLOCK FALSE
