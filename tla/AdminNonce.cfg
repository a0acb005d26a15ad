SPECIFICATION Spec
CONSTANTS
  Accounts = {ann, ben, cid}
  Contract = contract
  None = None
  U64_MAX = 2
INVARIANTS NoncesInOrder ActedInOffice ReignsEndOnce
CHECK_DEADLOCK FALSE
