SPECIFICATION Spec
CONSTANTS
  None = None
  U32_MAX = 4
  MaxTime = 3
  Interval = 1
  Amounts = {1}
  Keeps = {1}
  Limits = {1, 2}
INVARIANTS EndOfHistory
