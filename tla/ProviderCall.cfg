SPECIFICATION Spec
CONSTANTS
  Caller = {c1, c2}
  Capacity = 1
  Budget = 1
  Grace = 1
  Margin = 0
  MaxTries = 2
  MaxSilent = 1
  MaxCalls = 2
INVARIANTS ReturnMeansClosed Ceiling NoSlotLost
PROPERTY CallsReturn
CHECK_DEADLOCK FALSE
