SPECIFICATION Spec
CONSTANTS
  Task = {w1}
  Check = {v}
  Wait = {k}
  Place = {A, B}
  Asks = {"ready"}
  MaxRequests = 2
  MaxUpdates = 1
  MaxUpsets = 2
INVARIANT EveryReplayRebuilds
CHECK_DEADLOCK FALSE
