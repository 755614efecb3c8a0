SPECIFICATION Spec
CONSTANTS
  Task = {w1, w2}
  Check = {v}
  Wait = {k}
  Place = {A, B}
  Asks = {"keep", "ready", "superseded"}
  MaxRequests = 2
  MaxUpdates = 2
  MaxUpsets = 2
SYMMETRY Symmetry
INVARIANTS HostNeverRefused Certified ReplayRebuilds
PROPERTIES RequestsKept ParkSurvives
CHECK_DEADLOCK FALSE
