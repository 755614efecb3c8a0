SPECIFICATION Spec
CONSTANTS
  Root = {A, B, C}
  MaxTurns = 2
  MaxSwitches = 2
  MaxFaults = 1
SYMMETRY Workspaces
INVARIANTS OneAnswer OneLiveHead CrossingNeverLost
CHECK_DEADLOCK FALSE
