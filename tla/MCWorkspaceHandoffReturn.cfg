SPECIFICATION Spec
CONSTANTS
  Root = {A, B}
  MaxTurns = 1
  MaxSwitches = 2
  MaxFaults = 0
INVARIANT WorkspaceReopens
CHECK_DEADLOCK FALSE
