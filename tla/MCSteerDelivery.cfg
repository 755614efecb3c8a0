SPECIFICATION FairSpec
CONSTANTS
  Line = {l1, l2}
  FollowUp = {f1}
  Peer = {p1}
  MaxSteps = 2
  MaxSegments = 2
  MaxChildren = 1
  MaxTurns = 2
INVARIANTS
  AccountedFor
  LinesInOrder
PROPERTIES
  TextSettles
CHECK_DEADLOCK FALSE
