SPECIFICATION FairSpec
CONSTANTS
  Turn = {t1, t2}
  Task = {k1}
  TaskOf <- OneTask
  Call = {}
  Effectful = {}
  Child = {s1, s2}
  None = None
  MaxMishaps = 2
INVARIANTS
  RefsDurable
  AckedChildPublished
  ChildRefsStayWithParent
  NothingLost
  OrderFollowsGeneration
PROPERTIES
  CommitsOnce
  EveryTurnEnds
CHECK_DEADLOCK FALSE
