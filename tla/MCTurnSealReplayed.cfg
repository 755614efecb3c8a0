SPECIFICATION Spec
CONSTANTS
  Turn = {t1, t2}
  Task = {k1}
  TaskOf <- OneTask
  Call = {}
  Effectful = {}
  Child = {}
  None = None
  MaxMishaps = 2
PROPERTIES
  CommittedOnlyCleansUp
CHECK_DEADLOCK FALSE
