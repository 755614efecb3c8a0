SPECIFICATION Spec
CONSTANTS
  Turn = {t1, t2}
  Task = {k1}
  TaskOf <- OneTask
  Call = {c1, c2}
  Effectful = {c1}
  Child = {s1}
  None = None
  MaxMishaps = 1
INVARIANTS
  NoFalseEnd
  UncertaintyMarked
  PublishedAsPrepared
SYMMETRY Same
CHECK_DEADLOCK FALSE
