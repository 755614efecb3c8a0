SPECIFICATION FairSpec
CONSTANTS
  Steer = {s1}
  FollowUp = {f1}
  Batches <- SmallBatches
  MaxSteps = 2
  MaxResumes = 1
  KeepRecent = 1
  MaxTight = 1
  HasFallback = TRUE
INVARIANTS
  PromptsWellFormed
  CompactionHonest
  EndIsHonest
PROPERTY TurnEnds
\* The turn ends.
CHECK_DEADLOCK FALSE
