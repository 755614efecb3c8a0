SPECIFICATION FairSpec
CONSTANTS
  Waves <- MCWaves
  Capacity = 2
  ForeignMax = 1
  Burst = 1
INVARIANTS SlotBooks UncertaintyKept NoWedgedPermit
PROPERTIES KeepsContract CommitWins NoLaunchOverUncertainty WaveEnds
CHECK_DEADLOCK FALSE
