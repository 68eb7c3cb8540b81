SPECIFICATION FairSpec
CONSTANTS
  MODES <- MCMODES
  CONFIGS <- MCCONFIGS
  PipeSize = 1
INVARIANTS
  ResultsAreOwn
  OnlyBaselineFailuresShow
PROPERTIES
  EveryoneEnds
CHECK_DEADLOCK FALSE
