CONSTANTS
  Cap = 1
  Room = 2
  MaxBlocks = 2
  Catalogues <- MCCatalogues
  Modes <- MCModes
  Seeds <- MCSeeds
  RocketWeight <- MCRocketWeight
  ModeWeight <- MCModeWeight
  Hashes = {"a", "b"}
  Score <- MCScore
  Penalty = 5
  Verify = TRUE
SPECIFICATION EvalFairSpec
CHECK_DEADLOCK FALSE
INVARIANTS
  KillReachesTheGroup
  KillIsNotACrash
  NothingDropped
  CrashingNeverPays
  RankedReproduces
PROPERTIES
  OnlyWholeRunsScore
  EvaluationEnds
