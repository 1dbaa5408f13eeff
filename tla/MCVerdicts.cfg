SPECIFICATION Spec

CONSTANTS
  Plans <- AllPlans
  Experiments <- MCExperiments
  KillDelay = 10

INVARIANTS
  CatalogAgrees
  SilenceIsBlocked
  WorstClauseWins
  DeadlineIsHonest
  CoveredWindowIsReal
  InflightPassIsMeasured

CHECK_DEADLOCK FALSE
