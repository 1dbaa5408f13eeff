SPECIFICATION Spec

CONSTANTS
  Plans <- DeadBaseline
  Experiments <- MCExperiments
  KillDelay = 10

INVARIANTS
  BrokenBaselineIsJudged

CHECK_DEADLOCK FALSE
