SPECIFICATION Spec

CONSTANTS
  Plans <- HostPlans
  Experiments <- KilledUnobserved
  KillDelay = 10

INVARIANTS
  SilenceIsNoCleanSweep

CHECK_DEADLOCK FALSE
