SPECIFICATION FairSpec

CONSTANTS
  r1 = r1
  Request = {r1}
  HardWait = 2
  WaitMargin = 2
  Plans <- Undisturbed
  DieGrace = 1
  ReportLag = 1
  RefusedStreak = 1
  EarlyFailure = TRUE
  DaemonFaults = FALSE

PROPERTIES
  ShutdownEnds
