SPECIFICATION FairSpec

CONSTANTS
  r1 = r1
  Request = {r1}
  HardWait = 2
  WaitMargin = 2
  Plans <- MCPlans
  DieGrace = 1
  ReportLag = 1
  RefusedStreak = 2
  EarlyFailure = TRUE
  DaemonFaults = TRUE

INVARIANTS
  TypeOK
  AcceptStopHasEvidence
  DropInsideShutdown
  KillAfterGrace
  SignalInsideRequest
  MeasuredInOrder
  PreStopStaysQuiet
  NoReportIsExplained

PROPERTIES
  ImplementsGrace
  ArmedLeadsToEnd
