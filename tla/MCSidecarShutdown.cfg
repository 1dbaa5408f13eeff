SPECIFICATION FairSpec

CONSTANTS
  r1 = r1
  Request = {r1}
  HardWait = 2
  WaitMargin = 2
  ReadinessMargin = 2
  JobMargin = 3
  PollMargin = 5
  Setup = 1
  Lead = 1
  ArmWait = 4
  ProbeTime = 2
  ReportLag = 1
  RefusedStreak = 2
  Faults = TRUE

INVARIANTS
  MeasuredInsideRequest
  RequestsAreReported
  ResultIsInTime
  AcceptStopBeforeKill

PROPERTIES
  ImplementsGrace
  ExperimentEnds
