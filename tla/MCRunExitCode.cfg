SPECIFICATION Spec

CONSTANTS
  db = db
  mq = mq
  Service = {db, mq}
  Gated = {db}
  Fault = {}
  SidecarFaults = TRUE
  MaxInterrupts = 0

INVARIANTS
  EnvironmentFailureIsThree
