SPECIFICATION Spec

CONSTANTS
  db = db
  mq = mq
  Service = {db, mq}
  Gated = {db}
  Fault = {"refused", "lost", "unavailable"}
  SidecarFaults = TRUE
  MaxInterrupts = 2

INVARIANTS
  NothingLeft
  StartedIsRemoved
  CauseIsKept
  QuietShutdown
