SPECIFICATION Spec
CONSTANTS
  Budget = 6
  GateBudget = 4
  MinReadiness = 2
  TcpTimeout = 1
  TcpInterval = 1
  ProbeTime = 2
  PollInterval = 2
  MaxOverhead = 1
INVARIANTS
  SteadyPeerIsFound
  OneIntervalIsLost
