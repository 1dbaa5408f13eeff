SPECIFICATION Spec

CONSTANTS
  Sources <- MCSources
  Contract = {"SP004", "SP005"}
  Reachable <- MCReachable
  Errors <- MCErrors
  MaxRepeat = 3

INVARIANTS
  SteadyFailureBlocks
  GatedPassIsMeasured
  CommandLineDecides

CHECK_DEADLOCK FALSE
