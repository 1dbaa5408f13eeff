SPECIFICATION FairSpec

CONSTANTS
  a1 = a1
  a2 = a2
  Actor = {a1, a2}
  Populations <- MCPopulations

INVARIANTS
  CompletedIsWhole
  AcceptedIsNeverRefused

PROPERTIES
  CompletedStays
  EverythingSettles

CHECK_DEADLOCK FALSE
