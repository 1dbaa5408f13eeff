SPECIFICATION FairSpec
CONSTANTS
  Samples = 3
  Streak = 2
INVARIANTS
  ValuesAreOwn
  KillIsAwaited
PROPERTY CalibrationEnds
