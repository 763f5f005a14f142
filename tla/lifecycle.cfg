SPECIFICATION Spec
CONSTANTS
  Broken <- MCBroken
  MayFail <- MCMayFail
  MaxRuns = 2
  MaxSigint = 1
INVARIANTS
  LifeTypeOK
  StaleWarned
  AhtNeverGarbage
  StillUntilTold
  PoweredAtExitOnlyByRace
  NoCrashWhileRunning
CHECK_DEADLOCK FALSE
PROPERTIES
  SigintEnds
  Boots
