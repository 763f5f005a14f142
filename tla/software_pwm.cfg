SPECIFICATION FairSpec
CONSTANTS
  Period = 4
  MaxDuty = 4
  IoctlDelay = 2
  Word = 16
  MaxCalls = 4
INVARIANTS
  DelayWithinPeriod
  NeverStalls
  RestsLow
PROPERTIES
  PulseExact
  StopTakesEffect
  StartedPulses
