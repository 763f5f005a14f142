SPECIFICATION FairSpec
CONSTANTS
  MaxShakes = 4
INVARIANTS
  NeverMoreThanHappened
  EachShakeOnce
  SleeperHasTimer
  NothingLeft
PROPERTIES
  SleeperWoken
CHECK_DEADLOCK FALSE
