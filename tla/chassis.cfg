SPECIFICATION ChassisSpec
CONSTANTS
  Faulty <- MCFaults
  Speeds <- MCSpeeds
  Turns <- MCTurns
INVARIANTS
  BridgeConsistent
  CacheIsTrue
  ServoPulseSafe
PROPERTIES
  CacheFollowsBothMotors
