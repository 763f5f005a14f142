SPECIFICATION FairSpec
CONSTANTS
  Faulty <- OneMotorFails
  Speeds <- OneSpeed
  Turns <- OneTurn
  RbufFrames = 1
  MaxNet = 1
PROPERTIES
  KeepsPromise
  StopReachesMotors
CHECK_DEADLOCK FALSE
