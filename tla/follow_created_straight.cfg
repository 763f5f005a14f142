SPECIFICATION Spec
CONSTANTS
  Faulty <- ServoFault
  Speeds <- OneSpeed
  Turns <- OneTurn
  RbufFrames = 1
  MaxNet = 1
INVARIANTS
  CreatedStraight
CHECK_DEADLOCK FALSE
