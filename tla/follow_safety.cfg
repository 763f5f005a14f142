SPECIFICATION Spec
CONSTANTS
  Faulty <- NoFaults
  Speeds <- MCSpeeds
  Turns <- MCTurns
  RbufFrames = 2
  MaxNet = 2
INVARIANTS
  FollowInv
  NoLostCommand
PROPERTIES
  PowerOnlyFromThisSession
CHECK_DEADLOCK FALSE
