SPECIFICATION Spec
INVARIANTS
  NoWrongSide
  ReachableOnceCreated
CHECK_DEADLOCK FALSE
