SPECIFICATION Spec
CONSTANTS
  c1 = c1
  c2 = c2
  c3 = c3
  Conns <- TwoConns
  MaxFds = 2
INVARIANTS
  NoWriteAfterReadError
CHECK_DEADLOCK FALSE
