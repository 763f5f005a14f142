SPECIFICATION Spec
CONSTANTS
  c1 = c1
  c2 = c2
  c3 = c3
  Conns <- ThreeConns
  MaxFds = 2
SYMMETRY Sym
INVARIANTS
  WholeWhenWritten
  AckGoesToItsClient
  PoliteClientsNeverKill
  DeafOnlyForAReason
CHECK_DEADLOCK FALSE
