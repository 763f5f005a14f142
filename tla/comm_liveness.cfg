SPECIFICATION FairSpec
CONSTANTS
  c1 = c1
  c2 = c2
  c3 = c3
  Conns <- TwoConns
  MaxFds = 2
PROPERTIES
  DepartureNoticed
  SensorBlockedOnlyByStall
CHECK_DEADLOCK FALSE
