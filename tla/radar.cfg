SPECIFICATION Spec
CONSTANTS
  Payloads <- MCPayloads
  MaxFrames = 3
  MaxReads = 1
CHECK_DEADLOCK FALSE
INVARIANTS
  PublishedWhole
  PairInOrder
PROPERTIES
  BurstPublished
