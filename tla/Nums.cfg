SPECIFICATION Spec
CONSTANTS
  NUM_MAX = 6
  OVERFLOW_DETECTION_BUFFER = 2
  Lag = 3
  MaxLap = 1
CHECK_DEADLOCK FALSE
INVARIANTS
  TypeOK
  CancelHolds
PROPERTIES
  FreshIsAccepted
  StaleOnlyAcrossWrap
  BombsOnceInOrder
