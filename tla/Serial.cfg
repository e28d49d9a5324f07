SPECIFICATION Spec
CONSTANTS
  Size = 4
  INVALID_TASK = 255
  Tasks = {1}
  Readers = {1}
  Writers = {1}
  ReadSizes = {2}
  WriteSizes = {3}
  FifoDepth = 2
  RxNumbers = 2
  TxNumbers = 4
  HandlerInTime = TRUE
INVARIANTS
  SerialTypeOK
  Remembered
  NeverEmptyHanded
  TransmitOn
PROPERTIES
  RxIsFifo
  TxIsFifo
CHECK_DEADLOCK FALSE
