SPECIFICATION Spec
CONSTANTS
  Size = 4
  INVALID_TASK = 255
  Tasks = {1, 2}
  Readers = {1}
  Writers = {2}
  ReadSizes = {2}
  WriteSizes = {3}
  FifoDepth = 2
  RxNumbers = 2
  TxNumbers = 4
  HandlerInTime = TRUE
INVARIANTS
  AwakeForData
CHECK_DEADLOCK FALSE
