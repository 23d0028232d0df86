SPECIFICATION Spec
CONSTANTS
  FileCnt = 2
  Start <- MCStart
  Size <- MCSize
  PageSize = 2
  Capacity = 10
  Lengths = {1, 4}
  Stm32F1 = TRUE
  MaxFaults = 3
  MaxSent = 10
INVARIANT InDevice
