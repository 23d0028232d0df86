SPECIFICATION Spec
CONSTANTS
  Devices = {"eeprom"}
  DriverOf <- MCDriverOf
  ProgramTime <- MCProgramTime
  EraseTime <- MCEraseTime
  ChipTimes <- ChipsLate
  EraseTimes <- MCEraseTimes
  SleepTime = 2
  Pages = {p1, p2}
  Values = {v1, v2}
  Blank = Blank
  Garbage = Garbage
INVARIANT WrittenIsStored
