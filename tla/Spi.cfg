SPECIFICATION Spec
CONSTANTS
  Devices = {"eeprom", "fram", "flash"}
  DriverOf <- MCDriverOf
  ProgramTime <- MCProgramTime
  EraseTime <- MCEraseTime
  ChipTimes <- ChipsInTime
  EraseTimes <- MCEraseTimes
  SleepTime = 2
  Pages = {p1, p2}
  Values = {v1, v2}
  Blank = Blank
  Garbage = Garbage
INVARIANTS TypeOK ReadsBack ChipRests EepromInTime
PROPERTY CallsReturn
