SPECIFICATION SuiteSpec
CONSTANTS
  t0 = t0
  t1 = t1
  t2 = t2
  t3 = t3
  empty = empty
  MaxFileCnt = 3
  Capacity = 64
  SuperSize = 4
  U8 = 256
  U16 = 128
  Names <- MCNames
  NoName = empty
  AlnumNames = {t0, t1, t2, t3}
  LongNames = {}
  Numbers = {0}
  Images <- MCImages
  Contexts <- MCContexts
  Chips <- MCChips
  Block = 6
  Random <- MCRandom
  TestName <- MCTestName
  TestOffset = 13
  FramChunk = 8
  FramWrite = 16
  BigFile = 20
  SmallFile = 15
  Stale <- MCStale
  Breaks = {0, 5, 15, 30}
  MaxLost = 3
INVARIANTS SuitePasses WrongChipFound LostTransfersFound BuffersHold
PROPERTY ComparedIsStored
CHECK_DEADLOCK FALSE
