SPECIFICATION PowerSpec
CONSTANTS
  a = a
  b = b
  empty = empty
  MaxFileCnt = 2
  Capacity = 8
  SuperSize = 3
  U8 = 8
  U16 = 16
  Names <- MCNames
  NoName = empty
  AlnumNames = {a, b}
  LongNames = {}
  Numbers = {}
  Images <- MCImages
  AppNames <- MCAppNames
  AppSize <- MCAppSize
INVARIANTS PowerTypeOK HaltsOnlyOnFault HandlesStored
PROPERTIES KeepsPromise FilesServed
