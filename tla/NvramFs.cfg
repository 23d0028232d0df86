SPECIFICATION Spec
CONSTANTS
  a = a
  b = b
  dotted = dotted
  long = long
  empty = empty
  MaxFileCnt = 2
  Capacity = 9
  SuperSize = 3
  U8 = 8
  U16 = 16
  Names <- MCNames
  NoName = empty
  AlnumNames = {a, b, long}
  LongNames = {long}
  Numbers = {0, 1, 2, 5, 17}
  Images <- MCImages
INVARIANTS TypeOK HandleCount FilesDisjoint HandleSafe FilesReachable
PROPERTIES FilesKept CreateTakesItsSize
