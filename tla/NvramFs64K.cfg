SPECIFICATION Spec
CONSTANTS
  a = a
  b = b
  dotted = dotted
  long = long
  empty = empty
  MaxFileCnt = 2
  Capacity = 16
  SuperSize = 3
  U8 = 8
  U16 = 16
  Names <- MCProperNames
  NoName = empty
  AlnumNames = {a, b, long}
  LongNames = {long}
  Numbers = {2, 13}
  Images <- MCImages
PROPERTY CreateTakesItsSize
