SPECIFICATION Spec
CONSTANTS
  Threads = {t1, t2}
  PageSize = 2
  Pages = 3
  BufSize = 4
  AddrLen = 2
  Byte <- MCByte
  Memories <- MCMemories
  Writes <- EepromWrites
  Reads <- MCReads
  Free = Free
INVARIANTS TypeOK PieceFits ChipReady
PROPERTIES DeliversBytes CallsReturn
