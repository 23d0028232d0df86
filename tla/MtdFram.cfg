SPECIFICATION Spec
CONSTANTS
  Threads = {t1, t2}
  PageSize = 6
  Pages = 1
  BufSize = 4
  AddrLen = 2
  Byte <- MCByte
  Memories <- MCMemories
  Writes <- FramWrites
  Reads <- MCReads
  Free = Free
INVARIANT PieceFits
PROPERTY DeliversBytes
