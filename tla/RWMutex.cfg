CONSTANTS
  G = {g1, g2, g3, g4}
  Addr = {rs, ws}
  readerSem = rs
  writerSem = ws
  MaxReaders = 5
  MaxCount = 1
SPECIFICATION RWFairSpec
INVARIANTS RWStructure Exclusion
PROPERTIES WriterServed ReadersServed
