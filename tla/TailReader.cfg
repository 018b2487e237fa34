SPECIFICATION ReaderSpec
CONSTANTS
  MaxBytes = 7
  MaxGen = 3
  Chunk = 2
  HeadMayFail = FALSE
INVARIANT ReadsTheFile
INVARIANT NoSpuriousCut
