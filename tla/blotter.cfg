CONSTANTS
  Fills = {f1, f2, f3}
  Header = Header
  NoId = NoId
  NoFile = NoFile
  WritesFail = TRUE
  FlushDies = TRUE
  MaxLines = 6
  MaxCuts = 2
SPECIFICATION Spec
INVARIANTS
  FileReadable
  CountIsExact
  FlushedIsKept
  RefusedIsSafe
