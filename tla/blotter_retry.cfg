CONSTANTS
  Fills = {f1, f2, f3}
  Header = Header
  NoId = NoId
  NoFile = NoFile
  WritesFail = TRUE
  FlushDies = FALSE
  MaxLines = 6
  MaxCuts = 2
SPECIFICATION Spec
INVARIANT NoDuplicateRows
