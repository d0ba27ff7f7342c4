SPECIFICATION FairSpec
CONSTANTS
  empty = empty
  short = short
  long = long
  NULL = NULL
  Missing = Missing
  EmptyPath = EmptyPath
  Clients = {c1, c2}
  Files <- MCFiles
  Size <- MCSize
  Chunk = 2
  MAX_OPENED_FILES = 3
  MAX_USTAR_OPEN_FILES = 3
  MaxReferences = 2
INVARIANTS
  CloseFindsFile
  ReadsItsFile
PROPERTY ReadEnds
CHECK_DEADLOCK FALSE
