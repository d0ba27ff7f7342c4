\* Lookups: empty files, files of one and of several records, and sizes just
\* below, at and above the size of a record.  Listings: as many entries as
\* pathes has slots, and one more.
SPECIFICATION DirFairSpec
CONSTANTS
  Names <- MCNames
  Paths <- MCPaths
  Chars = {"/", "a", "b", "c"}
  Sizes = {0, 1, 511, 512, 513, 1024}
  MaxFiles = 2
  RECORD = 512
  PATHES = 3
  BUFFER = 11
  MaxListed = 4
INVARIANTS
  FindsFirst
  RootListsOnce
  ListsDirectory
PROPERTY WalkEnds
CHECK_DEADLOCK FALSE
