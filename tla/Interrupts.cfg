SPECIFICATION FairSpec
CONSTANTS
  Lines = {0, 12}
  MaxRaise = 1
  MaxKeys = 3
INVARIANTS
  EndsItsOwn
  BootBeforeProcesses
  ModifiersFollow
  SelectorsLoadable
PROPERTIES
  KeyIsHandled
CHECK_DEADLOCK FALSE
