SPECIFICATION FairSpec
CONSTANTS
  prompt = prompt
  Programs = {cat, ls}
  Games = {snake}
  MaxKeys = 4
INVARIANTS
  KeysInOrderOnce
  StdinExclusive
  OneStrayKey
  HangsOnlyInGame
PROPERTY KeyIsRead
CHECK_DEADLOCK FALSE
