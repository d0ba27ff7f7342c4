\* idle, prompt and two programs at boot, as _start creates them; the prompt
\* creates two more while the programs exit.
SPECIFICATION FairSpec
CONSTANTS
  NBoot = 4
  MaxPid = 6
  Quantum = 3
INVARIANTS
  ListIntact
  RunsAsItself
  NoUseAfterFree
  NothingLost
PROPERTIES
  RoundRobin
  NoStarvation
  DeadIsReaped
CHECK_DEADLOCK FALSE
