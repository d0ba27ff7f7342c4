SPECIFICATION FairSpec
CONSTANTS
  NBoot = 4
  MaxPid = 5
  Quantum = 3
PROPERTY CreatedIsQueued
CHECK_DEADLOCK FALSE
