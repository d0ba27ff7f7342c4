SPECIFICATION GamesSpec
CONSTANTS
  SNAKE_WIDTH = 4
  SNAKE_HEIGHT = 4
  Start = 10
  FirstFruit = 6
  MaxLength = 5
  GOL_WIDTH = 4
  GOL_HEIGHT = 3
  CursorMod = 6
INVARIANTS
  NeverIntoNeck
PROPERTIES
  CrossesOnlyOnFruit
  VisibleIsLife
CHECK_DEADLOCK FALSE
