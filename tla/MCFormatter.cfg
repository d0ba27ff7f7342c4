SPECIFICATION FormatSpec
CONSTANTS
  BUFFER_SIZE = 6
  PREFIX_LENGTH = 4
  Numbers <- MCNumbers
  Texts <- MCTexts
  Literal = 65
INVARIANTS
  PrintsLikePrintf
  StaysInBuffers
CHECK_DEADLOCK FALSE
