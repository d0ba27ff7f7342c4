\* A line_len of two bits and a buffer of nine characters: line_len goes round
\* twice, and two games overlap each other and the prompt.
SPECIFICATION PromptSpec
CONSTANTS
  PROMPT_BUFFER_SIZE = 9
  LINE_LEN_SIZE = 4
  Clearers = {g1, g2}
INVARIANTS
  RunsWhatIsSeen
PROPERTY EnterActsOnLine
CHECK_DEADLOCK FALSE
