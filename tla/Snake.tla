-------------------------------- MODULE Snake --------------------------------
(***************************************************************************)
(* programs/snake/snake.c: the board is one array of SNAKE_WIDTH *         *)
(* SNAKE_HEIGHT cells, and snake[0 .. head] holds the cells of the snake   *)
(* from its tail to its head.  A frame handles one key and then, in run    *)
(* mode, moves the snake one cell.                                         *)
(*                                                                         *)
(* Start and FirstFruit are the cells the code starts with                 *)
(* (SNAKE_HEIGHT * SNAKE_WIDTH / 2 - 10 and 1010).  snake_rand is any      *)
(* value of its range.  The game is not followed beyond an access outside  *)
(* the array (broken), nor beyond a snake of MaxLength cells.              *)
(***************************************************************************)
EXTENDS Integers, Sequences

CONSTANTS SNAKE_WIDTH, SNAKE_HEIGHT, Start, FirstFruit, MaxLength

N == SNAKE_WIDTH * SNAKE_HEIGHT
Cell == 0 .. N - 1

ASSUME SnakeAssumption ==
  /\ SNAKE_WIDTH \in Nat \ (0 .. 2) /\ SNAKE_HEIGHT \in Nat \ (0 .. 2)
  /\ Start \in Cell /\ FirstFruit \in Cell \ {Start}
  /\ MaxLength \in Nat \ {0}

Direction == {"Up", "Down", "Right", "Left", "Stop"}
CellType == {"Empty", "Snake_Body", "Snake_Head", "Fruit"}

VARIABLES
  cells,      \* what each cell of the board shows
  snake,      \* snake[0 .. *head]
  direction,
  fruit,
  state,      \* 0 menu, 1 run, 2 quit
  broken      \* a cell outside the array has been accessed

vars == <<cells, snake, direction, fruit, state, broken>>

HeadCell == snake[Len(snake)]

TypeOK ==
  /\ cells \in [Cell -> CellType]
  /\ snake \in Seq(Cell) /\ snake # <<>>
  /\ direction \in Direction
  /\ fruit \in Cell
  /\ state \in 0 .. 2
  /\ broken \in BOOLEAN

-----------------------------------------------------------------------------
(* An operator named like the one after it, with a suffix, is a mutant of  *)
(* it: the same code with a bug.                                           *)

snake_init_cells ==
  [[c \in Cell |-> "Empty"] EXCEPT ![Start] = "Snake_Head", ![FirstFruit] = "Fruit"]

Init ==
  /\ snake = <<Start>>
  /\ fruit = FirstFruit
  /\ cells = snake_init_cells
  /\ direction = "Up"
  /\ state = 0
  /\ broken = FALSE

\* snake_restart, but for the board
Restarted ==
  /\ state' = 0
  /\ snake' = <<Start>>
  /\ direction' = "Stop"
  /\ fruit' = FirstFruit

snake_restart == Restarted /\ cells' = snake_init_cells

\* The end of snake_update: the board is cleared, then the body, the head and
\* the fruit are written, each over what was there.
Drawn(body, f) ==
  [c \in Cell |->
     IF c = f THEN "Fruit"
     ELSE IF c = body[Len(body)] THEN "Snake_Head"
     ELSE IF \E k \in 1 .. Len(body) - 1 : body[k] = c THEN "Snake_Body"
     ELSE "Empty"]

\* The loop of snake_cal_next divides the cell into a row and a column of
\* 1 .. SNAKE_WIDTH; cell 0 is column SNAKE_WIDTH of row -1.
RowOf(h) == IF h > 0 THEN (h - 1) \div SNAKE_WIDTH ELSE -1
ColumnOf(h) == h - RowOf(h) * SNAKE_WIDTH

snake_cal_next(h, dir) ==
  LET i == RowOf(h)
      j == ColumnOf(h)
  IN  CASE dir = "Left"  -> i * SNAKE_WIDTH + (IF j - 1 < 0 THEN SNAKE_WIDTH ELSE j) - 1
        [] dir = "Right" -> i * SNAKE_WIDTH + (IF j + 1 > SNAKE_WIDTH THEN 0 ELSE j) + 1
        [] dir = "Up"    -> ((IF i - 1 < 0 THEN SNAKE_HEIGHT ELSE i) - 1) * SNAKE_WIDTH + j
        [] dir = "Down"  -> ((IF i + 1 > SNAKE_HEIGHT THEN 0 ELSE i) + 1) * SNAKE_WIDTH + j
        [] dir = "Stop"  -> 0

\* snake_new_fruit_pos
FruitCells ==
  {i * SNAKE_WIDTH + j : i \in 1 .. SNAKE_HEIGHT - 1, j \in 1 .. SNAKE_WIDTH - 1}

\* The snake after a move to a cell without fruit
Shifted(next) == Append(Tail(snake), next)

\* The board says that the snake is there: "if (cells[next_cell] == Snake_Body".
CollidesNever(next) == FALSE
Collides(next) == cells[next] = "Snake_Body"

\* snake_update after the direction has become dir.  It draws the board again
\* in every case: what snake_restart wrote to it does not stay.
snake_update(dir) ==
  LET next == snake_cal_next(HeadCell, dir) IN
  IF next \notin Cell
  THEN broken' = TRUE /\ UNCHANGED <<cells, snake, direction, fruit, state>>
  ELSE /\ \/ Collides(next) /\ Restarted
          \/ /\ ~Collides(next)
             /\ cells[next] = "Fruit"
             /\ Len(snake) < MaxLength
             /\ fruit' \in FruitCells
             /\ snake' = Append(snake, next)
             /\ direction' = dir /\ state' = 1
          \/ /\ ~Collides(next)
             /\ cells[next] # "Fruit"
             /\ snake' = Shifted(next)
             /\ direction' = dir /\ state' = 1
             /\ UNCHANGED fruit
       /\ cells' = Drawn(snake', fruit')
       /\ UNCHANGED broken

Playing == state # 2 /\ ~broken

Opposite(dir) ==
  CASE dir = "Up" -> "Down" [] dir = "Down" -> "Up"
    [] dir = "Left" -> "Right" [] dir = "Right" -> "Left"

\* The direction after 'w', 's', 'a' or 'd'
TurnedFreely(dir) == dir
Turned(dir) == IF direction # Opposite(dir) THEN dir ELSE direction

snake_turn(dir) ==
  /\ Playing
  /\ IF state = 1
     THEN snake_update(Turned(dir))
     ELSE direction' = Turned(dir) /\ UNCHANGED <<cells, snake, fruit, state, broken>>

\* No key, or one the game does not know
snake_no_key ==
  /\ Playing
  /\ state = 1
  /\ snake_update(direction)

\* 'f' starts the run, which moves the snake in this frame, or restarts.
snake_key_f ==
  /\ Playing
  /\ \/ state = 0 /\ snake_update("Up")
     \/ state = 1 /\ snake_restart /\ UNCHANGED broken

snake_key_q ==
  /\ Playing
  /\ state' = 2
  /\ UNCHANGED <<cells, snake, direction, fruit, broken>>

Next ==
  \/ \E dir \in Direction \ {"Stop"} : snake_turn(dir)
  \/ snake_no_key
  \/ snake_key_f
  \/ snake_key_q

Spec == Init /\ [][Next]_vars

-----------------------------------------------------------------------------
\* snake_update looks for the snake on the board, where the fruit is drawn over
\* it.  That is the only way the test misses: when the snake comes to lie twice
\* on a cell, the head has just moved to the fruit, and the fruit lay on the
\* snake.
NoCellTwice(body) == \A i, k \in 1 .. Len(body) : body[i] = body[k] => i = k

CrossesOnlyOnFruit ==
  [][NoCellTwice(snake) /\ ~NoCellTwice(snake') =>
       /\ snake'[Len(snake')] = fruit
       /\ \E k \in 1 .. Len(snake) : snake[k] = fruit]_vars

\* While the snake runs it never dies by turning back into the cell behind its
\* head: snake_key_handler refuses the opposite direction and a frame takes
\* one key, so the cell before the head is never the next one.
NeverIntoNeck ==
  state = 1 /\ Len(snake) > 1 =>
    \A dir \in {Turned(d) : d \in Direction \ {"Stop"}} :
      snake_cal_next(HeadCell, dir) # snake[Len(snake) - 1]
=============================================================================
