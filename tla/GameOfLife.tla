------------------------------ MODULE GameOfLife ------------------------------
(***************************************************************************)
(* programs/gameoflife/gameoflife.c: the board is one array of             *)
(* GOL_WIDTH * GOL_HEIGHT cells, cell (i, j) at i * GOL_HEIGHT + j.  A     *)
(* frame of the game handles one key and then, in run mode, computes the   *)
(* next generation.                                                        *)
(*                                                                         *)
(* A cell read beyond the array is dead or alive (edge), and the game is   *)
(* not followed beyond a write there (broken).  The cursor's uint8_t       *)
(* coordinates wrap at CursorMod, which is 2^8 in the code and smaller in  *)
(* the checked instances, where the board is smaller too.                  *)
(***************************************************************************)
EXTENDS Integers, FiniteSets

CONSTANTS GOL_WIDTH, GOL_HEIGHT, CursorMod

N == GOL_WIDTH * GOL_HEIGHT
Cell == 0 .. N - 1

VARIABLES
  cells,   \* the set of indices of the live cells
  cursor,  \* <<cursor[0], cursor[1]>>
  state,   \* 0 config, 1 run, 2 quit
  broken   \* a cell beyond the array has been written

vars == <<cells, cursor, state, broken>>

TypeOK ==
  /\ cells \subseteq Cell
  /\ cursor \in (0 .. CursorMod - 1) \X (0 .. CursorMod - 1)
  /\ state \in 0 .. 2
  /\ broken \in BOOLEAN

Home == <<GOL_WIDTH \div 2, GOL_HEIGHT \div 2>>

Init ==
  /\ cells = {}
  /\ cursor = Home
  /\ state = 0
  /\ broken = FALSE

GOL_CI(i, j) == i * GOL_HEIGHT + j

-----------------------------------------------------------------------------
(* An operator named like the one after it, with a suffix, is a mutant of  *)
(* it: the same code with a bug.                                           *)

\* indeces[8]; an index below 0 becomes a large uint16_t.
indecesNoDiagonal(i, j) ==
  {GOL_CI(i, j - 1), GOL_CI(i, j + 1), GOL_CI(i - 1, j), GOL_CI(i + 1, j)}
indeces(i, j) ==
  {GOL_CI(i + d[1], j + d[2]) % 2^16 : d \in ((-1 .. 1) \X (-1 .. 1)) \ {<<0, 0>>}}

\* The index N, one beyond the array, is not skipped; it reads as edge.
gol_get_alive_neighbors(board, i, j, edge) ==
  Cardinality({index \in indeces(i, j) :
                 /\ ~(index > N)
                 /\ index \in board \/ (index = N /\ edge)})

\* toBeKilled and toBeRevived are applied once every cell has been counted.
gol_update(board, edge) ==
  LET count(c) ==
        gol_get_alive_neighbors(board, c \div GOL_HEIGHT, c % GOL_HEIGHT, edge)
      toBeKilled == {c \in board : count(c) < 2 \/ count(c) > 3}
      toBeRevived == {c \in Cell \ board : count(c) = 3}
  IN  (board \ toBeKilled) \union toBeRevived

\* The rest of the frame after the key: a generation in run mode.
Generation(board, mode) ==
  IF mode = 1
  THEN \E edge \in BOOLEAN : cells' = gol_update(board, edge)
  ELSE cells' = board

Playing == state # 2 /\ ~broken

\* 'w': the uint8_t coordinate wraps below 0, and the test then clamps it.
Up(x) ==
  LET y == (x - 1) % CursorMod IN IF y > GOL_WIDTH THEN GOL_WIDTH ELSE y

gol_key_w ==
  /\ Playing
  /\ cursor' = <<Up(cursor[1]), cursor[2]>>
  /\ Generation(cells, state)
  /\ UNCHANGED <<state, broken>>

\* 's': the test "cursor[0] < 0" is never true.
gol_key_s ==
  /\ Playing
  /\ cursor' = <<(cursor[1] + 1) % CursorMod, cursor[2]>>
  /\ Generation(cells, state)
  /\ UNCHANGED <<state, broken>>

\* 'a': nor is "cursor[1] < 0".
gol_key_a ==
  /\ Playing
  /\ cursor' = <<cursor[1], (cursor[2] - 1) % CursorMod>>
  /\ Generation(cells, state)
  /\ UNCHANGED <<state, broken>>

gol_key_d ==
  /\ Playing
  /\ LET x == (cursor[2] + 1) % CursorMod
     IN  cursor' = <<cursor[1], IF x > GOL_HEIGHT THEN GOL_HEIGHT ELSE x>>
  /\ Generation(cells, state)
  /\ UNCHANGED <<state, broken>>

\* 'e': the cell under the cursor is toggled, wherever the cursor is.
gol_key_e ==
  LET index == GOL_CI(cursor[1], cursor[2])
      toggled == IF index \in cells THEN cells \ {index} ELSE cells \union {index}
  IN  /\ Playing
      /\ IF index \in Cell
         THEN Generation(toggled, state) /\ UNCHANGED broken
         ELSE broken' = TRUE /\ UNCHANGED cells
      /\ UNCHANGED <<cursor, state>>

\* 'f' starts the run, which computes its first generation in this frame,
\* or ends it and clears the board.
gol_key_f ==
  /\ Playing
  /\ state' = 1 - state
  /\ IF state = 0
     THEN cursor' = <<0, 0>> /\ Generation(cells, 1)
     ELSE cursor' = Home /\ cells' = {}
  /\ UNCHANGED broken

gol_key_q ==
  /\ Playing
  /\ state' = 2
  /\ UNCHANGED <<cells, cursor, broken>>

\* No key, or one the game does not know.
gol_no_key ==
  /\ Playing
  /\ Generation(cells, state)
  /\ UNCHANGED <<cursor, state, broken>>

Next ==
  \/ gol_key_w \/ gol_key_s \/ gol_key_a \/ gol_key_d
  \/ gol_key_e \/ gol_key_f \/ gol_key_q \/ gol_no_key

Spec == Init /\ [][Next]_vars

-----------------------------------------------------------------------------
(* Conway's rule on a plane, the reference for one generation. *)
Alive(board, i, j) ==
  /\ i \in 0 .. GOL_WIDTH - 1 /\ j \in 0 .. GOL_HEIGHT - 1
  /\ GOL_CI(i, j) \in board

Conway(board, i, j) ==
  LET n == Cardinality({c \in (i - 1 .. i + 1) \X (j - 1 .. j + 1) :
                          c # <<i, j>> /\ Alive(board, c[1], c[2])})
  IN  n = 3 \/ (n = 2 /\ Alive(board, i, j))

\* A frame of run mode without a key applies Conway's rule to every cell that
\* the border drawn by gol_draw leaves visible, whatever lies beyond the
\* array and although gol_get_alive_neighbors works on flat indices.
VisibleIsLife ==
  [][gol_no_key /\ state = 1 =>
       \A i \in 1 .. GOL_WIDTH - 2, j \in 1 .. GOL_HEIGHT - 2 :
         Alive(cells', i, j) <=> Conway(cells, i, j)]_vars

=============================================================================
