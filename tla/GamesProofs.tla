----------------------------- MODULE GamesProofs -----------------------------
(***************************************************************************)
(* Proofs about the games: about Snake for every board of at least three   *)
(* rows and columns, every start and every first fruit, and about          *)
(* GameOfLife for every board that gol_get_alive_neighbors can index.      *)
(*                                                                         *)
(* NeverIntoNeck is not inductive: it follows from NeckInv, that the head  *)
(* is where the direction leads from the cell behind it, and from what     *)
(* snake_cal_next adds to a cell, which no two moves but opposite ones     *)
(* cancel on such a board.  That the snake crosses itself only on the     *)
(* fruit needs that the board is what snake_update draws (BoardInv), so    *)
(* that a cell of the body is either seen or under the fruit, and that no  *)
(* move stays on its cell (Elsewhere).  VisibleIsLife compares two ways to count: the  *)
(* flat indices around a cell that is drawn are those of its eight         *)
(* neighbours, and no two of them have the same.                           *)
(***************************************************************************)
EXTENDS Games, FiniteSetTheorems, FunctionTheorems, TLAPS

Moving == Direction \ {"Stop"}
Neck == snake[Len(snake) - 1]

NeckInv ==
  state = 1 =>
    /\ direction \in Moving
    /\ Len(snake) > 1 => HeadCell = snake_cal_next(Neck, direction)

\* Between frames the board shows the snake and the fruit on top of it.
BoardInv == cells = Drawn(snake, fruit)

IInv == TypeOK /\ BoardInv /\ NeckInv

-----------------------------------------------------------------------------
(* The arithmetic of the board. *)

\* Quotient and remainder
LEMMA Division ==
  ASSUME NEW a \in Nat, NEW w \in Nat \ {0}
  PROVE  a \div w \in Nat /\ (a \div w) * w <= a /\ a < (a \div w) * w + w
<1>1. a \div w \in Nat
  OBVIOUS
<1>2. (a \div w) * w <= a
  OBVIOUS
<1>3. a < (a \div w) * w + w
  OBVIOUS
<1> QED BY <1>1, <1>2, <1>3

\* A row up and a row down
LEMMA Distributes ==
  ASSUME NEW a \in Int, NEW w \in Nat
  PROVE  (a - 1) * w = a * w - w /\ (a + 1) * w = a * w + w
OBVIOUS

\* A smaller multiple has a smaller factor.
LEMMA Cancels ==
  ASSUME NEW a \in Nat, NEW b \in Nat, NEW w \in Nat, a * w < b * w PROVE a < b
OBVIOUS

\* A row and a column within the board give an index within the array.
LEMMA InRow ==
  ASSUME NEW i \in Nat, NEW j \in Nat, NEW h \in Nat, NEW w \in Nat,
         i <= h - 1, j <= w - 1
  PROVE  i * w + j < h * w
OBVIOUS

\* The cells from the first row to the last, and how many cells there are
LastRow == (SNAKE_HEIGHT - 1) * SNAKE_WIDTH

\* The board has at least three rows and three columns.
LEMMA Sizes ==
  /\ SNAKE_WIDTH \in Nat /\ SNAKE_WIDTH >= 3
  /\ SNAKE_HEIGHT \in Nat /\ SNAKE_HEIGHT >= 3
  /\ N \in Nat /\ LastRow \in Nat
  /\ LastRow >= 2 * SNAKE_WIDTH /\ N = LastRow + SNAKE_WIDTH
<1>1. /\ SNAKE_WIDTH \in Nat /\ SNAKE_WIDTH >= 3
      /\ SNAKE_HEIGHT \in Nat /\ SNAKE_HEIGHT >= 3
  BY SnakeAssumption
<1>2. \A h, w \in Nat : h >= 3 => (h - 1) * w >= 2 * w /\ (h - 1) * w \in Nat
                                   /\ h * w \in Nat /\ h * w = (h - 1) * w + w
  OBVIOUS
<1> QED BY <1>1, <1>2 DEF LastRow, N

\* The row and the column that snake_cal_next finds
LEMMA RowColumn ==
  ASSUME NEW h \in Cell
  PROVE  /\ RowOf(h) \in Int /\ RowOf(h) >= -1 /\ RowOf(h) < SNAKE_HEIGHT
         /\ ColumnOf(h) \in 1 .. SNAKE_WIDTH
         /\ RowOf(h) * SNAKE_WIDTH \in Int
         /\ RowOf(h) * SNAKE_WIDTH + ColumnOf(h) = h
         /\ RowOf(h) = -1 => h = 0
         /\ RowOf(h) = 0 => RowOf(h) * SNAKE_WIDTH = 0
<1>1. h \in Nat /\ h < N
  BY Sizes DEF Cell
<1>2. CASE h = 0
  <2>1. RowOf(h) = -1 /\ RowOf(h) * SNAKE_WIDTH = -SNAKE_WIDTH
    BY <1>2, Sizes DEF RowOf
  <2> QED BY <1>2, <2>1, Sizes DEF ColumnOf
<1>3. CASE h > 0
  <2>1. RowOf(h) = (h - 1) \div SNAKE_WIDTH /\ h - 1 \in Nat
    BY <1>1, <1>3 DEF RowOf
  <2>2. PICK i \in Nat : i = RowOf(h) /\ i * SNAKE_WIDTH <= h - 1
                         /\ h - 1 < i * SNAKE_WIDTH + SNAKE_WIDTH
    <3> DEFINE a == h - 1
    <3>1. a \in Nat /\ SNAKE_WIDTH \in Nat \ {0}
      BY <2>1, Sizes
    <3> HIDE DEF a
    <3>2. /\ a \div SNAKE_WIDTH \in Nat /\ (a \div SNAKE_WIDTH) * SNAKE_WIDTH <= a
          /\ a < (a \div SNAKE_WIDTH) * SNAKE_WIDTH + SNAKE_WIDTH
      BY <3>1, Division
    <3>3. RowOf(h) = a \div SNAKE_WIDTH
      BY <2>1 DEF a
    <3>4. /\ RowOf(h) \in Nat /\ RowOf(h) * SNAKE_WIDTH <= a
          /\ a < RowOf(h) * SNAKE_WIDTH + SNAKE_WIDTH
      BY <3>2, <3>3
    <3> QED BY <3>4 DEF a
  <2>3. i * SNAKE_WIDTH \in Nat
    BY <2>2, Sizes
  <2>4. i * SNAKE_WIDTH < SNAKE_HEIGHT * SNAKE_WIDTH
    BY <1>1, <2>2, <2>3, Sizes DEF N
  <2>5. i < SNAKE_HEIGHT
    BY <2>4, Sizes, Cancels
  <2>6. ColumnOf(h) = h - i * SNAKE_WIDTH
    BY <2>2 DEF ColumnOf
  <2>7. ColumnOf(h) \in 1 .. SNAKE_WIDTH /\ i * SNAKE_WIDTH + ColumnOf(h) = h
    BY <1>1, <2>2, <2>3, <2>6, Sizes
  <2>8. i = 0 => i * SNAKE_WIDTH = 0
    BY Sizes
  <2> QED BY <2>2, <2>3, <2>5, <2>7, <2>8, Sizes
<1> QED BY <1>1, <1>2, <1>3

\* What snake_cal_next adds to a cell in each direction
LEMMA Moves ==
  ASSUME NEW h \in Cell
  PROVE  /\ snake_cal_next(h, "Left") = h - 1
         /\ snake_cal_next(h, "Right") \in {h + 1, h + 1 - SNAKE_WIDTH}
         /\ snake_cal_next(h, "Up") \in {h - SNAKE_WIDTH, h + LastRow,
                                         h + LastRow + SNAKE_WIDTH}
         /\ snake_cal_next(h, "Down") = h + SNAKE_WIDTH
<1>1. PICK i \in Int, j \in 1 .. SNAKE_WIDTH, p \in Int :
        /\ i = RowOf(h) /\ j = ColumnOf(h) /\ p = i * SNAKE_WIDTH
        /\ i >= -1 /\ i < SNAKE_HEIGHT /\ p + j = h
        /\ (i = -1 => h = 0) /\ (i = 0 => p = 0)
  BY RowColumn
<1>2. h \in Nat /\ j \in Nat /\ j >= 1 /\ j <= SNAKE_WIDTH
  BY <1>1, Sizes DEF Cell
<1>3. (i - 1) * SNAKE_WIDTH = p - SNAKE_WIDTH /\ (i + 1) * SNAKE_WIDTH = p + SNAKE_WIDTH
  BY <1>1, Sizes, Distributes
<1>4. snake_cal_next(h, "Left") = h - 1
  <2>1. snake_cal_next(h, "Left") = p + (IF j - 1 < 0 THEN SNAKE_WIDTH ELSE j) - 1
    BY <1>1 DEF snake_cal_next
  <2> QED BY <1>1, <1>2, <2>1
<1>5. snake_cal_next(h, "Right") \in {h + 1, h + 1 - SNAKE_WIDTH}
  <2>1. snake_cal_next(h, "Right") = p + (IF j + 1 > SNAKE_WIDTH THEN 0 ELSE j) + 1
    BY <1>1 DEF snake_cal_next
  <2>2. CASE j + 1 > SNAKE_WIDTH
    <3>1. j = SNAKE_WIDTH
      BY <1>2, <2>2, Sizes
    <3> QED BY <1>1, <1>2, <2>1, <2>2, <3>1, Sizes
  <2>3. CASE ~(j + 1 > SNAKE_WIDTH)
    BY <1>1, <1>2, <2>1, <2>3, Sizes
  <2> QED BY <2>2, <2>3
<1>6. snake_cal_next(h, "Up") \in {h - SNAKE_WIDTH, h + LastRow,
                                   h + LastRow + SNAKE_WIDTH}
  <2>1. snake_cal_next(h, "Up")
          = ((IF i - 1 < 0 THEN SNAKE_HEIGHT ELSE i) - 1) * SNAKE_WIDTH + j
    BY <1>1 DEF snake_cal_next
  <2>2. CASE i = -1 \/ i = 0
    <3>1. snake_cal_next(h, "Up") = LastRow + j
      BY <1>1, <2>1, <2>2 DEF LastRow
    <3>2. i = -1 => p = -SNAKE_WIDTH /\ j = SNAKE_WIDTH
      BY <1>1, <1>2, Sizes
    <3> QED BY <1>1, <1>2, <2>2, <3>1, <3>2, Sizes
  <2>3. CASE i >= 1
    <3>1. snake_cal_next(h, "Up") = (p - SNAKE_WIDTH) + j
      BY <1>1, <1>3, <2>1, <2>3
    <3> QED BY <1>1, <1>2, <3>1, Sizes
  <2> QED BY <1>1, <2>2, <2>3
<1>7. snake_cal_next(h, "Down") = h + SNAKE_WIDTH
  <2>1. snake_cal_next(h, "Down")
          = ((IF i + 1 > SNAKE_HEIGHT THEN 0 ELSE i) + 1) * SNAKE_WIDTH + j
    BY <1>1 DEF snake_cal_next
  <2>2. ~(i + 1 > SNAKE_HEIGHT)
    BY <1>1, Sizes
  <2>3. snake_cal_next(h, "Down") = (p + SNAKE_WIDTH) + j
    BY <1>3, <2>1, <2>2
  <2> QED BY <1>1, <1>2, <2>3, Sizes
<1> QED BY <1>4, <1>5, <1>6, <1>7

\* Two moves lead back only if they are opposite.
LEMMA NoReturn ==
  ASSUME NEW x \in Cell, NEW d \in Moving, NEW e \in Moving, d # Opposite(e),
         snake_cal_next(x, d) \in Cell
  PROVE  snake_cal_next(snake_cal_next(x, d), e) # x
<1> DEFINE y == snake_cal_next(x, d)
           z == snake_cal_next(y, e)
           W == SNAKE_WIDTH
           K == LastRow
<1>1. x \in Nat /\ y \in Nat /\ W \in Nat /\ K \in Nat /\ W >= 3 /\ K >= 2 * W
  BY Sizes DEF Cell
<1>2. /\ d = "Left" => y = x - 1
      /\ d = "Right" => y \in {x + 1, x + 1 - W}
      /\ d = "Up" => y \in {x - W, x + K, x + K + W}
      /\ d = "Down" => y = x + W
  BY Moves
<1>3. /\ e = "Left" => z = y - 1
      /\ e = "Right" => z \in {y + 1, y + 1 - W}
      /\ e = "Up" => z \in {y - W, y + K, y + K + W}
      /\ e = "Down" => z = y + W
  BY Moves
<1>4. \/ d = "Left" /\ e # "Right"
      \/ d = "Right" /\ e # "Left"
      \/ d = "Up" /\ e # "Down"
      \/ d = "Down" /\ e # "Up"
  BY DEF Opposite, Moving, Direction
<1>5. e = "Left" \/ e = "Right" \/ e = "Up" \/ e = "Down"
  BY DEF Moving, Direction
<1> SUFFICES z # x
  OBVIOUS
<1> HIDE DEF y, z, W, K
<1>6. CASE d = "Left"
  BY <1>1, <1>2, <1>3, <1>4, <1>5, <1>6
<1>7. CASE d = "Right"
  BY <1>1, <1>2, <1>3, <1>4, <1>5, <1>7
<1>8. CASE d = "Up"
  BY <1>1, <1>2, <1>3, <1>4, <1>5, <1>8
<1>9. CASE d = "Down"
  BY <1>1, <1>2, <1>3, <1>4, <1>5, <1>9
<1> QED BY <1>4, <1>6, <1>7, <1>8, <1>9

-----------------------------------------------------------------------------
(* The steps of the game. *)

\* What is drawn is a board.
LEMMA DrawnType ==
  ASSUME NEW body, NEW f PROVE Drawn(body, f) \in [Cell -> CellType]
BY DEF Drawn, CellType

\* A snake of one cell has no body: the first board is the one drawn.
LEMMA FirstBoard == snake_init_cells = Drawn(<<Start>>, FirstFruit)
<1>1. Len(<<Start>>) = 1 /\ <<Start>>[1] = Start /\ 1 .. 0 = {} /\ Len(<<Start>>) - 1 = 0
  OBVIOUS
<1>2. \A c \in Cell : Drawn(<<Start>>, FirstFruit)[c]
                       = IF c = FirstFruit THEN "Fruit"
                         ELSE IF c = Start THEN "Snake_Head" ELSE "Empty"
  BY <1>1 DEF Drawn
<1>3. Start \in Cell /\ FirstFruit \in Cell /\ Start # FirstFruit
  BY SnakeAssumption
<1>4. \A c \in Cell : snake_init_cells[c] = Drawn(<<Start>>, FirstFruit)[c]
  BY <1>2, <1>3 DEF snake_init_cells
<1>5. snake_init_cells = [c \in Cell |-> snake_init_cells[c]]
  BY DEF snake_init_cells
<1>6. Drawn(<<Start>>, FirstFruit) \in [Cell -> CellType]
  BY DrawnType
<1> QED BY <1>4, <1>5, <1>6

\* The first board and the first snake
LEMMA InitInv == Init => IInv
<1> SUFFICES ASSUME Init PROVE IInv
  OBVIOUS
<1>1. BoardInv
  BY FirstBoard DEF Init, BoardInv
<1>2. TypeOK
  <2>1. cells \in [Cell -> CellType]
    BY <1>1, DrawnType DEF BoardInv
  <2>2. snake \in Seq(Cell) /\ snake # <<>> /\ fruit \in Cell
    BY SnakeAssumption DEF Init
  <2>3. direction \in Direction /\ state \in 0 .. 2
    BY DEF Init, Direction
  <2>4. broken \in BOOLEAN
    BY Zenon DEF Init
  <2> QED BY <2>1, <2>2, <2>3, <2>4 DEF TypeOK
<1> QED BY <1>1, <1>2 DEF IInv, NeckInv, Init

\* A new fruit lies on the board.
LEMMA FruitOnBoard == FruitCells \subseteq Cell
<1> SUFFICES ASSUME NEW i \in 1 .. SNAKE_HEIGHT - 1, NEW j \in 1 .. SNAKE_WIDTH - 1
             PROVE  i * SNAKE_WIDTH + j \in Cell
  BY DEF FruitCells
<1>1. i \in Nat /\ j \in Nat /\ i <= SNAKE_HEIGHT - 1 /\ j <= SNAKE_WIDTH - 1
  BY Sizes
<1>2. i * SNAKE_WIDTH + j < N
  BY <1>1, Sizes, InRow DEF N
<1>3. i * SNAKE_WIDTH + j \in Nat
  BY <1>1, Sizes
<1> QED BY <1>2, <1>3, Sizes DEF Cell

\* A new game keeps the invariant.
LEMMA RestartInv ==
  ASSUME IInv, Restarted, cells' = Drawn(snake', fruit'), UNCHANGED broken PROVE IInv'
<1>1. TypeOK'
  <2>1. cells' \in [Cell -> CellType]
    BY DrawnType
  <2>2. snake' \in Seq(Cell) /\ snake' # <<>> /\ fruit' \in Cell
    BY SnakeAssumption DEF Restarted
  <2>3. direction' \in Direction /\ state' \in 0 .. 2
    BY DEF Restarted, Direction
  <2>4. broken' \in BOOLEAN
    BY Zenon DEF IInv, TypeOK
  <2> QED BY <2>1, <2>2, <2>3, <2>4 DEF TypeOK
<1>2. BoardInv'
  BY DEF BoardInv
<1> QED BY <1>1, <1>2 DEF IInv, NeckInv, Restarted

\* A snake that has grown or moved keeps its cells, the last one perhaps
\* excepted, and has the next cell for its head.
LEMMA MovedSnake ==
  ASSUME snake \in Seq(Cell), snake # <<>>, NEW next \in Cell,
         snake' = Append(snake, next) \/ snake' = Shifted(next)
  PROVE  /\ snake' \in Seq(Cell) /\ snake' # <<>>
         /\ snake'[Len(snake')] = next
         /\ Len(snake') > 1 => snake'[Len(snake') - 1] = snake[Len(snake)]
         /\ \E off \in {0, 1} :
              /\ Len(snake') - 1 + off = Len(snake)
              /\ \A k \in 1 .. Len(snake') - 1 : snake'[k] = snake[k + off]
<1>1. Len(snake) \in Nat /\ Len(snake) >= 1
  OBVIOUS
<1>2. ASSUME NEW t \in Seq(Cell)
      PROVE  /\ Append(t, next) \in Seq(Cell) /\ Append(t, next) # <<>>
             /\ Len(Append(t, next)) = Len(t) + 1
             /\ Append(t, next)[Len(t) + 1] = next
             /\ \A k \in 1 .. Len(t) : Append(t, next)[k] = t[k]
  OBVIOUS
<1>3. CASE snake' = Append(snake, next)
  <2>1. /\ snake' \in Seq(Cell) /\ snake' # <<>> /\ Len(snake') = Len(snake) + 1
        /\ snake'[Len(snake) + 1] = next
        /\ \A k \in 1 .. Len(snake) : snake'[k] = snake[k]
    BY <1>2, <1>3, Zenon
  <2>2. Len(snake') - 1 + 0 = Len(snake) /\ Len(snake') - 1 = Len(snake)
    BY <1>1, <2>1
  <2>3. \A k \in 1 .. Len(snake') - 1 : k + 0 = k /\ k \in 1 .. Len(snake)
    BY <2>2
  <2>4. \A k \in 1 .. Len(snake') - 1 : snake'[k] = snake[k + 0]
    BY <2>1, <2>3, Zenon
  <2>5. snake'[Len(snake') - 1] = snake[Len(snake)]
    BY <1>1, <2>1, <2>2
  <2> QED BY <2>1, <2>2, <2>4, <2>5, Zenon
<1>4. CASE snake' = Shifted(next)
  <2> DEFINE t == Tail(snake)
  <2>1. /\ t \in Seq(Cell) /\ Len(t) = Len(snake) - 1
        /\ \A k \in 1 .. Len(snake) - 1 : t[k] = snake[k + 1]
    BY <1>1
  <2>2. snake' = Append(t, next)
    BY <1>4 DEF Shifted
  <2> HIDE DEF t
  <2>3. /\ snake' \in Seq(Cell) /\ snake' # <<>> /\ Len(snake') = Len(t) + 1
        /\ snake'[Len(t) + 1] = next
        /\ \A k \in 1 .. Len(t) : snake'[k] = t[k]
    BY <1>2, <2>1, <2>2, Zenon
  <2>4. Len(snake') = Len(snake) /\ Len(snake') - 1 + 1 = Len(snake)
        /\ Len(snake') - 1 = Len(t)
    BY <1>1, <2>1, <2>3
  <2>5. \A k \in 1 .. Len(snake') - 1 : snake'[k] = snake[k + 1]
    BY <2>1, <2>3, <2>4
  <2>6. Len(snake') > 1 => snake'[Len(snake') - 1] = snake[Len(snake)]
    <3> SUFFICES ASSUME Len(snake') > 1 PROVE snake'[Len(snake') - 1] = snake[Len(snake)]
      OBVIOUS
    <3>1. Len(snake') - 1 \in 1 .. Len(snake') - 1
      BY <1>1, <2>4
    <3> QED BY <2>4, <2>5, <3>1, Zenon
  <2> QED BY <2>3, <2>4, <2>5, <2>6, Zenon
<1> QED BY <1>3, <1>4, Zenon

\* A snake that has grown or moved to the next cell in direction dir
LEMMA MoveInv ==
  ASSUME IInv, NEW dir \in Moving, NEW next \in Cell,
         next = snake_cal_next(HeadCell, dir),
         snake' = Append(snake, next) \/ snake' = Shifted(next),
         fruit' \in Cell, cells' = Drawn(snake', fruit'),
         direction' = dir, state' = 1, UNCHANGED broken
  PROVE  IInv'
<1>1. snake \in Seq(Cell) /\ snake # <<>>
  BY DEF IInv, TypeOK
<1>3. /\ snake' \in Seq(Cell) /\ snake' # <<>>
      /\ snake'[Len(snake')] = next
      /\ Len(snake') > 1 => snake'[Len(snake') - 1] = snake[Len(snake)]
  BY <1>1, MovedSnake, Zenon
<1>4. TypeOK'
  <2>1. cells' \in [Cell -> CellType]
    BY DrawnType
  <2>2. broken' \in BOOLEAN
    BY Zenon DEF IInv, TypeOK
  <2>3. direction' \in Direction /\ state' \in 0 .. 2
    BY DEF Moving
  <2> QED BY <1>3, <2>1, <2>2, <2>3 DEF TypeOK
<1>5. BoardInv'
  BY DEF BoardInv
<1>6. NeckInv'
  BY <1>3 DEF NeckInv, HeadCell, Neck
<1> QED BY <1>4, <1>5, <1>6 DEF IInv

\* A move keeps the invariant.
LEMMA UpdateInv ==
  ASSUME IInv, NEW dir \in Moving, snake_update(dir) PROVE IInv'
<1> DEFINE next == snake_cal_next(HeadCell, dir)
<1>1. CASE next \notin Cell
  <2>1. broken' = TRUE /\ UNCHANGED <<cells, snake, direction, fruit, state>>
    BY <1>1 DEF snake_update
  <2>2. broken' \in BOOLEAN
    BY <2>1
  <2>3. TypeOK'
    BY <2>1, <2>2 DEF IInv, TypeOK
  <2>4. BoardInv' /\ NeckInv'
    BY <2>1 DEF IInv, BoardInv, NeckInv, HeadCell, Neck
  <2> QED BY <2>3, <2>4 DEF IInv
<1>2. CASE next \in Cell
  <2>1. /\ UNCHANGED broken
        /\ cells' = Drawn(snake', fruit')
        /\ \/ Restarted
           \/ /\ fruit' \in FruitCells
              /\ snake' = Append(snake, next)
              /\ direction' = dir /\ state' = 1
           \/ /\ snake' = Shifted(next)
              /\ direction' = dir /\ state' = 1
              /\ UNCHANGED fruit
    BY <1>2 DEF snake_update
  <2>2. fruit \in Cell
    BY DEF IInv, TypeOK
  <2>3. CASE Restarted
    BY <2>1, <2>3, RestartInv
  <2>4. CASE ~Restarted
    <3>1. /\ fruit' \in Cell /\ direction' = dir /\ state' = 1
          /\ snake' = Append(snake, next) \/ snake' = Shifted(next)
      BY <2>1, <2>2, <2>4, FruitOnBoard
    <3> QED BY <1>2, <2>1, <3>1, MoveInv
  <2> QED BY <2>3, <2>4
<1> QED BY <1>1, <1>2

\* A key never turns the snake around: Turned is never the opposite direction.
LEMMA NotAround ==
  ASSUME direction \in Direction, NEW d \in Moving
  PROVE  Turned(d) \in Moving /\ direction # Opposite(Turned(d))
BY DEF Turned, Opposite, Moving, Direction

\* Every step keeps the invariant.
LEMMA NextInv == IInv /\ [Next]_vars => IInv'
<1> SUFFICES ASSUME IInv, [Next]_vars PROVE IInv'
  OBVIOUS
<1>1. ASSUME NEW dir \in Moving, snake_turn(dir) PROVE IInv'
  <2>1. Turned(dir) \in Moving
    BY NotAround DEF IInv, TypeOK
  <2>2. CASE state = 1
    BY <1>1, <2>1, <2>2, UpdateInv DEF snake_turn
  <2>3. CASE state # 1
    <3>1. direction' = Turned(dir) /\ UNCHANGED <<cells, snake, fruit, state, broken>>
      BY <1>1, <2>3 DEF snake_turn
    <3>2. direction' \in Direction
      BY <2>1, <3>1 DEF Moving
    <3>3. TypeOK'
      BY <3>1, <3>2 DEF IInv, TypeOK
    <3> QED BY <2>3, <3>1, <3>3 DEF IInv, BoardInv, NeckInv
  <2> QED BY <2>2, <2>3
<1>2. CASE snake_no_key
  BY <1>2, UpdateInv DEF snake_no_key, IInv, NeckInv
<1>3. CASE snake_key_f
  <2>1. "Up" \in Moving
    BY DEF Moving, Direction
  <2>2. CASE snake_update("Up")
    BY <2>1, <2>2, UpdateInv
  <2>3. CASE snake_restart /\ UNCHANGED broken
    <3>1. Restarted /\ cells' = Drawn(<<Start>>, FirstFruit)
      BY <2>3, FirstBoard DEF snake_restart
    <3>2. cells' = Drawn(snake', fruit')
      BY <3>1 DEF Restarted
    <3> QED BY <2>3, <3>1, <3>2, RestartInv
  <2> QED BY <1>3, <2>2, <2>3 DEF snake_key_f
<1>4. CASE snake_key_q
  <2>1. state' = 2 /\ UNCHANGED <<cells, snake, direction, fruit, broken>>
    BY <1>4 DEF snake_key_q
  <2>2. state' \in 0 .. 2
    BY <2>1
  <2>3. TypeOK'
    BY <2>1, <2>2 DEF IInv, TypeOK
  <2> QED BY <2>1, <2>3 DEF IInv, BoardInv, NeckInv
<1>5. CASE UNCHANGED vars
  BY <1>5 DEF vars, IInv, TypeOK, BoardInv, NeckInv, HeadCell, Neck
<1> QED BY <1>1, <1>2, <1>3, <1>4, <1>5 DEF Next, Moving

\* The invariant holds in every state.
LEMMA Inductive == Spec => []IInv
BY InitInv, NextInv, PTL DEF Spec

(***************************************************************************)
(* Type correctness: the cells of the snake and the fruit stay on the      *)
(* board (the game is not followed beyond an access outside it).           *)
(***************************************************************************)
THEOREM TypeCorrect == Spec => []TypeOK
<1>1. IInv => TypeOK
  BY DEF IInv
<1> QED BY <1>1, Inductive, PTL

\* No move stays on its cell.
LEMMA Elsewhere ==
  ASSUME NEW h \in Cell, NEW d \in Moving PROVE snake_cal_next(h, d) # h
<1> DEFINE y == snake_cal_next(h, d)
           W == SNAKE_WIDTH
           K == LastRow
<1>1. h \in Nat /\ W \in Nat /\ K \in Nat /\ W >= 3 /\ K >= 2 * W
  BY Sizes DEF Cell
<1>2. /\ d = "Left" => y = h - 1
      /\ d = "Right" => y \in {h + 1, h + 1 - W}
      /\ d = "Up" => y \in {h - W, h + K, h + K + W}
      /\ d = "Down" => y = h + W
  BY Moves
<1>3. d = "Left" \/ d = "Right" \/ d = "Up" \/ d = "Down"
  BY DEF Moving, Direction
<1> SUFFICES y # h
  OBVIOUS
<1> HIDE DEF y, W, K
<1> QED BY <1>1, <1>2, <1>3

\* A move to a cell of the body that the board shows is a collision.
LEMMA UpdateCrosses ==
  ASSUME IInv, NEW dir \in Moving, snake_update(dir),
         NoCellTwice(snake), ~NoCellTwice(snake')
  PROVE  /\ snake'[Len(snake')] = fruit
         /\ \E k \in 1 .. Len(snake) : snake[k] = fruit
<1> DEFINE next == snake_cal_next(HeadCell, dir)
<1>1. /\ snake \in Seq(Cell) /\ snake # <<>> /\ fruit \in Cell
      /\ cells = Drawn(snake, fruit)
  BY DEF IInv, TypeOK, BoardInv
<1>2. HeadCell \in Cell /\ Len(snake) \in Nat
  BY <1>1 DEF HeadCell
<1>3. next # HeadCell
  BY <1>2, Elsewhere
<1>4. next \in Cell
  <2>1. snake' # snake
    BY Zenon
  <2> QED BY <2>1 DEF snake_update
<1>5. ~Restarted
  <2>1. Len(<<Start>>) = 1
    OBVIOUS
  <2>2. NoCellTwice(<<Start>>)
    BY <2>1 DEF NoCellTwice
  <2> QED BY <2>2, Zenon DEF Restarted
<1>6. ~Collides(next) /\ (snake' = Append(snake, next) \/ snake' = Shifted(next))
  BY <1>4, <1>5 DEF snake_update
<1> HIDE DEF next
<1>7. /\ snake'[Len(snake')] = next
      /\ snake' \in Seq(Cell)
  BY <1>1, <1>4, <1>6, MovedSnake, Zenon
<1>8. PICK off \in {0, 1} :
        /\ Len(snake') - 1 + off = Len(snake)
        /\ \A k \in 1 .. Len(snake') - 1 : snake'[k] = snake[k + off]
  BY <1>1, <1>4, <1>6, MovedSnake, Zenon
<1>9. PICK i, k \in 1 .. Len(snake') : snake'[i] = snake'[k] /\ i # k
  BY DEF NoCellTwice
<1>10. Len(snake') \in Nat
  BY <1>7
<1>11. \A m \in 1 .. Len(snake') - 1 : m + off \in 1 .. Len(snake)
  BY <1>2, <1>8, <1>10
<1>12. \A l, m \in 1 .. Len(snake') - 1 : snake'[l] = snake'[m] => l = m
  <2> TAKE l, m \in 1 .. Len(snake') - 1
  <2>1. snake'[l] = snake'[m] => l + off = m + off
    BY <1>8, <1>11, Zenon DEF NoCellTwice
  <2> QED BY <1>8, <2>1
<1>13. PICK m \in 1 .. Len(snake') - 1 : snake'[m] = next
  <2>1. \/ i \in 1 .. Len(snake') - 1 /\ k \in 1 .. Len(snake') - 1
        \/ i = Len(snake') /\ k \in 1 .. Len(snake') - 1
        \/ k = Len(snake') /\ i \in 1 .. Len(snake') - 1
    BY <1>9, <1>10
  <2> QED BY <1>7, <1>9, <1>12, <2>1, Zenon
<1>14. snake[m + off] = next /\ m + off \in 1 .. Len(snake)
  BY <1>8, <1>11, <1>13, Zenon
<1>15. m + off # Len(snake)
  BY <1>3, <1>14, Zenon DEF HeadCell
<1>16. m + off \in 1 .. Len(snake) - 1
  BY <1>2, <1>14, <1>15
<1>17. next = fruit
  <2> SUFFICES ASSUME next # fruit PROVE FALSE
    OBVIOUS
  <2>1. cells[next] = IF next = fruit THEN "Fruit"
                      ELSE IF next = snake[Len(snake)] THEN "Snake_Head"
                      ELSE IF \E l \in 1 .. Len(snake) - 1 : snake[l] = next
                           THEN "Snake_Body" ELSE "Empty"
    BY <1>1, <1>4, Zenon DEF Drawn
  <2>2. cells[next] = "Snake_Body"
    BY <1>3, <1>14, <1>16, <2>1, Zenon DEF HeadCell
  <2> QED BY <1>6, <2>2, Zenon DEF Collides
<1> QED BY <1>7, <1>14, <1>17, Zenon

(***************************************************************************)
(* The collision test of snake_update, which looks at the board and not at *)
(* the snake, misses the snake only where the fruit is drawn over it, on   *)
(* boards of every size and for every place snake_new_fruit_pos may choose.*)
(***************************************************************************)
THEOREM AlwaysCrossesOnlyOnFruit == Spec => CrossesOnlyOnFruit
<1> DEFINE Crosses == NoCellTwice(snake) /\ ~NoCellTwice(snake') =>
                        /\ snake'[Len(snake')] = fruit
                        /\ \E k \in 1 .. Len(snake) : snake[k] = fruit
<1>1. ASSUME IInv, [Next]_vars PROVE [Crosses]_vars
  <2> SUFFICES ASSUME Next, NoCellTwice(snake), ~NoCellTwice(snake') PROVE Crosses
    BY <1>1 DEF vars
  <2>0. snake' # snake
    BY Zenon
  <2>1. ASSUME NEW d \in Moving, snake_update(d) PROVE Crosses
    BY <1>1, <2>1, UpdateCrosses
  <2>2. ASSUME NEW d \in Moving, snake_turn(d) PROVE Crosses
    <3>1. Turned(d) \in Moving
      BY <1>1, NotAround DEF IInv, TypeOK
    <3>2. snake_update(Turned(d))
      BY <2>0, <2>2 DEF snake_turn
    <3> QED BY <2>1, <3>1, <3>2
  <2>3. CASE snake_no_key
    <3>1. direction \in Moving /\ snake_update(direction)
      BY <1>1, <2>3 DEF snake_no_key, IInv, NeckInv
    <3> QED BY <2>1, <3>1
  <2>4. CASE snake_key_f
    <3>1. CASE snake_restart
      <4>1. Len(<<Start>>) = 1
        OBVIOUS
      <4>2. NoCellTwice(<<Start>>)
        BY <4>1 DEF NoCellTwice
      <4> QED BY <3>1, <4>2, Zenon DEF snake_restart, Restarted
    <3>2. "Up" \in Moving
      BY DEF Moving, Direction
    <3> QED BY <2>1, <2>4, <3>1, <3>2 DEF snake_key_f
  <2>5. CASE snake_key_q
    BY <2>0, <2>5 DEF snake_key_q
  <2> QED BY <2>2, <2>3, <2>4, <2>5 DEF Next, Moving
<1>2. Spec => [][Crosses]_vars
  BY <1>1, Inductive, PTL DEF Spec
<1> QED BY <1>2 DEF CrossesOnlyOnFruit

(***************************************************************************)
(* snake_key_handler keeps the snake from turning back into its neck, at   *)
(* the edges where snake_cal_next wraps around too, on every board of at   *)
(* least three rows and three columns.                                     *)
(***************************************************************************)
THEOREM NeverTurnsIntoNeck == Spec => []NeverIntoNeck
<1>1. IInv => NeverIntoNeck
  <2> SUFFICES ASSUME IInv, state = 1, Len(snake) > 1, NEW d \in Moving
               PROVE  snake_cal_next(HeadCell, Turned(d)) # snake[Len(snake) - 1]
    BY DEF NeverIntoNeck, Moving
  <2>1. snake \in Seq(Cell) /\ Len(snake) \in Nat
    BY DEF IInv, TypeOK
  <2>2. Neck \in Cell /\ HeadCell \in Cell
    BY <2>1 DEF Neck, HeadCell
  <2>3. direction \in Moving /\ HeadCell = snake_cal_next(Neck, direction)
    BY DEF IInv, NeckInv
  <2>4. Turned(d) \in Moving /\ direction # Opposite(Turned(d))
    BY <2>3, NotAround DEF Moving
  <2> QED BY <2>2, <2>3, <2>4, NoReturn DEF Neck
<1> QED BY <1>1, Inductive, PTL

-----------------------------------------------------------------------------
(* Game of life. *)

\* A cell has one row and one column.
LEMMA CellParts ==
  ASSUME NEW h \in Nat \ {0}, NEW i \in Nat, NEW j \in 0 .. h - 1
  PROVE  (i * h + j) \div h = i /\ (i * h + j) % h = j
OBVIOUS

\* Two cells of the board with the same index are one.
LEMMA SameCell ==
  ASSUME NEW a \in Nat, NEW b \in 0 .. GOL_HEIGHT - 1,
         NEW c \in Nat, NEW d \in 0 .. GOL_HEIGHT - 1,
         Life!GOL_CI(a, b) = Life!GOL_CI(c, d)
  PROVE  a = c /\ b = d
<1>1. GOL_HEIGHT \in Nat \ {0}
  BY GameOfLifeAssumption
<1>2. (a * GOL_HEIGHT + b) \div GOL_HEIGHT = a /\ (a * GOL_HEIGHT + b) % GOL_HEIGHT = b
  BY <1>1, CellParts, Zenon
<1>3. (c * GOL_HEIGHT + d) \div GOL_HEIGHT = c /\ (c * GOL_HEIGHT + d) % GOL_HEIGHT = d
  BY <1>1, CellParts, Zenon
<1>4. a * GOL_HEIGHT + b = c * GOL_HEIGHT + d
  BY DEF Life!GOL_CI
<1> QED BY <1>2, <1>3, <1>4, Zenon

\* The index of a column and a row
LEMMA InArray ==
  ASSUME NEW w \in Nat, NEW h \in Nat, NEW a \in 0 .. w - 1, NEW b \in 0 .. h - 1
  PROVE  a * h + b \in 0 .. w * h - 1 /\ w * h \in Nat
OBVIOUS

\* The index of a cell on the board lies in the array, and fits an uint16_t.
LEMMA OnBoard ==
  ASSUME NEW a \in 0 .. GOL_WIDTH - 1, NEW b \in 0 .. GOL_HEIGHT - 1
  PROVE  /\ Life!GOL_CI(a, b) \in 0 .. Life!N - 1
         /\ Life!GOL_CI(a, b) % 2^16 = Life!GOL_CI(a, b)
         /\ Life!N \in Nat
<1>1. GOL_WIDTH \in 3 .. 255 /\ GOL_HEIGHT \in 3 .. 255
  BY GameOfLifeAssumption
<1>2. /\ Life!GOL_CI(a, b) \in 0 .. Life!N - 1
      /\ Life!N < 65536 /\ Life!N \in Nat
  <2>1. GOL_WIDTH \in Nat /\ GOL_HEIGHT \in Nat
    BY <1>1
  <2>2. /\ a * GOL_HEIGHT + b \in 0 .. GOL_WIDTH * GOL_HEIGHT - 1
        /\ GOL_WIDTH * GOL_HEIGHT \in Nat
    BY <2>1, InArray, Zenon
  <2>3. GOL_WIDTH * GOL_HEIGHT < 65536
    BY <1>1
  <2>4. Life!GOL_CI(a, b) = a * GOL_HEIGHT + b /\ Life!N = GOL_WIDTH * GOL_HEIGHT
    BY DEF Life!GOL_CI, Life!N
  <2> QED BY <2>2, <2>3, <2>4
<1> QED BY <1>2

\* The live neighbours of a cell, as cells and as the indices that
\* gol_get_alive_neighbors counts
Neighbours(board, i, j) ==
  {c \in (i - 1 .. i + 1) \X (j - 1 .. j + 1) :
     c # <<i, j>> /\ Life!Alive(board, c[1], c[2])}
Indices(board, i, j, edge) ==
  {index \in Life!indeces(i, j) :
     /\ ~(index > Life!N)
     /\ index \in board \/ (index = Life!N /\ edge)}

\* The neighbours of a cell that is drawn are on the board.
LEMMA Around ==
  ASSUME NEW i \in 1 .. GOL_WIDTH - 2, NEW j \in 1 .. GOL_HEIGHT - 2,
         NEW c \in (i - 1 .. i + 1) \X (j - 1 .. j + 1)
  PROVE  c = <<c[1], c[2]>> /\ c[1] \in 0 .. GOL_WIDTH - 1 /\ c[2] \in 0 .. GOL_HEIGHT - 1
BY GameOfLifeAssumption

\* Their indices are all different: there are as many of the ones as of the
\* others, and none lies beyond the array.
LEMMA Counts ==
  ASSUME NEW board, NEW edge, NEW i \in 1 .. GOL_WIDTH - 2, NEW j \in 1 .. GOL_HEIGHT - 2
  PROVE  /\ Cardinality(Indices(board, i, j, edge)) = Cardinality(Neighbours(board, i, j))
         /\ Cardinality(Neighbours(board, i, j)) \in Nat
<1> DEFINE S == Neighbours(board, i, j)
           T == Indices(board, i, j, edge)
           f == [c \in S |-> Life!GOL_CI(c[1], c[2])]
<1>1. i \in Int /\ j \in Int
  BY GameOfLifeAssumption
<1>2. IsFiniteSet(S)
  <2>1. i - 1 \in Int /\ i + 1 \in Int /\ j - 1 \in Int /\ j + 1 \in Int
    BY <1>1
  <2>2. IsFiniteSet((i - 1 .. i + 1) \X (j - 1 .. j + 1))
    <3>1. IsFiniteSet(i - 1 .. i + 1)
      BY <2>1, FS_Interval
    <3>2. IsFiniteSet(j - 1 .. j + 1)
      BY <2>1, FS_Interval
    <3> QED BY <3>1, <3>2, FS_Product, Zenon
  <2>3. S \subseteq (i - 1 .. i + 1) \X (j - 1 .. j + 1)
    BY DEF Neighbours
  <2> QED BY <2>2, <2>3, FS_Subset
<1>3. ASSUME NEW c \in S
      PROVE  /\ c[1] \in 0 .. GOL_WIDTH - 1 /\ c[2] \in 0 .. GOL_HEIGHT - 1
             /\ c = <<c[1], c[2]>>
             /\ Life!GOL_CI(c[1], c[2]) \in T
  <2>1. /\ c \in (i - 1 .. i + 1) \X (j - 1 .. j + 1)
        /\ c # <<i, j>> /\ Life!GOL_CI(c[1], c[2]) \in board
    BY DEF Neighbours, Life!Alive
  <2>2. c = <<c[1], c[2]>> /\ c[1] \in 0 .. GOL_WIDTH - 1 /\ c[2] \in 0 .. GOL_HEIGHT - 1
    BY <2>1, Around
  <2>3. /\ Life!GOL_CI(c[1], c[2]) \in 0 .. Life!N - 1 /\ Life!N \in Nat
        /\ Life!GOL_CI(c[1], c[2]) % 2^16 = Life!GOL_CI(c[1], c[2])
    BY <2>2, OnBoard
  <2> DEFINE d == <<c[1] - i, c[2] - j>>
  <2>4. /\ d \in ((-1 .. 1) \X (-1 .. 1)) \ {<<0, 0>>}
        /\ i + d[1] = c[1] /\ j + d[2] = c[2]
    <3>1. c[1] \in i - 1 .. i + 1 /\ c[2] \in j - 1 .. j + 1
      BY <2>1
    <3>2. c[1] - i \in -1 .. 1 /\ c[2] - j \in -1 .. 1
      BY <1>1, <3>1
    <3>3. c[1] - i # 0 \/ c[2] - j # 0
      BY <1>1, <2>1, <2>2, <3>1
    <3>4. i + (c[1] - i) = c[1] /\ j + (c[2] - j) = c[2]
      BY <1>1, <3>1
    <3> QED BY <3>2, <3>3, <3>4
  <2>5. Life!GOL_CI(c[1], c[2]) \in Life!indeces(i, j)
    <3>1. Life!GOL_CI(c[1], c[2]) = Life!GOL_CI(i + d[1], j + d[2]) % 2^16
      BY <2>3, <2>4
    <3> QED BY <2>4, <3>1 DEF Life!indeces
  <2> QED BY <2>1, <2>2, <2>3, <2>5 DEF Indices
<1>4. ASSUME NEW x \in T PROVE \E c \in S : x = Life!GOL_CI(c[1], c[2])
  <2>1. PICK d \in ((-1 .. 1) \X (-1 .. 1)) \ {<<0, 0>>} :
          x = Life!GOL_CI(i + d[1], j + d[2]) % 2^16
    BY DEF Indices, Life!indeces
  <2> DEFINE c == <<i + d[1], j + d[2]>>
  <2>2. /\ c \in (i - 1 .. i + 1) \X (j - 1 .. j + 1) /\ c # <<i, j>>
        /\ c[1] = i + d[1] /\ c[2] = j + d[2]
    BY <1>1
  <2>3. c[1] \in 0 .. GOL_WIDTH - 1 /\ c[2] \in 0 .. GOL_HEIGHT - 1
    BY <2>2, Around
  <2>4. x = Life!GOL_CI(c[1], c[2]) /\ x \in 0 .. Life!N - 1 /\ Life!N \in Nat
    BY <2>1, <2>2, <2>3, OnBoard
  <2>5. x \in board
    BY <2>4 DEF Indices
  <2>6. c \in S
    BY <2>2, <2>3, <2>4, <2>5 DEF Neighbours, Life!Alive
  <2> QED BY <2>4, <2>6
<1>5. ASSUME NEW c \in S, NEW d \in S, Life!GOL_CI(c[1], c[2]) = Life!GOL_CI(d[1], d[2])
      PROVE  c = d
  <2>1. c[1] \in Nat /\ d[1] \in Nat
    BY <1>3, GameOfLifeAssumption
  <2>2. c[1] = d[1] /\ c[2] = d[2]
    BY <1>3, <1>5, <2>1, SameCell
  <2> QED BY <1>3, <2>2
<1>6. f \in Bijection(S, T)
  <2> HIDE DEF S, T
  <2>1. f \in [S -> T]
    BY <1>3
  <2>2. \A c, d \in S : f[c] = f[d] => c = d
    BY <1>5
  <2>3. \A x \in T : \E c \in S : f[c] = x
    BY <1>4
  <2> QED BY <2>1, <2>2, <2>3, Fun_IsBij
<1>7. ExistsBijection(S, T)
  BY <1>6 DEF ExistsBijection
<1> QED BY <1>2, <1>7, FS_Bijection, FS_CardinalityType

\* The Cardinality of GameOfLife is that of FiniteSets.
LEMMA SameCardinality == ASSUME NEW S PROVE Life!Cardinality(S) = Cardinality(S)
BY DEF Life!Cardinality, Cardinality, Life!IsFiniteSet, IsFiniteSet

\* A generation of gol_update is Conway's rule for the cells that are drawn,
\* whatever is read beyond the array.
LEMMA Rule ==
  ASSUME NEW board, NEW edge, NEW i \in 1 .. GOL_WIDTH - 2, NEW j \in 1 .. GOL_HEIGHT - 2
  PROVE  Life!Alive(Life!gol_update(board, edge), i, j) <=> Life!Conway(board, i, j)
<1> DEFINE c == Life!GOL_CI(i, j)
           n == Cardinality(Neighbours(board, i, j))
<1>1. i \in 0 .. GOL_WIDTH - 1 /\ j \in 0 .. GOL_HEIGHT - 1
  BY GameOfLifeAssumption
<1>2. c \in Life!Cell
  BY <1>1, OnBoard DEF Life!Cell
<1>3. c \div GOL_HEIGHT = i /\ c % GOL_HEIGHT = j
  <2>1. GOL_HEIGHT \in Nat \ {0} /\ i \in Nat
    BY <1>1, GameOfLifeAssumption
  <2> QED BY <1>1, <2>1, CellParts, Zenon DEF Life!GOL_CI
<1>4. Life!gol_get_alive_neighbors(board, c \div GOL_HEIGHT, c % GOL_HEIGHT, edge) = n
  <2>1. Life!gol_get_alive_neighbors(board, i, j, edge)
          = Cardinality(Indices(board, i, j, edge))
    BY SameCardinality, Zenon DEF Life!gol_get_alive_neighbors, Indices
  <2> QED BY <1>3, <2>1, Counts, Zenon
<1>5. n \in Nat
  BY Counts
<1> HIDE DEF c, n
<1>6. c \in Life!gol_update(board, edge) <=>
        \/ c \in board /\ ~(n < 2 \/ n > 3)
        \/ c \notin board /\ n = 3
  BY <1>2, <1>4 DEF Life!gol_update
<1>7. /\ Life!Alive(board, i, j) <=> c \in board
      /\ Life!Alive(Life!gol_update(board, edge), i, j) <=> c \in Life!gol_update(board, edge)
  BY <1>1 DEF c, Life!Alive
<1>8. Life!Conway(board, i, j) <=> n = 3 \/ (n = 2 /\ Life!Alive(board, i, j))
  BY SameCardinality, Zenon DEF Life!Conway, Neighbours, n
<1> QED BY <1>5, <1>6, <1>7, <1>8

(***************************************************************************)
(* What gol_draw shows of a frame of run mode is the next generation by    *)
(* Conway's rule, on every board of up to 255 rows and columns.            *)
(***************************************************************************)
THEOREM VisibleAlwaysLife == GamesSpec => VisibleIsLife
<1>1. ASSUME Life!gol_no_key, life_state = 1,
             NEW i \in 1 .. GOL_WIDTH - 2, NEW j \in 1 .. GOL_HEIGHT - 2
      PROVE  Life!Alive(life_cells', i, j) <=> Life!Conway(life_cells, i, j)
  <2>1. PICK edge \in BOOLEAN : life_cells' = Life!gol_update(life_cells, edge)
    BY <1>1 DEF Life!gol_no_key, Life!Generation
  <2> QED BY <2>1, Rule, Zenon
<1>2. [Life!gol_no_key /\ life_state = 1 =>
         \A i \in 1 .. GOL_WIDTH - 2, j \in 1 .. GOL_HEIGHT - 2 :
           Life!Alive(life_cells', i, j) <=> Life!Conway(life_cells, i, j)]_(Life!vars)
  BY <1>1, Zenon
<1> QED BY <1>2, PTL DEF VisibleIsLife, Life!VisibleIsLife

\* Where gol_key_handler leaves the cursor
LEMMA CursorStays ==
  ASSUME NEW x \in 0 .. CursorMod - 1
  PROVE  /\ (x - 1) % CursorMod \in 0 .. CursorMod - 1
         /\ (x + 1) % CursorMod \in 0 .. CursorMod - 1
         /\ GOL_WIDTH \in 0 .. CursorMod - 1 /\ GOL_HEIGHT \in 0 .. CursorMod - 1
         /\ Life!Up(x) \in 0 .. CursorMod - 1
<1>1. CursorMod \in Nat \ {0}
  BY GameOfLifeAssumption
<1>2. (x - 1) % CursorMod \in 0 .. CursorMod - 1 /\ (x + 1) % CursorMod \in 0 .. CursorMod - 1
  BY <1>1
<1>3. GOL_WIDTH \in 0 .. CursorMod - 1 /\ GOL_HEIGHT \in 0 .. CursorMod - 1
  BY GameOfLifeAssumption
<1> QED BY <1>2, <1>3 DEF Life!Up

\* A frame writes cells of the array only.
LEMMA GenerationType ==
  ASSUME NEW board \in SUBSET Life!Cell, NEW mode, Life!Generation(board, mode)
  PROVE  life_cells' \subseteq Life!Cell
BY DEF Life!Generation, Life!gol_update

(***************************************************************************)
(* Type correctness of the game of life: the live cells are cells of the   *)
(* array, and the cursor fits its two bytes, wherever the keys move it.    *)
(***************************************************************************)
THEOREM LifeTypeCorrect == GamesSpec => []Life!TypeOK
<1>1. GamesInit => Life!TypeOK
  <2> SUFFICES ASSUME GamesInit PROVE Life!TypeOK
    OBVIOUS
  <2>1. life_cells = {} /\ life_cursor = Life!Home /\ life_state = 0 /\ life_broken = FALSE
    BY DEF GamesInit, Life!Init
  <2>2. GOL_WIDTH \div 2 \in 0 .. CursorMod - 1 /\ GOL_HEIGHT \div 2 \in 0 .. CursorMod - 1
    BY GameOfLifeAssumption
  <2>3. life_cursor \in (0 .. CursorMod - 1) \X (0 .. CursorMod - 1)
    BY <2>1, <2>2 DEF Life!Home
  <2>4. life_state \in 0 .. 2 /\ life_cells \subseteq Life!Cell
    BY <2>1
  <2>5. life_broken \in BOOLEAN
    BY <2>1, Zenon
  <2> QED BY <2>3, <2>4, <2>5, Zenon DEF Life!TypeOK
<1>2. Life!TypeOK /\ [GamesNext]_allvars => Life!TypeOK'
  <2> SUFFICES ASSUME Life!TypeOK, [Life!Next]_lifevars PROVE Life!TypeOK'
    BY DEF GamesNext, snake_frame, gameoflife_frame, allvars
  <2> DEFINE Byte == 0 .. CursorMod - 1
  <2>1. /\ life_cells \in SUBSET Life!Cell /\ life_state \in 0 .. 2
        /\ life_cursor[1] \in Byte /\ life_cursor[2] \in Byte
        /\ life_cursor \in Byte \X Byte
    BY DEF Life!TypeOK
  <2>2. life_broken \in BOOLEAN
    BY DEF Life!TypeOK
  <2>3. <<0, 0>> \in Byte \X Byte /\ Life!Home \in Byte \X Byte
    BY GameOfLifeAssumption DEF Life!Home
  <2>4. /\ (life_cursor[1] + 1) % CursorMod \in Byte
        /\ Life!Up(life_cursor[1]) \in Byte
        /\ (life_cursor[2] + 1) % CursorMod \in Byte /\ (life_cursor[2] - 1) % CursorMod \in Byte
        /\ GOL_HEIGHT \in Byte
    BY <2>1, CursorStays
  <2> HIDE DEF Byte
  <2>5. life_cursor' \in Byte \X Byte
    BY <2>1, <2>3, <2>4 DEF Life!Next, Life!gol_key_w, Life!gol_key_s, Life!gol_key_a, Life!gol_key_d,
      Life!gol_key_e, Life!gol_key_f, Life!gol_key_q, Life!gol_no_key, lifevars
  <2>6. life_state' \in 0 .. 2
    BY <2>1 DEF Life!Next, Life!gol_key_w, Life!gol_key_s, Life!gol_key_a, Life!gol_key_d,
      Life!gol_key_e, Life!gol_key_f, Life!gol_key_q, Life!gol_no_key, Life!Playing, lifevars
  <2>7. life_broken' \in BOOLEAN
    BY <2>2, Zenon DEF Life!Next, Life!gol_key_w, Life!gol_key_s, Life!gol_key_a, Life!gol_key_d,
      Life!gol_key_e, Life!gol_key_f, Life!gol_key_q, Life!gol_no_key, lifevars
  <2>8. life_cells' \subseteq Life!Cell
    <3>1. CASE Life!gol_key_e
      <4> DEFINE index == Life!GOL_CI(life_cursor[1], life_cursor[2])
                 toggled == IF index \in life_cells THEN life_cells \ {index}
                            ELSE life_cells \union {index}
      <4>1. CASE index \in Life!Cell
        <5>1. toggled \in SUBSET Life!Cell
          BY <2>1, <4>1
        <5>2. Life!Generation(toggled, life_state)
          BY <3>1, <4>1 DEF Life!gol_key_e
        <5> QED BY <5>1, <5>2, GenerationType, Zenon
      <4>2. CASE index \notin Life!Cell
        BY <2>1, <3>1, <4>2 DEF Life!gol_key_e
      <4> QED BY <4>1, <4>2
    <3>2. CASE Life!gol_key_f
      BY <2>1, <3>2, GenerationType DEF Life!gol_key_f
    <3>3. CASE \E mode : Life!Generation(life_cells, mode)
      BY <2>1, <3>3, GenerationType
    <3>4. CASE UNCHANGED life_cells
      BY <2>1, <3>4
    <3> QED BY <3>1, <3>2, <3>3, <3>4 DEF Life!Next, Life!gol_key_w, Life!gol_key_s,
          Life!gol_key_a, Life!gol_key_d, Life!gol_key_q, Life!gol_no_key, lifevars
  <2> QED BY <2>5, <2>6, <2>7, <2>8 DEF Life!TypeOK, Byte
<1> QED BY <1>1, <1>2, PTL DEF GamesSpec

(***************************************************************************)
(* What is proved of Snake holds of the two games as they are checked      *)
(* together.                                                               *)
(***************************************************************************)
THEOREM SnakeCorrect == GamesSpec => []NeverIntoNeck /\ CrossesOnlyOnFruit
<1>1. GamesInit => Init
  BY DEF GamesInit
<1>2. [GamesNext]_allvars => [Next]_vars
  BY DEF GamesNext, snake_frame, gameoflife_frame, allvars
<1>3. GamesSpec => Spec
  BY <1>1, <1>2, PTL DEF GamesSpec, Spec
<1> QED BY <1>3, AlwaysCrossesOnlyOnFruit, NeverTurnsIntoNeck, PTL
=============================================================================
