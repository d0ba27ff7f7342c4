-------------------------------- MODULE Games --------------------------------
(***************************************************************************)
(* The games that the prompt starts as processes, snake and game of life.  *)
(* They share nothing but standard input, which is the subject of Stdin,   *)
(* so a behaviour follows the frames of one of them.                       *)
(***************************************************************************)
EXTENDS Snake

CONSTANTS GOL_WIDTH, GOL_HEIGHT, CursorMod

ASSUME GameOfLifeAssumption ==
  /\ GOL_WIDTH \in 3 .. 2^8 - 1
  /\ GOL_HEIGHT \in 3 .. 2^8 - 1
  /\ CursorMod \in Nat
  /\ CursorMod > GOL_WIDTH + 1 /\ CursorMod > GOL_HEIGHT + 1

VARIABLES
  game,   \* the one that has been started
  life_cells, life_cursor, life_state, life_broken

Life == INSTANCE GameOfLife
          WITH cells <- life_cells, cursor <- life_cursor, state <- life_state,
               broken <- life_broken

lifevars == <<life_cells, life_cursor, life_state, life_broken>>
allvars == <<game, vars, lifevars>>

GamesInit == game \in {"snake", "gameoflife"} /\ Init /\ Life!Init

snake_frame == game = "snake" /\ Next /\ UNCHANGED <<game, lifevars>>
gameoflife_frame == game = "gameoflife" /\ Life!Next /\ UNCHANGED <<game, vars>>

GamesNext == snake_frame \/ gameoflife_frame

GamesSpec == GamesInit /\ [][GamesNext]_allvars

\* See GameOfLife: what is drawn follows Conway's rule.
VisibleIsLife == Life!VisibleIsLife
=============================================================================
