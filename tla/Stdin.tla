-------------------------------- MODULE Stdin --------------------------------
(***************************************************************************)
(* Who gets the keys: the one-character keyboard cell filled by the        *)
(* keyboard interrupt (kernel/interrupts/keyboard.c), the lock on standard *)
(* input and the prompt (kernel/terminal/prompt.c), and the programs that  *)
(* take the lock (programs/).                                              *)
(*                                                                         *)
(* cat and ls use system calls.  Those run with interrupts off, so each is *)
(* one step.  snake and gameoflife call the same functions directly and    *)
(* can be preempted between any two statements of them.                    *)
(*                                                                         *)
(* A key is the number of its press; what it means (Enter, q, a letter) is *)
(* chosen when it is used.  For the prompt one key may stand for the Enter *)
(* that completes a command; the letters before it only edit the line.     *)
(***************************************************************************)
EXTENDS Integers, Sequences

CONSTANTS
  Programs,  \* processes that run cat_command or ls_command
  Games,     \* processes that run snake_game_loop or gol_game_loop
  prompt,    \* the prompt process
  MaxKeys    \* bound of the model: number of key presses

ASSUME StdinAssumption ==
  /\ MaxKeys \in Nat
  /\ Programs \cap Games = {} /\ prompt \notin Programs \union Games
  /\ 0 \notin Programs \union Games

Process == Programs \union Games \union {prompt}

VARIABLES
  keyboard_buffer,    \* the last key, or 0
  keyboard_has_char,
  keyboard_lock,      \* the spinlock, 0 or 1
  stdin_lock,
  locker_id,          \* pid of the holder, or 0
  pc,
  res,                \* local of keyboard_getch of each game
  pressed,            \* number of keys pressed
  delivered,          \* history variable: <<key, reader, locker_id>> in order
  hung                \* an interrupt handler spins on a lock for ever

cell == <<keyboard_buffer, keyboard_has_char, keyboard_lock>>
lock == <<stdin_lock, locker_id>>
vars == <<cell, lock, pc, res, pressed, delivered, hung>>

ProgramLabels == {"none", "lock", "read", "unlock", "done"}
GameLabels == {"none", "lock", "set id", "set lock", "acquire", "take",
               "clear", "reset", "release", "unlock", "unset id",
               "unset lock", "done"}

TypeOK ==
  /\ keyboard_buffer \in 0 .. MaxKeys
  /\ keyboard_has_char \in BOOLEAN
  /\ keyboard_lock \in {0, 1}
  /\ stdin_lock \in BOOLEAN
  /\ locker_id \in {0} \union Programs \union Games
  /\ pc[prompt] \in {"check", "getch", "handle"}
  /\ \A p \in Programs : pc[p] \in ProgramLabels
  /\ \A g \in Games : pc[g] \in GameLabels
  /\ res \in [Games -> 0 .. MaxKeys]
  /\ pressed \in 0 .. MaxKeys
  /\ delivered \in Seq((1 .. MaxKeys) \X Process
                         \X ({0} \union Programs \union Games))
  /\ hung \in BOOLEAN

Init ==
  /\ keyboard_buffer = 0 /\ keyboard_has_char = FALSE /\ keyboard_lock = 0
  /\ stdin_lock = FALSE /\ locker_id = 0
  /\ pc = [p \in Process |-> IF p = prompt THEN "check" ELSE "none"]
  /\ res = [g \in Games |-> 0]
  /\ pressed = 0
  /\ delivered = <<>>
  /\ hung = FALSE

At(p, label) == ~hung /\ pc[p] = label
Goto(p, label) == pc' = [pc EXCEPT ![p] = label]

\* A caller with interrupts off finds keyboard_lock taken: the process that
\* holds it can never run again.
SpinForEver ==
  /\ hung' = TRUE
  /\ UNCHANGED <<cell, lock, pc, res, pressed, delivered>>

-----------------------------------------------------------------------------
(* The keyboard.  An operator named like the one after it, with a suffix,  *)
(* is a mutant of it: the same code with a bug.                            *)

\* The interrupt of a key press that yields a character.
keyboard_handler ==
  /\ ~hung
  /\ pressed < MaxKeys
  /\ \/ keyboard_lock = 1 /\ SpinForEver
     \/ /\ keyboard_lock = 0
        /\ pressed' = pressed + 1
        /\ keyboard_buffer' = pressed + 1
        /\ keyboard_has_char' = TRUE
        /\ UNCHANGED <<keyboard_lock, lock, pc, res, delivered, hung>>

\* keyboard_has_char after a character has been taken
HasCharAfterGetchStays == keyboard_has_char
HasCharAfterGetch == FALSE

(***************************************************************************)
(* keyboard_getch_syscall, called by p.  With no key it returns -1 and p   *)
(* goes on at labelNone, otherwise p goes on with the key at one of        *)
(* labels.                                                                 *)
(***************************************************************************)
keyboard_getch_syscall(p, labelNone, labels) ==
  \/ /\ ~keyboard_has_char
     /\ Goto(p, labelNone)
     /\ UNCHANGED <<cell, lock, res, pressed, delivered, hung>>
  \/ /\ keyboard_has_char /\ keyboard_lock = 1
     /\ SpinForEver
  \/ /\ keyboard_has_char /\ keyboard_lock = 0
     /\ delivered' = Append(delivered, <<keyboard_buffer, p, locker_id>>)
     /\ keyboard_buffer' = 0
     /\ keyboard_has_char' = HasCharAfterGetch
     /\ \E label \in labels : Goto(p, label)
     /\ UNCHANGED <<keyboard_lock, lock, res, pressed, hung>>

-----------------------------------------------------------------------------
(* The prompt.                                                             *)

\* "if (stdin_lock) continue;"
MayReadAlways == TRUE
MayRead == ~stdin_lock

prompt_check ==
  /\ At(prompt, "check")
  /\ MayRead
  /\ Goto(prompt, "getch")
  /\ UNCHANGED <<cell, lock, res, pressed, delivered, hung>>

prompt_getch ==
  /\ At(prompt, "getch")
  /\ keyboard_getch_syscall(prompt, "check", {"handle"})

\* prompt_handler: edits the line, or starts a program on Enter.
prompt_handler ==
  /\ At(prompt, "handle")
  /\ \/ Goto(prompt, "check")
     \/ \E p \in Programs \union Games :
          /\ pc[p] = "none"
          /\ pc' = [pc EXCEPT ![prompt] = "check", ![p] = "lock"]
  /\ UNCHANGED <<cell, lock, res, pressed, delivered, hung>>

-----------------------------------------------------------------------------
(* cat and ls.                                                             *)

\* System call 6: prompt_lockstdin, repeated until it succeeds.
StdinFreeAlways == TRUE
StdinFree == ~stdin_lock

prompt_lockstdin(p) ==
  /\ At(p, "lock")
  /\ StdinFree
  /\ locker_id' = p
  /\ stdin_lock' = TRUE
  /\ Goto(p, "read")
  /\ UNCHANGED <<cell, res, pressed, delivered, hung>>

\* System call 5 until Enter; the file is then read and printed.
read_line(p) ==
  /\ At(p, "read")
  /\ keyboard_getch_syscall(p, "read", {"read", "unlock"})

\* Mutant of prompt_unlockstdin: only locker_id is reset.
prompt_unlockstdin_id(p) ==
  /\ At(p, "unlock")
  /\ locker_id' = IF stdin_lock /\ locker_id = p THEN 0 ELSE locker_id
  /\ Goto(p, "done")
  /\ UNCHANGED <<cell, stdin_lock, res, pressed, delivered, hung>>

\* System call 7: prompt_unlockstdin.  The process then exits.
prompt_unlockstdin(p) ==
  /\ At(p, "unlock")
  /\ IF stdin_lock /\ locker_id = p
       THEN locker_id' = 0 /\ stdin_lock' = FALSE
       ELSE UNCHANGED lock
  /\ Goto(p, "done")
  /\ UNCHANGED <<cell, res, pressed, delivered, hung>>

-----------------------------------------------------------------------------
(* snake and gameoflife.                                                   *)

\* prompt_lockstdin, statement by statement.  Its spinlock is a local
\* variable and excludes nobody.
game_lock(g) ==
  /\ \/ At(g, "lock") /\ ~stdin_lock /\ Goto(g, "set id") /\ UNCHANGED lock
     \/ /\ At(g, "set id") /\ Goto(g, "set lock")
        /\ locker_id' = g /\ UNCHANGED stdin_lock
     \/ /\ At(g, "set lock") /\ Goto(g, "acquire")
        /\ stdin_lock' = TRUE /\ UNCHANGED locker_id
  /\ UNCHANGED <<cell, res, pressed, delivered, hung>>

\* keyboard_lock after spinlock_acquire in keyboard_getch
Acquired == 1

\* and after spinlock_release
ReleasedNot == 1
Released == 0

\* keyboard_getch, called by the key handler of the game on every frame.
keyboard_getch(g) ==
  /\ \/ /\ At(g, "acquire") /\ keyboard_lock = 0 /\ Goto(g, "take")
        /\ keyboard_lock' = Acquired
        /\ UNCHANGED <<keyboard_buffer, keyboard_has_char, res, delivered>>
     \/ /\ At(g, "take") /\ Goto(g, "clear")
        /\ res' = [res EXCEPT ![g] = keyboard_buffer]
        /\ UNCHANGED <<cell, delivered>>
     \/ /\ At(g, "clear") /\ Goto(g, "reset")
        /\ keyboard_buffer' = 0
        /\ UNCHANGED <<keyboard_has_char, keyboard_lock, res, delivered>>
     \/ /\ At(g, "reset") /\ Goto(g, "release")
        /\ keyboard_has_char' = HasCharAfterGetch
        /\ UNCHANGED <<keyboard_buffer, keyboard_lock, res, delivered>>
     \/ /\ At(g, "release")
        /\ \/ Goto(g, "acquire")
           \/ res[g] # 0 /\ Goto(g, "unlock")
        /\ keyboard_lock' = Released
        /\ delivered' = IF res[g] = 0 THEN delivered
                                      ELSE Append(delivered, <<res[g], g, locker_id>>)
        /\ res' = [res EXCEPT ![g] = 0]
        /\ UNCHANGED <<keyboard_buffer, keyboard_has_char>>
  /\ UNCHANGED <<lock, pressed, hung>>

(***************************************************************************)
(* prompt_unlockstdin.  Its two reads are one step: locker_id = g implies  *)
(* stdin_lock once g has locked.                                           *)
(***************************************************************************)
game_unlock(g) ==
  /\ \/ /\ At(g, "unlock")
        /\ Goto(g, IF stdin_lock /\ locker_id = g THEN "unset id" ELSE "done")
        /\ UNCHANGED lock
     \/ /\ At(g, "unset id") /\ Goto(g, "unset lock")
        /\ locker_id' = 0 /\ UNCHANGED stdin_lock
     \/ /\ At(g, "unset lock") /\ Goto(g, "done")
        /\ stdin_lock' = FALSE /\ UNCHANGED locker_id
  /\ UNCHANGED <<cell, res, pressed, delivered, hung>>

-----------------------------------------------------------------------------
PromptStep == prompt_check \/ prompt_getch \/ prompt_handler
ProgramStep(p) == prompt_lockstdin(p) \/ read_line(p) \/ prompt_unlockstdin(p)
GameStep(g) == game_lock(g) \/ keyboard_getch(g) \/ game_unlock(g)

Next ==
  \/ keyboard_handler
  \/ PromptStep
  \/ \E p \in Programs : ProgramStep(p)
  \/ \E g \in Games : GameStep(g)

Spec == Init /\ [][Next]_vars

\* The scheduler is round-robin, so every process goes on; nobody has to
\* press a key.
FairSpec ==
  /\ Spec
  /\ WF_vars(PromptStep)
  /\ \A p \in Programs : WF_vars(ProgramStep(p))
  /\ \A g \in Games : WF_vars(GameStep(g))

-----------------------------------------------------------------------------
(* Safety.                                                                 *)

\* p has been told that it has standard input, and has not given it back.
Holds(p) ==
  \/ p \in Programs /\ pc[p] \in {"read", "unlock"}
  \/ p \in Games /\ pc[p] \in GameLabels \ {"none", "lock", "set id",
                                            "set lock", "done"}

\* No game has been started.  The system calls of cat and ls are atomic; the
\* calls that a game makes directly are not, and break what follows.
NoGame == \A g \in Games : pc[g] = "none"

(***************************************************************************)
(* As long as no game has been started, prompt_lockstdin gives standard    *)
(* input to one process at a time.                                         *)
(***************************************************************************)
StdinExclusive ==
  NoGame => \A p, q \in Process : Holds(p) /\ Holds(q) => p = q

(***************************************************************************)
(* Keys reach their readers in the order they were pressed, and none twice,*)
(* whoever reads: two system calls, two games, or one of each.             *)
(***************************************************************************)
KeysInOrderOnce ==
  \A i, j \in 1 .. Len(delivered) :
    i < j => delivered[i][1] < delivered[j][1]

(***************************************************************************)
(* prompt_process looks at stdin_lock and then asks for a key, in two      *)
(* steps.  So a key meant for the holder of standard input can go to the   *)
(* prompt, but only one while the holder has it, whenever that is.         *)
(***************************************************************************)
OneStrayKey ==
  NoGame => \A p \in Programs, i, j \in 1 .. Len(delivered) :
    /\ delivered[i][2] = prompt /\ delivered[i][3] = p
    /\ delivered[j][2] = prompt /\ delivered[j][3] = p
    => i = j

(***************************************************************************)
(* The machine hangs in keyboard_handler or in a system call only while a  *)
(* game is preempted between spinlock_acquire and spinlock_release in      *)
(* keyboard_getch: no path leaves keyboard_lock behind.                    *)
(***************************************************************************)
HangsOnlyInGame ==
  hung => \E g \in Games : pc[g] \in {"take", "clear", "reset", "release"}

-----------------------------------------------------------------------------
(* Liveness.                                                               *)

(***************************************************************************)
(* As long as no game is started, a pressed key is taken out of the cell:  *)
(* by the process that holds standard input, or else by the prompt.  Until *)
(* then a further key overwrites it.                                       *)
(***************************************************************************)
KeyIsRead == keyboard_has_char ~> ~keyboard_has_char \/ ~NoGame
=============================================================================
