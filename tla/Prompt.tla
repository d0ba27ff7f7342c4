------------------------------- MODULE Prompt -------------------------------
(***************************************************************************)
(* The line editor of kernel/terminal/prompt.c.  The line is kept twice:   *)
(* line_len, an uint8_t, guards backspace and Enter; buffer_pointer, an    *)
(* uint16_t, is where the next character goes.  A running game clears the  *)
(* screen with prompt_clear, which resets only line_len, and neither side  *)
(* takes a lock: the game may be switched in at any point of a key         *)
(* handler, and the prompt between the wiping of the screen and the reset  *)
(* of line_len.  The kernel is built without optimisation, so line_len++   *)
(* and line_len-- are a load and a store with a switch possible between.   *)
(* Characters are counted, not kept.                                       *)
(***************************************************************************)
EXTENDS Integers

CONSTANTS
  PROMPT_BUFFER_SIZE,
  LINE_LEN_SIZE,      \* how many values line_len has: 2^8 in the code
  Clearers            \* the games

\* An uint16_t can hold every offset in the buffer.
ASSUME PromptAssumption ==
  /\ PROMPT_BUFFER_SIZE \in Nat /\ PROMPT_BUFFER_SIZE < 2^16
  /\ LINE_LEN_SIZE \in Nat /\ LINE_LEN_SIZE > 1

VARIABLES
  line_len,
  buffer_pointer,
  handler,        \* where the prompt is in the handler of a key
  loaded,         \* line_len as the prompt has loaded it
  clearing,       \* the games between the two steps of prompt_clear
  typed,          \* history variable: characters of the line on the screen
  cleared,        \* history variable: prompt_clear was at work since Enter
  raced,          \* history variable: and it overlapped the handler of a key
  broken,         \* buffer_pointer has left the buffer: the model ends there
  last            \* what the last key did

promptvars == <<line_len, buffer_pointer, handler, loaded, clearing, typed,
                cleared, raced, broken, last>>

PromptTypeOK ==
  /\ line_len \in 0 .. LINE_LEN_SIZE - 1
  /\ buffer_pointer \in 0 .. PROMPT_BUFFER_SIZE
  /\ handler \in {"idle", "char", "echo", "erase", "dec", "erased", "enter"}
  /\ loaded \in 0 .. LINE_LEN_SIZE - 1
  /\ clearing \in SUBSET Clearers
  /\ typed \in 0 .. PROMPT_BUFFER_SIZE
  /\ cleared \in BOOLEAN
  /\ raced \in BOOLEAN
  /\ broken \in BOOLEAN
  /\ last \in {"edit", "run", "ignored", "empty"}

PromptInit ==
  /\ line_len = 0 /\ buffer_pointer = 0 /\ typed = 0
  /\ handler = "idle" /\ loaded = 0 /\ clearing = {}
  /\ cleared = FALSE /\ raced = FALSE /\ broken = FALSE /\ last = "edit"

-----------------------------------------------------------------------------
(* An operator named like the one after it, with a suffix, is a mutant of  *)
(* it: the same code with a bug.                                           *)

\* A step of the prompt from one place in a handler to another.
HandlerStep(from, to) ==
  /\ ~broken
  /\ handler = from
  /\ handler' = to
  /\ raced' = (raced \/ clearing # {})
  /\ UNCHANGED <<clearing, cleared>>

\* line_len++ is loaded.  The code does not look for the end of the buffer: the
\* bound of the model is that the user types no further.
prompt_char_handler ==
  /\ HandlerStep("idle", "char")
  /\ buffer_pointer < PROMPT_BUFFER_SIZE
  /\ loaded' = line_len
  /\ last' = "edit"
  /\ UNCHANGED <<line_len, buffer_pointer, typed, broken>>

prompt_char_store ==
  /\ HandlerStep("char", "echo")
  /\ line_len' = (loaded + 1) % LINE_LEN_SIZE
  /\ UNCHANGED <<buffer_pointer, loaded, typed, broken, last>>

\* The character goes to the buffer and to the screen.
prompt_char_echo ==
  /\ HandlerStep("echo", "idle")
  /\ buffer_pointer' = buffer_pointer + 1
  /\ typed' = typed + 1
  /\ UNCHANGED <<line_len, loaded, broken, last>>

\* "if (line_len == 0) return;"
prompt_backspace_handler ==
  /\ HandlerStep("idle", IF line_len = 0 THEN "idle" ELSE "erase")
  /\ last' = "edit"
  /\ UNCHANGED <<line_len, buffer_pointer, loaded, typed, broken>>

\* line_len-- is loaded.
prompt_backspace_load ==
  /\ HandlerStep("erase", "dec")
  /\ loaded' = line_len
  /\ UNCHANGED <<line_len, buffer_pointer, typed, broken, last>>

prompt_backspace_store ==
  /\ HandlerStep("dec", "erased")
  /\ line_len' = (loaded - 1) % LINE_LEN_SIZE
  /\ UNCHANGED <<buffer_pointer, loaded, typed, broken, last>>

\* buffer_pointer is an uint16_t: below 0 it wraps, far behind the buffer.
prompt_backspace_erase ==
  /\ HandlerStep("erased", "idle")
  /\ broken' = (buffer_pointer = 0)
  /\ buffer_pointer' = IF buffer_pointer = 0 THEN 0 ELSE buffer_pointer - 1
  /\ typed' = IF typed = 0 THEN 0 ELSE typed - 1
  /\ UNCHANGED <<line_len, loaded, last>>

\* "if (line_len > 0)"
HasLineLong == line_len > 1
HasLine == line_len > 0

\* The buffer is run as a command or echoed, or nothing is done.
prompt_enter_handler ==
  /\ HandlerStep("idle", "enter")
  /\ last' = IF HasLine THEN "run" ELSE IF typed > 0 THEN "ignored" ELSE "empty"
  /\ UNCHANGED <<line_len, buffer_pointer, loaded, typed, broken>>

\* buffer_pointer after Enter
PointerAfterEnterStays == buffer_pointer
PointerAfterEnter == 0

\* Then the line is emptied.
prompt_enter_reset ==
  /\ ~broken
  /\ handler = "enter"
  /\ handler' = "idle"
  /\ line_len' = 0
  /\ buffer_pointer' = PointerAfterEnter
  /\ typed' = 0
  /\ cleared' = FALSE
  /\ raced' = (clearing # {})
  /\ UNCHANGED <<loaded, clearing, broken, last>>

\* prompt_clear called from the frame loop of game g wipes the screen,
prompt_clear(g) ==
  /\ ~broken
  /\ g \notin clearing
  /\ clearing' = clearing \cup {g}
  /\ typed' = 0
  /\ cleared' = TRUE
  /\ raced' = (raced \/ handler # "idle")
  /\ UNCHANGED <<line_len, buffer_pointer, handler, loaded, broken, last>>

\* and then resets line_len.
prompt_clear_reset(g) ==
  /\ ~broken
  /\ g \in clearing
  /\ clearing' = clearing \ {g}
  /\ line_len' = 0
  /\ cleared' = TRUE
  /\ raced' = (raced \/ handler # "idle")
  /\ UNCHANGED <<buffer_pointer, handler, loaded, typed, broken, last>>

-----------------------------------------------------------------------------
PromptNext == \/ prompt_char_handler
        \/ prompt_char_store
        \/ prompt_char_echo
        \/ prompt_backspace_handler
        \/ prompt_backspace_load
        \/ prompt_backspace_store
        \/ prompt_backspace_erase
        \/ prompt_enter_handler
        \/ prompt_enter_reset
        \/ \E g \in Clearers : prompt_clear(g) \/ prompt_clear_reset(g)

PromptSpec == PromptInit /\ [][PromptNext]_promptvars

-----------------------------------------------------------------------------
(***************************************************************************)
(* Enter, which looks only at the uint8_t line_len, acts on every line that *)
(* is not empty, except those whose length is a multiple of 256, also when *)
(* games have cleared the screen between two keys.  Only when a            *)
(* prompt_clear has overlapped the handler of a key since the last Enter   *)
(* may line_len differ from the line on the screen.                        *)
(***************************************************************************)
EnterActsOnLine ==
  [][prompt_enter_handler /\ ~raced =>
       (last' = "ignored" <=> typed > 0 /\ typed % LINE_LEN_SIZE = 0)]_promptvars

(***************************************************************************)
(* What Enter runs is what the user sees, unless a game has called         *)
(* prompt_clear: that empties the line on the screen and not the buffer.   *)
(* And backspace takes buffer_pointer below the buffer only after a        *)
(* prompt_clear has overlapped the handler of a key, never by keys and     *)
(* clears that take turns.                                                 *)
(***************************************************************************)
RunsWhatIsSeen ==
  /\ ~cleared => buffer_pointer = typed
  /\ broken => raced

=============================================================================
