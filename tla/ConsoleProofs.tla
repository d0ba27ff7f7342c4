---------------------------- MODULE ConsoleProofs ----------------------------
(***************************************************************************)
(* Proofs about the console: who gets the keys (Stdin), the line that is   *)
(* edited (Prompt) and what is printed (Formatter), for every number of    *)
(* programs, games and keys, every length of the line and every size of    *)
(* the formatter's buffer and of the logger's prefix.                      *)
(*                                                                         *)
(* Stdin.  The order of the keys rests on keyboard_lock: a game copies the *)
(* cell, empties it and resets keyboard_has_char in three steps, and only  *)
(* the lock keeps a second reader and the keyboard interrupt out of them   *)
(* (CellInv).  Then every key that has been read is older than what is in  *)
(* the cell or in the hands of a game (KeyInv).  That only one key strays  *)
(* to the prompt rests on the prompt looking at stdin_lock again before    *)
(* the next key: once it has taken a key from a holder, it is not at       *)
(* prompt_getch until the holder has left (HolderInv).                     *)
(*                                                                         *)
(* Prompt.  buffer_pointer is never behind the line on the screen, and     *)
(* line_len is the length of that line modulo its width, as far as the     *)
(* handler of a key has come with it, unless a prompt_clear overlapped     *)
(* such a handler (PromptInv): the wiped line is empty until the next key. *)
(*                                                                         *)
(* Formatter.  Everything behind the offset is NUL and nothing before it   *)
(* is (BufferInv), so that a text has an end unless it fills the buffer.   *)
(* The last character of the prefix stays NUL, whoever writes to it: the   *)
(* index of every process stops short of it (LoggerInv).  The buffer       *)
(* holds what printf would have printed as far as there is room (PrintInv);*)
(* for the numbers this needs that dividing by the base and putting the    *)
(* remainders in reverse is dividing by its powers (NumeralIs).            *)
(***************************************************************************)
EXTENDS Stdin, Prompt, Formatter, WellFoundedInduction, TLAPS

Labels == {"check", "getch", "handle"} \union ProgramLabels \union GameLabels

TypeInv == TypeOK /\ pc \in [Process -> Labels]

\* g is between spinlock_acquire and spinlock_release of keyboard_getch.
Getting(g) == pc[g] \in {"take", "clear", "reset", "release"}

CellInv ==
  /\ \A g \in Games : Getting(g) => keyboard_lock = 1
  /\ \A g, h \in Games : Getting(g) /\ Getting(h) => g = h
  /\ keyboard_lock = 1 => \E g \in Games : Getting(g)
  /\ hung => keyboard_lock = 1
  /\ keyboard_has_char => \/ keyboard_buffer # 0
                          \/ \E g \in Games : pc[g] = "reset"
  /\ \A g \in Games :
       /\ res[g] # 0 => pc[g] \in {"clear", "reset", "release"}
       /\ pc[g] = "clear" => res[g] = keyboard_buffer
       /\ pc[g] \in {"reset", "release"} => keyboard_buffer = 0

\* The keys that have been read are older than those that have not.
KeyInv ==
  /\ keyboard_buffer <= pressed
  /\ \A g \in Games : res[g] <= pressed
  /\ \A m \in 1 .. Len(delivered) :
       /\ delivered[m][1] <= pressed
       /\ keyboard_buffer # 0 => delivered[m][1] < keyboard_buffer
       /\ \A g \in Games : res[g] # 0 => delivered[m][1] < res[g]
  /\ KeysInOrderOnce

\* The m-th key was meant for p and went to the prompt.
Stray(m, p) == delivered[m][2] = prompt /\ delivered[m][3] = p

\* What the programs that use system calls rely on, until a game is started
HolderInv ==
  NoGame =>
    /\ \A p \in Programs : pc[p] \in {"read", "unlock"} <=> locker_id = p
    /\ \A p \in Programs : locker_id = p => stdin_lock
    /\ \A p \in Programs, m \in 1 .. Len(delivered) : Stray(m, p) =>
         /\ pc[p] \notin {"none", "lock"}
         /\ locker_id = p => pc[prompt] # "getch"
    /\ \A p \in Programs, m, j \in 1 .. Len(delivered) :
         Stray(m, p) /\ Stray(j, p) => m = j

IInv == TypeInv /\ CellInv /\ KeyInv /\ HolderInv

-----------------------------------------------------------------------------
\* The elements of the history are triples that begin with a key.
LEMMA DeliveredType ==
  ASSUME TypeInv
  PROVE  /\ Len(delivered) \in Nat
         /\ \A m \in 1 .. Len(delivered) : delivered[m][1] \in 1 .. MaxKeys
<1> DEFINE T == (1 .. MaxKeys) \X Process \X ({0} \union Programs \union Games)
<1>1. delivered \in Seq(T)
  BY DEF TypeInv, TypeOK
<1>2. \A e \in T : e[1] \in 1 .. MaxKeys
  OBVIOUS
<1> HIDE DEF T
<1> QED BY <1>1, <1>2

\* What delivering one more key does to the history
LEMMA AppendDelivered ==
  ASSUME TypeInv, NEW key \in 1 .. MaxKeys, NEW r \in Process,
         delivered' = Append(delivered, <<key, r, locker_id>>)
  PROVE  /\ delivered' \in Seq((1 .. MaxKeys) \X Process
                                 \X ({0} \union Programs \union Games))
         /\ Len(delivered') = Len(delivered) + 1
         /\ Len(delivered) \in Nat
         /\ \A m \in 1 .. Len(delivered) : delivered'[m] = delivered[m]
         /\ delivered'[Len(delivered')] = <<key, r, locker_id>>
<1> DEFINE T == (1 .. MaxKeys) \X Process \X ({0} \union Programs \union Games)
           e == <<key, r, locker_id>>
<1>1. delivered \in Seq(T)
  BY DEF TypeInv, TypeOK
<1>2. e \in T
  BY DEF TypeInv, TypeOK
<1> HIDE DEF T, e
<1>3. /\ delivered' \in Seq(T)
      /\ Len(delivered') = Len(delivered) + 1
      /\ Len(delivered) \in Nat
      /\ \A m \in 1 .. Len(delivered) : delivered'[m] = delivered[m]
      /\ delivered'[Len(delivered')] = e
  <2>1. delivered' = Append(delivered, e)
    BY DEF e
  <2> QED BY <1>1, <1>2, <2>1
<1> QED BY <1>3 DEF T, e

\* The kernel has started the prompt, and no key has been pressed.
LEMMA InitInv == ASSUME Init PROVE IInv
<1> USE DEF Init
<1>1. prompt \in Process /\ pc \in [Process -> Labels]
  BY DEF Process, Labels, ProgramLabels
<1>2. /\ pc[prompt] = "check"
      /\ \A p \in Programs \union Games : p \in Process /\ pc[p] = "none"
  BY StdinAssumption, Zenon DEF Process
<1>3. TypeInv
  <2>1. 0 \in 0 .. MaxKeys
    BY StdinAssumption
  <2>2. <<>> \in Seq((1 .. MaxKeys) \X Process
                      \X ({0} \union Programs \union Games))
    OBVIOUS
  <2>3. res \in [Games -> 0 .. MaxKeys]
    BY <2>1
  <2>4. TypeOK
    BY <1>2, <2>1, <2>2, <2>3, Zenon DEF TypeOK, ProgramLabels, GameLabels
  <2> QED BY <1>1, <2>4 DEF TypeInv
<1>4. CellInv
  BY <1>2 DEF CellInv, Getting
<1>5. KeyInv
  BY DEF KeyInv, KeysInOrderOnce
<1>6. HolderInv
  BY <1>2, StdinAssumption DEF HolderInv
<1> QED BY <1>3, <1>4, <1>5, <1>6 DEF IInv

\* What is known of the cell holds on if only a process outside of
\* keyboard_getch moves.
LEMMA SameCell ==
  ASSUME CellInv, UNCHANGED <<cell, res, hung>>,
         \A g \in Games : pc'[g] = pc[g] \/ (~Getting(g) /\ ~Getting(g)')
  PROVE  CellInv'
<1>1. UNCHANGED <<keyboard_buffer, keyboard_has_char, keyboard_lock>>
  BY DEF cell
<1>2. \A g \in Games : Getting(g)' <=> Getting(g)
  BY DEF Getting
<1>3. \A g \in Games : pc'[g] \in {"clear", "reset", "release"} => pc'[g] = pc[g]
  BY DEF Getting
<1>4. \A g \in Games : pc[g] \in {"clear", "reset", "release"} => pc'[g] = pc[g]
  BY DEF Getting
<1>5. keyboard_has_char => \/ keyboard_buffer # 0
                           \/ \E g \in Games : pc'[g] = "reset"
  BY <1>4 DEF CellInv
<1>6. \A g \in Games :
        /\ res[g] # 0 => pc'[g] \in {"clear", "reset", "release"}
        /\ pc'[g] = "clear" => res[g] = keyboard_buffer
        /\ pc'[g] \in {"reset", "release"} => keyboard_buffer = 0
  BY <1>3, <1>4 DEF CellInv
<1> QED BY <1>1, <1>2, <1>5, <1>6 DEF CellInv

\* So does what is known of the keys.
LEMMA SameKeys ==
  ASSUME KeyInv, UNCHANGED <<cell, res, pressed, delivered>> PROVE KeyInv'
BY DEF KeyInv, KeysInOrderOnce, cell

\* A caller with interrupts off finds the lock taken.
LEMMA SpinStep ==
  ASSUME IInv, keyboard_lock = 1, SpinForEver PROVE IInv'
<1>1. /\ hung' = TRUE
      /\ UNCHANGED <<keyboard_buffer, keyboard_has_char, keyboard_lock,
                     stdin_lock, locker_id, pc, res, pressed, delivered>>
  BY DEF SpinForEver, cell, lock
<1>2. TypeInv'
  BY <1>1 DEF IInv, TypeInv, TypeOK
<1>3. CellInv'
  BY <1>1 DEF IInv, CellInv, Getting
<1>4. KeyInv'
  BY <1>1, SameKeys DEF IInv, cell
<1>5. HolderInv'
  BY <1>1 DEF IInv, HolderInv, NoGame, Stray
<1> QED BY <1>2, <1>3, <1>4, <1>5 DEF IInv

-----------------------------------------------------------------------------
\* A new key is younger than all that have been read.
LEMMA KeyboardStep == ASSUME IInv, keyboard_handler PROVE IInv'
<1>1. CASE keyboard_lock = 1 /\ SpinForEver
  BY <1>1, SpinStep
<1>2. CASE /\ keyboard_lock = 0 /\ pressed < MaxKeys
           /\ pressed' = pressed + 1
           /\ keyboard_buffer' = pressed + 1
           /\ keyboard_has_char' = TRUE
           /\ UNCHANGED <<keyboard_lock, lock, pc, res, delivered, hung>>
  <2>1. pressed \in Nat /\ pressed + 1 \in 0 .. MaxKeys /\ pressed + 1 # 0
    BY <1>2, StdinAssumption DEF IInv, TypeInv, TypeOK
  <2>2. TypeInv'
    BY <1>2, <2>1 DEF IInv, TypeInv, TypeOK, lock
  <2>3. CellInv'
    BY <1>2, <2>1 DEF IInv, CellInv, Getting
  <2>4. \A g \in Games : res[g] = 0
    BY <1>2 DEF IInv, CellInv, Getting
  <2>5. \A m \in 1 .. Len(delivered) : delivered[m][1] < pressed + 1
    <3>1. \A m \in 1 .. Len(delivered) :
            delivered[m][1] \in 1 .. MaxKeys /\ delivered[m][1] <= pressed
      BY DeliveredType DEF IInv, KeyInv
    <3>2. \A c \in 1 .. MaxKeys : c <= pressed => c < pressed + 1 /\ c <= pressed + 1
      BY <2>1, StdinAssumption
    <3> QED BY <3>1, <3>2
  <2>6. \A m \in 1 .. Len(delivered) : delivered[m][1] <= pressed + 1
    <3>1. \A m \in 1 .. Len(delivered) : delivered[m][1] \in 1 .. MaxKeys
      BY DeliveredType DEF IInv
    <3>2. \A c \in 1 .. MaxKeys : c < pressed + 1 => c <= pressed + 1
      BY <2>1, StdinAssumption
    <3> QED BY <2>5, <3>1, <3>2
  <2>7. KeyInv'
    <3>1. pressed + 1 <= pressed + 1 /\ 0 <= pressed + 1
      BY <2>1
    <3> QED BY <1>2, <2>4, <2>5, <2>6, <3>1 DEF IInv, KeyInv, KeysInOrderOnce
  <2>8. HolderInv'
    BY <1>2 DEF IInv, HolderInv, NoGame, Stray, lock
  <2> QED BY <2>2, <2>3, <2>7, <2>8 DEF IInv
<1> QED BY <1>1, <1>2, Zenon DEF keyboard_handler

\* A system call takes the key out of the cell: it is the youngest of those
\* that have been read, and no game has one in its hands.
LEMMA SyscallTakes ==
  ASSUME IInv, NEW r \in Process, keyboard_has_char, keyboard_lock = 0,
         delivered' = Append(delivered, <<keyboard_buffer, r, locker_id>>),
         keyboard_buffer' = 0, keyboard_has_char' = FALSE,
         UNCHANGED <<keyboard_lock, res, pressed, hung>>,
         \A g \in Games : pc'[g] = pc[g]
  PROVE  CellInv' /\ KeyInv' /\ keyboard_buffer \in 1 .. MaxKeys
<1>1. \A g \in Games : ~Getting(g) /\ res[g] = 0
  BY DEF IInv, CellInv, Getting
<1>2. keyboard_buffer \in 1 .. MaxKeys /\ keyboard_buffer # 0
  <2>1. keyboard_buffer # 0 /\ keyboard_buffer \in 0 .. MaxKeys
    BY <1>1 DEF IInv, CellInv, Getting, TypeInv, TypeOK
  <2> QED BY <2>1, StdinAssumption
<1>3. CellInv'
  BY <1>1 DEF IInv, CellInv, Getting
<1>4. /\ Len(delivered') = Len(delivered) + 1
      /\ Len(delivered) \in Nat
      /\ \A m \in 1 .. Len(delivered) : delivered'[m] = delivered[m]
      /\ delivered'[Len(delivered')] = <<keyboard_buffer, r, locker_id>>
  BY <1>2, AppendDelivered DEF IInv
<1>5. \A m \in 1 .. Len(delivered') :
        m \in 1 .. Len(delivered) \/ m = Len(delivered')
  BY <1>4
<1>6. delivered'[Len(delivered')][1] = keyboard_buffer
  BY <1>4
<1>7. \A m \in 1 .. Len(delivered') : delivered'[m][1] <= pressed'
  BY <1>4, <1>5, <1>6 DEF IInv, KeyInv
<1>8. KeysInOrderOnce'
  <2> SUFFICES ASSUME NEW m \in 1 .. Len(delivered'), NEW j \in 1 .. Len(delivered'),
                      m < j
               PROVE  delivered'[m][1] < delivered'[j][1]
    BY DEF KeysInOrderOnce
  <2>1. m \in 1 .. Len(delivered)
    BY <1>4
  <2>2. CASE j = Len(delivered')
    BY <1>2, <1>4, <1>6, <2>1, <2>2 DEF IInv, KeyInv
  <2>3. CASE j \in 1 .. Len(delivered)
    BY <1>4, <2>1, <2>3 DEF IInv, KeyInv, KeysInOrderOnce
  <2> QED BY <1>5, <2>2, <2>3
<1>9. 0 <= pressed
  BY StdinAssumption DEF IInv, TypeInv, TypeOK
<1>10. KeyInv'
  BY <1>1, <1>7, <1>8, <1>9 DEF KeyInv
<1> QED BY <1>2, <1>3, <1>10

-----------------------------------------------------------------------------
\* The prompt looks at stdin_lock: it comes to prompt_getch only if nobody
\* holds standard input.
LEMMA CheckStep == ASSUME IInv, prompt_check PROVE IInv'
<1>1. /\ pc[prompt] = "check" /\ ~stdin_lock
      /\ pc' = [pc EXCEPT ![prompt] = "getch"]
      /\ UNCHANGED <<cell, lock, res, pressed, delivered, hung>>
  BY DEF prompt_check, At, MayRead, Goto
<1>2. UNCHANGED <<keyboard_buffer, keyboard_has_char, keyboard_lock,
                  stdin_lock, locker_id, res, pressed, delivered, hung>>
  BY <1>1 DEF cell, lock
<1>3. /\ pc' \in [Process -> Labels] /\ pc'[prompt] = "getch"
      /\ \A p \in Programs \union Games : pc'[p] = pc[p]
  BY <1>1, StdinAssumption DEF IInv, TypeInv, Labels, Process
<1>4. TypeInv'
  BY <1>2, <1>3 DEF IInv, TypeInv, TypeOK
<1>5. CellInv' /\ KeyInv'
  BY <1>1, <1>3, SameCell, SameKeys DEF IInv
<1>6. \A p \in Programs : NoGame => locker_id # p
  BY <1>1 DEF IInv, HolderInv
<1>7. HolderInv'
  BY <1>2, <1>3, <1>6 DEF IInv, HolderInv, NoGame, Stray
<1> QED BY <1>4, <1>5, <1>7 DEF IInv

\* The key that the prompt takes may be meant for a holder; if so, it is the
\* first one.
LEMMA GetchStep == ASSUME IInv, prompt_getch PROVE IInv'
<1>1. pc[prompt] = "getch" /\ ~hung /\ prompt \in Process
  BY DEF prompt_getch, At, Process
<1>2. CASE /\ pc' = [pc EXCEPT ![prompt] = "check"]
           /\ UNCHANGED <<cell, lock, res, pressed, delivered, hung>>
  <2>1. UNCHANGED <<keyboard_buffer, keyboard_has_char, keyboard_lock,
                    stdin_lock, locker_id, res, pressed, delivered, hung>>
    BY <1>2 DEF cell, lock
  <2>2. /\ pc' \in [Process -> Labels] /\ pc'[prompt] = "check"
        /\ \A p \in Programs \union Games : pc'[p] = pc[p]
    BY <1>2, StdinAssumption DEF IInv, TypeInv, Labels, Process
  <2>3. TypeInv'
    BY <2>1, <2>2 DEF IInv, TypeInv, TypeOK
  <2>4. CellInv' /\ KeyInv'
    BY <1>2, <2>2, SameCell, SameKeys DEF IInv
  <2>5. HolderInv'
    <3> SUFFICES ASSUME NoGame' PROVE HolderInv'
      BY Zenon DEF HolderInv
    <3>1. NoGame
      BY <2>2 DEF NoGame
    <3>2. \A p \in Programs : pc'[p] = pc[p]
      BY <2>2, Zenon
    <3>3. \A p, m : Stray(m, p)' <=> Stray(m, p)
      BY <2>1, Zenon DEF Stray
    <3> QED BY <2>1, <2>2, <3>1, <3>2, <3>3 DEF IInv, HolderInv
  <2> QED BY <2>3, <2>4, <2>5 DEF IInv
<1>3. CASE keyboard_lock = 1 /\ SpinForEver
  BY <1>3, SpinStep
<1>4. CASE /\ keyboard_has_char /\ keyboard_lock = 0
           /\ delivered' = Append(delivered, <<keyboard_buffer, prompt, locker_id>>)
           /\ keyboard_buffer' = 0
           /\ keyboard_has_char' = FALSE
           /\ pc' = [pc EXCEPT ![prompt] = "handle"]
           /\ UNCHANGED <<keyboard_lock, lock, res, pressed, hung>>
  <2>1. UNCHANGED <<stdin_lock, locker_id>>
    BY <1>4 DEF lock
  <2>2. /\ pc' \in [Process -> Labels] /\ pc'[prompt] = "handle"
        /\ \A p \in Programs \union Games : pc'[p] = pc[p]
    BY <1>4, StdinAssumption DEF IInv, TypeInv, Labels, Process
  <2>3. CellInv' /\ KeyInv' /\ keyboard_buffer \in 1 .. MaxKeys
    BY <1>1, <1>4, <2>2, SyscallTakes, Zenon
  <2>4. /\ delivered' \in Seq((1 .. MaxKeys) \X Process
                                \X ({0} \union Programs \union Games))
        /\ Len(delivered') = Len(delivered) + 1
        /\ Len(delivered) \in Nat
        /\ \A m \in 1 .. Len(delivered) : delivered'[m] = delivered[m]
        /\ delivered'[Len(delivered')] = <<keyboard_buffer, prompt, locker_id>>
    BY <1>1, <1>4, <2>3, AppendDelivered DEF IInv
  <2>5. TypeInv'
    <3>1. 0 \in 0 .. MaxKeys
      BY StdinAssumption
    <3> QED BY <1>4, <2>1, <2>2, <2>4, <3>1, Zenon DEF IInv, TypeInv, TypeOK
  <2>6. HolderInv'
    <3> SUFFICES ASSUME NoGame' PROVE HolderInv'
      BY DEF HolderInv
    <3>1. NoGame
      BY <2>2 DEF NoGame
    <3>2. \A m \in 1 .. Len(delivered') :
            m \in 1 .. Len(delivered) \/ m = Len(delivered')
      BY <2>4
    <3>3. \A p \in Programs, m \in 1 .. Len(delivered) : Stray(m, p)' <=> Stray(m, p)
      BY <2>4 DEF Stray
    <3>4. \A p \in Programs : delivered'[Len(delivered')][3] = p <=> locker_id = p
      BY <2>4
    <3>5. \A p \in Programs : locker_id = p =>
            /\ pc[p] \in {"read", "unlock"}
            /\ \A m \in 1 .. Len(delivered) : ~Stray(m, p)
      BY <1>1, <3>1 DEF IInv, HolderInv
    <3>6. \A p \in Programs, m \in 1 .. Len(delivered') : Stray(m, p)' =>
            /\ pc'[p] \notin {"none", "lock"}
            /\ locker_id' = p => pc'[prompt] # "getch"
      BY <2>2, <3>1, <3>2, <3>3, <3>4, <3>5 DEF IInv, HolderInv, Stray
    <3>7. \A p \in Programs, m, j \in 1 .. Len(delivered') :
            Stray(m, p)' /\ Stray(j, p)' => m = j
      BY <3>1, <3>2, <3>3, <3>4, <3>5, SMTT(30) DEF IInv, HolderInv, Stray
    <3> QED BY <2>1, <2>2, <3>1, <3>6, <3>7 DEF IInv, HolderInv
  <2> QED BY <2>3, <2>5, <2>6 DEF IInv
<1> QED BY <1>2, <1>3, <1>4, Zenon DEF prompt_getch, keyboard_getch_syscall,
                                HasCharAfterGetch, Goto

\* The prompt edits its line, or starts a process that has nothing yet.
LEMMA HandleStep == ASSUME IInv, prompt_handler PROVE IInv'
<1>1. /\ pc[prompt] = "handle"
      /\ UNCHANGED <<cell, lock, res, pressed, delivered, hung>>
  BY DEF prompt_handler, At
<1>2. UNCHANGED <<keyboard_buffer, keyboard_has_char, keyboard_lock,
                  stdin_lock, locker_id, res, pressed, delivered, hung>>
  BY <1>1 DEF cell, lock
<1>3. CASE pc' = [pc EXCEPT ![prompt] = "check"]
  <2>1. /\ pc' \in [Process -> Labels] /\ pc'[prompt] = "check"
        /\ \A p \in Programs \union Games : pc'[p] = pc[p]
    BY <1>3, StdinAssumption DEF IInv, TypeInv, Labels, Process
  <2>2. TypeInv'
    BY <1>2, <2>1 DEF IInv, TypeInv, TypeOK
  <2>3. CellInv' /\ KeyInv'
    BY <1>1, <2>1, SameCell, SameKeys DEF IInv
  <2>4. HolderInv'
    BY <1>2, <2>1 DEF IInv, HolderInv, NoGame, Stray
  <2> QED BY <2>2, <2>3, <2>4 DEF IInv
<1>4. ASSUME NEW p \in Programs \union Games, pc[p] = "none",
             pc' = [pc EXCEPT ![prompt] = "check", ![p] = "lock"]
      PROVE  IInv'
  <2>1. /\ pc' \in [Process -> Labels] /\ pc'[prompt] = "check" /\ pc'[p] = "lock"
        /\ \A q \in (Programs \union Games) \ {p} : pc'[q] = pc[q]
    BY <1>4, StdinAssumption DEF IInv, TypeInv, Labels, Process, ProgramLabels
  <2>2. TypeInv'
    BY <1>2, <2>1, Zenon DEF IInv, TypeInv, TypeOK, ProgramLabels, GameLabels
  <2>3. \A g \in Games : pc'[g] = pc[g] \/ (~Getting(g) /\ ~Getting(g)')
    BY <1>4, <2>1, Zenon DEF Getting
  <2>4. CellInv' /\ KeyInv'
    BY <1>1, <2>3, SameCell, SameKeys DEF IInv
  <2>5. NoGame' => NoGame /\ p \in Programs
    BY <2>1, StdinAssumption DEF NoGame
  <2>6. HolderInv'
    <3> SUFFICES ASSUME NoGame' PROVE HolderInv'
      BY DEF HolderInv
    <3>1. \A q \in Programs : pc'[q] \in {"read", "unlock"} <=> locker_id' = q
      BY <1>2, <1>4, <2>1, <2>5, Zenon DEF IInv, HolderInv
    <3>2. \A q \in Programs, m \in 1 .. Len(delivered) : Stray(m, q) => q # p
      BY <1>4, <2>5 DEF IInv, HolderInv
    <3>3. \A q \in Programs, m \in 1 .. Len(delivered') : Stray(m, q)' =>
            /\ pc'[q] \notin {"none", "lock"}
            /\ locker_id' = q => pc'[prompt] # "getch"
      BY <1>2, <2>1, <2>5, <3>2 DEF IInv, HolderInv, Stray
    <3> QED BY <1>2, <2>5, <3>1, <3>3 DEF IInv, HolderInv, Stray
  <2> QED BY <2>2, <2>4, <2>6 DEF IInv
<1> QED BY <1>3, <1>4 DEF prompt_handler, Goto

-----------------------------------------------------------------------------
\* A program gets standard input only if no program has it.
LEMMA LockStep ==
  ASSUME IInv, NEW p \in Programs, prompt_lockstdin(p) PROVE IInv'
<1>1. /\ pc[p] = "lock" /\ ~stdin_lock
      /\ locker_id' = p /\ stdin_lock' = TRUE
      /\ pc' = [pc EXCEPT ![p] = "read"]
      /\ UNCHANGED <<cell, res, pressed, delivered, hung>>
  BY DEF prompt_lockstdin, At, StdinFree, Goto
<1>2. UNCHANGED <<keyboard_buffer, keyboard_has_char, keyboard_lock,
                  res, pressed, delivered, hung>>
  BY <1>1 DEF cell
<1>3. /\ pc' \in [Process -> Labels] /\ pc'[prompt] = pc[prompt] /\ pc'[p] = "read"
      /\ \A q \in (Programs \union Games) \ {p} : pc'[q] = pc[q]
      /\ \A g \in Games : pc'[g] = pc[g]
  BY <1>1, StdinAssumption DEF IInv, TypeInv, Labels, Process, ProgramLabels
<1>4. TypeInv'
  BY <1>1, <1>2, <1>3 DEF IInv, TypeInv, TypeOK, ProgramLabels
<1>5. CellInv' /\ KeyInv'
  BY <1>1, <1>3, SameCell, SameKeys DEF IInv
<1>6. HolderInv'
  <2> SUFFICES ASSUME NoGame' PROVE HolderInv'
    BY DEF HolderInv
  <2>1. NoGame
    BY <1>3 DEF NoGame
  <2>2. \A q \in Programs : pc[q] \notin {"read", "unlock"} /\ locker_id # q
    BY <1>1, <2>1 DEF IInv, HolderInv
  <2>3. \A q \in Programs : pc'[q] \in {"read", "unlock"} <=> locker_id' = q
    BY <1>1, <1>3, <2>2
  <2>4. \A m \in 1 .. Len(delivered) : ~Stray(m, p)
    BY <1>1, <2>1 DEF IInv, HolderInv
  <2>5. \A q \in Programs, m \in 1 .. Len(delivered') : Stray(m, q)' =>
          /\ pc'[q] \notin {"none", "lock"}
          /\ locker_id' = q => pc'[prompt] # "getch"
    BY <1>1, <1>2, <1>3, <2>1, <2>4 DEF IInv, HolderInv, Stray
  <2> QED BY <1>1, <1>2, <2>1, <2>3, <2>5 DEF IInv, HolderInv, Stray
<1> QED BY <1>4, <1>5, <1>6 DEF IInv

\* A program that reads keys goes on reading or is about to unlock.
LEMMA ReadStep ==
  ASSUME IInv, NEW p \in Programs, read_line(p) PROVE IInv'
<1>1. pc[p] = "read" /\ ~hung /\ p \in Process /\ p # prompt
  BY StdinAssumption DEF read_line, At, Process
<1>2. CASE /\ pc' = [pc EXCEPT ![p] = "read"]
           /\ UNCHANGED <<cell, lock, res, pressed, delivered, hung>>
  <2>1. UNCHANGED <<keyboard_buffer, keyboard_has_char, keyboard_lock,
                    stdin_lock, locker_id, res, pressed, delivered, hung>>
    BY <1>2 DEF cell, lock
  <2>2. pc' = pc
    BY <1>1, <1>2 DEF IInv, TypeInv
  <2>3. TypeInv'
    BY <2>1, <2>2 DEF IInv, TypeInv, TypeOK
  <2>4. CellInv' /\ KeyInv'
    BY <1>2, <2>2, SameCell, SameKeys DEF IInv
  <2>5. HolderInv'
    BY <2>1, <2>2 DEF IInv, HolderInv, NoGame, Stray
  <2> QED BY <2>3, <2>4, <2>5 DEF IInv
<1>3. CASE keyboard_lock = 1 /\ SpinForEver
  BY <1>3, SpinStep
<1>4. ASSUME keyboard_has_char, keyboard_lock = 0,
             delivered' = Append(delivered, <<keyboard_buffer, p, locker_id>>),
             keyboard_buffer' = 0,
             keyboard_has_char' = FALSE,
             NEW label \in {"read", "unlock"},
             pc' = [pc EXCEPT ![p] = label],
             UNCHANGED <<keyboard_lock, lock, res, pressed, hung>>
      PROVE  IInv'
  <2>1. UNCHANGED <<stdin_lock, locker_id>>
    BY <1>4 DEF lock
  <2>2. /\ pc' \in [Process -> Labels] /\ pc'[prompt] = pc[prompt] /\ pc'[p] = label
        /\ \A q \in (Programs \union Games) \ {p} : pc'[q] = pc[q]
        /\ \A g \in Games : pc'[g] = pc[g]
    BY <1>4, StdinAssumption DEF IInv, TypeInv, Labels, Process, ProgramLabels
  <2>3. CellInv' /\ KeyInv' /\ keyboard_buffer \in 1 .. MaxKeys
    BY <1>1, <1>4, <2>2, SyscallTakes, Zenon
  <2>4. /\ delivered' \in Seq((1 .. MaxKeys) \X Process
                                \X ({0} \union Programs \union Games))
        /\ Len(delivered') = Len(delivered) + 1
        /\ Len(delivered) \in Nat
        /\ \A m \in 1 .. Len(delivered) : delivered'[m] = delivered[m]
        /\ delivered'[Len(delivered')] = <<keyboard_buffer, p, locker_id>>
    BY <1>1, <1>4, <2>3, AppendDelivered DEF IInv
  <2>5. TypeInv'
    <3>1. 0 \in 0 .. MaxKeys
      BY StdinAssumption
    <3> QED BY <1>4, <2>1, <2>2, <2>4, <3>1, Zenon DEF IInv, TypeInv, TypeOK, ProgramLabels
  <2>6. HolderInv'
    <3> SUFFICES ASSUME NoGame' PROVE HolderInv'
      BY DEF HolderInv
    <3>1. NoGame
      BY <2>2 DEF NoGame
    <3>2. \A m \in 1 .. Len(delivered') :
            m \in 1 .. Len(delivered) \/ m = Len(delivered')
      BY <2>4
    <3>3. delivered'[Len(delivered')][2] = p
      BY <2>4
    <3>4. \A q \in Programs, m \in 1 .. Len(delivered') :
            Stray(m, q)' => m \in 1 .. Len(delivered) /\ Stray(m, q)
      BY <1>1, <2>4, <3>2, <3>3 DEF Stray
    <3>5. \A q \in Programs : pc'[q] \in {"read", "unlock"} <=> pc[q] \in {"read", "unlock"}
      BY <1>1, <2>2
    <3>6. \A q \in Programs : pc'[q] \in {"none", "lock"} => pc[q] \in {"none", "lock"}
      BY <2>2
    <3>7. \A q \in Programs, m \in 1 .. Len(delivered') : Stray(m, q)' =>
            /\ pc'[q] \notin {"none", "lock"}
            /\ locker_id' = q => pc'[prompt] # "getch"
      BY <2>1, <2>2, <3>1, <3>4, <3>6 DEF IInv, HolderInv
    <3>8. \A q \in Programs, m, j \in 1 .. Len(delivered') :
            Stray(m, q)' /\ Stray(j, q)' => m = j
      BY <3>1, <3>4 DEF IInv, HolderInv
    <3> QED BY <2>1, <3>1, <3>5, <3>7, <3>8 DEF IInv, HolderInv
  <2> QED BY <2>3, <2>5, <2>6 DEF IInv
<1> QED BY <1>2, <1>3, <1>4, Zenon DEF read_line, keyboard_getch_syscall,
                                HasCharAfterGetch, Goto

\* The holder gives standard input back and never asks for it again.
LEMMA UnlockStep ==
  ASSUME IInv, NEW p \in Programs, prompt_unlockstdin(p) PROVE IInv'
<1>1. /\ pc[p] = "unlock"
      /\ IF stdin_lock /\ locker_id = p
           THEN locker_id' = 0 /\ stdin_lock' = FALSE
           ELSE stdin_lock' = stdin_lock /\ locker_id' = locker_id
      /\ pc' = [pc EXCEPT ![p] = "done"]
      /\ UNCHANGED <<cell, res, pressed, delivered, hung>>
  BY DEF prompt_unlockstdin, At, Goto, lock
<1>2. UNCHANGED <<keyboard_buffer, keyboard_has_char, keyboard_lock,
                  res, pressed, delivered, hung>>
  BY <1>1 DEF cell
<1>3. /\ pc' \in [Process -> Labels] /\ pc'[prompt] = pc[prompt] /\ pc'[p] = "done"
      /\ \A q \in (Programs \union Games) \ {p} : pc'[q] = pc[q]
      /\ \A g \in Games : pc'[g] = pc[g]
  BY <1>1, StdinAssumption DEF IInv, TypeInv, Labels, Process, ProgramLabels
<1>4. TypeInv'
  <2>1. locker_id' \in {0} \union Programs \union Games /\ stdin_lock' \in BOOLEAN
    BY <1>1, Zenon DEF IInv, TypeInv, TypeOK
  <2> QED BY <1>2, <1>3, <2>1 DEF IInv, TypeInv, TypeOK, ProgramLabels
<1>5. CellInv' /\ KeyInv'
  BY <1>1, <1>3, SameCell, SameKeys DEF IInv
<1>6. HolderInv'
  <2> SUFFICES ASSUME NoGame' PROVE HolderInv'
    BY DEF HolderInv
  <2>1. NoGame
    BY <1>3 DEF NoGame
  <2>2. locker_id = p /\ stdin_lock
    BY <1>1, <2>1 DEF IInv, HolderInv
  <2>3. locker_id' = 0 /\ stdin_lock' = FALSE
    BY <1>1, <2>2
  <2>4. \A q \in Programs : q # 0 /\ (pc'[q] \in {"read", "unlock"} <=> locker_id' = q)
    BY <1>3, <2>1, <2>2, <2>3, StdinAssumption DEF IInv, HolderInv
  <2>5. \A q \in Programs, m \in 1 .. Len(delivered') : Stray(m, q)' =>
          /\ pc'[q] \notin {"none", "lock"}
          /\ locker_id' = q => pc'[prompt] # "getch"
    BY <1>2, <1>3, <2>1, <2>3, <2>4 DEF IInv, HolderInv, Stray
  <2> QED BY <1>2, <2>1, <2>3, <2>4, <2>5 DEF IInv, HolderInv, Stray
<1> QED BY <1>4, <1>5, <1>6 DEF IInv

-----------------------------------------------------------------------------
\* A game that locks or unlocks standard input is not in keyboard_getch.
LEMMA GameLockStep ==
  ASSUME IInv, NEW g \in Games, game_lock(g) \/ game_unlock(g) PROVE IInv'
<1>1. PICK label \in GameLabels \ {"none"} :
        /\ pc' = [pc EXCEPT ![g] = label]
        /\ label \notin {"take", "clear", "reset", "release"} /\ ~Getting(g)
        /\ stdin_lock' \in {stdin_lock, TRUE, FALSE}
        /\ locker_id' \in {locker_id, g, 0}
        /\ UNCHANGED <<cell, res, pressed, delivered, hung>>
  <2>1. CASE game_lock(g)
    BY <2>1, Zenon DEF game_lock, GameLabels, At, Goto, Getting, lock
  <2>2. CASE game_unlock(g)
    BY <2>2, Zenon DEF game_unlock, GameLabels, At, Goto, Getting, lock
  <2> QED BY <2>1, <2>2, Zenon
<1>2. UNCHANGED <<keyboard_buffer, keyboard_has_char, keyboard_lock,
                  res, pressed, delivered, hung>>
  BY <1>1 DEF cell
<1>3. /\ pc' \in [Process -> Labels] /\ pc'[prompt] = pc[prompt] /\ pc'[g] = label
      /\ \A q \in (Programs \union Games) \ {g} : pc'[q] = pc[q]
      /\ \A p \in Programs : pc'[p] = pc[p]
  BY <1>1, StdinAssumption DEF IInv, TypeInv, Labels, Process
<1>4. TypeInv'
  BY <1>1, <1>2, <1>3, Zenon DEF IInv, TypeInv, TypeOK
<1>5. \A h \in Games : pc'[h] = pc[h] \/ (~Getting(h) /\ ~Getting(h)')
  BY <1>1, <1>3 DEF Getting
<1>6. CellInv' /\ KeyInv'
  BY <1>1, <1>5, SameCell, SameKeys DEF IInv
<1>7. HolderInv'
  BY <1>3 DEF HolderInv, NoGame
<1> QED BY <1>4, <1>6, <1>7 DEF IInv

\* What a step of keyboard_getch in a game does to the labels
LEMMA GameGoto ==
  ASSUME IInv, NEW g \in Games, NEW label \in GameLabels \ {"none"},
         pc' = [pc EXCEPT ![g] = label]
  PROVE  /\ pc' \in [Process -> Labels] /\ pc'[prompt] = pc[prompt] /\ pc'[g] = label
         /\ \A q \in (Programs \union Games) \ {g} : pc'[q] = pc[q]
         /\ \A p \in Programs : pc'[p] = pc[p]
         /\ \A h \in Games : pc'[h] \in GameLabels
         /\ HolderInv'
<1>1. /\ pc' \in [Process -> Labels] /\ pc'[prompt] = pc[prompt] /\ pc'[g] = label
      /\ \A q \in (Programs \union Games) \ {g} : pc'[q] = pc[q]
      /\ \A p \in Programs : pc'[p] = pc[p]
  BY StdinAssumption DEF IInv, TypeInv, Labels, Process
<1>2. \A h \in Games : pc'[h] \in GameLabels
  BY <1>1 DEF IInv, TypeInv, TypeOK
<1>3. HolderInv'
  BY <1>1 DEF HolderInv, NoGame
<1> QED BY <1>1, <1>2, <1>3

\* keyboard_getch in a game, statement by statement
LEMMA GameGetchStep ==
  ASSUME IInv, NEW g \in Games, keyboard_getch(g) PROVE IInv'
<1>0. UNCHANGED <<stdin_lock, locker_id, pressed, hung>> /\ ~hung
  BY DEF keyboard_getch, lock, At
<1>1. CASE /\ pc[g] = "acquire" /\ keyboard_lock = 0
           /\ pc' = [pc EXCEPT ![g] = "take"]
           /\ keyboard_lock' = 1
           /\ UNCHANGED <<keyboard_buffer, keyboard_has_char, res, delivered>>
  <2>1. /\ pc' \in [Process -> Labels] /\ pc'[prompt] = pc[prompt] /\ pc'[g] = "take"
        /\ \A q \in (Programs \union Games) \ {g} : pc'[q] = pc[q]
        /\ \A p \in Programs : pc'[p] = pc[p]
        /\ \A h \in Games : pc'[h] \in GameLabels
        /\ HolderInv'
    BY <1>1, GameGoto, Zenon DEF GameLabels
  <2>2. TypeInv'
    BY <1>0, <1>1, <2>1 DEF IInv, TypeInv, TypeOK
  <2>3. \A h \in Games : ~Getting(h)
    BY <1>1 DEF IInv, CellInv
  <2>4. CellInv'
    <3>1. Getting(g)' /\ \A h \in Games \ {g} : pc'[h] = pc[h] /\ ~Getting(h)'
      <4>1. \A h \in Games \ {g} : pc'[h] = pc[h]
        BY <2>1, Zenon
      <4> QED BY <2>1, <2>3, <4>1 DEF Getting
    <3>2. \A h \in Games : pc[h] \notin {"take", "clear", "reset", "release"}
      BY <2>3, Zenon DEF Getting
    <3>3. keyboard_has_char => keyboard_buffer # 0
      BY <3>2, Zenon DEF IInv, CellInv
    <3>4. \A h \in Games : res[h] = 0
      BY <3>2, Zenon DEF IInv, CellInv
    <3>5. \A h \in Games : pc'[h] \notin {"clear", "reset", "release"}
      BY <2>1, <3>1, <3>2
    <3> QED BY <1>0, <1>1, <3>1, <3>3, <3>4, <3>5 DEF CellInv
  <2>5. KeyInv'
    BY <1>0, <1>1 DEF IInv, KeyInv, KeysInOrderOnce
  <2> QED BY <2>1, <2>2, <2>4, <2>5 DEF IInv
<1>2. CASE /\ pc[g] = "take"
           /\ pc' = [pc EXCEPT ![g] = "clear"]
           /\ res' = [res EXCEPT ![g] = keyboard_buffer]
           /\ UNCHANGED <<keyboard_buffer, keyboard_has_char, keyboard_lock, delivered>>
  <2>1. /\ pc' \in [Process -> Labels] /\ pc'[prompt] = pc[prompt] /\ pc'[g] = "clear"
        /\ \A q \in (Programs \union Games) \ {g} : pc'[q] = pc[q]
        /\ \A p \in Programs : pc'[p] = pc[p]
        /\ \A h \in Games : pc'[h] \in GameLabels
        /\ HolderInv'
    BY <1>2, GameGoto, Zenon DEF GameLabels
  <2>2. TypeInv'
    BY <1>0, <1>2, <2>1 DEF IInv, TypeInv, TypeOK
  <2>3. /\ keyboard_lock = 1
        /\ \A h \in Games \ {g} : ~Getting(h) /\ res[h] = 0
    BY <1>2 DEF IInv, CellInv, Getting
  <2>4. res'[g] = keyboard_buffer /\ \A h \in Games \ {g} : res'[h] = res[h]
    BY <1>2 DEF IInv, TypeInv, TypeOK
  <2>5. CellInv'
    <3>1. keyboard_has_char => keyboard_buffer # 0
      BY <1>2, <2>3 DEF IInv, CellInv, Getting
    <3> QED BY <1>0, <1>2, <2>1, <2>3, <2>4, <3>1 DEF IInv, CellInv, Getting
  <2>6. KeyInv'
    BY <1>0, <1>2, <2>3, <2>4, Zenon DEF IInv, KeyInv, KeysInOrderOnce
  <2> QED BY <2>1, <2>2, <2>5, <2>6 DEF IInv
<1>3. CASE /\ pc[g] = "clear"
           /\ pc' = [pc EXCEPT ![g] = "reset"]
           /\ keyboard_buffer' = 0
           /\ UNCHANGED <<keyboard_has_char, keyboard_lock, res, delivered>>
  <2>1. /\ pc' \in [Process -> Labels] /\ pc'[prompt] = pc[prompt] /\ pc'[g] = "reset"
        /\ \A q \in (Programs \union Games) \ {g} : pc'[q] = pc[q]
        /\ \A p \in Programs : pc'[p] = pc[p]
        /\ \A h \in Games : pc'[h] \in GameLabels
        /\ HolderInv'
    BY <1>3, GameGoto, Zenon DEF GameLabels
  <2>2. 0 \in 0 .. MaxKeys /\ 0 <= pressed
    BY StdinAssumption DEF IInv, TypeInv, TypeOK
  <2>3. TypeInv'
    BY <1>0, <1>3, <2>1, <2>2 DEF IInv, TypeInv, TypeOK
  <2>4. /\ keyboard_lock = 1
        /\ \A h \in Games \ {g} : ~Getting(h) /\ res[h] = 0
    BY <1>3 DEF IInv, CellInv, Getting
  <2>5. CellInv'
    BY <1>0, <1>3, <2>1, <2>4, ZenonT(40) DEF IInv, CellInv, Getting
  <2>6. KeyInv'
    BY <1>0, <1>3, <2>2 DEF IInv, KeyInv, KeysInOrderOnce
  <2> QED BY <2>1, <2>3, <2>5, <2>6 DEF IInv
<1>4. CASE /\ pc[g] = "reset"
           /\ pc' = [pc EXCEPT ![g] = "release"]
           /\ keyboard_has_char' = FALSE
           /\ UNCHANGED <<keyboard_buffer, keyboard_lock, res, delivered>>
  <2>1. /\ pc' \in [Process -> Labels] /\ pc'[prompt] = pc[prompt] /\ pc'[g] = "release"
        /\ \A q \in (Programs \union Games) \ {g} : pc'[q] = pc[q]
        /\ \A p \in Programs : pc'[p] = pc[p]
        /\ \A h \in Games : pc'[h] \in GameLabels
        /\ HolderInv'
    BY <1>4, GameGoto, Zenon DEF GameLabels
  <2>2. TypeInv'
    BY <1>0, <1>4, <2>1, Zenon DEF IInv, TypeInv, TypeOK
  <2>3. /\ keyboard_lock = 1
        /\ \A h \in Games \ {g} : ~Getting(h) /\ res[h] = 0
    BY <1>4 DEF IInv, CellInv, Getting
  <2>4. CellInv'
    BY <1>0, <1>4, <2>1, <2>3, ZenonT(40) DEF IInv, CellInv, Getting
  <2>5. KeyInv'
    BY <1>0, <1>4, Zenon DEF IInv, KeyInv, KeysInOrderOnce
  <2> QED BY <2>1, <2>2, <2>4, <2>5 DEF IInv
<1>5. ASSUME pc[g] = "release", NEW label \in {"acquire", "unlock"},
             pc' = [pc EXCEPT ![g] = label],
             keyboard_lock' = 0,
             delivered' = IF res[g] = 0 THEN delivered
                          ELSE Append(delivered, <<res[g], g, locker_id>>),
             res' = [res EXCEPT ![g] = 0],
             UNCHANGED <<keyboard_buffer, keyboard_has_char>>
      PROVE  IInv'
  <2>1. /\ pc' \in [Process -> Labels] /\ pc'[prompt] = pc[prompt] /\ pc'[g] = label
        /\ \A q \in (Programs \union Games) \ {g} : pc'[q] = pc[q]
        /\ \A p \in Programs : pc'[p] = pc[p]
        /\ \A h \in Games : pc'[h] \in GameLabels
        /\ HolderInv'
    BY <1>5, GameGoto, Zenon DEF GameLabels
  <2>2. 0 \in 0 .. MaxKeys /\ 0 <= pressed /\ g \in Process
    BY StdinAssumption DEF IInv, TypeInv, TypeOK, Process
  <2>3. \A h \in Games \ {g} : ~Getting(h) /\ res[h] = 0
    BY <1>5 DEF IInv, CellInv, Getting
  <2>4. \A h \in Games : res'[h] = 0
    BY <1>5, <2>3 DEF IInv, TypeInv, TypeOK
  <2>5. keyboard_buffer = 0 /\ keyboard_lock = 1
    BY <1>5 DEF IInv, CellInv, Getting
  <2>6. ~keyboard_has_char
    BY <1>5, <2>3, <2>5 DEF IInv, CellInv, Getting
  <2>7. CellInv'
    BY <1>0, <1>5, <2>1, <2>3, <2>4, <2>6 DEF CellInv, Getting
  <2>8. CASE res[g] = 0
    <3>1. TypeInv'
      BY <1>0, <1>5, <2>1, <2>2, <2>8 DEF IInv, TypeInv, TypeOK
    <3>2. KeyInv'
      BY <1>0, <1>5, <2>2, <2>4, <2>5, <2>8, Zenon DEF IInv, KeyInv, KeysInOrderOnce
    <3> QED BY <2>1, <2>7, <3>1, <3>2 DEF IInv
  <2>9. CASE res[g] # 0
    <3>1. res[g] \in 1 .. MaxKeys
      <4>1. res[g] \in 0 .. MaxKeys
        BY DEF IInv, TypeInv, TypeOK
      <4> QED BY <2>9, <4>1, StdinAssumption
    <3>2. /\ delivered' \in Seq((1 .. MaxKeys) \X Process
                                  \X ({0} \union Programs \union Games))
          /\ Len(delivered') = Len(delivered) + 1
          /\ Len(delivered) \in Nat
          /\ \A m \in 1 .. Len(delivered) : delivered'[m] = delivered[m]
          /\ delivered'[Len(delivered')] = <<res[g], g, locker_id>>
      BY <1>5, <2>2, <2>9, <3>1, AppendDelivered DEF IInv
    <3>3. TypeInv'
      BY <1>0, <1>5, <2>1, <2>2, <3>2 DEF IInv, TypeInv, TypeOK
    <3>4. \A m \in 1 .. Len(delivered') :
            m \in 1 .. Len(delivered) \/ m = Len(delivered')
      BY <3>2
    <3>5. delivered'[Len(delivered')][1] = res[g]
      BY <3>2
    <3>6. \A m \in 1 .. Len(delivered') : delivered'[m][1] <= pressed'
      BY <1>0, <3>2, <3>4, <3>5, ZenonT(40) DEF IInv, KeyInv
    <3>7. KeysInOrderOnce'
      <4> SUFFICES ASSUME NEW m \in 1 .. Len(delivered'),
                          NEW j \in 1 .. Len(delivered'), m < j
                   PROVE  delivered'[m][1] < delivered'[j][1]
        BY DEF KeysInOrderOnce
      <4>1. m \in 1 .. Len(delivered)
        BY <3>2
      <4>2. CASE j = Len(delivered')
        BY <2>9, <3>2, <3>5, <4>1, <4>2 DEF IInv, KeyInv
      <4>3. CASE j \in 1 .. Len(delivered)
        BY <3>2, <4>1, <4>3, ZenonT(40) DEF IInv, KeyInv, KeysInOrderOnce
      <4> QED BY <3>4, <4>2, <4>3
    <3>8. KeyInv'
      BY <1>0, <1>5, <2>2, <2>4, <2>5, <3>6, <3>7 DEF KeyInv
    <3> QED BY <2>1, <2>7, <3>3, <3>8 DEF IInv
  <2> QED BY <2>8, <2>9
<1> QED BY <1>1, <1>2, <1>3, <1>4, <1>5, Zenon
        DEF keyboard_getch, At, Goto, Acquired, Released, HasCharAfterGetch, cell

-----------------------------------------------------------------------------
\* Every step preserves the invariant.
LEMMA NextInv == ASSUME IInv, [Next]_vars PROVE IInv'
<1>1. CASE UNCHANGED vars
  <2>1. UNCHANGED <<keyboard_buffer, keyboard_has_char, keyboard_lock, stdin_lock,
                    locker_id, pc, res, pressed, delivered, hung, cell>>
    BY <1>1 DEF vars, cell, lock
  <2>2. CellInv' /\ KeyInv'
    BY <2>1, SameCell, SameKeys DEF IInv
  <2>3. TypeInv'
    BY <2>1, Zenon DEF IInv, TypeInv, TypeOK
  <2>4. HolderInv'
    BY <2>1, Zenon DEF IInv, HolderInv, NoGame, Stray
  <2> QED BY <2>2, <2>3, <2>4, Zenon DEF IInv
<1> QED BY <1>1, KeyboardStep, CheckStep, GetchStep, HandleStep, LockStep, ReadStep,
           UnlockStep, GameLockStep, GameGetchStep
        DEF Next, PromptStep, ProgramStep, GameStep

\* The invariant holds in every reachable state.
LEMMA Inductive == Spec => []IInv
BY InitInv, NextInv, PTL DEF Spec

(***************************************************************************)
(* The variables of the keyboard driver and of the prompt keep their       *)
(* types: nobody is ever handed the empty cell for a key.                  *)
(***************************************************************************)
THEOREM TypeCorrect == Spec => []TypeOK
<1>1. IInv => TypeOK
  BY DEF IInv, TypeInv
<1> QED BY <1>1, Inductive, PTL

(***************************************************************************)
(* Keys reach their readers in the order they were pressed, and none twice,*)
(* however many games and system calls read.                               *)
(***************************************************************************)
THEOREM KeysAlwaysInOrder == Spec => []KeysInOrderOnce
<1>1. IInv => KeysInOrderOnce
  BY DEF IInv, KeyInv
<1> QED BY <1>1, Inductive, PTL

(***************************************************************************)
(* Until a game is started, prompt_lockstdin gives standard input to one   *)
(* process at a time.                                                      *)
(***************************************************************************)
THEOREM StdinAlwaysExclusive == Spec => []StdinExclusive
<1>1. ASSUME IInv PROVE StdinExclusive
  <2> SUFFICES ASSUME NoGame, NEW p \in Process, NEW q \in Process,
                      Holds(p), Holds(q)
               PROVE  p = q
    BY DEF StdinExclusive
  <2>1. \A r \in Process : Holds(r) => r \in Programs /\ locker_id = r
    BY <1>1, Zenon DEF IInv, HolderInv, Holds, NoGame
  <2> QED BY <2>1
<1> QED BY <1>1, Inductive, PTL

(***************************************************************************)
(* Until a game is started, at most one key goes to the prompt instead of  *)
(* the process that holds standard input.                                  *)
(***************************************************************************)
THEOREM AtMostOneStray == Spec => []OneStrayKey
<1>1. IInv => OneStrayKey
  BY DEF IInv, HolderInv, Stray, OneStrayKey
<1> QED BY <1>1, Inductive, PTL

(***************************************************************************)
(* The machine hangs in keyboard_handler or in a system call only on a     *)
(* game that was preempted inside keyboard_getch.                          *)
(***************************************************************************)
THEOREM NoLockLeftBehind == Spec => []HangsOnlyInGame
<1>1. IInv => HangsOnlyInGame
  BY DEF IInv, CellInv, Getting, HangsOnlyInGame
<1> QED BY <1>1, Inductive, PTL

-----------------------------------------------------------------------------
(* Arithmetic *)

\* Quotient and remainder, and that no others are
LEMMA Division ==
  ASSUME NEW n \in Nat, NEW w \in Nat \ {0}
  PROVE  /\ n \div w \in Nat /\ n % w \in 0 .. w - 1 /\ n = (n \div w) * w + (n % w)
         /\ \A q \in Nat, r \in 0 .. w - 1 : n = q * w + r => q = n \div w
<1>1. n \div w \in Nat /\ n % w \in 0 .. w - 1
  OBVIOUS
<1>2. n = (n \div w) * w + (n % w)
  OBVIOUS
<1>3. ASSUME NEW q \in Nat, NEW r \in 0 .. w - 1, n = q * w + r PROVE q = n \div w
  <2>1. CASE q < n \div w
    <3>1. (q + 1) * w <= (n \div w) * w
      BY <1>1, <2>1
    <3>2. (q + 1) * w = q * w + w
      OBVIOUS
    <3> QED BY <1>1, <1>2, <1>3, <3>1, <3>2
  <2>2. CASE q > n \div w
    <3>1. (n \div w + 1) * w <= q * w
      BY <1>1, <2>2
    <3>2. (n \div w + 1) * w = (n \div w) * w + w
      BY <1>1
    <3> QED BY <1>1, <1>2, <1>3, <3>1, <3>2
  <2> QED BY <1>1, <2>1, <2>2
<1> QED BY <1>1, <1>2, <1>3, Zenon

\* A remainder is known by any quotient that leaves it.
LEMMA Remainder ==
  ASSUME NEW n \in Nat, NEW w \in Nat \ {0}, NEW q \in Nat, NEW r \in 0 .. w - 1,
         n = q * w + r
  PROVE  n % w = r
<1>1. q = n \div w
  BY Division, Zenon
<1>2. n = (n \div w) * w + (n % w) /\ n % w \in 0 .. w - 1
  BY Division, Zenon
<1>3. n = q * w + (n % w)
  BY <1>1, <1>2, Zenon
<1>4. q * w \in Nat
  OBVIOUS
<1> QED BY <1>2, <1>3, <1>4

\* Counting up and counting down within a width
LEMMA Counting ==
  ASSUME NEW n \in Nat, NEW w \in Nat \ {0, 1}
  PROVE  /\ n % w \in 0 .. w - 1 /\ 0 % w = 0
         /\ ((n % w) + 1) % w = (n + 1) % w
         /\ n % w # 0 => n > 0 /\ ((n % w) - 1) % w = (n - 1) % w
<1> DEFINE q == n \div w
           r == n % w
<1>0. w \in Nat \ {0}
  OBVIOUS
<1>1. q \in Nat /\ r \in 0 .. w - 1 /\ n = q * w + r
  BY <1>0, Division, Zenon
<1>2. q * w \in Nat /\ (q + 1) * w = q * w + w /\ 0 * w = 0 /\ 1 * w = w
  BY <1>1
<1>3. 0 % w = 0
  OBVIOUS
<1> HIDE DEF q, r
<1>4. (r + 1) % w = (n + 1) % w
  <2>1. CASE r + 1 < w
    <3>1. r + 1 \in 0 .. w - 1 /\ r + 1 \in Nat /\ n + 1 \in Nat
      BY <1>1, <2>1
    <3>2. n + 1 = q * w + (r + 1) /\ r + 1 = 0 * w + (r + 1)
      BY <1>1, <1>2
    <3>3. (n + 1) % w = r + 1
      BY <1>0, <1>1, <3>1, <3>2, Remainder, Zenon
    <3>4. (r + 1) % w = r + 1 /\ 0 \in Nat
      BY <1>0, <3>1, <3>2, Remainder
    <3> QED BY <3>3, <3>4, Zenon
  <2>2. CASE r + 1 = w
    <3>1. 0 \in 0 .. w - 1 /\ q + 1 \in Nat /\ 1 \in Nat /\ r + 1 \in Nat /\ n + 1 \in Nat
      BY <1>1, <2>2
    <3>2. n + 1 = (q + 1) * w + 0 /\ r + 1 = 1 * w + 0
      BY <1>1, <1>2, <2>2
    <3>3. (n + 1) % w = 0
      BY <1>0, <3>1, <3>2, Remainder, Zenon
    <3>4. (r + 1) % w = 0
      BY <1>0, <3>1, <3>2, Remainder, Zenon
    <3> QED BY <3>3, <3>4, Zenon
  <2> QED BY <1>1, <2>1, <2>2
<1>5. ASSUME r # 0 PROVE n > 0 /\ (r - 1) % w = (n - 1) % w
  <2>1. n > 0 /\ n - 1 \in Nat /\ r - 1 \in 0 .. w - 1 /\ r - 1 \in Nat /\ 0 \in Nat
    BY <1>1, <1>2, <1>5
  <2>2. n - 1 = q * w + (r - 1) /\ r - 1 = 0 * w + (r - 1)
    BY <1>1, <1>2, <1>5
  <2>3. (n - 1) % w = r - 1
    BY <1>0, <1>1, <2>1, <2>2, Remainder, Zenon
  <2>4. (r - 1) % w = r - 1
    BY <1>0, <2>1, <2>2, Remainder, Zenon
  <2> QED BY <2>1, <2>3, <2>4, Zenon
<1> QED BY <1>1, <1>3, <1>4, <1>5, Zenon DEF r

-----------------------------------------------------------------------------
(* Prompt *)

\* No clear has disturbed the line: none since Enter, or only between two keys.
Orderly == ~cleared \/ (~raced /\ clearing = {})

\* line_len, or what is loaded of it, is the length of the line on the screen
\* as far as its width goes.
LineInv ==
  /\ handler = "idle" => line_len = typed % LINE_LEN_SIZE
  /\ handler = "char" => loaded = typed % LINE_LEN_SIZE
  /\ handler = "echo" => line_len = (typed + 1) % LINE_LEN_SIZE
  /\ handler = "erase" => line_len = typed % LINE_LEN_SIZE /\ line_len # 0
  /\ handler = "dec" => loaded = typed % LINE_LEN_SIZE /\ loaded # 0
  /\ handler = "erased" => typed > 0 /\ line_len = (typed - 1) % LINE_LEN_SIZE

\* The buffer holds at least the line on the screen, and while a game is in
\* prompt_clear and no key has been handled that line is empty.
PromptInv ==
  /\ PromptTypeOK
  /\ typed <= buffer_pointer
  /\ handler \in {"char", "echo"} => buffer_pointer < PROMPT_BUFFER_SIZE
  /\ ~cleared => buffer_pointer = typed
  /\ ~raced /\ clearing # {} => handler = "idle" /\ typed = 0
  /\ Orderly => LineInv
  /\ broken => raced

\* The places in a handler
Handlers == {"idle", "char", "echo", "erase", "dec", "erased", "enter"}

\* The widths of the two lengths
LEMMA Widths ==
  /\ PROMPT_BUFFER_SIZE \in Nat
  /\ LINE_LEN_SIZE \in Nat \ {0, 1}
<1>1. /\ PROMPT_BUFFER_SIZE \in Nat
      /\ LINE_LEN_SIZE \in Nat /\ LINE_LEN_SIZE > 1
  BY PromptAssumption, Zenon
<1> QED BY <1>1, SMT

\* The line is empty.
LEMMA PromptInitInv == ASSUME PromptInit PROVE PromptInv
<1>1. /\ line_len = 0 /\ buffer_pointer = 0 /\ typed = 0
      /\ handler = "idle" /\ loaded = 0 /\ clearing = {}
      /\ cleared = FALSE /\ raced = FALSE /\ broken = FALSE /\ last = "edit"
  BY DEF PromptInit
<1>2. /\ 0 \in 0 .. LINE_LEN_SIZE - 1 /\ 0 \in 0 .. PROMPT_BUFFER_SIZE /\ 0 <= 0
      /\ 0 \in Nat
  BY Widths, SMT
<1>3. 0 % LINE_LEN_SIZE = 0
  BY <1>2, Widths, Counting, Zenon
<1>4. PromptTypeOK
  BY <1>1, <1>2, Zenon DEF PromptTypeOK
<1>5. LineInv
  BY <1>1, <1>3 DEF LineInv
<1> QED BY <1>1, <1>2, <1>4, <1>5 DEF PromptInv

\* What every step of the prompt keeps: it never makes up for a clear.
LEMMA HandlerStepKeeps ==
  ASSUME PromptInv, NEW from, NEW to \in Handlers, HandlerStep(from, to)
  PROVE  /\ handler = from /\ handler' = to /\ handler' \in Handlers
         /\ clearing' \in SUBSET Clearers /\ cleared' \in BOOLEAN /\ raced' \in BOOLEAN
         /\ cleared' = cleared /\ broken = FALSE /\ (raced => raced')
         /\ ~raced' => ~raced /\ clearing' = {}
         /\ Orderly' => LineInv
         /\ ~raced => LineInv \/ from = "idle"
<1>1. PromptTypeOK /\ (Orderly => LineInv)
  BY DEF PromptInv
<1>2. /\ handler = from /\ handler' = to /\ raced' = (raced \/ clearing # {})
      /\ clearing' = clearing /\ cleared' = cleared /\ ~broken
  BY DEF HandlerStep
<1>3. /\ clearing \in SUBSET Clearers /\ cleared \in BOOLEAN /\ raced \in BOOLEAN
      /\ broken \in BOOLEAN
  BY <1>1 DEF PromptTypeOK
<1>4. raced' \in BOOLEAN
  BY <1>2, Zenon
<1>5. (raced => raced') /\ (~raced' => ~raced /\ clearing' = {})
  BY <1>2, <1>3, Zenon
<1>6. Orderly' => Orderly
  BY <1>2, <1>3, <1>4, <1>5, Zenon DEF Orderly
<1>7. ~raced => LineInv \/ from = "idle"
  <2>1. ~raced /\ clearing # {} => handler = "idle"
    BY Zenon DEF PromptInv
  <2> QED BY <1>1, <1>2, <2>1, Zenon DEF Orderly
<1>8. broken = FALSE
  BY <1>2, <1>3, Zenon
<1> QED BY <1>1, <1>2, <1>3, <1>4, <1>5, <1>6, <1>7, <1>8, Zenon

\* A character is added to the line: the load,
LEMMA CharStep == ASSUME PromptInv, prompt_char_handler PROVE PromptInv'
<1>1. /\ HandlerStep("idle", "char") /\ buffer_pointer < PROMPT_BUFFER_SIZE
      /\ loaded' = line_len /\ last' = "edit"
      /\ UNCHANGED <<line_len, buffer_pointer, typed, broken>>
  BY DEF prompt_char_handler
<1>2. "char" \in Handlers
  BY DEF Handlers
<1>3. /\ handler = "idle" /\ handler' = "char" /\ handler' \in Handlers
      /\ clearing' \in SUBSET Clearers /\ cleared' \in BOOLEAN /\ raced' \in BOOLEAN
      /\ cleared' = cleared /\ broken = FALSE
      /\ ~raced' => clearing' = {}
      /\ Orderly' => LineInv
  BY <1>1, <1>2, HandlerStepKeeps, Zenon
<1>4. PromptTypeOK'
  BY <1>1, <1>3, Zenon DEF PromptInv, PromptTypeOK, Handlers
<1>5. LineInv => LineInv'
  BY <1>1, <1>3 DEF LineInv
<1> QED BY <1>1, <1>3, <1>4, <1>5 DEF PromptInv

\* the store,
LEMMA CharStoreStep == ASSUME PromptInv, prompt_char_store PROVE PromptInv'
<1>1. /\ HandlerStep("char", "echo") /\ line_len' = (loaded + 1) % LINE_LEN_SIZE
      /\ UNCHANGED <<buffer_pointer, loaded, typed, broken, last>>
  BY DEF prompt_char_store
<1>2. "echo" \in Handlers
  BY DEF Handlers
<1>3. /\ handler = "char" /\ handler' = "echo" /\ handler' \in Handlers
      /\ clearing' \in SUBSET Clearers /\ cleared' \in BOOLEAN /\ raced' \in BOOLEAN
      /\ cleared' = cleared /\ broken = FALSE
      /\ ~raced' => clearing' = {}
      /\ Orderly' => LineInv
  BY <1>1, <1>2, HandlerStepKeeps, Zenon
<1>4. /\ loaded \in 0 .. LINE_LEN_SIZE - 1 /\ typed \in 0 .. PROMPT_BUFFER_SIZE
  BY DEF PromptInv, PromptTypeOK
<1>5. loaded + 1 \in Nat /\ typed \in Nat
  BY <1>4, Widths
<1>6. line_len' \in 0 .. LINE_LEN_SIZE - 1
  BY <1>1, <1>5, Widths, Counting, Zenon
<1>7. PromptTypeOK'
  BY <1>1, <1>3, <1>6, Zenon DEF PromptInv, PromptTypeOK, Handlers
<1>8. ASSUME LineInv PROVE LineInv'
  <2>1. loaded = typed % LINE_LEN_SIZE
    BY <1>3, <1>8 DEF LineInv
  <2>2. line_len' = (typed + 1) % LINE_LEN_SIZE
    BY <1>1, <1>5, <2>1, Widths, Counting, Zenon
  <2> QED BY <1>1, <1>3, <2>2 DEF LineInv
<1> QED BY <1>1, <1>3, <1>7, <1>8 DEF PromptInv

\* and the character itself.
LEMMA CharEchoStep == ASSUME PromptInv, prompt_char_echo PROVE PromptInv'
<1>1. /\ HandlerStep("echo", "idle")
      /\ buffer_pointer' = buffer_pointer + 1 /\ typed' = typed + 1
      /\ UNCHANGED <<line_len, loaded, broken, last>>
  BY DEF prompt_char_echo
<1>2. "idle" \in Handlers
  BY DEF Handlers
<1>3. /\ handler = "echo" /\ handler' = "idle" /\ handler' \in Handlers
      /\ clearing' \in SUBSET Clearers /\ cleared' \in BOOLEAN /\ raced' \in BOOLEAN
      /\ cleared' = cleared /\ broken = FALSE
      /\ ~raced' => clearing' = {}
      /\ Orderly' => LineInv
  BY <1>1, <1>2, HandlerStepKeeps, Zenon
<1>4. /\ buffer_pointer \in 0 .. PROMPT_BUFFER_SIZE /\ typed \in 0 .. PROMPT_BUFFER_SIZE
      /\ typed <= buffer_pointer /\ buffer_pointer < PROMPT_BUFFER_SIZE
      /\ ~cleared => buffer_pointer = typed
  BY <1>3 DEF PromptInv, PromptTypeOK
<1>5. /\ buffer_pointer' \in 0 .. PROMPT_BUFFER_SIZE /\ typed' \in 0 .. PROMPT_BUFFER_SIZE
      /\ typed' <= buffer_pointer'
  BY <1>1, <1>4, Widths
<1>6. ~cleared' => buffer_pointer' = typed'
  BY <1>1, <1>3, <1>4
<1>7. PromptTypeOK'
  BY <1>1, <1>3, <1>5, Zenon DEF PromptInv, PromptTypeOK, Handlers
<1>8. LineInv => LineInv'
  BY <1>1, <1>3 DEF LineInv
<1> QED BY <1>1, <1>3, <1>5, <1>6, <1>7, <1>8 DEF PromptInv

\* Backspace goes on unless line_len is 0: the test,
LEMMA BackspaceStep == ASSUME PromptInv, prompt_backspace_handler PROVE PromptInv'
<1> DEFINE to == IF line_len = 0 THEN "idle" ELSE "erase"
<1>1. /\ HandlerStep("idle", to) /\ last' = "edit"
      /\ UNCHANGED <<line_len, buffer_pointer, loaded, typed, broken>>
  BY DEF prompt_backspace_handler
<1>2. to \in Handlers /\ to \in {"idle", "erase"} /\ (to = "erase" => line_len # 0)
  BY DEF Handlers
<1> HIDE DEF to
<1>3. /\ handler = "idle" /\ handler' = to /\ handler' \in Handlers
      /\ clearing' \in SUBSET Clearers /\ cleared' \in BOOLEAN /\ raced' \in BOOLEAN
      /\ cleared' = cleared /\ broken = FALSE
      /\ ~raced' => clearing' = {}
      /\ Orderly' => LineInv
  BY <1>1, <1>2, HandlerStepKeeps, Zenon
<1>4. PromptTypeOK'
  BY <1>1, <1>3, Zenon DEF PromptInv, PromptTypeOK, Handlers
<1>5. LineInv => LineInv'
  BY <1>1, <1>2, <1>3 DEF LineInv
<1> QED BY <1>1, <1>2, <1>3, <1>4, <1>5 DEF PromptInv

\* the load,
LEMMA BackspaceLoadStep == ASSUME PromptInv, prompt_backspace_load PROVE PromptInv'
<1>1. /\ HandlerStep("erase", "dec") /\ loaded' = line_len
      /\ UNCHANGED <<line_len, buffer_pointer, typed, broken, last>>
  BY DEF prompt_backspace_load
<1>2. "dec" \in Handlers
  BY DEF Handlers
<1>3. /\ handler = "erase" /\ handler' = "dec" /\ handler' \in Handlers
      /\ clearing' \in SUBSET Clearers /\ cleared' \in BOOLEAN /\ raced' \in BOOLEAN
      /\ cleared' = cleared /\ broken = FALSE
      /\ ~raced' => clearing' = {}
      /\ Orderly' => LineInv
  BY <1>1, <1>2, HandlerStepKeeps, Zenon
<1>4. PromptTypeOK'
  BY <1>1, <1>3, Zenon DEF PromptInv, PromptTypeOK, Handlers
<1>5. LineInv => LineInv'
  BY <1>1, <1>3 DEF LineInv
<1> QED BY <1>1, <1>3, <1>4, <1>5 DEF PromptInv

\* the store,
LEMMA BackspaceStoreStep == ASSUME PromptInv, prompt_backspace_store PROVE PromptInv'
<1>1. /\ HandlerStep("dec", "erased") /\ line_len' = (loaded - 1) % LINE_LEN_SIZE
      /\ UNCHANGED <<buffer_pointer, loaded, typed, broken, last>>
  BY DEF prompt_backspace_store
<1>2. "erased" \in Handlers
  BY DEF Handlers
<1>3. /\ handler = "dec" /\ handler' = "erased" /\ handler' \in Handlers
      /\ clearing' \in SUBSET Clearers /\ cleared' \in BOOLEAN /\ raced' \in BOOLEAN
      /\ cleared' = cleared /\ broken = FALSE
      /\ ~raced' => clearing' = {}
      /\ Orderly' => LineInv
  BY <1>1, <1>2, HandlerStepKeeps, Zenon
<1>4. /\ loaded \in 0 .. LINE_LEN_SIZE - 1 /\ typed \in 0 .. PROMPT_BUFFER_SIZE
  BY DEF PromptInv, PromptTypeOK
<1>5. loaded - 1 \in Int /\ typed \in Nat
  BY <1>4, Widths
<1>6. line_len' \in 0 .. LINE_LEN_SIZE - 1
  BY <1>1, <1>5, Widths
<1>7. PromptTypeOK'
  BY <1>1, <1>3, <1>6, Zenon DEF PromptInv, PromptTypeOK, Handlers
<1>8. ASSUME LineInv PROVE LineInv'
  <2>1. loaded = typed % LINE_LEN_SIZE /\ loaded # 0
    BY <1>3, <1>8 DEF LineInv
  <2>2. typed > 0 /\ line_len' = (typed - 1) % LINE_LEN_SIZE
    BY <1>1, <1>5, <2>1, Widths, Counting, Zenon
  <2> QED BY <1>1, <1>3, <2>2 DEF LineInv
<1> QED BY <1>1, <1>3, <1>7, <1>8 DEF PromptInv

\* and the character: there is one, unless a clear overlapped the handler.
LEMMA BackspaceEraseStep == ASSUME PromptInv, prompt_backspace_erase PROVE PromptInv'
<1>1. /\ HandlerStep("erased", "idle") /\ broken' = (buffer_pointer = 0)
      /\ buffer_pointer' = IF buffer_pointer = 0 THEN 0 ELSE buffer_pointer - 1
      /\ typed' = IF typed = 0 THEN 0 ELSE typed - 1
      /\ UNCHANGED <<line_len, loaded, last>>
  BY DEF prompt_backspace_erase
<1>2. "idle" \in Handlers /\ "erased" # "idle"
  BY DEF Handlers
<1>3. /\ handler = "erased" /\ handler' = "idle" /\ handler' \in Handlers
      /\ clearing' \in SUBSET Clearers /\ cleared' \in BOOLEAN /\ raced' \in BOOLEAN
      /\ cleared' = cleared /\ (raced => raced')
      /\ ~raced' => clearing' = {}
      /\ (Orderly' => LineInv) /\ (~raced => LineInv)
  BY <1>1, <1>2, HandlerStepKeeps, Zenon
<1>4. /\ buffer_pointer \in 0 .. PROMPT_BUFFER_SIZE /\ typed \in 0 .. PROMPT_BUFFER_SIZE
      /\ typed <= buffer_pointer /\ (~cleared => buffer_pointer = typed)
  BY DEF PromptInv, PromptTypeOK
<1>5. /\ buffer_pointer' \in 0 .. PROMPT_BUFFER_SIZE /\ typed' \in 0 .. PROMPT_BUFFER_SIZE
      /\ typed' <= buffer_pointer' /\ (buffer_pointer = typed => buffer_pointer' = typed')
  BY <1>1, <1>4, Widths
<1>6. broken' \in BOOLEAN
  BY <1>1, Zenon
<1>7. PromptTypeOK'
  BY <1>1, <1>3, <1>5, <1>6, Zenon DEF PromptInv, PromptTypeOK, Handlers
<1>8. ASSUME LineInv PROVE LineInv' /\ buffer_pointer # 0
  <2>1. typed > 0 /\ line_len = (typed - 1) % LINE_LEN_SIZE
    BY <1>3, <1>8 DEF LineInv
  <2>2. buffer_pointer # 0 /\ typed' = typed - 1
    BY <1>1, <1>4, <2>1, Widths
  <2>3. line_len' = typed' % LINE_LEN_SIZE
    BY <1>1, <2>1, <2>2
  <2> QED BY <1>3, <2>2, <2>3 DEF LineInv
<1>9. broken' => raced'
  BY <1>1, <1>3, <1>8, Zenon
<1>10. ~cleared' => buffer_pointer' = typed'
  BY <1>3, <1>4, <1>5, Zenon
<1> QED BY <1>3, <1>5, <1>7, <1>8, <1>9, <1>10 DEF PromptInv

\* Enter decides,
LEMMA EnterStep == ASSUME PromptInv, prompt_enter_handler PROVE PromptInv'
<1>1. /\ HandlerStep("idle", "enter")
      /\ last' = IF HasLine THEN "run" ELSE IF typed > 0 THEN "ignored" ELSE "empty"
      /\ UNCHANGED <<line_len, buffer_pointer, loaded, typed, broken>>
  BY DEF prompt_enter_handler
<1>2. "enter" \in Handlers
  BY DEF Handlers
<1>3. /\ handler = "idle" /\ handler' = "enter" /\ handler' \in Handlers
      /\ clearing' \in SUBSET Clearers /\ cleared' \in BOOLEAN /\ raced' \in BOOLEAN
      /\ cleared' = cleared /\ broken = FALSE
      /\ ~raced' => clearing' = {}
  BY <1>1, <1>2, HandlerStepKeeps, Zenon
<1>4. last' \in {"edit", "run", "ignored", "empty"}
  BY <1>1, Zenon
<1>5. PromptTypeOK'
  BY <1>1, <1>3, <1>4, Zenon DEF PromptInv, PromptTypeOK, Handlers
<1>6. LineInv'
  BY <1>3 DEF LineInv
<1> QED BY <1>1, <1>3, <1>5, <1>6 DEF PromptInv

\* and empties the line.
LEMMA EnterResetStep == ASSUME PromptInv, prompt_enter_reset PROVE PromptInv'
<1>1. /\ ~broken /\ handler' = "idle" /\ line_len' = 0 /\ buffer_pointer' = 0
      /\ typed' = 0 /\ cleared' = FALSE /\ raced' = (clearing # {})
      /\ UNCHANGED <<loaded, clearing, broken, last>>
  BY DEF prompt_enter_reset, PointerAfterEnter
<1>2. /\ 0 \in 0 .. LINE_LEN_SIZE - 1 /\ 0 \in 0 .. PROMPT_BUFFER_SIZE /\ 0 <= 0
      /\ 0 \in Nat
  BY Widths, SMT
<1>3. 0 % LINE_LEN_SIZE = 0
  BY <1>2, Widths, Counting, Zenon
<1>4. PromptTypeOK'
  BY <1>1, <1>2, Zenon DEF PromptInv, PromptTypeOK
<1>5. LineInv'
  BY <1>1, <1>3 DEF LineInv
<1>6. ~raced' => clearing' = {}
  BY <1>1, Zenon
<1> QED BY <1>1, <1>2, <1>4, <1>5, <1>6 DEF PromptInv

\* A game wipes the screen.
LEMMA ClearStep ==
  ASSUME PromptInv, NEW g \in Clearers, prompt_clear(g) PROVE PromptInv'
<1>1. /\ clearing' = clearing \cup {g} /\ typed' = 0 /\ cleared' = TRUE
      /\ raced' = (raced \/ handler # "idle") /\ ~broken
      /\ UNCHANGED <<line_len, buffer_pointer, handler, loaded, broken, last>>
  BY DEF prompt_clear
<1>2. buffer_pointer \in 0 .. PROMPT_BUFFER_SIZE
  BY DEF PromptInv, PromptTypeOK
<1>3. 0 \in 0 .. PROMPT_BUFFER_SIZE /\ 0 <= buffer_pointer
  BY <1>2, Widths
<1>4. PromptTypeOK'
  BY <1>1, <1>3, Zenon DEF PromptInv, PromptTypeOK
<1>5. ~raced' => handler' = "idle"
  BY <1>1, Zenon
<1>6. ~Orderly'
  BY <1>1, Zenon DEF Orderly
<1> QED BY <1>1, <1>3, <1>4, <1>5, <1>6 DEF PromptInv

\* A game resets line_len: as long as no key was handled meanwhile, the line on
\* the screen is empty too.
LEMMA ClearResetStep ==
  ASSUME PromptInv, NEW g \in Clearers, prompt_clear_reset(g) PROVE PromptInv'
<1>1. /\ g \in clearing /\ clearing' = clearing \ {g} /\ line_len' = 0
      /\ cleared' = TRUE /\ raced' = (raced \/ handler # "idle") /\ ~broken
      /\ UNCHANGED <<buffer_pointer, handler, loaded, typed, broken, last>>
  BY DEF prompt_clear_reset
<1>2. 0 \in 0 .. LINE_LEN_SIZE - 1 /\ 0 \in Nat
  BY Widths
<1>3. 0 % LINE_LEN_SIZE = 0
  BY <1>2, Widths, Counting, Zenon
<1>4. PromptTypeOK'
  BY <1>1, <1>2, Zenon DEF PromptInv, PromptTypeOK
<1>5. raced \in BOOLEAN /\ (~raced => typed = 0)
  BY <1>1, Zenon DEF PromptInv, PromptTypeOK
<1>6. ~raced' => handler' = "idle" /\ typed' = 0
  BY <1>1, <1>5, Zenon
<1>7. Orderly' => LineInv'
  <2> SUFFICES ASSUME Orderly' PROVE LineInv'
    OBVIOUS
  <2>1. handler' = "idle" /\ typed' = 0
    BY <1>1, <1>6, Zenon DEF Orderly
  <2> QED BY <1>1, <1>3, <2>1 DEF LineInv
<1> QED BY <1>1, <1>4, <1>6, <1>7 DEF PromptInv

\* Every step of the prompt and of the games keeps the invariant.
LEMMA PromptNextInv == ASSUME PromptInv, [PromptNext]_promptvars PROVE PromptInv'
<1>1. CASE UNCHANGED promptvars
  <2>1. PromptTypeOK'
    BY <1>1, Zenon DEF PromptInv, PromptTypeOK, promptvars
  <2>2. (Orderly' <=> Orderly) /\ (LineInv <=> LineInv')
    BY <1>1 DEF Orderly, LineInv, promptvars
  <2> QED BY <1>1, <2>1, <2>2 DEF PromptInv, promptvars
<1> QED BY <1>1, CharStep, CharStoreStep, CharEchoStep, BackspaceStep,
           BackspaceLoadStep, BackspaceStoreStep, BackspaceEraseStep, EnterStep,
           EnterResetStep, ClearStep, ClearResetStep, Zenon DEF PromptNext

\* The invariant holds in every state.
LEMMA PromptInductive == PromptSpec => []PromptInv
<1>1. PromptInit => PromptInv
  BY PromptInitInv
<1>2. PromptInv /\ [PromptNext]_promptvars => PromptInv'
  BY PromptNextInv
<1> QED BY <1>1, <1>2, PTL DEF PromptSpec

\* The two lengths keep to their widths and, short of the wrap that ends the
\* model, to the buffer.
THEOREM PromptTypeCorrect == PromptSpec => []PromptTypeOK
<1>1. PromptInv => PromptTypeOK
  BY DEF PromptInv
<1> QED BY <1>1, PromptInductive, PTL

\* What Enter runs is what the user sees, unless prompt_clear was at work since
\* the last Enter, and buffer_pointer leaves the buffer only after a
\* prompt_clear has overlapped the handler of a key: for every number of games,
\* every width of line_len and every buffer whose offsets an uint16_t can hold.
THEOREM AlwaysRunsWhatIsSeen == PromptSpec => []RunsWhatIsSeen
<1>1. PromptInv => RunsWhatIsSeen
  BY DEF PromptInv, RunsWhatIsSeen
<1> QED BY <1>1, PromptInductive, PTL

\* Enter acts on every line that is not empty, except those whose length the
\* narrow line_len takes for 0, as long as no prompt_clear has overlapped the
\* handler of a key since the last Enter.
THEOREM EnterAlwaysActsOnLine == PromptSpec => EnterActsOnLine
<1> DEFINE Acts == prompt_enter_handler /\ ~raced =>
                     (last' = "ignored" <=> typed > 0 /\ typed % LINE_LEN_SIZE = 0)
<1>1. ASSUME PromptInv, [PromptNext]_promptvars PROVE [Acts]_promptvars
  <2> SUFFICES ASSUME prompt_enter_handler, ~raced
               PROVE  last' = "ignored" <=> typed > 0 /\ typed % LINE_LEN_SIZE = 0
    OBVIOUS
  <2>1. handler = "idle"
    BY DEF prompt_enter_handler, HandlerStep
  <2>2. last' = IF line_len > 0 THEN "run" ELSE IF typed > 0 THEN "ignored" ELSE "empty"
    BY DEF prompt_enter_handler, HasLine
  <2>3. CASE clearing = {}
    <3>1. line_len = typed % LINE_LEN_SIZE /\ line_len \in 0 .. LINE_LEN_SIZE - 1
      BY <1>1, <2>1, <2>3 DEF PromptInv, PromptTypeOK, Orderly, LineInv
    <3>2. line_len > 0 <=> typed % LINE_LEN_SIZE # 0
      BY <3>1, Widths, SMT
    <3> QED BY <2>2, <3>2, Zenon
  <2>4. CASE clearing # {}
    <3>1. typed = 0
      BY <1>1, <2>4 DEF PromptInv
    <3>2. ~(typed > 0)
      BY <3>1
    <3> QED BY <2>2, <3>2, Zenon
  <2> QED BY <2>3, <2>4
<1>2. PromptSpec => [][Acts]_promptvars
  BY <1>1, PromptInductive, PTL DEF PromptSpec
<1> QED BY <1>2 DEF EnterActsOnLine

-----------------------------------------------------------------------------
\* A set of natural numbers that is not empty has a smallest element.
LEMMA Smallest ==
  ASSUME NEW S \in SUBSET Nat, S # {}
  PROVE  \E x \in S : \A y \in S : x <= y
<1>1. PICK x \in S : \A y \in S : ~(<<y, x>> \in OpToRel(<, Nat))
  BY WFMin, NatLessThanWellFounded, Zenon
<1>2. \A y \in S : <<y, x>> \in Nat \X Nat /\ <<y, x>>[1] = y /\ <<y, x>>[2] = x
  BY <1>1, Zenon
<1>3. \A y \in S : ~(y < x)
  BY <1>1, <1>2, Zenon DEF OpToRel
<1>4. x \in Nat /\ \A y \in S : y \in Nat
  BY <1>1, Zenon
<1>5. \A y \in S : x <= y
  BY <1>3, <1>4
<1> QED BY <1>5

-----------------------------------------------------------------------------
(* Numbers and their digits. *)

\* Dividing twice is dividing by the product.
LEMMA DivDiv ==
  ASSUME NEW n \in Nat, NEW v \in Nat \ {0}, NEW w \in Nat \ {0}
  PROVE  (n \div v) \div w = n \div (v * w)
<1> DEFINE q == n \div v
           r == n % v
           s == q \div w
           t == q % w
<1>1. q \in Nat /\ r \in 0 .. v - 1 /\ n = q * v + r
  BY Division, Zenon
<1>2. s \in Nat /\ t \in 0 .. w - 1 /\ q = s * w + t
  BY <1>1, Division, Zenon
<1> HIDE DEF q, r, s, t
<1>3. v * w \in Nat \ {0}
  OBVIOUS
<1>4. n = s * (v * w) + (t * v + r)
  <2>1. q * v = (s * w) * v + t * v
    BY <1>1, <1>2
  <2>2. (s * w) * v = s * (v * w)
    BY <1>2
  <2> QED BY <1>1, <1>2, <2>1, <2>2
<1>5. t * v + r \in 0 .. v * w - 1
  <2>1. (t + 1) * v <= w * v
    BY <1>2
  <2>2. (t + 1) * v = t * v + v /\ w * v = v * w /\ t * v \in Nat
    BY <1>2
  <2> QED BY <1>1, <1>3, <2>1, <2>2
<1>6. s = n \div (v * w)
  BY <1>2, <1>3, <1>4, <1>5, Division, Zenon
<1> QED BY <1>6 DEF q, s

\* The powers of a base, as Numeral computes them
Powers(b, n, P) == P = [l \in 0 .. n |-> IF l = 0 THEN 1 ELSE b * P[l - 1]]

\* The recursion that defines the powers has a solution.
LEMMA PowersExist ==
  ASSUME NEW b \in Nat \ {0}, NEW n \in Nat PROVE \E P : Powers(b, n, P)
<1> DEFINE Bad == {m \in 0 .. n : ~\E P : Powers(b, m, P)}
<1>0. n \in 0 .. n /\ Bad \in SUBSET Nat
  OBVIOUS
<1> SUFFICES ASSUME Bad # {} PROVE FALSE
  BY <1>0, Zenon
<1>1. PICK m \in Bad : \A y \in Bad : m <= y
  BY <1>0, Smallest, Zenon
<1>2. CASE m = 0
  <2>1. Powers(b, 0, [l \in 0 .. 0 |-> 1])
    BY DEF Powers
  <2> QED BY <1>2, <2>1, Zenon
<1>3. CASE m # 0
  <2>1. m - 1 \in 0 .. n /\ ~(m <= m - 1) /\ m \in 1 .. n
    BY <1>3
  <2>2. PICK P : Powers(b, m - 1, P)
    BY <1>1, <2>1, Zenon
  <2> DEFINE Q == [l \in 0 .. m |-> IF l = m THEN b * P[m - 1] ELSE P[l]]
  <2>3. ASSUME NEW l \in 0 .. m PROVE Q[l] = IF l = 0 THEN 1 ELSE b * Q[l - 1]
    <3>1. CASE l = m
      BY <2>1, <3>1
    <3>2. CASE l # m
      <4>1. l \in 0 .. m - 1 /\ (l # 0 => l - 1 \in 0 .. m /\ l - 1 # m)
        BY <2>1, <3>2
      <4>2. P[l] = IF l = 0 THEN 1 ELSE b * P[l - 1]
        BY <2>2, <4>1, Zenon DEF Powers
      <4> QED BY <3>2, <4>1, <4>2, Zenon
    <3> QED BY <3>1, <3>2
  <2>4. Powers(b, m, Q)
    BY <2>3, Zenon DEF Powers
  <2> QED BY <2>4, Zenon
<1> QED BY <1>2, <1>3

\* They are what they should be, and grow.
LEMMA PowersAre ==
  ASSUME NEW b \in Nat \ {0}, NEW n \in Nat, NEW P, Powers(b, n, P)
  PROVE  /\ P \in [0 .. n -> Nat \ {0}] /\ P[0] = 1
         /\ \A l \in 1 .. n : P[l] = b * P[l - 1]
         /\ \A l \in 0 .. n : \A m \in l .. n : P[l] <= P[m]
<1>1. /\ P[0] = 1 /\ DOMAIN P = 0 .. n /\ P = [l \in 0 .. n |-> P[l]]
      /\ \A l \in 1 .. n : P[l] = b * P[l - 1]
  BY DEF Powers
<1>2. \A l \in 0 .. n : P[l] \in Nat \ {0}
  <2> DEFINE Bad == {l \in 0 .. n : P[l] \notin Nat \ {0}}
  <2> SUFFICES ASSUME Bad # {} PROVE FALSE
    OBVIOUS
  <2>1. Bad \in SUBSET Nat
    OBVIOUS
  <2>2. PICK l \in Bad : \A y \in Bad : l <= y
    BY <2>1, Smallest, Zenon
  <2>3. l # 0 /\ l \in 1 .. n /\ l - 1 \in 0 .. n /\ ~(l <= l - 1)
    BY <1>1, <2>2
  <2>4. P[l - 1] \in Nat \ {0}
    BY <2>2, <2>3, Zenon
  <2>5. \A x \in Nat \ {0} : b * x \in Nat \ {0}
    OBVIOUS
  <2> QED BY <1>1, <2>2, <2>3, <2>4, <2>5, Zenon
<1>3. ASSUME NEW l \in 0 .. n, NEW m0 \in l .. n PROVE P[l] <= P[m0]
  <2> DEFINE Bad == {m \in l .. n : ~(P[l] <= P[m])}
  <2> SUFFICES ASSUME Bad # {} PROVE FALSE
    OBVIOUS
  <2>1. Bad \in SUBSET Nat
    OBVIOUS
  <2>2. PICK m \in Bad : \A y \in Bad : m <= y
    BY <2>1, Smallest, Zenon
  <2>3. m # l
    BY <1>2, <2>2
  <2>4. m \in 1 .. n /\ m - 1 \in l .. n /\ ~(m <= m - 1) /\ m - 1 \in 0 .. n
    BY <2>2, <2>3
  <2>5. P[l] <= P[m - 1] /\ P[m] = b * P[m - 1]
    BY <1>1, <2>2, <2>4, Zenon
  <2>6. \A x \in Nat \ {0} : x <= b * x /\ b * x \in Nat
    OBVIOUS
  <2>7. P[l] \in Nat /\ P[m - 1] \in Nat \ {0}
    BY <1>2, <2>4
  <2>8. P[m - 1] <= P[m] /\ P[m] \in Nat
    BY <2>5, <2>6, <2>7, Zenon
  <2>9. P[l] <= P[m]
    BY <2>5, <2>7, <2>8
  <2> QED BY <2>2, <2>9
<1>4. P \in [0 .. n -> Nat \ {0}]
  BY <1>1, <1>2, Zenon
<1> QED BY <1>1, <1>3, <1>4, Zenon

\* The digits of all numbers up to n, the lowest first, as Digits computes them
Lows(b, n, g) == g = [m \in 0 .. n |-> IF m = 0 THEN <<>> ELSE <<m % b>> \o g[m \div b]]

\* A number has fewer digits to the left of the last.
LEMMA Fewer ==
  ASSUME NEW b \in Nat \ {0, 1}, NEW m \in Nat \ {0}
  PROVE  m \div b \in 0 .. m - 1
<1> DEFINE q == m \div b
<1>1. q \in Nat /\ m % b \in Nat /\ m = q * b + (m % b)
  OBVIOUS
<1> HIDE DEF q
<1>2. q # 0 => q < q * b
  BY <1>1
<1> QED BY <1>1, <1>2 DEF q

\* The recursion of Digits has a solution.
LEMMA LowsExist ==
  ASSUME NEW b \in Nat \ {0, 1}, NEW n \in Nat PROVE \E g : Lows(b, n, g)
<1> DEFINE Bad == {m \in 0 .. n : ~\E g : Lows(b, m, g)}
<1>0. n \in 0 .. n /\ Bad \in SUBSET Nat
  OBVIOUS
<1> SUFFICES ASSUME Bad # {} PROVE FALSE
  BY <1>0, Zenon
<1>1. PICK m \in Bad : \A y \in Bad : m <= y
  BY <1>0, Smallest, Zenon
<1>2. CASE m = 0
  <2>1. Lows(b, 0, [l \in 0 .. 0 |-> <<>>])
    BY DEF Lows
  <2> QED BY <1>2, <2>1, Zenon
<1>3. CASE m # 0
  <2>1. m - 1 \in 0 .. n /\ ~(m <= m - 1) /\ m \in 1 .. n
    BY <1>3
  <2>2. PICK g : Lows(b, m - 1, g)
    BY <1>1, <2>1, Zenon
  <2> DEFINE h == [l \in 0 .. m |-> IF l = m THEN <<m % b>> \o g[m \div b] ELSE g[l]]
  <2>3. ASSUME NEW l \in 0 .. m PROVE h[l] = IF l = 0 THEN <<>> ELSE <<l % b>> \o h[l \div b]
    <3>0. ASSUME l # 0 PROVE l \div b \in 0 .. l - 1
      <4>1. l \in Nat \ {0}
        BY <2>1, <3>0
      <4> QED BY <4>1, Fewer, Zenon
    <3>1. l # 0 => l \div b \in 0 .. m /\ l \div b # m
      BY <2>1, <3>0
    <3>2. CASE l = m
      BY <1>3, <3>1, <3>2, Zenon
    <3>3. CASE l # m
      <4>1. l \in 0 .. m - 1
        BY <2>1, <3>3
      <4>2. g[l] = IF l = 0 THEN <<>> ELSE <<l % b>> \o g[l \div b]
        BY <2>2, <4>1, Zenon DEF Lows
      <4> QED BY <3>1, <3>3, <4>1, <4>2, Zenon
    <3> QED BY <3>2, <3>3
  <2>4. Lows(b, m, h)
    BY <2>3, Zenon DEF Lows
  <2> QED BY <2>4, Zenon
<1> QED BY <1>2, <1>3

\* s is the digits of m, the lowest first: as many as m needs, each in its place.
IsDigits(b, P, m, s) ==
  /\ s \in Seq(0 .. b - 1) /\ Len(s) <= m
  /\ m < P[Len(s)]
  /\ m # 0 => Len(s) # 0 /\ P[Len(s) - 1] <= m
  /\ \A d \in 1 .. Len(s) : s[d] = (m \div P[d - 1]) % b

\* One more digit
LEMMA DigitsStep ==
  ASSUME NEW b \in Nat \ {0, 1}, NEW n \in Nat, NEW P, Powers(b, n, P),
         NEW m \in 1 .. n, NEW s, IsDigits(b, P, m \div b, s)
  PROVE  IsDigits(b, P, m, <<m % b>> \o s)
<1> DEFINE q == m \div b
           r == m % b
           t == <<r>> \o s
           l == Len(s)
<1>1. q \in Nat /\ r \in 0 .. b - 1 /\ m = q * b + r /\ m \in Nat \ {0}
  <2>1. m \in Nat /\ m \in Nat \ {0} /\ b \in Nat \ {0}
    OBVIOUS
  <2> QED BY <2>1, Division, Zenon
<1>2. q \in 0 .. m - 1
  BY <1>1, Fewer, Zenon
<1>3. /\ s \in Seq(0 .. b - 1) /\ l \in Nat /\ l <= q /\ q < P[l]
      /\ q # 0 => l # 0 /\ P[l - 1] <= q
  BY DEF IsDigits
<1> HIDE DEF q, r
<1>4. /\ P \in [0 .. n -> Nat \ {0}] /\ P[0] = 1
      /\ \A x \in 1 .. n : P[x] = b * P[x - 1]
  BY PowersAre
<1>5. t \in Seq(0 .. b - 1) /\ Len(t) = l + 1 /\ t[1] = r /\ \A d \in 1 .. l : t[d + 1] = s[d]
  BY <1>1, <1>3
<1> HIDE DEF t, l
<1>6. l + 1 \in 1 .. n /\ l \in 0 .. n /\ l + 1 <= m
  <2>1. l \in Nat /\ l <= q
    BY <1>3, Zenon
  <2>2. \A x \in Nat : x <= q => x + 1 \in 1 .. n /\ x \in 0 .. n /\ x + 1 <= m
    BY <1>2
  <2> QED BY <2>1, <2>2, Zenon
<1>7. P[l + 1] = b * P[l] /\ P[l] \in Nat \ {0}
  BY <1>4, <1>6
<1>8. m < P[l + 1]
  <2>1. \A x, y \in Nat : x < y => (x + 1) * b <= b * y
    OBVIOUS
  <2>2. (q + 1) * b <= b * P[l]
    BY <1>1, <1>3, <1>7, <2>1, Zenon
  <2>3. (q + 1) * b = q * b + b /\ b * P[l] \in Nat /\ q * b \in Nat
    BY <1>1, <1>7
  <2> DEFINE x == q * b
             y == P[l + 1]
  <2>4. x \in Nat /\ y \in Nat /\ x + b <= y /\ m = x + r /\ r \in 0 .. b - 1
    BY <1>1, <1>7, <2>2, <2>3, Zenon
  <2> HIDE DEF x, y
  <2>5. m < y
    BY <2>4
  <2> QED BY <2>5 DEF y
<1>9. P[l] <= m
  <2>1. CASE q = 0
    BY <1>1, <1>3, <1>4, <2>1
  <2>2. CASE q # 0
    <3>1. l \in 1 .. n /\ P[l] = b * P[l - 1] /\ P[l - 1] \in Nat /\ P[l - 1] <= q
      <4>1. l \in 1 .. n /\ l - 1 \in 0 .. n /\ P[l - 1] <= q
        BY <1>3, <1>6, <2>2
      <4> QED BY <1>4, <4>1
    <3>2. \A x, y \in Nat : x <= y => b * x <= y * b
      OBVIOUS
    <3>3. b * P[l - 1] <= q * b
      BY <1>1, <3>1, <3>2
    <3> QED BY <1>1, <1>7, <3>1, <3>3
  <2> QED BY <2>1, <2>2
<1>10. ASSUME NEW d \in 1 .. l + 1 PROVE t[d] = (m \div P[d - 1]) % b
  <2>1. CASE d = 1
    <3>1. m \div 1 = m /\ 1 - 1 = 0
      BY <1>1
    <3> QED BY <1>4, <1>5, <2>1, <3>1, Zenon DEF r
  <2>2. CASE d # 1
    <3>1. d - 1 \in 1 .. l /\ d - 1 \in 1 .. n /\ d - 2 \in 0 .. n /\ (d - 1) - 1 = d - 2 /\ (d - 1) + 1 = d
      BY <1>3, <1>6, <2>2
    <3>2. t[d] = s[d - 1] /\ s[d - 1] = (q \div P[d - 2]) % b
      <4>1. t[d] = s[d - 1]
        BY <1>5, <3>1, Zenon
      <4>2. s[d - 1] = (q \div P[(d - 1) - 1]) % b
        BY <3>1, Zenon DEF IsDigits, q, l
      <4> QED BY <3>1, <4>1, <4>2, Zenon
    <3>3. P[d - 2] \in Nat \ {0} /\ P[d - 1] = b * P[d - 2]
      BY <1>4, <3>1
    <3>4. q \div P[d - 2] = m \div (b * P[d - 2])
      <4>1. b \in Nat \ {0} /\ m \in Nat
        OBVIOUS
      <4> QED BY <3>3, <4>1, DivDiv, Zenon DEF q
    <3> QED BY <3>2, <3>3, <3>4, Zenon
  <2> QED BY <2>1, <2>2
<1>11. Len(t) - 1 = l /\ Len(t) <= m /\ Len(t) # 0
  <2>1. l \in Nat /\ l + 1 <= m /\ Len(t) = l + 1
    BY <1>3, <1>5, <1>6, Zenon
  <2>2. \A x \in Nat : x + 1 - 1 = x /\ x + 1 # 0
    OBVIOUS
  <2> QED BY <2>1, <2>2
<1>12. IsDigits(b, P, m, t)
  BY <1>5, <1>8, <1>9, <1>10, <1>11 DEF IsDigits
<1> QED BY <1>12 DEF t, r

\* What that recursion computes are the digits, the lowest first.
LEMMA LowsAre ==
  ASSUME NEW b \in Nat \ {0, 1}, NEW n \in Nat, NEW P, Powers(b, n, P), NEW g, Lows(b, n, g)
  PROVE  \A m \in 0 .. n : IsDigits(b, P, m, g[m])
<1> DEFINE Bad == {m \in 0 .. n : ~IsDigits(b, P, m, g[m])}
<1> SUFFICES ASSUME Bad # {} PROVE FALSE
  OBVIOUS
<1>1. Bad \in SUBSET Nat
  OBVIOUS
<1>2. PICK m \in Bad : \A y \in Bad : m <= y
  BY <1>1, Smallest, Zenon
<1>3. CASE m = 0
  <2>1. g[0] = <<>>
    BY DEF Lows
  <2>2. P[0] = 1 /\ <<>> \in Seq(0 .. b - 1) /\ Len(<<>>) = 0
    <3>1. b \in Nat \ {0} /\ <<>> \in Seq(0 .. b - 1) /\ Len(<<>>) = 0
      OBVIOUS
    <3> QED BY <3>1, PowersAre, Zenon
  <2>3. IsDigits(b, P, 0, <<>>)
    <3>1. 0 <= 0 /\ 0 < 1 /\ 1 .. 0 = {}
      OBVIOUS
    <3> QED BY <2>2, <3>1, Zenon DEF IsDigits
  <2> QED BY <1>2, <1>3, <2>1, <2>3, Zenon
<1>4. CASE m # 0
  <2>1. m \in Nat \ {0} /\ m \in 1 .. n
    BY <1>4
  <2>2. m \div b \in 0 .. m - 1
    BY <2>1, Fewer, Zenon
  <2>3. m \div b \in 0 .. n /\ ~(m <= m \div b)
    BY <2>1, <2>2
  <2>4. IsDigits(b, P, m \div b, g[m \div b])
    BY <1>2, <2>3, Zenon
  <2>5. g[m] = <<m % b>> \o g[m \div b]
    BY <1>4, Zenon DEF Lows
  <2> QED BY <1>2, <2>1, <2>4, <2>5, DigitsStep, Zenon
<1> QED BY <1>3, <1>4

\* The recursive function in Digits is one of those.
LEMMA DigitsAre ==
  ASSUME NEW b \in Nat \ {0, 1}, NEW n \in Nat, NEW P, Powers(b, n + 1, P)
  PROVE  IsDigits(b, P, n, Digits(n, b))
<1> DEFINE low == CHOOSE g : Lows(b, n, g)
<1>1. Lows(b, n, low)
  BY LowsExist, Zenon
<1>2. PICK h : Lows(b, n + 1, h)
  BY LowsExist
<1>3. Powers(b, n, [l \in 0 .. n |-> P[l]])
  <2> DEFINE Q == [l \in 0 .. n |-> P[l]]
  <2>1. ASSUME NEW l \in 0 .. n PROVE Q[l] = IF l = 0 THEN 1 ELSE b * Q[l - 1]
    <3>1. l \in 0 .. n + 1 /\ (l # 0 => l - 1 \in 0 .. n)
      OBVIOUS
    <3>2. P[l] = IF l = 0 THEN 1 ELSE b * P[l - 1]
      BY <3>1, Zenon DEF Powers
    <3> QED BY <3>1, <3>2, Zenon
  <2> QED BY <2>1, Zenon DEF Powers
<1>4. IsDigits(b, [l \in 0 .. n |-> P[l]], n, low[n])
  <2>1. n \in 0 .. n
    OBVIOUS
  <2> QED BY <1>1, <1>3, <2>1, LowsAre, Zenon
<1>5. ASSUME NEW l \in 0 .. n PROVE [x \in 0 .. n |-> P[x]][l] = P[l]
  OBVIOUS
<1>6. low[n] \in Seq(0 .. b - 1) /\ Len(low[n]) <= n /\ Len(low[n]) \in 0 .. n
  <2>1. low[n] \in Seq(0 .. b - 1) /\ Len(low[n]) <= n
    BY <1>4, Zenon DEF IsDigits
  <2> HIDE DEF low
  <2> QED BY <2>1
<1>7. IsDigits(b, P, n, low[n])
  <2> DEFINE s == low[n]
             Q == [x \in 0 .. n |-> P[x]]
  <2>1. Len(s) \in 0 .. n /\ (Len(s) # 0 => Len(s) - 1 \in 0 .. n)
        /\ \A d \in 1 .. Len(s) : d - 1 \in 0 .. n
    <3> HIDE DEF low
    <3> QED BY <1>6
  <2>2. Q[Len(s)] = P[Len(s)] /\ (Len(s) # 0 => Q[Len(s) - 1] = P[Len(s) - 1])
        /\ \A d \in 1 .. Len(s) : Q[d - 1] = P[d - 1]
    BY <1>5, <2>1, Zenon
  <2>3. IsDigits(b, Q, n, s)
    BY <1>4
  <2> HIDE DEF s, Q
  <2>4. IsDigits(b, P, n, s)
    BY <2>2, <2>3, Zenon DEF IsDigits
  <2> QED BY <2>4 DEF s
<1>8. Digits(n, b) = [d \in DOMAIN low[n] |-> low[n][d]]
  <2> DEFINE abs == IF n < 0 THEN -n ELSE n
             any == CHOOSE g : Lows(b, abs, g)
  <2>1. ~(n < 0) /\ abs = n
    OBVIOUS
  <2>2. Digits(n, b) = [d \in DOMAIN any[abs] |-> IF n < 0 THEN -any[abs][d] ELSE any[abs][d]]
    BY Zenon DEF Digits, Lows
  <2>3. any = low
    BY <2>1, Zenon
  <2> HIDE DEF any, abs, low
  <2> QED BY <2>1, <2>2, <2>3, Zenon
<1>9. [d \in DOMAIN low[n] |-> low[n][d]] = low[n]
  BY <1>6
<1> QED BY <1>7, <1>8, <1>9, Zenon

\* Numeral finds the same digits by the powers, the highest first.
LEMMA NumeralIs ==
  ASSUME NEW b \in Nat \ {0, 1}, NEW n \in Nat
  PROVE  Numeral(n, b) = IF n = 0 THEN <<0>> ELSE Backwards(Digits(n, b))
<1> DEFINE P == CHOOSE Q : Powers(b, n + 1, Q)
           Fits(l) == P[l] > n /\ (l = 1 \/ P[l - 1] <= n)
           len == CHOOSE l \in 1 .. n + 1 : Fits(l)
           s == Digits(n, b)
<1>1. Powers(b, n + 1, P)
  <2>1. b \in Nat \ {0} /\ n + 1 \in Nat
    OBVIOUS
  <2> QED BY <2>1, PowersExist, Zenon
<1>2. Numeral(n, b) = [d \in 1 .. len |-> (n \div P[len - d]) % b]
  BY Zenon DEF Numeral, Powers
<1> HIDE DEF P
<1>3. /\ P \in [0 .. n + 1 -> Nat \ {0}] /\ P[0] = 1
      /\ \A l \in 1 .. n + 1 : P[l] = b * P[l - 1]
      /\ \A l \in 0 .. n + 1 : \A m \in l .. n + 1 : P[l] <= P[m]
  <2>1. b \in Nat \ {0} /\ n + 1 \in Nat
    OBVIOUS
  <2> QED BY <1>1, <2>1, PowersAre, Zenon
<1>4. IsDigits(b, P, n, s)
  BY <1>1, DigitsAre, Zenon
<1> HIDE DEF s
<1>5. CASE n = 0
  <2>1. P[1] = b
    BY <1>3, <1>5
  <2>2. len = 1
    <3>1. 1 \in 1 .. n + 1 /\ \A l \in 1 .. n + 1 : l = 1
      BY <1>5
    <3>2. Fits(1)
      BY <1>5, <2>1
    <3> QED BY <3>1, <3>2, Zenon
  <2> HIDE DEF len
  <2>3. 0 \div 1 = 0 /\ 0 % b = 0
    OBVIOUS
  <2>4. Numeral(n, b) = [d \in 1 .. 1 |-> 0]
    <3>1. ASSUME NEW d \in 1 .. 1 PROVE (n \div P[1 - d]) % b = 0
      <4>1. 1 - d = 0
        OBVIOUS
      <4> QED BY <1>3, <1>5, <2>3, <4>1, Zenon
    <3> QED BY <1>2, <2>2, <3>1, Zenon
  <2> QED BY <1>5, <2>4
<1>6. CASE n # 0
  <2>1. s \in Seq(0 .. b - 1) /\ Len(s) \in 1 .. n /\ P[Len(s)] > n /\ P[Len(s) - 1] <= n
    BY <1>3, <1>4, <1>6 DEF IsDigits
  <2>2. Len(s) \in 1 .. n + 1 /\ Fits(Len(s))
    BY <2>1
  <2>3. ASSUME NEW l \in 1 .. n + 1, Fits(l) PROVE l = Len(s)
    <3>1. CASE l < Len(s)
      <4>1. Len(s) - 1 \in l .. n + 1 /\ l \in 0 .. n + 1 /\ Len(s) - 1 \in 0 .. n + 1
        BY <2>1, <3>1
      <4>2. P[l] <= P[Len(s) - 1] /\ P[l] \in Nat /\ P[Len(s) - 1] \in Nat
        BY <1>3, <4>1
      <4> QED BY <2>1, <2>3, <4>2
    <3>2. CASE l > Len(s)
      <4>1. l - 1 \in Len(s) .. n + 1 /\ l # 1 /\ l - 1 \in 0 .. n + 1 /\ Len(s) \in 0 .. n + 1
        BY <2>1, <3>2
      <4>2. P[Len(s)] <= P[l - 1] /\ P[Len(s)] \in Nat /\ P[l - 1] \in Nat
        BY <1>3, <4>1
      <4> QED BY <2>1, <2>3, <4>1, <4>2
    <3> QED BY <2>1, <3>1, <3>2
  <2>4. len = Len(s)
    BY <2>2, <2>3, Zenon
  <2> HIDE DEF len
  <2>5. ASSUME NEW d \in 1 .. Len(s)
        PROVE  (n \div P[Len(s) - d]) % b = s[(Len(s) - d) + 1]
    <3>1. (Len(s) - d) + 1 \in 1 .. Len(s) /\ ((Len(s) - d) + 1) - 1 = Len(s) - d
      BY <2>1
    <3>2. s[(Len(s) - d) + 1] = (n \div P[((Len(s) - d) + 1) - 1]) % b
      BY <1>4, <3>1, Zenon DEF IsDigits
    <3> QED BY <3>1, <3>2, Zenon
  <2>6. Numeral(n, b) = [d \in 1 .. Len(s) |-> s[(Len(s) - d) + 1]]
    BY <1>2, <2>4, <2>5, Zenon
  <2> QED BY <1>6, <2>6, Zenon DEF Backwards, s
<1> QED BY <1>5, <1>6

\* A string of C: no character of it is NUL.
String == Seq(Nat \ {0})

\* Digits are turned into characters before or after they are put in order.
Spell(D, f) == [d \in DOMAIN D |-> f[D[d]]]

\* Spelling digits and turning the characters round is turning the digits
\* round and spelling them.
LEMMA Spelled ==
  ASSUME NEW S, NEW D \in Seq(S), NEW f \in [S -> Nat \ {0}]
  PROVE  /\ Spell(D, f) \in String /\ Backwards(Spell(D, f)) \in String
         /\ Backwards(Spell(D, f)) = Spell(Backwards(D), f)
<1> DEFINE t == [d \in DOMAIN D |-> f[D[d]]]
           n == Len(D)
<1>1. n \in Nat /\ DOMAIN D = 1 .. n /\ \A d \in 1 .. n : D[d] \in S
  OBVIOUS
<1>2. \A d \in 1 .. n : (n - d) + 1 \in 1 .. n
  BY <1>1
<1>3. t = [d \in 1 .. n |-> f[D[d]]] /\ \A d \in 1 .. n : t[d] \in Nat \ {0}
  BY <1>1, Zenon
<1>4. t \in String
  BY <1>1, <1>3 DEF String
<1>5. Len(t) = n
  BY <1>1, <1>3
<1> HIDE DEF n, t
<1>6. Backwards(t) = [d \in 1 .. n |-> t[(n - d) + 1]]
  BY <1>5, Zenon DEF Backwards
<1>7. Backwards(D) = [d \in 1 .. n |-> D[(n - d) + 1]]
  BY Zenon DEF Backwards, n
<1>8. Backwards(t) \in [1 .. n -> Nat \ {0}]
  BY <1>2, <1>3, <1>6, Zenon
<1>9. Backwards(t) \in String
  BY <1>1, <1>8 DEF String
<1>10. DOMAIN Backwards(D) = 1 .. n /\ \A d \in 1 .. n : Backwards(D)[d] = D[(n - d) + 1]
  BY <1>7, Zenon
<1>11. \A d \in 1 .. n : t[(n - d) + 1] = f[Backwards(D)[d]]
  BY <1>2, <1>3, <1>10, Zenon
<1>12. Backwards(t) = [d \in DOMAIN Backwards(D) |-> f[Backwards(D)[d]]]
  BY <1>6, <1>10, <1>11, Zenon
<1> QED BY <1>4, <1>9, <1>12, Zenon DEF t, Spell

\* What Digits returns is digits, those of a negative number negative.
LEMMA DigitsType ==
  ASSUME NEW b \in Nat \ {0, 1}, NEW n \in Nat
  PROVE  /\ Digits(n, b) \in Seq(0 .. b - 1)
         /\ n # 0 => Digits(-n, b) = [d \in DOMAIN Digits(n, b) |-> -Digits(n, b)[d]]
<1>1. b \in Nat \ {0} /\ n + 1 \in Nat
  OBVIOUS
<1>2. PICK P : Powers(b, n + 1, P)
  BY <1>1, PowersExist, Zenon
<1>3. Digits(n, b) \in Seq(0 .. b - 1)
  BY <1>2, DigitsAre, Zenon DEF IsDigits
<1>4. ASSUME n # 0 PROVE Digits(-n, b) = [d \in DOMAIN Digits(n, b) |-> -Digits(n, b)[d]]
  <2> DEFINE low(a) == CHOOSE g : Lows(b, a, g)
             abs(x) == IF x < 0 THEN -x ELSE x
  <2>1. -n < 0 /\ ~(n < 0) /\ abs(-n) = n /\ abs(n) = n
    BY <1>4
  <2>2. \A x : Digits(x, b) = [d \in DOMAIN low(abs(x))[abs(x)] |->
                                 IF x < 0 THEN -low(abs(x))[abs(x)][d] ELSE low(abs(x))[abs(x)][d]]
    BY Zenon DEF Digits, Lows
  <2> HIDE DEF low, abs
  <2>3. Digits(-n, b) = [d \in DOMAIN low(n)[n] |-> -low(n)[n][d]]
    BY <2>1, <2>2, Zenon
  <2>4. Digits(n, b) = [d \in DOMAIN low(n)[n] |-> low(n)[n][d]]
    BY <2>1, <2>2, Zenon
  <2> QED BY <2>3, <2>4, Zenon
<1> QED BY <1>3, <1>4

\* format_int writes what printf prints of a number that is not negative.
LEMMA DecimalIs ==
  ASSUME NEW n \in Nat PROVE format_int(n) = Decimal(n) /\ format_int(n) \in String
<1> DEFINE f == [x \in 0 .. 10 - 1 |-> Zero + x]
           D == Digits(n, 10)
<1>0. 10 \in Nat \ {0, 1} /\ 10 \in Nat
  OBVIOUS
<1>1. f \in [0 .. 10 - 1 -> Nat \ {0}]
  BY DEF Zero
<1>2. D \in Seq(0 .. 10 - 1)
  BY <1>0, DigitsType, Zenon
<1>3. Numeral(n, 10) = IF n = 0 THEN <<0>> ELSE Backwards(D)
  BY <1>0, NumeralIs, Zenon
<1>4. Decimal(n) = [d \in DOMAIN Numeral(n, 10) |-> Zero + Numeral(n, 10)[d]]
  <2>1. ~(n < 0)
    OBVIOUS
  <2> QED BY <2>1, Zenon DEF Decimal
<1> HIDE DEF D
<1>5. CASE n = 0
  <2>1. Decimal(n) = [d \in DOMAIN <<0>> |-> Zero + <<0>>[d]]
    BY <1>3, <1>4, <1>5, Zenon
  <2>2. [d \in DOMAIN <<0>> |-> Zero + <<0>>[d]] = <<Zero>> /\ <<Zero>> \in String
    BY DEF Zero, String
  <2>3. format_int(n) = <<Zero>>
    BY <1>5, Zenon DEF format_int
  <2> QED BY <2>1, <2>2, <2>3
<1>6. CASE n # 0
  <2>1. [d \in DOMAIN D |-> Zero + D[d]] = [d \in DOMAIN D |-> f[D[d]]]
    BY <1>2
  <2>2. format_int(n) = Backwards([d \in DOMAIN D |-> Zero + D[d]])
    BY <1>6, Zenon DEF format_int, D
  <2>3. /\ format_int(n) \in String
        /\ format_int(n) = [d \in DOMAIN Backwards(D) |-> f[Backwards(D)[d]]]
    <3> HIDE DEF f
    <3>1. Backwards(Spell(D, f)) \in String /\ Backwards(Spell(D, f)) = Spell(Backwards(D), f)
      BY <1>1, <1>2, Spelled, Zenon
    <3> QED BY <2>1, <2>2, <3>1, Zenon DEF Spell
  <2>4. Backwards(D) \in Seq(0 .. 10 - 1)
    BY <1>2 DEF Backwards
  <2>5. \A d \in DOMAIN Backwards(D) : f[Backwards(D)[d]] = Zero + Backwards(D)[d]
    BY <2>4
  <2>6. Decimal(n) = [d \in DOMAIN Backwards(D) |-> Zero + Backwards(D)[d]]
    BY <1>3, <1>4, <1>6, Zenon
  <2> HIDE DEF f
  <2> QED BY <2>3, <2>5, <2>6, Zenon
<1> QED BY <1>5, <1>6

\* Of a negative number format_int writes no sign, but characters all the same.
LEMMA NegativeIs ==
  ASSUME NEW n \in Nat \ {0} PROVE format_int(-n) \in String /\ Decimal(-n) \in String
<1> DEFINE f == [x \in 0 .. 10 - 1 |-> Zero - x]
           D == Digits(n, 10)
           E == Digits(-n, 10)
<1>0. 10 \in Nat \ {0, 1} /\ 10 \in Nat /\ n \in Nat /\ n # 0 /\ -n # 0
  OBVIOUS
<1>1. f \in [0 .. 10 - 1 -> Nat \ {0}]
  BY DEF Zero
<1>2. D \in Seq(0 .. 10 - 1) /\ E = [d \in DOMAIN D |-> -D[d]]
  BY <1>0, DigitsType, Zenon
<1>3. format_int(-n) = Backwards([d \in DOMAIN E |-> Zero + E[d]])
  BY <1>0, Zenon DEF format_int
<1>4. Decimal(-n) = <<45>> \o Decimal(n)
  <2>1. -n < 0 /\ ~(n < 0) /\ -(-n) = n
    BY <1>0
  <2> QED BY <2>1, Zenon DEF Decimal
<1>5. Decimal(-n) \in String
  <2>1. Decimal(n) \in String
    BY <1>0, DecimalIs, Zenon
  <2>2. \A s \in String : <<45>> \o s \in String
    BY DEF String
  <2> QED BY <1>4, <2>1, <2>2, Zenon
<1> HIDE DEF D, E
<1>6. [d \in DOMAIN E |-> Zero + E[d]] = [d \in DOMAIN D |-> f[D[d]]]
  <2>1. DOMAIN E = DOMAIN D /\ \A d \in DOMAIN D : E[d] = -D[d]
    BY <1>2, Zenon
  <2>2. \A d \in DOMAIN D : Zero + (-D[d]) = f[D[d]]
    BY <1>2 DEF Zero
  <2> HIDE DEF f
  <2> QED BY <2>1, <2>2, Zenon
<1> HIDE DEF f
<1>7. Backwards(Spell(D, f)) \in String
  BY <1>1, <1>2, Spelled, Zenon
<1> QED BY <1>3, <1>5, <1>6, <1>7, Zenon DEF Spell

\* int_to_hex writes the digits printf prints for %x.
LEMMA HexIs ==
  ASSUME NEW n \in Nat
  PROVE  HexDigits(n, 87) = int_to_hex(n) /\ int_to_hex(n) \in String
<1> DEFINE f == [x \in 0 .. 16 - 1 |-> hex_chars(x)]
           D == Digits(n, 16)
           N == Numeral(n, 16)
           T == [d \in DOMAIN N |-> IF N[d] < 10 THEN Zero + N[d] ELSE 87 + N[d]]
<1>0. 16 \in Nat \ {0, 1} /\ 16 \in Nat
  OBVIOUS
<1>1. f \in [0 .. 16 - 1 -> Nat \ {0}]
  BY DEF Zero, hex_chars
<1>2. D \in Seq(0 .. 16 - 1)
  BY <1>0, DigitsType, Zenon
<1>3. N = IF n = 0 THEN <<0>> ELSE Backwards(D)
  BY <1>0, NumeralIs, Zenon
<1>4. HexDigits(n, 87) = T
  BY Zenon DEF HexDigits
<1> HIDE DEF D, N
<1>5. CASE n = 0
  <2>1. N = <<0>>
    BY <1>3, <1>5, Zenon
  <2>2. T = <<Zero>> /\ <<Zero>> \in String
    BY <2>1 DEF Zero, String
  <2>3. int_to_hex(n) = <<Zero>>
    BY <1>5, Zenon DEF int_to_hex
  <2> QED BY <1>4, <2>2, <2>3, Zenon
<1>6. CASE n # 0
  <2>1. [d \in DOMAIN D |-> hex_chars(D[d])] = [d \in DOMAIN D |-> f[D[d]]]
    BY <1>2
  <2>2. int_to_hex(n) = Backwards([d \in DOMAIN D |-> hex_chars(D[d])])
    BY <1>6, Zenon DEF int_to_hex, D
  <2>3. N = Backwards(D)
    BY <1>3, <1>6, Zenon
  <2>4. Backwards(D) \in Seq(0 .. 16 - 1)
    BY <1>2 DEF Backwards
  <2>5. \A d \in DOMAIN N : f[N[d]] = IF N[d] < 10 THEN Zero + N[d] ELSE 87 + N[d]
    <3>1. \A d \in DOMAIN N : N[d] \in 0 .. 16 - 1
      BY <2>3, <2>4
    <3>2. \A x \in 0 .. 16 - 1 : f[x] = IF x < 10 THEN Zero + x ELSE 87 + x
      BY DEF hex_chars, Zero
    <3> HIDE DEF f
    <3> QED BY <3>1, <3>2, Zenon
  <2> HIDE DEF f
  <2>6. Backwards(Spell(D, f)) \in String /\ Backwards(Spell(D, f)) = Spell(Backwards(D), f)
    BY <1>1, <1>2, Spelled, Zenon
  <2>7. int_to_hex(n) = [d \in DOMAIN N |-> f[N[d]]] /\ int_to_hex(n) \in String
    BY <2>1, <2>2, <2>3, <2>6, Zenon DEF Spell
  <2>8. T = [d \in DOMAIN N |-> f[N[d]]]
    BY <2>5, Zenon
  <2> QED BY <1>4, <2>7, <2>8, Zenon
<1> QED BY <1>5, <1>6

\* What printf prints is text, in capitals too.
LEMMA HexText ==
  ASSUME NEW n \in Nat, NEW d \in {"x", "X", "p"}
  PROVE  /\ Hexadecimal(d, n) \in String
         /\ <<Zero, 120>> \o int_to_hex(n) \in String
         /\ d = "p" => Hexadecimal(d, n) = <<Zero, 120>> \o int_to_hex(n)
<1>1. \A s \in String : <<Zero, 120>> \o s \in String
  BY DEF String, Zero
<1>2. HexDigits(n, 87) = int_to_hex(n) /\ int_to_hex(n) \in String
  BY HexIs
<1>3. HexDigits(n, 55) \in String
  <2> DEFINE N == Numeral(n, 16)
             D == Digits(n, 16)
  <2>0. 16 \in Nat \ {0, 1}
    OBVIOUS
  <2>1. D \in Seq(0 .. 16 - 1)
    BY <2>0, DigitsType, Zenon
  <2>2. N = IF n = 0 THEN <<0>> ELSE Backwards(D)
    BY <2>0, NumeralIs, Zenon
  <2>3. HexDigits(n, 55) = [e \in DOMAIN N |-> IF N[e] < 10 THEN Zero + N[e] ELSE 55 + N[e]]
    BY Zenon DEF HexDigits
  <2> HIDE DEF N, D
  <2>4. Backwards(D) \in Seq(0 .. 16 - 1) /\ <<0>> \in Seq(0 .. 16 - 1)
    BY <2>1 DEF Backwards
  <2>5. N \in Seq(0 .. 16 - 1)
    BY <2>2, <2>4, Zenon
  <2>6. Len(N) \in Nat /\ DOMAIN N = 1 .. Len(N) /\ \A e \in 1 .. Len(N) : N[e] \in 0 .. 15
    BY <2>5
  <2>7. \A x \in 0 .. 15 : (IF x < 10 THEN Zero + x ELSE 55 + x) \in Nat \ {0}
    BY DEF Zero
  <2>8. \A e \in 1 .. Len(N) :
          (IF N[e] < 10 THEN Zero + N[e] ELSE 55 + N[e]) \in Nat \ {0}
    BY <2>6, <2>7, Zenon
  <2> DEFINE g(e) == IF N[e] < 10 THEN Zero + N[e] ELSE 55 + N[e]
             l == Len(N)
  <2>9. l \in Nat /\ \A e \in 1 .. l : g(e) \in Nat \ {0}
    BY <2>6, <2>8, Zenon
  <2>10. HexDigits(n, 55) = [e \in 1 .. l |-> g(e)]
    BY <2>3, <2>6, Zenon
  <2> HIDE DEF g, l
  <2>11. [e \in 1 .. l |-> g(e)] \in Seq(Nat \ {0})
    BY <2>9
  <2> QED BY <2>10, <2>11, Zenon DEF String
<1>4. CASE d = "p"
  BY <1>1, <1>2, <1>4, Zenon DEF Hexadecimal
<1>5. CASE d = "x"
  BY <1>1, <1>2, <1>5 DEF Hexadecimal
<1>6. CASE d = "X"
  BY <1>1, <1>2, <1>3, <1>6 DEF Hexadecimal
<1> QED BY <1>4, <1>5, <1>6

-----------------------------------------------------------------------------
(* The buffer, the prefix and what they hold. *)

\* The buffer holds a text and NULs from i on.
BufferInv ==
  /\ buffer \in [Index -> Nat] /\ i \in 0 .. BUFFER_SIZE
  /\ \A n \in Index : buffer[n] = NUL <=> n >= i

\* That text is s, as far as there is room.
Shows(s) ==
  /\ i = IF Len(s) <= BUFFER_SIZE THEN Len(s) ELSE BUFFER_SIZE
  /\ \A n \in 0 .. i - 1 : buffer[n] = s[n + 1]

\* The last character of the prefix stays NUL, and the copying stops there.
LoggerInv ==
  /\ prefix[PREFIX_LENGTH - 1] = NUL
  /\ at["other"] \in {"idle", "prefix", "nul"}
  /\ at["other"] = "idle" => k["other"] = 0
  /\ \A p \in Thread : at[p] = "prefix" => k[p] <= PREFIX_LENGTH - 2
  /\ \A p \in Thread : at[p] \in {"nul", "copy"} => k[p] <= PREFIX_LENGTH - 1

\* Where the buffer holds what printf would have printed
Printing ==
  \/ at["self"] \in {"format", "out"}
  \/ at["self"] \in {"prefix", "nul", "copy"} /\ call # "panic"

PrintInv ==
  /\ at["self"] \in {"again", "log", "append"} => call = "panic"
  /\ ~inexact /\ ~skipped =>
       /\ Printing => Shows(expected)
       /\ at["self"] = "print" /\ fault = "none" => i = 0 /\ expected = <<>>
       /\ at["self"] = "again" => fmt = expected
       /\ Shown => screen = expected

FormatInv ==
  /\ FormatTypeOK /\ fmt \in String
  /\ BufferInv /\ LoggerInv /\ PrintInv /\ StaysInBuffers

-----------------------------------------------------------------------------
\* The smaller of two numbers
LEMMA MinOfTwo ==
  ASSUME NEW a \in Nat, NEW b \in Nat PROVE Min({a, b}) = IF a <= b THEN a ELSE b
<1> DEFINE m == IF a <= b THEN a ELSE b
<1>1. m \in {a, b} /\ \A y \in {a, b} : m <= y
  OBVIOUS
<1>2. \A x \in {a, b} : (\A y \in {a, b} : x <= y) => x = m
  OBVIOUS
<1> HIDE DEF m
<1>3. Min({a, b}) = m
  BY <1>1, <1>2, Zenon DEF Min
<1> QED BY <1>3 DEF m

\* A string is a sequence of characters.
LEMMA StringIsText == String \subseteq Seq(Nat)
BY DEF String

\* What Store does
LEMMA StoreIs ==
  ASSUME BufferInv, NEW s \in String, Store(s)
  PROVE  \E n \in 0 .. Len(s) :
           /\ n = IF i + Len(s) <= BUFFER_SIZE THEN Len(s) ELSE BUFFER_SIZE - i
           /\ i' = i + n
           /\ buffer' = [x \in Index |-> IF x \in i .. i + n - 1 THEN s[x - i + 1] ELSE buffer[x]]
<1> DEFINE n == Min({Len(s), BUFFER_SIZE - i})
<1>1. /\ Len(s) \in Nat /\ BUFFER_SIZE \in Nat /\ i \in Nat /\ i <= BUFFER_SIZE
      /\ BUFFER_SIZE - i \in Nat
  BY FormatterAssumption DEF BufferInv, String
<1>2. n = IF Len(s) <= BUFFER_SIZE - i THEN Len(s) ELSE BUFFER_SIZE - i
  BY <1>1, MinOfTwo, Zenon
<1>3. /\ i' = i + n
      /\ buffer' = [x \in Index |-> IF x \in i .. i + n - 1 THEN s[x - i + 1] ELSE buffer[x]]
  BY DEF Store, Stored
<1> HIDE DEF n
<1>4. n \in 0 .. Len(s) /\ n = IF i + Len(s) <= BUFFER_SIZE THEN Len(s) ELSE BUFFER_SIZE - i
  BY <1>1, <1>2
<1> QED BY <1>3, <1>4, Zenon

\* Store keeps the NULs behind the text.
LEMMA StoreKeeps ==
  ASSUME BufferInv, NEW s \in String, Store(s) PROVE BufferInv'
<1>1. PICK n \in 0 .. Len(s) :
        /\ n = IF i + Len(s) <= BUFFER_SIZE THEN Len(s) ELSE BUFFER_SIZE - i
        /\ i' = i + n
        /\ buffer' = [x \in Index |-> IF x \in i .. i + n - 1 THEN s[x - i + 1] ELSE buffer[x]]
  BY StoreIs
<1>2. /\ Len(s) \in Nat /\ BUFFER_SIZE \in Nat /\ i \in Nat /\ i <= BUFFER_SIZE
  BY FormatterAssumption DEF BufferInv, String
<1>a. /\ n \in Nat /\ n = IF i + Len(s) <= BUFFER_SIZE THEN Len(s) ELSE BUFFER_SIZE - i
      /\ i' = i + n
  BY <1>1
<1>3. i' \in 0 .. BUFFER_SIZE
  BY <1>a, <1>2
<1>4. ASSUME NEW x \in i .. i + n - 1 PROVE s[x - i + 1] \in Nat \ {0}
  <2>1. x - i + 1 \in 1 .. Len(s)
    BY <1>a, <1>2
  <2> QED BY <2>1 DEF String
<1>5. ASSUME NEW x \in Index PROVE buffer'[x] \in Nat /\ (buffer'[x] = NUL <=> x >= i')
  <2>1. x \in Nat /\ buffer[x] \in Nat /\ (buffer[x] = NUL <=> x >= i)
    BY FormatterAssumption DEF Index, BufferInv
  <2>2. buffer'[x] = IF x \in i .. i + n - 1 THEN s[x - i + 1] ELSE buffer[x]
    BY <1>1, Zenon
  <2>3. CASE x \in i .. i + n - 1
    <3>1. s[x - i + 1] \in Nat \ {0}
      BY <1>4, <2>3
    <3>2. ~(x >= i')
      BY <1>a, <1>2, <2>1, <2>3
    <3> QED BY <2>2, <2>3, <3>1, <3>2 DEF NUL
  <2>4. CASE x \notin i .. i + n - 1
    <3>1. x >= i <=> x >= i'
      BY <1>a, <1>2, <2>1, <2>4
    <3> QED BY <2>1, <2>2, <2>4, <3>1, Zenon
  <2> QED BY <2>3, <2>4
<1>6. buffer' \in [Index -> Nat]
  BY <1>1, <1>5, Zenon
<1> QED BY <1>3, <1>5, <1>6, Zenon DEF BufferInv, Index

\* Where m more characters go after l of them, in a buffer for b
LEMMA Room ==
  ASSUME NEW b \in Nat, NEW l \in Nat, NEW m \in Nat, NEW j, NEW n,
         j = IF l <= b THEN l ELSE b, n = IF j + m <= b THEN m ELSE b - j
  PROVE  /\ j + n = IF l + m <= b THEN l + m ELSE b
         /\ \A x \in j .. j + n - 1 : j = l /\ x - j + 1 \in 1 .. m /\ l + (x - j + 1) = x + 1
         /\ \A x \in (0 .. j + n - 1) \ (j .. j + n - 1) : x \in 0 .. j - 1 /\ x + 1 \in 1 .. l
OBVIOUS

\* And it adds to the text what printf would have added.
LEMMA StoreShows ==
  ASSUME BufferInv, NEW s \in String, Store(s), expected \in Seq(Nat),
         expected' = expected \o s, Shows(expected)
  PROVE  Shows(expected)'
<1>1. PICK n \in 0 .. Len(s) :
        /\ n = IF i + Len(s) <= BUFFER_SIZE THEN Len(s) ELSE BUFFER_SIZE - i
        /\ i' = i + n
        /\ buffer' = [x \in Index |-> IF x \in i .. i + n - 1 THEN s[x - i + 1] ELSE buffer[x]]
  BY StoreIs
<1>2. /\ Len(s) \in Nat /\ BUFFER_SIZE \in Nat /\ i \in Nat /\ i <= BUFFER_SIZE
      /\ s \in Seq(Nat) /\ Len(expected) \in Nat
  BY FormatterAssumption DEF BufferInv, String
<1>3. /\ i = IF Len(expected) <= BUFFER_SIZE THEN Len(expected) ELSE BUFFER_SIZE
      /\ \A x \in 0 .. i - 1 : buffer[x] = expected[x + 1]
  BY DEF Shows
<1>a. /\ n \in Nat /\ n = IF i + Len(s) <= BUFFER_SIZE THEN Len(s) ELSE BUFFER_SIZE - i
      /\ i' = i + n
  <2>1. n \in Nat
    BY <1>2
  <2> QED BY <1>1, <2>1, Zenon
<1>b. i = IF Len(expected) <= BUFFER_SIZE THEN Len(expected) ELSE BUFFER_SIZE
  BY <1>3
<1>4. /\ Len(expected') = Len(expected) + Len(s)
      /\ \A x \in 1 .. Len(expected) : expected'[x] = expected[x]
      /\ \A x \in 1 .. Len(s) : expected'[Len(expected) + x] = s[x]
  BY <1>2
<1>c. /\ i + n = IF Len(expected) + Len(s) <= BUFFER_SIZE THEN Len(expected) + Len(s)
               ELSE BUFFER_SIZE
      /\ \A x \in i .. i + n - 1 :
           /\ i = Len(expected) /\ x - i + 1 \in 1 .. Len(s)
           /\ Len(expected) + (x - i + 1) = x + 1
      /\ \A x \in (0 .. i + n - 1) \ (i .. i + n - 1) :
           x \in 0 .. i - 1 /\ x + 1 \in 1 .. Len(expected)
  <2> DEFINE l == Len(expected)
             m == Len(s)
             j == i
             c == n
             B == BUFFER_SIZE
  <2>1. /\ B \in Nat /\ l \in Nat /\ m \in Nat
        /\ j = IF l <= B THEN l ELSE B
        /\ c = IF j + m <= B THEN m ELSE B - j
    BY <1>a, <1>b, <1>2
  <2> HIDE DEF l, m, j, c, B
  <2>2. /\ j + c = IF l + m <= B THEN l + m ELSE B
        /\ \A x \in j .. j + c - 1 : j = l /\ x - j + 1 \in 1 .. m /\ l + (x - j + 1) = x + 1
        /\ \A x \in (0 .. j + c - 1) \ (j .. j + c - 1) : x \in 0 .. j - 1 /\ x + 1 \in 1 .. l
    BY <2>1, Room
  <2> QED BY <2>2 DEF l, m, j, c, B
<1>5. i' = IF Len(expected') <= BUFFER_SIZE THEN Len(expected') ELSE BUFFER_SIZE
  <2>1. Len(expected') = Len(expected) + Len(s)
    BY <1>4
  <2> QED BY <1>a, <1>c, <2>1, Zenon
<1>6. ASSUME NEW x \in 0 .. i' - 1 PROVE buffer'[x] = expected'[x + 1]
  <2>0. x \in Index /\ x \in Nat /\ i' \in Nat
    BY <1>a, <1>2 DEF Index
  <2>1. buffer'[x] = IF x \in i .. i + n - 1 THEN s[x - i + 1] ELSE buffer[x]
    BY <1>1, <2>0, Zenon
  <2>2. CASE x \in i .. i + n - 1
    <3>1. /\ i = Len(expected) /\ x - i + 1 \in 1 .. Len(s)
          /\ Len(expected) + (x - i + 1) = x + 1
      BY <1>c, <2>2, Zenon
    <3> QED BY <1>4, <2>1, <2>2, <3>1, Zenon
  <2>3. CASE x \notin i .. i + n - 1
    <3>1. x \in 0 .. i - 1 /\ x + 1 \in 1 .. Len(expected)
      <4>1. x \in (0 .. i + n - 1) \ (i .. i + n - 1)
        <5>1. i' = i + n /\ i \in Int /\ n \in Int
          BY <1>a, <1>2
        <5>2. x \in Int /\ 0 <= x /\ x <= i' - 1
          BY <1>a, <1>2
        <5>3. x \in 0 .. i + n - 1
          BY <5>1, <5>2
        <5> QED BY <2>3, <5>3, Zenon
      <4> QED BY <1>c, <4>1, Zenon
    <3> QED BY <1>3, <1>4, <2>1, <2>3, <3>1, Zenon
  <2> QED BY <2>2, <2>3, Zenon
<1> QED BY <1>5, <1>6, Zenon DEF Shows

\* A text that leaves room for its NUL is read back as it was written.
LEMMA ReadBack ==
  ASSUME BufferInv
  PROVE  /\ Terminated(buffer) <=> i < BUFFER_SIZE
         /\ i < BUFFER_SIZE =>
              /\ TextOf(buffer) \in String
              /\ expected \in Seq(Nat) /\ Shows(expected) => TextOf(buffer) = expected
<1>1. /\ BUFFER_SIZE \in Nat \ {0} /\ i \in Nat /\ i <= BUFFER_SIZE
      /\ buffer \in [Index -> Nat] /\ DOMAIN buffer = Index
      /\ \A n \in Index : buffer[n] = NUL <=> n >= i
  BY FormatterAssumption DEF BufferInv
<1>2. /\ \A n \in Index : n \in Nat /\ n < BUFFER_SIZE
      /\ i < BUFFER_SIZE => i \in Index
  BY <1>1 DEF Index
<1>3. Terminated(buffer) <=> i < BUFFER_SIZE
  <2>1. ASSUME Terminated(buffer) PROVE i < BUFFER_SIZE
    <3>1. PICK n \in Index : n >= i
      BY <1>1, <2>1 DEF Terminated
    <3> QED BY <1>1, <1>2, <3>1
  <2>2. ASSUME i < BUFFER_SIZE PROVE Terminated(buffer)
    <3>1. i \in Index /\ i >= i
      BY <1>1, <1>2, <2>2
    <3> QED BY <1>1, <3>1 DEF Terminated
  <2> QED BY <2>1, <2>2
<1>4. ASSUME i < BUFFER_SIZE PROVE TextOf(buffer) = [n \in 1 .. i |-> buffer[n - 1]]
  <2> DEFINE Ends(n) == buffer[n] = NUL /\ \A m \in 0 .. n - 1 : buffer[m] # NUL
             end == CHOOSE n \in DOMAIN buffer : Ends(n)
  <2>1. i \in Index /\ buffer[i] = NUL
    <3>1. i \in Index /\ i >= i
      BY <1>1, <1>2, <1>4
    <3> QED BY <1>1, <3>1, Zenon
  <2>2. ASSUME NEW m \in 0 .. i - 1 PROVE buffer[m] # NUL
    <3>1. m \in Index /\ ~(m >= i)
      BY <1>1 DEF Index
    <3> QED BY <1>1, <3>1, Zenon
  <2>3. ASSUME NEW n \in Index, Ends(n) PROVE n = i
    <3>1. n >= i /\ n \in Nat
      BY <1>1, <1>2, <2>3, Zenon
    <3>2. i \notin 0 .. n - 1
      BY <2>1, <2>3, Zenon
    <3> QED BY <1>1, <3>1, <3>2
  <2>4. end = i
    <3>1. Ends(i)
      BY <2>1, <2>2, Zenon
    <3> HIDE DEF Ends
    <3> QED BY <1>1, <2>1, <2>3, <3>1, Zenon
  <2>5. TextOf(buffer) = [n \in 1 .. end |-> buffer[n - 1]]
    BY Zenon DEF TextOf
  <2> HIDE DEF end
  <2> QED BY <2>4, <2>5, Zenon
<1>5. ASSUME NEW n \in 1 .. i PROVE buffer[n - 1] \in Nat \ {0}
  <2>1. n - 1 \in Index /\ ~(n - 1 >= i)
    BY <1>1 DEF Index
  <2>2. buffer[n - 1] \in Nat /\ buffer[n - 1] # NUL
    BY <1>1, <2>1, Zenon
  <2> QED BY <2>2 DEF NUL
<1>6. ASSUME i < BUFFER_SIZE PROVE TextOf(buffer) \in String
  <2>1. [n \in 1 .. i |-> buffer[n - 1]] \in [1 .. i -> Nat \ {0}]
    BY <1>5, Zenon
  <2>2. \A t \in [1 .. i -> Nat \ {0}] : t \in String
    BY <1>1 DEF String
  <2> QED BY <1>4, <1>6, <2>1, <2>2, Zenon
<1>7. ASSUME i < BUFFER_SIZE, expected \in Seq(Nat), Shows(expected)
      PROVE  TextOf(buffer) = expected
  <2>1. i = Len(expected) /\ \A n \in 0 .. i - 1 : buffer[n] = expected[n + 1]
    BY <1>1, <1>7 DEF Shows
  <2>2. ASSUME NEW n \in 1 .. i PROVE buffer[n - 1] = expected[n]
    <3>1. n - 1 \in 0 .. i - 1 /\ (n - 1) + 1 = n
      BY <1>1
    <3> QED BY <2>1, <3>1, Zenon
  <2>3. expected = [n \in 1 .. Len(expected) |-> expected[n]]
    BY <1>7
  <2>4. expected = [n \in 1 .. i |-> expected[n]]
    BY <2>1, <2>3, Zenon
  <2>5. [n \in 1 .. i |-> buffer[n - 1]] = [n \in 1 .. i |-> expected[n]]
    BY <2>2, Zenon
  <2> QED BY <1>4, <1>7, <2>4, <2>5, Zenon
<1> QED BY <1>3, <1>6, <1>7

-----------------------------------------------------------------------------
FormatLabels == {"prefix", "nul", "copy", "format", "out", "again", "log", "append",
           "print", "idle", "done"}

\* An empty buffer shows the empty text.
LEMMA ShowsEmpty == ASSUME i = 0 PROVE Shows(<<>>)
<1>1. BUFFER_SIZE \in Nat
  BY FormatterAssumption
<1>2. Len(<<>>) = 0 /\ Len(<<>>) <= BUFFER_SIZE
  BY <1>1
<1>3. \A n \in 0 .. i - 1 : FALSE
  OBVIOUS
<1>4. i = IF Len(<<>>) <= BUFFER_SIZE THEN Len(<<>>) ELSE BUFFER_SIZE
  BY <1>2
<1> QED BY <1>3, <1>4, Zenon DEF Shows

\* Nothing has been written.
LEMMA FormatInitInv == ASSUME FormatInit PROVE FormatInv
<1>1. /\ BUFFER_SIZE \in Nat \ {0} /\ PREFIX_LENGTH \in Nat \ {0, 1}
      /\ Texts \subseteq String
  BY FormatterAssumption DEF String
<1>2. /\ call \in Calls /\ i = 0 /\ screen = <<>> /\ expected = <<>>
      /\ buffer = [n \in Index |-> NUL] /\ prefix = [n \in PrefixIndex |-> NUL]
      /\ new_prefix \in [Thread -> Texts] /\ k = [p \in Thread |-> 0]
      /\ inexact = FALSE /\ skipped = FALSE /\ fault = "none"
  BY DEF FormatInit
<1>3. /\ at = [self |-> at["self"], other |-> "idle"]
      /\ at["self"] \in {"prefix", "print", "format"} /\ at["other"] = "idle"
      /\ at \in [Thread -> FormatLabels]
  BY DEF FormatInit, Thread, FormatLabels
<1>4. fmt \in String /\ fmt \in Seq(Nat)
  <2>1. <<>> \in String
    BY DEF String
  <2>2. fmt \in String
    BY <1>1, <2>1, Zenon DEF FormatInit
  <2> QED BY <2>2, StringIsText
<1>5. BufferInv
  <2>1. 0 \in 0 .. BUFFER_SIZE /\ \A n \in Index : n >= 0
    BY <1>1 DEF Index
  <2>2. buffer \in [Index -> Nat]
    BY <1>2 DEF NUL
  <2> QED BY <1>2, <2>1, <2>2, Zenon DEF BufferInv
<1>6. prefix \in [PrefixIndex -> Nat] /\ prefix[PREFIX_LENGTH - 1] = NUL
  <2>1. PREFIX_LENGTH - 1 \in PrefixIndex
    BY <1>1 DEF PrefixIndex
  <2> QED BY <1>2, <2>1 DEF NUL
<1>7. k \in [Thread -> 0 .. PREFIX_LENGTH] /\ \A p \in Thread : k[p] = 0
  <2>1. 0 \in 0 .. PREFIX_LENGTH
    BY <1>1
  <2> QED BY <1>2, <2>1, Zenon
<1>8. FormatTypeOK
  <2>1. <<>> \in Seq(Nat)
    OBVIOUS
  <2>2. i \in 0 .. BUFFER_SIZE /\ buffer \in [Index -> Nat]
    BY <1>5 DEF BufferInv
  <2> QED BY <1>2, <1>3, <1>4, <1>6, <1>7, <2>1, <2>2, Zenon DEF FormatTypeOK, FormatLabels
<1>9. LoggerInv
  <2>1. 0 <= PREFIX_LENGTH - 2 /\ 0 <= PREFIX_LENGTH - 1
    BY <1>1
  <2> QED BY <1>3, <1>6, <1>7, <2>1, Zenon DEF LoggerInv, Thread
<1>10. Shows(<<>>)
  BY <1>2, ShowsEmpty, Zenon
<1>11. PrintInv
  BY <1>2, <1>3, <1>10 DEF PrintInv, Shown
<1>12. StaysInBuffers
  BY <1>2 DEF StaysInBuffers
<1> QED BY <1>4, <1>5, <1>8, <1>9, <1>11, <1>12 DEF FormatInv

\* A step of format_handler
LEMMA FormatStep ==
  ASSUME FormatInv, Formatting, UNCHANGED <<call, at, message, logger>>,
         BufferInv', expected' \in Seq(Nat), inexact' \in BOOLEAN, skipped' \in BOOLEAN,
         fault' \in {"none", "wrong argument", "overread"},
         ~inexact' /\ ~skipped' => Shows(expected)'
  PROVE  FormatInv'
<1>1. /\ call' = call /\ at' = at /\ fmt' = fmt /\ screen' = screen
      /\ prefix' = prefix /\ new_prefix' = new_prefix /\ k' = k
      /\ at["self"] = "format"
  BY Zenon DEF message, logger, Formatting, Is
<1>2. buffer' \in [Index -> Nat] /\ i' \in 0 .. BUFFER_SIZE
  BY Zenon DEF BufferInv, Index
<1>3. FormatTypeOK'
  BY <1>1, <1>2, Zenon DEF FormatInv, FormatTypeOK, Index, PrefixIndex
<1>4. LoggerInv'
  BY <1>1, Zenon DEF FormatInv, LoggerInv
<1>5. PrintInv'
  BY <1>1, Zenon DEF PrintInv, Printing, Shown
<1>6. StaysInBuffers'
  BY <1>1, Zenon DEF StaysInBuffers
<1> QED BY <1>1, <1>3, <1>4, <1>5, <1>6, Zenon DEF FormatInv

\* A step that adds text
LEMMA ConvertStep ==
  ASSUME FormatInv, Formatting, UNCHANGED <<call, at, message, logger>>,
         NEW s \in String, Store(s), NEW t \in String, expected' = expected \o t,
         inexact' \in BOOLEAN, UNCHANGED <<skipped, fault>>,
         ~inexact' => ~inexact /\ s = t
  PROVE  FormatInv'
<1>1. BufferInv /\ BufferInv'
  BY StoreKeeps DEF FormatInv
<1>2. expected \in Seq(Nat) /\ skipped \in BOOLEAN /\ fault = "none" /\ at["self"] = "format"
  BY DEF FormatInv, FormatTypeOK, Formatting, Is
<1>3. expected' \in Seq(Nat)
  <2>1. t \in Seq(Nat)
    BY StringIsText
  <2> QED BY <1>2, <2>1
<1>4. ~inexact' /\ ~skipped' => Shows(expected)'
  <2> SUFFICES ASSUME ~inexact', ~skipped' PROVE Shows(expected)'
    OBVIOUS
  <2>1. Shows(expected)
    BY <1>2 DEF FormatInv, PrintInv, Printing
  <2>2. expected' = expected \o s
    OBVIOUS
  <2> QED BY <1>1, <1>2, <2>1, <2>2, StoreShows
<1> QED BY <1>1, <1>2, <1>3, <1>4, FormatStep

\* A step that adds nothing to the buffer
LEMMA PassStep ==
  ASSUME FormatInv, Formatting, UNCHANGED <<call, at, text, message, logger>>,
         expected' \in Seq(Nat), inexact' \in BOOLEAN, skipped' \in BOOLEAN,
         fault' \in {"none", "wrong argument", "overread"},
         \/ skipped'
         \/ expected' = expected /\ (~inexact' => ~inexact) /\ (~skipped' => ~skipped)
  PROVE  FormatInv'
<1>1. buffer' = buffer /\ i' = i
  BY Zenon DEF text
<1>2. BufferInv'
  BY <1>1, Zenon DEF FormatInv, BufferInv, Index
<1>3. ~inexact' /\ ~skipped' => Shows(expected)'
  <2> SUFFICES ASSUME ~inexact', ~skipped' PROVE Shows(expected)'
    BY Zenon
  <2>1. expected' = expected /\ ~inexact /\ ~skipped
    BY Zenon
  <2>2. Shows(expected)
    BY <2>1, Zenon DEF FormatInv, PrintInv, Printing, Formatting, Is
  <2> QED BY <1>1, <2>1, <2>2, Zenon DEF Shows
<1> QED BY <1>2, <1>3, FormatStep, Zenon

\* A character of the format that is not %
LEMMA LiteralStep == ASSUME FormatInv, format_literal PROVE FormatInv'
<1>1. <<Literal>> \in String
  BY FormatterAssumption DEF String
<1>2. /\ Formatting /\ UNCHANGED <<call, at, message, logger>> /\ Store(<<Literal>>)
      /\ expected' = expected \o <<Literal>> /\ UNCHANGED <<inexact, skipped, fault>>
  BY Zenon DEF format_literal, Expect
<1>3. inexact' \in BOOLEAN
  BY <1>2, Zenon DEF FormatInv, FormatTypeOK
<1> QED BY <1>1, <1>2, <1>3, ConvertStep, Zenon

\* %d, %i and %u
LEMMA DecimalStep == ASSUME FormatInv, NEW n \in Numbers, format_decimal(n) PROVE FormatInv'
<1>1. n \in Int
  BY FormatterAssumption
<1>2. format_int(n) \in String /\ Decimal(n) \in String /\ (~(n < 0) => format_int(n) = Decimal(n))
  <2>1. CASE n < 0
    <3>1. -n \in Nat \ {0} /\ -(-n) = n
      BY <1>1, <2>1
    <3>2. format_int(-(-n)) \in String /\ Decimal(-(-n)) \in String
      BY <3>1, NegativeIs, Zenon
    <3> QED BY <2>1, <3>1, <3>2, Zenon
  <2>2. CASE ~(n < 0)
    <3>1. n \in Nat
      BY <1>1, <2>2
    <3> QED BY <3>1, DecimalIs, Zenon
  <2> QED BY <2>1, <2>2
<1>3. /\ Formatting /\ UNCHANGED <<call, at, message, logger>> /\ Store(format_int(n))
      /\ expected' = expected \o Decimal(n) /\ UNCHANGED <<skipped, fault>>
      /\ inexact' = (inexact \/ n < 0)
  BY Zenon DEF format_decimal, Expect
<1>4. inexact \in BOOLEAN
  BY Zenon DEF FormatInv, FormatTypeOK
<1>5. inexact' \in BOOLEAN /\ (~inexact' => ~inexact /\ format_int(n) = Decimal(n))
  BY <1>2, <1>3, <1>4, Zenon
<1> QED BY <1>2, <1>3, <1>5, ConvertStep, Zenon

\* %x, %X and %p
LEMMA HexStep ==
  ASSUME FormatInv, NEW n \in Numbers, n >= 0, NEW d \in {"x", "X", "p"}, format_hex(d, n)
  PROVE  FormatInv'
<1> DEFINE s == <<Zero, 120>> \o int_to_hex(n)
           t == Hexadecimal(d, n)
<1>1. n \in Nat
  BY FormatterAssumption
<1>2. s \in String /\ t \in String /\ (d = "p" => s = t)
  BY <1>1, HexText, Zenon
<1>3. /\ Formatting /\ UNCHANGED <<call, at, message, logger>>
      /\ expected' = expected \o t
      /\ inexact' = (inexact \/ d # "p")
  BY Zenon DEF format_hex, Expect
<1>4. /\ IF ~RoomForHex
         THEN skipped' = TRUE /\ UNCHANGED <<buffer, i, fault>>
         ELSE /\ UNCHANGED skipped
              /\ IF i + 1 \notin Index
                 THEN fault' = "overrun" /\ UNCHANGED <<buffer, i>>
                 ELSE Store(s) /\ UNCHANGED fault
  BY Zenon DEF format_hex
<1> HIDE DEF s, t
<1>5. inexact \in BOOLEAN /\ expected \in Seq(Nat)
  BY Zenon DEF FormatInv, FormatTypeOK
<1>6. inexact' \in BOOLEAN /\ (~inexact' => ~inexact /\ s = t)
  BY <1>2, <1>3, <1>5, Zenon
<1>7. CASE ~RoomForHex
  <2>1. t \in Seq(Nat)
    BY <1>2, StringIsText, Zenon
  <2>2. \A u \in Seq(Nat) : \A e \in Seq(Nat) : e \o u \in Seq(Nat)
    OBVIOUS
  <2>3. expected' \in Seq(Nat)
    BY <1>3, <1>5, <2>1, <2>2, Zenon
  <2>4. skipped' = TRUE /\ UNCHANGED <<text, fault>>
    BY <1>4, <1>7, Zenon DEF text
  <2>5. fault' \in {"none", "wrong argument", "overread"}
    BY <1>3, <2>4 DEF Formatting, Is
  <2>6. skipped' \in BOOLEAN /\ skipped'
    BY <2>4, Zenon
  <2> QED BY <1>3, <1>6, <2>3, <2>4, <2>5, <2>6, PassStep, Zenon
<1>8. CASE RoomForHex
  <2>1. i + 1 \in Index
    BY <1>8, FormatterAssumption DEF RoomForHex, Index, FormatInv, BufferInv
  <2>2. UNCHANGED <<skipped, fault>> /\ Store(s)
    BY <1>4, <1>8, <2>1, Zenon
  <2> QED BY <1>2, <1>3, <1>6, <2>2, ConvertStep, Zenon
<1> QED BY <1>7, <1>8

\* %s and %c
LEMMA StringStep == ASSUME FormatInv, NEW s \in Texts, format_string(s) PROVE FormatInv'
<1>1. s \in String
  BY FormatterAssumption DEF String
<1>2. /\ Formatting /\ UNCHANGED <<call, at, message, logger>> /\ Store(s)
      /\ expected' = expected \o s /\ UNCHANGED <<inexact, skipped, fault>>
  BY Zenon DEF format_string, Expect
<1>3. inexact' \in BOOLEAN
  BY <1>2, Zenon DEF FormatInv, FormatTypeOK
<1> QED BY <1>1, <1>2, <1>3, ConvertStep

\* Any directive
LEMMA DirectiveStep == ASSUME FormatInv, Directive PROVE FormatInv'
<1>1. expected \in Seq(Nat) /\ inexact \in BOOLEAN /\ skipped \in BOOLEAN
  BY Zenon DEF FormatInv, FormatTypeOK
<1>2. CASE format_octal
  <2>1. /\ Formatting /\ UNCHANGED <<call, at, text, message, logger>> /\ fault' = "none"
        /\ expected' = expected /\ inexact' = inexact /\ skipped' = TRUE
    BY <1>2 DEF format_octal, Formatting, Is
  <2> QED BY <1>1, <2>1, PassStep
<1>3. CASE format_default
  <2>1. /\ Formatting /\ UNCHANGED <<call, at, text, message, logger>> /\ fault' = "none"
        /\ expected' = expected /\ inexact' = TRUE /\ skipped' = skipped
    BY <1>3 DEF format_default, Formatting, Is
  <2> QED BY <1>1, <2>1, PassStep
<1>4. CASE va_arg_wrong \/ format_percent_last
  <2>1. /\ Formatting /\ UNCHANGED <<call, at, text, message, logger>>
        /\ fault' \in {"none", "wrong argument", "overread"}
        /\ UNCHANGED <<expected, inexact, skipped>>
    BY <1>4, Zenon DEF va_arg_wrong, format_percent_last, history
  <2> QED BY <1>1, <2>1, PassStep, Zenon
<1> QED BY <1>2, <1>3, <1>4, DecimalStep, HexStep, StringStep DEF Directive

-----------------------------------------------------------------------------
\* The parts of the invariant that the steps use
LEMMA Known ==
  ASSUME FormatInv
  PROVE  /\ FormatTypeOK /\ BufferInv /\ LoggerInv /\ PrintInv /\ fmt \in String
         /\ fmt \in Seq(Nat) /\ screen \in Seq(Nat) /\ expected \in Seq(Nat)
         /\ prefix \in [PrefixIndex -> Nat] /\ k \in [Thread -> 0 .. PREFIX_LENGTH]
         /\ at \in [Thread -> FormatLabels] /\ call \in Calls
BY Zenon DEF FormatInv, FormatTypeOK, FormatLabels

\* A change of the place of one of the processes
LEMMA Move ==
  ASSUME FormatTypeOK, NEW p \in Thread, NEW l \in FormatLabels, Continue(p, l)
  PROVE  /\ at' \in [Thread -> FormatLabels] /\ at'[p] = l
         /\ \A q \in Thread : q # p => at'[q] = at[q]
BY Zenon DEF FormatTypeOK, FormatLabels, Continue

\* A buffer that is left alone
LEMMA BufferKept ==
  ASSUME BufferInv, buffer' = buffer, i' = i PROVE BufferInv'
BY Zenon DEF BufferInv, Index

\* A buffer that is left alone still shows what it has shown.
LEMMA ShowsKept ==
  ASSUME Shows(expected), buffer' = buffer, i' = i, expected' = expected
  PROVE  Shows(expected)'
BY Zenon DEF Shows

\* The prefix is not touched when the formatting process goes on.
LEMMA LoggerKept ==
  ASSUME FormatInv, UNCHANGED <<prefix, k>>, at' \in [Thread -> FormatLabels],
         at'["other"] = at["other"],
         at'["self"] = at["self"] \/ at'["self"] \notin {"prefix", "nul", "copy"}
  PROVE  LoggerInv'
<1>1. LoggerInv
  BY DEF FormatInv
<1>2. prefix' = prefix /\ k' = k
  OBVIOUS
<1>3. ASSUME NEW p \in Thread, at'[p] \in {"prefix", "nul", "copy"} PROVE at'[p] = at[p]
  BY <1>3, Zenon DEF Thread
<1>4. ASSUME NEW p \in Thread, at'[p] = "prefix" PROVE k'[p] <= PREFIX_LENGTH - 2
  BY <1>1, <1>2, <1>3, <1>4, Zenon DEF LoggerInv
<1>5. ASSUME NEW p \in Thread, at'[p] \in {"nul", "copy"} PROVE k'[p] <= PREFIX_LENGTH - 1
  BY <1>1, <1>2, <1>3, <1>5, Zenon DEF LoggerInv
<1> QED BY <1>1, <1>2, <1>4, <1>5, Zenon DEF LoggerInv

\* The type of a state, from the types of the parts that have changed
LEMMA TypeKept ==
  ASSUME FormatTypeOK, UNCHANGED <<call, new_prefix>>, at' \in [Thread -> FormatLabels],
         BufferInv', fmt' \in Seq(Nat), screen' \in Seq(Nat), expected' \in Seq(Nat),
         prefix' \in [PrefixIndex -> Nat], k' \in [Thread -> 0 .. PREFIX_LENGTH],
         UNCHANGED <<inexact, skipped>>,
         fault' \in {"none", "overread", "formatted twice"}
  PROVE  FormatTypeOK'
<1>1. buffer' \in [Index -> Nat] /\ i' \in 0 .. BUFFER_SIZE
  BY Zenon DEF BufferInv, Index
<1>2. call' = call /\ new_prefix' = new_prefix /\ inexact' = inexact /\ skipped' = skipped
  BY Zenon
<1>3. fault' \in {"none", "overrun", "overread", "wrong argument", "formatted twice"}
  BY Zenon
<1> QED BY <1>1, <1>2, <1>3, Zenon DEF FormatTypeOK, FormatLabels, Index, PrefixIndex

\* The format ends.
LEMMA EndStep == ASSUME FormatInv, format_end PROVE FormatInv'
<1>1. /\ call' = call /\ buffer' = buffer /\ i' = i /\ fmt' = fmt /\ screen' = screen
      /\ prefix' = prefix /\ new_prefix' = new_prefix /\ k' = k
      /\ expected' = expected /\ inexact' = inexact /\ skipped' = skipped
      /\ fault' = "none" /\ at["self"] = "format" /\ Continue("self", "out")
  BY DEF format_end, text, message, logger, history, Is
<1>2. /\ FormatTypeOK /\ BufferInv /\ LoggerInv /\ PrintInv /\ fmt \in String
      /\ fmt \in Seq(Nat) /\ screen \in Seq(Nat) /\ expected \in Seq(Nat)
      /\ prefix \in [PrefixIndex -> Nat] /\ k \in [Thread -> 0 .. PREFIX_LENGTH]
      /\ at \in [Thread -> FormatLabels] /\ call \in Calls
  BY Known
<1>3. at' \in [Thread -> FormatLabels] /\ at'["self"] = "out" /\ at'["other"] = at["other"]
  BY <1>1, <1>2, Move DEF Thread, FormatLabels
<1>4. BufferInv'
  BY <1>1, <1>2, BufferKept, Zenon
<1>5. FormatTypeOK'
  BY <1>1, <1>2, <1>3, <1>4, TypeKept
<1>6. LoggerInv'
  BY <1>1, <1>3, LoggerKept
<1>7. ~inexact /\ ~skipped => Shows(expected)'
  BY <1>1, <1>2, ShowsKept, Zenon DEF PrintInv, Printing
<1>8. PrintInv'
  BY <1>1, <1>3, <1>7 DEF PrintInv, Printing, Shown
<1>9. StaysInBuffers'
  BY <1>1 DEF StaysInBuffers
<1> QED BY <1>1, <1>2, <1>4, <1>5, <1>6, <1>8, <1>9 DEF FormatInv

\* The buffer is read back and written out.
LEMMA OutputStep == ASSUME FormatInv, output PROVE FormatInv'
<1>1. /\ call' = call /\ buffer' = buffer /\ i' = i
      /\ prefix' = prefix /\ new_prefix' = new_prefix /\ k' = k
      /\ expected' = expected /\ inexact' = inexact /\ skipped' = skipped
      /\ fault = "none" /\ at["self"] = "out"
  BY DEF output, text, logger, history, Is
<1>2. /\ FormatTypeOK /\ BufferInv /\ LoggerInv /\ PrintInv /\ fmt \in String
      /\ fmt \in Seq(Nat) /\ screen \in Seq(Nat) /\ expected \in Seq(Nat)
      /\ prefix \in [PrefixIndex -> Nat] /\ k \in [Thread -> 0 .. PREFIX_LENGTH]
      /\ at \in [Thread -> FormatLabels] /\ call \in Calls
  BY Known
<1>3. BufferInv'
  BY <1>1, <1>2, BufferKept, Zenon
<1>4. ~inexact /\ ~skipped => Shows(expected) /\ Shows(expected)'
  BY <1>1, <1>2, ShowsKept, Zenon DEF PrintInv, Printing
<1>5. CASE ~Terminated(buffer)
  <2>1. fault' = "overread" /\ at' = at /\ fmt' = fmt /\ screen' = screen
    BY <1>5 DEF output, message
  <2>2. i = BUFFER_SIZE
    <3>1. ~(i < BUFFER_SIZE)
      BY <1>2, <1>5, ReadBack, Zenon
    <3> QED BY <1>2, <3>1, FormatterAssumption DEF BufferInv
  <2>3. FormatTypeOK' /\ LoggerInv'
    BY <1>1, <1>2, <1>3, <2>1, TypeKept, LoggerKept
  <2>4. PrintInv'
    BY <1>1, <1>2, <1>4, <2>1 DEF PrintInv, Printing, Shown
  <2>5. StaysInBuffers'
    BY <1>1, <2>1, <2>2 DEF StaysInBuffers
  <2> QED BY <1>2, <1>3, <2>1, <2>3, <2>4, <2>5 DEF FormatInv
<1>6. CASE Terminated(buffer)
  <2>1. /\ TextOf(buffer) \in String /\ TextOf(buffer) \in Seq(Nat)
        /\ ~inexact /\ ~skipped => TextOf(buffer) = expected
    <3>1. /\ TextOf(buffer) \in String
          /\ expected \in Seq(Nat) /\ Shows(expected) => TextOf(buffer) = expected
      BY <1>2, <1>6, ReadBack, Zenon
    <3> QED BY <1>2, <1>4, <3>1, StringIsText
  <2>2. fault' = "none"
    BY <1>1, <1>6 DEF output
  <2>3. StaysInBuffers'
    BY <2>2 DEF StaysInBuffers
  <2>4. CASE call \in {"kprintf", "print_syscall"}
    <3>1. screen' = TextOf(buffer) /\ Continue("self", "done") /\ fmt' = fmt
      BY <1>6, <2>4, ZenonT(40) DEF output
    <3>2. at' \in [Thread -> FormatLabels] /\ at'["self"] = "done" /\ at'["other"] = at["other"]
      BY <1>2, <3>1, Move DEF Thread, FormatLabels
    <3>3. FormatTypeOK' /\ LoggerInv'
      BY <1>1, <1>2, <1>3, <2>1, <2>2, <3>1, <3>2, TypeKept, LoggerKept
    <3>4. PrintInv'
      BY <1>1, <2>1, <3>1, <3>2 DEF PrintInv, Printing, Shown
    <3> QED BY <1>2, <1>3, <2>3, <3>1, <3>3, <3>4 DEF FormatInv
  <2>5. CASE call = "klog"
    <3>1. screen' = screen /\ Continue("self", "done") /\ fmt' = fmt
      BY <1>6, <2>5 DEF output, message
    <3>2. at' \in [Thread -> FormatLabels] /\ at'["self"] = "done" /\ at'["other"] = at["other"]
      BY <1>2, <3>1, Move DEF Thread, FormatLabels
    <3>3. FormatTypeOK' /\ LoggerInv'
      BY <1>1, <1>2, <1>3, <2>2, <3>1, <3>2, TypeKept, LoggerKept
    <3>4. PrintInv'
      BY <1>1, <2>5, <3>2 DEF PrintInv, Printing, Shown
    <3> QED BY <1>2, <1>3, <2>3, <3>1, <3>3, <3>4 DEF FormatInv
  <2>6. CASE call = "panic"
    <3>1. screen' = screen /\ Continue("self", "again") /\ fmt' = TextOf(buffer)
      BY <1>6, <2>6 DEF output
    <3>2. at' \in [Thread -> FormatLabels] /\ at'["self"] = "again" /\ at'["other"] = at["other"]
      BY <1>2, <3>1, Move DEF Thread, FormatLabels
    <3>3. FormatTypeOK' /\ LoggerInv'
      BY <1>1, <1>2, <1>3, <2>1, <2>2, <3>1, <3>2, TypeKept, LoggerKept
    <3>4. PrintInv'
      BY <1>1, <2>1, <2>6, <3>1, <3>2 DEF PrintInv, Printing, Shown
    <3> QED BY <1>3, <2>1, <2>3, <3>1, <3>3, <3>4 DEF FormatInv, String
  <2> QED BY <1>2, <2>4, <2>5, <2>6 DEF Calls
<1> QED BY <1>5, <1>6

\* print_syscall formats a text without directives.
LEMMA PrintStep == ASSUME FormatInv, print_syscall PROVE FormatInv'
<1>1. /\ call' = call /\ fmt' = fmt /\ screen' = screen
      /\ prefix' = prefix /\ new_prefix' = new_prefix /\ k' = k
      /\ inexact' = inexact /\ skipped' = skipped /\ expected' = expected \o fmt
      /\ fault = "none" /\ at["self"] = "print"
  BY Zenon DEF print_syscall, message, logger, Is, Expect
<1>2. /\ FormatTypeOK /\ BufferInv /\ LoggerInv /\ PrintInv /\ fmt \in String
      /\ fmt \in Seq(Nat) /\ screen \in Seq(Nat) /\ expected \in Seq(Nat)
      /\ prefix \in [PrefixIndex -> Nat] /\ k \in [Thread -> 0 .. PREFIX_LENGTH]
      /\ at \in [Thread -> FormatLabels] /\ call \in Calls
  BY Known
<1>3. expected' \in Seq(Nat)
  <2>1. \A u, v \in Seq(Nat) : u \o v \in Seq(Nat)
    OBVIOUS
  <2> QED BY <1>1, <1>2, <2>1, Zenon
<1>4. CASE \E n \in DOMAIN fmt : fmt[n] = Percent
  <2>1. fault' = "formatted twice" /\ at' = at /\ buffer' = buffer /\ i' = i
    BY <1>4, Zenon DEF print_syscall, text
  <2>2. BufferInv'
    BY <1>2, <2>1, BufferKept, Zenon
  <2>3. FormatTypeOK' /\ LoggerInv'
    BY <1>1, <1>2, <1>3, <2>1, <2>2, TypeKept, LoggerKept, Zenon
  <2>4. PrintInv'
    BY <1>1, <2>1, Zenon DEF PrintInv, Printing, Shown
  <2>5. StaysInBuffers'
    BY <2>1, Zenon DEF StaysInBuffers
  <2> QED BY <1>1, <1>2, <2>2, <2>3, <2>4, <2>5 DEF FormatInv, String
<1>5. CASE ~\E n \in DOMAIN fmt : fmt[n] = Percent
  <2>1. fault' = "none" /\ Store(fmt) /\ Continue("self", "out")
    BY <1>1, <1>5, Zenon DEF print_syscall
  <2>2. BufferInv'
    BY <1>2, <2>1, StoreKeeps
  <2>3. at' \in [Thread -> FormatLabels] /\ at'["self"] = "out" /\ at'["other"] = at["other"]
    BY <1>2, <2>1, Move DEF Thread, FormatLabels
  <2>4. FormatTypeOK' /\ LoggerInv'
    BY <1>1, <1>2, <1>3, <2>1, <2>2, <2>3, TypeKept, LoggerKept
  <2>5. ~inexact /\ ~skipped => Shows(expected)'
    <3> SUFFICES ASSUME ~inexact, ~skipped PROVE Shows(expected)'
      OBVIOUS
    <3>1. i = 0 /\ expected = <<>>
      BY <1>1, <1>2 DEF PrintInv
    <3>2. Shows(expected)
      BY <3>1, ShowsEmpty, Zenon
    <3> QED BY <1>1, <1>2, <2>1, <3>2, StoreShows, Zenon
  <2>6. PrintInv'
    BY <1>1, <2>3, <2>5 DEF PrintInv, Printing, Shown
  <2>7. StaysInBuffers'
    BY <2>1 DEF StaysInBuffers
  <2> QED BY <1>1, <1>2, <2>2, <2>4, <2>6, <2>7 DEF FormatInv, String
<1> QED BY <1>4, <1>5

\* panic hands the message to kprintf.
LEMMA AgainStep == ASSUME FormatInv, panic_kprintf PROVE FormatInv'
<1>1. /\ call' = call /\ fmt' = fmt /\ buffer' = buffer /\ i' = i
      /\ prefix' = prefix /\ new_prefix' = new_prefix /\ k' = k
      /\ expected' = expected /\ inexact' = inexact /\ skipped' = skipped
      /\ fault = "none" /\ at["self"] = "again"
  BY Zenon DEF panic_kprintf, text, logger, history, Is
<1>2. /\ FormatTypeOK /\ BufferInv /\ LoggerInv /\ PrintInv /\ fmt \in String
      /\ fmt \in Seq(Nat) /\ screen \in Seq(Nat) /\ expected \in Seq(Nat)
      /\ prefix \in [PrefixIndex -> Nat] /\ k \in [Thread -> 0 .. PREFIX_LENGTH]
      /\ at \in [Thread -> FormatLabels] /\ call \in Calls
  BY Known
<1>3. BufferInv'
  BY <1>1, <1>2, BufferKept, Zenon
<1>4. call = "panic" /\ (~inexact /\ ~skipped => fmt = expected)
  BY <1>1, <1>2 DEF PrintInv
<1>5. CASE \E n \in DOMAIN fmt : fmt[n] = Percent
  <2>1. fault' = "formatted twice" /\ at' = at /\ screen' = screen
    BY <1>5, Zenon DEF panic_kprintf
  <2>2. FormatTypeOK' /\ LoggerInv'
    BY <1>1, <1>2, <1>3, <2>1, TypeKept, LoggerKept, ZenonT(40)
  <2>3. PrintInv'
    BY <1>1, <1>4, <2>1, Zenon DEF PrintInv, Printing, Shown
  <2>4. StaysInBuffers'
    BY <2>1, Zenon DEF StaysInBuffers
  <2> QED BY <1>1, <1>2, <1>3, <2>2, <2>3, <2>4 DEF FormatInv, String
<1>6. CASE ~\E n \in DOMAIN fmt : fmt[n] = Percent
  <2>1. fault' = "none" /\ Continue("self", "log") /\ screen' = fmt
    BY <1>1, <1>6, Zenon DEF panic_kprintf
  <2>2. at' \in [Thread -> FormatLabels] /\ at'["self"] = "log" /\ at'["other"] = at["other"]
    BY <1>2, <2>1, Move DEF Thread, FormatLabels
  <2>3. FormatTypeOK' /\ LoggerInv'
    BY <1>1, <1>2, <1>3, <2>1, <2>2, TypeKept, LoggerKept
  <2>4. PrintInv'
    BY <1>1, <1>4, <2>1, <2>2 DEF PrintInv, Printing, Shown
  <2>5. StaysInBuffers'
    BY <2>1 DEF StaysInBuffers
  <2> QED BY <1>1, <1>2, <1>3, <2>3, <2>4, <2>5 DEF FormatInv, String
<1> QED BY <1>5, <1>6

\* panic hands the message to klog.
LEMMA LogStep == ASSUME FormatInv, panic_klog PROVE FormatInv'
<1>1. /\ call' = call /\ fmt' = fmt /\ screen' = screen
      /\ prefix' = prefix /\ new_prefix' = new_prefix
      /\ expected' = expected /\ inexact' = inexact /\ skipped' = skipped
      /\ fault' = "none" /\ at["self"] = "log" /\ Continue("self", "copy")
      /\ buffer' = [n \in Index |-> NUL] /\ i' = 0
      /\ k' = [k EXCEPT !["self"] = 0]
  BY DEF panic_klog, message, history, Is
<1>2. /\ FormatTypeOK /\ BufferInv /\ LoggerInv /\ PrintInv /\ fmt \in String
      /\ fmt \in Seq(Nat) /\ screen \in Seq(Nat) /\ expected \in Seq(Nat)
      /\ prefix \in [PrefixIndex -> Nat] /\ k \in [Thread -> 0 .. PREFIX_LENGTH]
      /\ at \in [Thread -> FormatLabels] /\ call \in Calls
  BY Known
<1>3. at' \in [Thread -> FormatLabels] /\ at'["self"] = "copy" /\ at'["other"] = at["other"]
  BY <1>1, <1>2, Move DEF Thread, FormatLabels
<1>4. BufferInv'
  <2>1. 0 \in 0 .. BUFFER_SIZE /\ \A n \in Index : n >= 0
    BY FormatterAssumption DEF Index
  <2>2. buffer' \in [Index -> Nat]
    BY <1>1 DEF NUL
  <2>3. \A n \in Index : buffer'[n] = NUL
    BY <1>1, Zenon
  <2> QED BY <1>1, <2>1, <2>2, <2>3, Zenon DEF BufferInv, Index
<1>5. /\ k' \in [Thread -> 0 .. PREFIX_LENGTH] /\ k'["self"] = 0 /\ k'["other"] = k["other"]
      /\ 0 <= PREFIX_LENGTH - 1
  BY <1>1, <1>2, FormatterAssumption DEF Thread
<1>6. FormatTypeOK'
  BY <1>1, <1>2, <1>3, <1>4, <1>5, TypeKept
<1>7. LoggerInv'
  <2>1. at'["self"] # "prefix" /\ k'["self"] <= PREFIX_LENGTH - 1
    BY <1>3, <1>5
  <2> QED BY <1>1, <1>2, <1>3, <1>5, <2>1, Zenon DEF LoggerInv, Thread
<1>8. call = "panic"
  BY <1>1, <1>2 DEF PrintInv
<1>9. PrintInv'
  BY <1>1, <1>3, <1>8 DEF PrintInv, Printing, Shown
<1>10. StaysInBuffers'
  BY <1>1 DEF StaysInBuffers
<1> QED BY <1>1, <1>2, <1>4, <1>6, <1>7, <1>9, <1>10 DEF FormatInv, String

\* An array that ends in NULs is terminated unless there is none.
LEMMA TerminatedBy ==
  ASSUME NEW b \in [Index -> Nat], NEW j \in 0 .. BUFFER_SIZE,
         \A n \in Index : b[n] = NUL <=> n >= j, ~Terminated(b)
  PROVE  j = BUFFER_SIZE
<1>1. BUFFER_SIZE \in Nat
  BY FormatterAssumption
<1>2. SUFFICES ASSUME j # BUFFER_SIZE PROVE FALSE
  OBVIOUS
<1>3. j \in Index /\ j >= j
  BY <1>1, <1>2 DEF Index
<1> QED BY <1>3, Zenon DEF Terminated

\* The message of panic follows the prefix.
LEMMA AppendStep == ASSUME FormatInv, panic_append PROVE FormatInv'
<1>1. /\ call' = call /\ fmt' = fmt /\ screen' = screen
      /\ prefix' = prefix /\ new_prefix' = new_prefix /\ k' = k
      /\ expected' = expected /\ inexact' = inexact /\ skipped' = skipped
      /\ fault = "none" /\ at["self"] = "append" /\ Store(fmt)
  BY DEF panic_append, message, logger, history, Is
<1>2. /\ FormatTypeOK /\ BufferInv /\ LoggerInv /\ PrintInv /\ fmt \in String
      /\ fmt \in Seq(Nat) /\ screen \in Seq(Nat) /\ expected \in Seq(Nat)
      /\ prefix \in [PrefixIndex -> Nat] /\ k \in [Thread -> 0 .. PREFIX_LENGTH]
      /\ at \in [Thread -> FormatLabels] /\ call \in Calls
  BY Known
<1>3. BufferInv'
  BY <1>1, <1>2, StoreKeeps
<1>4. call = "panic"
  BY <1>1, <1>2 DEF PrintInv
<1>5. CASE Terminated(buffer')
  <2>1. fault' = "none" /\ Continue("self", "done")
    BY <1>1, <1>5, Zenon DEF panic_append
  <2>2. at' \in [Thread -> FormatLabels] /\ at'["self"] = "done" /\ at'["other"] = at["other"]
    BY <1>2, <2>1, Move DEF Thread, FormatLabels
  <2>3. FormatTypeOK' /\ LoggerInv'
    BY <1>1, <1>2, <1>3, <2>1, <2>2, TypeKept, LoggerKept
  <2>4. PrintInv'
    BY <1>1, <1>4, <2>2 DEF PrintInv, Printing, Shown
  <2>5. StaysInBuffers'
    BY <2>1 DEF StaysInBuffers
  <2> QED BY <1>1, <1>2, <1>3, <2>3, <2>4, <2>5 DEF FormatInv, String
<1>6. CASE ~Terminated(buffer')
  <2>1. fault' = "overread" /\ at' = at
    BY <1>6, Zenon DEF panic_append
  <2>2. i' = BUFFER_SIZE
    <3>1. /\ buffer' \in [Index -> Nat] /\ i' \in 0 .. BUFFER_SIZE
          /\ \A n \in Index : buffer'[n] = NUL <=> n >= i'
      BY <1>3, Zenon DEF BufferInv, Index
    <3> QED BY <1>6, <3>1, TerminatedBy, Zenon
  <2>3. FormatTypeOK' /\ LoggerInv'
    BY <1>1, <1>2, <1>3, <2>1, TypeKept, LoggerKept
  <2>4. PrintInv'
    BY <1>1, <1>4, <2>1 DEF PrintInv, Printing, Shown
  <2>5. StaysInBuffers'
    BY <2>1, <2>2 DEF StaysInBuffers
  <2> QED BY <1>1, <1>2, <1>3, <2>3, <2>4, <2>5 DEF FormatInv, String
<1> QED BY <1>5, <1>6

-----------------------------------------------------------------------------
\* A step of vklog before it formats
LEMMA LoggerStep ==
  ASSUME FormatInv, UNCHANGED <<call, text, message, new_prefix, history, fault>>,
         fault = "none", at' \in [Thread -> FormatLabels], LoggerInv',
         prefix' \in [PrefixIndex -> Nat], k' \in [Thread -> 0 .. PREFIX_LENGTH],
         \/ at'["self"] = at["self"]
         \/ at["self"] \in {"prefix", "nul"} /\ at'["self"] \in {"nul", "copy"}
  PROVE  FormatInv'
<1>1. /\ call' = call /\ fmt' = fmt /\ screen' = screen /\ buffer' = buffer /\ i' = i
      /\ new_prefix' = new_prefix
      /\ expected' = expected /\ inexact' = inexact /\ skipped' = skipped
      /\ fault' = "none"
  BY DEF text, message, history
<1>2. /\ FormatTypeOK /\ BufferInv /\ LoggerInv /\ PrintInv /\ fmt \in String
      /\ fmt \in Seq(Nat) /\ screen \in Seq(Nat) /\ expected \in Seq(Nat)
      /\ prefix \in [PrefixIndex -> Nat] /\ k \in [Thread -> 0 .. PREFIX_LENGTH]
      /\ at \in [Thread -> FormatLabels] /\ call \in Calls
  BY Known
<1>3. BufferInv'
  BY <1>1, <1>2, BufferKept, Zenon
<1>4. FormatTypeOK'
  BY <1>1, <1>2, <1>3, TypeKept
<1>5. Printing' => Printing
  BY <1>1 DEF Printing
<1>6. ~inexact /\ ~skipped /\ Printing' => Shows(expected)'
  BY <1>1, <1>2, <1>5, ShowsKept, Zenon DEF PrintInv
<1>7. PrintInv'
  BY <1>1, <1>2, <1>6, Zenon DEF PrintInv, Shown
<1>8. StaysInBuffers'
  BY <1>1 DEF StaysInBuffers
<1> QED BY <1>1, <1>2, <1>3, <1>4, <1>7, <1>8 DEF FormatInv, String

\* A write to the prefix that is not its last character, or is a NUL
LEMMA PrefixWrite ==
  ASSUME prefix \in [PrefixIndex -> Nat], prefix[PREFIX_LENGTH - 1] = NUL,
         NEW x \in PrefixIndex, NEW c \in Nat, c # NUL => x # PREFIX_LENGTH - 1,
         prefix' = [prefix EXCEPT ![x] = c]
  PROVE  prefix' \in [PrefixIndex -> Nat] /\ prefix'[PREFIX_LENGTH - 1] = NUL
<1>1. PREFIX_LENGTH - 1 \in PrefixIndex
  BY FormatterAssumption DEF PrefixIndex
<1> DEFINE l == PREFIX_LENGTH - 1
<1> HIDE DEF l
<1>2. l \in PrefixIndex /\ prefix[l] = NUL /\ (c # NUL => x # l)
  BY <1>1 DEF l
<1>3. prefix' \in [PrefixIndex -> Nat] /\ prefix'[l] = NUL
  BY <1>2
<1> QED BY <1>3 DEF l

\* vklog copies a character of its prefix.
LEMMA PrefixStep == ASSUME FormatInv, NEW p \in Thread, vklog_prefix(p) PROVE FormatInv'
<1>1. /\ UNCHANGED <<call, text, message, new_prefix, history, fault>>
      /\ fault = "none" /\ at[p] = "prefix" /\ k' = [k EXCEPT ![p] = k[p] + 1]
  BY Zenon DEF vklog_prefix, Is
<1>2. /\ FormatTypeOK /\ BufferInv /\ LoggerInv /\ PrintInv /\ fmt \in String
      /\ fmt \in Seq(Nat) /\ screen \in Seq(Nat) /\ expected \in Seq(Nat)
      /\ prefix \in [PrefixIndex -> Nat] /\ k \in [Thread -> 0 .. PREFIX_LENGTH]
      /\ at \in [Thread -> FormatLabels] /\ call \in Calls
  BY Known
<1>3. /\ k[p] \in Nat /\ k[p] <= PREFIX_LENGTH - 2 /\ k[p] \in PrefixIndex
      /\ k[p] # PREFIX_LENGTH - 1 /\ k[p] + 1 \in 0 .. PREFIX_LENGTH
      /\ k[p] + 1 <= PREFIX_LENGTH - 1
      /\ k[p] < PREFIX_LENGTH - 2 => k[p] + 1 <= PREFIX_LENGTH - 2
  <2>1. k[p] \in 0 .. PREFIX_LENGTH /\ k[p] <= PREFIX_LENGTH - 2
    BY <1>1, <1>2, Zenon DEF LoggerInv
  <2> DEFINE x == k[p]
  <2> HIDE DEF x
  <2>2. x \in 0 .. PREFIX_LENGTH /\ x <= PREFIX_LENGTH - 2
    BY <2>1 DEF x
  <2>3. /\ x \in Nat /\ x <= PREFIX_LENGTH - 2 /\ x \in PrefixIndex
        /\ x # PREFIX_LENGTH - 1 /\ x + 1 \in 0 .. PREFIX_LENGTH
        /\ x + 1 <= PREFIX_LENGTH - 1
        /\ x < PREFIX_LENGTH - 2 => x + 1 <= PREFIX_LENGTH - 2
    BY <2>2, FormatterAssumption DEF PrefixIndex
  <2> QED BY <2>3 DEF x
<1>4. /\ k' \in [Thread -> 0 .. PREFIX_LENGTH] /\ k'[p] = k[p] + 1
      /\ \A q \in Thread : q # p => k'[q] = k[q]
  BY <1>1, <1>2, <1>3, Zenon
<1>5. CASE MoreOfPrefix(p)
  <2>1. prefix' = [prefix EXCEPT ![k[p]] = new_prefix[p][k[p] + 1]] /\ at' = at
    BY <1>5, Zenon DEF vklog_prefix
  <2>2. new_prefix[p][k[p] + 1] \in Nat
    <3>1. new_prefix[p] \in Seq(Nat)
      <4>1. new_prefix[p] \in Texts
        BY <1>2, Zenon DEF FormatTypeOK
      <4> QED BY <4>1, FormatterAssumption
    <3>2. k[p] < Len(new_prefix[p])
      BY <1>5 DEF MoreOfPrefix
    <3>3. \A s \in Seq(Nat) : \A x \in Nat : x < Len(s) => s[x + 1] \in Nat
      OBVIOUS
    <3> QED BY <1>3, <3>1, <3>2, <3>3, Zenon
  <2>3. prefix' \in [PrefixIndex -> Nat] /\ prefix'[PREFIX_LENGTH - 1] = NUL
    BY <1>2, <1>3, <2>1, <2>2, PrefixWrite, Zenon DEF LoggerInv
  <2>4. k'[p] <= PREFIX_LENGTH - 2
    BY <1>3, <1>4, <1>5, Zenon DEF MoreOfPrefix
  <2>5. LoggerInv'
    <3>1. at'["other"] = "idle" => k'["other"] = 0
      BY <1>1, <1>2, <1>4, <2>1, Zenon DEF LoggerInv, Thread
    <3>2. ASSUME NEW q \in Thread, at'[q] = "prefix" PROVE k'[q] <= PREFIX_LENGTH - 2
      BY <1>2, <1>4, <2>1, <2>4, <3>2, Zenon DEF LoggerInv
    <3>3. ASSUME NEW q \in Thread, at'[q] \in {"nul", "copy"} PROVE k'[q] <= PREFIX_LENGTH - 1
      <4>1. q # p
        BY <1>1, <2>1, <3>3, ZenonT(40)
      <4> QED BY <1>2, <1>4, <2>1, <3>3, <4>1, Zenon DEF LoggerInv
    <3> QED BY <1>2, <2>1, <2>3, <3>1, <3>2, <3>3, Zenon DEF LoggerInv
  <2> QED BY <1>1, <1>2, <1>4, <2>1, <2>3, <2>5, LoggerStep, Zenon
<1>6. CASE ~MoreOfPrefix(p)
  <2>1. prefix' = [prefix EXCEPT ![k[p]] = Space] /\ Continue(p, "nul")
    BY <1>6, Zenon DEF vklog_prefix
  <2>2. Space \in Nat
    BY DEF Space
  <2>3. prefix' \in [PrefixIndex -> Nat] /\ prefix'[PREFIX_LENGTH - 1] = NUL
    BY <1>2, <1>3, <2>1, <2>2, PrefixWrite, Zenon DEF LoggerInv
  <2>4. k'[p] <= PREFIX_LENGTH - 1
    BY <1>3, <1>4, Zenon
  <2>5. /\ at' \in [Thread -> FormatLabels] /\ at'[p] = "nul"
        /\ \A q \in Thread : q # p => at'[q] = at[q]
    BY <1>2, <2>1, Move DEF FormatLabels
  <2>6. LoggerInv'
    <3>1. at'["other"] = "idle" => k'["other"] = 0
      BY <1>2, <1>4, <2>5 DEF LoggerInv, Thread
    <3>2. ASSUME NEW q \in Thread, at'[q] = "prefix" PROVE k'[q] <= PREFIX_LENGTH - 2
      <4>1. q # p
        BY <2>5, <3>2
      <4> QED BY <1>2, <1>4, <2>5, <3>2, <4>1, Zenon DEF LoggerInv
    <3>3. ASSUME NEW q \in Thread, at'[q] \in {"nul", "copy"} PROVE k'[q] <= PREFIX_LENGTH - 1
      BY <1>2, <1>4, <2>4, <2>5, <3>3, Zenon DEF LoggerInv
    <3>4. at'["other"] \in {"idle", "prefix", "nul"}
      BY <1>2, <2>5 DEF LoggerInv, Thread
    <3> QED BY <2>3, <3>1, <3>2, <3>3, <3>4, Zenon DEF LoggerInv
  <2>7. \/ at'["self"] = at["self"]
        \/ at["self"] \in {"prefix", "nul"} /\ at'["self"] \in {"nul", "copy"}
    BY <1>1, <2>5 DEF Thread
  <2> QED BY <1>1, <1>4, <2>3, <2>5, <2>6, <2>7, LoggerStep
<1> QED BY <1>5, <1>6

\* What the index of a process that is past the characters may be
LEMMA IndexOf ==
  ASSUME FormatInv, NEW p \in Thread, at[p] \in {"nul", "copy"}
  PROVE  k[p] \in Nat /\ k[p] <= PREFIX_LENGTH - 1 /\ k[p] \in PrefixIndex
<1>1. k[p] \in 0 .. PREFIX_LENGTH /\ k[p] <= PREFIX_LENGTH - 1
  BY Known, Zenon DEF LoggerInv
<1> DEFINE x == k[p]
<1> HIDE DEF x
<1>2. x \in 0 .. PREFIX_LENGTH /\ x <= PREFIX_LENGTH - 1
  BY <1>1, Zenon DEF x
<1>3. x \in Nat /\ x <= PREFIX_LENGTH - 1 /\ x \in PrefixIndex
  BY <1>2, FormatterAssumption DEF PrefixIndex
<1> QED BY <1>3, Zenon DEF x

\* vklog ends its prefix.
LEMMA NulStep == ASSUME FormatInv, NEW p \in Thread, vklog_nul(p) PROVE FormatInv'
<1>1. /\ UNCHANGED <<call, text, message, new_prefix, history>>
      /\ fault = "none" /\ at[p] = "nul" /\ k' = [k EXCEPT ![p] = 0]
      /\ Continue(p, IF p = "self" THEN "copy" ELSE "idle")
  BY DEF vklog_nul, Is
<1>2. /\ FormatTypeOK /\ BufferInv /\ LoggerInv /\ PrintInv /\ fmt \in String
      /\ fmt \in Seq(Nat) /\ screen \in Seq(Nat) /\ expected \in Seq(Nat)
      /\ prefix \in [PrefixIndex -> Nat] /\ k \in [Thread -> 0 .. PREFIX_LENGTH]
      /\ at \in [Thread -> FormatLabels] /\ call \in Calls
  BY Known
<1>3. k[p] \in PrefixIndex
  BY <1>1, IndexOf
<1>4. fault' = fault /\ prefix' = [prefix EXCEPT ![k[p]] = NUL]
  BY <1>3, Zenon DEF vklog_nul
<1>5. prefix' \in [PrefixIndex -> Nat] /\ prefix'[PREFIX_LENGTH - 1] = NUL
  <2>1. NUL \in Nat
    BY DEF NUL
  <2> QED BY <1>2, <1>3, <1>4, <2>1, PrefixWrite, Zenon DEF LoggerInv
<1>6. /\ 0 \in 0 .. PREFIX_LENGTH /\ 0 <= PREFIX_LENGTH - 1 /\ 0 <= PREFIX_LENGTH - 2
  BY FormatterAssumption
<1>7. /\ k' \in [Thread -> 0 .. PREFIX_LENGTH] /\ k'[p] = 0
      /\ \A q \in Thread : q # p => k'[q] = k[q]
  BY <1>1, <1>2, <1>6, Zenon
<1>8. /\ at' \in [Thread -> FormatLabels] /\ at'[p] = IF p = "self" THEN "copy" ELSE "idle"
      /\ \A q \in Thread : q # p => at'[q] = at[q]
  <2>1. (IF p = "self" THEN "copy" ELSE "idle") \in FormatLabels
    BY DEF FormatLabels
  <2> QED BY <1>1, <1>2, <2>1, Move, Zenon
<1>9. LoggerInv'
  <2>1. at'["other"] = "idle" => k'["other"] = 0
    BY <1>2, <1>7, <1>8, Zenon DEF LoggerInv, Thread
  <2>2. ASSUME NEW q \in Thread, at'[q] = "prefix" PROVE k'[q] <= PREFIX_LENGTH - 2
    <3>1. CASE q = p
      BY <1>6, <1>7, <3>1, Zenon
    <3>2. CASE q # p
      BY <1>2, <1>7, <1>8, <2>2, <3>2, Zenon DEF LoggerInv
    <3> QED BY <3>1, <3>2
  <2>3. ASSUME NEW q \in Thread, at'[q] \in {"nul", "copy"} PROVE k'[q] <= PREFIX_LENGTH - 1
    <3>1. CASE q = p
      BY <1>6, <1>7, <3>1, Zenon
    <3>2. CASE q # p
      BY <1>2, <1>7, <1>8, <2>3, <3>2, Zenon DEF LoggerInv
    <3> QED BY <3>1, <3>2
  <2>4. at'["other"] \in {"idle", "prefix", "nul"}
    BY <1>2, <1>8 DEF LoggerInv, Thread
  <2> QED BY <1>5, <2>1, <2>2, <2>3, <2>4, Zenon DEF LoggerInv
<1>10. \/ at'["self"] = at["self"]
       \/ at["self"] \in {"prefix", "nul"} /\ at'["self"] \in {"nul", "copy"}
  BY <1>1, <1>8 DEF Thread
<1> QED BY <1>1, <1>4, <1>5, <1>7, <1>8, <1>9, <1>10, LoggerStep

\* Another process calls klog.
LEMMA OtherStep == ASSUME FormatInv, klog_other PROVE FormatInv'
<1>1. /\ UNCHANGED <<call, text, message, new_prefix, history, fault>>
      /\ fault = "none" /\ at["other"] = "idle" /\ Continue("other", "prefix")
      /\ prefix' = prefix /\ k' = k
  BY DEF klog_other, Is, logger
<1>2. /\ FormatTypeOK /\ BufferInv /\ LoggerInv /\ PrintInv /\ fmt \in String
      /\ fmt \in Seq(Nat) /\ screen \in Seq(Nat) /\ expected \in Seq(Nat)
      /\ prefix \in [PrefixIndex -> Nat] /\ k \in [Thread -> 0 .. PREFIX_LENGTH]
      /\ at \in [Thread -> FormatLabels] /\ call \in Calls
  BY Known
<1>3. at' \in [Thread -> FormatLabels] /\ at'["other"] = "prefix" /\ at'["self"] = at["self"]
  BY <1>1, <1>2, Move DEF Thread, FormatLabels
<1>4. k["other"] = 0 /\ 0 <= PREFIX_LENGTH - 2
  <2>1. k["other"] = 0
    BY <1>1, <1>2, Zenon DEF LoggerInv
  <2>2. 0 <= PREFIX_LENGTH - 2
    BY FormatterAssumption
  <2> QED BY <2>1, <2>2
<1>5. LoggerInv'
  <2>1. ASSUME NEW q \in Thread, at'[q] = "prefix" PROVE k'[q] <= PREFIX_LENGTH - 2
    BY <1>1, <1>2, <1>3, <1>4, <2>1, Zenon DEF LoggerInv, Thread
  <2>2. ASSUME NEW q \in Thread, at'[q] \in {"nul", "copy"} PROVE k'[q] <= PREFIX_LENGTH - 1
    <3>1. q = "self"
      BY <1>3, <2>2 DEF Thread
    <3> QED BY <1>1, <1>2, <1>3, <2>2, <3>1, Zenon DEF LoggerInv
  <2>3. at'["other"] # "idle"
    BY <1>3
  <2> QED BY <1>1, <1>2, <1>3, <2>1, <2>2, <2>3, Zenon DEF LoggerInv
<1> QED BY <1>1, <1>2, <1>3, <1>5, LoggerStep

\* The prefix goes into the buffer.
LEMMA CopyStep == ASSUME FormatInv, vklog_copy PROVE FormatInv'
<1>1. /\ call' = call /\ fmt' = fmt /\ screen' = screen
      /\ prefix' = prefix /\ new_prefix' = new_prefix
      /\ inexact' = inexact /\ skipped' = skipped /\ fault = "none" /\ at["self"] = "copy"
  BY DEF vklog_copy, message, Is
<1>2. /\ FormatTypeOK /\ BufferInv /\ LoggerInv /\ PrintInv /\ fmt \in String
      /\ fmt \in Seq(Nat) /\ screen \in Seq(Nat) /\ expected \in Seq(Nat)
      /\ prefix \in [PrefixIndex -> Nat] /\ k \in [Thread -> 0 .. PREFIX_LENGTH]
      /\ at \in [Thread -> FormatLabels] /\ call \in Calls
  BY Known
<1> DEFINE x == k["self"]
<1>3. x \in Nat /\ x <= PREFIX_LENGTH - 1 /\ x \in PrefixIndex
  BY <1>1, IndexOf DEF Thread
<1>4. fault' = "none" /\ StaysInBuffers'
  BY <1>1, <1>3 DEF vklog_copy, StaysInBuffers
<1>5. ~inexact /\ ~skipped /\ call # "panic" => Shows(expected)
  BY <1>1, <1>2 DEF PrintInv, Printing
<1>6. CASE prefix[x] = NUL
  <2> DEFINE l == IF call = "panic" THEN "append" ELSE "format"
  <2>1. Continue("self", l) /\ buffer' = buffer /\ i' = i /\ k' = k /\ expected' = expected
    BY <1>3, <1>6, Zenon DEF vklog_copy
  <2>2. l \in FormatLabels /\ l \notin {"prefix", "nul", "copy"}
    BY DEF FormatLabels
  <2>3. at' \in [Thread -> FormatLabels] /\ at'["self"] = l /\ at'["other"] = at["other"]
    BY <1>2, <2>1, <2>2, Move DEF Thread
  <2>4. BufferInv'
    BY <1>2, <2>1, BufferKept, Zenon
  <2>5. FormatTypeOK' /\ LoggerInv'
    BY <1>1, <1>2, <1>4, <2>1, <2>2, <2>3, <2>4, TypeKept, LoggerKept
  <2>6. ~inexact /\ ~skipped /\ call # "panic" => Shows(expected)'
    BY <1>5, <2>1, ShowsKept, Zenon
  <2>7. PrintInv'
    BY <1>1, <2>3, <2>6 DEF PrintInv, Printing, Shown
  <2> QED BY <1>1, <1>2, <1>4, <2>4, <2>5, <2>7 DEF FormatInv, String
<1>7. CASE prefix[x] # NUL
  <2>1. /\ Store(<<prefix[x]>>) /\ expected' = expected \o <<prefix[x]>> /\ at' = at
        /\ k' = [k EXCEPT !["self"] = x + 1]
    BY <1>3, <1>7, Zenon DEF vklog_copy, Expect
  <2>2. prefix[x] \in Nat \ {0}
    BY <1>2, <1>3, <1>7 DEF NUL
  <2>3. <<prefix[x]>> \in String /\ <<prefix[x]>> \in Seq(Nat)
    <3>1. \A c \in Nat \ {0} : <<c>> \in String /\ <<c>> \in Seq(Nat)
      BY DEF String
    <3> QED BY <2>2, <3>1, Zenon
  <2>4. BufferInv'
    BY <1>2, <2>1, <2>3, StoreKeeps, Zenon
  <2>5. x + 1 <= PREFIX_LENGTH - 1 /\ x + 1 \in 0 .. PREFIX_LENGTH
    <3>1. x # PREFIX_LENGTH - 1
      BY <1>2, <1>7 DEF LoggerInv
    <3> HIDE DEF x
    <3> QED BY <1>3, <3>1, FormatterAssumption
  <2>6. /\ k' \in [Thread -> 0 .. PREFIX_LENGTH] /\ k'["self"] = x + 1
        /\ k'["other"] = k["other"]
    <3> HIDE DEF x
    <3> QED BY <1>2, <2>1, <2>5 DEF Thread
  <2>7. expected' \in Seq(Nat)
    <3>1. \A e, t \in Seq(Nat) : e \o t \in Seq(Nat)
      OBVIOUS
    <3> QED BY <1>2, <2>1, <2>3, <3>1, Zenon
  <2>8. FormatTypeOK'
    BY <1>1, <1>2, <1>4, <2>1, <2>4, <2>6, <2>7, TypeKept
  <2>9. LoggerInv'
    <3>1. at'["self"] # "prefix" /\ k'["self"] <= PREFIX_LENGTH - 1
      BY <1>1, <2>1, <2>5, <2>6
    <3> QED BY <1>1, <1>2, <2>1, <2>6, <3>1, Zenon DEF LoggerInv, Thread
  <2>10. ~inexact /\ ~skipped /\ call # "panic" => Shows(expected)'
    BY <1>2, <1>5, <2>1, <2>3, StoreShows, Zenon
  <2>11. PrintInv'
    BY <1>1, <2>1, <2>10 DEF PrintInv, Printing, Shown
  <2> QED BY <1>1, <1>2, <1>4, <2>4, <2>8, <2>9, <2>11 DEF FormatInv, String
<1> QED BY <1>6, <1>7

-----------------------------------------------------------------------------
\* Every step keeps the invariant.
LEMMA FormatNextInv == FormatInv /\ [FormatNext]_formatvars => FormatInv'
<1>1. ASSUME FormatInv, UNCHANGED formatvars PROVE FormatInv'
  <2>1. /\ call' = call /\ at' = at /\ buffer' = buffer /\ i' = i /\ fmt' = fmt
        /\ screen' = screen /\ prefix' = prefix /\ new_prefix' = new_prefix /\ k' = k
        /\ expected' = expected /\ inexact' = inexact /\ skipped' = skipped
        /\ fault' = fault
    BY <1>1 DEF formatvars, text, message, logger, history
  <2>2. BufferInv'
    BY <1>1, <2>1, BufferKept DEF FormatInv
  <2>3. FormatTypeOK'
    BY <1>1, <2>1, Zenon DEF FormatInv, FormatTypeOK, Index, PrefixIndex
  <2>4. LoggerInv'
    BY <1>1, <2>1, Zenon DEF FormatInv, LoggerInv
  <2>5. Shows(expected) => Shows(expected)'
    BY <2>1, ShowsKept, Zenon
  <2>6. PrintInv'
    BY <1>1, <2>1, <2>5 DEF FormatInv, PrintInv, Printing, Shown
  <2>7. StaysInBuffers'
    BY <1>1, <2>1, Zenon DEF FormatInv, StaysInBuffers
  <2> QED BY <1>1, <2>1, <2>2, <2>3, <2>4, <2>6, <2>7 DEF FormatInv, String
<1>2. ASSUME FormatInv, FormatNext PROVE FormatInv'
  <2>1. CASE format_literal \/ Directive \/ format_end
    BY <1>2, <2>1, LiteralStep, DirectiveStep, EndStep
  <2>2. CASE output \/ print_syscall
    BY <1>2, <2>2, OutputStep, PrintStep
  <2>3. CASE panic_kprintf \/ panic_klog \/ panic_append
    BY <1>2, <2>3, AgainStep, LogStep, AppendStep
  <2>4. CASE \E p \in Thread : vklog_prefix(p) \/ vklog_nul(p)
    BY <1>2, <2>4, PrefixStep, NulStep
  <2>5. CASE klog_other \/ vklog_copy
    BY <1>2, <2>5, OtherStep, CopyStep
  <2> QED BY <1>2, <2>1, <2>2, <2>3, <2>4, <2>5 DEF FormatNext
<1> QED BY <1>1, <1>2

\* The invariant holds in every state.
LEMMA FormatInductive == FormatSpec => []FormatInv
<1>1. FormatInit => FormatInv
  BY FormatInitInv
<1> QED BY <1>1, FormatNextInv, PTL DEF FormatSpec

\* A buffer that shows what is expected holds the start of it.
LEMMA WrittenIs ==
  ASSUME BufferInv, expected \in Seq(Nat), Shows(expected)
  PROVE  Written = SubSeq(expected, 1, Min({Len(expected), BUFFER_SIZE}))
<1>1. i \in Nat /\ Len(expected) \in Nat /\ BUFFER_SIZE \in Nat
  BY FormatterAssumption DEF BufferInv
<1>2. Min({Len(expected), BUFFER_SIZE}) = i
  BY <1>1, MinOfTwo, Zenon DEF Shows
<1>3. i <= Len(expected)
  BY <1>1 DEF Shows
<1>4. ASSUME NEW n \in 1 .. i PROVE buffer[n - 1] = expected[n]
  <2>1. n - 1 \in 0 .. i - 1 /\ (n - 1) + 1 = n
    BY <1>1
  <2>2. buffer[n - 1] = expected[(n - 1) + 1]
    BY <2>1, Zenon DEF Shows
  <2> QED BY <2>1, <2>2, Zenon
<1>5. Written = [n \in 1 .. i |-> expected[n]]
  BY <1>4, Zenon DEF Written
<1>6. \A e \in Seq(Nat) : \A m \in Nat : m <= Len(e) => SubSeq(e, 1, m) = [n \in 1 .. m |-> e[n]]
  OBVIOUS
<1> QED BY <1>1, <1>2, <1>3, <1>5, <1>6, Zenon

\* Every variable of the formatter keeps its type: the offset stays within the
\* buffer, the indices into the prefix within it.
THEOREM FormatTypeCorrect == FormatSpec => []FormatTypeOK
<1>1. FormatInv => FormatTypeOK
  BY DEF FormatInv
<1> QED BY <1>1, FormatInductive, PTL

\* No write of format_handler or vklog leaves its array, and no text is read
\* beyond its end but one that fills the buffer or a format that ends in %, for
\* every size of the buffer and of the prefix, and for every text and number.
THEOREM AlwaysStaysInBuffers == FormatSpec => []StaysInBuffers
<1>1. FormatInv => StaysInBuffers
  BY DEF FormatInv
<1> QED BY <1>1, FormatInductive, PTL

\* What kprintf, print_syscall and panic put on the screen is what printf would
\* print, for every sequence of conversions the code has, for every natural
\* number in decimal and hexadecimal, and for every text.
THEOREM AlwaysPrintsLikePrintf == FormatSpec => []PrintsLikePrintf
<1>1. ASSUME FormatInv PROVE PrintsLikePrintf
  <2>1. BufferInv /\ PrintInv /\ expected \in Seq(Nat)
    BY <1>1, Known
  <2>2. ASSUME ~inexact, ~skipped, at["self"] = "format"
        PROVE  Written = SubSeq(expected, 1, Min({Len(expected), BUFFER_SIZE}))
    <3>1. Shows(expected)
      BY <2>1, <2>2 DEF PrintInv, Printing
    <3> QED BY <2>1, <3>1, WrittenIs, Zenon
  <2>3. ~inexact /\ ~skipped /\ Shown => screen = expected
    BY <2>1 DEF PrintInv
  <2> QED BY <2>2, <2>3, Zenon DEF PrintsLikePrintf
<1> QED BY <1>1, FormatInductive, PTL
=============================================================================
