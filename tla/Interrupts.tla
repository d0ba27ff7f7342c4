----------------------------- MODULE Interrupts -----------------------------
(***************************************************************************)
(* Boot (_start of kernel/startup.c) and the dispatch of interrupts: the   *)
(* two interrupt controllers (external) that cpu/pic.c programs and        *)
(* acknowledges, the gates and handlers of interrupts/idt.c and            *)
(* interrupt_vector.asm, the system call gate of userland/sys.c, and the   *)
(* keyboard controller (external), whose port keyboard_handler reads       *)
(* twice.  What the timer handler and the system calls do is in Scheduler, *)
(* Stdin and VFS.                                                          *)
(*                                                                         *)
(* Interrupt gates turn interrupts off: a handler is left only by iretq.   *)
(***************************************************************************)
EXTENDS Integers, Sequences, FiniteSetsExt, GDT

CONSTANTS
  Lines,     \* lines of the controllers with a device, the keyboard's 1 apart
  MaxRaise,  \* bound of the model: requests of each of these lines
  MaxKeys    \* bound of the model: bytes the keyboard sends

ASSUME InterruptsAssumption ==
  /\ Lines \subseteq (0 .. 15) \ {1, 2}   \* 2 is where the second one is
  /\ MaxRaise \in Nat /\ MaxKeys \in Nat

Keys == {"shift", "caps lock", "other"}
Locks == {"keyboard_lock", "heap"}   \* heap: the locks of pmm.c and vmm.c
NONE == -1

VARIABLES
  boot,          \* how many of BootSteps _start has executed
  abandoned,     \* schedule() has switched to a process; _start never resumes
  selectors,     \* CS, SS and TR
  irq_handlers,  \* lines for which a handler is installed
  pc,            \* what the CPU executes
  vector,        \* of the handler it is in, or NONE
  frame,         \* int_number of the frame the handler returns
  irr, isr,      \* lines requested and in service, of both controllers
  raised,        \* how often each line has been raised
  queue,         \* bytes the keyboard has not handed to its controller
  port, full,    \* the byte port 0x60 shows, and whether it is unread
  keys,          \* how many bytes the keyboard has sent
  scancode,      \* local of keyboard_handler
  keyboard,      \* keyboard.shift and keyboard.caps_lock
  locks,         \* spinlocks that a process has taken with interrupts on
  down, light,   \* history variables: keys held, and what caps lock should be
  repeated,      \* history variable: caps lock has been held until it repeated
  torn,          \* history variable: the two reads got different bytes
  early          \* history variable: a byte came before keyboard_init

cpu == <<boot, abandoned, selectors, irq_handlers, pc, vector, frame>>
pic == <<irr, isr, raised>>
controller == <<queue, port, full>>
typed == <<keys, down, light, repeated>>
driver == <<scancode, keyboard, locks, torn, early>>
vars == <<cpu, pic, controller, typed, driver>>

Byte == [key : Keys, pressed : BOOLEAN]

-----------------------------------------------------------------------------
(* An operator named like the one after it, with a suffix, is a mutant of  *)
(* it: the same code with a bug.                                           *)

\* The steps of _start that matter to interrupts, in their order
BootStepsTimerFirst ==
  <<"gdt_init", "idt_init", "syscall_init", "irq_install_handler(0)",
    "PIT mode", "PIT low byte", "PIT high byte", "scheduler_init",
    "keyboard_init", "process_create">>
BootSteps ==
  <<"gdt_init", "idt_init", "syscall_init", "scheduler_init",
    "keyboard_init", "process_create", "irq_install_handler(0)",
    "PIT mode", "PIT low byte", "PIT high byte">>

Executed == {BootSteps[n] : n \in 1 .. boot}

TypeOK ==
  /\ boot \in 0 .. Len(BootSteps)
  /\ abandoned \in BOOLEAN
  /\ DOMAIN selectors = {"cs", "ss", "tr"}
  /\ irq_handlers \subseteq 0 .. 15
  /\ pc \in {"run", "dispatch", "second read", "eoi", "halted", "wild", "hung"}
  /\ vector \in 0 .. 255 \union {NONE}
  /\ frame \in 0 .. 255 \union {NONE}
  /\ irr \subseteq 0 .. 15 /\ isr \subseteq 0 .. 15
  /\ raised \in [Lines -> 0 .. MaxRaise]
  /\ queue \in Seq(Byte) /\ port \in Byte /\ full \in BOOLEAN
  /\ keys \in 0 .. MaxKeys
  /\ scancode \in Keys
  /\ keyboard \in [shift : BOOLEAN, caps_lock : BOOLEAN]
  /\ locks \subseteq Locks
  /\ down \subseteq Keys
  /\ {light, repeated, torn, early} \subseteq BOOLEAN

\* The boot loader jumps to _start with interrupts off.
Init ==
  /\ boot = 0 /\ abandoned = FALSE
  /\ selectors = [cs |-> NONE, ss |-> NONE, tr |-> NONE]
  /\ irq_handlers = {}
  /\ pc = "run" /\ vector = NONE /\ frame = NONE
  /\ irr = {} /\ isr = {} /\ raised = [l \in Lines |-> 0]
  /\ queue = <<>> /\ full = FALSE
  /\ port = [key |-> "other", pressed |-> FALSE]
  /\ keys = 0 /\ down = {} /\ light = FALSE /\ repeated = FALSE
  /\ scancode = "other"
  /\ keyboard = [shift |-> FALSE, caps_lock |-> FALSE]
  /\ locks = {}
  /\ torn = FALSE /\ early = FALSE

Running == pc = "run"
InterruptsOn == Running /\ "idt_init" \in Executed

-----------------------------------------------------------------------------
(* Devices (external). *)

raise(l) ==
  /\ raised[l] < MaxRaise
  /\ irr' = irr \union {l}
  /\ raised' = [raised EXCEPT ![l] = @ + 1]
  /\ UNCHANGED <<cpu, isr, controller, typed, driver>>

Send(b) ==
  /\ keys < MaxKeys
  /\ keys' = keys + 1
  /\ queue' = Append(queue, b)

press(key) ==
  /\ key \notin down
  /\ Send([key |-> key, pressed |-> TRUE])
  /\ down' = down \union {key}
  /\ light' = IF key = "caps lock" THEN ~light ELSE light
  /\ UNCHANGED <<cpu, pic, port, full, repeated, driver>>

\* A key that is held sends its code again.
repeat(key) ==
  /\ key \in down
  /\ Send([key |-> key, pressed |-> TRUE])
  /\ repeated' = (repeated \/ key = "caps lock")
  /\ UNCHANGED <<cpu, pic, port, full, down, light, driver>>

release(key) ==
  /\ key \in down
  /\ Send([key |-> key, pressed |-> FALSE])
  /\ down' = down \ {key}
  /\ UNCHANGED <<cpu, pic, port, full, light, repeated, driver>>

\* The controller shows the next byte once the last one has been read.  Its
\* line is edge triggered: it is raised once per byte.
load ==
  /\ queue # <<>> /\ ~full
  /\ port' = Head(queue) /\ queue' = Tail(queue) /\ full' = TRUE
  /\ irr' = irr \union {1}
  /\ UNCHANGED <<cpu, isr, raised, typed, driver>>

-----------------------------------------------------------------------------
(* The controllers (external), as pic_init programs them: line 2 of the    *)
(* first is the second, requests are edge triggered, a lower line goes     *)
(* first, and one in service blocks itself and the higher ones.            *)

First(lines) == {l \in lines : l < 8}
Second(lines) == {l \in lines : l >= 8}

SecondRequests == {l \in Second(irr) : \A s \in Second(isr) : l < s}
Requests == First(irr) \union (IF SecondRequests # {} THEN {2} ELSE {})
Deliverable == {l \in Requests : \A s \in First(isr) : l < s}

\* pic_init maps the lines to 32 .. 39 and 40 .. 47.
VectorOf(l) == IF l < 8 THEN 32 + l ELSE 40 + (l - 8)

\* set_interrupt_descriptor: the code selector of every gate; flags 1110 make
\* it an interrupt gate.
GateSelector == 40

\* The CPU enters the gate of vector v; the stub pushes v as int_number.
Enter(v) ==
  /\ vector' = v
  /\ frame' = v
  /\ pc' = "dispatch"
  /\ selectors' = [selectors EXCEPT !.cs = GateSelector]
  /\ UNCHANGED <<boot, abandoned, irq_handlers>>

acknowledge ==
  /\ InterruptsOn /\ Deliverable # {}
  /\ LET m == Min(Deliverable)
         l == IF m = 2 THEN Min(SecondRequests) ELSE m
     IN  /\ irr' = irr \ {l}
         /\ isr' = isr \union {m, l}
         /\ Enter(VectorOf(l))
  /\ UNCHANGED <<raised, controller, typed, driver>>

\* A request vanishes before it is acknowledged: the controller answers with
\* its last line, which is not in service then.
spurious(l) ==
  LET m == IF l = 15 THEN 2 ELSE 7 IN
  /\ InterruptsOn
  /\ \A s \in First(isr) : m < s
  /\ isr' = IF l = 15 THEN isr \union {2} ELSE isr
  /\ Enter(VectorOf(l))
  /\ UNCHANGED <<irr, raised, controller, typed, driver>>

\* An end of interrupt, not naming a line, ends the lowest one in service.
Ended(lines) == IF lines = {} THEN {} ELSE {Min(lines)}

\* What pic_eoi(offset) leaves in service
pic_eoi_first_only(offset) == isr \ Ended(First(isr))
pic_eoi_of_irq(offset) ==
  IF offset >= 32 THEN isr \ (Ended(First(isr)) \union Ended(Second(isr))) ELSE isr
pic_eoi(offset) ==
  (isr \ Ended(First(isr))) \ (IF offset >= 40 THEN Ended(Second(isr)) ELSE {})

-----------------------------------------------------------------------------
(* The kernel. *)

\* What gdt_load and tss_load load, and what process_create puts in a context
LoadedSelectors == [cs |-> 40, ss |-> 48, tr |-> 72]
iret_cs == 40
iret_ss == 48

\* The next step of _start
start_step ==
  /\ Running /\ ~abandoned /\ boot < Len(BootSteps)
  /\ boot' = boot + 1
  /\ LET step == BootSteps[boot + 1] IN
     /\ selectors' = IF step = "gdt_init" THEN LoadedSelectors ELSE selectors
     /\ irq_handlers' = CASE step = "keyboard_init" -> irq_handlers \union {1}
                          [] step = "irq_install_handler(0)" -> irq_handlers \union {0}
                          [] OTHER -> irq_handlers
     \* pic_init forgets the requests there are.
     /\ irr' = IF step = "idt_init" THEN {} ELSE irr
     /\ early' = (early \/ (step = "idt_init" /\ full))
  /\ UNCHANGED <<abandoned, pc, vector, frame, isr, raised, controller, typed,
                 scancode, keyboard, locks, torn>>

\* do_syscall: a process executes int 128.
do_syscall ==
  /\ Running /\ abandoned
  /\ Enter(128)
  /\ UNCHANGED <<pic, controller, typed, driver>>

\* scheduler_yield: a process executes int 32.
scheduler_yield ==
  /\ Running /\ abandoned
  /\ Enter(32)
  /\ UNCHANGED <<pic, controller, typed, driver>>

\* A process is between spinlock_acquire and spinlock_release, in the
\* keyboard_getch of a game or in an allocation, where it may be interrupted.
spinlock_acquire(l) ==
  /\ Running /\ abandoned /\ l \notin locks
  /\ locks' = locks \union {l}
  /\ UNCHANGED <<cpu, pic, controller, typed, scancode, keyboard, torn, early>>

spinlock_release(l) ==
  /\ Running /\ l \in locks
  /\ locks' = locks \ {l}
  /\ UNCHANGED <<cpu, pic, controller, typed, scancode, keyboard, torn, early>>

\* A handler that calls spinlock_acquire goes on, or spins for ever: with
\* interrupts off the process that has the lock does not come to release it.
Acquires(l) == pc' = IF l \in locks THEN "hung" ELSE "eoi"

\* irq_handler without a handler
irq_handler_none ==
  /\ pc = "dispatch" /\ vector \in 32 .. 47
  /\ vector - 32 \notin irq_handlers
  /\ pc' = "eoi"
  /\ early' = (early \/ (vector = 33 /\ full))
  /\ UNCHANGED <<boot, abandoned, selectors, irq_handlers, vector, frame, pic,
                 controller, typed, scancode, keyboard, locks, torn>>

\* irq_handler calls timer_handler, and takes the frame it returns: that of a
\* process interrupted by vector 32, or one process_create has made, with
\* int_number 0.  schedule() calls the kfree of process_delete when the process
\* it takes is dead.
timer_handler ==
  /\ pc = "dispatch" /\ vector = 32 /\ 0 \in irq_handlers
  /\ abandoned' = TRUE
  /\ frame' \in {32, 0}
  /\ pc' = "eoi" \/ Acquires("heap")
  /\ UNCHANGED <<boot, selectors, irq_handlers, vector, pic, controller, typed, driver>>

\* keyboard_handler: the first inb(0x60)
keyboard_handler_scancode ==
  /\ pc = "dispatch" /\ vector = 33 /\ 1 \in irq_handlers
  /\ scancode' = port.key
  /\ full' = FALSE
  /\ pc' = "second read"
  /\ UNCHANGED <<boot, abandoned, selectors, irq_handlers, vector, frame, pic,
                 queue, port, typed, keyboard, locks, torn, early>>

\* The keys after the byte of a key: the left shift and caps lock cases
ShiftOfStays(key, pressed) ==
  IF key = "shift" /\ pressed THEN TRUE ELSE keyboard.shift
ShiftOf(key, pressed) == IF key = "shift" THEN pressed ELSE keyboard.shift
CapsLockOf(key, pressed) ==
  IF key = "caps lock" /\ pressed THEN ~keyboard.caps_lock ELSE keyboard.caps_lock

\* The second inb(0x60), and the switch.  The default case, a key that makes
\* a character, takes keyboard_lock; what it does then is in Stdin.
keyboard_handler_pressed ==
  /\ pc = "second read"
  /\ keyboard' = [shift |-> ShiftOf(scancode, port.pressed),
                  caps_lock |-> CapsLockOf(scancode, port.pressed)]
  /\ torn' = (torn \/ full)
  /\ full' = FALSE
  /\ \/ pc' = "eoi"
     \/ scancode = "other" /\ port.pressed /\ Acquires("keyboard_lock")
  /\ UNCHANGED <<boot, abandoned, selectors, irq_handlers, vector, frame, pic,
                 queue, port, typed, scancode, locks, early>>

\* syscall_handler: the handler of the call, which may take a lock, and panics
\* when there is no memory.
syscall_handler ==
  /\ pc = "dispatch" /\ vector = 128
  /\ pc' \in {"eoi", "halted"} \/ \E l \in Locks : Acquires(l)
  /\ UNCHANGED <<boot, abandoned, selectors, irq_handlers, vector, frame, pic,
                 controller, typed, driver>>

\* The end of irq_handler, pic_eoi(frame->int_number), and of syscall_handler,
\* pic_eoi(128), and the stub's iretq with the selectors of the frame.
eoi_iretq ==
  /\ pc = "eoi"
  /\ isr' = pic_eoi(IF vector = 128 THEN 128 ELSE frame)
  /\ pc' = "run" /\ vector' = NONE /\ frame' = NONE
  /\ selectors' = IF frame = 0   \* process_create
                  THEN [selectors EXCEPT !.cs = iret_cs, !.ss = iret_ss]
                  ELSE selectors
  /\ UNCHANGED <<boot, abandoned, irq_handlers, irr, raised, controller, typed, driver>>

\* An exception e of a process or of _start.  isr_handler calls irq_handlers[e]
\* (the table of the other interrupts, and beyond its end from 16 on), whose
\* result it ignores, and panics.
isr_handler(e) ==
  /\ InterruptsOn
  /\ pc' \in IF e < 16 THEN {"halted"} ELSE {"halted", "wild"}
  /\ UNCHANGED <<boot, abandoned, selectors, irq_handlers, vector, frame, pic,
                 controller, typed, driver>>

-----------------------------------------------------------------------------
Handler ==
  \/ irq_handler_none \/ timer_handler
  \/ keyboard_handler_scancode \/ keyboard_handler_pressed
  \/ syscall_handler \/ eoi_iretq

Device ==
  \/ \E l \in Lines : raise(l)
  \/ \E key \in Keys : press(key) \/ repeat(key) \/ release(key)
  \/ load
  \/ \E l \in {7, 15} : spurious(l)

Next ==
  \/ Device \/ acknowledge \/ Handler
  \/ start_step \/ do_syscall \/ scheduler_yield
  \/ \E l \in Locks : spinlock_acquire(l) \/ spinlock_release(l)
  \/ \E e \in {14, 16} : isr_handler(e)

Spec == Init /\ [][Next]_vars

(***************************************************************************)
(* A handler goes on unless it spins for a lock, which is a state of its   *)
(* own, and so does _start while it runs.  The CPU takes a request between *)
(* any two instructions with interrupts on, so that a process that         *)
(* executes int again and again does not keep it away.                     *)
(***************************************************************************)
FairSpec ==
  /\ Spec
  /\ WF_vars(Handler) /\ WF_vars(start_step) /\ SF_vars(acknowledge)

-----------------------------------------------------------------------------
(* Safety. *)

\* The lines in service while the handler of vector v has not acknowledged it
ServiceOf(v) ==
  IF v \in 40 .. 47 THEN {2, v - 32} ELSE IF v \in 32 .. 39 THEN {v - 32} ELSE {}

(***************************************************************************)
(* Every end of interrupt ends the interrupt whose handler sends it: while *)
(* a process or _start runs, nothing is in service, and in a handler only  *)
(* its own line is.  So the pic_eoi(128) of a system call and the one after *)
(* int 32 end nothing, the frame of a new process, with int_number 0, is   *)
(* no harm, and no line is left blocked.                                   *)
(***************************************************************************)
EndsItsOwn ==
  pc \notin {"halted", "wild"} => isr \subseteq ServiceOf(vector)

(***************************************************************************)
(* "timer should be after all these code so that it won't interrupt        *)
(* anything by mistake" (startup.c): when schedule() runs for the first    *)
(* time, and drops the context of _start, every step before timer_init has *)
(* been executed, so that processes find the system calls and the keyboard *)
(* installed.                                                              *)
(***************************************************************************)
BootBeforeProcesses ==
  abandoned => {"syscall_init", "scheduler_init", "keyboard_init",
                "process_create"} \subseteq Executed

\* Nothing is on its way from the keyboard to keyboard_handler.
KeyboardQuiet == queue = <<>> /\ ~full /\ 1 \notin irr /\ vector # 33

(***************************************************************************)
(* keyboard.shift and keyboard.caps_lock follow the keys once every byte   *)
(* has been handled, if no byte arrived between the two reads of the port  *)
(* (then a key is taken with the press or release of another), none was    *)
(* dropped before keyboard_init, and caps lock was not held until it       *)
(* repeated.                                                               *)
(***************************************************************************)
ModifiersFollow ==
  KeyboardQuiet /\ ~torn /\ ~early /\ pc \notin {"halted", "wild"} =>
    /\ keyboard.shift <=> "shift" \in down
    /\ ~repeated => keyboard.caps_lock = light

(***************************************************************************)
(* Whatever gdt_load, an interrupt gate, process_create and tss_load put   *)
(* into CS, SS and TR names a descriptor gdt_init has written for that use *)
(* in 64-bit mode.                                                         *)
(***************************************************************************)
SelectorsLoadable ==
  "gdt_init" \in Executed =>
    /\ LoadableCode(selectors.cs)
    /\ LoadableStack(selectors.ss)
    /\ LoadableTask(selectors.tr)

-----------------------------------------------------------------------------
(* Liveness. *)

(***************************************************************************)
(* keyboard_handler reads every byte, behind whatever other interrupts,    *)
(* unless a byte came before keyboard_init: nobody reads that one, and the *)
(* controller never raises its line again.  A handler that spins for the   *)
(* lock of an interrupted process ends everything (HangsOnlyInGame in      *)
(* Stdin and HangsOnlyOnPreempted in KHeap say when).                      *)
(***************************************************************************)
KeyIsHandled == full ~> ~full \/ early \/ pc \in {"halted", "wild", "hung"}
=============================================================================
