-------------------------- MODULE InterruptsProofs --------------------------
(***************************************************************************)
(* Proofs about Interrupts for every set of device lines, every number of  *)
(* requests and every number of keys.                                      *)
(*                                                                         *)
(* BootInv ties the installed handlers and the selectors to the progress   *)
(* of _start.  ServiceInv follows vector and int_number through a handler: *)
(* the frame that irq_handler acknowledges has the number of the interrupt *)
(* it is in, except after the timer.  KeyInv is about the bytes on their   *)
(* way: a request of line 1 or a keyboard_handler that has begun stands    *)
(* for an unread byte, and what keyboard will be after the byte in the     *)
(* port and each byte of the queue is a sequence of states (Pending) that  *)
(* ends with the keys held now.                                            *)
(***************************************************************************)
EXTENDS Interrupts, WellFoundedInduction, TLAPS

(* TypeOK in the parts that the actions change. *)

TypeCpu ==
  /\ boot \in 0 .. 10
  /\ abandoned \in BOOLEAN
  /\ DOMAIN selectors = {"cs", "ss", "tr"}
  /\ irq_handlers \subseteq 0 .. 15
  /\ pc \in {"run", "dispatch", "second read", "eoi", "halted", "wild", "hung"}
  /\ vector \in (0 .. 255) \union {NONE}
  /\ frame \in (0 .. 255) \union {NONE}

TypePic ==
  /\ irr \subseteq 0 .. 15 /\ isr \subseteq 0 .. 15
  /\ raised \in [Lines -> 0 .. MaxRaise]

TypeController == queue \in Seq(Byte) /\ port \in Byte /\ full \in BOOLEAN

TypeTyped ==
  /\ keys \in 0 .. MaxKeys
  /\ down \subseteq Keys
  /\ light \in BOOLEAN /\ repeated \in BOOLEAN

TypeDriver ==
  /\ scancode \in Keys
  /\ keyboard \in [shift : BOOLEAN, caps_lock : BOOLEAN]
  /\ locks \subseteq Locks
  /\ torn \in BOOLEAN /\ early \in BOOLEAN

TypeInv == TypeCpu /\ TypePic /\ TypeController /\ TypeTyped /\ TypeDriver

BootInv ==
  /\ 0 \in irq_handlers => boot >= 7
  /\ abandoned => boot >= 7
  /\ boot >= 1 => selectors = LoadedSelectors

InHandler == pc \in {"dispatch", "second read", "eoi"}

ServiceInv ==
  /\ irr \subseteq Lines \union {1}
  /\ pc = "run" => vector = NONE
  /\ InHandler => /\ vector \in (32 .. 47) \union {128}
                  /\ frame = vector \/ vector = 32
  /\ pc = "second read" => vector = 33
  /\ EndsItsOwn

Keyboard == [shift : BOOLEAN, caps_lock : BOOLEAN]

\* What keyboard is after keyboard_handler has got byte b
After(k, b) ==
  [shift |-> IF b.key = "shift" THEN b.pressed ELSE k.shift,
   caps_lock |-> IF b.key = "caps lock" /\ b.pressed THEN ~k.caps_lock
                                                     ELSE k.caps_lock]

\* What keyboard is after the byte in the port, if that one is still to come
Now ==
  IF full THEN After(keyboard, port)
  ELSE IF pc = "second read"
  THEN After(keyboard, [key |-> scancode, pressed |-> port.pressed])
  ELSE keyboard

\* k is what the keys in d, the light l and the repetition r say.
Match(k, d, l, r) == /\ k.shift <=> "shift" \in d
                     /\ ~r => k.caps_lock = l

Pending ==
  \E h \in [0 .. Len(queue) -> Keyboard] :
    /\ h[0] = Now
    /\ \A n \in 1 .. Len(queue) : h[n] = After(h[n - 1], queue[n])
    /\ Match(h[Len(queue)], down, light, repeated)

KeyInv ==
  ~torn /\ ~early /\ pc \notin {"halted", "wild"} =>
    /\ 1 \in irr => full
    /\ pc = "dispatch" /\ vector = 33 => full /\ 1 \notin irr
    /\ ~(pc = "second read" /\ full) => Pending

IInv == TypeInv /\ BootInv /\ ServiceInv /\ KeyInv

-----------------------------------------------------------------------------
\* A set of natural numbers that is not empty has a smallest element.
LEMMA MinIsElement ==
  ASSUME NEW S \in SUBSET Nat, S # {}
  PROVE  Min(S) \in S /\ \A y \in S : Min(S) <= y
<1>1. \E x \in S : \A y \in S : ~(<<y, x>> \in OpToRel(<, Nat))
  BY WFMin, NatLessThanWellFounded, Zenon
<1>2. PICK x \in S : \A y \in S : ~(<<y, x>> \in OpToRel(<, Nat))
  BY <1>1, Zenon
<1>3. \A y \in S : <<y, x>> \in Nat \X Nat /\ <<y, x>>[1] = y /\ <<y, x>>[2] = x
  BY <1>2, Zenon
<1>4. \A y \in S : ~(y < x)
  BY <1>2, <1>3, Zenon DEF OpToRel
<1>5. \A y \in S : x <= y
  <2>1. x \in Nat /\ \A y \in S : y \in Nat
    BY <1>2, Zenon
  <2> QED BY <1>4, <2>1
<1> QED BY <1>2, <1>5, Zenon DEF Min

\* The order of _start
LEMMA BootOrder ==
  /\ Len(BootSteps) = 10
  /\ BootSteps[1] = "gdt_init" /\ BootSteps[2] = "idt_init"
  /\ BootSteps[3] = "syscall_init" /\ BootSteps[4] = "scheduler_init"
  /\ BootSteps[5] = "keyboard_init" /\ BootSteps[6] = "process_create"
  /\ BootSteps[7] = "irq_install_handler(0)"
  /\ \A n \in 1 .. 10 : /\ BootSteps[n] = "gdt_init" => n = 1
                        /\ BootSteps[n] = "idt_init" => n = 2
                        /\ BootSteps[n] = "irq_install_handler(0)" => n = 7
<1>1. /\ Len(BootSteps) = 10
      /\ BootSteps[1] = "gdt_init" /\ BootSteps[2] = "idt_init"
      /\ BootSteps[3] = "syscall_init" /\ BootSteps[4] = "scheduler_init"
      /\ BootSteps[5] = "keyboard_init" /\ BootSteps[6] = "process_create"
      /\ BootSteps[7] = "irq_install_handler(0)"
      /\ BootSteps[8] = "PIT mode" /\ BootSteps[9] = "PIT low byte"
      /\ BootSteps[10] = "PIT high byte"
  BY DEF BootSteps
<1>2. \A n \in 1 .. 10 : \/ n = 1 \/ n = 2 \/ n = 3 \/ n = 4 \/ n = 5 \/ n = 6
                         \/ n = 7 \/ n = 8 \/ n = 9 \/ n = 10
  OBVIOUS
<1> QED BY <1>1, <1>2, Zenon

\* The parts are all of TypeOK.
LEMMA TypeParts == TypeInv => TypeOK
BY BootOrder, Zenon DEF TypeInv, TypeCpu, TypePic, TypeController, TypeTyped, TypeDriver, TypeOK

\* A part that does not change keeps its type.
LEMMA SameTypes ==
  /\ TypeCpu /\ UNCHANGED cpu => TypeCpu'
  /\ TypePic /\ UNCHANGED pic => TypePic'
  /\ TypeController /\ UNCHANGED controller => TypeController'
  /\ TypeTyped /\ UNCHANGED typed => TypeTyped'
  /\ TypeDriver /\ UNCHANGED driver => TypeDriver'
<1>1. TypeCpu /\ UNCHANGED cpu => TypeCpu'
  <2> SUFFICES ASSUME TypeCpu, UNCHANGED cpu PROVE TypeCpu'
    OBVIOUS
  <2>1. /\ boot' = boot /\ abandoned' = abandoned /\ selectors' = selectors
        /\ irq_handlers' = irq_handlers /\ pc' = pc /\ vector' = vector
        /\ frame' = frame
    BY DEF cpu
  <2>2. /\ boot' \in 0 .. 10 /\ DOMAIN selectors' = {"cs", "ss", "tr"}
        /\ irq_handlers' \subseteq 0 .. 15
    BY <2>1, Zenon DEF TypeCpu
  <2>3. /\ vector' \in (0 .. 255) \union {NONE}
        /\ frame' \in (0 .. 255) \union {NONE}
    BY <2>1, Zenon DEF TypeCpu
  <2>4. pc' \in {"run", "dispatch", "second read", "eoi", "halted", "wild", "hung"}
    BY <2>1, Zenon DEF TypeCpu
  <2>5. abandoned' \in BOOLEAN
    BY <2>1, Zenon DEF TypeCpu
  <2> QED BY <2>2, <2>3, <2>4, <2>5, Zenon DEF TypeCpu, NONE
<1>2. TypePic /\ UNCHANGED pic => TypePic'
  BY DEF TypePic, pic
<1>3. TypeController /\ UNCHANGED controller => TypeController'
  BY DEF TypeController, controller
<1>4. TypeTyped /\ UNCHANGED typed => TypeTyped'
  BY DEF TypeTyped, typed
<1>5. TypeDriver /\ UNCHANGED driver => TypeDriver'
  BY DEF TypeDriver, driver
<1> QED BY <1>1, <1>2, <1>3, <1>4, <1>5

\* How far _start has come is a number.
LEMMA BootIsNat ==
  ASSUME TypeInv PROVE boot \in 0 .. 10 /\ boot \in Nat
<1>1. boot \in 0 .. 10
  BY Zenon DEF TypeInv, TypeCpu
<1> QED BY <1>1

\* Interrupts are on only after gdt_init and idt_init.
LEMMA OnAfterIdt ==
  ASSUME TypeInv, InterruptsOn PROVE boot >= 2 /\ pc = "run"
<1>1. PICK n \in 1 .. boot : BootSteps[n] = "idt_init"
  BY DEF InterruptsOn, Executed
<1>2. boot \in 0 .. 10
  BY BootIsNat
<1>3. n \in 1 .. 10
  BY <1>1, <1>2
<1>4. n = 2
  BY <1>1, <1>3, BootOrder
<1> QED BY <1>1, <1>2, <1>4 DEF InterruptsOn, Running

\* The selectors the kernel loads name the descriptors they should.
LEMMA SelectorsGood ==
  LoadableCode(40) /\ LoadableStack(48) /\ LoadableTask(72)
<1>1. /\ descriptors[6] = [access |-> 154, granularity |-> 32]
      /\ descriptors[7] = [access |-> 146, granularity |-> 0]
      /\ Len(descriptors) = 9
  BY DEF descriptors
<1>2. gdtr_limit = 87 /\ TssSelector = 72
  BY <1>1 DEF gdtr_limit, TssSelector
<1>3. /\ Named(40) = [access |-> 154, granularity |-> 32]
      /\ Named(48) = [access |-> 146, granularity |-> 0]
  <2>1. 40 \div 8 + 1 = 6 /\ 48 \div 8 + 1 = 7
    OBVIOUS
  <2> QED BY <1>1, <2>1 DEF Named
<1>4. InTable(40) /\ InTable(48)
  BY <1>2 DEF InTable
<1>5. LoadableCode(40)
  BY <1>2, <1>3, <1>4 DEF LoadableCode, Bit
<1>6. LoadableStack(48)
  BY <1>2, <1>3, <1>4 DEF LoadableStack, Bit
<1>7. LoadableTask(72)
  BY <1>2 DEF LoadableTask, tss
<1> QED BY <1>5, <1>6, <1>7

-----------------------------------------------------------------------------
\* A byte takes keyboard from one state to another.
LEMMA AfterType ==
  ASSUME NEW k \in Keyboard, NEW b \in Byte PROVE After(k, b) \in Keyboard
BY Zenon DEF After, Keyboard, Byte

\* What is pending depends on the queue, the keys held and Now.
LEMMA SamePending ==
  ASSUME Pending, Now' = Now, UNCHANGED <<queue, down, light, repeated>>
  PROVE  Pending'
BY DEF Pending, Match

\* One more byte in the queue
LEMMA SendPending ==
  ASSUME TypeController, Pending, Now' = Now, NEW b \in Byte, queue' = Append(queue, b),
         \A k \in Keyboard : Match(k, down, light, repeated)
                                => Match(After(k, b), down', light', repeated')
  PROVE  Pending'
<1>1. PICK h \in [0 .. Len(queue) -> Keyboard] :
        /\ h[0] = Now
        /\ \A n \in 1 .. Len(queue) : h[n] = After(h[n - 1], queue[n])
        /\ Match(h[Len(queue)], down, light, repeated)
  BY DEF Pending
<1>2. /\ queue \in Seq(Byte) /\ Len(queue) \in Nat /\ Len(queue') = Len(queue) + 1
      /\ \A n \in 1 .. Len(queue) : queue'[n] = queue[n]
      /\ queue'[Len(queue) + 1] = b
  <2>1. queue \in Seq(Byte)
    BY DEF TypeController
  <2> QED BY <2>1
<1> DEFINE last == After(h[Len(queue)], b)
           g == [n \in 0 .. Len(queue') |-> IF n <= Len(queue) THEN h[n] ELSE last]
<1>3. last \in Keyboard /\ h[Len(queue)] \in Keyboard
  BY <1>1, <1>2, AfterType
<1>4. g \in [0 .. Len(queue') -> Keyboard] /\ g[0] = Now'
  BY <1>1, <1>2, <1>3
<1>5. \A n \in 1 .. Len(queue') : g[n] = After(g[n - 1], queue'[n])
  <2> SUFFICES ASSUME NEW n \in 1 .. Len(queue')
               PROVE  g[n] = After(g[n - 1], queue'[n])
    BY Zenon
  <2>1. n \in Nat /\ n - 1 \in 0 .. Len(queue) /\ n \in 0 .. Len(queue')
    BY <1>2
  <2>2. g[n - 1] = h[n - 1]
    BY <1>2, <2>1
  <2>3. CASE n <= Len(queue)
    BY <1>1, <1>2, <2>1, <2>2, <2>3
  <2>4. CASE ~(n <= Len(queue))
    <3>1. n = Len(queue) + 1 /\ n - 1 = Len(queue)
      BY <1>2, <2>4
    <3> QED BY <1>2, <2>1, <2>2, <2>4, <3>1
  <2> QED BY <2>3, <2>4
<1>6. Match(g[Len(queue')], down', light', repeated')
  <2>1. g[Len(queue')] = last
    BY <1>2
  <2>2. Match(last, down', light', repeated')
    BY <1>1, <1>3
  <2> QED BY <2>1, <2>2
<1> HIDE DEF g
<1> QED BY <1>4, <1>5, <1>6 DEF Pending

\* The first byte of the queue goes to the port.
LEMMA LoadPending ==
  ASSUME TypeController, Pending, queue # <<>>, queue' = Tail(queue),
         Now' = After(Now, Head(queue)), UNCHANGED <<down, light, repeated>>
  PROVE  Pending'
<1>1. PICK h \in [0 .. Len(queue) -> Keyboard] :
        /\ h[0] = Now
        /\ \A n \in 1 .. Len(queue) : h[n] = After(h[n - 1], queue[n])
        /\ Match(h[Len(queue)], down, light, repeated)
  BY DEF Pending
<1>2. /\ Len(queue) \in Nat /\ Len(queue) >= 1 /\ Len(queue') = Len(queue) - 1
      /\ \A n \in 1 .. Len(queue') : queue'[n] = queue[n + 1]
      /\ Head(queue) = queue[1]
  <2>1. queue \in Seq(Byte)
    BY DEF TypeController
  <2> QED BY <2>1
<1> DEFINE g == [n \in 0 .. Len(queue') |-> h[n + 1]]
<1>3. \A n \in 0 .. Len(queue') : g[n] = h[n + 1] /\ n + 1 \in 0 .. Len(queue)
  BY <1>2
<1>4. g \in [0 .. Len(queue') -> Keyboard]
  BY <1>1, <1>3
<1>5. g[0] = Now'
  <2>1. g[0] = h[1] /\ h[1] = After(h[0], queue[1])
    BY <1>1, <1>2, <1>3
  <2> QED BY <1>1, <1>2, <2>1
<1>6. \A n \in 1 .. Len(queue') : g[n] = After(g[n - 1], queue'[n])
  <2> SUFFICES ASSUME NEW n \in 1 .. Len(queue')
               PROVE  g[n] = After(g[n - 1], queue'[n])
    BY Zenon
  <2>1. n \in 0 .. Len(queue') /\ n - 1 \in 0 .. Len(queue') /\ (n - 1) + 1 = n
        /\ n + 1 \in 1 .. Len(queue) /\ (n + 1) - 1 = n
    BY <1>2
  <2>2. g[n] = h[n + 1] /\ g[n - 1] = h[n] /\ queue'[n] = queue[n + 1]
    BY <1>2, <1>3, <2>1
  <2>3. h[n + 1] = After(h[n], queue[n + 1])
    BY <1>1, <2>1
  <2> QED BY <2>2, <2>3
<1>7. Match(g[Len(queue')], down', light', repeated')
  <2>1. g[Len(queue')] = h[Len(queue)]
    BY <1>2, <1>3
  <2> QED BY <1>1, <2>1
<1> HIDE DEF g
<1> QED BY <1>4, <1>5, <1>6, <1>7, Zenon DEF Pending

-----------------------------------------------------------------------------
\* The start: the queue is empty and keyboard says that no key is held.
LEMMA InitInv == Init => IInv
<1> SUFFICES ASSUME Init PROVE IInv
  OBVIOUS
<1> USE DEF Init
<1>1. TypeInv
  <2>1. TypeCpu
    <3>1. /\ DOMAIN selectors = {"cs", "ss", "tr"}
          /\ vector \in (0 .. 255) \union {NONE} /\ frame \in (0 .. 255) \union {NONE}
      OBVIOUS
    <3>2. boot \in 0 .. 10 /\ irq_handlers \subseteq 0 .. 15
      OBVIOUS
    <3>3. abandoned \in BOOLEAN
      BY Zenon
    <3>4. pc \in {"run", "dispatch", "second read", "eoi", "halted", "wild", "hung"}
      OBVIOUS
    <3> QED BY <3>1, <3>2, <3>3, <3>4, Zenon DEF TypeCpu
  <2>2. TypePic
    BY InterruptsAssumption DEF TypePic
  <2>3. port \in Byte
    BY DEF Byte, Keys
  <2>4. TypeController
    <3>1. queue \in Seq(Byte)
      OBVIOUS
    <3>2. full \in BOOLEAN
      BY Zenon
    <3> QED BY <2>3, <3>1, <3>2, Zenon DEF TypeController
  <2>5. TypeTyped
    <3>1. keys \in 0 .. MaxKeys /\ down \subseteq Keys
      BY InterruptsAssumption
    <3>2. light \in BOOLEAN /\ repeated \in BOOLEAN
      BY Zenon
    <3> QED BY <3>1, <3>2, Zenon DEF TypeTyped
  <2>6. TypeDriver
    BY Zenon DEF TypeDriver, Keys
  <2> QED BY <2>1, <2>2, <2>4, <2>5, <2>6 DEF TypeInv
<1>2. BootInv
  BY DEF BootInv
<1>3. ServiceInv
  BY DEF ServiceInv, InHandler, EndsItsOwn
<1>4. Pending
  <2> DEFINE h == [n \in 0 .. 0 |-> keyboard]
  <2>1. Len(queue) = 0 /\ Now = keyboard /\ keyboard \in Keyboard
    BY DEF Now, Keyboard
  <2>2. h \in [0 .. 0 -> Keyboard] /\ h[0] = keyboard
    BY <2>1
  <2>3. Match(keyboard, down, light, repeated)
    BY Zenon DEF Match
  <2> HIDE DEF h
  <2>4. 1 .. 0 = {}
    OBVIOUS
  <2> QED BY <2>1, <2>2, <2>3, <2>4, Zenon DEF Pending
<1> QED BY <1>1, <1>2, <1>3, <1>4 DEF IInv, KeyInv

\* A step that leaves the CPU and the controllers alone
LEMMA SameService ==
  ASSUME IInv, UNCHANGED <<cpu, isr>>, irr' \subseteq irr \union Lines \union {1}
  PROVE  BootInv' /\ ServiceInv'
<1>1. BootInv'
  BY DEF IInv, BootInv, cpu
<1>2. ServiceInv'
  BY Zenon DEF IInv, ServiceInv, InHandler, EndsItsOwn, cpu
<1> QED BY <1>1, <1>2

\* A step that leaves the keyboard, its controller and its driver alone, and
\* the CPU outside keyboard_handler
LEMMA SameKeys ==
  ASSUME IInv, UNCHANGED <<controller, typed, keyboard, scancode>>,
         pc \notin {"halted", "wild", "second read"}, pc' # "second read",
         torn => torn', early => early', 1 \in irr' => 1 \in irr,
         pc' = "dispatch" /\ vector' = 33 /\ ~early' => full /\ 1 \notin irr'
  PROVE  KeyInv'
<1> SUFFICES ASSUME ~torn', ~early', pc' \notin {"halted", "wild"}
             PROVE  /\ 1 \in irr' => full'
                    /\ pc' = "dispatch" /\ vector' = 33 => full' /\ 1 \notin irr'
                    /\ Pending'
  BY Zenon DEF KeyInv
<1>1. ~torn /\ ~early /\ (1 \in irr => full) /\ Pending
  BY Zenon DEF IInv, KeyInv
<1>2. Now' = Now
  BY Zenon DEF Now, controller
<1>3. Pending'
  BY <1>1, <1>2, SamePending, Zenon DEF controller, typed
<1> QED BY <1>1, <1>3, Zenon DEF controller

\* A device raises its line.
LEMMA RaiseInv ==
  ASSUME IInv, NEW l \in Lines, raise(l) PROVE IInv'
<1> USE InterruptsAssumption
<1>1. l \in 0 .. 15 /\ l # 1
  OBVIOUS
<1>2. TypeInv'
  <2>1. TypePic'
    BY <1>1 DEF IInv, TypeInv, TypePic, raise
  <2> QED BY <2>1, SameTypes DEF IInv, TypeInv, raise
<1>3. BootInv' /\ ServiceInv'
  BY SameService DEF raise
<1>4. KeyInv'
  <2>1. (1 \in irr' <=> 1 \in irr) /\ UNCHANGED <<cpu, controller, typed, driver>>
    BY <1>1 DEF raise
  <2>2. Now' = Now
    BY <2>1 DEF Now, cpu, controller, driver
  <2>3. Pending => Pending'
    BY <2>1, <2>2, SamePending DEF controller, typed
  <2> QED BY <2>1, <2>3, Zenon DEF IInv, KeyInv, cpu, controller, driver
<1> QED BY <1>2, <1>3, <1>4 DEF IInv

\* The keyboard sends a byte that says what has become of its keys.
LEMMA KeyInvSend ==
  ASSUME IInv, NEW b \in Byte, Send(b), UNCHANGED <<cpu, pic, port, full, driver>>,
         down' \subseteq Keys, light' \in BOOLEAN, repeated' \in BOOLEAN,
         \A k \in Keyboard : Match(k, down, light, repeated)
                                => Match(After(k, b), down', light', repeated')
  PROVE  IInv'
<1>1. TypeInv'
  <2>1. TypeController'
    BY DEF IInv, TypeInv, TypeController, Send
  <2>2. TypeTyped'
    BY InterruptsAssumption DEF IInv, TypeInv, TypeTyped, Send
  <2> QED BY <2>1, <2>2, SameTypes DEF IInv, TypeInv
<1>2. BootInv' /\ ServiceInv'
  BY SameService DEF pic
<1>3. KeyInv'
  <2>1. Now' = Now
    BY DEF Now, cpu, driver
  <2>2. Pending => Pending'
    BY <2>1, SendPending DEF IInv, TypeInv, Send
  <2> QED BY <2>2, Zenon DEF IInv, KeyInv, cpu, pic, driver
<1> QED BY <1>1, <1>2, <1>3 DEF IInv

\* A key is pressed.
LEMMA PressInv ==
  ASSUME IInv, NEW key \in Keys, press(key) PROVE IInv'
<1> DEFINE b == [key |-> key, pressed |-> TRUE]
<1>1. b \in Byte /\ down' \subseteq Keys /\ light' \in BOOLEAN /\ repeated' \in BOOLEAN
  BY Zenon DEF IInv, TypeInv, TypeTyped, press, Byte
<1>2. \A k \in Keyboard : Match(k, down, light, repeated)
                             => Match(After(k, b), down', light', repeated')
  BY <1>1, Zenon DEF IInv, TypeInv, TypeTyped, press, Match, After, Keyboard, Byte
<1> QED BY <1>1, <1>2, KeyInvSend, Zenon DEF press

\* A key that is held down repeats.
LEMMA RepeatInv ==
  ASSUME IInv, NEW key \in Keys, repeat(key) PROVE IInv'
<1> DEFINE b == [key |-> key, pressed |-> TRUE]
<1>1. b \in Byte /\ down' \subseteq Keys /\ light' \in BOOLEAN /\ repeated' \in BOOLEAN
  BY Zenon DEF IInv, TypeInv, TypeTyped, repeat, Byte
<1>2. \A k \in Keyboard : Match(k, down, light, repeated)
                             => Match(After(k, b), down', light', repeated')
  BY <1>1, Zenon DEF IInv, TypeInv, TypeTyped, repeat, Match, After, Keyboard, Byte
<1> QED BY <1>1, <1>2, KeyInvSend, Zenon DEF repeat

\* A key is released.
LEMMA ReleaseInv ==
  ASSUME IInv, NEW key \in Keys, release(key) PROVE IInv'
<1> DEFINE b == [key |-> key, pressed |-> FALSE]
<1>1. b \in Byte /\ down' \subseteq Keys /\ light' \in BOOLEAN /\ repeated' \in BOOLEAN
  BY DEF IInv, TypeInv, TypeTyped, release, Byte
<1>2. \A k \in Keyboard : Match(k, down, light, repeated)
                             => Match(After(k, b), down', light', repeated')
  BY <1>1 DEF IInv, TypeInv, TypeTyped, release, Match, After, Keyboard, Byte
<1> QED BY <1>1, <1>2, KeyInvSend, Zenon DEF release

\* The controller shows a byte; if keyboard_handler is between its two reads,
\* they will get different bytes.
LEMMA LoadInv ==
  ASSUME IInv, load PROVE IInv'
<1>1. queue \in Seq(Byte) /\ queue # <<>>
  BY DEF IInv, TypeInv, TypeController, load
<1>2. Head(queue) \in Byte /\ Tail(queue) \in Seq(Byte)
  BY <1>1
<1>3. TypeInv'
  <2>1. TypeController'
    BY <1>2 DEF TypeController, load
  <2>2. TypePic'
    BY DEF IInv, TypeInv, TypePic, load
  <2> QED BY <2>1, <2>2, SameTypes DEF IInv, TypeInv, load
<1>4. BootInv' /\ ServiceInv'
  BY SameService DEF load
<1>5. KeyInv'
  <2>1. CASE pc = "second read"
    BY <2>1, Zenon DEF IInv, KeyInv, load, cpu, driver
  <2>2. CASE pc # "second read"
    <3>1. Now' = After(Now, Head(queue))
      BY <2>2, Zenon DEF Now, load, driver
    <3>2. Pending => Pending'
      BY <1>1, <3>1, LoadPending DEF IInv, TypeInv, load, typed
    <3> QED BY <2>2, <3>2, Zenon DEF IInv, KeyInv, load, cpu, driver
  <2> QED BY <2>1, <2>2, Zenon
<1> QED BY <1>3, <1>4, <1>5 DEF IInv

-----------------------------------------------------------------------------
\* A step that changes the CPU keeps its type if it keeps that of each part.
LEMMA CpuStep ==
  ASSUME TypeCpu,
         boot' \in 0 .. 10, irq_handlers' \subseteq 0 .. 15,
         abandoned' = abandoned \/ abandoned' = TRUE,
         DOMAIN selectors' = {"cs", "ss", "tr"},
         pc' \in {"run", "dispatch", "second read", "eoi", "halted", "wild", "hung"},
         vector' \in (0 .. 255) \union {NONE}, frame' \in (0 .. 255) \union {NONE}
  PROVE  TypeCpu'
<1>1. abandoned' \in BOOLEAN
  BY Zenon DEF TypeCpu
<1> QED BY <1>1, Zenon DEF TypeCpu, NONE

\* The CPU enters a gate: the code selector of the gate is the one it has.
LEMMA EnterInv ==
  ASSUME IInv, NEW v \in (32 .. 47) \union {128}, Enter(v), boot >= 1, pc = "run",
         irr' \subseteq irr, isr' \subseteq ServiceOf(v), isr' \subseteq 0 .. 15,
         v = 33 => 1 \in irr /\ 1 \notin irr',
         UNCHANGED <<raised, controller, typed, driver>>
  PROVE  IInv'
<1>1. TypeInv'
  <2>1. v \in 0 .. 255
    OBVIOUS
  <2>2. TypeCpu'
    <3>1. DOMAIN selectors' = {"cs", "ss", "tr"}
      BY DEF IInv, TypeInv, TypeCpu, Enter
    <3>2. TypeCpu /\ boot' \in 0 .. 10 /\ irq_handlers' \subseteq 0 .. 15
      BY DEF IInv, TypeInv, TypeCpu, Enter
    <3> QED BY <2>1, <3>1, <3>2, CpuStep DEF Enter
  <2>3. TypePic'
    BY DEF IInv, TypeInv, TypePic
  <2> QED BY <2>2, <2>3, SameTypes DEF IInv, TypeInv
<1>2. BootInv'
  <2>1. selectors' = LoadedSelectors
    BY DEF IInv, BootInv, Enter, GateSelector, LoadedSelectors
  <2> QED BY <2>1 DEF IInv, BootInv, Enter
<1>3. ServiceInv'
  BY DEF IInv, ServiceInv, InHandler, EndsItsOwn, Enter
<1>4. KeyInv'
  <2>1. 1 \in irr /\ ~torn /\ ~early => full
    BY DEF IInv, KeyInv
  <2>2. ~early' => ~early
    BY DEF driver
  <2>3. CASE ~torn /\ ~early
    BY <2>1, <2>3, SameKeys DEF Enter, driver
  <2>4. CASE torn \/ early
    BY <2>4, Zenon DEF KeyInv, driver
  <2> QED BY <2>3, <2>4
<1> QED BY <1>1, <1>2, <1>3, <1>4 DEF IInv

\* While no handler runs, no line is in service.
LEMMA NothingInService ==
  ASSUME IInv, pc = "run" PROVE isr = {}
BY DEF IInv, ServiceInv, EndsItsOwn, ServiceOf, NONE

\* The CPU takes the first request the controllers hold.
LEMMA AcknowledgeInv ==
  ASSUME IInv, acknowledge PROVE IInv'
<1> USE InterruptsAssumption
<1> DEFINE m == Min(Deliverable)
           l == IF m = 2 THEN Min(SecondRequests) ELSE m
<1>1. pc = "run" /\ boot >= 2
  BY OnAfterIdt DEF IInv, acknowledge
<1>2. isr = {}
  BY <1>1, NothingInService
<1>3. irr \subseteq 0 .. 15 /\ 2 \notin irr /\ boot \in Nat
  <2>1. irr \subseteq 0 .. 15
    BY DEF IInv, TypeInv, TypePic
  <2>2. irr \subseteq Lines \union {1}
    BY Zenon DEF IInv, ServiceInv
  <2> QED BY <2>1, <2>2, BootIsNat DEF IInv
<1>4. m \in Deliverable
  <2>1. Deliverable \in SUBSET Nat
    <3>1. Deliverable \subseteq irr \union {2}
      BY DEF Deliverable, Requests, First
    <3> QED BY <1>3, <3>1
  <2>2. Deliverable # {}
    BY DEF acknowledge
  <2> QED BY <2>1, <2>2, MinIsElement
<1>5. m \in Requests
  BY <1>4 DEF Deliverable
<1>6. m = 2 => l \in SecondRequests
  <2> SUFFICES ASSUME m = 2 PROVE Min(SecondRequests) \in SecondRequests
    OBVIOUS
  <2>1. SecondRequests # {}
    BY <1>3, <1>5 DEF Requests, First
  <2>2. SecondRequests \in SUBSET Nat
    <3>1. SecondRequests \subseteq irr
      BY DEF SecondRequests, Second
    <3> QED BY <1>3, <3>1
  <2> QED BY <2>1, <2>2, MinIsElement
<1>7. m = 2 => l \in irr /\ l >= 8
  BY <1>6 DEF SecondRequests, Second
<1>8. m # 2 => l = m /\ l \in irr /\ l < 8
  BY <1>5 DEF Requests, First
<1>9. irr' = irr \ {l} /\ isr' = isr \union {m, l} /\ Enter(VectorOf(l))
      /\ UNCHANGED <<raised, controller, typed, driver>>
  BY DEF acknowledge
<1> HIDE DEF m, l
<1>10. l \in irr /\ l \in 0 .. 15 /\ m \in 0 .. 15
  <2>1. CASE m = 2
    <3>1. l \in irr /\ 2 \in 0 .. 15
      BY <1>7, <2>1
    <3> QED BY <1>3, <2>1, <3>1
  <2>2. CASE m # 2
    BY <1>3, <1>8, <2>2, Zenon
  <2> QED BY <2>1, <2>2
<1>11. VectorOf(l) = 32 + l
  BY <1>10 DEF VectorOf
<1>12. {m, l} \subseteq ServiceOf(32 + l)
  <2>1. (32 + l) - 32 = l
    BY <1>10
  <2>2. CASE m = 2
    <3>1. 32 + l \in 40 .. 47
      BY <1>7, <1>10, <2>2
    <3> QED BY <2>1, <2>2, <3>1 DEF ServiceOf
  <2>3. CASE m # 2
    <3>1. 32 + l \in 32 .. 39 /\ 32 + l \notin 40 .. 47 /\ m = l
      BY <1>8, <1>10, <2>3
    <3> QED BY <2>1, <3>1 DEF ServiceOf
  <2> QED BY <2>2, <2>3
<1>13. /\ 32 + l \in (32 .. 47) \union {128}
       /\ 32 + l = 33 => l = 1
  BY <1>10
<1>14. isr' = {m, l}
  BY <1>2, <1>9
<1>15. Enter(32 + l)
  BY <1>9, <1>11
<1> QED BY <1>1, <1>3, <1>9, <1>10, <1>12, <1>13, <1>14, <1>15, EnterInv

\* A spurious request puts at most line 2 in service.
LEMMA SpuriousInv ==
  ASSUME IInv, NEW l \in {7, 15}, spurious(l) PROVE IInv'
<1>1. pc = "run" /\ boot >= 2 /\ boot \in Nat
  BY OnAfterIdt, BootIsNat DEF IInv, spurious
<1>2. isr = {}
  BY <1>1, NothingInService
<1>3. irr' = irr /\ UNCHANGED <<raised, controller, typed, driver>>
  BY DEF spurious
<1>4. CASE l = 7
  <2>1. Enter(39) /\ isr' = {}
    BY <1>2, <1>4 DEF spurious, VectorOf
  <2> QED BY <1>1, <1>3, <2>1, EnterInv
<1>5. CASE l = 15
  <2>1. Enter(47) /\ isr' = {2}
    BY <1>2, <1>5 DEF spurious, VectorOf
  <2>2. {2} \subseteq ServiceOf(47)
    BY DEF ServiceOf
  <2> QED BY <1>1, <1>3, <2>1, <2>2, EnterInv
<1> QED BY <1>4, <1>5

\* A process executes int 128 or int 32.
LEMMA IntInv ==
  ASSUME IInv, do_syscall \/ scheduler_yield PROVE IInv'
<1>1. pc = "run" /\ boot >= 7 /\ boot \in Nat
  BY BootIsNat DEF IInv, BootInv, do_syscall, scheduler_yield, Running
<1>2. isr = {}
  BY <1>1, NothingInService
<1>3. UNCHANGED <<pic, controller, typed, driver>> /\ (Enter(128) \/ Enter(32))
  BY DEF do_syscall, scheduler_yield
<1> QED BY <1>1, <1>2, <1>3, EnterInv DEF pic

\* The numbers a frame may have
LEMMA FrameNumbers ==
  ASSUME NEW f \in (0 .. 255) \union {NONE}, NEW g \in {f, 32, 0}
  PROVE  g \in (0 .. 255) \union {NONE}
OBVIOUS

\* What an irq_handler, a system call or an exception begins
LEMMA HandlerCpu ==
  ASSUME IInv, UNCHANGED <<boot, selectors, irq_handlers, vector>>,
         abandoned' = abandoned \/ abandoned' = TRUE, frame' \in {frame, 32, 0},
         pc' \in {"second read", "eoi", "halted", "wild", "hung"}
  PROVE  TypeCpu'
<1>1. /\ boot' \in 0 .. 10 /\ irq_handlers' \subseteq 0 .. 15
      /\ DOMAIN selectors' = {"cs", "ss", "tr"}
  BY Zenon DEF IInv, TypeInv, TypeCpu
<1>2. vector' \in (0 .. 255) \union {NONE} /\ frame' \in (0 .. 255) \union {NONE}
  <2>1. vector \in (0 .. 255) \union {NONE} /\ frame \in (0 .. 255) \union {NONE}
    BY Zenon DEF IInv, TypeInv, TypeCpu
  <2>2. frame' \in (0 .. 255) \union {NONE}
    BY <2>1, FrameNumbers, ZenonT(40)
  <2> QED BY <2>1, <2>2, Zenon
<1>3. TypeCpu
  BY Zenon DEF IInv, TypeInv
<1> QED BY <1>1, <1>2, <1>3, CpuStep, Zenon

\* irq_handler without a handler drops the byte of an early key.
LEMMA NoneInv ==
  ASSUME IInv, irq_handler_none PROVE IInv'
<1>1. TypeInv'
  <2>1. TypeCpu'
    BY HandlerCpu DEF irq_handler_none
  <2>2. TypeDriver'
    <3>1. early' \in BOOLEAN
      BY DEF irq_handler_none
    <3> QED BY <3>1 DEF IInv, TypeInv, TypeDriver, irq_handler_none
  <2> QED BY <2>1, <2>2, SameTypes DEF IInv, TypeInv, irq_handler_none
<1>2. BootInv' /\ ServiceInv'
  BY DEF IInv, BootInv, ServiceInv, InHandler, EndsItsOwn, irq_handler_none, pic
<1>3. KeyInv'
  BY SameKeys, Zenon DEF irq_handler_none, pic
<1> QED BY <1>1, <1>2, <1>3 DEF IInv

\* The timer handler runs only once irq_install_handler(0) has: _start is past
\* everything before it.
LEMMA TimerInv ==
  ASSUME IInv, timer_handler PROVE IInv'
<1> USE DEF Acquires
<1>1. TypeInv'
  <2>1. TypeCpu'
    BY HandlerCpu, Zenon DEF timer_handler
  <2> QED BY <2>1, SameTypes, Zenon DEF IInv, TypeInv, timer_handler
<1>2. BootInv' /\ ServiceInv'
  BY Zenon DEF IInv, BootInv, ServiceInv, InHandler, EndsItsOwn, timer_handler, pic
<1>3. KeyInv'
  BY SameKeys, Zenon DEF timer_handler, pic, driver
<1> QED BY <1>1, <1>2, <1>3 DEF IInv

\* A process takes or releases a lock.
LEMMA LockInv ==
  ASSUME IInv, NEW l \in Locks, spinlock_acquire(l) \/ spinlock_release(l) PROVE IInv'
<1>1. /\ locks' \subseteq locks \union {l}
      /\ UNCHANGED <<cpu, pic, controller, typed, scancode, keyboard, torn, early>>
  BY DEF spinlock_acquire, spinlock_release
<1>2. TypeInv'
  <2>1. TypeDriver'
    <3>1. locks' \subseteq Locks
      BY <1>1 DEF IInv, TypeInv, TypeDriver
    <3> QED BY <1>1, <3>1, Zenon DEF IInv, TypeInv, TypeDriver
  <2> QED BY <1>1, <2>1, SameTypes, Zenon DEF IInv, TypeInv
<1>3. BootInv' /\ ServiceInv'
  BY <1>1, SameService DEF pic
<1>4. KeyInv'
  <2>1. Now' = Now
    BY <1>1, Zenon DEF Now, cpu, controller
  <2>2. Pending => Pending'
    BY <1>1, <2>1, SamePending, Zenon DEF controller, typed
  <2> QED BY <1>1, <2>2, Zenon DEF IInv, KeyInv, cpu, pic, controller
<1> QED BY <1>2, <1>3, <1>4 DEF IInv

\* The system call handler
LEMMA SyscallInv ==
  ASSUME IInv, syscall_handler PROVE IInv'
<1> USE DEF Acquires
<1>1. TypeInv'
  <2>1. TypeCpu'
    BY HandlerCpu, Zenon DEF syscall_handler
  <2> QED BY <2>1, SameTypes, Zenon DEF IInv, TypeInv, syscall_handler
<1>2. BootInv' /\ ServiceInv'
  BY Zenon DEF IInv, BootInv, ServiceInv, InHandler, EndsItsOwn, syscall_handler, pic
<1>3. KeyInv'
  BY SameKeys, Zenon DEF syscall_handler, pic, driver
<1> QED BY <1>1, <1>2, <1>3 DEF IInv

\* An exception panics, or runs away.
LEMMA ExceptionInv ==
  ASSUME IInv, NEW e \in {14, 16}, isr_handler(e) PROVE IInv'
<1>1. pc' \in {"halted", "wild"}
  BY DEF isr_handler
<1>2. TypeInv'
  <2>1. TypeCpu'
    BY <1>1, HandlerCpu, Zenon DEF isr_handler
  <2> QED BY <2>1, SameTypes DEF IInv, TypeInv, isr_handler
<1>3. BootInv' /\ ServiceInv'
  BY <1>1, Zenon DEF IInv, BootInv, ServiceInv, InHandler, EndsItsOwn, isr_handler, pic
<1> QED BY <1>1, <1>2, <1>3, Zenon DEF IInv, KeyInv

\* The first read of the port: the byte of the port is now in scancode, and
\* its press or release still in the port.
LEMMA FirstReadInv ==
  ASSUME IInv, keyboard_handler_scancode PROVE IInv'
<1>1. port \in Byte
  BY DEF IInv, TypeInv, TypeController
<1>2. TypeInv'
  <2>1. TypeCpu'
    BY HandlerCpu, Zenon DEF keyboard_handler_scancode
  <2>2. TypeController'
    <3>1. full' \in BOOLEAN /\ queue' = queue /\ port' = port
      BY Zenon DEF keyboard_handler_scancode
    <3> QED BY <3>1, Zenon DEF IInv, TypeInv, TypeController
  <2>3. TypeDriver'
    <3>1. scancode' \in Keys
      BY <1>1, Zenon DEF keyboard_handler_scancode, Byte
    <3> QED BY <3>1, Zenon DEF IInv, TypeInv, TypeDriver, keyboard_handler_scancode
  <2> QED BY <2>1, <2>2, <2>3, SameTypes, Zenon DEF IInv, TypeInv, keyboard_handler_scancode
<1>3. BootInv' /\ ServiceInv'
  BY Zenon DEF IInv, BootInv, ServiceInv, InHandler, EndsItsOwn, keyboard_handler_scancode, pic
<1>4. KeyInv'
  <2>1. CASE torn \/ early
    BY <2>1, Zenon DEF KeyInv, keyboard_handler_scancode
  <2>2. CASE ~torn /\ ~early
    <3>1. full /\ 1 \notin irr /\ Pending
      BY <2>2, Zenon DEF IInv, KeyInv, keyboard_handler_scancode
    <3>2. port = [key |-> port.key, pressed |-> port.pressed]
      BY <1>1 DEF Byte
    <3>3. Now = After(keyboard, port)
      BY <3>1 DEF Now
    <3>4. Now' = After(keyboard, [key |-> port.key, pressed |-> port.pressed])
      BY Zenon DEF Now, keyboard_handler_scancode
    <3>5. Now' = Now
      BY <3>2, <3>3, <3>4
    <3>6. Pending'
      BY <3>1, <3>5, SamePending, Zenon DEF keyboard_handler_scancode, typed
    <3> QED BY <3>1, <3>6, Zenon DEF KeyInv, keyboard_handler_scancode, pic
  <2> QED BY <2>1, <2>2
<1> QED BY <1>2, <1>3, <1>4 DEF IInv

\* The second read: unless another byte has come, keyboard becomes what Now was.
LEMMA SecondReadInv ==
  ASSUME IInv, keyboard_handler_pressed PROVE IInv'
<1> USE DEF Acquires
<1>1. port \in Byte /\ scancode \in Keys
  BY DEF IInv, TypeInv, TypeController, TypeDriver
<1>2. keyboard \in Keyboard
  BY DEF IInv, TypeInv, TypeDriver, Keyboard
<1>3. keyboard' = After(keyboard, [key |-> scancode, pressed |-> port.pressed])
  BY Zenon DEF keyboard_handler_pressed, After, ShiftOf, CapsLockOf
<1>4. TypeInv'
  <2>1. TypeCpu'
    BY HandlerCpu, Zenon DEF keyboard_handler_pressed
  <2>2. TypeController'
    <3>1. full' \in BOOLEAN /\ queue' = queue /\ port' = port
      BY Zenon DEF keyboard_handler_pressed
    <3> QED BY <3>1, Zenon DEF IInv, TypeInv, TypeController
  <2>3. TypeDriver'
    <3>1. [key |-> scancode, pressed |-> port.pressed] \in Byte
      BY <1>1 DEF Byte
    <3>2. keyboard' \in [shift : BOOLEAN, caps_lock : BOOLEAN]
      BY <1>2, <1>3, <3>1, AfterType DEF Keyboard
    <3>3. torn' \in BOOLEAN
      BY Zenon DEF keyboard_handler_pressed
    <3> QED BY <1>1, <3>2, <3>3, Zenon DEF IInv, TypeInv, TypeDriver, keyboard_handler_pressed
  <2> QED BY <2>1, <2>2, <2>3, SameTypes, Zenon DEF IInv, TypeInv, keyboard_handler_pressed
<1>5. BootInv' /\ ServiceInv'
  BY Zenon DEF IInv, BootInv, ServiceInv, InHandler, EndsItsOwn, keyboard_handler_pressed, pic
<1>6. KeyInv'
  <2>1. CASE torn \/ early \/ full
    BY <2>1, Zenon DEF KeyInv, keyboard_handler_pressed
  <2>2. CASE ~torn /\ ~early /\ ~full
    <3>1. 1 \notin irr /\ Pending
      BY <2>2, Zenon DEF IInv, KeyInv, keyboard_handler_pressed
    <3>2. Now' = Now
      BY <1>3, <2>2, Zenon DEF Now, keyboard_handler_pressed
    <3>3. Pending'
      BY <3>1, <3>2, SamePending, Zenon DEF keyboard_handler_pressed, typed
    <3> QED BY <3>1, <3>3, Zenon DEF KeyInv, keyboard_handler_pressed, pic
  <2> QED BY <2>1, <2>2
<1> QED BY <1>4, <1>5, <1>6 DEF IInv

-----------------------------------------------------------------------------
\* An end of interrupt ends the only line in service.
LEMMA EndsOnly ==
  ASSUME NEW x \in Nat, NEW S \in SUBSET {x} PROVE S \ Ended(S) = {}
<1>1. CASE S = {}
  BY <1>1
<1>2. CASE S # {}
  <2>1. S \in SUBSET Nat
    OBVIOUS
  <2>2. Min(S) \in S
    BY <1>2, <2>1, MinIsElement
  <2> QED BY <1>2, <2>2, Zenon DEF Ended
<1> QED BY <1>1, <1>2

\* After its pic_eoi, nothing of a handler is left in service.
LEMMA EoiEnds ==
  ASSUME IInv, pc = "eoi"
  PROVE  pic_eoi(IF vector = 128 THEN 128 ELSE frame) = {}
<1> DEFINE offset == IF vector = 128 THEN 128 ELSE frame
<1>1. /\ isr \subseteq ServiceOf(vector)
      /\ vector \in (32 .. 47) \union {128}
      /\ frame = vector \/ vector = 32
  BY DEF IInv, ServiceInv, InHandler, EndsItsOwn
<1>2. CASE vector = 128
  <2>1. isr = {}
    BY <1>1, <1>2 DEF ServiceOf
  <2> QED BY <2>1 DEF pic_eoi
<1>3. CASE vector \in 32 .. 39
  <2>1. vector - 32 \in Nat /\ vector - 32 < 8 /\ vector \notin 40 .. 47
    BY <1>3
  <2>2. isr \in SUBSET {vector - 32}
    BY <1>1, <1>3, <2>1 DEF ServiceOf
  <2>3. First(isr) = isr
    BY <2>1, <2>2, Zenon DEF First
  <2>4. isr \ Ended(isr) = {}
    BY <2>1, <2>2, EndsOnly
  <2> QED BY <2>3, <2>4 DEF pic_eoi
<1>4. CASE vector \in 40 .. 47
  <2>1. vector - 32 \in Nat /\ vector - 32 >= 8 /\ vector # 32 /\ vector # 128
    BY <1>4
  <2>2. offset = vector /\ offset >= 40
    BY <1>1, <1>4, <2>1
  <2>3. isr \subseteq {2, vector - 32}
    BY <1>1, <1>4 DEF ServiceOf
  <2>4. First(isr) \in SUBSET {2} /\ Second(isr) \in SUBSET {vector - 32}
    <3>1. First(isr) \subseteq {2}
      <4> SUFFICES ASSUME NEW x \in First(isr) PROVE x = 2
        OBVIOUS
      <4>1. x \in isr /\ x < 8
        BY DEF First
      <4>2. x = 2 \/ x = vector - 32
        BY <2>3, <4>1
      <4> QED BY <2>1, <4>1, <4>2
    <3>2. Second(isr) \subseteq {vector - 32}
      <4> SUFFICES ASSUME NEW x \in Second(isr) PROVE x = vector - 32
        OBVIOUS
      <4>1. x \in isr /\ x >= 8
        BY DEF Second
      <4>2. x = 2 \/ x = vector - 32
        BY <2>3, <4>1
      <4> QED BY <4>1, <4>2
    <3> QED BY <3>1, <3>2
  <2>5. First(isr) \ Ended(First(isr)) = {} /\ Second(isr) \ Ended(Second(isr)) = {}
    BY <2>1, <2>4, EndsOnly, Zenon
  <2>6. isr \subseteq First(isr) \union Second(isr)
    BY <2>1, <2>3 DEF First, Second
  <2>7. pic_eoi(offset) = (isr \ Ended(First(isr))) \ Ended(Second(isr))
    BY <2>2 DEF pic_eoi
  <2> QED BY <2>5, <2>6, <2>7
<1> QED BY <1>1, <1>2, <1>3, <1>4

\* The end of a handler
LEMMA EoiInv ==
  ASSUME IInv, eoi_iretq PROVE IInv'
<1>1. isr' = {}
  BY EoiEnds DEF eoi_iretq
<1>2. TypeInv'
  <2>1. /\ boot' \in 0 .. 10 /\ irq_handlers' \subseteq 0 .. 15
        /\ DOMAIN selectors' = {"cs", "ss", "tr"}
    BY DEF IInv, TypeInv, TypeCpu, eoi_iretq
  <2>2. TypeCpu'
    BY <2>1, CpuStep DEF IInv, TypeInv, eoi_iretq
  <2>3. TypePic'
    BY <1>1 DEF IInv, TypeInv, TypePic, eoi_iretq
  <2> QED BY <2>2, <2>3, SameTypes DEF IInv, TypeInv, eoi_iretq
<1>3. BootInv'
  <2>1. boot >= 1 => selectors' = LoadedSelectors
    <3> SUFFICES ASSUME boot >= 1 PROVE selectors' = LoadedSelectors
      OBVIOUS
    <3>1. selectors = LoadedSelectors
      BY DEF IInv, BootInv
    <3>2. CASE frame = 0
      <4>1. selectors' = [selectors EXCEPT !.cs = 40, !.ss = 48]
        BY <3>2 DEF eoi_iretq, iret_cs, iret_ss
      <4>2. selectors' = [cs |-> 40, ss |-> 48, tr |-> 72]
        BY <3>1, <4>1, Zenon DEF LoadedSelectors
      <4> QED BY <4>2 DEF LoadedSelectors
    <3>3. CASE frame # 0
      BY <3>1, <3>3 DEF eoi_iretq
    <3> QED BY <3>2, <3>3
  <2> QED BY <2>1 DEF IInv, BootInv, eoi_iretq
<1>4. ServiceInv'
  BY <1>1 DEF IInv, ServiceInv, InHandler, EndsItsOwn, eoi_iretq
<1>5. KeyInv'
  BY SameKeys DEF eoi_iretq, driver
<1> QED BY <1>2, <1>3, <1>4, <1>5 DEF IInv

\* _start takes its next step.
LEMMA StartInv ==
  ASSUME IInv, start_step PROVE IInv'
<1> DEFINE step == BootSteps[boot + 1]
<1>1. boot \in 0 .. 9 /\ boot' = boot + 1 /\ pc = "run"
  BY BootIsNat, BootOrder DEF IInv, start_step, Running
<1>2. /\ selectors' = IF step = "gdt_init" THEN LoadedSelectors ELSE selectors
      /\ irr' = IF step = "idt_init" THEN {} ELSE irr
      /\ early' = (early \/ (step = "idt_init" /\ full))
      /\ UNCHANGED <<abandoned, pc, vector, frame, isr, raised, controller, typed,
                     scancode, keyboard, locks, torn>>
  BY DEF start_step
<1>3. irq_handlers' = CASE step = "keyboard_init" -> irq_handlers \union {1}
                        [] step = "irq_install_handler(0)" -> irq_handlers \union {0}
                        [] OTHER -> irq_handlers
  BY DEF start_step
<1>4. /\ irq_handlers' \subseteq irq_handlers \union {0, 1}
      /\ 0 \in irq_handlers' => 0 \in irq_handlers \/ step = "irq_install_handler(0)"
  <2>1. CASE step = "keyboard_init"
    BY <1>3, <2>1
  <2>2. CASE step = "irq_install_handler(0)"
    BY <1>3, <2>2
  <2>3. CASE step # "keyboard_init" /\ step # "irq_install_handler(0)"
    BY <1>3, <2>3
  <2> QED BY <2>1, <2>2, <2>3
<1>5. boot + 1 \in 1 .. 10
  BY <1>1
<1>6. /\ step = "irq_install_handler(0)" => boot' = 7
      /\ boot = 0 => step = "gdt_init"
  BY <1>1, <1>5, BootOrder
<1> HIDE DEF step
<1>7. TypeInv'
  <2>1. TypeCpu /\ TypePic /\ TypeDriver
    BY DEF IInv, TypeInv
  <2>2. TypeCpu'
    <3>1. boot' \in 0 .. 10
      BY <1>1
    <3>2. irq_handlers' \subseteq 0 .. 15
      <4>1. irq_handlers \subseteq 0 .. 15
        BY <2>1, Zenon DEF TypeCpu
      <4>2. 0 \in 0 .. 15 /\ 1 \in 0 .. 15
        OBVIOUS
      <4> QED BY <1>4, <4>1, <4>2
    <3>3. DOMAIN selectors' = {"cs", "ss", "tr"}
      BY <1>2, <2>1, Zenon DEF TypeCpu, LoadedSelectors
    <3>4. /\ pc' \in {"run", "dispatch", "second read", "eoi", "halted", "wild", "hung"}
          /\ vector' \in (0 .. 255) \union {NONE} /\ frame' \in (0 .. 255) \union {NONE}
          /\ abandoned' = abandoned
      BY <1>2, <2>1, ZenonT(40) DEF TypeCpu
    <3> QED BY <2>1, <3>1, <3>2, <3>3, <3>4, CpuStep, Zenon
  <2>3. TypePic'
    BY <1>2, <2>1, Zenon DEF TypePic
  <2>4. TypeDriver'
    <3>1. early' \in BOOLEAN
      BY <1>2
    <3> QED BY <1>2, <2>1, <3>1 DEF TypeDriver
  <2> QED BY <1>2, <2>2, <2>3, <2>4, SameTypes DEF IInv, TypeInv
<1>8. BootInv'
  <2>1. boot' >= 1 => selectors' = LoadedSelectors
    BY <1>1, <1>2, <1>6 DEF IInv, BootInv
  <2>2. 0 \in irq_handlers' => boot' >= 7
    BY <1>1, <1>4, <1>6 DEF IInv, BootInv
  <2>3. abandoned' => boot' >= 7
    BY <1>1, <1>2 DEF IInv, BootInv
  <2> QED BY <2>1, <2>2, <2>3 DEF BootInv
<1>9. ServiceInv'
  BY <1>1, <1>2 DEF IInv, ServiceInv, InHandler, EndsItsOwn
<1>10. KeyInv'
  BY <1>1, <1>2, SameKeys, Zenon
<1> QED BY <1>7, <1>8, <1>9, <1>10 DEF IInv

-----------------------------------------------------------------------------
\* Every step keeps the invariant.
LEMMA NextInv == IInv /\ [Next]_vars => IInv'
<1> SUFFICES ASSUME IInv, [Next]_vars PROVE IInv'
  OBVIOUS
<1>1. CASE Device
  BY <1>1, RaiseInv, PressInv, RepeatInv, ReleaseInv, LoadInv, SpuriousInv DEF Device
<1>2. CASE Handler
  BY <1>2, NoneInv, TimerInv, FirstReadInv, SecondReadInv, SyscallInv, EoiInv DEF Handler
<1>3. CASE UNCHANGED vars
  <2>1. UNCHANGED <<cpu, pic, controller, typed, driver>>
    BY <1>3 DEF vars
  <2>2. TypeInv'
    BY <2>1, SameTypes DEF IInv, TypeInv
  <2>3. BootInv' /\ ServiceInv'
    BY <2>1, SameService DEF pic
  <2>4. Now' = Now
    BY <2>1 DEF Now, cpu, controller, driver
  <2>5. Pending => Pending'
    BY <2>1, <2>4, SamePending DEF controller, typed
  <2>6. KeyInv'
    BY <2>1, <2>5, Zenon DEF IInv, KeyInv, cpu, pic, controller, driver
  <2> QED BY <2>2, <2>3, <2>6 DEF IInv
<1> QED BY <1>1, <1>2, <1>3, AcknowledgeInv, StartInv, IntInv, LockInv, ExceptionInv DEF Next

\* The invariant holds in every state.
LEMMA Inductive == Spec => []IInv
BY InitInv, NextInv, PTL DEF Spec

(***************************************************************************)
(* Type correctness: _start, the handlers and the devices never leave the  *)
(* values they work on.                                                    *)
(***************************************************************************)
THEOREM TypeCorrect == Spec => []TypeOK
<1>1. IInv => TypeOK
  BY TypeParts DEF IInv
<1> QED BY <1>1, Inductive, PTL

(***************************************************************************)
(* pic_eoi(frame->int_number) of irq_handler and pic_eoi(128) of           *)
(* syscall_handler end the interrupt they are in and no other, whichever   *)
(* lines have devices and in whatever order those raise them.              *)
(***************************************************************************)
THEOREM AlwaysEndsItsOwn == Spec => []EndsItsOwn
<1>1. IInv => EndsItsOwn
  BY Zenon DEF IInv, ServiceInv
<1> QED BY <1>1, Inductive, PTL

(***************************************************************************)
(* No process runs before the steps of _start that come before timer_init, *)
(* whatever interrupts arrive while it boots.                              *)
(***************************************************************************)
THEOREM BootsBeforeProcesses == Spec => []BootBeforeProcesses
<1>1. IInv => BootBeforeProcesses
  <2> SUFFICES ASSUME IInv, abandoned
               PROVE  {"syscall_init", "scheduler_init", "keyboard_init",
                       "process_create"} \subseteq Executed
    BY DEF BootBeforeProcesses
  <2>1. boot >= 7 /\ boot \in Nat
    BY BootIsNat DEF IInv, BootInv
  <2>2. 3 \in 1 .. boot /\ 4 \in 1 .. boot /\ 5 \in 1 .. boot /\ 6 \in 1 .. boot
    BY <2>1
  <2> QED BY <2>2, BootOrder DEF Executed
<1> QED BY <1>1, Inductive, PTL

(***************************************************************************)
(* From gdt_init on, CS, SS and TR hold selectors of descriptors that      *)
(* 64-bit mode accepts there, through interrupts, iretq into a new process *)
(* and system calls.                                                       *)
(***************************************************************************)
THEOREM SelectorsAlwaysLoadable == Spec => []SelectorsLoadable
<1>1. IInv => SelectorsLoadable
  <2> SUFFICES ASSUME IInv, "gdt_init" \in Executed
               PROVE  /\ LoadableCode(selectors.cs)
                      /\ LoadableStack(selectors.ss)
                      /\ LoadableTask(selectors.tr)
    BY DEF SelectorsLoadable
  <2>1. PICK n \in 1 .. boot : BootSteps[n] = "gdt_init"
    BY DEF Executed
  <2>2. boot >= 1
    BY <2>1, BootIsNat DEF IInv
  <2>3. selectors.cs = 40 /\ selectors.ss = 48 /\ selectors.tr = 72
    BY <2>2 DEF IInv, BootInv, LoadedSelectors
  <2> QED BY <2>3, SelectorsGood
<1> QED BY <1>1, Inductive, PTL

(***************************************************************************)
(* keyboard.shift and keyboard.caps_lock are what the keys say once every  *)
(* byte has been handled, however many were sent and however long they     *)
(* waited in the controller (no byte between the two reads of the port,    *)
(* none before keyboard_init, caps lock not held until it repeats).        *)
(***************************************************************************)
THEOREM ModifiersAlwaysFollow == Spec => []ModifiersFollow
<1>1. IInv => ModifiersFollow
  <2> SUFFICES ASSUME IInv, KeyboardQuiet, ~torn, ~early, pc \notin {"halted", "wild"}
               PROVE  Match(keyboard, down, light, repeated)
    BY DEF ModifiersFollow, Match
  <2>1. pc # "second read" /\ ~full /\ Len(queue) = 0
    BY Zenon DEF IInv, ServiceInv, KeyboardQuiet
  <2>2. Pending
    BY <2>1, Zenon DEF IInv, KeyInv
  <2>3. Now = keyboard
    BY <2>1, Zenon DEF Now
  <2> QED BY <2>1, <2>2, <2>3, Zenon DEF Pending
<1> QED BY <1>1, Inductive, PTL
=============================================================================
