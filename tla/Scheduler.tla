------------------------------ MODULE Scheduler ------------------------------
(***************************************************************************)
(* The process table and the preemptive round-robin scheduler of MmdOS:    *)
(* kernel/scheduler/process.c, kernel/scheduler/scheduler.c and the timer  *)
(* handler of kernel/interrupts/timer.c.                                   *)
(*                                                                         *)
(* There is one CPU.  Process code runs with interrupts on, so the timer   *)
(* may preempt it between any two of its steps.  The timer handler runs    *)
(* with interrupts off, so while in_irq holds only schedule() makes steps: *)
(* one step of the model is one iteration of its loop.                     *)
(*                                                                         *)
(* A PCB (process_t) is named by its pid.  process_create numbers PCBs     *)
(* with next_pid++ and never reuses a number.                              *)
(***************************************************************************)
EXTENDS Integers, FiniteSets

CONSTANTS
  NBoot,    \* processes _start creates before it starts the timer
  MaxPid,   \* bound of the model: no pid is larger
  Quantum   \* DEFAULT_PROCESS_RUNNING_QUANTUM

ASSUME SchedulerAssumption ==
  /\ NBoot \in Nat /\ NBoot >= 2
  /\ MaxPid \in Nat /\ MaxPid >= NBoot
  /\ Quantum \in Nat \ {0}

NULL == 0
IDLE == 1      \* scheduler_init creates the idle process first
PROMPT == 2    \* then _start creates the prompt, the only later creator
Pid == 1 .. MaxPid
PidOrNull == 0 .. MaxPid

Status == {"SPAWNED", "READY", "RUNNING", "SLEEPING", "DEAD"}

\* Where the prompt is in process_create, and why the kernel has stopped:
\* "hung" is a handler that spins for ever on a lock with interrupts off.
CreatePcs == {"none", "vmm_new", "add", "walk", "link"}
Halt == {"no", "list empty", "not in list", "page fault", "hung"}

VARIABLES
  processes_list,     \* head of the linked list
  current_process,    \* the global; NULL until the first tick
  next_pid,
  next,               \* process_t.next of every PCB
  status,             \* process_t.status
  remaining_quantum,  \* process_t.remaining_quantum
  context,            \* process_t.context: whose code the saved frame resumes
  allocated,          \* PCBs whose memory is allocated and mapped
  queue,              \* history variable: the PCBs linked from processes_list
  cpu,                \* whose code the CPU executes, or has interrupted
  cr3,                \* owner of the loaded page table
  rsp0,               \* owner of the kernel stack in the TSS
  in_irq,             \* schedule() is executing
  cursor,             \* its local current_process
  process_switched,   \* its local process_switched
  create_pc,          \* where the prompt is in process_create
  creating,           \* its local process
  iterator,           \* process_add's local iterator
  heap_lock,          \* who holds the spinlocks of pmm.c and vmm.c, or NULL
  halted              \* "no", or the reason the kernel has stopped

procVars   == <<next, status, remaining_quantum, context>>
cpuVars    == <<cpu, cr3, rsp0>>
localVars  == <<cursor, process_switched>>
createVars == <<create_pc, creating, iterator, next_pid, heap_lock>>
vars == <<processes_list, current_process, queue, allocated, in_irq, halted,
          procVars, cpuVars, localVars, createVars>>

TypeOK ==
  /\ processes_list \in PidOrNull
  /\ current_process \in PidOrNull
  /\ next_pid \in 1 .. MaxPid + 1
  /\ next \in [Pid -> PidOrNull]
  /\ status \in [Pid -> Status]
  /\ remaining_quantum \in [Pid -> 0 .. Quantum]
  /\ context \in [Pid -> PidOrNull]
  /\ allocated \subseteq Pid
  /\ queue \subseteq Pid
  /\ cpu \in PidOrNull
  /\ cr3 \in PidOrNull
  /\ rsp0 \in PidOrNull
  /\ in_irq \in BOOLEAN
  /\ cursor \in PidOrNull
  /\ process_switched \in BOOLEAN
  /\ create_pc \in CreatePcs
  /\ creating \in PidOrNull
  /\ iterator \in PidOrNull
  /\ heap_lock \in PidOrNull
  /\ halted \in Halt

(***************************************************************************)
(* _start has created NBoot processes one after the other, each linked at  *)
(* the tail, and is about to start the timer.  The boot code itself runs   *)
(* in no process: cpu is NULL until the first tick, and never again after. *)
(***************************************************************************)
Init ==
  /\ processes_list = IDLE
  /\ current_process = NULL
  /\ next_pid = NBoot + 1
  /\ next = [p \in Pid |-> IF p < NBoot THEN p + 1 ELSE NULL]
  /\ status = [p \in Pid |-> IF p <= NBoot THEN "READY" ELSE "SPAWNED"]
  /\ remaining_quantum = [p \in Pid |-> 0]
  /\ context = [p \in Pid |-> IF p <= NBoot THEN p ELSE NULL]
  /\ allocated = 1 .. NBoot
  /\ queue = 1 .. NBoot
  /\ cpu = NULL /\ cr3 = NULL /\ rsp0 = NULL
  /\ in_irq = FALSE
  /\ cursor = NULL
  /\ process_switched = FALSE
  /\ create_pc = "none" /\ creating = NULL /\ iterator = NULL
  /\ heap_lock = NULL
  /\ halted = "no"

-----------------------------------------------------------------------------
(* Process context.  A step needs interrupts on and a running kernel.      *)

InProcess(p) == halted = "no" /\ ~in_irq /\ cpu = p

(***************************************************************************)
(* process_exit, reached when the function of a process returns.  The      *)
(* yield that follows is the interrupt Tick; a timer tick may come first.  *)
(* The idle process and the prompt loop for ever.                          *)
(***************************************************************************)
process_exit(p) ==
  /\ InProcess(p)
  /\ heap_lock # p
  /\ status[p] = "RUNNING"
  /\ status' = [status EXCEPT ![current_process] = "DEAD"]
  /\ UNCHANGED <<processes_list, current_process, queue, allocated, in_irq,
                 halted, next, remaining_quantum, context, cpuVars, localVars,
                 createVars>>

(***************************************************************************)
(* kalloc and vmm_new take the spinlocks of pmm.c and vmm.c (module KHeap) *)
(* and leave interrupts on, so a tick may come while p holds them.  The    *)
(* prompt allocates in process_create: first the PCB, its context and its  *)
(* stack, then the page table.  A program may allocate at any time.  The   *)
(* locks are one here, and so are the calls of one group.                  *)
(***************************************************************************)
heap_acquire(p) ==
  /\ InProcess(p)
  /\ status[p] = "RUNNING"
  /\ p = PROMPT => \/ create_pc = "none" /\ next_pid <= MaxPid
                   \/ create_pc = "vmm_new"
  /\ heap_lock = NULL
  /\ heap_lock' = p
  /\ UNCHANGED <<processes_list, current_process, queue, allocated, in_irq,
                 halted, procVars, cpuVars, localVars, create_pc, creating,
                 iterator, next_pid>>

\* The locks are free again; in the prompt, vmm_new has returned.
heap_release(p) ==
  /\ InProcess(p)
  /\ heap_lock = p
  /\ p = PROMPT => create_pc = "vmm_new"
  /\ heap_lock' = NULL
  /\ create_pc' = IF p = PROMPT THEN "add" ELSE create_pc
  /\ UNCHANGED <<processes_list, current_process, queue, allocated, in_irq,
                 halted, procVars, cpuVars, localVars, creating, iterator,
                 next_pid>>

(***************************************************************************)
(* process_create up to its call of vmm_new: the allocations return and it *)
(* fills in the PCB.  What it writes is private to the new PCB, but        *)
(* next_pid, which no one else uses after boot.  kalloc returns zeroed     *)
(* memory, so next is NULL and the quantum is 0.                           *)
(***************************************************************************)
process_create ==
  /\ InProcess(PROMPT)
  /\ create_pc = "none"
  /\ next_pid <= MaxPid
  /\ heap_lock = PROMPT
  /\ heap_lock' = NULL
  /\ creating' = next_pid
  /\ next_pid' = next_pid + 1
  /\ allocated' = allocated \union {next_pid}
  /\ next' = [next EXCEPT ![next_pid] = NULL]
  /\ status' = [status EXCEPT ![next_pid] = "SPAWNED"]
  /\ remaining_quantum' = [remaining_quantum EXCEPT ![next_pid] = 0]
  /\ context' = [context EXCEPT ![next_pid] = next_pid]
  /\ create_pc' = "vmm_new"
  /\ UNCHANGED <<processes_list, current_process, queue, in_irq, halted,
                 cpuVars, localVars, iterator>>

\* process_add reads the head and makes the process READY.
process_add_begin ==
  /\ InProcess(PROMPT)
  /\ create_pc = "add"
  /\ iterator' = processes_list
  /\ status' = [status EXCEPT ![creating] = "READY"]
  /\ IF processes_list = NULL
       THEN /\ processes_list' = creating
            /\ queue' = {creating}
            /\ create_pc' = "none"
       ELSE create_pc' = "walk" /\ UNCHANGED <<processes_list, queue>>
  /\ UNCHANGED <<current_process, allocated, in_irq, halted, next,
                 remaining_quantum, context, cpuVars, localVars, creating,
                 next_pid, heap_lock>>

(***************************************************************************)
(* process_delete has unmapped the page of a freed PCB, and the context    *)
(* switch after it has flushed the TLB: touching the PCB is a page fault,  *)
(* which isr_handler turns into a panic.                                   *)
(***************************************************************************)
PageFault ==
  /\ halted' = "page fault"
  /\ UNCHANGED <<processes_list, current_process, queue, allocated, in_irq,
                 procVars, cpuVars, localVars, createVars>>

\* One evaluation of "iterator->next != NULL" and the move it guards.
process_add_walk ==
  /\ InProcess(PROMPT)
  /\ create_pc = "walk"
  /\ IF iterator \notin allocated
       THEN PageFault
       ELSE /\ IF next[iterator] # NULL
                 THEN iterator' = next[iterator] /\ UNCHANGED create_pc
                 ELSE create_pc' = "link" /\ UNCHANGED iterator
            /\ UNCHANGED <<processes_list, current_process, queue, allocated,
                           in_irq, halted, procVars, cpuVars, localVars,
                           creating, next_pid, heap_lock>>

\* iterator->next = process; process_create then returns.
process_add_link ==
  /\ InProcess(PROMPT)
  /\ create_pc = "link"
  /\ IF iterator \notin allocated
       THEN PageFault
       ELSE /\ next' = [next EXCEPT ![iterator] = creating]
            /\ queue' = queue \union
                          (IF iterator \in queue THEN {creating} ELSE {})
            /\ create_pc' = "none"
            /\ UNCHANGED <<processes_list, current_process, allocated, in_irq,
                           halted, status, remaining_quantum, context,
                           cpuVars, localVars, creating, iterator, next_pid,
                           heap_lock>>

-----------------------------------------------------------------------------
(* The timer handler.  An operator whose name is that of the operator that *)
(* follows it with a suffix is a mutant of it: the same code with a bug.   *)

(***************************************************************************)
(* The timer interrupt, or the int $0x20 of scheduler_yield: both enter    *)
(* timer_handler.  schedule() up to its loop.                              *)
(***************************************************************************)
Tick ==
  /\ halted = "no" /\ ~in_irq
  /\ in_irq' = TRUE
  /\ process_switched' = FALSE
  /\ IF processes_list = NULL
       THEN halted' = "list empty" /\ UNCHANGED <<current_process, cursor>>
       ELSE /\ current_process' =
                 IF current_process = NULL THEN processes_list
                                           ELSE current_process
            /\ cursor' = current_process'
            /\ UNCHANGED halted
  /\ UNCHANGED <<processes_list, queue, allocated, procVars, cpuVars,
                 createVars>>

Scheduling(S) == halted = "no" /\ in_irq /\ status[cursor] \in S

\* The successor of p in the list, wrapping at the tail.
NextInListHead(p) == processes_list
NextInList(p) == IF next[p] # NULL THEN next[p] ELSE processes_list

(***************************************************************************)
(* The end of schedule() and the return from the interrupt: p runs next,   *)
(* with a full quantum, its own stack and page table if it was switched to.*)
(***************************************************************************)
Dispatch(p, switched, frame, quantum) ==
  /\ current_process' = p
  /\ status' = [status EXCEPT ![p] = "RUNNING"]
  /\ remaining_quantum' =
       [remaining_quantum EXCEPT ![p] = IF switched THEN Quantum ELSE quantum]
  /\ rsp0' = IF switched THEN p ELSE rsp0
  /\ cr3' = IF switched THEN p ELSE cr3
  /\ cpu' = frame
  /\ in_irq' = FALSE
  /\ cursor' = NULL
  /\ process_switched' = FALSE

(***************************************************************************)
(* case SPAWNED, READY and SLEEPING.  No statement assigns wake_time, so   *)
(* it is 0 and "uptime > wake_time" holds from the first tick; the case    *)
(* SLEEPING leaves process_switched as it is.                              *)
(***************************************************************************)
SetsSwitchedOnlySpawned(s) == s = "SPAWNED"
SetsSwitched(s) == s # "SLEEPING"

schedule_stop ==
  /\ Scheduling({"SPAWNED", "READY", "SLEEPING"})
  /\ Dispatch(cursor, process_switched \/ SetsSwitched(status[cursor]),
              context[cursor], remaining_quantum[cursor])
  /\ UNCHANGED <<processes_list, queue, allocated, halted, next, context,
                 createVars>>

\* "remaining_quantum--; if (remaining_quantum > 0)" with q before the decrement.
QuantumLeft(q) == q - 1 > 0

\* case RUNNING with quantum left: the interrupted process goes on.
schedule_keep ==
  /\ Scheduling({"RUNNING"})
  /\ QuantumLeft(remaining_quantum[cursor])
  /\ context' = [context EXCEPT ![cursor] = cpu]
  /\ Dispatch(cursor, process_switched, cpu, remaining_quantum[cursor] - 1)
  /\ UNCHANGED <<processes_list, queue, allocated, halted, next, createVars>>

\* case RUNNING with the quantum used up: go on with the next in the list.
schedule_expire ==
  /\ Scheduling({"RUNNING"})
  /\ ~QuantumLeft(remaining_quantum[cursor])
  /\ context' = [context EXCEPT ![cursor] = cpu]
  /\ remaining_quantum' =
       [remaining_quantum EXCEPT ![cursor] = remaining_quantum[cursor] - 1]
  /\ status' = [status EXCEPT ![cursor] = "READY"]
  /\ process_switched' = TRUE
  /\ cursor' = NextInList(cursor)
  /\ UNCHANGED <<processes_list, current_process, queue, allocated, in_irq,
                 halted, next, cpuVars, createVars>>

\* process_delete: every next field after p has been cut from the list.
UnlinkKeepsPredecessor(p) == next
Unlink(p) == [q \in Pid |-> IF q \in queue /\ next[q] = p THEN next[p]
                                                          ELSE next[q]]

(***************************************************************************)
(* process_delete moves the global current_process on from whatever it is, *)
(* which is right only if the deleted process is the current one.          *)
(***************************************************************************)
CurrentAfterDeleteStays(list) == current_process
CurrentAfterDeleteHead(list) == list
CurrentAfterDelete(list) ==
  IF next[current_process] # NULL THEN next[current_process] ELSE list

\* process_delete frees the PCB, and nothing else of the process.
FreePCBLeaks(p) == allocated
FreePCB(p) == allocated \ {p}

(***************************************************************************)
(* case DEAD: process_delete, then schedule() continues from the new       *)
(* current_process and the new head of the list.  The kfree that ends      *)
(* process_delete spins for ever when a preempted process holds the locks: *)
(* interrupts are off, and the holder never runs again.                    *)
(***************************************************************************)
schedule_delete ==
  /\ Scheduling({"DEAD"})
  /\ IF processes_list # cursor /\ \A q \in queue : next[q] # cursor
       THEN /\ halted' = "not in list"
            /\ UNCHANGED <<processes_list, current_process, queue, allocated,
                           next, localVars>>
       ELSE /\ processes_list' = IF processes_list = cursor THEN next[cursor]
                                                            ELSE processes_list
            /\ next' = Unlink(cursor)
            /\ queue' = queue \ {cursor}
            /\ current_process' = CurrentAfterDelete(processes_list')
            /\ IF heap_lock # NULL
                 THEN halted' = "hung" /\ UNCHANGED <<allocated, localVars>>
                 ELSE /\ allocated' = FreePCB(cursor)
                      /\ IF processes_list' = NULL
                           THEN halted' = "list empty" /\ UNCHANGED localVars
                           ELSE /\ cursor' = current_process'
                                /\ process_switched' = TRUE
                                /\ UNCHANGED halted
  /\ UNCHANGED <<in_irq, status, remaining_quantum, context, cpuVars,
                 createVars>>

(***************************************************************************)
(* The handlers of other interrupts stop the kernel in the same way.  The  *)
(* keyboard handler spins on keyboard_lock when it interrupts a game       *)
(* inside keyboard_getch (module Stdin), and the system calls that         *)
(* allocate or read a key spin when they find a lock taken (modules KHeap, *)
(* Stdin).  All of it takes a program besides the idle process and the     *)
(* prompt.                                                                 *)
(***************************************************************************)
other_handler_spins ==
  /\ halted = "no" /\ ~in_irq /\ cpu # NULL
  /\ queue \ {IDLE, PROMPT} # {}
  /\ halted' = "hung"
  /\ UNCHANGED <<processes_list, current_process, queue, allocated, in_irq,
                 procVars, cpuVars, localVars, createVars>>

-----------------------------------------------------------------------------
Creator == process_create \/ process_add_begin \/ process_add_walk
             \/ process_add_link
Schedule == schedule_stop \/ schedule_keep \/ schedule_expire
              \/ schedule_delete

Next ==
  \/ \E p \in Pid \ {IDLE, PROMPT} : process_exit(p)
  \/ \E p \in Pid \ {IDLE} : heap_acquire(p) \/ heap_release(p)
  \/ Creator
  \/ Tick
  \/ Schedule
  \/ other_handler_spins

Spec == Init /\ [][Next]_vars

(***************************************************************************)
(* The PIT ticks at 100 Hz for ever, and an iteration of schedule() with   *)
(* interrupts off ends, in the hang of schedule_delete if not as it should *)
(* end.  A process that never exits, creates or gives a lock back is       *)
(* legal, but process_add, once begun, is straight-line code: while the    *)
(* prompt has the CPU it gets on with it.  A tick can always come first,   *)
(* hence SF.                                                               *)
(***************************************************************************)
Fairness ==
  /\ WF_vars(Tick)
  /\ WF_vars(Schedule)
  /\ SF_vars(process_add_begin \/ process_add_walk \/ process_add_link)

FairSpec == Spec /\ Fairness

-----------------------------------------------------------------------------
(* Safety.                                                                 *)

(***************************************************************************)
(* The list that process_add appends to and process_delete cuts from is    *)
(* intact at every moment: it starts at the idle process, visits exactly   *)
(* the queued PCBs in the order of their pids, and ends with NULL.         *)
(***************************************************************************)
ListIntact ==
  /\ IDLE \in queue /\ processes_list = IDLE
  /\ \A p \in queue :
       \/ next[p] = NULL /\ \A q \in queue : q <= p
       \/ /\ next[p] \in queue /\ next[p] > p
          /\ \A q \in queue : q <= p \/ q >= next[p]

(***************************************************************************)
(* None of the panics of schedule() ("process list empty", "no process     *)
(* found") and of process_delete ("not part of linked list") is reachable. *)
(***************************************************************************)
NoListPanic == halted \notin {"list empty", "not in list"}

(***************************************************************************)
(* A process marked DEAD by process_exit is the current one.  This is what *)
(* makes process_delete right to step the global current_process on from   *)
(* its old value when it deletes the process schedule() is looking at.     *)
(***************************************************************************)
DeadIsCurrent == \A p \in queue : status[p] = "DEAD" => p = current_process

(***************************************************************************)
(* Whenever process code runs, schedule() has set up the machine for that  *)
(* process: it is the current one, in its own address space and with its   *)
(* own kernel stack in the TSS; every other queued process waits READY     *)
(* with a frame that resumes its own code.                                 *)
(***************************************************************************)
RunsAsItself ==
  ~in_irq /\ cpu # NULL =>
    /\ cpu \in queue
    /\ current_process = cpu /\ cr3 = cpu /\ rsp0 = cpu
    /\ status[cpu] \in {"RUNNING", "DEAD"}
    /\ \A p \in queue \ {cpu} : status[p] = "READY" /\ context[p] = p

(***************************************************************************)
(* schedule() and process_delete touch only PCBs that have not been freed, *)
(* although they free PCBs in the middle of the loop.                      *)
(***************************************************************************)
NoUseAfterFree ==
  /\ queue \subseteq allocated
  /\ current_process # NULL => current_process \in queue
  /\ in_irq /\ halted = "no" => cursor \in queue

(***************************************************************************)
(* No PCB is lost: one that is still allocated is in the queue, or         *)
(* process_create has not returned yet, or it is the one whose kfree in    *)
(* process_delete spins for ever.                                          *)
(***************************************************************************)
NothingLost ==
  \A p \in allocated :
    \/ p \in queue
    \/ p = creating /\ create_pc # "none"
    \/ p = cursor /\ halted = "hung"

(***************************************************************************)
(* Round robin: the CPU passes from a process only to the one after it in  *)
(* pid order, wrapping to the first, whether its quantum ended or it died. *)
(* It passes on only if the quantum is used up or the process is deleted.  *)
(***************************************************************************)
IsTurnAfter(p, q) ==
  /\ q \in queue
  /\ \/ q > p /\ \A r \in queue : r <= p \/ r >= q
     \/ \A r \in queue : r <= p /\ q <= r

RoundRobin ==
  [][cpu' # cpu => /\ IsTurnAfter(cpu, cpu')
                   /\ cpu \in queue => remaining_quantum[cpu] = 0]_vars

-----------------------------------------------------------------------------
(* Liveness.                                                               *)

(***************************************************************************)
(* Every READY process in the queue gets the CPU, unless the kernel stops: *)
(* neither the creation nor the death of others starves it.  Besides the   *)
(* stops of this module there are those of a program that faults or of     *)
(* memory that runs out (modules Interrupts, KHeap).                       *)
(***************************************************************************)
NoStarvation ==
  \A p \in Pid :
    p \in queue /\ status[p] = "READY" ~> cpu = p \/ halted # "no"

(***************************************************************************)
(* A process that has exited is taken off the queue and freed, unless a    *)
(* handler spins for ever on a lock: the kfree of its own PCB, or another  *)
(* handler before the next tick.  No other stop gets in the way.           *)
(***************************************************************************)
DeadIsReaped ==
  \A p \in Pid :
    p \in queue /\ status[p] = "DEAD" ~> p \notin allocated \/ halted = "hung"

-----------------------------------------------------------------------------
(* What comments of the repository say and the code does not do.           *)

(***************************************************************************)
(* process.c, on process_create: "created pcb and allocates memory to      *)
(* process. also add it to queue."  Stated from the call of process_add    *)
(* on, and of a kernel that does not hang on a lock.                       *)
(***************************************************************************)
CreatedIsQueued ==
  \A p \in Pid :
    creating = p /\ create_pc \in {"add", "walk", "link"}
      ~> p \in queue \/ halted = "hung"

=============================================================================
