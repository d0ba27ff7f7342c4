--------------------------- MODULE SchedulerProofs ---------------------------
(***************************************************************************)
(* Proofs about Scheduler for every number of boot processes, every bound  *)
(* on pids and every quantum.                                              *)
(*                                                                         *)
(* The safety invariants are not inductive as they stand: process_delete   *)
(* leaves the list intact only because what it deletes is current_process, *)
(* and process_add keeps it in pid order only because the PCB it appends   *)
(* has the largest pid.  IInv adds what each of them needs of the others,  *)
(* and what holds in the middle of schedule()'s loop.                      *)
(***************************************************************************)
EXTENDS Scheduler, TLAPS

\* The list and the memory of the PCBs in it.
ListInv ==
  /\ ListIntact
  /\ PROMPT \in queue
  /\ queue \subseteq allocated
  /\ NothingLost
  /\ \A p \in allocated : p < next_pid

\* The PCB under construction is the youngest, and process_add has found the
\* tail by the time it is about to link.
CreateInv ==
  create_pc # "none" =>
    /\ creating \in allocated /\ creating \notin queue
    /\ creating = next_pid - 1
    /\ next[creating] = NULL
    /\ context[creating] = creating
    /\ create_pc \notin {"vmm_new", "add"} =>
         /\ status[creating] = "READY"
         /\ iterator # NULL /\ iterator # creating
    /\ create_pc = "link" /\ iterator \in queue => next[iterator] = NULL

\* Every queued PCB but the first has a predecessor for process_delete to find.
PredInv == \A p \in queue : p # IDLE => \E q \in queue : next[q] = p

\* What every queued process looks like, in and out of schedule().
ProcInv ==
  /\ \A p \in queue : context[p] = p
  /\ \A p \in queue \ {current_process} : status[p] = "READY"
  /\ status[IDLE] # "DEAD" /\ status[PROMPT] # "DEAD"
  /\ \A p \in queue : status[p] = "RUNNING" => remaining_quantum[p] > 0

\* The machine state: before the first tick, in a process, in schedule().
CpuInv ==
  /\ current_process # NULL => current_process \in queue
  /\ current_process = NULL => ~in_irq
  /\ ~in_irq => cpu = current_process
  /\ ~in_irq /\ cpu # NULL =>
       /\ status[cpu] \in {"RUNNING", "DEAD"}
       /\ cr3 = cpu /\ rsp0 = cpu

\* In schedule()'s loop, unless it spins for ever in process_delete.
IrqInv ==
  in_irq /\ halted # "hung" =>
    /\ cursor \in queue
    /\ status[current_process] \in {"READY", "RUNNING", "DEAD"}
    /\ status[current_process] \in {"RUNNING", "DEAD"} =>
         cursor = current_process /\ cpu = current_process
           /\ cr3 = cpu /\ rsp0 = cpu
    /\ status[cursor] = "READY" =>
         /\ IsTurnAfter(cpu, cursor)
         /\ cpu \in queue => remaining_quantum[cpu] = 0

IInv ==
  /\ TypeOK
  /\ halted \in {"no", "page fault", "hung"}
  /\ ListInv /\ PredInv /\ CreateInv /\ ProcInv /\ CpuInv /\ IrqInv

-----------------------------------------------------------------------------
\* What the proofs use of the constants: the idle process and the prompt are
\* two of the pids, and NULL is none.
LEMMA Constants ==
  /\ IDLE \in Pid /\ PROMPT \in Pid /\ NULL \notin Pid
  /\ \A p : p \in PidOrNull <=> p \in Pid \/ p = NULL
  /\ \A p \in Pid : p \in Int /\ IDLE <= p /\ NULL < p
  /\ Quantum \in 1 .. Quantum /\ 1 .. Quantum \subseteq 0 .. Quantum
  /\ 0 \in 0 .. Quantum
BY SchedulerAssumption DEF IDLE, PROMPT, NULL, Pid, PidOrNull

\* A page fault, or a handler that spins, changes nothing but halted.
LEMMA HaltStep ==
  ASSUME IInv, halted = "no", halted' \in {"page fault", "hung"},
         UNCHANGED <<processes_list, current_process, queue, allocated, in_irq,
                     procVars, cpuVars, localVars, createVars>>
  PROVE  IInv'
<1>1. TypeOK'
  <2>1. (/\ processes_list \in PidOrNull /\ current_process \in PidOrNull
        /\ cursor \in PidOrNull /\ creating \in PidOrNull
        /\ iterator \in PidOrNull)'
    BY Constants, Zenon DEF IInv, TypeOK, procVars, cpuVars, localVars,
         createVars
  <2>2. (next_pid \in 1 .. MaxPid + 1)'
    BY Constants, Zenon DEF IInv, TypeOK, procVars, cpuVars, localVars,
         createVars
  <2>3. (next \in [Pid -> PidOrNull] /\ context \in [Pid -> PidOrNull])'
    BY Constants, Zenon DEF IInv, TypeOK, procVars, cpuVars, localVars,
         createVars
  <2>4. (status \in [Pid -> Status])'
    BY Constants, Zenon DEF IInv, TypeOK, Status, procVars, cpuVars,
         localVars, createVars
  <2>5. (remaining_quantum \in [Pid -> 0 .. Quantum])'
    BY Constants, Zenon DEF IInv, TypeOK, procVars, cpuVars, localVars,
         createVars
  <2>6. (allocated \subseteq Pid /\ queue \subseteq Pid)'
    BY Constants, Zenon DEF IInv, TypeOK, procVars, cpuVars, localVars,
         createVars
  <2>7. (cpu \in PidOrNull /\ cr3 \in PidOrNull /\ rsp0 \in PidOrNull)'
    BY Constants, Zenon DEF IInv, TypeOK, procVars, cpuVars, localVars,
         createVars
  <2>8. (in_irq \in BOOLEAN /\ process_switched \in BOOLEAN)'
    BY Constants, Zenon DEF IInv, TypeOK, procVars, cpuVars, localVars,
         createVars
  <2>9. (create_pc \in CreatePcs /\ heap_lock \in PidOrNull /\ halted \in Halt)'
    BY Constants, Zenon DEF IInv, TypeOK, CreatePcs, Halt, procVars, cpuVars, localVars,
         createVars
  <2> QED BY <2>1, <2>2, <2>3, <2>4, <2>5, <2>6, <2>7, <2>8, <2>9, Zenon DEF TypeOK
<1>2. (halted \in {"no", "page fault", "hung"})'
  BY Constants, Zenon DEF IInv, TypeOK, procVars, cpuVars, localVars,
       createVars
<1>3. ListInv'
  <2>1. ListIntact'
    BY Constants, Zenon DEF IInv, TypeOK, ListInv, ListIntact, procVars,
         cpuVars, localVars, createVars
  <2>2. NothingLost'
    BY Constants, Zenon DEF IInv, TypeOK, ListInv, NothingLost, procVars,
         cpuVars, localVars, createVars
  <2>3. (/\ PROMPT \in queue /\ queue \subseteq allocated
         /\ \A p \in allocated : p < next_pid)'
    BY Constants, Zenon DEF IInv, TypeOK, ListInv, procVars, cpuVars,
         localVars, createVars
  <2> QED BY <2>1, <2>2, <2>3 DEF ListInv
<1>4. PredInv'
  BY Constants, Zenon DEF IInv, TypeOK, ListInv, PredInv, procVars,
       cpuVars, localVars, createVars
<1>5. CreateInv'
  BY Constants, Zenon DEF IInv, TypeOK, CreateInv, procVars, cpuVars,
       localVars, createVars
<1>6. ProcInv'
  BY Constants, Zenon DEF IInv, TypeOK, ListInv, ProcInv, procVars,
       cpuVars, localVars, createVars
<1>7. CpuInv'
  BY Constants, Zenon DEF IInv, TypeOK, ListInv, CpuInv, procVars,
       cpuVars, localVars, createVars
<1>8. IrqInv'
  BY Constants, Zenon DEF IInv, TypeOK, ListInv, IrqInv, IsTurnAfter,
       procVars, cpuVars, localVars, createVars
<1> QED BY <1>1, <1>2, <1>3, <1>4, <1>5, <1>6, <1>7, <1>8, Zenon DEF IInv

\* The fault of process_add's walk.
LEMMA FaultStep == ASSUME IInv, halted = "no", PageFault PROVE IInv'
BY HaltStep, Zenon DEF PageFault

\* A handler of another interrupt that spins.
LEMMA SpinStep == ASSUME IInv, other_handler_spins PROVE IInv'
BY HaltStep, Zenon DEF other_handler_spins

\* Taking and giving back the locks of the heap changes nothing else, but the
\* place of the prompt in process_create.
LEMMA HeapStep ==
  ASSUME NEW p \in Pid \ {IDLE}, IInv, heap_acquire(p) \/ heap_release(p)
  PROVE  IInv'
<1>a. /\ heap_lock' \in PidOrNull
      /\ \/ create_pc' = create_pc
         \/ create_pc = "vmm_new" /\ create_pc' = "add"
      /\ UNCHANGED <<processes_list, current_process, queue, allocated, in_irq,
                     halted, procVars, cpuVars, localVars, creating, iterator,
                     next_pid>>
  BY Constants, Zenon DEF heap_acquire, heap_release
<1>1. TypeOK'
  <2>1. (/\ processes_list \in PidOrNull /\ current_process \in PidOrNull
        /\ cursor \in PidOrNull /\ creating \in PidOrNull
        /\ iterator \in PidOrNull)'
    BY <1>a, Constants, Zenon DEF IInv, TypeOK, procVars, cpuVars, localVars,
         createVars
  <2>2. (next_pid \in 1 .. MaxPid + 1)'
    BY <1>a, Constants, Zenon DEF IInv, TypeOK, procVars, cpuVars, localVars,
         createVars
  <2>3. (next \in [Pid -> PidOrNull] /\ context \in [Pid -> PidOrNull])'
    BY <1>a, Constants, Zenon DEF IInv, TypeOK, procVars, cpuVars, localVars,
         createVars
  <2>4. (status \in [Pid -> Status])'
    BY <1>a, Constants, Zenon DEF IInv, TypeOK, Status, procVars, cpuVars,
         localVars, createVars
  <2>5. (remaining_quantum \in [Pid -> 0 .. Quantum])'
    BY <1>a, Constants, Zenon DEF IInv, TypeOK, procVars, cpuVars, localVars,
         createVars
  <2>6. (allocated \subseteq Pid /\ queue \subseteq Pid)'
    BY <1>a, Constants, Zenon DEF IInv, TypeOK, procVars, cpuVars, localVars,
         createVars
  <2>7. (cpu \in PidOrNull /\ cr3 \in PidOrNull /\ rsp0 \in PidOrNull)'
    BY <1>a, Constants, Zenon DEF IInv, TypeOK, procVars, cpuVars, localVars,
         createVars
  <2>8. (in_irq \in BOOLEAN /\ process_switched \in BOOLEAN)'
    BY <1>a, Constants, Zenon DEF IInv, TypeOK, procVars, cpuVars, localVars,
         createVars
  <2>9. (create_pc \in CreatePcs /\ heap_lock \in PidOrNull /\ halted \in Halt)'
    BY <1>a, Constants, Zenon DEF IInv, TypeOK, CreatePcs, Halt, procVars, cpuVars, localVars,
         createVars
  <2> QED BY <2>1, <2>2, <2>3, <2>4, <2>5, <2>6, <2>7, <2>8, <2>9, Zenon DEF TypeOK
<1>2. (halted \in {"no", "page fault", "hung"})'
  BY <1>a, Constants, Zenon DEF IInv, TypeOK, procVars, cpuVars, localVars,
       createVars
<1>3. ListInv'
  <2>1. ListIntact'
    BY <1>a, Constants, Zenon DEF IInv, TypeOK, ListInv, ListIntact, procVars,
         cpuVars, localVars, createVars
  <2>2. NothingLost'
    BY <1>a, Constants DEF IInv, TypeOK, ListInv, NothingLost, procVars,
         cpuVars, localVars, createVars
  <2>3. (/\ PROMPT \in queue /\ queue \subseteq allocated
         /\ \A q \in allocated : q < next_pid)'
    BY <1>a, Constants, Zenon DEF IInv, TypeOK, ListInv, procVars, cpuVars,
         localVars, createVars
  <2> QED BY <2>1, <2>2, <2>3 DEF ListInv
<1>4. PredInv'
  BY <1>a, Constants, Zenon DEF IInv, TypeOK, ListInv, PredInv, procVars,
       cpuVars, localVars, createVars
<1>5. CreateInv'
  BY <1>a, Constants DEF IInv, TypeOK, CreateInv, procVars
<1>6. ProcInv'
  BY <1>a, Constants, Zenon DEF IInv, TypeOK, ListInv, ProcInv, procVars,
       cpuVars, localVars, createVars
<1>7. CpuInv'
  BY <1>a, Constants, Zenon DEF IInv, TypeOK, ListInv, CpuInv, procVars,
       cpuVars, localVars, createVars
<1>8. IrqInv'
  BY <1>a, Constants, Zenon DEF IInv, TypeOK, ListInv, IrqInv, IsTurnAfter,
       procVars, cpuVars, localVars, createVars
<1> QED BY <1>1, <1>2, <1>3, <1>4, <1>5, <1>6, <1>7, <1>8, Zenon DEF IInv

\* process_exit writes one status: that of the current process, which is
\* neither the idle process nor the prompt.
LEMMA ExitStep == ASSUME NEW p \in Pid \ {IDLE, PROMPT}, IInv, process_exit(p) PROVE IInv'
<1>a. /\ ~in_irq /\ halted = "no" /\ current_process = p /\ cpu = p
      /\ p \in Pid /\ p # IDLE /\ p # PROMPT /\ p \in queue
      /\ status' = [status EXCEPT ![p] = "DEAD"]
      /\ UNCHANGED <<processes_list, current_process, queue, allocated, in_irq,
                     halted, next, remaining_quantum, context, cpuVars,
                     localVars, createVars>>
  BY Constants DEF IInv, CpuInv, process_exit, InProcess
<1>1. TypeOK'
  <2>1. (/\ processes_list \in PidOrNull /\ current_process \in PidOrNull
        /\ cursor \in PidOrNull /\ creating \in PidOrNull
        /\ iterator \in PidOrNull)'
    BY <1>a, Constants DEF IInv, TypeOK, procVars, cpuVars, localVars,
         createVars
  <2>2. (next_pid \in 1 .. MaxPid + 1)'
    BY <1>a, Constants DEF IInv, TypeOK, procVars, cpuVars, localVars,
         createVars
  <2>3. (next \in [Pid -> PidOrNull] /\ context \in [Pid -> PidOrNull])'
    BY <1>a, Constants DEF IInv, TypeOK, procVars, cpuVars, localVars,
         createVars
  <2>4. (status \in [Pid -> Status])'
    BY <1>a, Constants DEF IInv, TypeOK, Status, procVars, cpuVars, localVars,
         createVars
  <2>5. (remaining_quantum \in [Pid -> 0 .. Quantum])'
    BY <1>a, Constants DEF IInv, TypeOK, procVars, cpuVars, localVars,
         createVars
  <2>6. (allocated \subseteq Pid /\ queue \subseteq Pid)'
    BY <1>a, Constants DEF IInv, TypeOK, procVars, cpuVars, localVars,
         createVars
  <2>7. (cpu \in PidOrNull /\ cr3 \in PidOrNull /\ rsp0 \in PidOrNull)'
    BY <1>a, Constants DEF IInv, TypeOK, procVars, cpuVars, localVars,
         createVars
  <2>8. (in_irq \in BOOLEAN /\ process_switched \in BOOLEAN)'
    BY <1>a, Constants DEF IInv, TypeOK, procVars, cpuVars, localVars,
         createVars
  <2>9. (create_pc \in CreatePcs /\ heap_lock \in PidOrNull /\ halted \in Halt)'
    BY <1>a, Constants DEF IInv, TypeOK, CreatePcs, Halt, procVars, cpuVars, localVars,
         createVars
  <2> QED BY <2>1, <2>2, <2>3, <2>4, <2>5, <2>6, <2>7, <2>8, <2>9, Zenon DEF TypeOK
<1>2. (halted \in {"no", "page fault", "hung"})'
  BY <1>a, Constants DEF IInv, TypeOK, procVars, cpuVars, localVars,
       createVars
<1>3. ListInv'
  <2>1. ListIntact'
    BY <1>a, Constants DEF IInv, TypeOK, ListInv, ListIntact, procVars,
         cpuVars, localVars, createVars
  <2>2. NothingLost'
    BY <1>a, Constants DEF IInv, TypeOK, ListInv, NothingLost, procVars,
         cpuVars, localVars, createVars
  <2>3. (/\ PROMPT \in queue /\ queue \subseteq allocated
         /\ \A q \in allocated : q < next_pid)'
    BY <1>a, Constants DEF IInv, TypeOK, ListInv, procVars, cpuVars,
         localVars, createVars
  <2> QED BY <2>1, <2>2, <2>3 DEF ListInv
<1>4. PredInv'
  BY <1>a, Constants DEF IInv, TypeOK, ListInv, PredInv, procVars, cpuVars,
       localVars, createVars
<1>5. CreateInv'
  BY <1>a, Constants DEF IInv, TypeOK, CreateInv, ListInv, procVars, cpuVars,
       localVars, createVars
<1>6. ProcInv'
  BY <1>a, Constants DEF IInv, TypeOK, ListInv, ProcInv, procVars, cpuVars,
       localVars, createVars
<1>7. CpuInv'
  BY <1>a, Constants DEF IInv, TypeOK, ListInv, CpuInv, procVars, cpuVars,
       localVars, createVars
<1>8. IrqInv'
  BY <1>a, Constants DEF IInv, TypeOK, ListInv, IrqInv, procVars, cpuVars,
       localVars, createVars
<1> QED BY <1>1, <1>2, <1>3, <1>4, <1>5, <1>6, <1>7, <1>8, Zenon DEF IInv

\* process_create takes a pid no PCB has.
LEMMA CreateStep == ASSUME IInv, process_create PROVE IInv'
<1> DEFINE n == next_pid
<1>a. /\ ~in_irq /\ halted = "no" /\ create_pc = "none" /\ cpu = PROMPT
      /\ n \in Pid /\ n \notin allocated /\ n \notin queue /\ n # PROMPT /\ n # IDLE
      /\ n \in Nat /\ n + 1 \in 1 .. MaxPid + 1 /\ \A p \in allocated : p < n + 1
      /\ \A p \in queue : next[p] # n
  BY SchedulerAssumption, Constants DEF IInv, TypeOK, ListInv, ListIntact, process_create,
       InProcess, Pid, PidOrNull, NULL
<1>b. /\ creating' = n /\ next_pid' = n + 1 /\ create_pc' = "vmm_new"
      /\ heap_lock' = NULL
      /\ allocated' = allocated \union {n}
      /\ next' = [next EXCEPT ![n] = NULL]
      /\ status' = [status EXCEPT ![n] = "SPAWNED"]
      /\ remaining_quantum' = [remaining_quantum EXCEPT ![n] = 0]
      /\ context' = [context EXCEPT ![n] = n]
      /\ UNCHANGED <<processes_list, current_process, queue, in_irq, halted,
                     cpuVars, localVars, iterator>>
  BY DEF process_create
<1> HIDE DEF n
<1>1. TypeOK'
  <2>1. (/\ processes_list \in PidOrNull /\ current_process \in PidOrNull
        /\ cursor \in PidOrNull /\ creating \in PidOrNull
        /\ iterator \in PidOrNull)'
    BY <1>a, <1>b, Constants DEF IInv, TypeOK, procVars, cpuVars, localVars,
         createVars
  <2>2. (next_pid \in 1 .. MaxPid + 1)'
    BY <1>a, <1>b, Constants DEF IInv, TypeOK, procVars, cpuVars, localVars,
         createVars
  <2>3. (next \in [Pid -> PidOrNull] /\ context \in [Pid -> PidOrNull])'
    BY <1>a, <1>b, Constants DEF IInv, TypeOK, procVars, cpuVars, localVars,
         createVars
  <2>4. (status \in [Pid -> Status])'
    BY <1>a, <1>b, Constants DEF IInv, TypeOK, Status, procVars, cpuVars,
         localVars, createVars
  <2>5. (remaining_quantum \in [Pid -> 0 .. Quantum])'
    BY <1>a, <1>b, Constants DEF IInv, TypeOK, procVars, cpuVars, localVars,
         createVars
  <2>6. (allocated \subseteq Pid /\ queue \subseteq Pid)'
    BY <1>a, <1>b, Constants DEF IInv, TypeOK, procVars, cpuVars, localVars,
         createVars
  <2>7. (cpu \in PidOrNull /\ cr3 \in PidOrNull /\ rsp0 \in PidOrNull)'
    BY <1>a, <1>b, Constants DEF IInv, TypeOK, procVars, cpuVars, localVars,
         createVars
  <2>8. (in_irq \in BOOLEAN /\ process_switched \in BOOLEAN)'
    BY <1>a, <1>b, Constants DEF IInv, TypeOK, procVars, cpuVars, localVars,
         createVars
  <2>9. (create_pc \in CreatePcs /\ heap_lock \in PidOrNull /\ halted \in Halt)'
    BY <1>a, <1>b, Constants DEF IInv, TypeOK, CreatePcs, Halt, procVars, cpuVars, localVars,
         createVars
  <2> QED BY <2>1, <2>2, <2>3, <2>4, <2>5, <2>6, <2>7, <2>8, <2>9, Zenon DEF TypeOK
<1>2. (halted \in {"no", "page fault", "hung"})'
  BY <1>a, <1>b, Constants DEF IInv, TypeOK, procVars, cpuVars, localVars,
       createVars
<1>3. ListInv'
  <2>1. ListIntact'
    BY <1>a, <1>b, Constants DEF IInv, TypeOK, ListInv, ListIntact, procVars,
         cpuVars, localVars, createVars
  <2>2. NothingLost'
    BY <1>a, <1>b, Constants DEF IInv, TypeOK, ListInv, NothingLost, procVars,
         cpuVars, localVars, createVars
  <2>3. (/\ PROMPT \in queue /\ queue \subseteq allocated
         /\ \A p \in allocated : p < next_pid)'
    BY <1>a, <1>b, Constants DEF IInv, TypeOK, ListInv, procVars, cpuVars,
         localVars, createVars
  <2> QED BY <2>1, <2>2, <2>3 DEF ListInv
<1>4. PredInv'
  BY <1>a, <1>b, Constants DEF IInv, TypeOK, ListInv, PredInv, procVars,
       cpuVars, localVars, createVars
<1>5. CreateInv'
  BY <1>a, <1>b, Constants DEF IInv, TypeOK, CreateInv, procVars, cpuVars,
       localVars, createVars
<1>6. ProcInv'
  BY <1>a, <1>b, Constants DEF IInv, TypeOK, ListInv, ProcInv, procVars,
       cpuVars, localVars, createVars
<1>7. CpuInv'
  BY <1>a, <1>b, Constants DEF IInv, TypeOK, ListInv, CpuInv, ProcInv,
       procVars, cpuVars, localVars, createVars
<1>8. IrqInv'
  BY <1>a, <1>b, Constants DEF IInv, TypeOK, ListInv, IrqInv, procVars,
       cpuVars, localVars, createVars
<1> QED BY <1>1, <1>2, <1>3, <1>4, <1>5, <1>6, <1>7, <1>8, Zenon DEF IInv

\* process_add starts at the head; the list is never empty.
LEMMA AddBeginStep == ASSUME IInv, process_add_begin PROVE IInv'
<1>a. /\ halted = "no" /\ ~in_irq /\ create_pc = "add"
      /\ creating \in Pid /\ creating \notin queue
      /\ iterator' = IDLE /\ create_pc' = "walk"
      /\ status' = [status EXCEPT ![creating] = "READY"]
      /\ UNCHANGED <<processes_list, queue, current_process, allocated, in_irq,
                     halted, next, remaining_quantum, context, cpuVars,
                     localVars, creating, next_pid, heap_lock>>
  BY Constants DEF IInv, TypeOK, ListInv, ListIntact, CreateInv,
                   process_add_begin, InProcess
<1>1. TypeOK'
  <2>1. (/\ processes_list \in PidOrNull /\ current_process \in PidOrNull
        /\ cursor \in PidOrNull /\ creating \in PidOrNull
        /\ iterator \in PidOrNull)'
    BY <1>a, Constants DEF IInv, TypeOK, procVars, cpuVars, localVars,
         createVars
  <2>2. (next_pid \in 1 .. MaxPid + 1)'
    BY <1>a, Constants DEF IInv, TypeOK, procVars, cpuVars, localVars,
         createVars
  <2>3. (next \in [Pid -> PidOrNull] /\ context \in [Pid -> PidOrNull])'
    BY <1>a, Constants DEF IInv, TypeOK, procVars, cpuVars, localVars,
         createVars
  <2>4. (status \in [Pid -> Status])'
    BY <1>a, Constants DEF IInv, TypeOK, Status, procVars, cpuVars, localVars,
         createVars
  <2>5. (remaining_quantum \in [Pid -> 0 .. Quantum])'
    BY <1>a, Constants DEF IInv, TypeOK, procVars, cpuVars, localVars,
         createVars
  <2>6. (allocated \subseteq Pid /\ queue \subseteq Pid)'
    BY <1>a, Constants DEF IInv, TypeOK, procVars, cpuVars, localVars,
         createVars
  <2>7. (cpu \in PidOrNull /\ cr3 \in PidOrNull /\ rsp0 \in PidOrNull)'
    BY <1>a, Constants DEF IInv, TypeOK, procVars, cpuVars, localVars,
         createVars
  <2>8. (in_irq \in BOOLEAN /\ process_switched \in BOOLEAN)'
    BY <1>a, Constants DEF IInv, TypeOK, procVars, cpuVars, localVars,
         createVars
  <2>9. (create_pc \in CreatePcs /\ heap_lock \in PidOrNull /\ halted \in Halt)'
    BY <1>a, Constants DEF IInv, TypeOK, CreatePcs, Halt, procVars, cpuVars, localVars,
         createVars
  <2> QED BY <2>1, <2>2, <2>3, <2>4, <2>5, <2>6, <2>7, <2>8, <2>9, Zenon DEF TypeOK
<1>2. (halted \in {"no", "page fault", "hung"})'
  BY <1>a, Constants DEF IInv, TypeOK, procVars, cpuVars, localVars,
       createVars
<1>3. ListInv'
  <2>1. ListIntact'
    BY <1>a, Constants DEF IInv, TypeOK, ListInv, ListIntact, procVars,
         cpuVars, localVars, createVars
  <2>2. NothingLost'
    BY <1>a, Constants DEF IInv, TypeOK, ListInv, NothingLost, procVars,
         cpuVars, localVars, createVars
  <2>3. (/\ PROMPT \in queue /\ queue \subseteq allocated
         /\ \A p \in allocated : p < next_pid)'
    BY <1>a, Constants DEF IInv, TypeOK, ListInv, procVars, cpuVars,
         localVars, createVars
  <2> QED BY <2>1, <2>2, <2>3 DEF ListInv
<1>4. PredInv'
  BY <1>a, Constants DEF IInv, TypeOK, ListInv, PredInv, procVars, cpuVars,
       localVars, createVars
<1>5. CreateInv'
  BY <1>a, Constants DEF IInv, TypeOK, CreateInv, ListInv, ListIntact,
       procVars, cpuVars, localVars, createVars
<1>6. ProcInv'
  BY <1>a, Constants DEF IInv, TypeOK, ListInv, ProcInv, procVars, cpuVars,
       localVars, createVars
<1>7. CpuInv'
  BY <1>a, Constants DEF IInv, TypeOK, ListInv, CpuInv, procVars, cpuVars,
       localVars, createVars
<1>8. IrqInv'
  BY <1>a, Constants DEF IInv, TypeOK, ListInv, IrqInv, procVars, cpuVars,
       localVars, createVars
<1> QED BY <1>1, <1>2, <1>3, <1>4, <1>5, <1>6, <1>7, <1>8, Zenon DEF IInv

\* A PCB that is allocated and not the new one is in the queue, so the walk
\* follows the list or faults.
LEMMA AddWalkStep == ASSUME IInv, process_add_walk PROVE IInv'
<1> SUFFICES ASSUME ~PageFault PROVE IInv'
  BY FaultStep, Zenon DEF process_add_walk, InProcess
<1>a. /\ halted = "no" /\ ~in_irq /\ create_pc = "walk"
      /\ iterator \in queue
      /\ UNCHANGED <<processes_list, current_process, queue, allocated,
                     in_irq, halted, procVars, cpuVars, localVars, creating,
                     next_pid, heap_lock>>
  BY DEF IInv, ListInv, NothingLost, CreateInv, process_add_walk, InProcess
<1>b. \/ /\ next[iterator] \in queue /\ iterator' = next[iterator]
         /\ create_pc' = "walk"
      \/ next[iterator] = NULL /\ iterator' = iterator /\ create_pc' = "link"
  BY <1>a DEF IInv, ListInv, ListIntact, process_add_walk
<1>c. iterator' \in queue /\ create_pc' \in {"walk", "link"}
  BY <1>a, <1>b
<1>1. TypeOK'
  <2>1. (/\ processes_list \in PidOrNull /\ current_process \in PidOrNull
        /\ cursor \in PidOrNull /\ creating \in PidOrNull
        /\ iterator \in PidOrNull)'
    BY <1>a, <1>c, Constants DEF IInv, TypeOK, procVars, cpuVars, localVars,
         createVars
  <2>2. (next_pid \in 1 .. MaxPid + 1)'
    BY <1>a, <1>c, Constants DEF IInv, TypeOK, procVars, cpuVars, localVars,
         createVars
  <2>3. (next \in [Pid -> PidOrNull] /\ context \in [Pid -> PidOrNull])'
    BY <1>a, <1>c, Constants DEF IInv, TypeOK, procVars, cpuVars, localVars,
         createVars
  <2>4. (status \in [Pid -> Status])'
    BY <1>a, <1>c, Constants DEF IInv, TypeOK, Status, procVars, cpuVars,
         localVars, createVars
  <2>5. (remaining_quantum \in [Pid -> 0 .. Quantum])'
    BY <1>a, <1>c, Constants DEF IInv, TypeOK, procVars, cpuVars, localVars,
         createVars
  <2>6. (allocated \subseteq Pid /\ queue \subseteq Pid)'
    BY <1>a, <1>c, Constants DEF IInv, TypeOK, procVars, cpuVars, localVars,
         createVars
  <2>7. (cpu \in PidOrNull /\ cr3 \in PidOrNull /\ rsp0 \in PidOrNull)'
    BY <1>a, <1>c, Constants DEF IInv, TypeOK, procVars, cpuVars, localVars,
         createVars
  <2>8. (in_irq \in BOOLEAN /\ process_switched \in BOOLEAN)'
    BY <1>a, <1>c, Constants DEF IInv, TypeOK, procVars, cpuVars, localVars,
         createVars
  <2>9. (create_pc \in CreatePcs /\ heap_lock \in PidOrNull /\ halted \in Halt)'
    BY <1>a, <1>c, Constants DEF IInv, TypeOK, CreatePcs, Halt, procVars, cpuVars, localVars,
         createVars
  <2> QED BY <2>1, <2>2, <2>3, <2>4, <2>5, <2>6, <2>7, <2>8, <2>9, Zenon DEF TypeOK
<1>2. (halted \in {"no", "page fault", "hung"})'
  BY <1>a, <1>c, Constants DEF IInv, TypeOK, procVars, cpuVars, localVars,
       createVars
<1>3. ListInv'
  <2>1. ListIntact'
    BY <1>a, <1>c, Constants DEF IInv, TypeOK, ListInv, ListIntact, procVars,
         cpuVars, localVars, createVars
  <2>2. NothingLost'
    BY <1>a, <1>c, Constants DEF IInv, TypeOK, ListInv, NothingLost, procVars,
         cpuVars, localVars, createVars
  <2>3. (/\ PROMPT \in queue /\ queue \subseteq allocated
         /\ \A p \in allocated : p < next_pid)'
    BY <1>a, <1>c, Constants DEF IInv, TypeOK, ListInv, procVars, cpuVars,
         localVars, createVars
  <2> QED BY <2>1, <2>2, <2>3 DEF ListInv
<1>4. PredInv'
  BY <1>a, <1>c, Constants DEF IInv, TypeOK, ListInv, PredInv, procVars,
       cpuVars, localVars, createVars
<1>5. CreateInv'
  BY <1>a, <1>b, <1>c, Constants
     DEF IInv, TypeOK, CreateInv, procVars
<1>6. ProcInv'
  BY <1>a, <1>c, Constants DEF IInv, TypeOK, ListInv, ProcInv, procVars,
       cpuVars, localVars, createVars
<1>7. CpuInv'
  BY <1>a, <1>c, Constants DEF IInv, TypeOK, ListInv, CpuInv, procVars,
       cpuVars, localVars, createVars
<1>8. IrqInv'
  BY <1>a, <1>c, Constants DEF IInv, TypeOK, ListInv, IrqInv, procVars,
       cpuVars, localVars, createVars
<1> QED BY <1>1, <1>2, <1>3, <1>4, <1>5, <1>6, <1>7, <1>8, Zenon DEF IInv

\* The new PCB goes behind the tail.
LEMMA AddLinkStep == ASSUME IInv, process_add_link PROVE IInv'
<1> SUFFICES ASSUME ~PageFault PROVE IInv'
  BY FaultStep, Zenon DEF process_add_link, InProcess
<1>a. /\ halted = "no" /\ ~in_irq /\ create_pc = "link"
      /\ iterator \in queue /\ next[iterator] = NULL
      /\ next' = [next EXCEPT ![iterator] = creating]
      /\ queue' = queue \union {creating}
      /\ create_pc' = "none"
      /\ UNCHANGED <<processes_list, current_process, allocated, in_irq,
                     halted, status, remaining_quantum, context,
                     cpuVars, localVars, creating, iterator, next_pid,
                     heap_lock>>
  BY DEF IInv, ListInv, NothingLost, CreateInv, process_add_link, InProcess
<1>b. /\ creating \in Pid /\ creating \in allocated /\ creating \notin queue
      /\ next[creating] = NULL /\ context[creating] = creating
      /\ status[creating] = "READY"
      /\ creating # current_process
      /\ \A q \in queue : q < creating
  BY <1>a, Constants DEF IInv, TypeOK, ListInv, CreateInv, CpuInv, Pid
<1>1. TypeOK'
  <2>1. (/\ processes_list \in PidOrNull /\ current_process \in PidOrNull
        /\ cursor \in PidOrNull /\ creating \in PidOrNull
        /\ iterator \in PidOrNull)'
    BY <1>a, <1>b, Constants DEF IInv, TypeOK, procVars, cpuVars, localVars,
         createVars
  <2>2. (next_pid \in 1 .. MaxPid + 1)'
    BY <1>a, <1>b, Constants DEF IInv, TypeOK, procVars, cpuVars, localVars,
         createVars
  <2>3. (next \in [Pid -> PidOrNull] /\ context \in [Pid -> PidOrNull])'
    BY <1>a, <1>b, Constants DEF IInv, TypeOK, procVars, cpuVars, localVars,
         createVars
  <2>4. (status \in [Pid -> Status])'
    BY <1>a, <1>b, Constants DEF IInv, TypeOK, Status, procVars, cpuVars,
         localVars, createVars
  <2>5. (remaining_quantum \in [Pid -> 0 .. Quantum])'
    BY <1>a, <1>b, Constants DEF IInv, TypeOK, procVars, cpuVars, localVars,
         createVars
  <2>6. (allocated \subseteq Pid /\ queue \subseteq Pid)'
    BY <1>a, <1>b, Constants DEF IInv, TypeOK, procVars, cpuVars, localVars,
         createVars
  <2>7. (cpu \in PidOrNull /\ cr3 \in PidOrNull /\ rsp0 \in PidOrNull)'
    BY <1>a, <1>b, Constants DEF IInv, TypeOK, procVars, cpuVars, localVars,
         createVars
  <2>8. (in_irq \in BOOLEAN /\ process_switched \in BOOLEAN)'
    BY <1>a, <1>b, Constants DEF IInv, TypeOK, procVars, cpuVars, localVars,
         createVars
  <2>9. (create_pc \in CreatePcs /\ heap_lock \in PidOrNull /\ halted \in Halt)'
    BY <1>a, <1>b, Constants DEF IInv, TypeOK, CreatePcs, Halt, procVars, cpuVars, localVars,
         createVars
  <2> QED BY <2>1, <2>2, <2>3, <2>4, <2>5, <2>6, <2>7, <2>8, <2>9, Zenon DEF TypeOK
<1>2. (halted \in {"no", "page fault", "hung"})'
  BY <1>a, <1>b, Constants DEF IInv, TypeOK, procVars, cpuVars, localVars,
       createVars
<1>3. ListInv'
  <2>1. ListIntact'
    <3>1. \A q \in queue : q <= iterator
      BY <1>a, Constants DEF IInv, ListInv, ListIntact, TypeOK, Pid, NULL
    <3>2. \A p \in queue \ {iterator} : next'[p] = next[p] /\ next[p] # NULL
      <4> SUFFICES ASSUME NEW p \in queue, p # iterator
                   PROVE  next'[p] = next[p] /\ next[p] # NULL
        OBVIOUS
      <4>1. p \in Int /\ iterator \in Int
        BY <1>a, Constants DEF IInv, TypeOK
      <4>2. ~(\A q \in queue : q <= p)
        <5>1. iterator \in queue /\ p <= iterator
          BY <1>a, <3>1, Zenon
        <5>2. ~(iterator <= p)
          BY <4>1, <5>1
        <5> QED BY <5>1, <5>2, Zenon
      <4>3. next[p] # NULL
        BY <4>2, Constants, Zenon DEF IInv, TypeOK, ListInv, ListIntact
      <4> QED BY <1>a, <4>3 DEF IInv, TypeOK
    <3>3. next'[iterator] = creating /\ next'[creating] = NULL
      BY <1>a, <1>b, Constants DEF IInv, TypeOK
    <3>4. \A r \in queue : r \in Int
      BY Constants, Zenon DEF IInv, TypeOK
    <3>5. ASSUME NEW p \in queue'
          PROVE  \/ next'[p] = NULL /\ \A r \in queue' : r <= p
                 \/ /\ next'[p] \in queue' /\ next'[p] > p
                    /\ \A r \in queue' : r <= p \/ r >= next'[p]
      <4>1. CASE p = creating
        BY <1>a, <1>b, <3>3, <3>4, <4>1, Constants
      <4>2. CASE p = iterator
        BY <1>a, <1>b, <3>1, <3>3, <3>4, <4>2, Constants
      <4>3. CASE p \in queue /\ p # iterator
        <5>1. /\ next'[p] = next[p] /\ next[p] \in queue /\ next[p] > p
              /\ \A r \in queue : r <= p \/ r >= next[p]
          BY <3>2, <4>3, Zenon DEF IInv, ListInv, ListIntact
        <5> QED BY <1>a, <1>b, <3>4, <5>1, Constants
      <4> QED BY <1>a, <4>1, <4>2, <4>3
    <3> QED BY <1>a, <3>5 DEF IInv, ListInv, ListIntact
  <2>2. NothingLost'
    BY <1>a, <1>b, Constants DEF IInv, TypeOK, ListInv, NothingLost, procVars,
         cpuVars, localVars, createVars
  <2>3. (/\ PROMPT \in queue /\ queue \subseteq allocated
         /\ \A p \in allocated : p < next_pid)'
    BY <1>a, <1>b, Constants DEF IInv, TypeOK, ListInv, procVars, cpuVars,
         localVars, createVars
  <2> QED BY <2>1, <2>2, <2>3 DEF ListInv
<1>4. PredInv'
  BY <1>a, <1>b, Constants DEF IInv, TypeOK, ListInv, PredInv, procVars,
       cpuVars, localVars, createVars
<1>5. CreateInv'
  BY <1>a, <1>b, Constants DEF IInv, TypeOK, CreateInv, procVars, cpuVars,
       localVars, createVars
<1>6. ProcInv'
  BY <1>a, <1>b, Constants DEF IInv, TypeOK, ListInv, ProcInv, procVars,
       cpuVars, localVars, createVars
<1>7. CpuInv'
  BY <1>a, <1>b, Constants DEF IInv, TypeOK, ListInv, CpuInv, procVars,
       cpuVars, localVars, createVars
<1>8. IrqInv'
  BY <1>a, <1>b, Constants DEF IInv, TypeOK, ListInv, IrqInv, procVars,
       cpuVars, localVars, createVars
<1> QED BY <1>1, <1>2, <1>3, <1>4, <1>5, <1>6, <1>7, <1>8, Zenon DEF IInv

\* The first iteration of the loop looks at the interrupted process.
LEMMA TickStep == ASSUME IInv, Tick PROVE IInv'
<1>a. /\ halted = "no" /\ in_irq = FALSE /\ in_irq' = TRUE
      /\ process_switched' = FALSE
      /\ current_process' = (IF current_process = NULL THEN IDLE
                                                       ELSE current_process)
      /\ cursor' = current_process'
      /\ UNCHANGED <<processes_list, queue, allocated, halted, next, status,
                     remaining_quantum, context, cpuVars, createVars>>
  <2>1. in_irq = FALSE /\ in_irq' = TRUE /\ process_switched' = FALSE
    BY Zenon DEF IInv, TypeOK, Tick
  <2>2. processes_list = IDLE /\ processes_list # NULL
    BY Constants, Zenon DEF IInv, ListInv, ListIntact
  <2> QED BY <2>1, <2>2 DEF Tick, procVars
<1>b. IDLE \in queue /\ \A p \in queue : p >= IDLE /\ p > NULL
  BY Constants, Zenon DEF IInv, TypeOK, ListInv, ListIntact
<1>1. TypeOK'
  <2>1. (/\ processes_list \in PidOrNull /\ current_process \in PidOrNull
        /\ cursor \in PidOrNull /\ creating \in PidOrNull
        /\ iterator \in PidOrNull)'
    BY <1>a, <1>b, Constants DEF IInv, TypeOK, procVars, cpuVars, localVars,
         createVars
  <2>2. (next_pid \in 1 .. MaxPid + 1)'
    BY <1>a, <1>b, Constants DEF IInv, TypeOK, procVars, cpuVars, localVars,
         createVars
  <2>3. (next \in [Pid -> PidOrNull] /\ context \in [Pid -> PidOrNull])'
    BY <1>a, <1>b, Constants DEF IInv, TypeOK, procVars, cpuVars, localVars,
         createVars
  <2>4. (status \in [Pid -> Status])'
    BY <1>a, <1>b, Constants DEF IInv, TypeOK, Status, procVars, cpuVars,
         localVars, createVars
  <2>5. (remaining_quantum \in [Pid -> 0 .. Quantum])'
    BY <1>a, <1>b, Constants DEF IInv, TypeOK, procVars, cpuVars, localVars,
         createVars
  <2>6. (allocated \subseteq Pid /\ queue \subseteq Pid)'
    BY <1>a, <1>b, Constants DEF IInv, TypeOK, procVars, cpuVars, localVars,
         createVars
  <2>7. (cpu \in PidOrNull /\ cr3 \in PidOrNull /\ rsp0 \in PidOrNull)'
    BY <1>a, <1>b, Constants DEF IInv, TypeOK, procVars, cpuVars, localVars,
         createVars
  <2>8. (in_irq \in BOOLEAN /\ process_switched \in BOOLEAN)'
    BY <1>a, <1>b, Constants, Zenon DEF IInv, TypeOK, procVars, cpuVars, localVars,
         createVars
  <2>9. (create_pc \in CreatePcs /\ heap_lock \in PidOrNull /\ halted \in Halt)'
    BY <1>a, <1>b, Constants DEF IInv, TypeOK, CreatePcs, Halt, procVars, cpuVars, localVars,
         createVars
  <2> QED BY <2>1, <2>2, <2>3, <2>4, <2>5, <2>6, <2>7, <2>8, <2>9, Zenon DEF TypeOK
<1>2. (halted \in {"no", "page fault", "hung"})'
  BY <1>a, <1>b, Constants DEF IInv, TypeOK, procVars, cpuVars, localVars,
       createVars
<1>3. ListInv'
  <2>1. ListIntact'
    BY <1>a, <1>b, Constants DEF IInv, TypeOK, ListInv, ListIntact, procVars,
         cpuVars, localVars, createVars
  <2>2. NothingLost'
    BY <1>a, <1>b, Constants DEF IInv, TypeOK, ListInv, NothingLost, procVars,
         cpuVars, localVars, createVars
  <2>3. (/\ PROMPT \in queue /\ queue \subseteq allocated
         /\ \A p \in allocated : p < next_pid)'
    BY <1>a, <1>b, Constants DEF IInv, TypeOK, ListInv, procVars, cpuVars,
         localVars, createVars
  <2> QED BY <2>1, <2>2, <2>3 DEF ListInv
<1>4. PredInv'
  BY <1>a, <1>b, Constants DEF IInv, TypeOK, ListInv, PredInv, procVars,
       cpuVars, localVars, createVars
<1>5. CreateInv'
  BY <1>a, <1>b, Constants DEF IInv, TypeOK, CreateInv, procVars, cpuVars,
       localVars, createVars
<1>6. ProcInv'
  BY <1>a, <1>b, Constants DEF IInv, TypeOK, ListInv, ProcInv, procVars,
       cpuVars, localVars, createVars
<1>7. CpuInv'
  BY <1>a, <1>b, Constants DEF IInv, TypeOK, ListInv, CpuInv, procVars,
       cpuVars, localVars, createVars
<1>8. IrqInv'
  BY <1>a, <1>b, Constants DEF IInv, TypeOK, ListInv, IrqInv, ProcInv, CpuInv,
       IsTurnAfter, procVars, cpuVars, localVars, createVars
<1> QED BY <1>1, <1>2, <1>3, <1>4, <1>5, <1>6, <1>7, <1>8, Zenon DEF IInv

\* A READY process gets the machine.
LEMMA StopStep == ASSUME IInv, schedule_stop PROVE IInv'
<1>a. /\ halted = "no" /\ in_irq = TRUE /\ in_irq' = FALSE
      /\ cursor \in queue /\ cursor \in Pid
      /\ status[cursor] = "READY" /\ context[cursor] = cursor
      /\ current_process \in queue
      /\ current_process # cursor => status[current_process] = "READY"
  BY Constants DEF IInv, TypeOK, ProcInv, CpuInv, IrqInv, schedule_stop,
                   Scheduling, Dispatch
<1>b. /\ current_process' = cursor /\ cpu' = cursor
      /\ cr3' = cursor /\ rsp0' = cursor
      /\ status' = [status EXCEPT ![cursor] = "RUNNING"]
      /\ remaining_quantum' = [remaining_quantum EXCEPT ![cursor] = Quantum]
      /\ cursor' = NULL /\ process_switched' = FALSE
      /\ UNCHANGED <<processes_list, queue, allocated, halted, next, context,
                     createVars>>
  BY <1>a DEF schedule_stop, Dispatch, SetsSwitched
<1>1. TypeOK'
  <2>1. (/\ processes_list \in PidOrNull /\ current_process \in PidOrNull
        /\ cursor \in PidOrNull /\ creating \in PidOrNull
        /\ iterator \in PidOrNull)'
    BY <1>a, <1>b, Constants DEF IInv, TypeOK, procVars, cpuVars, localVars,
         createVars
  <2>2. (next_pid \in 1 .. MaxPid + 1)'
    BY <1>a, <1>b, Constants DEF IInv, TypeOK, procVars, cpuVars, localVars,
         createVars
  <2>3. (next \in [Pid -> PidOrNull] /\ context \in [Pid -> PidOrNull])'
    BY <1>a, <1>b, Constants DEF IInv, TypeOK, procVars, cpuVars, localVars,
         createVars
  <2>4. (status \in [Pid -> Status])'
    BY <1>a, <1>b, Constants DEF IInv, TypeOK, Status, procVars, cpuVars,
         localVars, createVars
  <2>5. (remaining_quantum \in [Pid -> 0 .. Quantum])'
    BY <1>a, <1>b, Constants DEF IInv, TypeOK, procVars, cpuVars, localVars,
         createVars
  <2>6. (allocated \subseteq Pid /\ queue \subseteq Pid)'
    BY <1>a, <1>b, Constants DEF IInv, TypeOK, procVars, cpuVars, localVars,
         createVars
  <2>7. (cpu \in PidOrNull /\ cr3 \in PidOrNull /\ rsp0 \in PidOrNull)'
    BY <1>a, <1>b, Constants DEF IInv, TypeOK, procVars, cpuVars, localVars,
         createVars
  <2>8. (in_irq \in BOOLEAN /\ process_switched \in BOOLEAN)'
    BY <1>a, <1>b, Constants, Zenon DEF IInv, TypeOK, procVars, cpuVars, localVars,
         createVars
  <2>9. (create_pc \in CreatePcs /\ heap_lock \in PidOrNull /\ halted \in Halt)'
    BY <1>a, <1>b, Constants DEF IInv, TypeOK, CreatePcs, Halt, procVars, cpuVars, localVars,
         createVars
  <2> QED BY <2>1, <2>2, <2>3, <2>4, <2>5, <2>6, <2>7, <2>8, <2>9, Zenon DEF TypeOK
<1>2. (halted \in {"no", "page fault", "hung"})'
  BY <1>a, <1>b, Constants DEF IInv, TypeOK, procVars, cpuVars, localVars,
       createVars
<1>3. ListInv'
  <2>1. ListIntact'
    BY <1>a, <1>b, Constants DEF IInv, TypeOK, ListInv, ListIntact, procVars,
         cpuVars, localVars, createVars
  <2>2. NothingLost'
    BY <1>a, <1>b, Constants DEF IInv, TypeOK, ListInv, NothingLost, procVars,
         cpuVars, localVars, createVars
  <2>3. (/\ PROMPT \in queue /\ queue \subseteq allocated
         /\ \A p \in allocated : p < next_pid)'
    BY <1>a, <1>b, Constants DEF IInv, TypeOK, ListInv, procVars, cpuVars,
         localVars, createVars
  <2> QED BY <2>1, <2>2, <2>3 DEF ListInv
<1>4. PredInv'
  BY <1>a, <1>b, Constants DEF IInv, TypeOK, ListInv, PredInv, procVars,
       cpuVars, localVars, createVars
<1>5. CreateInv'
  BY <1>a, <1>b, Constants DEF IInv, TypeOK, CreateInv, ListInv, procVars,
       cpuVars, localVars, createVars
<1>6. ProcInv'
  BY <1>a, <1>b, Constants DEF IInv, TypeOK, ListInv, ProcInv, procVars,
       cpuVars, localVars, createVars
<1>7. CpuInv'
  BY <1>a, <1>b, Constants DEF IInv, TypeOK, ListInv, CpuInv, procVars,
       cpuVars, localVars, createVars
<1>8. IrqInv'
  BY <1>a, <1>b, Constants DEF IInv, TypeOK, ListInv, IrqInv, procVars,
       cpuVars, localVars, createVars
<1> QED BY <1>1, <1>2, <1>3, <1>4, <1>5, <1>6, <1>7, <1>8, Zenon DEF IInv

\* The interrupted process goes on.
LEMMA KeepStep == ASSUME IInv, schedule_keep PROVE IInv'
<1>a. /\ halted = "no" /\ in_irq = TRUE /\ in_irq' = FALSE
      /\ cursor \in queue /\ cursor \in Pid /\ status[cursor] = "RUNNING"
      /\ cursor = current_process /\ cursor = cpu
      /\ cr3 = cursor /\ rsp0 = cursor
  BY Constants DEF IInv, TypeOK, ProcInv, CpuInv, IrqInv, schedule_keep,
                   Scheduling, Dispatch
<1>b. PICK n \in 1 .. Quantum :
        remaining_quantum' = [remaining_quantum EXCEPT ![cursor] = n]
  <2>1. remaining_quantum[cursor] \in 0 .. Quantum
    BY <1>a DEF IInv, TypeOK
  <2>2. remaining_quantum[cursor] - 1 \in 1 .. Quantum
    BY <2>1, SchedulerAssumption DEF schedule_keep, QuantumLeft
  <2> QED BY <2>2, Constants, Zenon DEF schedule_keep, Dispatch
<1>c. /\ current_process' = cursor /\ cpu' = cursor
      /\ cr3' = cursor /\ rsp0' = cursor
      /\ status' = [status EXCEPT ![cursor] = "RUNNING"]
      /\ context' = [context EXCEPT ![cursor] = cursor]
      /\ cursor' = NULL /\ process_switched' = FALSE
      /\ UNCHANGED <<processes_list, queue, allocated, halted, next,
                     createVars>>
  BY <1>a DEF schedule_keep, Dispatch
<1>d. n \in 0 .. Quantum /\ n > 0
  BY SchedulerAssumption
<1>1. TypeOK'
  <2>1. (/\ processes_list \in PidOrNull /\ current_process \in PidOrNull
        /\ cursor \in PidOrNull /\ creating \in PidOrNull
        /\ iterator \in PidOrNull)'
    BY <1>a, <1>b, <1>c, <1>d, Constants DEF IInv, TypeOK, procVars, cpuVars,
         localVars, createVars
  <2>2. (next_pid \in 1 .. MaxPid + 1)'
    BY <1>a, <1>b, <1>c, <1>d, Constants DEF IInv, TypeOK, procVars, cpuVars,
         localVars, createVars
  <2>3. (next \in [Pid -> PidOrNull] /\ context \in [Pid -> PidOrNull])'
    BY <1>a, <1>b, <1>c, <1>d, Constants DEF IInv, TypeOK, procVars, cpuVars,
         localVars, createVars
  <2>4. (status \in [Pid -> Status])'
    BY <1>a, <1>b, <1>c, <1>d, Constants DEF IInv, TypeOK, Status, procVars,
         cpuVars, localVars, createVars
  <2>5. (remaining_quantum \in [Pid -> 0 .. Quantum])'
    BY <1>a, <1>b, <1>c, <1>d, Constants DEF IInv, TypeOK, procVars, cpuVars,
         localVars, createVars
  <2>6. (allocated \subseteq Pid /\ queue \subseteq Pid)'
    BY <1>a, <1>b, <1>c, <1>d, Constants DEF IInv, TypeOK, procVars, cpuVars,
         localVars, createVars
  <2>7. (cpu \in PidOrNull /\ cr3 \in PidOrNull /\ rsp0 \in PidOrNull)'
    BY <1>a, <1>b, <1>c, <1>d, Constants DEF IInv, TypeOK, procVars, cpuVars,
         localVars, createVars
  <2>8. (in_irq \in BOOLEAN /\ process_switched \in BOOLEAN)'
    BY <1>a, <1>b, <1>c, <1>d, Constants, Zenon DEF IInv, TypeOK, procVars, cpuVars,
         localVars, createVars
  <2>9. (create_pc \in CreatePcs /\ heap_lock \in PidOrNull /\ halted \in Halt)'
    BY <1>a, <1>b, <1>c, <1>d, Constants DEF IInv, TypeOK, CreatePcs, Halt, procVars, cpuVars,
         localVars, createVars
  <2> QED BY <2>1, <2>2, <2>3, <2>4, <2>5, <2>6, <2>7, <2>8, <2>9, Zenon DEF TypeOK
<1>2. (halted \in {"no", "page fault", "hung"})'
  BY <1>a, <1>b, <1>c, <1>d, Constants DEF IInv, TypeOK, procVars, cpuVars,
       localVars, createVars
<1>3. ListInv'
  <2>1. ListIntact'
    BY <1>a, <1>b, <1>c, <1>d, Constants DEF IInv, TypeOK, ListInv,
         ListIntact, procVars, cpuVars, localVars, createVars
  <2>2. NothingLost'
    BY <1>a, <1>b, <1>c, <1>d, Constants DEF IInv, TypeOK, ListInv,
         NothingLost, procVars, cpuVars, localVars, createVars
  <2>3. (/\ PROMPT \in queue /\ queue \subseteq allocated
         /\ \A p \in allocated : p < next_pid)'
    BY <1>a, <1>b, <1>c, <1>d, Constants DEF IInv, TypeOK, ListInv, procVars,
         cpuVars, localVars, createVars
  <2> QED BY <2>1, <2>2, <2>3 DEF ListInv
<1>4. PredInv'
  BY <1>a, <1>b, <1>c, <1>d, Constants DEF IInv, TypeOK, ListInv, PredInv,
       procVars, cpuVars, localVars, createVars
<1>5. CreateInv'
  BY <1>a, <1>b, <1>c, <1>d, Constants DEF IInv, TypeOK, CreateInv, ListInv,
       procVars, cpuVars, localVars, createVars
<1>6. ProcInv'
  BY <1>a, <1>b, <1>c, <1>d, Constants DEF IInv, TypeOK, ListInv, ProcInv,
       procVars, cpuVars, localVars, createVars
<1>7. CpuInv'
  BY <1>a, <1>b, <1>c, <1>d, Constants DEF IInv, TypeOK, ListInv, CpuInv,
       procVars, cpuVars, localVars, createVars
<1>8. IrqInv'
  BY <1>a, <1>b, <1>c, <1>d, Constants DEF IInv, TypeOK, ListInv, IrqInv,
       procVars, cpuVars, localVars, createVars
<1> QED BY <1>1, <1>2, <1>3, <1>4, <1>5, <1>6, <1>7, <1>8, Zenon DEF IInv

\* The next in the list is the next in pid order.
LEMMA ExpireStep == ASSUME IInv, schedule_expire PROVE IInv'
<1>a. /\ halted = "no" /\ in_irq = TRUE
      /\ cursor \in queue /\ cursor \in Pid /\ status[cursor] = "RUNNING"
      /\ cursor = current_process /\ cursor = cpu
  BY Constants DEF IInv, TypeOK, ProcInv, CpuInv, IrqInv, schedule_expire,
                   Scheduling
<1>b. remaining_quantum[cursor] = 1
  BY <1>a, SchedulerAssumption
     DEF IInv, TypeOK, ProcInv, schedule_expire, QuantumLeft
<1>c. /\ remaining_quantum' = [remaining_quantum EXCEPT ![cursor] = 0]
      /\ context' = [context EXCEPT ![cursor] = cursor]
      /\ status' = [status EXCEPT ![cursor] = "READY"]
      /\ process_switched' = TRUE
      /\ cursor' = (IF next[cursor] # NULL THEN next[cursor] ELSE IDLE)
      /\ UNCHANGED <<processes_list, current_process, queue, allocated, in_irq,
                     halted, next, cpuVars, createVars>>
  BY <1>a, <1>b DEF IInv, ListInv, ListIntact, schedule_expire, NextInList
<1>d. cursor' \in queue /\ cursor' \in Pid /\ status'[cursor'] = "READY"
  BY <1>a, <1>c, Constants DEF IInv, TypeOK, ListInv, ListIntact, ProcInv
<1>e. IsTurnAfter(cursor, cursor')
  <2>1. \A r \in queue : r \in Int /\ IDLE <= r
    BY Constants, Zenon DEF IInv, TypeOK
  <2>2. CASE next[cursor] = NULL
    BY <1>a, <1>c, <1>d, <2>1, <2>2, Constants
       DEF IInv, TypeOK, ListInv, ListIntact, IsTurnAfter
  <2>3. CASE next[cursor] # NULL
    BY <1>a, <1>c, <1>d, <2>1, <2>3, Constants
       DEF IInv, TypeOK, ListInv, ListIntact, IsTurnAfter
  <2> QED BY <2>2, <2>3
<1>1. TypeOK'
  <2>1. (/\ processes_list \in PidOrNull /\ current_process \in PidOrNull
        /\ cursor \in PidOrNull /\ creating \in PidOrNull
        /\ iterator \in PidOrNull)'
    BY <1>a, <1>c, <1>d, Constants, Zenon DEF IInv, TypeOK, procVars, cpuVars,
         localVars, createVars
  <2>2. (next_pid \in 1 .. MaxPid + 1)'
    BY <1>a, <1>c, <1>d, Constants DEF IInv, TypeOK, procVars, cpuVars,
         localVars, createVars
  <2>3. (next \in [Pid -> PidOrNull] /\ context \in [Pid -> PidOrNull])'
    BY <1>a, <1>c, <1>d, Constants DEF IInv, TypeOK, procVars, cpuVars,
         localVars, createVars
  <2>4. (status \in [Pid -> Status])'
    BY <1>a, <1>c, <1>d, Constants DEF IInv, TypeOK, Status, procVars,
         cpuVars, localVars, createVars
  <2>5. (remaining_quantum \in [Pid -> 0 .. Quantum])'
    BY <1>a, <1>c, <1>d, Constants DEF IInv, TypeOK, procVars, cpuVars,
         localVars, createVars
  <2>6. (allocated \subseteq Pid /\ queue \subseteq Pid)'
    BY <1>a, <1>c, <1>d, Constants DEF IInv, TypeOK, procVars, cpuVars,
         localVars, createVars
  <2>7. (cpu \in PidOrNull /\ cr3 \in PidOrNull /\ rsp0 \in PidOrNull)'
    BY <1>a, <1>c, <1>d, Constants DEF IInv, TypeOK, procVars, cpuVars,
         localVars, createVars
  <2>8. (in_irq \in BOOLEAN /\ process_switched \in BOOLEAN)'
    BY <1>a, <1>c, <1>d, Constants DEF IInv, TypeOK, procVars, cpuVars,
         localVars, createVars
  <2>9. (create_pc \in CreatePcs /\ heap_lock \in PidOrNull /\ halted \in Halt)'
    BY <1>a, <1>c, <1>d, Constants DEF IInv, TypeOK, CreatePcs, Halt, procVars, cpuVars,
         localVars, createVars
  <2> QED BY <2>1, <2>2, <2>3, <2>4, <2>5, <2>6, <2>7, <2>8, <2>9, Zenon DEF TypeOK
<1>2. (halted \in {"no", "page fault", "hung"})'
  BY <1>a, <1>c, <1>d, Constants DEF IInv, TypeOK, procVars, cpuVars,
       localVars, createVars
<1>3. ListInv'
  <2>1. ListIntact'
    BY <1>a, <1>c, <1>d, Constants DEF IInv, TypeOK, ListInv, ListIntact,
         procVars, cpuVars, localVars, createVars
  <2>2. NothingLost'
    BY <1>a, <1>c, <1>d, Constants DEF IInv, TypeOK, ListInv, NothingLost,
         procVars, cpuVars, localVars, createVars
  <2>3. (/\ PROMPT \in queue /\ queue \subseteq allocated
         /\ \A p \in allocated : p < next_pid)'
    BY <1>a, <1>c, <1>d, Constants DEF IInv, TypeOK, ListInv, procVars,
         cpuVars, localVars, createVars
  <2> QED BY <2>1, <2>2, <2>3 DEF ListInv
<1>4. PredInv'
  BY <1>a, <1>c, <1>d, Constants DEF IInv, TypeOK, ListInv, PredInv, procVars,
       cpuVars, localVars, createVars
<1>5. CreateInv'
  BY <1>a, <1>c, <1>d, Constants DEF IInv, TypeOK, CreateInv, ListInv,
       procVars, cpuVars, localVars, createVars
<1>6. ProcInv'
  BY <1>a, <1>c, <1>d, Constants DEF IInv, TypeOK, ListInv, ProcInv, procVars,
       cpuVars, localVars, createVars
<1>7. CpuInv'
  BY <1>a, <1>c, <1>d, Constants, Zenon DEF IInv, TypeOK, ListInv, CpuInv, procVars,
       cpuVars, localVars, createVars
<1>8. IrqInv'
  BY <1>a, <1>c, <1>d, <1>e, Constants, Zenon
     DEF IInv, TypeOK, IrqInv, IsTurnAfter, cpuVars
<1> QED BY <1>1, <1>2, <1>3, <1>4, <1>5, <1>6, <1>7, <1>8, Zenon DEF IInv

\* The deleted process is the current one and has a predecessor, because it is
\* not the idle process.
LEMMA DeleteStep == ASSUME IInv, schedule_delete PROVE IInv'
<1>a. /\ halted = "no" /\ in_irq = TRUE /\ status[cursor] = "DEAD"
      /\ cursor = current_process /\ cursor = cpu /\ cursor \in Pid
      /\ cursor \in queue /\ cursor # IDLE /\ cursor # PROMPT
      /\ processes_list = IDLE
  BY Constants, Zenon DEF IInv, TypeOK, ListInv, ListIntact, ProcInv, CpuInv, IrqInv,
                   schedule_delete, Scheduling
<1>b. PICK q \in queue : next[q] = cursor
  BY <1>a DEF IInv, PredInv
<1>c. /\ next' = Unlink(cursor)
      /\ queue' = queue \ {cursor}
      /\ current_process' = (IF next[cursor] # NULL THEN next[cursor] ELSE IDLE)
      /\ UNCHANGED <<processes_list, in_irq, status, remaining_quantum, context,
                     cpuVars, createVars>>
      /\ \/ /\ halted' = "hung"
            /\ UNCHANGED <<allocated, cursor, process_switched>>
         \/ /\ halted' = "no"
            /\ allocated' = allocated \ {cursor}
            /\ cursor' = current_process'
            /\ process_switched' = TRUE
  BY <1>a, <1>b, Constants, Zenon DEF schedule_delete, CurrentAfterDelete, FreePCB, NULL, IDLE,
                               localVars
<1>d. /\ q \in Pid /\ q < cursor /\ \A r \in queue : r <= q \/ r >= cursor
      /\ \A r \in queue : next[r] = cursor => r = q
  <2>1. cursor # NULL /\ queue \subseteq Pid /\ \A r \in queue : r \in Int
    BY <1>a, Constants, Zenon DEF IInv, TypeOK
  <2>2. ASSUME NEW r \in queue, next[r] = cursor
        PROVE  cursor > r /\ \A t \in queue : t <= r \/ t >= cursor
    BY <2>1, <2>2, Zenon DEF IInv, ListInv, ListIntact
  <2>3. ASSUME NEW r \in queue, next[r] = cursor PROVE r = q
    <3>1. /\ r < cursor /\ (q <= r \/ q >= cursor)
          /\ q < cursor /\ (r <= q \/ r >= cursor)
      BY <1>b, <2>1, <2>2, <2>3
    <3>2. r \in Int /\ q \in Int /\ cursor \in Int
      BY <1>a, <1>b, <2>1, Zenon
    <3> QED BY <3>1, <3>2
  <2>4. q < cursor /\ \A r \in queue : r <= q \/ r >= cursor
    BY <1>a, <1>b, <2>1, <2>2
  <2> QED BY <1>b, <2>1, <2>3, <2>4, Zenon
<1>e. /\ next' \in [Pid -> PidOrNull]
      /\ next'[q] = next[cursor]
      /\ \A r \in Pid \ {q} : next'[r] = next[r]
  BY <1>a, <1>b, <1>c, <1>d, Constants DEF IInv, TypeOK, Unlink
<1>f. next[cursor] # cursor /\ (next[cursor] # NULL => next[cursor] \in queue)
  BY <1>a, Constants DEF IInv, TypeOK, ListInv, ListIntact, Pid
<1>g. /\ current_process' \in queue' /\ current_process' \in Pid
      /\ cursor' \in Pid
      /\ status[current_process'] = "READY"
  BY <1>a, <1>c, <1>f, Constants DEF IInv, TypeOK, ListInv, ListIntact, ProcInv
<1>1. TypeOK'
  <2>1. (/\ processes_list \in PidOrNull /\ current_process \in PidOrNull
        /\ cursor \in PidOrNull /\ creating \in PidOrNull
        /\ iterator \in PidOrNull)'
    BY <1>a, <1>c, <1>e, <1>g, Constants DEF IInv, TypeOK, procVars, cpuVars,
         localVars, createVars
  <2>2. (next_pid \in 1 .. MaxPid + 1)'
    BY <1>a, <1>c, <1>e, <1>g, Constants DEF IInv, TypeOK, procVars, cpuVars,
         localVars, createVars
  <2>3. (next \in [Pid -> PidOrNull] /\ context \in [Pid -> PidOrNull])'
    BY <1>a, <1>c, <1>e, <1>g, Constants DEF IInv, TypeOK, procVars, cpuVars,
         localVars, createVars
  <2>4. (status \in [Pid -> Status])'
    BY <1>a, <1>c, <1>e, <1>g, Constants DEF IInv, TypeOK, Status, procVars,
         cpuVars, localVars, createVars
  <2>5. (remaining_quantum \in [Pid -> 0 .. Quantum])'
    BY <1>a, <1>c, <1>e, <1>g, Constants DEF IInv, TypeOK, procVars, cpuVars,
         localVars, createVars
  <2>6. (allocated \subseteq Pid /\ queue \subseteq Pid)'
    BY <1>a, <1>c, <1>e, <1>g, Constants DEF IInv, TypeOK, procVars, cpuVars,
         localVars, createVars
  <2>7. (cpu \in PidOrNull /\ cr3 \in PidOrNull /\ rsp0 \in PidOrNull)'
    BY <1>a, <1>c, <1>e, <1>g, Constants DEF IInv, TypeOK, procVars, cpuVars,
         localVars, createVars
  <2>8. (in_irq \in BOOLEAN /\ process_switched \in BOOLEAN)'
    BY <1>a, <1>c, <1>e, <1>g, Constants DEF IInv, TypeOK, procVars, cpuVars,
         localVars, createVars
  <2>9. (create_pc \in CreatePcs /\ heap_lock \in PidOrNull /\ halted \in Halt)'
    BY <1>a, <1>c, <1>e, <1>g, Constants DEF IInv, TypeOK, CreatePcs, Halt, procVars, cpuVars,
         localVars, createVars
  <2> QED BY <2>1, <2>2, <2>3, <2>4, <2>5, <2>6, <2>7, <2>8, <2>9, Zenon DEF TypeOK
<1>2. (halted \in {"no", "page fault", "hung"})'
  BY <1>a, <1>c, <1>e, <1>g, Constants DEF IInv, TypeOK, procVars, cpuVars,
       localVars, createVars
<1>3. ListInv'
  <2>1. ListIntact'
    <3>1. IDLE \in queue'
      BY <1>a, <1>c DEF IInv, ListInv, ListIntact
    <3>2. ASSUME NEW p \in queue', p # q
          PROVE  /\ next'[p] = next[p] /\ next[p] # cursor /\ p \in queue
      <4>1. p \in queue /\ p \in Pid
        BY <1>c, Zenon DEF IInv, TypeOK
      <4> QED BY <1>d, <1>e, <3>2, <4>1
    <3>3. next'[q] = next[cursor] /\ q \in queue'
      BY <1>b, <1>c, <1>d, <1>e, Constants DEF Pid
    <3>4. \A r \in queue : r \in Int
      BY Constants, Zenon DEF IInv, TypeOK
    <3>5. ASSUME NEW p \in queue'
          PROVE  \/ next'[p] = NULL /\ \A r \in queue' : r <= p
                 \/ /\ next'[p] \in queue' /\ next'[p] > p
                    /\ \A r \in queue' : r <= p \/ r >= next'[p]
      <4>1. CASE p = q
        <5>1. CASE next[cursor] = NULL
          <6>1. \A r \in queue : r <= cursor
            BY <1>a, <5>1, Constants DEF IInv, TypeOK, ListInv, ListIntact
          <6>2. \A r \in queue' : r <= q
            <7> SUFFICES ASSUME NEW r \in queue' PROVE r <= q
              OBVIOUS
            <7>1. r \in queue /\ r # cursor
              BY <1>c
            <7>2. /\ r \in Int /\ q \in Int /\ cursor \in Int
                  /\ r <= cursor /\ (r <= q \/ r >= cursor)
              BY <1>a, <1>b, <1>d, <3>4, <6>1, <7>1, Zenon
            <7> QED BY <7>1, <7>2
          <6> QED BY <3>3, <4>1, <5>1, <6>2
        <5>2. CASE next[cursor] # NULL
          <6>1. /\ next[cursor] \in queue /\ next[cursor] > cursor
                /\ \A r \in queue : r <= cursor \/ r >= next[cursor]
            BY <1>a, <5>2 DEF IInv, ListInv, ListIntact
          <6>2. next[cursor] \in queue' /\ next[cursor] > q
            BY <1>a, <1>b, <1>c, <1>d, <1>f, <3>4, <6>1
          <6>3. \A r \in queue' : r <= q \/ r >= next[cursor]
            BY <1>a, <1>b, <1>c, <1>d, <3>4, <6>1
          <6> QED BY <3>3, <4>1, <6>2, <6>3
        <5> QED BY <5>1, <5>2
      <4>2. CASE p # q
        BY <1>c, <3>2, <3>5, <4>2, Zenon DEF IInv, ListInv, ListIntact
      <4> QED BY <4>1, <4>2
    <3> QED BY <1>a, <1>c, <3>1, <3>5 DEF ListIntact
  <2>2. NothingLost'
    BY <1>a, <1>c, <1>e, <1>g, Constants DEF IInv, TypeOK, ListInv,
         NothingLost, procVars, cpuVars, localVars, createVars
  <2>3. (/\ PROMPT \in queue /\ queue \subseteq allocated
         /\ \A p \in allocated : p < next_pid)'
    BY <1>a, <1>c, <1>e, <1>g, Constants DEF IInv, TypeOK, ListInv, procVars,
         cpuVars, localVars, createVars
  <2> QED BY <2>1, <2>2, <2>3 DEF ListInv
<1>4. PredInv'
  <2> SUFFICES ASSUME NEW p \in queue, p # cursor, p # IDLE
               PROVE  \E r \in queue \ {cursor} : next'[r] = p
    BY <1>c, Zenon DEF PredInv
  <2>1. PICK r \in queue : next[r] = p
    BY Zenon DEF IInv, PredInv
  <2>2. queue \subseteq Pid /\ q # cursor
    <3>1. queue \subseteq Pid
      BY Zenon DEF IInv, TypeOK
    <3>2. q # cursor
      <4>1. q \in Int /\ q < cursor
        BY <1>d, Constants, Zenon
      <4> QED BY <4>1
    <3> QED BY <3>1, <3>2, Zenon
  <2>3. CASE r = cursor
    BY <1>b, <1>e, <2>1, <2>2, <2>3, Zenon
  <2>4. CASE r # cursor
    BY <1>b, <1>e, <2>1, <2>2, <2>4, Zenon
  <2> QED BY <2>3, <2>4, Zenon
<1>5. CreateInv'
  BY <1>a, <1>b, <1>c, <1>d, <1>e, Constants
     DEF IInv, TypeOK, ListInv, CreateInv, createVars
<1>6. ProcInv'
  BY <1>a, <1>c, <1>e, <1>g, Constants DEF IInv, TypeOK, ListInv, ProcInv,
       procVars, cpuVars, localVars, createVars
<1>7. CpuInv'
  BY <1>a, <1>c, <1>e, <1>g, Constants DEF IInv, TypeOK, ListInv, CpuInv,
       procVars, cpuVars, localVars, createVars
<1>8. IrqInv'
  <2> SUFFICES ASSUME halted' # "hung" PROVE IrqInv'
    BY Zenon DEF IrqInv
  <2>1. cursor' = current_process' /\ halted = "no"
    BY <1>a, <1>c, Zenon
  <2>2. IsTurnAfter(cpu, cursor)'
    <3>1. \A r \in queue : r \in Int /\ IDLE <= r
      BY Constants, Zenon DEF IInv, TypeOK
    <3>2. CASE next[cursor] = NULL
      BY <1>a, <1>c, <1>g, <2>1, <3>1, <3>2, Constants
         DEF IInv, TypeOK, ListInv, ListIntact, IsTurnAfter, cpuVars
    <3>3. CASE next[cursor] # NULL
      BY <1>a, <1>c, <1>g, <2>1, <3>1, <3>3, Constants
         DEF IInv, TypeOK, ListInv, ListIntact, IsTurnAfter, cpuVars
    <3> QED BY <3>2, <3>3
  <2> QED
    BY <1>a, <1>c, <1>g, <2>1, <2>2, Constants DEF IInv, TypeOK, IrqInv, cpuVars
<1> QED BY <1>1, <1>2, <1>3, <1>4, <1>5, <1>6, <1>7, <1>8, Zenon DEF IInv

-----------------------------------------------------------------------------
\* The list that _start leaves satisfies the invariant.
LEMMA InitInv == Init => IInv
<1> SUFFICES ASSUME Init PROVE IInv
  OBVIOUS
<1> USE SchedulerAssumption DEF Init, NULL, IDLE, PROMPT, Pid, PidOrNull
<1>1. TypeOK
  <2>1. next \in [Pid -> PidOrNull]
    OBVIOUS
  <2>2. status \in [Pid -> Status]
    BY DEF Status
  <2>3. remaining_quantum \in [Pid -> 0 .. Quantum]
    OBVIOUS
  <2>4. context \in [Pid -> PidOrNull]
    OBVIOUS
  <2>5. allocated \subseteq Pid /\ queue \subseteq Pid
    OBVIOUS
  <2>6. /\ processes_list \in PidOrNull /\ current_process \in PidOrNull
        /\ cursor \in PidOrNull /\ creating \in PidOrNull
        /\ iterator \in PidOrNull /\ next_pid \in 1 .. MaxPid + 1
        /\ cpu \in PidOrNull /\ cr3 \in PidOrNull /\ rsp0 \in PidOrNull
        /\ heap_lock \in PidOrNull
    OBVIOUS
  <2>7. in_irq \in BOOLEAN /\ process_switched \in BOOLEAN
    BY Zenon
  <2>8. create_pc \in CreatePcs /\ halted \in Halt
    BY Zenon DEF CreatePcs, Halt
  <2> QED BY <2>1, <2>2, <2>3, <2>4, <2>5, <2>6, <2>7, <2>8, Zenon DEF TypeOK
<1>2. ListInv
  BY DEF ListInv, ListIntact, NothingLost
<1>3. PredInv
  <2> SUFFICES ASSUME NEW p \in queue, p # IDLE PROVE \E q \in queue : next[q] = p
    BY Zenon DEF PredInv
  <2>1. p - 1 \in queue /\ next[p - 1] = p
    OBVIOUS
  <2> QED BY <2>1, Zenon
<1>4. CreateInv /\ ProcInv /\ CpuInv /\ IrqInv
  BY DEF CreateInv, ProcInv, CpuInv, IrqInv
<1> QED BY <1>1, <1>2, <1>3, <1>4 DEF IInv

\* A stuttering step changes nothing the invariant speaks of.
LEMMA StutterStep == ASSUME IInv, UNCHANGED vars PROVE IInv'
BY ZenonT(60) DEF IInv, TypeOK, ListInv, ListIntact, NothingLost, PredInv, CreateInv,
       ProcInv, CpuInv, IrqInv, IsTurnAfter, vars, procVars, cpuVars,
       localVars, createVars

\* Every step of a process, of the timer and of schedule() preserves the
\* invariant.
LEMMA NextInv == ASSUME IInv, [Next]_vars PROVE IInv'
BY ExitStep, HeapStep, CreateStep, AddBeginStep, AddWalkStep, AddLinkStep, TickStep,
   StopStep, KeepStep, ExpireStep, DeleteStep, SpinStep, StutterStep
   DEF Next, Creator, Schedule

\* The invariant holds in every reachable state.
LEMMA Inductive == Spec => []IInv
BY InitInv, NextInv, PTL DEF Spec

(***************************************************************************)
(* Every variable of the scheduler keeps its type: no quantum goes below   *)
(* zero and every pointer is a PCB or NULL.                                *)
(***************************************************************************)
THEOREM TypeCorrect == Spec => []TypeOK
<1>1. IInv => TypeOK
  BY Zenon DEF IInv
<1> QED BY <1>1, Inductive, PTL

(***************************************************************************)
(* The process list stays intact while the prompt appends to it, however   *)
(* schedule() deletes processes between the steps of process_add.          *)
(***************************************************************************)
THEOREM ListStaysIntact == Spec => []ListIntact
<1>1. IInv => ListIntact
  BY Zenon DEF IInv, ListInv
<1> QED BY <1>1, Inductive, PTL

(***************************************************************************)
(* The panics of schedule() and process_delete are unreachable.            *)
(***************************************************************************)
THEOREM PanicsUnreachable == Spec => []NoListPanic
<1>1. IInv => NoListPanic
  BY Zenon DEF IInv, NoListPanic
<1> QED BY <1>1, Inductive, PTL

(***************************************************************************)
(* process_delete is only called for current_process.                      *)
(***************************************************************************)
THEOREM OnlyCurrentDies == Spec => []DeadIsCurrent
<1>1. IInv => DeadIsCurrent
  BY Zenon DEF IInv, ProcInv, DeadIsCurrent
<1> QED BY <1>1, Inductive, PTL

(***************************************************************************)
(* Process code runs as the current process, in its own address space and  *)
(* on its own kernel stack, and is the only code that runs.                *)
(***************************************************************************)
THEOREM EachRunsAsItself == Spec => []RunsAsItself
<1>1. IInv => RunsAsItself
  BY Zenon DEF IInv, ProcInv, CpuInv, RunsAsItself
<1> QED BY <1>1, Inductive, PTL

(***************************************************************************)
(* schedule() never touches a PCB that process_delete has freed.           *)
(***************************************************************************)
THEOREM SchedulerMemorySafe == Spec => []NoUseAfterFree
<1>1. IInv => NoUseAfterFree
  BY Zenon DEF IInv, ListInv, CpuInv, IrqInv, NoUseAfterFree
<1> QED BY <1>1, Inductive, PTL

(***************************************************************************)
(* No PCB that is still allocated drops out of the queue once              *)
(* process_create has returned, but one whose kfree spins for ever.        *)
(***************************************************************************)
THEOREM NoProcessLost == Spec => []NothingLost
<1>1. IInv => NothingLost
  BY Zenon DEF IInv, ListInv
<1> QED BY <1>1, Inductive, PTL

(***************************************************************************)
(* The CPU goes round the processes in pid order, each for its full        *)
(* quantum unless it exits.                                                *)
(***************************************************************************)
THEOREM TurnsAreRoundRobin == Spec => RoundRobin
<1> DEFINE A == cpu' # cpu => /\ IsTurnAfter(cpu, cpu')
                              /\ cpu \in queue => remaining_quantum[cpu] = 0
<1>1. ASSUME IInv, schedule_stop PROVE A
  <2>1. /\ in_irq /\ halted # "hung"
        /\ status[cursor] = "READY" /\ cpu' = cursor
    BY <1>1, Constants DEF IInv, TypeOK, ProcInv, CpuInv, IrqInv,
                           schedule_stop, Scheduling, Dispatch
  <2> QED BY <1>1, <2>1, Zenon DEF IInv, IrqInv
<1>2. ASSUME IInv, [Next]_vars, ~schedule_stop PROVE A
  <2>1. cpu' = cpu
    BY <1>2, Zenon DEF Next, Creator, Schedule, process_exit, process_create,
       heap_acquire, heap_release, other_handler_spins,
       process_add_begin, process_add_walk, process_add_link, PageFault, Tick,
       schedule_keep, schedule_expire, schedule_delete, Dispatch, vars, cpuVars
  <2> QED BY <2>1
<1>3. IInv /\ [Next]_vars => [A]_vars
  BY <1>1, <1>2
<1> HIDE DEF A
<1>4. Spec => [][A]_vars
  BY <1>3, Inductive, PTL DEF Spec
<1> QED BY <1>4 DEF A, RoundRobin
=============================================================================
