# MmdOS in TLA+

Specifications, model-checking runs and proofs for MmdOS, the x86-64 hobby
kernel in `src/`. Paths below are relative to `src/src/`.

## The system

One CPU. The timer interrupt (`kernel/interrupts/timer.c`) calls `schedule()`,
which walks a linked list of process control blocks (PCBs). All code runs in
ring 0: programs call kernel functions directly or through `int 128`. Every gate
of the IDT is an interrupt gate, so interrupt handlers and system calls run with
interrupts off and are atomic; everything else can be preempted between any two
instructions. Spinlocks are taken both with interrupts on and off.

| part | source | module | status |
|---|---|---|---|
| processes, scheduler, timer tick | `kernel/scheduler/`, `interrupts/timer.c` | `Scheduler` | modelled, proved |
| page allocator | `kernel/mm/pmm.c`, `bitmap.h` | `PMM`, `PMMInit`, `PhysicalMemory`, `PageAllocator` | modelled, proved |
| page tables | `kernel/mm/vmm.c` | `VMM`, `KHeap` | partly, proved |
| kernel heap | `kernel/mm/kheap.c` | `KHeap` | modelled, proved |
| keyboard, standard input lock | `interrupts/keyboard.c`, `terminal/prompt.c` | `Stdin`, `Interrupts` | modelled, proved |
| line editor of the prompt | `terminal/prompt.c` | `Prompt` | modelled, proved |
| VFS and ustar open files | `kernel/fs/vfs.c`, `ustar.c` | `VFS` | partly, proved |
| lookup and listing in the archive | `kernel/fs/ustar.c`, `vfs.c`, `lib/util.c` | `Ustar`, `UstarDir` | modelled, proved |
| cat, ls | `programs/cat.c`, `ls.c` | `Stdin`, `VFS`, `UstarDir` | modelled |
| games | `programs/gameoflife`, `programs/snake` | `GameOfLife`, `Snake`, `Games`, `Stdin` | modelled, proved |
| spinlock | `lib/spinlock.c` | in the modules that use it | modelled |
| boot, interrupt dispatch, PIC | `startup.c`, `interrupts/idt.c`, `interrupt_vector.asm`, `cpu/pic.c` | `Interrupts` | modelled, proved |
| system calls | `userland/sys.c`, `syscall.asm` | `Interrupts`, `Stdin`, `VFS` | partly |
| GDT and TSS | `gdt.c` | `GDT`, `Interrupts` | modelled |
| formatted output, log, panic | `lib/formatter.c`, `print.c`, `logger.c`, `panic.c` | `Formatter` | modelled, proved |
| serial port set-up, framebuffer, demo, Limine header | | | not modelled |

`PROJECT.json` has the full list, the hazards at their lines, and the map from
definitions to source lines.

## Modules

An operator whose name is that of the operator after it plus a suffix
(`NextInListHead`, `NextInList`) is the same code with a bug; it shows that
a property can fail, and nothing else uses it.

**Scheduler.** A PCB is its pid. `process_exit`, `process_create` and the three
steps of `process_add` are process code, which `Tick` may preempt; while `in_irq`
holds, only `schedule_*` steps happen, one per iteration of the loop of
`schedule()`. `heap_lock` stands for the spinlocks of `pmm.c` and `vmm.c`: the prompt
holds it in `process_create`, once for the PCB and its parts and once for `vmm_new`,
and programs hold it when they allocate. `schedule_delete` includes all of
`process_delete`, and hangs when its `kfree` finds the lock taken. The hangs of
other handlers are `other_handler_spins`; it may happen whenever a program is
queued, which is more often than the code allows. Touching a PCB
that has been freed and unmapped is `PageFault`, which stops the kernel. `queue`
is a history variable: the PCBs linked from `processes_list`. No statement
assigns SLEEPING, so no behaviour reaches that case, though it is modelled.

**PMM** has a step per iteration of the search and of the clearing loop, with the
lock held across them. **PageAllocator** is what callers rely on: a block of free
pages is handed out, or given back. **PMMInit** is `pmm_init`, a step per loop,
over the memory maps of the constant `MemoryMaps`: each is a map as the boot
loader promises it (`IsMemoryMap`: usable entries are page aligned and do not
overlap), and no longer than the 255 entries that the `uint8_t` of the loops can
count. **PhysicalMemory** composes the two: the bits that `pmm_init` leaves are
those the threads allocate from. **KHeap** puts `k_alloc`
and `k_free` over the page allocator and the kernel's page table, with a TLB that `k_free` does not
flush, called by preemptible processes and with interrupts off. `vmm_kernel->arena`
is never assigned a block, so each `k_alloc` has pages of its own. **VMM** is
about sharing: `vmm_new` copies the level 4 entries one at a time while others map.

**Stdin** composes the keyboard interrupt, the prompt, `cat`/`ls` (system calls,
one step each) and the games (direct calls, a step per statement). **Prompt** has
the two lengths of the line, a step per access to `line_len`, which `prompt_clear`
of a game resets from another process. **VFS** has the table of open
files over the table of ustar with its count of references. **Ustar** is the walk of `tar_file_lookup`, and
**UstarDir** adds `ustar_read_dir` over the same archive: a step per header and per name compared, with the names cut
off in place as `is_in_same_dir` does. The array of names is uninitialised; its
unused slots hold NULL, or the model stops.

**GameOfLife** and **Snake** are the rules of the games, a frame per step;
**Games** puts both in one specification. A read outside an array gives any value;
after a write outside one, `broken` is set and the game is not followed further.

**Interrupts** composes `_start`, the two interrupt controllers, devices, the
keyboard controller, system calls and the handlers. A handler has a step where it
calls out and one where it acknowledges, and the keyboard handler one for each of
its two reads of the port, because devices act in between. What `schedule()` and
the system calls do is in the other modules; here they may take a lock, and hang
when the interrupted process holds it. The controllers and the processor's
rules for descriptors (**GDT**) are external: modelled from how the kernel programs
them.

**Formatter** reads a format while it is chosen, a directive per step, for
`kprintf`, `klog`, `panic` and the printing system call, with another process
writing the global prefix of the log.

## Runs

| run | properties | what it shows |
|---|---|---|
| scheduler | ListIntact, RunsAsItself, NoUseAfterFree, NothingLost, RoundRobin, NoStarvation, DeadIsReaped | the list, the PCBs and the machine state agree under any interleaving of ticks, exits and creation; unless a handler hangs, everyone gets a turn and the dead are freed |
| scheduler_created_is_queued | CreatedIsQueued (violated) | `process_add` can be preempted on a PCB that is then freed: page fault, the new process is never queued |
| pmm | FreeIsUsable, BitmapExact, FailsOnlyWithoutRun, LockReleased, ImplementsPageAllocator | the bitmap starts right; from then on allocation is exclusive and exact, and refines PageAllocator |
| vmm | KernelHalfShared | kernel mappings are seen in every address space |
| kheap | LiveMapped, PagesPartitioned, HangsOnlyOnPreempted | blocks are disjoint and mapped; no lock is left behind |
| stdin | KeysInOrderOnce, StdinExclusive, OneStrayKey, HangsOnlyInGame, KeyIsRead | keys are delivered in order, at most once; until a game starts, standard input has one holder and a key in the cell is read, or overwritten by the next |
| prompt | RunsWhatIsSeen, EnterActsOnLine | where the two lengths of the line agree, which lines Enter drops, and when backspace leaves the buffer |
| vfs | CloseFindsFile, ReadsItsFile, ReadEnds | files are read completely, by clients that name one and whose slot is their own |
| ustar | FindsFirst, RootListsOnce, ListsDirectory, WalkEnds | lookup is right for every small archive, and so is a listing, within the limits below |
| games | VisibleIsLife, CrossesOnlyOnFruit, NeverIntoNeck | the cells that are drawn follow Conway's rule; the snake never turns into its neck and crosses itself only under the fruit |
| formatter | PrintsLikePrintf, StaysInBuffers | texts are those of `printf` up to the size of the buffer, for the directives the kernel uses; no array is overrun |
| interrupts | EndsItsOwn, BootBeforeProcesses, ModifiersFollow, SelectorsLoadable, KeyIsHandled | acknowledgements end their own interrupt, processes start on a booted kernel, shift and caps lock follow the keys, every key is handled unless a handler stops for good |

Every component has a type invariant (`TypeOK`, or `VMMTypeOK`, `PromptTypeOK`,
`DirTypeOK`, `FormatTypeOK` where components share a module of proofs), which
documents its state. The runs leave it out, though it holds when added to their
`.cfg`; it is proved of every component but PMMInit.

`CreatedIsQueued` is what the comment at `kernel/scheduler/process.c:53` says of
the code; the run gives the counterexample. The comment at `process.h:36` says that
`process_create` does not add the process to the queue yet, which is no longer so.

### Limits the properties state

Several properties hold under a condition, or say exactly when something goes
wrong. These are the behaviours of the code behind the conditions; the models
have them all.

- Scheduler: the idle process takes full turns, like any other, while others are
  READY. `RoundRobin` and `NoStarvation` count it in. The `kfree` of
  `process_delete` spins for ever with interrupts off when a preempted process is
  allocating (`halted = "hung"`): the dead process is not freed, and nobody runs
  again. So do other handlers. `DeadIsReaped` has this exception and no other;
  `NoStarvation` and `NothingLost` have it too.
- PMMInit: `bitmap_top_index / 8` rounds down, so the bitmap can be up to seven
  bits short (`FreeIsUsable`). Only a machine with a bit for every page goes on
  after boot (`Described` in PhysicalMemory).
- KHeap: `k_free` unmaps a page that `physical_alloc` later zeroes; once the TLB
  has dropped the entry this is a page fault (`halted = "page fault"`). A call with
  interrupts off spins for ever on a lock whose holder is preempted;
  `HangsOnlyOnPreempted` says that there is no other way to hang.
- Stdin: a game locks standard input by direct calls, which are not atomic: it and
  `cat` can both hold it, or the lock can stay set. Hence `NoGame` in
  `StdinExclusive`, `OneStrayKey` and `KeyIsRead`. The keyboard
  interrupt hangs if it hits a game inside `keyboard_getch` (`HangsOnlyInGame`).
  The prompt can take a key after a program has locked standard input, but one at
  most (`OneStrayKey`).
- Prompt: Enter ignores a line whose length is a positive multiple of 256
  (`EnterActsOnLine`). `prompt_clear` clears the screen's line and not the buffer,
  so that what was typed before it is in front of the next command (`cleared` in
  `RunsWhatIsSeen`). When a game runs `prompt_clear` in the middle of the handler of
  a key (`raced`), `line_len` can be anything until the next Enter, and backspace can
  take `buffer_pointer` below 0 (`broken`).
- VFS: `vfs_open` takes a slot with ustar id 0 for free, so that two clients can
  have one slot (`shared` in `ReadsItsFile`). `is_already_open` compares with the
  prefix of the name, which is empty, so that the path `""` opens the first file
  that is open and any other path opens a new entry. A closed slot holds -1 and is never
  taken again, so that opens fail once every slot has been used.
- UstarDir: the listing stops (`broken`) when a slot of the uninitialised array
  does not hold NULL, when the array or the caller's buffer is full, and when
  something follows the path, which `ls` does not end with a NUL. A directory is
  listed with all there is below it, at any depth. `ls` of a path ending in `/`
  lists nothing; that of `/ab` also shows what is below `/a`; paths that repeat the
  directory's name can be cut or lost (`Echo`). An archive of one entry shows it
  whole in the root.
- GameOfLife, Snake: the cursor and the snake can leave the board's array
  (`broken`). A new fruit may lie on the snake and is drawn over it; there the
  collision test does not see the snake (`CrossesOnlyOnFruit`).
- Interrupts: a byte between the two reads of the keyboard port mixes two keys
  (`torn`). Caps lock toggles again while it is held (`repeated`). A key pressed
  between `idt_init` and `keyboard_init` is never read, and blocks the keyboard
  (`early`). An exception from 16 on calls what lies behind a table (`wild`).
  A handler that needs a lock of the process it interrupted never returns (`hung`).
- Formatter: there is no minus sign, and no `%o`, `%%` or floating point, and `%x`
  and `%X` print like `%p`, with `0x` and small letters (`inexact`); of the three the
  kernel uses `%p`. A `%x` without room, like `%o`, shifts the arguments (`skipped`). A
  text that fills the buffer is not terminated. What `panic` and programs print is
  taken as a format, so that a `%` in it is a directive (`formatted twice`).

The kheap, stdin, ustar, games, formatter and interrupts properties hold up to and
including the state in which such a fault stops the model.

### Bounds

- Scheduler: idle, prompt and two programs at boot as in `_start`, and two
  created later, so that a deletion can hit the head of the walk, its middle and
  its tail. The quantum is the real 3.
- PMM: eight pages, of which 0 and 4 are not usable and 1 holds the bitmap;
  requests up to 3, so that runs fragment, the search wraps, and requests fail.
  pmm_init itself runs on every map of up to three entries, with pages of 2 bytes,
  so that 16 pages fill a page of bitmap; entries lie on both sides of that
  boundary. Only the machine with these eight pages goes on after boot.
- KHeap: runs of three pages and of one.
- VMM: two higher-half entries, one lower, two spaces, two mappers.
- Stdin: `cat`, `ls`, one game, four key presses.
- Prompt: a buffer of nine characters and a `line_len` of two bits, which overflows
  twice in it; two games. The code does not check that a line fits the buffer; the
  model ends there.
- VFS: files of no bytes, of one read and of more; two clients, three slots, three
  ustar ids, at most two references to a file (an `uint16_t` in the code).
- Ustar: lookups with sizes around the record size and up to two files; listings of
  up to four entries out of six names, with three slots instead of 50.
- Games: boards of 4 by 3 and 4 by 4; the cursor's bytes wrap at 6 instead of 256.
- Formatter: a buffer of six characters and a prefix of four, so that every
  directive meets the end of the buffer.
- Interrupts: the timer and a device on the second controller, one request each,
  since nothing keeps a memory of more; three bytes from the keyboard.

CHECK_DEADLOCK is FALSE throughout: a model stops when the kernel panics, when a
function has returned, or when a bound (pids, keys, slots) is used up.

### Fairness

- Scheduler: the timer keeps ticking, and an iteration of `schedule()` ends, in its
  hang if not otherwise (weak fairness). Nothing is assumed about locks being given
  back. The prompt's `process_add` has strong fairness: it is disabled
  whenever another process runs, and gets steps whenever its turn comes.
- PMM, Stdin, VFS: weak fairness of each process inside a call. The scheduler
  gives every READY process the CPU (`NoStarvation`) as long as the kernel runs:
  these properties are about calls that may be preempted, in a kernel that has not
  stopped elsewhere. A system call that spins on the locks of the heap (`kfree` in
  `ustar_close`, say) is a stop of KHeap, and one on `keyboard_lock` of Stdin.
- Ustar, UstarDir: the loops keep executing.
- Interrupts: handlers and `_start` go on (weak), until a handler hangs or panics. `acknowledge` has strong fairness:
  the processor takes a pending request between any two instructions with
  interrupts on, so that repeated system calls do not keep it away.

Nothing is assumed about calls being made, keys being pressed or processes
exiting.

## Proofs

Eight modules of proofs, one per component or group of components. Each theorem
holds for every value of the constants that the ASSUME of the component admits. What
TLC shows on one small instance, they show for any number of processes, pages,
keys, files or characters. Every safety property that a passing run checks is
proved.

Each proof follows one plan. The properties are seldom inductive, so an invariant
(`IInv`, `VMMInv`, `PromptInv`, `FormatInv`, `DirInv`) adds what makes them so, and
TLC has checked it before; there is one lemma per action saying that it preserves
the invariant, and the theorems follow from it.

| module | proved | for every |
|---|---|---|
| `SchedulerProofs` | ListIntact, RunsAsItself, NoUseAfterFree, NothingLost, RoundRobin, NoListPanic, DeadIsCurrent | number of boot processes (two or more), bound on pids, quantum above 0 |
| `PMMProofs` | BitmapExact, FailsOnlyWithoutRun, ImplementsPageAllocator, FreeIsUsable, mutual exclusion, no double free, the system from boot on | set of threads, bitmap, usable pages; page size above 0; memory map as `IsMemoryMap` says |
| `MemoryProofs` (VMM) | KernelHalfShared; the kernel's level 4 entries are fixed after boot | range of entries, set of address spaces and of processes that map |
| `MemoryProofs` (KHeap) | LiveMapped, PagesPartitioned, HangsOnlyOnPreempted | set of processes and of page frames, size of blocks |
| `ConsoleProofs` (Stdin) | KeysInOrderOnce, StdinExclusive, OneStrayKey, HangsOnlyInGame | set of programs and of games, number of keys |
| `ConsoleProofs` (Prompt) | RunsWhatIsSeen, EnterActsOnLine | size of the line buffer below 2^16, width of `line_len`, set of games |
| `ConsoleProofs` (Formatter) | PrintsLikePrintf, StaysInBuffers | size of the buffer above 0 and of the prefix above 1; set of numbers, of texts without NUL; sequence of directives |
| `VFSProofs` | CloseFindsFile, ReadsItsFile | set of clients, files and sizes, length of a read, size of the two tables, bound on references |
| `UstarProofs` | FindsFirst, RootListsOnce, ListsDirectory | set of names and of paths, size below 8^10, archive, number of slots, size of a record |
| `InterruptsProofs` | EndsItsOwn, BootBeforeProcesses, SelectorsLoadable, ModifiersFollow | set of lines with devices, number of requests and of keys |
| `GamesProofs` (Snake) | CrossesOnlyOnFruit, NeverIntoNeck | board of at least three rows and columns, start, first fruit |
| `GamesProofs` (GameOfLife) | VisibleIsLife | board of up to 255 rows and columns, state of its cells |

What the inductive invariants add, and why:

- Scheduler: `process_delete` keeps the list intact only because the process it
  deletes is the current one and has a predecessor (`PredInv`); `process_add` keeps
  it in pid order only because the PCB it appends is the youngest and it has
  reached the tail (`CreateInv`); turns are round-robin only because of what holds
  in the middle of the loop of `schedule()`, unless it hangs there (`IrqInv`). `TurnsAreRoundRobin`, an
  action property, follows from `IInv` and a case split over the actions.
- PMM: a search hands out pages it looked at in earlier iterations, which are still
  free only because nobody changes the bitmap without the lock. So `LockInv` says who
  is in the critical section, `OwnInv` who owns which page, and `SearchInv` that the
  pages counted are free and that no run behind the cursor has been overlooked.
  The last one is also why a panic is justified. The refinement maps each step to
  one of PageAllocator or to a stutter. For `pmm_init`, `BootInv` says in which entry
  the bitmap lies and which bits are set after each loop; the rest is arithmetic
  of pages. `BootsIntoAllocator` shows that the composition implements PMM, so that
  all that is proved of PMM holds from boot on.
- VMM: sharing in the middle of a copy (`CopiedInv`) holds because `vmm_init` fills
  the higher half before anything is copied or mapped (`BootInv`).
- KHeap: a block in the making has owners too (`OwnInv`) and is mapped as far as the
  loop of `k_alloc` has got (`MapInv`), so that a `k_free` between two iterations does
  not unmap it.
- Stdin: only `keyboard_lock` keeps a second reader and the interrupt out of the three
  statements of `keyboard_getch` (`CellInv`); so what has been read is older than
  what is in the cell or in the hands of a game (`KeyInv`). The prompt looks at
  `stdin_lock` before each key, so it takes one key at most (`HolderInv`).
- VFS: an open file has as many references as slots that name it, or more, so that
  the last `ustar_close` comes after the last user (`SlotInv`); two slots name one
  file only after an open of `""`. A client on its own has got its file
  up to `buf_read_pos` (`OwnInv`).
- Prompt: as long as no `prompt_clear` has overlapped a handler, `line_len`, or the
  value that the handler has loaded of it, is the length of the line on the screen
  modulo its width (`LineInv`), and `buffer_pointer` is never behind it
  (`PromptInv`), which is why a backspace that passes the test of `line_len` does not
  take the pointer below 0.
- Formatter: what lies behind the offset is NUL and nothing before it is
  (`BufferInv`), so that reading a text back stops at its end unless it fills the
  buffer. The last character of the prefix stays NUL, whichever of two processes
  writes (`LoggerInv`). The buffer shows what `printf` would have printed as far as
  there is room (`PrintInv`). Under this lies arithmetic: the remainders of repeated
  division, in reverse, are the digits that `Numeral` takes by the powers of the base
  (`NumeralIs`). It is proved for all natural numbers; the code has those of 64 bits.
- UstarDir: the size field decodes to the size (`OctDecodes`), so that the walk goes
  from entry to entry (`Headers`). A listing of the root holds the top names of the
  entries passed, cut as soon as they have been compared. In one of another
  directory, `remove_prefix` leaves nothing of a name it has already been applied to,
  so that no name is taken for a duplicate (`ListInv`). Names are assumed as an
  archiver writes them: not empty, no leading and no double `/`.
- Interrupts: `BootInv` ties handlers and selectors to the progress of `_start`.
  `ServiceInv` follows the number of the interrupt through a handler. `KeyInv` says
  what `keyboard` will be after each byte that still waits, ending in the keys
  held now. Who holds a lock does not matter to any of them: a handler
  that hangs just stops.
- Snake: the board is what the snake and the fruit make of it (`BoardInv`), so that
  the collision test errs only under the fruit; the head is where the direction
  leads from the cell behind it (`NeckInv`), and no two moves but opposite ones
  cancel. On a board of two rows or columns up and
  down, or left and right, are the same move and the property fails; the real board
  is 70 by 40 (`SnakeAssumption`).
- GameOfLife: `VisibleIsLife` is an action property and needs no invariant. The flat
  indices around a cell that is drawn are those of its eight neighbours, no two the
  same and none outside the array, so that both sides count the same set.

Two things that look like induction over data were proved by the smallest
counterexample instead, from the library's theorem that < is well-founded on the
natural numbers (`Smallest`): that a recursive function has a solution, and what it
computes.

Only model-checked: the liveness properties (NoStarvation, DeadIsReaped,
LockReleased, KeyIsRead, ReadEnds, WalkEnds, KeyIsHandled), because fairness and
ENABLED are outside the prover; and the violation of `CreatedIsQueued`, which is a
counterexample.

## Not modelled

- `vfs_write`, `vfs_execute`, `vmm_destroy`, `vmm_change_flag`, `jmp_user`,
  `isr_install_handler`, `irq_uninstall_handler`: no caller. `_syscall_memcpy`: the demo program
  `adder1` makes the call, with a block of its own and 12 bytes.
- The table of system calls as data: a call is the operation it leads to. Only
  `int 128` itself is in Interrupts.
- Archive names of more than 100 characters, which use `filename_prefix`.
- Programming of the serial port, and the terminal behind `limine_write`, which is
  the boot loader's. Of the timer, its frequency and `uptime`, which paces the games.
- Scan code tables: a key is the number of its press, or one of shift, caps lock and
  others.
- `draw_line`, the demo counters and the Limine header: nothing reads their state.

## Plan

Composition: the steps of PMM's callers with the scheduler's turns, so that the
fairness assumed of them follows from `NoStarvation`.
