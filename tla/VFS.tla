--------------------------------- MODULE VFS ---------------------------------
(***************************************************************************)
(* The file layer: the table of open files of kernel/fs/vfs.c over the     *)
(* table of open files of kernel/fs/ustar.c, used by processes that open,  *)
(* read to the end and close a file through system calls, as cat_command   *)
(* does.  A system call runs with interrupts off, so each is one step.     *)
(*                                                                         *)
(* A path is the file it names.  One file system is mounted, at "/".       *)
(***************************************************************************)
EXTENDS Integers, FiniteSets, FiniteSetsExt

CONSTANTS
  Clients,           \* processes that read files
  Files,             \* files in the archive
  Missing,           \* a path that names no file
  EmptyPath,         \* the path ""
  Size,              \* [Files -> Nat]: the size of each
  Chunk,             \* nbytes of a read call
  MAX_OPENED_FILES,
  MAX_USTAR_OPEN_FILES,
  MaxReferences,     \* bound of the model, within the uint16_t references
  NULL

ASSUME VFSAssumption ==
  /\ Size \in [Files -> Nat]
  /\ Chunk \in Nat \ {0}
  /\ MAX_OPENED_FILES \in Nat \ {0}
  /\ MAX_USTAR_OPEN_FILES \in Nat \ {0}
  /\ MaxReferences \in 1 .. 2^16 - 1
  /\ Files \cap {NULL, Missing, EmptyPath} = {}
  /\ Missing # EmptyPath

Slot == 0 .. MAX_OPENED_FILES - 1
UstarId == 0 .. MAX_USTAR_OPEN_FILES - 1

VARIABLES
  vfs_opened_files,  \* fs_file_id and buf_read_pos of every slot
  open_files,        \* ustar: the file of every id, or NULL
  references,        \* ustar: the references of every id, 0 of one that is NULL
  pc,
  file,              \* the path each client asked for
  fd,                \* the descriptor each client got, or -1
  shared,            \* history variable: clients whose slot another got too
  got,               \* history variable: <<file, offset>> of the bytes read
  fault              \* a NULL pointer has been dereferenced

tables == <<vfs_opened_files, open_files, references>>
vars == <<tables, pc, file, fd, shared, got, fault>>

TypeOK ==
  /\ vfs_opened_files \in
       [Slot -> [fs_file_id : UstarId \union {-1}, buf_read_pos : Nat]]
  /\ open_files \in [UstarId -> Files \union {NULL}]
  /\ references \in [UstarId -> 0 .. MaxReferences]
  /\ pc \in [Clients -> {"open", "read", "close", "closed", "failed"}]
  /\ file \in [Clients -> Files \union {Missing, EmptyPath, NULL}]
  /\ fd \in [Clients -> Slot \union {-1}]
  /\ shared \subseteq Clients
  /\ got \in [Clients -> SUBSET (Files \X Nat)]
  /\ fault \in BOOLEAN

\* The tables are static memory: all zero.
Init ==
  /\ vfs_opened_files = [i \in Slot |-> [fs_file_id |-> 0, buf_read_pos |-> 0]]
  /\ open_files = [i \in UstarId |-> NULL]
  /\ references = [i \in UstarId |-> 0]
  /\ pc = [c \in Clients |-> "open"]
  /\ file = [c \in Clients |-> NULL]
  /\ fd = [c \in Clients |-> -1]
  /\ shared = {}
  /\ got = [c \in Clients |-> {}]
  /\ fault = FALSE

At(c, label) == ~fault /\ pc[c] = label
Goto(c, label) == pc' = [pc EXCEPT ![c] = label]

-----------------------------------------------------------------------------
(* An operator named like the one after it, with a suffix, is a mutant of  *)
(* it: the same code with a bug.                                           *)

\* find_open_id: the ids ustar_open can choose from; it takes the smallest.
find_open_id == {i \in UstarId : open_files[i] = NULL}

\* vfs_open: the slots it takes for free; it takes the first.
FreeSlots == {i \in Slot : vfs_opened_files[i].fs_file_id = 0}

\* Clients that have slot i open
Users(i) == {c \in Clients : fd[c] = i /\ pc[c] \in {"read", "close"}}

\* is_already_open compares the path with the filename_prefix of every open
\* file instead of its name.  The prefixes are empty, so it finds no path but "",
\* for which it takes the first file that is open.
Referenced == {i \in UstarId : open_files[i] # NULL /\ references[i] > 0}
is_already_open(f) == IF f = EmptyPath /\ Referenced # {} THEN Min(Referenced) ELSE -1

\* The paths there are; vfs_get_mountpoint and get_rel_path resolve each to
\* the one file system, where tar_file_lookup finds the files.
Path == Files \union {Missing, EmptyPath}

\* ustar_open: the id it returns, or -1
ustar_open(f) ==
  IF is_already_open(f) > -1 THEN is_already_open(f)
  ELSE IF f \notin Files \/ find_open_id = {} THEN -1
  ELSE Min(find_open_id)

\* and what it does to the table: a reference more, or a new entry with one.
ustar_opens(f, id) ==
  /\ references[id] < MaxReferences
  /\ references' = [references EXCEPT ![id] = @ + 1]
  /\ open_files' = [open_files EXCEPT ![id] = IF @ = NULL THEN f ELSE @]

\* vfs_open with ustar_open.  If vfs_open has no slot, it returns -1 and the
\* reference stays taken.
vfs_open(c, f) ==
  /\ At(c, "open")
  /\ file' = [file EXCEPT ![c] = f]
  /\ LET id == ustar_open(f)
         slot == Min(FreeSlots)
     IN  \/ /\ id = -1
            /\ Goto(c, "failed")
            /\ UNCHANGED <<tables, fd, shared>>
         \/ /\ id # -1 /\ FreeSlots = {}
            /\ ustar_opens(f, id)
            /\ Goto(c, "failed")
            /\ UNCHANGED <<vfs_opened_files, fd, shared>>
         \/ /\ id # -1 /\ FreeSlots # {}
            /\ ustar_opens(f, id)
            /\ vfs_opened_files' = [vfs_opened_files EXCEPT ![slot] =
                                      [fs_file_id |-> id, buf_read_pos |-> 0]]
            /\ fd' = [fd EXCEPT ![c] = slot]
            /\ shared' = IF Users(slot) = {} THEN shared
                         ELSE shared \union {c} \union Users(slot)
            /\ Goto(c, "read")
  /\ UNCHANGED <<got, fault>>

\* ustar_read: how many bytes it copies from offset of f
ustar_read_whole(f, offset) ==
  IF f = NULL \/ offset + Chunk > Size[f] THEN 0 ELSE Chunk
ustar_read(f, offset) ==
  IF f = NULL \/ offset > Size[f] THEN 0 ELSE Min({Chunk, Size[f] - offset})

\* buf_read_pos after a read of n bytes
AdvanceNot(pos, n) == pos
Advance(pos, n) == pos + n

\* The loop of cat_command ends when vfs_read returns 0.
vfs_read(c) ==
  /\ At(c, "read")
  /\ LET d == vfs_opened_files[fd[c]]
         f == IF d.fs_file_id = -1 THEN NULL ELSE open_files[d.fs_file_id]
         n == ustar_read(f, d.buf_read_pos)
     IN  IF n = 0
           THEN Goto(c, "close") /\ UNCHANGED <<vfs_opened_files, got>>
           ELSE /\ got' = [got EXCEPT ![c] = @ \union
                             {<<f, d.buf_read_pos + k>> : k \in 0 .. n - 1}]
                /\ vfs_opened_files' =
                     [vfs_opened_files EXCEPT ![fd[c]].buf_read_pos =
                        Advance(@, n)]
                /\ UNCHANGED pc
  /\ UNCHANGED <<open_files, references, file, fd, shared, fault>>

\* fs_file_id of a slot after vfs_close
ClosedIdStays(id) == id
ClosedId(id) == -1

\* ustar_close drops a reference and frees the entry with the last one.
ustar_close(id) ==
  /\ references' = [references EXCEPT ![id] = @ - 1]
  /\ open_files' = [open_files EXCEPT ![id] = IF references[id] - 1 < 1 THEN NULL ELSE @]

vfs_close(c) ==
  /\ At(c, "close")
  /\ LET id == vfs_opened_files[fd[c]].fs_file_id
     IN  \/ /\ id = -1
            /\ Goto(c, "closed")
            /\ UNCHANGED <<tables, fault>>
         \/ /\ id # -1 /\ open_files[id] = NULL
            /\ fault' = TRUE
            /\ UNCHANGED <<tables, pc>>
         \/ /\ id # -1 /\ open_files[id] # NULL
            /\ ustar_close(id)
            /\ vfs_opened_files' =
                 [vfs_opened_files EXCEPT ![fd[c]].fs_file_id = ClosedId(@)]
            /\ Goto(c, "closed")
            /\ UNCHANGED fault
  /\ UNCHANGED <<file, fd, shared, got>>

\* The process exits, and another one runs the same program later.
restart(c) ==
  /\ ~fault /\ pc[c] \in {"closed", "failed"}
  /\ Goto(c, "open")
  /\ file' = [file EXCEPT ![c] = NULL]
  /\ fd' = [fd EXCEPT ![c] = -1]
  /\ shared' = shared \ {c}
  /\ got' = [got EXCEPT ![c] = {}]
  /\ UNCHANGED <<tables, fault>>

-----------------------------------------------------------------------------
Step(c) == vfs_read(c) \/ vfs_close(c)

Next == \E c \in Clients :
          (\E f \in Path : vfs_open(c, f)) \/ Step(c)
            \/ restart(c)

Spec == Init /\ [][Next]_vars

\* A process that has opened a file goes on: the scheduler is round-robin.
FairSpec == Spec /\ \A c \in Clients : WF_vars(Step(c))

-----------------------------------------------------------------------------
(* Safety.                                                                 *)

(***************************************************************************)
(* vfs_close never makes ustar_close dereference an empty entry, although  *)
(* several clients may close through the same slot, and several slots may  *)
(* have the same ustar id.                                                 *)
(***************************************************************************)
CloseFindsFile == ~fault

(***************************************************************************)
(* A client that has read to the end has got every byte of its own file    *)
(* and no byte of another, whatever the size of the file modulo the chunk  *)
(* and whatever others open and close, unless its slot has been given to   *)
(* another client as well: vfs_open takes a slot for free whose file has the *)
(* ustar id 0.  The path "" is not the name of a file: who opens it reads  *)
(* whatever file is_already_open finds first, and disturbs nobody else.    *)
(***************************************************************************)
ReadsItsFile ==
  \A c \in Clients \ shared : file[c] # EmptyPath =>
    /\ \A x \in got[c] : x[1] = file[c]
    /\ pc[c] \in {"close", "closed"} =>
         got[c] = {file[c]} \X (0 .. Size[file[c]] - 1)

\* The read loop of cat_command ends, whatever other clients do to its slot, and
\* the file is closed.  The kfree of ustar_close returns here; that a system call
\* may spin on the locks of the heap is in KHeap.
ReadEnds == \A c \in Clients : pc[c] = "read" ~> pc[c] \in {"closed", "failed"}
=============================================================================
