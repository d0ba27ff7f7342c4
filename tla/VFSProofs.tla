------------------------------ MODULE VFSProofs ------------------------------
(***************************************************************************)
(* Proofs about VFS for every number of clients, every set of files and    *)
(* sizes, every length of a read and every size of the two tables.         *)
(*                                                                         *)
(* vfs_open takes a slot for free whose file has the ustar id 0, so two    *)
(* clients may use one slot, and it opens the path "" with the id of a     *)
(* file that is open already, so two slots may have one id.  What is true  *)
(* all the same: an id has at least as many references as there are slots  *)
(* in use that have it, and it names an open file exactly while it has one *)
(* (SlotInv).  So a close through one slot never frees the file of another *)
(* slot, and a client that shares its slot with nobody reads the file it   *)
(* named, from where it has got to (OwnInv), to its end.                   *)
(***************************************************************************)
EXTENDS VFS, FiniteSetTheorems, WellFoundedInduction, TLAPS

\* c has a file open.
Active(c) == pc[c] \in {"read", "close"}

\* The ustar id and the position in the slot of c
IdOf(c) == vfs_opened_files[fd[c]].fs_file_id
PosOf(c) == vfs_opened_files[fd[c]].buf_read_pos

\* The slots in use that have the ustar id k
Held(i) == \E c \in Clients : Active(c) /\ fd[c] = i
Holding(k) == {i \in Slot : Held(i) /\ vfs_opened_files[i].fs_file_id = k}

SlotInv ==
  /\ \A c \in Clients : Active(c) => fd[c] \in Slot
  /\ \A k \in UstarId : Cardinality(Holding(k)) <= references[k]
  /\ \A k \in UstarId : references[k] = 0 <=> open_files[k] = NULL

\* The first n bytes of f
Bytes(f, n) == {f} \X (0 .. n - 1)

\* The clients that have their slot to themselves and have named a file
Owners == {c \in Clients \ shared : file[c] # EmptyPath}

\* Such a client has got its file up to buf_read_pos.
OwnInv ==
  \A c \in Owners : Active(c) =>
    /\ \A d \in Clients : Active(d) /\ fd[d] = fd[c] => d = c
    /\ file[c] \in Files
    /\ IdOf(c) # -1 /\ open_files[IdOf(c)] = file[c]
    /\ PosOf(c) \in 0 .. Size[file[c]]
    /\ got[c] = Bytes(file[c], PosOf(c))
    /\ pc[c] = "close" => PosOf(c) = Size[file[c]]

DoneInv ==
  /\ \A c \in Clients \ shared : pc[c] \in {"open", "failed"} => got[c] = {}
  /\ \A c \in Owners : pc[c] = "closed" =>
       file[c] \in Files /\ got[c] = Bytes(file[c], Size[file[c]])

IInv == TypeOK /\ SlotInv /\ OwnInv /\ DoneInv /\ ~fault

-----------------------------------------------------------------------------
\* A set of natural numbers that is not empty has a smallest element.
LEMMA MinIsElement ==
  ASSUME NEW S \in SUBSET Nat, S # {}
  PROVE  Min(S) \in S /\ \A y \in S : Min(S) <= y
<1>1. \E x \in S : \A y \in S : ~(<<y, x>> \in OpToRel(<, Nat))
  BY WFMin, NatLessThanWellFounded, Zenon
<1>2. PICK x \in S : \A y \in S : ~(<<y, x>> \in OpToRel(<, Nat))
  BY <1>1, Zenon
<1>3. \A y \in S : <<y, x>> \in Nat \X Nat /\ <<y, x>>[1] = y /\ <<y, x>>[2] = x
  BY <1>2, Zenon
<1>4. \A y \in S : ~(y < x)
  BY <1>2, <1>3, Zenon DEF OpToRel
<1>5. \A y \in S : x <= y
  <2>1. x \in Nat /\ \A y \in S : y \in Nat
    BY <1>2, Zenon
  <2> QED BY <1>4, <2>1
<1> QED BY <1>2, <1>5, Zenon DEF Min

\* ustar_read copies something unless the offset is at the end of the file,
\* and never goes beyond it.
LEMMA ReadLength ==
  ASSUME NEW f \in Files, NEW offset \in 0 .. Size[f]
  PROVE  /\ ustar_read(f, offset) \in Nat
         /\ offset + ustar_read(f, offset) <= Size[f]
         /\ ustar_read(f, offset) = 0 => offset = Size[f]
<1>1. Size[f] \in Nat /\ Chunk \in Nat \ {0} /\ f # NULL /\ offset \in Nat
  BY VFSAssumption
<1>2. ~(offset > Size[f]) /\ Size[f] - offset \in Nat
  BY <1>1
<1> DEFINE S == {Chunk, Size[f] - offset}
<1>3. S \in SUBSET Nat /\ S # {}
  BY <1>1, <1>2
<1>4. Min(S) \in S /\ \A y \in S : Min(S) <= y
  BY <1>3, MinIsElement
<1>5. ustar_read(f, offset) = Min(S)
  BY <1>1, <1>2 DEF ustar_read
<1>6. Min(S) <= Size[f] - offset /\ (Min(S) = Chunk \/ Min(S) = Size[f] - offset)
  BY <1>4
<1> HIDE DEF S
<1> QED BY <1>1, <1>2, <1>5, <1>6

\* Sets of slots are finite; what adding and taking away a slot does to their size.
LEMMA SlotSets ==
  ASSUME NEW S \in SUBSET Slot
  PROVE  /\ Cardinality(S) \in Nat
         /\ \A T : T \subseteq S => Cardinality(T) \in Nat /\ Cardinality(T) <= Cardinality(S)
         /\ \A x, T : T \subseteq S \union {x} /\ x \in Slot =>
              Cardinality(T) \in Nat /\ Cardinality(T) <= Cardinality(S) + 1
         /\ \A x, T : x \in S /\ T \subseteq S \ {x} =>
              Cardinality(T) \in Nat /\ Cardinality(T) <= Cardinality(S) - 1
<1>1. IsFiniteSet(Slot)
  <2>1. MAX_OPENED_FILES - 1 \in Int /\ 0 \in Int
    BY VFSAssumption
  <2> QED BY <2>1, FS_Interval, Zenon DEF Slot
<1>2. \A T : T \subseteq Slot => IsFiniteSet(T) /\ Cardinality(T) \in Nat
  <2> SUFFICES ASSUME NEW T, T \subseteq Slot PROVE IsFiniteSet(T) /\ Cardinality(T) \in Nat
    OBVIOUS
  <2>1. IsFiniteSet(T)
    BY <1>1, FS_Subset, Zenon
  <2> QED BY <2>1, FS_CardinalityType, Zenon
<1>3. \A U, T : U \subseteq Slot /\ T \subseteq U => Cardinality(T) <= Cardinality(U)
  <2> SUFFICES ASSUME NEW U, NEW T, U \subseteq Slot, T \subseteq U
               PROVE  Cardinality(T) <= Cardinality(U)
    OBVIOUS
  <2> QED BY <1>2, FS_Subset, Zenon
<1>4. IsFiniteSet(S) /\ Cardinality(S) \in Nat
  BY <1>2
<1>5. ASSUME NEW x \in Slot, NEW T, T \subseteq S \union {x}
      PROVE  Cardinality(T) \in Nat /\ Cardinality(T) <= Cardinality(S) + 1
  <2>1. S \union {x} \subseteq Slot /\ T \subseteq Slot
    BY <1>5
  <2>2. /\ Cardinality(T) <= Cardinality(S \union {x})
        /\ Cardinality(T) \in Nat /\ Cardinality(S \union {x}) \in Nat
    BY <1>2, <1>3, <1>5, <2>1, Zenon
  <2>3. \/ Cardinality(S \union {x}) = Cardinality(S)
        \/ Cardinality(S \union {x}) = Cardinality(S) + 1
    BY <1>4, FS_AddElement, Zenon
  <2> QED BY <1>4, <2>2, <2>3
<1>6. ASSUME NEW x \in S, NEW T, T \subseteq S \ {x}
      PROVE  Cardinality(T) \in Nat /\ Cardinality(T) <= Cardinality(S) - 1
  <2>1. S \ {x} \subseteq Slot /\ T \subseteq Slot
    BY <1>6
  <2>2. /\ Cardinality(T) <= Cardinality(S \ {x}) /\ Cardinality(T) \in Nat
    BY <1>2, <1>3, <1>6, <2>1, Zenon
  <2>3. Cardinality(S \ {x}) = Cardinality(S) - 1
    BY <1>4, FS_RemoveElement, Zenon
  <2> QED BY <2>2, <2>3
<1> QED BY <1>2, <1>3, <1>4, <1>5, <1>6

\* A slot in use that has an id keeps the file of that id open.
LEMMA HeldIsOpen ==
  ASSUME IInv, NEW c \in Clients, Active(c)
  PROVE  /\ fd[c] \in Slot /\ IdOf(c) \in UstarId \union {-1}
         /\ IdOf(c) # -1 => /\ fd[c] \in Holding(IdOf(c))
                            /\ open_files[IdOf(c)] # NULL
<1>1. fd[c] \in Slot
  BY DEF IInv, SlotInv
<1>2. IdOf(c) \in UstarId \union {-1}
  BY <1>1 DEF IInv, TypeOK, IdOf
<1>3. ASSUME IdOf(c) # -1
      PROVE  fd[c] \in Holding(IdOf(c)) /\ open_files[IdOf(c)] # NULL
  <2>1. fd[c] \in Holding(IdOf(c))
    BY <1>1 DEF Holding, Held, IdOf
  <2>2. Holding(IdOf(c)) \in SUBSET Slot /\ {} \subseteq Holding(IdOf(c)) \ {fd[c]}
    BY DEF Holding
  <2>3. Cardinality({}) \in Nat /\ Cardinality({}) <= Cardinality(Holding(IdOf(c))) - 1
        /\ Cardinality(Holding(IdOf(c))) \in Nat
    BY <2>1, <2>2, SlotSets
  <2>4. IdOf(c) \in UstarId /\ Cardinality(Holding(IdOf(c))) <= references[IdOf(c)]
    BY <1>2, <1>3 DEF IInv, SlotInv
  <2>5. references[IdOf(c)] # 0
    <3>1. references[IdOf(c)] \in Nat
      BY <2>4 DEF IInv, TypeOK
    <3> QED BY <2>3, <2>4, <3>1
  <2> QED BY <2>1, <2>4, <2>5 DEF IInv, SlotInv
<1> QED BY <1>1, <1>2, <1>3

\* What takes no slot into use and leaves the table of ustar.c alone keeps SlotInv.
LEMMA SameTable ==
  ASSUME IInv, UNCHANGED <<open_files, references>>,
         \A d \in Clients : Active(d)' => Active(d) /\ fd'[d] = fd[d] /\ IdOf(d)' = IdOf(d)
  PROVE  SlotInv'
<1>1. \A d \in Clients : Active(d)' => fd'[d] \in Slot
  BY DEF IInv, SlotInv
<1>2. ASSUME NEW k \in UstarId PROVE Cardinality(Holding(k)') <= references'[k]
  <2>1. Holding(k)' \subseteq Holding(k)
    <3> SUFFICES ASSUME NEW i \in Holding(k)' PROVE i \in Holding(k)
      OBVIOUS
    <3>1. i \in Slot /\ vfs_opened_files'[i].fs_file_id = k
      BY DEF Holding
    <3>2. PICK d \in Clients : Active(d)' /\ fd'[d] = i
      BY DEF Holding, Held
    <3>3. Active(d) /\ fd[d] = i /\ vfs_opened_files[i].fs_file_id = k
      BY <3>1, <3>2 DEF IdOf
    <3> QED BY <3>1, <3>3 DEF Holding, Held
  <2>2. Holding(k) \in SUBSET Slot
    BY DEF Holding
  <2>3. /\ Cardinality(Holding(k)') <= Cardinality(Holding(k))
        /\ Cardinality(Holding(k)') \in Nat /\ Cardinality(Holding(k)) \in Nat
    BY <2>1, <2>2, SlotSets
  <2>4. Cardinality(Holding(k)) <= references[k] /\ references[k] \in Nat
    BY DEF IInv, SlotInv, TypeOK
  <2> QED BY <2>3, <2>4
<1>3. \A k \in UstarId : references'[k] = 0 <=> open_files'[k] = NULL
  BY DEF IInv, SlotInv
<1> QED BY <1>1, <1>2, <1>3 DEF SlotInv

\* The tables are empty and nobody has asked for a file.
LEMMA InitInv == ASSUME Init PROVE IInv
<1>1. 0 \in UstarId /\ 0 \in Nat /\ 0 \in 0 .. MaxReferences
  BY VFSAssumption DEF UstarId
<1>2. TypeOK
  BY <1>1, Zenon DEF Init, TypeOK
<1>3. \A c \in Clients : ~Active(c)
  BY DEF Init, Active
<1>4. SlotInv
  <2>1. \A k \in UstarId : Holding(k) = {}
    BY <1>3 DEF Holding, Held
  <2>2. \A k \in UstarId : Cardinality(Holding(k)) = 0
    BY <2>1, FS_EmptySet, Zenon
  <2> QED BY <1>3, <2>2 DEF Init, SlotInv
<1> QED BY <1>2, <1>3, <1>4 DEF Init, IInv, OwnInv, DoneInv, Owners

-----------------------------------------------------------------------------
\* ustar_open takes a free entry for a file, or another reference to an entry
\* that has one: no entry loses a reference or its file.
LEMMA Opens ==
  ASSUME IInv, NEW f, NEW id \in UstarId, ustar_opens(f, id),
         f \in Files \/ open_files[id] # NULL
  PROVE  /\ open_files' \in [UstarId -> Files \union {NULL}]
         /\ references' \in [UstarId -> 0 .. MaxReferences]
         /\ references'[id] = references[id] + 1
         /\ \A k \in UstarId \ {id} : references'[k] = references[k]
         /\ \A k \in UstarId : open_files[k] # NULL => open_files'[k] = open_files[k]
         /\ open_files[id] = NULL => open_files'[id] = f
         /\ \A k \in UstarId : references'[k] = 0 <=> open_files'[k] = NULL
<1>1. /\ references[id] < MaxReferences /\ references[id] \in 0 .. MaxReferences
      /\ references \in [UstarId -> 0 .. MaxReferences]
      /\ open_files \in [UstarId -> Files \union {NULL}] /\ NULL \notin Files
      /\ MaxReferences \in Nat
  BY VFSAssumption DEF IInv, TypeOK, ustar_opens
<1>2. references[id] + 1 \in 0 .. MaxReferences /\ references[id] + 1 # 0
  BY <1>1
<1>3. /\ references' \in [UstarId -> 0 .. MaxReferences]
      /\ references'[id] = references[id] + 1
      /\ \A k \in UstarId \ {id} : references'[k] = references[k]
  BY <1>1, <1>2 DEF ustar_opens
<1>4. /\ open_files'[id] = IF open_files[id] = NULL THEN f ELSE open_files[id]
      /\ \A k \in UstarId \ {id} : open_files'[k] = open_files[k]
      /\ open_files' \in [UstarId -> Files \union {NULL}]
  BY <1>1 DEF ustar_opens
<1>5. open_files'[id] # NULL
  BY <1>1, <1>4
<1>6. \A k \in UstarId : references'[k] = 0 <=> open_files'[k] = NULL
  BY <1>2, <1>3, <1>4, <1>5 DEF IInv, SlotInv
<1> QED BY <1>3, <1>4, <1>6

\* An open that fails changes nothing but its client, and at most takes a reference.
LEMMA OpenFails ==
  ASSUME IInv, NEW c \in Clients, NEW f \in Path, pc[c] = "open",
         file' = [file EXCEPT ![c] = f],
         pc' = [pc EXCEPT ![c] = "failed"],
         UNCHANGED <<vfs_opened_files, fd, shared, got, fault>>,
         \/ UNCHANGED <<open_files, references>>
         \/ \E id \in UstarId : /\ ustar_opens(f, id)
                                /\ f \in Files \/ open_files[id] # NULL
  PROVE  IInv'
<1>1. /\ pc'[c] = "failed"
      /\ \A d \in Clients \ {c} : pc'[d] = pc[d] /\ file'[d] = file[d]
  BY DEF IInv, TypeOK
<1>2. \A d \in Clients : /\ Active(d)' <=> Active(d)
                         /\ IdOf(d)' = IdOf(d) /\ PosOf(d)' = PosOf(d)
                         /\ Active(d) => d # c
  BY <1>1 DEF Active, IdOf, PosOf
<1>3. /\ open_files' \in [UstarId -> Files \union {NULL}]
      /\ references' \in [UstarId -> 0 .. MaxReferences]
      /\ \A k \in UstarId : open_files[k] # NULL => open_files'[k] = open_files[k]
  <2>1. CASE UNCHANGED <<open_files, references>>
    BY <2>1 DEF IInv, TypeOK
  <2>2. CASE \E id \in UstarId : ustar_opens(f, id) /\ (f \in Files \/ open_files[id] # NULL)
    BY <2>2, Opens, Zenon
  <2> QED BY <2>1, <2>2
<1>4. TypeOK'
  BY <1>3 DEF IInv, TypeOK, Path
<1>5. SlotInv'
  <2>1. CASE UNCHANGED <<open_files, references>>
    BY <1>2, <2>1, SameTable
  <2>2. CASE \E id \in UstarId : ustar_opens(f, id) /\ (f \in Files \/ open_files[id] # NULL)
    <3>1. PICK id \in UstarId : ustar_opens(f, id) /\ (f \in Files \/ open_files[id] # NULL)
      BY <2>2
    <3>2. /\ references'[id] = references[id] + 1
          /\ \A k \in UstarId \ {id} : references'[k] = references[k]
          /\ \A k \in UstarId : references'[k] = 0 <=> open_files'[k] = NULL
      BY <3>1, Opens, Zenon
    <3>3. \A i : Held(i)' <=> Held(i)
      BY <1>2 DEF Held
    <3>4. \A k \in UstarId : Holding(k)' = Holding(k)
      BY <3>3 DEF Holding
    <3>5. ASSUME NEW k \in UstarId PROVE Cardinality(Holding(k)') <= references'[k]
      <4>1. references[k] \in Nat /\ Cardinality(Holding(k)) <= references[k]
        BY DEF IInv, TypeOK, SlotInv
      <4>2. Cardinality(Holding(k)) \in Nat
        BY SlotSets DEF Holding
      <4>3. references'[k] = references[k] \/ references'[k] = references[k] + 1
        BY <3>2
      <4> QED BY <3>4, <4>1, <4>2, <4>3
    <3> QED BY <1>2, <3>2, <3>5 DEF IInv, SlotInv
  <2> QED BY <2>1, <2>2
<1>6. OwnInv'
  <2> SUFFICES ASSUME NEW d \in Owners', Active(d)'
               PROVE  /\ \A e \in Clients : Active(e)' /\ fd'[e] = fd'[d] => e = d
                      /\ file'[d] \in Files
                      /\ IdOf(d)' # -1 /\ open_files'[IdOf(d)'] = file'[d]
                      /\ PosOf(d)' \in 0 .. Size[file'[d]]
                      /\ got'[d] = Bytes(file'[d], PosOf(d)')
                      /\ pc'[d] = "close" => PosOf(d)' = Size[file'[d]]
    BY DEF OwnInv, Bytes
  <2>1. d \in Clients /\ d # c /\ d \in Owners /\ Active(d)
    BY <1>1, <1>2 DEF Owners
  <2>2. /\ \A e \in Clients : Active(e) /\ fd[e] = fd[d] => e = d
        /\ file[d] \in Files
        /\ IdOf(d) # -1 /\ open_files[IdOf(d)] = file[d]
        /\ PosOf(d) \in 0 .. Size[file[d]]
        /\ got[d] = Bytes(file[d], PosOf(d))
        /\ pc[d] = "close" => PosOf(d) = Size[file[d]]
    BY <2>1 DEF IInv, OwnInv
  <2>3. open_files[IdOf(d)] # NULL /\ IdOf(d) \in UstarId
    BY <2>1, <2>2, HeldIsOpen
  <2> QED BY <1>1, <1>2, <1>3, <2>1, <2>2, <2>3
<1>7. DoneInv'
  BY <1>1 DEF IInv, DoneInv, Bytes, Owners
<1> QED BY <1>4, <1>5, <1>6, <1>7 DEF IInv

\* An open that gets a slot: the slot holds the reference that ustar_open took.
LEMMA OpenSlot ==
  ASSUME IInv, NEW c \in Clients, NEW f \in Path, pc[c] = "open",
         NEW id \in UstarId, NEW slot \in FreeSlots,
         \/ f \in Files /\ open_files[id] = NULL
         \/ f = EmptyPath /\ open_files[id] # NULL,
         file' = [file EXCEPT ![c] = f],
         ustar_opens(f, id),
         vfs_opened_files' = [vfs_opened_files EXCEPT ![slot] =
                                [fs_file_id |-> id, buf_read_pos |-> 0]],
         fd' = [fd EXCEPT ![c] = slot],
         shared' = IF Users(slot) = {} THEN shared
                   ELSE shared \union {c} \union Users(slot),
         pc' = [pc EXCEPT ![c] = "read"],
         UNCHANGED <<got, fault>>
  PROVE  IInv'
<1>1. /\ pc'[c] = "read" /\ file'[c] = f /\ fd'[c] = slot
      /\ \A d \in Clients \ {c} : pc'[d] = pc[d] /\ file'[d] = file[d] /\ fd'[d] = fd[d]
  BY DEF IInv, TypeOK
<1>2. /\ open_files' \in [UstarId -> Files \union {NULL}]
      /\ references' \in [UstarId -> 0 .. MaxReferences]
      /\ references'[id] = references[id] + 1
      /\ \A k \in UstarId \ {id} : references'[k] = references[k]
      /\ \A k \in UstarId : open_files[k] # NULL => open_files'[k] = open_files[k]
      /\ open_files[id] = NULL => open_files'[id] = f
      /\ \A k \in UstarId : references'[k] = 0 <=> open_files'[k] = NULL
  BY Opens, Zenon
<1>3. /\ slot \in Slot
      /\ vfs_opened_files'[slot] = [fs_file_id |-> id, buf_read_pos |-> 0]
      /\ \A i \in Slot \ {slot} : vfs_opened_files'[i] = vfs_opened_files[i]
      /\ vfs_opened_files' \in
           [Slot -> [fs_file_id : UstarId \union {-1}, buf_read_pos : Nat]]
  BY DEF IInv, TypeOK, FreeSlots
<1>4. Users(slot) \subseteq Clients
  BY DEF Users
<1>5. TypeOK'
  BY <1>2, <1>3, <1>4 DEF IInv, TypeOK, Path
<1>6. \A d \in Clients : Active(d)' => d = c \/ (Active(d) /\ d # c /\ fd[d] \in Slot)
  BY <1>1 DEF Active, IInv, SlotInv
<1>7. \A d \in Clients : Active(d)' /\ fd'[d] = slot => IdOf(d)' = id /\ PosOf(d)' = 0
  BY <1>3 DEF IdOf, PosOf
<1>8. \A d \in Clients : Active(d)' /\ fd'[d] # slot =>
        /\ d # c /\ Active(d) /\ fd'[d] = fd[d] /\ fd[d] \in Slot
        /\ IdOf(d)' = IdOf(d) /\ PosOf(d)' = PosOf(d)
  BY <1>1, <1>3, <1>6 DEF IdOf, PosOf
<1>9. SlotInv'
  <2>1. \A d \in Clients : Active(d)' => fd'[d] \in Slot
    BY <1>3, <1>8
  <2>2. ASSUME NEW k \in UstarId
        PROVE  \A i \in Holding(k)' : i \in Holding(k) \/ (i = slot /\ k = id)
    <3> SUFFICES ASSUME NEW i \in Holding(k)', i # slot \/ k # id PROVE i \in Holding(k)
      OBVIOUS
    <3>1. i \in Slot /\ vfs_opened_files'[i].fs_file_id = k
      BY DEF Holding
    <3>2. i # slot
      BY <1>3, <3>1
    <3>3. PICK d \in Clients : Active(d)' /\ fd'[d] = i
      BY DEF Holding, Held
    <3>4. Active(d) /\ fd[d] = i /\ vfs_opened_files[i].fs_file_id = k
      BY <1>3, <1>8, <3>1, <3>2, <3>3
    <3> QED BY <3>1, <3>4 DEF Holding, Held
  <2>3. ASSUME NEW k \in UstarId PROVE Cardinality(Holding(k)') <= references'[k]
    <3>1. references[k] \in Nat /\ Cardinality(Holding(k)) <= references[k]
      BY DEF IInv, TypeOK, SlotInv
    <3>2. Holding(k) \in SUBSET Slot
      BY DEF Holding
    <3>3. Cardinality(Holding(k)) \in Nat
      BY <3>2, SlotSets
    <3>4. CASE k = id
      <4>1. Holding(k)' \subseteq Holding(k) \union {slot}
        BY <2>2
      <4>2. Cardinality(Holding(k)') \in Nat
            /\ Cardinality(Holding(k)') <= Cardinality(Holding(k)) + 1
        BY <1>3, <3>2, <4>1, SlotSets
      <4>3. references'[k] = references[k] + 1
        BY <1>2, <3>4
      <4> QED BY <3>1, <3>3, <4>2, <4>3
    <3>5. CASE k # id
      <4>1. Holding(k)' \subseteq Holding(k)
        BY <2>2, <3>5
      <4>2. Cardinality(Holding(k)') \in Nat
            /\ Cardinality(Holding(k)') <= Cardinality(Holding(k))
        BY <3>2, <4>1, SlotSets
      <4>3. references'[k] = references[k]
        BY <1>2, <3>5
      <4> QED BY <3>1, <3>3, <4>2, <4>3
    <3> QED BY <3>4, <3>5
  <2> QED BY <1>2, <2>1, <2>3 DEF SlotInv
<1>10. OwnInv'
  <2> SUFFICES ASSUME NEW d \in Owners', Active(d)'
               PROVE  /\ \A e \in Clients : Active(e)' /\ fd'[e] = fd'[d] => e = d
                      /\ file'[d] \in Files
                      /\ IdOf(d)' # -1 /\ open_files'[IdOf(d)'] = file'[d]
                      /\ PosOf(d)' \in 0 .. Size[file'[d]]
                      /\ got'[d] = Bytes(file'[d], PosOf(d)')
                      /\ pc'[d] = "close" => PosOf(d)' = Size[file'[d]]
    BY DEF OwnInv, Bytes
  <2>1. d \in Clients /\ d \notin shared' /\ d \notin shared /\ file'[d] # EmptyPath
    BY <1>4 DEF Owners
  <2>2. CASE d = c
    <3>1. Users(slot) = {}
      BY <2>1, <2>2
    <3>2. \A e \in Clients : Active(e) => fd[e] # slot
      BY <3>1 DEF Users, Active
    <3>3. \A e \in Clients : Active(e)' /\ fd'[e] = fd'[d] => e = d
      BY <1>1, <1>6, <2>2, <3>2
    <3>4. IdOf(d)' = id /\ PosOf(d)' = 0
      BY <1>1, <1>7, <2>2
    <3>5. got'[d] = {}
      BY <2>1, <2>2 DEF IInv, DoneInv
    <3>6. Bytes(f, 0) = {}
      BY DEF Bytes
    <3>7. f \in Files /\ open_files'[id] = f
      BY <1>1, <1>2, <2>1, <2>2
    <3>8. 0 \in 0 .. Size[f] /\ id # -1
      BY <3>7, VFSAssumption DEF UstarId
    <3> QED BY <1>1, <2>2, <3>3, <3>4, <3>5, <3>6, <3>7, <3>8
  <2>3. CASE d # c
    <3>1. Active(d) /\ fd'[d] = fd[d] /\ d \in Owners
      BY <1>1, <1>6, <2>1, <2>3 DEF Owners
    <3>2. fd[d] # slot
      <4> SUFFICES ASSUME fd[d] = slot PROVE FALSE
        OBVIOUS
      <4>1. d \in Users(slot)
        BY <2>1, <3>1 DEF Users, Active
      <4> QED BY <2>1, <4>1
    <3>3. /\ \A e \in Clients : Active(e) /\ fd[e] = fd[d] => e = d
          /\ file[d] \in Files
          /\ IdOf(d) # -1 /\ open_files[IdOf(d)] = file[d]
          /\ PosOf(d) \in 0 .. Size[file[d]]
          /\ got[d] = Bytes(file[d], PosOf(d))
          /\ pc[d] = "close" => PosOf(d) = Size[file[d]]
      BY <3>1, Zenon DEF IInv, OwnInv
    <3>4. \A e \in Clients : Active(e)' /\ fd'[e] = fd'[d] => e = d
      BY <1>1, <1>6, <3>1, <3>2, <3>3
    <3>5. IdOf(d) \in UstarId /\ open_files'[IdOf(d)] = open_files[IdOf(d)]
      BY <1>2, <2>1, <3>1, <3>3, HeldIsOpen
    <3> QED BY <1>1, <1>8, <2>1, <2>3, <3>1, <3>2, <3>3, <3>4, <3>5
  <2> QED BY <2>2, <2>3
<1>11. DoneInv'
  BY <1>1, <1>4 DEF IInv, DoneInv, Bytes, Owners
<1> QED BY <1>5, <1>9, <1>10, <1>11 DEF IInv

\* Every outcome of vfs_open
LEMMA OpenStep ==
  ASSUME IInv, NEW c \in Clients, NEW f \in Path, vfs_open(c, f) PROVE IInv'
<1> DEFINE id == ustar_open(f)
<1>1. pc[c] = "open" /\ file' = [file EXCEPT ![c] = f] /\ UNCHANGED <<got, fault>>
  BY DEF vfs_open, At
<1>2. \/ id = -1
      \/ id \in UstarId /\ f \in Files /\ open_files[id] = NULL
      \/ id \in UstarId /\ f = EmptyPath /\ open_files[id] # NULL
  <2>1. Referenced # {} => Min(Referenced) \in Referenced
    <3>1. Referenced \in SUBSET Nat
      BY VFSAssumption DEF Referenced, UstarId
    <3> QED BY <3>1, MinIsElement
  <2>2. find_open_id # {} => Min(find_open_id) \in find_open_id
    <3>1. find_open_id \in SUBSET Nat
      BY VFSAssumption DEF find_open_id, UstarId
    <3> QED BY <3>1, MinIsElement
  <2>3. \A k \in UstarId : k > -1 /\ k # -1
    BY DEF UstarId
  <2>4. CASE f = EmptyPath /\ Referenced # {}
    BY <2>1, <2>3, <2>4 DEF ustar_open, is_already_open, Referenced
  <2>5. CASE ~(f = EmptyPath /\ Referenced # {})
    <3>1. is_already_open(f) = -1
      BY <2>5 DEF is_already_open
    <3> QED BY <2>2, <3>1 DEF ustar_open, find_open_id
  <2> QED BY <2>4, <2>5
<1>3. FreeSlots # {} => Min(FreeSlots) \in FreeSlots
  <2>1. FreeSlots \in SUBSET Nat
    BY VFSAssumption DEF FreeSlots, Slot
  <2> QED BY <2>1, MinIsElement
<1>4. CASE /\ pc' = [pc EXCEPT ![c] = "failed"]
           /\ UNCHANGED <<tables, fd, shared>>
  BY <1>1, <1>4, OpenFails, Zenon DEF tables
<1> HIDE DEF id
<1>5. CASE /\ id # -1
           /\ ustar_opens(f, id)
           /\ pc' = [pc EXCEPT ![c] = "failed"]
           /\ UNCHANGED <<vfs_opened_files, fd, shared>>
  BY <1>1, <1>2, <1>5, OpenFails, Zenon
<1>6. CASE /\ id # -1 /\ FreeSlots # {}
           /\ ustar_opens(f, id)
           /\ vfs_opened_files' = [vfs_opened_files EXCEPT ![Min(FreeSlots)] =
                                [fs_file_id |-> id, buf_read_pos |-> 0]]
           /\ fd' = [fd EXCEPT ![c] = Min(FreeSlots)]
           /\ shared' = IF Users(Min(FreeSlots)) = {} THEN shared
                        ELSE shared \union {c} \union Users(Min(FreeSlots))
           /\ pc' = [pc EXCEPT ![c] = "read"]
  <2>1. /\ id \in UstarId /\ Min(FreeSlots) \in FreeSlots
        /\ \/ f \in Files /\ open_files[id] = NULL
           \/ f = EmptyPath /\ open_files[id] # NULL
    BY <1>2, <1>3, <1>6, Zenon
  <2> QED BY <1>1, <1>6, <2>1, OpenSlot, Zenon
<1> QED BY <1>4, <1>5, <1>6 DEF vfs_open, Goto, id

-----------------------------------------------------------------------------
\* Reading on appends the next bytes of the file to those there are.
LEMMA MoreBytes ==
  ASSUME NEW f, NEW m \in Nat, NEW n \in Nat
  PROVE  Bytes(f, m) \union {<<f, m + k>> : k \in 0 .. n - 1} = Bytes(f, m + n)
<1>1. \A x \in Bytes(f, m + n) :
        x \in Bytes(f, m) \/ x \in {<<f, m + k>> : k \in 0 .. n - 1}
  <2> SUFFICES ASSUME NEW j \in 0 .. m + n - 1
               PROVE  \/ j \in 0 .. m - 1
                      \/ \E k \in 0 .. n - 1 : j = m + k
    BY DEF Bytes
  <2>1. CASE j < m
    BY <2>1
  <2>2. CASE j >= m
    <3>1. j - m \in 0 .. n - 1 /\ j = m + (j - m)
      BY <2>2
    <3> QED BY <3>1
  <2> QED BY <2>1, <2>2
<1>2. \A x \in Bytes(f, m) : x \in Bytes(f, m + n)
  <2>1. 0 .. m - 1 \subseteq 0 .. m + n - 1
    OBVIOUS
  <2> QED BY <2>1 DEF Bytes
<1>3. \A x \in {<<f, m + k>> : k \in 0 .. n - 1} : x \in Bytes(f, m + n)
  <2>1. \A k \in 0 .. n - 1 : m + k \in 0 .. m + n - 1
    OBVIOUS
  <2> QED BY <2>1 DEF Bytes
<1> QED BY <1>1, <1>2, <1>3

\* vfs_read moves the position of one slot; nobody who has another slot, or
\* has its slot alone, notices.
LEMMA ReadStep == ASSUME IInv, NEW c \in Clients, vfs_read(c) PROVE IInv'
<1> DEFINE id == IdOf(c)
           f == IF id = -1 THEN NULL ELSE open_files[id]
           n == ustar_read(f, PosOf(c))
<1>1. /\ pc[c] = "read" /\ fd[c] \in Slot /\ Active(c)
      /\ id \in UstarId \union {-1} /\ PosOf(c) \in Nat
      /\ f \in Files \union {NULL}
  <2>1. pc[c] = "read"
    BY DEF vfs_read, At
  <2>2. Active(c) /\ fd[c] \in Slot
    BY <2>1 DEF Active, IInv, SlotInv
  <2>3. vfs_opened_files[fd[c]] \in [fs_file_id : UstarId \union {-1}, buf_read_pos : Nat]
    BY <2>2 DEF IInv, TypeOK
  <2>4. id \in UstarId \union {-1} /\ PosOf(c) \in Nat
    BY <2>3 DEF IdOf, PosOf
  <2>5. f \in Files \union {NULL}
    BY <2>4 DEF IInv, TypeOK
  <2> QED BY <2>1, <2>2, <2>4, <2>5
<1>2. UNCHANGED <<open_files, references, file, fd, shared, fault>>
  BY DEF vfs_read
<1>3. c \in Owners => /\ file[c] \in Files /\ f = file[c]
                     /\ PosOf(c) \in 0 .. Size[file[c]]
                     /\ got[c] = Bytes(file[c], PosOf(c))
                     /\ \A d \in Clients : Active(d) /\ fd[d] = fd[c] => d = c
  BY <1>1 DEF IInv, OwnInv
<1>4. CASE n = 0
  <2>1. pc' = [pc EXCEPT ![c] = "close"] /\ UNCHANGED <<vfs_opened_files, got>>
    BY <1>4 DEF vfs_read, Goto, IdOf, PosOf
  <2>2. pc'[c] = "close" /\ \A d \in Clients \ {c} : pc'[d] = pc[d]
    BY <2>1 DEF IInv, TypeOK
  <2>3. \A d \in Clients : /\ Active(d)' <=> Active(d)
                           /\ IdOf(d)' = IdOf(d) /\ PosOf(d)' = PosOf(d)
    BY <1>1, <1>2, <2>1, <2>2 DEF Active, IdOf, PosOf
  <2>4. TypeOK'
    BY <1>2, <2>1 DEF IInv, TypeOK
  <2>5. SlotInv'
    BY <1>2, <2>3, SameTable
  <2>6. c \in Owners => PosOf(c) = Size[file[c]]
    BY <1>3, <1>4, ReadLength
  <2>7. OwnInv'
    BY <1>2, <2>1, <2>2, <2>3, <2>6 DEF IInv, OwnInv, Bytes, Owners
  <2>8. DoneInv'
    BY <1>2, <2>1, <2>2 DEF IInv, DoneInv, Bytes, Owners
  <2> QED BY <1>2, <2>4, <2>5, <2>7, <2>8 DEF IInv
<1>5. CASE n # 0
  <2>1. /\ got' = [got EXCEPT ![c] = got[c] \union
                     {<<f, PosOf(c) + k>> : k \in 0 .. n - 1}]
        /\ vfs_opened_files' = [vfs_opened_files EXCEPT ![fd[c]].buf_read_pos = PosOf(c) + n]
        /\ pc' = pc
    BY <1>5 DEF vfs_read, Advance, IdOf, PosOf
  <2>2. f \in Files /\ PosOf(c) \in 0 .. Size[f]
    <3>1. f # NULL /\ ~(PosOf(c) > Size[f])
      BY <1>5 DEF ustar_read
    <3>2. f \in Files /\ Size[f] \in Nat
      BY <1>1, <3>1, VFSAssumption
    <3> QED BY <1>1, <3>1, <3>2
  <2>3. n \in Nat /\ PosOf(c) + n <= Size[f]
    BY <2>2, ReadLength
  <2>4. /\ vfs_opened_files'[fd[c]] = [fs_file_id |-> id, buf_read_pos |-> PosOf(c) + n]
        /\ \A i \in Slot \ {fd[c]} : vfs_opened_files'[i] = vfs_opened_files[i]
        /\ vfs_opened_files' \in
             [Slot -> [fs_file_id : UstarId \union {-1}, buf_read_pos : Nat]]
    <3> HIDE DEF n
    <3>1. PosOf(c) + n \in Nat
      BY <1>1, <2>3
    <3>2. vfs_opened_files \in
             [Slot -> [fs_file_id : UstarId \union {-1}, buf_read_pos : Nat]]
      BY DEF IInv, TypeOK
    <3>3. /\ vfs_opened_files' = [i \in Slot |-> vfs_opened_files'[i]]
          /\ vfs_opened_files'[fd[c]] =
               [vfs_opened_files[fd[c]] EXCEPT !.buf_read_pos = PosOf(c) + n]
          /\ \A i \in Slot \ {fd[c]} : vfs_opened_files'[i] = vfs_opened_files[i]
      BY <1>1, <2>1, <3>2, Zenon
    <3>4. vfs_opened_files[fd[c]] \in [fs_file_id : UstarId \union {-1}, buf_read_pos : Nat]
      BY <1>1, <3>2
    <3>5. vfs_opened_files'[fd[c]] = [fs_file_id |-> id, buf_read_pos |-> PosOf(c) + n]
      BY <3>3, <3>4 DEF IdOf
    <3>6. \A i \in Slot :
            vfs_opened_files'[i] \in [fs_file_id : UstarId \union {-1}, buf_read_pos : Nat]
      BY <1>1, <3>1, <3>2, <3>3, <3>5
    <3> QED BY <3>3, <3>5, <3>6
  <2>5. \A d \in Clients : Active(d)' <=> Active(d)
    BY <2>1 DEF Active
  <2>6. \A d \in Clients : Active(d) =>
          IdOf(d)' = IdOf(d) /\ (fd[d] # fd[c] => PosOf(d)' = PosOf(d))
    <3>1. \A d \in Clients : Active(d) => fd[d] \in Slot
      BY DEF IInv, SlotInv
    <3> QED BY <1>2, <2>4, <3>1 DEF IdOf, PosOf
  <2>7. PosOf(c)' = PosOf(c) + n
    BY <1>2, <2>4 DEF PosOf
  <2> HIDE DEF n
  <2>8. {<<f, PosOf(c) + k>> : k \in 0 .. n - 1} \subseteq Files \X Nat
    BY <1>1, <2>2, <2>3
  <2>9. /\ got' \in [Clients -> SUBSET (Files \X Nat)]
        /\ got'[c] = got[c] \union {<<f, PosOf(c) + k>> : k \in 0 .. n - 1}
        /\ \A d \in Clients \ {c} : got'[d] = got[d]
    BY <2>1, <2>8 DEF IInv, TypeOK
  <2>10. TypeOK'
    BY <1>2, <2>1, <2>4, <2>9 DEF IInv, TypeOK
  <2>11. SlotInv'
    BY <1>2, <2>5, <2>6, SameTable
  <2>12. OwnInv'
    <3> SUFFICES ASSUME NEW d \in Owners', Active(d)'
                 PROVE  /\ \A e \in Clients : Active(e)' /\ fd'[e] = fd'[d] => e = d
                        /\ file'[d] \in Files
                        /\ IdOf(d)' # -1 /\ open_files'[IdOf(d)'] = file'[d]
                        /\ PosOf(d)' \in 0 .. Size[file'[d]]
                        /\ got'[d] = Bytes(file'[d], PosOf(d)')
                        /\ pc'[d] = "close" => PosOf(d)' = Size[file'[d]]
      BY DEF OwnInv, Bytes
    <3>1. d \in Clients /\ d \in Owners /\ Active(d)
      BY <1>2, <2>5 DEF Owners
    <3>2. /\ \A e \in Clients : Active(e) /\ fd[e] = fd[d] => e = d
          /\ file[d] \in Files
          /\ IdOf(d) # -1 /\ open_files[IdOf(d)] = file[d]
          /\ PosOf(d) \in 0 .. Size[file[d]]
          /\ got[d] = Bytes(file[d], PosOf(d))
          /\ pc[d] = "close" => PosOf(d) = Size[file[d]]
      BY <3>1 DEF IInv, OwnInv
    <3>3. \A e \in Clients : Active(e)' /\ fd'[e] = fd'[d] => e = d
      BY <1>2, <2>5, <3>2
    <3>4. CASE d = c
      <4>1. PosOf(c) + n \in 0 .. Size[file[c]]
        BY <1>1, <1>3, <2>2, <2>3, <3>1, <3>4, VFSAssumption
      <4>2. got'[c] = Bytes(file[c], PosOf(c) + n)
        <5>1. /\ f = file[c] /\ got[c] = Bytes(file[c], PosOf(c))
              /\ got'[c] = got[c] \union {<<f, PosOf(c) + k>> : k \in 0 .. n - 1}
          BY <1>3, <2>9, <3>1, <3>4
        <5> HIDE DEF f
        <5>2. Bytes(f, PosOf(c)) \union {<<f, PosOf(c) + k>> : k \in 0 .. n - 1}
                = Bytes(f, PosOf(c) + n)
          BY <1>1, <2>3, MoreBytes, Zenon
        <5> QED BY <5>1, <5>2
      <4> QED BY <1>1, <1>2, <2>1, <2>6, <2>7, <3>1, <3>2, <3>3, <3>4, <4>1, <4>2
    <3>5. CASE d # c
      <4>1. fd[d] # fd[c]
        BY <1>1, <3>2, <3>5
      <4> QED BY <1>2, <2>1, <2>6, <2>9, <3>1, <3>2, <3>3, <3>5, <4>1
    <3> QED BY <3>4, <3>5
  <2>13. DoneInv'
    BY <1>1, <1>2, <2>1, <2>9 DEF IInv, DoneInv, Bytes, Owners
  <2> QED BY <1>2, <2>10, <2>11, <2>12, <2>13 DEF IInv
<1> QED BY <1>4, <1>5

\* vfs_close finds an open file or a slot that has been closed already, and
\* frees no file of another slot.
LEMMA CloseStep == ASSUME IInv, NEW c \in Clients, vfs_close(c) PROVE IInv'
<1> DEFINE id == IdOf(c)
<1>1. /\ pc[c] = "close" /\ Active(c) /\ fd[c] \in Slot
      /\ id \in UstarId \union {-1}
      /\ id # -1 => open_files[id] # NULL /\ fd[c] \in Holding(id)
  <2>1. pc[c] = "close" /\ Active(c)
    BY DEF vfs_close, At, Active
  <2> QED BY <2>1, HeldIsOpen
<1>2. UNCHANGED <<file, fd, shared, got>>
  BY DEF vfs_close
<1>3. pc' = [pc EXCEPT ![c] = "closed"] /\ fault' = fault
  BY <1>1 DEF vfs_close, Goto, IdOf
<1>4. pc'[c] = "closed" /\ \A d \in Clients \ {c} : pc'[d] = pc[d]
  BY <1>3 DEF IInv, TypeOK
<1>5. \A d \in Clients : Active(d)' => Active(d) /\ d # c
  BY <1>4 DEF Active
<1>6. c \in Owners => file[c] \in Files /\ got[c] = Bytes(file[c], Size[file[c]])
  BY <1>1 DEF IInv, OwnInv
<1>7. DoneInv'
  BY <1>2, <1>4, <1>6 DEF IInv, DoneInv, Bytes, Owners
<1>8. CASE id = -1
  <2>1. UNCHANGED <<vfs_opened_files, open_files, references>>
    BY <1>8 DEF vfs_close, tables, IdOf
  <2>2. \A d \in Clients : IdOf(d)' = IdOf(d) /\ PosOf(d)' = PosOf(d)
    BY <1>2, <2>1 DEF IdOf, PosOf
  <2>3. TypeOK'
    BY <1>2, <1>3, <2>1 DEF IInv, TypeOK
  <2>4. SlotInv'
    BY <1>2, <1>5, <2>1, <2>2, SameTable
  <2>5. OwnInv'
    BY <1>2, <1>4, <1>5, <2>1, <2>2 DEF IInv, OwnInv, Bytes, Owners
  <2> QED BY <1>3, <1>7, <2>3, <2>4, <2>5 DEF IInv
<1>9. CASE id # -1
  <2>1. /\ ustar_close(id)
        /\ vfs_opened_files' = [vfs_opened_files EXCEPT ![fd[c]].fs_file_id = -1]
    BY <1>1, <1>9 DEF vfs_close, ClosedId, IdOf
  <2>2. /\ vfs_opened_files'[fd[c]] = [fs_file_id |-> -1, buf_read_pos |-> PosOf(c)]
        /\ \A i \in Slot \ {fd[c]} : vfs_opened_files'[i] = vfs_opened_files[i]
        /\ vfs_opened_files' \in
             [Slot -> [fs_file_id : UstarId \union {-1}, buf_read_pos : Nat]]
    <3>1. vfs_opened_files \in
             [Slot -> [fs_file_id : UstarId \union {-1}, buf_read_pos : Nat]]
      BY DEF IInv, TypeOK
    <3>2. /\ vfs_opened_files' = [i \in Slot |-> vfs_opened_files'[i]]
          /\ vfs_opened_files'[fd[c]] = [vfs_opened_files[fd[c]] EXCEPT !.fs_file_id = -1]
          /\ \A i \in Slot \ {fd[c]} : vfs_opened_files'[i] = vfs_opened_files[i]
      BY <1>1, <2>1, <3>1, Zenon
    <3>3. vfs_opened_files[fd[c]] \in [fs_file_id : UstarId \union {-1}, buf_read_pos : Nat]
      BY <1>1, <3>1
    <3>4. vfs_opened_files'[fd[c]] = [fs_file_id |-> -1, buf_read_pos |-> PosOf(c)]
      BY <3>2, <3>3 DEF PosOf
    <3>5. PosOf(c) \in Nat
      BY <3>3 DEF PosOf
    <3>6. \A i \in Slot :
            vfs_opened_files'[i] \in [fs_file_id : UstarId \union {-1}, buf_read_pos : Nat]
      BY <1>1, <3>1, <3>2, <3>4, <3>5
    <3> QED BY <3>2, <3>4, <3>6
  <2>3. /\ id \in UstarId /\ references[id] \in 1 .. MaxReferences
        /\ references \in [UstarId -> 0 .. MaxReferences]
        /\ open_files \in [UstarId -> Files \union {NULL}]
    BY <1>1, <1>9, VFSAssumption DEF IInv, TypeOK, SlotInv
  <2>4. /\ references' \in [UstarId -> 0 .. MaxReferences]
        /\ references'[id] = references[id] - 1
        /\ \A k \in UstarId \ {id} : references'[k] = references[k]
    <3>1. references[id] - 1 \in 0 .. MaxReferences
      BY <2>3, VFSAssumption
    <3> QED BY <2>1, <2>3, <3>1 DEF ustar_close
  <2>5. /\ open_files' \in [UstarId -> Files \union {NULL}]
        /\ open_files'[id] = IF references[id] - 1 < 1 THEN NULL ELSE open_files[id]
        /\ \A k \in UstarId \ {id} : open_files'[k] = open_files[k]
    BY <2>1, <2>3 DEF ustar_close
  <2>6. \A k \in UstarId : references'[k] = 0 <=> open_files'[k] = NULL
    <3>1. references'[id] = 0 <=> open_files'[id] = NULL
      BY <1>1, <1>9, <2>3, <2>4, <2>5
    <3> QED BY <2>4, <2>5, <3>1 DEF IInv, SlotInv
  <2>7. TypeOK'
    BY <1>2, <1>3, <2>2, <2>4, <2>5, Zenon DEF IInv, TypeOK
  <2>8. \A d \in Clients : Active(d) /\ fd[d] # fd[c] =>
          IdOf(d)' = IdOf(d) /\ PosOf(d)' = PosOf(d)
    <3>1. \A d \in Clients : Active(d) => fd[d] \in Slot
      BY DEF IInv, SlotInv
    <3> QED BY <1>2, <2>2, <3>1 DEF IdOf, PosOf
  <2>9. SlotInv'
    <3>1. \A d \in Clients : Active(d)' => fd'[d] \in Slot
      BY <1>2, <1>5 DEF IInv, SlotInv
    <3>2. ASSUME NEW k \in UstarId PROVE Holding(k)' \subseteq Holding(k) \ {fd[c]}
      <4> SUFFICES ASSUME NEW i \in Holding(k)' PROVE i \in Holding(k) \ {fd[c]}
        OBVIOUS
      <4>1. i \in Slot /\ vfs_opened_files'[i].fs_file_id = k
        BY DEF Holding
      <4>2. i # fd[c]
        BY <2>2, <4>1 DEF UstarId
      <4>3. PICK d \in Clients : Active(d)' /\ fd'[d] = i
        BY DEF Holding, Held
      <4>4. Active(d) /\ fd[d] = i /\ vfs_opened_files[i].fs_file_id = k
        BY <1>2, <1>5, <2>2, <4>1, <4>2, <4>3
      <4> QED BY <4>1, <4>2, <4>4 DEF Holding, Held
    <3>3. ASSUME NEW k \in UstarId PROVE Cardinality(Holding(k)') <= references'[k]
      <4>1. references[k] \in Nat /\ Cardinality(Holding(k)) <= references[k]
        BY DEF IInv, TypeOK, SlotInv
      <4>2. Holding(k) \in SUBSET Slot
        BY DEF Holding
      <4>3. Cardinality(Holding(k)) \in Nat
        BY <4>2, SlotSets
      <4>4. CASE k = id
        <5>1. Cardinality(Holding(k)') \in Nat
              /\ Cardinality(Holding(k)') <= Cardinality(Holding(k)) - 1
          BY <1>1, <1>9, <3>2, <4>2, <4>4, SlotSets
        <5>2. references'[k] = references[k] - 1
          BY <2>4, <4>4
        <5> QED BY <4>1, <4>3, <5>1, <5>2
      <4>5. CASE k # id
        <5>1. Holding(k)' \subseteq Holding(k)
          BY <3>2
        <5>2. Cardinality(Holding(k)') \in Nat
              /\ Cardinality(Holding(k)') <= Cardinality(Holding(k))
          BY <4>2, <5>1, SlotSets
        <5>3. references'[k] = references[k]
          BY <2>4, <4>5
        <5> QED BY <4>1, <4>3, <5>2, <5>3
      <4> QED BY <4>4, <4>5
    <3> QED BY <2>6, <3>1, <3>3 DEF SlotInv
  <2>10. OwnInv'
    <3> SUFFICES ASSUME NEW d \in Owners', Active(d)'
                 PROVE  /\ \A e \in Clients : Active(e)' /\ fd'[e] = fd'[d] => e = d
                        /\ file'[d] \in Files
                        /\ IdOf(d)' # -1 /\ open_files'[IdOf(d)'] = file'[d]
                        /\ PosOf(d)' \in 0 .. Size[file'[d]]
                        /\ got'[d] = Bytes(file'[d], PosOf(d)')
                        /\ pc'[d] = "close" => PosOf(d)' = Size[file'[d]]
      BY DEF OwnInv, Bytes
    <3>1. d \in Clients /\ d \in Owners /\ Active(d) /\ d # c
      BY <1>2, <1>5 DEF Owners
    <3>2. /\ \A e \in Clients : Active(e) /\ fd[e] = fd[d] => e = d
          /\ file[d] \in Files
          /\ IdOf(d) # -1 /\ open_files[IdOf(d)] = file[d]
          /\ PosOf(d) \in 0 .. Size[file[d]]
          /\ got[d] = Bytes(file[d], PosOf(d))
          /\ pc[d] = "close" => PosOf(d) = Size[file[d]]
      BY <3>1, Zenon DEF IInv, OwnInv
    <3>3. fd[d] # fd[c]
      BY <1>1, <3>1, <3>2
    <3>4. IdOf(d)' = IdOf(d) /\ PosOf(d)' = PosOf(d) /\ IdOf(d) \in UstarId
      BY <2>8, <3>1, <3>2, <3>3, HeldIsOpen
    <3>5. open_files'[IdOf(d)] = open_files[IdOf(d)]
      <4>1. CASE IdOf(d) # id
        BY <2>5, <3>4, <4>1
      <4>2. CASE IdOf(d) = id
        <5>1. PICK k \in UstarId : k = id
          BY <2>3
        <5>2. /\ fd[d] \in Holding(k)' /\ Holding(k)' \in SUBSET Slot
              /\ {} \subseteq Holding(k)' \ {fd[d]}
          <6>1. fd[d] \in Slot /\ fd'[d] = fd[d] /\ IdOf(d)' = k
            BY <1>2, <3>1, <3>4, <4>2, <5>1 DEF IInv, SlotInv
          <6> QED BY <3>1, <6>1 DEF Holding, Held, IdOf
        <5>3. /\ Cardinality({}) \in Nat /\ Cardinality(Holding(k)') \in Nat
              /\ Cardinality({}) <= Cardinality(Holding(k)') - 1
          BY <5>2, SlotSets
        <5>4. Cardinality(Holding(k)') <= references'[k]
          BY <2>9 DEF SlotInv
        <5>5. ~(references[id] - 1 < 1)
          BY <2>3, <2>4, <5>1, <5>3, <5>4
        <5> QED BY <2>5, <4>2, <5>5
      <4> QED BY <4>1, <4>2
    <3> QED BY <1>2, <1>4, <1>5, <3>1, <3>2, <3>4, <3>5
  <2> QED BY <1>3, <1>7, <2>7, <2>9, <2>10 DEF IInv
<1> QED BY <1>8, <1>9

\* The next process of the same program begins with nothing.
LEMMA RestartStep == ASSUME IInv, NEW c \in Clients, restart(c) PROVE IInv'
<1>1. /\ pc[c] \in {"closed", "failed"}
      /\ pc' = [pc EXCEPT ![c] = "open"]
      /\ file' = [file EXCEPT ![c] = NULL]
      /\ fd' = [fd EXCEPT ![c] = -1]
      /\ shared' = shared \ {c}
      /\ got' = [got EXCEPT ![c] = {}]
      /\ UNCHANGED <<vfs_opened_files, open_files, references, fault>>
  BY DEF restart, Goto, tables
<1>2. /\ pc'[c] = "open" /\ got'[c] = {}
      /\ \A d \in Clients \ {c} : /\ pc'[d] = pc[d] /\ file'[d] = file[d]
                                  /\ fd'[d] = fd[d] /\ got'[d] = got[d]
  BY <1>1 DEF IInv, TypeOK
<1>3. \A d \in Clients : Active(d)' => /\ Active(d) /\ d # c
                                       /\ IdOf(d)' = IdOf(d) /\ PosOf(d)' = PosOf(d)
  BY <1>1, <1>2 DEF Active, IdOf, PosOf
<1>4. TypeOK'
  BY <1>1 DEF IInv, TypeOK
<1>5. SlotInv'
  BY <1>1, <1>2, <1>3, SameTable
<1>6. OwnInv'
  BY <1>1, <1>2, <1>3 DEF IInv, OwnInv, Bytes, Owners
<1>7. DoneInv'
  BY <1>1, <1>2 DEF IInv, DoneInv, Bytes, Owners
<1> QED BY <1>1, <1>4, <1>5, <1>6, <1>7 DEF IInv

-----------------------------------------------------------------------------
\* Every step preserves the invariant.
LEMMA NextInv == ASSUME IInv, [Next]_vars PROVE IInv'
<1>1. CASE UNCHANGED vars
  <2>1. TypeOK' /\ SlotInv'
    BY <1>1, SameTable DEF vars, tables, IInv, TypeOK, Active, IdOf
  <2>2. OwnInv'
    BY <1>1 DEF vars, tables, IInv, OwnInv, Active, IdOf, PosOf, Bytes, Owners
  <2>3. DoneInv'
    BY <1>1 DEF vars, tables, IInv, DoneInv, Bytes, Owners
  <2>4. ~fault'
    BY <1>1 DEF vars, tables, IInv
  <2> QED BY <2>1, <2>2, <2>3, <2>4 DEF IInv
<1> QED BY <1>1, OpenStep, ReadStep, CloseStep, RestartStep DEF Next, Step

\* The invariant holds in every reachable state.
LEMMA Inductive == Spec => []IInv
BY InitInv, NextInv, PTL DEF Spec

(***************************************************************************)
(* The tables of vfs.c and ustar.c keep their types: every descriptor that *)
(* vfs_read and vfs_close look up is a slot, and every ustar id in a slot  *)
(* is one of the table or -1.                                              *)
(***************************************************************************)
THEOREM TypeCorrect == Spec => []TypeOK
<1>1. IInv => TypeOK
  BY DEF IInv
<1> QED BY <1>1, Inductive, PTL

(***************************************************************************)
(* vfs_close never makes ustar_close dereference an empty entry, although  *)
(* several clients may close through the same slot.                        *)
(***************************************************************************)
THEOREM CloseAlwaysFindsFile == Spec => []CloseFindsFile
<1>1. IInv => CloseFindsFile
  BY DEF IInv, CloseFindsFile
<1> QED BY <1>1, Inductive, PTL

(***************************************************************************)
(* A client that shares its slot with nobody reads the file it has named,  *)
(* all of it and nothing else, for every size and every length of a read,  *)
(* whatever others open, the path "" included.                             *)
(***************************************************************************)
THEOREM AlwaysReadsItsFile == Spec => []ReadsItsFile
<1>1. ASSUME IInv PROVE ReadsItsFile
  <2> SUFFICES ASSUME NEW c \in Owners
               PROVE  /\ \A x \in got[c] : x[1] = file[c]
                      /\ pc[c] \in {"close", "closed"} =>
                           got[c] = {file[c]} \X (0 .. Size[file[c]] - 1)
    BY DEF ReadsItsFile, Owners
  <2>1. \A f, n : \A x \in Bytes(f, n) : x[1] = f
    BY DEF Bytes
  <2>2. /\ c \in Clients \ shared
        /\ pc[c] \in {"open", "failed", "closed", "read", "close"}
    BY <1>1 DEF IInv, TypeOK, Owners
  <2>3. CASE pc[c] \in {"open", "failed"}
    BY <1>1, <2>2, <2>3 DEF IInv, DoneInv
  <2>4. CASE pc[c] = "closed"
    BY <1>1, <2>1, <2>4 DEF IInv, DoneInv, Bytes
  <2>5. CASE pc[c] \in {"read", "close"}
    <3>1. /\ got[c] = Bytes(file[c], PosOf(c))
          /\ pc[c] = "close" => PosOf(c) = Size[file[c]]
      BY <1>1, <2>5 DEF IInv, OwnInv, Active
    <3> QED BY <2>1, <2>5, <3>1 DEF Bytes
  <2> QED BY <2>2, <2>3, <2>4, <2>5
<1> QED BY <1>1, Inductive, PTL
=============================================================================
