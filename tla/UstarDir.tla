------------------------------ MODULE UstarDir ------------------------------
(***************************************************************************)
(* Listing a directory, as ls_command does: vfs_read_dir of kernel/fs/vfs.c *)
(* and ustar_read_dir of kernel/fs/ustar.c, over the archive and the walk  *)
(* of Ustar.  A behaviour is one lookup or one listing.                    *)
(*                                                                         *)
(* A path is a sequence of characters.  The array pathes is not            *)
(* initialised: its slots beyond those written are NULL (clean), or hold   *)
(* anything, and a listing that uses one is not followed further (broken). *)
(***************************************************************************)
EXTENDS Ustar

CONSTANTS
  Chars,       \* the characters of names and paths
  Paths,       \* paths there are to list, from "/"
  PATHES,      \* slots of pathes, 50 in the code
  BUFFER,      \* bytes of the caller's buffer, which read_dir does not check
  MaxListed    \* bound of the model: entries of an archive that is listed

Slash == "/"
Root == <<Slash>>

\* A name in an archive is not empty and does not start with a /, and it has no
\* two / in a row.
ASSUME UstarDirAssumption ==
  /\ Slash \in Chars
  /\ Names \subseteq Seq(Chars) /\ Paths \subseteq Seq(Chars)
  /\ \A s \in Names :
       /\ s # <<>> /\ s[1] # Slash
       /\ \A n \in 1 .. Len(s) - 1 : s[n] = Slash => s[n + 1] # Slash
  /\ PATHES \in Nat \ {0} /\ BUFFER \in Nat /\ MaxListed \in Nat

VARIABLES
  op,       \* "lookup" or "read_dir"
  dir_pc,   \* of the listing
  dir,      \* the path; relative to the mount point once resolved
  path,     \* local: what is left of the name of an entry below dir
  index,    \* local
  pathes,   \* local: the slots written
  clean,    \* the other slots hold NULL
  listing,  \* what ustar_read_dir returns
  broken    \* memory outside what is modelled has been used

locals == <<dir_pc, dir, path, index, pathes, listing, broken>>
dirvars == <<op, clean, locals>>
allvars == <<lookupvars, dirvars>>

\* The archives that are listed; the size of the files does not matter here.
ListedArchives ==
  UNION {[1 .. n -> [name : Names, size : {Max(Sizes)}]] : n \in 0 .. MaxListed}

DirInit ==
  /\ \/ op = "lookup" /\ LookupInit /\ dir = Root /\ clean = TRUE
     \/ /\ op = "read_dir"
        /\ archive \in ListedArchives
        /\ searched_file = CHOOSE n \in Names : TRUE
        /\ current_record = 0 /\ zero_counter = 0
        /\ result = NoHeader /\ done = FALSE
        /\ dir \in Paths /\ clean \in BOOLEAN
  /\ dir_pc = "start"
  /\ path = <<>> /\ index = 0 /\ pathes = <<>> /\ listing = <<>>
  /\ broken = FALSE

\* Type invariant of tar_file_lookup and of ustar_read_dir's locals: strings are
\* sequences of characters, and no more slots of pathes are written than it has.
DirTypeOK ==
  /\ LookupTypeOK
  /\ op \in {"lookup", "read_dir"}
  /\ dir_pc \in {"start", "next", "scan", "out", "done"}
  /\ {dir, path} \subseteq Seq(Chars)
  /\ index \in 0 .. PATHES
  /\ {pathes, listing} \subseteq Seq(Seq(Chars)) /\ Len(pathes) <= PATHES
  /\ {clean, broken} \subseteq BOOLEAN

Listing == op = "read_dir" /\ ~broken

-----------------------------------------------------------------------------
(* An operator named like the one after it, with a suffix, is a mutant of  *)
(* it: the same code with a bug.                                           *)

WithoutSlash(s) == IF s # <<>> /\ s[1] = Slash THEN Tail(s) ELSE s

\* How many characters dest and prefix share at their start
Shared(dest, prefix) ==
  Max({n \in 0 .. Min({Len(dest), Len(prefix)}) : SubSeq(dest, 1, n) = SubSeq(prefix, 1, n)})

\* remove_prefix: it only tests that a / follows what is shared.
remove_prefix_keeps_slash(dest, prefix) ==
  LET d == WithoutSlash(dest)
      p == WithoutSlash(prefix)
      n == Shared(d, p)
  IN  IF p = <<>> THEN d
      ELSE IF n < Len(d) /\ d[n + 1] = Slash THEN SubSeq(d, n + 1, Len(d))
      ELSE <<>>
remove_prefix(dest, prefix) ==
  LET d == WithoutSlash(dest)
      p == WithoutSlash(prefix)
      n == Shared(d, p)
  IN  IF p = <<>> THEN d
      ELSE IF n < Len(d) /\ d[n + 1] = Slash THEN SubSeq(d, n + 2, Len(d))
      ELSE <<>>

\* A string that is_in_same_dir has cut off at its first /
Cut(s) ==
  LET head == IF s # <<>> /\ s[1] = Slash THEN Root ELSE <<>>
      rest == WithoutSlash(s)
      end == Min({Len(rest)} \union {n - 1 : n \in {m \in DOMAIN rest : rest[m] = Slash}})
  IN  head \o SubSeq(rest, 1, end)

is_in_same_dir_whole(path1, path2) == path1 = path2
is_in_same_dir(path1, path2) ==
  WithoutSlash(path2) # <<>> /\ WithoutSlash(Cut(path1)) = WithoutSlash(Cut(path2))

-----------------------------------------------------------------------------
\* vfs_read_dir: get_rel_path.  ls_command does not end the path it has read
\* with a NUL, so that there may be more behind it; and get_rel_path walks on
\* beyond the end of both strings as long as they agree, so that of the path
\* "/" it returns the empty string or whatever follows.
vfs_read_dir ==
  /\ Listing /\ dir_pc = "start"
  /\ broken' \in BOOLEAN
  /\ dir' = WithoutSlash(dir)
  /\ dir_pc' = "next"
  /\ UNCHANGED <<lookupvars, op, path, index, pathes, clean, listing>>

\* The loop of ustar_read_dir: tar_file_prefix_lookup returns the next header.
ustar_read_dir_header ==
  /\ Listing /\ dir_pc = "next"
  /\ current_record \in Addresses
  /\ path' = remove_prefix(HeaderAt(current_record).name, dir)
  /\ current_record' = NextRecord(current_record, FileSizeField(HeaderAt(current_record).size))
  /\ dir_pc' = IF path' = <<>> THEN "next" ELSE "scan"
  /\ index' = 0
  /\ UNCHANGED <<inputs, zero_counter, result, done, op, dir, pathes, clean, listing, broken>>

\* tar_file_prefix_lookup finds the end of the archive.
ustar_read_dir_end ==
  /\ Listing /\ dir_pc = "next"
  /\ current_record \notin Addresses
  /\ dir_pc' = "out"
  /\ UNCHANGED <<lookupvars, op, dir, path, index, pathes, clean, listing, broken>>

\* pathes[index] is compared; both strings are cut off in place.
ustar_read_dir_compare ==
  /\ Listing /\ dir_pc = "scan"
  /\ index < PATHES /\ index < Len(pathes)
  /\ LET p == pathes[index + 1]
         q == remove_prefix(p, dir)
         compared == WithoutSlash(q) # <<>>
     IN  /\ dir_pc' = IF is_in_same_dir(path, q) THEN "next" ELSE "scan"
         /\ path' = IF compared THEN Cut(path) ELSE path
         /\ pathes' = IF compared
                      THEN [pathes EXCEPT ![index + 1] =
                              SubSeq(p, 1, Len(p) - Len(q)) \o Cut(q)]
                      ELSE pathes
  /\ index' = index + 1
  /\ UNCHANGED <<lookupvars, op, dir, clean, listing, broken>>

\* The first slot that has not been written ends the scan, if it holds NULL.
ustar_read_dir_add ==
  /\ Listing /\ dir_pc = "scan"
  /\ ~(index < PATHES /\ index < Len(pathes))
  /\ IF Len(pathes) = PATHES \/ ~clean
     THEN broken' = TRUE /\ UNCHANGED <<pathes, dir_pc>>
     ELSE /\ pathes' = Append(pathes, path)
          /\ dir_pc' = "next"
          /\ UNCHANGED broken
  /\ UNCHANGED <<lookupvars, op, dir, path, index, clean, listing>>

\* Bytes of a listing: each path and a newline
Bytes(ps) == MapThenSumSet(LAMBDA n : Len(ps[n]) + 1, DOMAIN ps)

ustar_read_dir_return ==
  /\ Listing /\ dir_pc = "out"
  /\ IF (Len(pathes) < PATHES /\ ~clean) \/ Bytes(pathes) > BUFFER
     THEN broken' = TRUE /\ UNCHANGED <<listing, dir_pc>>
     ELSE listing' = pathes /\ dir_pc' = "done" /\ UNCHANGED broken
  /\ UNCHANGED <<lookupvars, op, dir, path, index, pathes, clean>>

ReadDir ==
  \/ vfs_read_dir \/ ustar_read_dir_header \/ ustar_read_dir_end
  \/ ustar_read_dir_compare \/ ustar_read_dir_add \/ ustar_read_dir_return

DirNext == (op = "lookup" /\ tar_file_lookup /\ UNCHANGED dirvars) \/ ReadDir

DirSpec == DirInit /\ [][DirNext]_allvars
DirFairSpec == DirSpec /\ WF_allvars(DirNext)

-----------------------------------------------------------------------------
(* What a listing should be. *)

Listed == dir_pc = "done"
ArchiveNames == {archive[n].name : n \in DOMAIN archive}

Begins(s, t) == Len(s) <= Len(t) /\ SubSeq(t, 1, Len(s)) = s

\* Where s starts with the characters of t, a / and more, what comes after
RestsBelow(t) ==
  {SubSeq(s, Len(t) + 2, Len(s)) :
     s \in {s \in ArchiveNames : Begins(Append(t, Slash), s) /\ Len(s) > Len(t) + 1}}

\* The names in the root among the first n entries, in the order in which they
\* first appear
TopNames[n \in 0 .. Len(archive)] ==
  IF n = 0 THEN <<>>
  ELSE LET top == Cut(archive[n].name)
       IN  IF top \in Range(TopNames[n - 1]) THEN TopNames[n - 1]
           ELSE Append(TopNames[n - 1], top)

(***************************************************************************)
(* ls of the root shows every file and every directory at the top of the   *)
(* archive once, however many files are below it, in the order of the      *)
(* archive: although is_in_same_dir cuts the names it compares in place,   *)
(* which are the ones that are shown.  A name that is never compared, the  *)
(* only one of its archive, is shown whole.                                *)
(***************************************************************************)
RootListsOnce ==
  Listed /\ dir = <<>> /\ Len(archive) # 1 => listing = TopNames[Len(archive)]

\* The proper prefixes of dir: remove_prefix takes a directory named like one
\* of these for dir.
PrefixesOfDir == {SubSeq(dir, 1, n) : n \in 1 .. Len(dir) - 1}
Rests == RestsBelow(dir) \union UNION {RestsBelow(t) : t \in PrefixesOfDir}

\* Some rest has the prefix again, and remove_prefix takes more off it.
Echo ==
  \E r \in Rests, t \in PrefixesOfDir \union {dir} : Begins(Append(t, Slash), r)

(***************************************************************************)
(* ls of a directory other than the root, given without a / at its end or  *)
(* a second one at its start, shows all there is below it, at any depth;   *)
(* anything else it shows is below a directory whose name is a prefix of   *)
(* dir.  No name is lost as a duplicate, and none cut, unless a path below *)
(* dir starts like dir again.                                              *)
(***************************************************************************)
ListsDirectory ==
  Listed /\ dir # <<>> /\ dir[1] # Slash /\ dir[Len(dir)] # Slash /\ ~Echo
    => RestsBelow(dir) \subseteq Range(listing) /\ Range(listing) \subseteq Rests

\* tar_file_lookup and ustar_read_dir return for every archive, unless the
\* listing has used memory that is not its own.
WalkEnds == <>(done \/ Listed \/ broken)
=============================================================================
