-------------------------------- MODULE Ustar --------------------------------
(***************************************************************************)
(* Finding a file in the tar archive: tar_file_lookup of kernel/fs/ustar.c *)
(* walks the headers, each followed by the data of its file rounded up to  *)
(* whole records, and reads the size of a file from its octal digits       *)
(* (oct_ascii_to_dec of kernel/lib/util.c).  An archive ends with two      *)
(* records of zeros.                                                       *)
(*                                                                         *)
(* Addresses are counted in bytes from tar_fs_start_address.               *)
(***************************************************************************)
EXTENDS Integers, Sequences, FiniteSetsExt

CONSTANTS
  Names,      \* the file names there are
  Sizes,      \* the file sizes there are
  MaxFiles,   \* bound of the model: files in an archive
  RECORD      \* bytes of a record, 512

\* Ten octal digits of a size are read.
ASSUME UstarAssumption ==
  /\ Names # {}
  /\ Sizes # {} /\ Sizes \subseteq 0 .. 8^10 - 1
  /\ MaxFiles \in Nat
  /\ RECORD \in Nat \ {0}

WIDTH == 12   \* the field file_size: 11 digits and a NUL
NoHeader == -1   \* NULL

\* What the archiver writes into the field file_size (external): n in octal,
\* with leading zeros.
FileSizeField(n) == [k \in 0 .. WIDTH - 2 |-> (n \div 8^(WIDTH - 2 - k)) % 8]

VARIABLES
  archive,         \* sequence of Header
  searched_file,
  current_record,  \* address
  zero_counter,
  result,          \* address of the header found, or NoHeader
  done

lookupvars == <<archive, searched_file, current_record, zero_counter, result, done>>
inputs == <<archive, searched_file>>

\* The field file_size of a header is FileSizeField(size).
Header == [name : Names, size : Sizes]

-----------------------------------------------------------------------------
(* An operator named like the one after it, with a suffix, is a mutant of  *)
(* it: the same code with a bug.                                           *)

\* oct_ascii_to_dec skips the first digit, which has to be 0, and adds up the
\* others: res is what it has after k of them.
oct_ascii_to_dec_short(number) ==
  LET res[k \in 0 .. WIDTH - 2] ==
        IF k = 0 THEN 0 ELSE res[k - 1] + number[k] * 8^(WIDTH - 2 - k)
  IN  res[WIDTH - 3]
oct_ascii_to_dec(number) ==
  LET res[k \in 0 .. WIDTH - 2] ==
        IF k = 0 THEN 0 ELSE res[k - 1] + number[k] * 8^(WIDTH - 2 - k)
  IN  res[WIDTH - 2]

\* file_size rounded up to whole records
RoundUp(n) == IF n % RECORD # 0 THEN (n \div RECORD + 1) * RECORD ELSE n

\* Where the header after one at address a, of a file of that size field, is.
NextRecord(a, field) == a + RECORD + RoundUp(oct_ascii_to_dec(field))

\* The layout of an archive (external): where the header of file k is.  One
\* past the last file is the first record of zeros.
HeaderAddress[k \in 1 .. Len(archive) + 1] ==
  IF k = 1 THEN 0
  ELSE LET records == 1 + (archive[k - 1].size + RECORD - 1) \div RECORD
       IN  HeaderAddress[k - 1] + records * RECORD

Addresses == {HeaderAddress[k] : k \in 1 .. Len(archive)}
HeaderAt(a) == archive[CHOOSE k \in 1 .. Len(archive) : HeaderAddress[k] = a]

LookupTypeOK ==
  /\ archive \in Seq(Header)
  /\ searched_file \in Names
  /\ current_record \in Nat
  /\ zero_counter \in 0 .. 2
  /\ result \in Addresses \union {NoHeader}
  /\ done \in BOOLEAN

LookupInit ==
  /\ archive \in UNION {[1 .. n -> Header] : n \in 0 .. MaxFiles}
  /\ searched_file \in Names
  /\ current_record = 0
  /\ zero_counter = 0
  /\ result = NoHeader
  /\ done = FALSE

-----------------------------------------------------------------------------
\* "while (zero_counter < 2)"
MoreRecords == zero_counter < 2

\* zero_counter after a record of zeros
CountZeroReset(n) == 0
CountZero(n) == n + 1

\* is_zeroed(current_record): counted, and looked at again.
tar_file_lookup_zero ==
  /\ ~done /\ MoreRecords
  /\ current_record \notin Addresses
  /\ zero_counter' = CountZero(zero_counter)
  /\ UNCHANGED <<inputs, current_record, result, done>>

tar_file_lookup_header ==
  /\ ~done /\ MoreRecords
  /\ current_record \in Addresses
  /\ zero_counter' = 0
  /\ IF HeaderAt(current_record).name = searched_file
       THEN /\ result' = current_record
            /\ done' = TRUE
            /\ UNCHANGED current_record
       ELSE /\ current_record' =
                 NextRecord(current_record, FileSizeField(HeaderAt(current_record).size))
            /\ UNCHANGED <<result, done>>
  /\ UNCHANGED inputs

tar_file_lookup_not_found ==
  /\ ~done /\ ~MoreRecords
  /\ done' = TRUE
  /\ UNCHANGED <<inputs, current_record, zero_counter, result>>

tar_file_lookup ==
  tar_file_lookup_zero \/ tar_file_lookup_header \/ tar_file_lookup_not_found

LookupSpec == LookupInit /\ [][tar_file_lookup]_lookupvars

-----------------------------------------------------------------------------
\* The files with the searched name
Matches == {k \in 1 .. Len(archive) : archive[k].name = searched_file}

(***************************************************************************)
(* tar_file_lookup returns the first header with that name, or NULL if     *)
(* there is none.                                                          *)
(***************************************************************************)
FindsFirst ==
  done => result = IF Matches = {} THEN NoHeader ELSE HeaderAddress[Min(Matches)]
=============================================================================
