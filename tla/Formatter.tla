------------------------------ MODULE Formatter ------------------------------
(***************************************************************************)
(* Formatted output: format_handler of kernel/lib/formatter.c, called by   *)
(* kprintf (lib/print.c), klog (lib/logger.c) and panic (lib/panic.c),     *)
(* which formats its message once and then hands it, as a format, to       *)
(* kprintf and klog.  print_syscall, through which programs print, hands   *)
(* their text to kprintf as a format, too.                                 *)
(*                                                                         *)
(* The format is chosen while it is read.  Its caller passes one argument  *)
(* per directive.  The buffer is on the stack of the caller; the prefix of *)
(* klog is one global array, which another process may write at the same   *)
(* time.  Characters are their codes.                                      *)
(***************************************************************************)
EXTENDS Integers, Sequences, FiniteSetsExt

CONSTANTS
  BUFFER_SIZE,    \* MAX_STRING_FORMATTER_BUFFER_SIZE
  PREFIX_LENGTH,  \* LOGGER_PREFIX_LENGTH
  Numbers,        \* integer arguments there are
  Texts,          \* string arguments and prefixes there are
  Literal         \* a character of a format that is not %

ASSUME FormatterAssumption ==
  /\ BUFFER_SIZE \in Nat \ {0}
  /\ PREFIX_LENGTH \in Nat \ {0, 1}
  /\ Numbers \subseteq Int /\ Texts \subseteq Seq(Nat \ {0})
  /\ Literal \in Nat \ {0, 37}

NUL == 0
Space == 32
Percent == 37
Zero == 48   \* '0'

VARIABLES
  call,      \* the function that has been called
  at,        \* per process that is in vklog or formats
  buffer,    \* char buffer[BUFFER_SIZE]
  i,         \* offset in it
  fmt,       \* text that kprintf and klog get as a format
  screen,    \* what limine_write has got
  prefix,    \* the global array of vklog
  new_prefix, \* per process: its argument
  k,         \* per process: its index into prefix
  expected,  \* history variable: what printf would have printed
  inexact,   \* history variable: a conversion the code lacks or does its own way
  skipped,   \* history variable: a directive has left its argument behind
  fault      \* "none", or the access that ends what is modelled

Thread == {"self", "other"}
Calls == {"kprintf", "klog", "panic", "print_syscall"}
text == <<buffer, i>>
message == <<fmt, screen>>
logger == <<prefix, new_prefix, k>>
history == <<expected, inexact, skipped>>
formatvars == <<call, at, text, message, logger, history, fault>>

Index == 0 .. BUFFER_SIZE - 1
PrefixIndex == 0 .. PREFIX_LENGTH - 1

FormatTypeOK ==
  /\ call \in Calls
  /\ at \in [Thread -> {"prefix", "nul", "copy", "format", "out", "again",
                         "log", "append", "print", "idle", "done"}]
  /\ buffer \in [Index -> Nat]
  /\ i \in 0 .. BUFFER_SIZE
  /\ \A s \in {fmt, screen, expected} : s \in Seq(Nat)
  /\ prefix \in [PrefixIndex -> Nat]
  /\ new_prefix \in [Thread -> Texts]
  /\ k \in [Thread -> 0 .. PREFIX_LENGTH]
  /\ inexact \in BOOLEAN /\ skipped \in BOOLEAN
  /\ fault \in {"none", "overrun", "overread", "wrong argument",
                "formatted twice"}

FormatInit ==
  /\ call \in Calls
  /\ at = [self |-> CASE call = "klog" -> "prefix"
                      [] call = "print_syscall" -> "print"
                      [] OTHER -> "format",
           other |-> "idle"]
  /\ buffer = [n \in Index |-> NUL]
  /\ i = 0
  /\ fmt \in IF call = "print_syscall" THEN Texts ELSE {<<>>}
  /\ screen = <<>> /\ expected = <<>>
  /\ prefix = [n \in PrefixIndex |-> NUL]
  /\ new_prefix \in [Thread -> Texts]
  /\ k = [p \in Thread |-> 0]
  /\ inexact = FALSE /\ skipped = FALSE
  /\ fault = "none"

Is(p, label) == fault = "none" /\ at[p] = label
Continue(p, label) == at' = [at EXCEPT ![p] = label]

-----------------------------------------------------------------------------
(* An operator named like the one after it, with a suffix, is a mutant of  *)
(* it: the same code with a bug.                                           *)

\* The text of an array up to its NUL, and whether it has one
Terminated(array) == \E n \in DOMAIN array : array[n] = NUL
TextOf(array) ==
  LET end == CHOOSE n \in DOMAIN array :
               array[n] = NUL /\ \A m \in 0 .. n - 1 : array[m] # NUL
  IN  [n \in 1 .. end |-> array[n - 1]]

\* The digits of a number, the lowest first.  % and / of C round towards 0, so
\* that the digits of a negative number are negative.
Digits(n, base) ==
  LET abs == IF n < 0 THEN -n ELSE n
      low[m \in 0 .. abs] ==
        IF m = 0 THEN <<>> ELSE <<m % base>> \o low[m \div base]
  IN  [d \in DOMAIN low[abs] |-> IF n < 0 THEN -low[abs][d] ELSE low[abs][d]]

Backwards(s) == [n \in 1 .. Len(s) |-> s[(Len(s) - n) + 1]]

\* format_uint and format_int; char number[len] is written out backwards.
format_int_forwards(n) ==
  IF n = 0 THEN <<Zero>> ELSE [d \in DOMAIN Digits(n, 10) |-> Zero + Digits(n, 10)[d]]
format_int(n) ==
  IF n = 0 THEN <<Zero>>
  ELSE Backwards([d \in DOMAIN Digits(n, 10) |-> Zero + Digits(n, 10)[d]])

\* hex_chars[rem]
hex_chars(d) == IF d < 10 THEN Zero + d ELSE 97 + d - 10

\* int_to_hex, of a number that is read as unsigned; hex_string has room for the
\* digits of an uint64_t.
int_to_hex(n) ==
  IF n = 0 THEN <<Zero>>
  ELSE Backwards([d \in DOMAIN Digits(n, 16) |-> hex_chars(Digits(n, 16)[d])])

\* format_string and format_char: as much of s as fits
Stored(s) ==
  LET n == Min({Len(s), BUFFER_SIZE - i})
  IN  [array |-> [x \in Index |-> IF x \in i .. i + n - 1 THEN s[x - i + 1] ELSE buffer[x]],
       offset |-> i + n]

Store(s) == buffer' = Stored(s).array /\ i' = Stored(s).offset

\* "while (*fmt && i < MAX_STRING_FORMATTER_BUFFER_SIZE)"
Formatting == Is("self", "format") /\ i < BUFFER_SIZE

\* What a conversion adds to the text printf would print
Expect(s) == expected' = expected \o s

format_literal ==
  /\ Formatting
  /\ Store(<<Literal>>)
  /\ Expect(<<Literal>>)
  /\ UNCHANGED <<call, at, message, logger, inexact, skipped, fault>>

\* A directive that takes an argument when the arguments are out of step.
va_arg_wrong ==
  /\ Formatting
  /\ skipped
  /\ fault' = "wrong argument"
  /\ UNCHANGED <<call, at, text, message, logger, history>>

\* The digits of a natural number, the highest first, by the powers of base
Numeral(n, base) ==
  LET power[l \in 0 .. n + 1] == IF l = 0 THEN 1 ELSE base * power[l - 1]
      len == CHOOSE l \in 1 .. n + 1 : power[l] > n /\ (l = 1 \/ power[l - 1] <= n)
  IN  [d \in 1 .. len |-> (n \div power[len - d]) % base]

\* The decimal numeral of n, as printf prints it
Decimal(n) ==
  LET digits == Numeral(IF n < 0 THEN -n ELSE n, 10)
      text10 == [d \in DOMAIN digits |-> Zero + digits[d]]
  IN  IF n < 0 THEN <<45>> \o text10 ELSE text10

\* %d, %i and %u
format_decimal(n) ==
  /\ Formatting /\ ~skipped
  /\ Store(format_int(n))
  /\ Expect(Decimal(n))
  /\ inexact' = (inexact \/ n < 0)
  /\ UNCHANGED <<call, at, message, logger, skipped, fault>>

\* The hexadecimal numeral of n, whose digit 10 is the character letters + 10
HexDigits(n, letters) ==
  LET digits == Numeral(n, 16)
  IN  [d \in DOMAIN digits |->
         IF digits[d] < 10 THEN Zero + digits[d] ELSE letters + digits[d]]

\* What printf prints: %x in small letters, %X in capitals, neither with "0x".
\* %p is up to the C library; the usual form is "0x" and small letters.
Hexadecimal(d, n) ==
  CASE d = "x" -> HexDigits(n, 87)
    [] d = "X" -> HexDigits(n, 55)
    [] d = "p" -> <<Zero, 120>> \o HexDigits(n, 87)

\* The test that there is room for "0x"
RoomForHexOneMore == i < BUFFER_SIZE
RoomForHex == i + 2 < BUFFER_SIZE

\* %x, %X and %p: "0x" is stored without further tests, the digits, in small
\* letters, as a string.  For %x and %X that is not what printf prints.  Without
\* room the argument is not taken.
format_hex(d, n) ==
  /\ Formatting /\ ~skipped
  /\ IF ~RoomForHex
     THEN skipped' = TRUE /\ UNCHANGED <<buffer, i, fault>>
     ELSE /\ UNCHANGED skipped
          /\ IF i + 1 \notin Index
             THEN fault' = "overrun" /\ UNCHANGED <<buffer, i>>
             ELSE Store(<<Zero, 120>> \o int_to_hex(n)) /\ UNCHANGED fault
  /\ Expect(Hexadecimal(d, n))
  /\ inexact' = (inexact \/ d # "p")
  /\ UNCHANGED <<call, at, message, logger>>

\* %s, and %c, whose argument is a text of one character
format_string(s) ==
  /\ Formatting /\ ~skipped
  /\ Store(s)
  /\ Expect(s)
  /\ UNCHANGED <<call, at, message, logger, inexact, skipped, fault>>

\* %o has no conversion and leaves its argument.
format_octal ==
  /\ Formatting
  /\ skipped' = TRUE
  /\ UNCHANGED <<call, at, text, message, logger, expected, inexact, fault>>

\* %f, %e, %g and %a, whose arguments are not among those va_arg takes here,
\* and any other character, %% included, print nothing.
format_default ==
  /\ Formatting
  /\ inexact' = TRUE
  /\ UNCHANGED <<call, at, text, message, logger, expected, skipped, fault>>

\* A % at the end: fmt++ passes the NUL.
format_percent_last ==
  /\ Formatting
  /\ fault' = "overread"
  /\ UNCHANGED <<call, at, text, message, logger, history>>

\* The format or the room ends.
format_end ==
  /\ Is("self", "format")
  /\ Continue("self", "out")
  /\ UNCHANGED <<call, text, message, logger, history, fault>>

-----------------------------------------------------------------------------
\* The end of vkprintf and of vklog, and for panic the call of kprintf.  A
\* full buffer has no NUL.
output ==
  /\ Is("self", "out")
  /\ IF ~Terminated(buffer)
     THEN fault' = "overread" /\ UNCHANGED <<at, message>>
     ELSE /\ CASE call \in {"kprintf", "print_syscall"} ->
                    screen' = TextOf(buffer) /\ Continue("self", "done") /\ UNCHANGED fmt
               [] call = "klog" ->
                    Continue("self", "done") /\ UNCHANGED message
               [] call = "panic" ->
                    fmt' = TextOf(buffer) /\ Continue("self", "again") /\ UNCHANGED screen
          /\ UNCHANGED fault
  /\ UNCHANGED <<call, text, logger, history>>

\* print_syscall: kprintf(str).  A % in the text would be a directive.
print_syscall ==
  /\ Is("self", "print")
  /\ Expect(fmt)
  /\ IF \E n \in DOMAIN fmt : fmt[n] = Percent
     THEN fault' = "formatted twice" /\ UNCHANGED <<at, text>>
     ELSE Store(fmt) /\ Continue("self", "out") /\ UNCHANGED fault
  /\ UNCHANGED <<call, message, logger, inexact, skipped>>

\* panic: kprintf(buffer).  A % in the message would be a directive again.
panic_kprintf ==
  /\ Is("self", "again")
  /\ IF \E n \in DOMAIN fmt : fmt[n] = Percent
     THEN fault' = "formatted twice" /\ UNCHANGED <<at, screen>>
     ELSE screen' = fmt /\ Continue("self", "log") /\ UNCHANGED fault
  /\ UNCHANGED <<call, text, fmt, logger, history>>

\* panic: klog(0, buffer) keeps the prefix of the last call of klog.
panic_klog ==
  /\ Is("self", "log")
  /\ buffer' = [n \in Index |-> NUL]
  /\ i' = 0
  /\ k' = [k EXCEPT !["self"] = 0]
  /\ Continue("self", "copy")
  /\ UNCHANGED <<call, message, prefix, new_prefix, history, fault>>

panic_append ==
  /\ Is("self", "append")
  /\ Store(fmt)
  /\ IF Terminated(buffer') THEN Continue("self", "done") /\ UNCHANGED fault
     ELSE fault' = "overread" /\ UNCHANGED at
  /\ UNCHANGED <<call, message, logger, history>>

-----------------------------------------------------------------------------
\* "*new_prefix != '\\0' && i < LOGGER_PREFIX_LENGTH - 2"
MoreOfPrefix(p) == k[p] < Len(new_prefix[p]) /\ k[p] < PREFIX_LENGTH - 2

\* vklog copies its argument into the global array.
vklog_prefix(p) ==
  /\ Is(p, "prefix")
  /\ IF MoreOfPrefix(p)
     THEN prefix' = [prefix EXCEPT ![k[p]] = new_prefix[p][k[p] + 1]] /\ UNCHANGED at
     ELSE prefix' = [prefix EXCEPT ![k[p]] = Space] /\ Continue(p, "nul")
  /\ k' = [k EXCEPT ![p] = @ + 1]
  /\ UNCHANGED <<call, text, message, new_prefix, history, fault>>

vklog_nul(p) ==
  /\ Is(p, "nul")
  /\ IF k[p] \in PrefixIndex
     THEN prefix' = [prefix EXCEPT ![k[p]] = NUL] /\ UNCHANGED fault
     ELSE fault' = "overrun" /\ UNCHANGED prefix
  /\ k' = [k EXCEPT ![p] = 0]
  /\ Continue(p, IF p = "self" THEN "copy" ELSE "idle")
  /\ UNCHANGED <<call, text, message, new_prefix, history>>

\* Another process calls klog.  It matters while the prefix is in use.
klog_other ==
  /\ Is("other", "idle")
  /\ at["self"] \in {"prefix", "nul", "copy"}
  /\ Continue("other", "prefix")
  /\ UNCHANGED <<call, text, message, logger, history, fault>>

\* vklog: format_string(prefix, buffer, 0), a character per step
vklog_copy ==
  /\ Is("self", "copy")
  /\ LET x == k["self"] IN
     \/ /\ x \notin PrefixIndex
        /\ fault' = "overread"
        /\ UNCHANGED <<at, buffer, i, k, expected>>
     \/ /\ x \in PrefixIndex /\ prefix[x] = NUL
        /\ Continue("self", IF call = "panic" THEN "append" ELSE "format")
        /\ UNCHANGED <<buffer, i, k, expected, fault>>
     \/ /\ x \in PrefixIndex /\ prefix[x] # NUL
        /\ Store(<<prefix[x]>>)
        /\ Expect(<<prefix[x]>>)
        /\ k' = [k EXCEPT !["self"] = @ + 1]
        /\ UNCHANGED <<at, fault>>
  /\ UNCHANGED <<call, message, prefix, new_prefix, inexact, skipped>>

-----------------------------------------------------------------------------
Directive ==
  \/ \E n \in Numbers :
       \/ format_decimal(n)
       \/ n >= 0 /\ \E d \in {"x", "X", "p"} : format_hex(d, n)
  \/ \E s \in Texts : format_string(s)
  \/ format_octal \/ format_default \/ va_arg_wrong \/ format_percent_last

FormatNext ==
  \/ format_literal \/ Directive \/ format_end
  \/ output \/ print_syscall \/ panic_kprintf \/ panic_klog \/ panic_append
  \/ \E p \in Thread : vklog_prefix(p) \/ vklog_nul(p)
  \/ klog_other \/ vklog_copy

FormatSpec == FormatInit /\ [][FormatNext]_formatvars

-----------------------------------------------------------------------------
\* The text has just been given to limine_write.
Shown == at["self"] = "log" \/ (call \in {"kprintf", "print_syscall"} /\ at["self"] = "done")

\* What the buffer holds so far
Written == [n \in 1 .. i |-> buffer[n - 1]]

(***************************************************************************)
(* What is formatted is what printf would print, cut off at the size of    *)
(* the buffer, and what reaches the screen, of panic after it has been     *)
(* formatted a second time, is all of it.  This holds as long as no %d is  *)
(* negative (format_int writes no sign), there is no directive but d, i,   *)
(* u, p, c and s, and none has left its argument to the next one, as a %p  *)
(* does with less than three characters of room.  %x and %X are not like   *)
(* printf's: format_handler treats them as %p, which puts "0x" before the  *)
(* digits and knows no capitals.                                           *)
(***************************************************************************)
PrintsLikePrintf ==
  ~inexact /\ ~skipped =>
    /\ at["self"] = "format" =>
         Written = SubSeq(expected, 1, Min({Len(expected), BUFFER_SIZE}))
    /\ Shown => screen = expected

(***************************************************************************)
(* No write of the formatter goes beyond its buffer, and none of vklog     *)
(* beyond the global prefix.  The only texts that are read beyond their    *)
(* end are those that fill the buffer, and formats that end in %: the      *)
(* prefix always has a NUL, however two calls of vklog mix their           *)
(* characters.                                                             *)
(***************************************************************************)
StaysInBuffers ==
  /\ fault # "overrun"
  /\ fault = "overread" => i = BUFFER_SIZE \/ at["self"] = "format"
=============================================================================
