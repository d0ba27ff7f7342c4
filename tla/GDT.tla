--------------------------------- MODULE GDT ---------------------------------
(***************************************************************************)
(* The descriptors gdt_init of kernel/gdt.c writes, the selectors the      *)
(* kernel loads and what the processor demands of a descriptor (external). *)
(* A selector is 8 times the index of its descriptor; the two low bits are *)
(* the requested privilege level, 0 throughout.                            *)
(***************************************************************************)
EXTENDS Integers, Sequences

\* access and granularity of descriptors[0 .. 8].  A kernel descriptor has
\* access 1001 x010, a user one 1111 x010, x: code.  The bases are 0.
descriptors_shifted ==
  <<[access |-> 0, granularity |-> 0], [access |-> 0, granularity |-> 0],
    [access |-> 154, granularity |-> 0], [access |-> 146, granularity |-> 0],
    [access |-> 154, granularity |-> 207], [access |-> 146, granularity |-> 207],
    [access |-> 154, granularity |-> 32], [access |-> 146, granularity |-> 0],
    [access |-> 250, granularity |-> 32]>>
descriptors ==
  <<[access |-> 0, granularity |-> 0],       \* 0x00
    [access |-> 154, granularity |-> 0],     \* 0x08 kernel code 16
    [access |-> 146, granularity |-> 0],     \* 0x10 kernel data 16
    [access |-> 154, granularity |-> 207],   \* 0x18 kernel code 32
    [access |-> 146, granularity |-> 207],   \* 0x20 kernel data 32
    [access |-> 154, granularity |-> 32],    \* 0x28 kernel code 64
    [access |-> 146, granularity |-> 0],     \* 0x30 kernel data 64
    [access |-> 250, granularity |-> 32],    \* 0x38 user code 64
    [access |-> 242, granularity |-> 0]>>    \* 0x40 user data 64

\* The TSS descriptor follows them and is twice as long.
tss == [flags1 |-> 137, length |-> 104]
TssSelector == 8 * Len(descriptors)
gdtr_limit == 8 * Len(descriptors) + 16 - 1

\* Bit b of a byte
Bit(byte, b) == (byte \div 2^b) % 2 = 1

\* The descriptor a selector names, if it lies within the limit
Named(selector) == descriptors[selector \div 8 + 1]
InTable(selector) ==
  selector % 8 = 0 /\ selector # 0 /\ selector + 7 <= gdtr_limit

\* What CS and SS may name in ring 0 of 64-bit mode: a present code segment
\* with L set and D clear; a present writable data segment.
LoadableCode(selector) ==
  /\ InTable(selector) /\ selector < TssSelector
  /\ LET d == Named(selector) IN
     /\ Bit(d.access, 7) /\ Bit(d.access, 4) /\ Bit(d.access, 3)
     /\ (d.access \div 32) % 4 = 0
     /\ Bit(d.granularity, 5) /\ ~Bit(d.granularity, 6)

LoadableStack(selector) ==
  /\ InTable(selector) /\ selector < TssSelector
  /\ LET d == Named(selector) IN
     /\ Bit(d.access, 7) /\ Bit(d.access, 4)
     /\ ~Bit(d.access, 3) /\ Bit(d.access, 1)
     /\ (d.access \div 32) % 4 = 0

\* What ltr may name: a present, available 64-bit TSS of at least 104 bytes,
\* with all 16 bytes of the descriptor within the limit.
LoadableTask(selector) ==
  /\ selector = TssSelector /\ selector + 15 <= gdtr_limit
  /\ tss.flags1 \div 128 = 1 /\ tss.flags1 % 16 = 9
  /\ tss.length >= 103
=============================================================================
