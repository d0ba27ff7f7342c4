----------------------------- MODULE UstarProofs -----------------------------
(***************************************************************************)
(* Proofs about UstarDir, and so about Ustar, for every set of names and   *)
(* sizes an archive may have, every archive of these, every path and every *)
(* number of slots.                                                        *)
(*                                                                         *)
(* The size field decodes to the size (OctDecodes), so that the walk from  *)
(* header to header goes through the archive in order (Headers), and       *)
(* DirInv says which entry it is at.  A lookup has passed no entry with    *)
(* its name (LookupInv).  A listing of the root holds the names at the top *)
(* of the entries passed, cut at their first / as soon as they have been   *)
(* compared; one of another directory holds what remove_prefix leaves of   *)
(* the entries passed, and applied to these again it leaves nothing, so    *)
(* that no two of them are compared (ListInv).                             *)
(***************************************************************************)
EXTENDS UstarDir, WellFoundedInduction, NaturalsInduction, SequenceTheorems, TLAPS

\* A set of natural numbers that is not empty has a smallest element.
LEMMA Smallest ==
  ASSUME NEW S \in SUBSET Nat, S # {}
  PROVE  \E x \in S : \A y \in S : x <= y
<1>1. \E x \in S : \A y \in S : ~(<<y, x>> \in OpToRel(<, Nat))
  BY WFMin, NatLessThanWellFounded, Zenon
<1>2. PICK x \in S : \A y \in S : ~(<<y, x>> \in OpToRel(<, Nat))
  BY <1>1, Zenon
<1>3. \A y \in S : <<y, x>> \in Nat \X Nat /\ <<y, x>>[1] = y /\ <<y, x>>[2] = x
  BY <1>2, Zenon
<1>4. \A y \in S : ~(y < x)
  BY <1>2, <1>3, Zenon DEF OpToRel
<1>5. x \in Nat /\ \A y \in S : y \in Nat
  BY <1>2, Zenon
<1>6. \A y \in S : x <= y
  BY <1>4, <1>5
<1> QED BY <1>6

\* Quotient and remainder
LEMMA DivMod ==
  ASSUME NEW n \in Nat, NEW w \in Nat \ {0}
  PROVE  n \div w \in Nat /\ n % w \in 0 .. w - 1 /\ n = (n \div w) * w + (n % w)
<1>1. n \div w \in Nat /\ n = (n \div w) * w + (n % w)
  OBVIOUS
<1>2. n % w \in 0 .. w - 1
  OBVIOUS
<1> QED BY <1>1, <1>2, Zenon

\* Min chooses it.
LEMMA MinIsElement ==
  ASSUME NEW S \in SUBSET Nat, S # {}
  PROVE  Min(S) \in S /\ \A y \in S : Min(S) <= y
BY Smallest, Zenon DEF Min

\* The powers of 8 that oct_ascii_to_dec uses.
LEMMA Powers ==
  \A k \in 1 .. 10 : /\ 8^(10 - k) \in Nat \ {0}
                     /\ 8^(10 - (k - 1)) = 8 * 8^(10 - k)
<1>1. /\ 8^0 = 1 /\ 8^1 = 8 /\ 8^2 = 64 /\ 8^3 = 512 /\ 8^4 = 4096 /\ 8^5 = 32768
      /\ 8^6 = 262144 /\ 8^7 = 2097152 /\ 8^8 = 16777216 /\ 8^9 = 134217728
      /\ 8^10 = 1073741824
  BY SMT
<1> DEFINE Times8(j) == 8^j \in Nat \ {0} /\ 8^(j + 1) = 8 * 8^j
<1>2. Times8(0) /\ Times8(1) /\ Times8(2) /\ Times8(3) /\ Times8(4)
  BY <1>1, SMT
<1>3. Times8(5) /\ Times8(6) /\ Times8(7) /\ Times8(8) /\ Times8(9)
  BY <1>1, SMT
<1> SUFFICES ASSUME NEW k \in 1 .. 10
             PROVE  /\ 8^(10 - k) \in Nat \ {0}
                    /\ 8^(10 - (k - 1)) = 8 * 8^(10 - k)
  BY Zenon
<1>4. /\ 10 - k \in 0 .. 9
      /\ 10 - (k - 1) = (10 - k) + 1
  OBVIOUS
<1>5. \A j \in 0 .. 9 : j = 0 \/ j = 1 \/ j = 2 \/ j = 3 \/ j = 4 \/ j = 5 \/ j = 6
                         \/ j = 7 \/ j = 8 \/ j = 9
  OBVIOUS
<1> HIDE DEF Times8
<1>6. Times8(10 - k)
  BY <1>2, <1>3, <1>4, <1>5, Zenon
<1> QED BY <1>4, <1>6, Zenon DEF Times8

\* The size field has ten octal digits before its end.
LEMMA FieldShape ==
  /\ WIDTH - 2 = 10 /\ 8^10 \in Nat \ {0} /\ 8^0 = 1
BY SMT DEF WIDTH

\* What the proofs use of the assumption on the constants
LEMMA Constants == Sizes \subseteq Nat /\ RECORD \in Nat \ {0} /\ RECORD \in Nat
<1>1. \A q \in Nat \ {0} : 0 .. q - 1 \subseteq Nat
  OBVIOUS
<1> QED BY <1>1, FieldShape, UstarAssumption, Zenon

\* The top k digits of n, and the next one
LEMMA OneMoreDigit ==
  ASSUME NEW n \in Nat, NEW p \in Nat \ {0}
  PROVE  (n \div (8 * p)) * (8 * p) + ((n \div p) % 8) * p = (n \div p) * p
<1> DEFINE q == n \div p
<1>1. n \div (8 * p) = q \div 8
  OBVIOUS
<1>2. q \in Nat
  OBVIOUS
<1> HIDE DEF q
<1>3. q = (q \div 8) * 8 + (q % 8) /\ q \div 8 \in Nat /\ q % 8 \in Nat
  <2>1. q \div 8 \in Nat /\ q % 8 \in 0 .. 8 - 1 /\ q = (q \div 8) * 8 + (q % 8)
    BY <1>2, DivMod, 8 \in Nat \ {0}, Zenon
  <2>2. \A x \in 0 .. 8 - 1 : x \in Nat
    OBVIOUS
  <2> QED BY <2>1, <2>2, Zenon
<1>4. \A a, b, c \in Nat : a = b * 8 + c => b * (8 * p) + c * p = a * p
  OBVIOUS
<1>5. (q \div 8) * (8 * p) + (q % 8) * p = q * p
  BY <1>2, <1>3, <1>4
<1> QED BY <1>1, <1>5 DEF q

\* oct_ascii_to_dec reads back what the archiver has written: after k digits it
\* has the number that consists of the first k + 1 digits and of zeros.
LEMMA OctDecodes ==
  ASSUME NEW n \in 0 .. 8^10 - 1
  PROVE  oct_ascii_to_dec(FileSizeField(n)) = n
<1> DEFINE f == FileSizeField(n)
           P(k) == 8^(10 - k)
           Top(k) == (n \div P(k)) * P(k)
           F(g) == [k \in 0 .. 10 |-> IF k = 0 THEN 0 ELSE g[k - 1] + f[k] * P(k)]
           top == [k \in 0 .. 10 |-> Top(k)]
           res == CHOOSE g : g = F(g)
<1>1. oct_ascii_to_dec(f) = res[10]
  BY FieldShape, Zenon DEF oct_ascii_to_dec
<1>2. \A k \in 1 .. 10 : f[k] = (n \div P(k)) % 8
  BY FieldShape DEF FileSizeField
<1>3. /\ n \in Nat /\ P(0) \in Nat \ {0} /\ n < P(0) /\ P(10) = 1
  <2>1. 10 - 0 = 10 /\ 10 - 10 = 0
    OBVIOUS
  <2>2. P(0) = 8^10 /\ P(10) = 8^0
    BY <2>1, Zenon
  <2>3. \A q \in Nat \ {0} : n \in 0 .. q - 1 => n \in Nat /\ n < q
    OBVIOUS
  <2> QED BY <2>2, <2>3, FieldShape, Zenon
<1>4. \A k \in 1 .. 10 : P(k) \in Nat \ {0} /\ P(k - 1) = 8 * P(k)
  BY Powers, Zenon
<1> HIDE DEF P, f
<1>5. Top(0) = 0
  BY <1>3
<1>6. ASSUME NEW k \in 1 .. 10 PROVE Top(k) = Top(k - 1) + f[k] * P(k)
  BY <1>2, <1>3, <1>4, OneMoreDigit, Zenon
<1> HIDE DEF Top
<1>7. top = F(top)
  <2>1. ASSUME NEW k \in 0 .. 10 PROVE top[k] = F(top)[k]
    <3>1. CASE k = 0
      BY <1>5, <3>1
    <3>2. CASE k # 0
      <4>1. k \in 1 .. 10 /\ k - 1 \in 0 .. 10
        BY <3>2
      <4> QED BY <1>6, <4>1
    <3> QED BY <3>1, <3>2
  <2> QED BY <2>1
<1>8. res = F(res)
  BY <1>7, Zenon
<1> HIDE DEF res
<1>9. \A k \in 0 .. 10 : res[k] = Top(k)
  <2> DEFINE Bad == {k \in 0 .. 10 : res[k] # Top(k)}
  <2> SUFFICES ASSUME Bad # {} PROVE FALSE
    OBVIOUS
  <2>1. PICK m \in Bad : \A y \in Bad : m <= y
    BY Smallest
  <2>2. res[0] = 0
    BY <1>8
  <2>3. m \in 1 .. 10
    BY <1>5, <2>2
  <2>4. m - 1 \in 0 .. 10 /\ ~(m <= m - 1)
    BY <2>3
  <2>5. res[m - 1] = Top(m - 1)
    BY <2>1, <2>4
  <2>6. res[m] = res[m - 1] + f[m] * P(m)
    BY <1>8, <2>3
  <2> QED BY <1>6, <2>3, <2>5, <2>6
<1>10. Top(10) = n
  BY <1>3 DEF Top
<1> QED BY <1>1, <1>9, <1>10 DEF f

-----------------------------------------------------------------------------
\* The recursive definition of HeaderAddress has a solution, by induction on
\* the number of files.
LEMMA SumsExist ==
  ASSUME NEW n \in Nat, NEW d \in [1 .. n -> Nat]
  PROVE  \E g \in [1 .. n + 1 -> Nat] :
           g[1] = 0 /\ \A k \in 1 .. n : g[k + 1] = g[k] + d[k]
<1> DEFINE Sums(m, g) == /\ g \in [1 .. m + 1 -> Nat]
                         /\ g[1] = 0 /\ \A k \in 1 .. m : g[k + 1] = g[k] + d[k]
           Bad == {m \in 0 .. n : ~\E g : Sums(m, g)}
<1>0. n \in 0 .. n /\ Bad \in SUBSET Nat
  OBVIOUS
<1> SUFFICES ASSUME Bad # {} PROVE FALSE
  BY <1>0, Zenon
<1>1. PICK m \in Bad : \A y \in Bad : m <= y
  BY <1>0, Smallest, Zenon
<1>2. CASE m = 0
  <2>1. Sums(0, [k \in 1 .. 1 |-> 0])
    OBVIOUS
  <2> QED BY <1>2, <2>1, Zenon
<1>3. CASE m # 0
  <2>1. m - 1 \in 0 .. n /\ ~(m <= m - 1) /\ m \in 1 .. n
    BY <1>3
  <2>2. PICK g : Sums(m - 1, g)
    BY <1>1, <2>1, Zenon
  <2>3. (m - 1) + 1 = m
    BY <2>1
  <2> DEFINE h == [k \in 1 .. m + 1 |-> IF k = m + 1 THEN g[m] + d[m] ELSE g[k]]
  <2>4. g \in [1 .. m -> Nat] /\ g[1] = 0
    BY <2>2, <2>3
  <2>5. h \in [1 .. m + 1 -> Nat] /\ h[1] = 0
    <3>1. g[m] + d[m] \in Nat
      BY <2>1, <2>4
    <3>2. \A k \in 1 .. m + 1 : k # m + 1 => k \in 1 .. m
      BY <2>1
    <3>3. \A k \in 1 .. m + 1 : (IF k = m + 1 THEN g[m] + d[m] ELSE g[k]) \in Nat
      BY <2>4, <3>1, <3>2, Zenon
    <3>4. 1 \in 1 .. m + 1 /\ 1 # m + 1
      BY <2>1
    <3> QED BY <2>4, <3>3, <3>4, Zenon
  <2>6. ASSUME NEW k \in 1 .. m PROVE h[k + 1] = h[k] + d[k]
    <3>1. k \in 1 .. m + 1 /\ k + 1 \in 1 .. m + 1 /\ k # m + 1
      BY <2>1
    <3>2. CASE k = m
      BY <3>1, <3>2
    <3>3. CASE k # m
      <4>1. k \in 1 .. m - 1 /\ k + 1 # m + 1
        BY <2>1, <3>3
      <4>2. g[k + 1] = g[k] + d[k]
        BY <2>2, <4>1
      <4> QED BY <3>1, <4>1, <4>2
    <3> QED BY <3>2, <3>3
  <2> QED BY <2>5, <2>6, Zenon
<1> QED BY <1>2, <1>3

\* Such a function grows with its argument.
LEMMA SumsGrow ==
  ASSUME NEW n \in Nat, NEW g \in [1 .. n + 1 -> Nat],
         \A k \in 1 .. n : g[k] < g[k + 1]
  PROVE  \A j, k \in 1 .. n + 1 : j < k => g[j] < g[k]
<1> SUFFICES ASSUME NEW j \in 1 .. n + 1 PROVE \A k \in 1 .. n + 1 : j < k => g[j] < g[k]
  OBVIOUS
<1> DEFINE Bad == {k \in 1 .. n + 1 : j < k /\ ~(g[j] < g[k])}
<1> SUFFICES ASSUME Bad # {} PROVE FALSE
  BY Zenon
<1>1. PICK m \in Bad : \A y \in Bad : m <= y
  <2>1. Bad \in SUBSET Nat
    OBVIOUS
  <2> QED BY <2>1, Smallest, Zenon
<1>2. m - 1 \in 1 .. n /\ m - 1 \in 1 .. n + 1 /\ ~(m <= m - 1) /\ (m - 1) + 1 = m /\ j <= m - 1
  OBVIOUS
<1>3. g[m - 1] < g[m]
  BY <1>2
<1>4. g[j] \in Nat /\ g[m - 1] \in Nat /\ g[m] \in Nat
  BY <1>2
<1>5. CASE j = m - 1
  BY <1>3, <1>5
<1>6. CASE j # m - 1
  <2>1. j < m - 1
    BY <1>2, <1>6
  <2>2. g[j] < g[m - 1]
    BY <1>1, <1>2, <2>1
  <2> QED BY <1>3, <1>4, <2>2
<1> QED BY <1>5, <1>6

\* How the code rounds up is how an archive is laid out.
LEMMA RoundsUp ==
  ASSUME NEW n \in Nat
  PROVE  /\ RoundUp(n) \in Nat
         /\ RECORD + RoundUp(n) = (1 + (n + RECORD - 1) \div RECORD) * RECORD
<1> DEFINE R == RECORD
           q == n \div R
           r == n % R
<1>0. R \in Nat \ {0}
  BY Constants
<1> HIDE DEF R
<1>1. q \in Nat /\ r \in 0 .. R - 1 /\ n = q * R + r
  BY <1>0, DivMod, Zenon
<1>2. \A x, a, w \in Nat : \A b \in 0 .. w - 1 : x = a * w + b => x \div w = a
  OBVIOUS
<1>3. \A a \in Nat : a * R \in Nat /\ (a + 1) * R = a * R + R
  BY <1>0
<1> HIDE DEF q, r
<1>4. CASE r = 0
  <2>1. n + R - 1 = q * R + (R - 1) /\ n + R - 1 \in Nat /\ R - 1 \in 0 .. R - 1
    BY <1>0, <1>1, <1>3, <1>4
  <2>2. (n + R - 1) \div R = q
    BY <1>0, <1>1, <1>2, <2>1
  <2>3. RoundUp(n) = q * R
    BY <1>1, <1>3, <1>4 DEF RoundUp, R, r
  <2>4. (1 + q) * R = R + q * R
    BY <1>0, <1>1, <1>3
  <2> QED BY <1>1, <1>3, <2>2, <2>3, <2>4 DEF R
<1>5. CASE r # 0
  <2>1. n + R - 1 = (q + 1) * R + (r - 1) /\ n + R - 1 \in Nat /\ r - 1 \in 0 .. R - 1
    BY <1>0, <1>1, <1>3, <1>5
  <2>2. (n + R - 1) \div R = q + 1
    BY <1>0, <1>1, <1>2, <2>1
  <2>3. RoundUp(n) = (q + 1) * R
    BY <1>5 DEF RoundUp, R, r, q
  <2>4. (1 + (q + 1)) * R = R + (q + 1) * R /\ (q + 1) * R \in Nat
    BY <1>0, <1>1, <1>3
  <2> QED BY <2>2, <2>3, <2>4 DEF R
<1> QED BY <1>4, <1>5

\* Where the headers are: one after the other, each followed by its file.
LEMMA Layout ==
  ASSUME archive \in Seq(Header)
  PROVE  /\ HeaderAddress \in [1 .. Len(archive) + 1 -> Nat]
         /\ HeaderAddress[1] = 0
         /\ \A k \in 1 .. Len(archive) :
              HeaderAddress[k + 1] = HeaderAddress[k] + (RECORD + RoundUp(archive[k].size))
<1> DEFINE n == Len(archive)
           D(k) == (1 + (archive[k].size + RECORD - 1) \div RECORD) * RECORD
           F(g) == [k \in 1 .. n + 1 |-> IF k = 1 THEN 0 ELSE g[k - 1] + D(k - 1)]
           d == [k \in 1 .. n |-> D(k)]
<1>1. n \in Nat
  OBVIOUS
<1>2. HeaderAddress = CHOOSE g : g = F(g)
  BY DEF HeaderAddress
<1>3. ASSUME NEW k \in 1 .. n
      PROVE  D(k) = RECORD + RoundUp(archive[k].size) /\ D(k) \in Nat
  <2>1. archive[k].size \in Nat
    <3>1. archive[k] \in Header
      OBVIOUS
    <3> QED BY <3>1, Constants, Zenon DEF Header
  <2>2. RECORD + RoundUp(archive[k].size) = D(k) /\ RoundUp(archive[k].size) \in Nat
    BY <2>1, RoundsUp, Zenon
  <2> QED BY <2>2, Constants
<1> HIDE DEF D, n
<1>4. d \in [1 .. n -> Nat]
  BY <1>3
<1>5. PICK g \in [1 .. n + 1 -> Nat] :
        g[1] = 0 /\ \A k \in 1 .. n : g[k + 1] = g[k] + d[k]
  BY <1>1, <1>4, SumsExist, Zenon
<1>6. g = F(g)
  <2>1. ASSUME NEW k \in 1 .. n + 1 PROVE g[k] = F(g)[k]
    <3>1. CASE k = 1
      BY <1>5, <3>1
    <3>2. CASE k # 1
      <4>1. k - 1 \in 1 .. n /\ (k - 1) + 1 = k
        BY <1>1, <3>2
      <4>2. g[k] = g[k - 1] + D(k - 1)
        BY <1>5, <4>1
      <4> QED BY <3>2, <4>2
    <3> QED BY <3>1, <3>2
  <2> QED BY <2>1
<1>7. HeaderAddress = F(HeaderAddress)
  BY <1>2, <1>6, Zenon
<1>8. ASSUME NEW k \in 1 .. n + 1 PROVE HeaderAddress[k] = g[k]
  <2> DEFINE Bad == {x \in 1 .. n + 1 : HeaderAddress[x] # g[x]}
  <2> SUFFICES ASSUME Bad # {} PROVE FALSE
    OBVIOUS
  <2>1. PICK m \in Bad : \A y \in Bad : m <= y
    <3>1. Bad \in SUBSET Nat
      BY <1>1
    <3> QED BY <3>1, Smallest, Zenon
  <2>2. HeaderAddress[1] = 0 /\ m \in 1 .. n + 1
    BY <1>1, <1>7
  <2>3. m # 1
    BY <1>5, <2>1, <2>2
  <2>4. m - 1 \in 1 .. n /\ (m - 1) + 1 = m /\ m - 1 \in 1 .. n + 1 /\ ~(m <= m - 1)
    BY <1>1, <2>2, <2>3
  <2>5. HeaderAddress[m - 1] = g[m - 1]
    BY <2>1, <2>4
  <2>6. HeaderAddress[m] = HeaderAddress[m - 1] + D(m - 1)
    BY <1>7, <2>2, <2>3, Zenon
  <2>7. g[m] = g[m - 1] + D(m - 1)
    BY <1>5, <2>4
  <2> QED BY <2>1, <2>5, <2>6, <2>7
<1>9. HeaderAddress = g
  BY <1>5, <1>7, <1>8
<1> QED BY <1>3, <1>5, <1>9 DEF n

\* The address of a header determines it, and the first record of zeros is not
\* one of a header.
LEMMA Headers ==
  ASSUME archive \in Seq(Header), NEW m \in 1 .. Len(archive) + 1
  PROVE  /\ HeaderAddress[m] \in Addresses <=> m # Len(archive) + 1
         /\ m # Len(archive) + 1 =>
              /\ archive[m] \in Header
              /\ HeaderAt(HeaderAddress[m]) = archive[m]
              /\ NextRecord(HeaderAddress[m], FileSizeField(archive[m].size))
                   = HeaderAddress[m + 1]
<1> DEFINE n == Len(archive)
<1>1. n \in Nat
  OBVIOUS
<1>2. \A k \in 1 .. n : HeaderAddress[k] < HeaderAddress[k + 1]
  <2> SUFFICES ASSUME NEW k \in 1 .. n PROVE HeaderAddress[k] < HeaderAddress[k + 1]
    OBVIOUS
  <2>1. archive[k] \in Header
    OBVIOUS
  <2>2. archive[k].size \in Nat
    BY <2>1, Constants, Zenon DEF Header
  <2>3. RoundUp(archive[k].size) \in Nat
    BY <2>2, RoundsUp, Zenon
  <2>4. k \in 1 .. n + 1
    BY <1>1
  <2>5. HeaderAddress[k] \in Nat
    BY <2>4, Layout
  <2> QED BY <2>3, <2>5, Layout, Constants
<1>3. \A j, k \in 1 .. n + 1 : j < k => HeaderAddress[j] < HeaderAddress[k]
  BY <1>1, <1>2, Layout, SumsGrow, Zenon
<1>4. ASSUME NEW j \in 1 .. n + 1, NEW k \in 1 .. n + 1, HeaderAddress[j] = HeaderAddress[k]
      PROVE  j = k
  <2>1. HeaderAddress[j] \in Nat /\ HeaderAddress[k] \in Nat
    BY Layout, Zenon
  <2>2. ~(j < k) /\ ~(k < j)
    BY <1>3, <1>4, <2>1
  <2> QED BY <1>1, <2>2
<1>5. \A k \in 1 .. n : k \in 1 .. n + 1 /\ k # n + 1
  BY <1>1
<1>6. n + 1 \in 1 .. n + 1 /\ \A k \in 1 .. n + 1 : k # n + 1 => k \in 1 .. n
  BY <1>1
<1>7. HeaderAddress[m] \in Addresses <=> m # n + 1
  <2>1. HeaderAddress[m] \in Addresses <=> \E k \in 1 .. n : HeaderAddress[m] = HeaderAddress[k]
    BY DEF Addresses
  <2> QED BY <1>4, <1>5, <1>6, <2>1, Zenon
<1>8. ASSUME m # n + 1
      PROVE  /\ archive[m] \in Header
             /\ HeaderAt(HeaderAddress[m]) = archive[m]
             /\ NextRecord(HeaderAddress[m], FileSizeField(archive[m].size))
                  = HeaderAddress[m + 1]
  <2>1. m \in 1 .. n
    BY <1>6, <1>8
  <2>2. archive[m] \in Header
    BY <2>1
  <2>3. (CHOOSE k \in 1 .. n : HeaderAddress[k] = HeaderAddress[m]) = m
    BY <1>4, <1>5, <2>1
  <2>4. HeaderAt(HeaderAddress[m]) = archive[m]
    BY <2>3, Zenon DEF HeaderAt
  <2>5. archive[m].size \in 0 .. 8^10 - 1
    BY <2>2, UstarAssumption, Zenon DEF Header
  <2>6. oct_ascii_to_dec(FileSizeField(archive[m].size)) = archive[m].size
    BY <2>5, OctDecodes, Zenon
  <2>7. archive[m].size \in Nat
    BY <2>5, FieldShape, SMT
  <2>8. RoundUp(archive[m].size) \in Nat /\ HeaderAddress[m] \in Nat /\ RECORD \in Nat
    BY <2>7, RoundsUp, Layout, Constants, Zenon
  <2>9. NextRecord(HeaderAddress[m], FileSizeField(archive[m].size))
          = HeaderAddress[m] + RECORD + RoundUp(archive[m].size)
    BY <2>6, Zenon DEF NextRecord
  <2>10. HeaderAddress[m + 1] = HeaderAddress[m] + (RECORD + RoundUp(archive[m].size))
    BY <2>1, Layout
  <2> QED BY <2>2, <2>4, <2>8, <2>9, <2>10
<1> QED BY <1>7, <1>8

-----------------------------------------------------------------------------
(* Strings. *)

Text == Seq(Chars)

\* What SubSeq needs to know.
LEMMA Part ==
  ASSUME NEW s \in Text, NEW a \in 1 .. Len(s) + 1, NEW b \in a - 1 .. Len(s)
  PROVE  /\ SubSeq(s, a, b) \in Text
         /\ Len(SubSeq(s, a, b)) = b - a + 1
         /\ \A n \in 1 .. b - a + 1 : SubSeq(s, a, b)[n] = s[a + n - 1]
<1>1. a \in Int /\ b \in Int /\ \A n \in a .. b : s[n] \in Chars
  BY DEF Text
<1>2. Len(SubSeq(s, a, b)) = (IF a <= b THEN b - a + 1 ELSE 0)
  BY <1>1, SubSeqProperties
<1>3. Len(SubSeq(s, a, b)) = b - a + 1
  BY <1>2
<1> QED BY <1>1, <1>3, SubSeqProperties DEF Text

\* The / at the start is taken off.
LEMMA Stripped ==
  ASSUME NEW s \in Text
  PROVE  /\ WithoutSlash(s) \in Text
         /\ (s = <<>> \/ s[1] # Slash) => WithoutSlash(s) = s
BY HeadTailProperties DEF WithoutSlash, Text

\* Where a string is cut.
CutEnd(s) ==
  Min({Len(s)} \union {n - 1 : n \in {m \in DOMAIN s : s[m] = Slash}})

\* It is before the first /, or the end.
LEMMA CutEndIs ==
  ASSUME NEW s \in Text
  PROVE  /\ CutEnd(s) \in 0 .. Len(s)
         /\ \A n \in 1 .. CutEnd(s) : s[n] # Slash
         /\ CutEnd(s) = Len(s) \/ s[CutEnd(s) + 1] = Slash
<1> DEFINE S == {Len(s)} \union {n - 1 : n \in {m \in DOMAIN s : s[m] = Slash}}
<1>1. DOMAIN s = 1 .. Len(s) /\ Len(s) \in Nat
  BY DEF Text
<1>2. S \in SUBSET Nat /\ S # {} /\ Len(s) \in S
  BY <1>1
<1>3. Min(S) \in S /\ \A y \in S : Min(S) <= y
  BY <1>2, MinIsElement, Zenon
<1>4. Min(S) = Len(s) \/ \E m \in 1 .. Len(s) : s[m] = Slash /\ Min(S) = m - 1
  BY <1>1, <1>3
<1>5. Min(S) \in 0 .. Len(s)
  BY <1>1, <1>4
<1>6. Min(S) = Len(s) \/ s[Min(S) + 1] = Slash
  <2>1. \A m \in 1 .. Len(s) : (m - 1) + 1 = m
    BY <1>1
  <2> QED BY <1>4, <2>1
<1>7. ASSUME NEW n \in 1 .. Min(S) PROVE s[n] # Slash
  <2> SUFFICES ASSUME s[n] = Slash PROVE FALSE
    OBVIOUS
  <2>1. n \in DOMAIN s
    BY <1>1, <1>5
  <2>2. n - 1 \in S
    BY <2>1
  <2>3. Min(S) <= n - 1
    BY <1>3, <2>2
  <2> QED BY <1>5, <2>3
<1> QED BY <1>5, <1>6, <1>7 DEF CutEnd

\* What is cut is a string.
LEMMA CutType ==
  ASSUME NEW s \in Text PROVE Cut(s) \in Text
<1>1. /\ WithoutSlash(s) \in Text
      /\ CutEnd(WithoutSlash(s)) \in 0 .. Len(WithoutSlash(s))
  BY Stripped, CutEndIs
<1>2. SubSeq(WithoutSlash(s), 1, CutEnd(WithoutSlash(s))) \in Text
  BY <1>1, Part DEF Text
<1>3. Root \in Text /\ <<>> \in Text
  BY UstarDirAssumption DEF Root, Text
<1> QED BY <1>2, <1>3 DEF Cut, CutEnd, Text

\* A name of a file at the top, or of a directory there
LEMMA CutName ==
  ASSUME NEW s \in Text, s # <<>>, s[1] # Slash
  PROVE  /\ Cut(s) \in Text /\ Cut(s) # <<>> /\ Cut(s)[1] # Slash
         /\ Cut(s) = SubSeq(s, 1, CutEnd(s))
         /\ Cut(Cut(s)) = Cut(s)
<1> DEFINE e == CutEnd(s)
           t == SubSeq(s, 1, e)
<1>1. Len(s) \in Nat \ {0}
  BY DEF Text
<1>2. /\ e \in 0 .. Len(s) /\ \A n \in 1 .. e : s[n] # Slash
      /\ e = Len(s) \/ s[e + 1] = Slash
  BY CutEndIs
<1>3. e \in 1 .. Len(s)
  BY <1>1, <1>2
<1>4. /\ t \in Text /\ Len(t) = e /\ \A n \in 1 .. e : t[n] = s[n]
  BY <1>1, <1>3, Part
<1>5. Cut(s) = t
  <2>1. Cut(s) = <<>> \o t
    BY Stripped, Zenon DEF Cut, CutEnd
  <2> QED BY <1>4, <2>1 DEF Text
<1>6. t # <<>> /\ t[1] # Slash
  BY <1>2, <1>3, <1>4
<1>7. CutEnd(t) = e
  <2>1. /\ CutEnd(t) \in 0 .. Len(t)
        /\ CutEnd(t) = Len(t) \/ t[CutEnd(t) + 1] = Slash
    BY <1>4, CutEndIs, Zenon
  <2>2. CASE CutEnd(t) # Len(t)
    <3>1. CutEnd(t) + 1 \in 1 .. e
      BY <1>3, <1>4, <2>1, <2>2
    <3> QED BY <1>2, <1>4, <2>1, <2>2, <3>1
  <2> QED BY <1>4, <2>2, Zenon
<1>8. Cut(t) = <<>> \o SubSeq(t, 1, CutEnd(t))
  BY <1>4, <1>6, Stripped, Zenon DEF Cut, CutEnd
<1>9. SubSeq(t, 1, e) = t
  BY <1>4, SubSeqFull DEF Text
<1>10. Cut(t) = t
  BY <1>4, <1>7, <1>8, <1>9 DEF Text
<1> QED BY <1>4, <1>5, <1>6, <1>10, Zenon

\* A bounded set of natural numbers that is not empty has a largest element.
LEMMA MaxIsElement ==
  ASSUME NEW b \in Nat, NEW S \in SUBSET (0 .. b), S # {}
  PROVE  Max(S) \in S /\ \A y \in S : Max(S) >= y
<1> DEFINE T == {b - x : x \in S}
<1>1. T \in SUBSET Nat /\ T # {}
  <2>1. \A x \in S : b - x \in Nat
    OBVIOUS
  <2> QED BY <2>1, Zenon
<1>2. PICK m \in T : \A y \in T : m <= y
  BY <1>1, Smallest, Zenon
<1>3. PICK x \in S : m = b - x
  OBVIOUS
<1>4. \A y \in S : x >= y
  <2> SUFFICES ASSUME NEW y \in S PROVE x >= y
    OBVIOUS
  <2>1. b - x <= b - y
    BY <1>2, <1>3
  <2>2. x \in Nat /\ y \in Nat
    OBVIOUS
  <2> QED BY <2>1, <2>2
<1> QED BY <1>4, Zenon DEF Max

\* Two strings start with the same n characters.
LEMMA SameStart ==
  ASSUME NEW s \in Text, NEW t \in Text, NEW n \in Nat, n <= Len(s), n <= Len(t)
  PROVE  SubSeq(s, 1, n) = SubSeq(t, 1, n) <=> \A k \in 1 .. n : s[k] = t[k]
<1>0. n \in 1 - 1 .. Len(s) /\ n \in 1 - 1 .. Len(t) /\ 1 \in 1 .. Len(s) + 1
      /\ 1 \in 1 .. Len(t) + 1 /\ n - 1 + 1 = n /\ \A k \in 1 .. n : 1 + k - 1 = k
  BY DEF Text
<1>1. /\ SubSeq(s, 1, n) \in Text /\ Len(SubSeq(s, 1, n)) = n
      /\ \A k \in 1 .. n : SubSeq(s, 1, n)[k] = s[k]
  BY <1>0, Part
<1>2. /\ SubSeq(t, 1, n) \in Text /\ Len(SubSeq(t, 1, n)) = n
      /\ \A k \in 1 .. n : SubSeq(t, 1, n)[k] = t[k]
  BY <1>0, Part
<1>3. ASSUME \A k \in 1 .. n : s[k] = t[k]
      PROVE  SubSeq(s, 1, n) = SubSeq(t, 1, n)
  BY <1>1, <1>2, <1>3, SeqEqual DEF Text
<1> QED BY <1>1, <1>2, <1>3

\* The loop of remove_prefix stops at the first difference.
LEMMA SharedIs ==
  ASSUME NEW d \in Text, NEW p \in Text
  PROVE  LET n == Shared(d, p)
         IN  /\ n \in Nat /\ n <= Len(d) /\ n <= Len(p)
             /\ \A k \in 1 .. n : d[k] = p[k]
             /\ n < Len(d) /\ n < Len(p) => d[n + 1] # p[n + 1]
<1> DEFINE L == Min({Len(d), Len(p)})
           S == {n \in 0 .. L : SubSeq(d, 1, n) = SubSeq(p, 1, n)}
           n == Shared(d, p)
<1>1. Len(d) \in Nat /\ Len(p) \in Nat
  BY DEF Text
<1>2. L \in Nat /\ L <= Len(d) /\ L <= Len(p) /\ (L = Len(d) \/ L = Len(p))
  <2>1. {Len(d), Len(p)} \in SUBSET Nat /\ {Len(d), Len(p)} # {}
    BY <1>1
  <2>2. L \in {Len(d), Len(p)} /\ \A y \in {Len(d), Len(p)} : L <= y
    BY <2>1, MinIsElement, Zenon
  <2> QED BY <1>1, <2>2
<1> HIDE DEF L
<1>3. \A m \in 0 .. L : m \in S <=> \A k \in 1 .. m : d[k] = p[k]
  <2> SUFFICES ASSUME NEW m \in 0 .. L PROVE m \in S <=> \A k \in 1 .. m : d[k] = p[k]
    OBVIOUS
  <2>1. m \in Nat /\ m <= Len(d) /\ m <= Len(p)
    BY <1>1, <1>2
  <2> QED BY <2>1, SameStart
<1>4. 0 \in 0 .. L /\ \A k \in 1 .. 0 : d[k] = p[k]
  BY <1>2
<1>5. S \in SUBSET (0 .. L) /\ S # {}
  BY <1>3, <1>4, Zenon
<1>6. n \in S /\ \A y \in S : n >= y
  BY <1>2, <1>5, MaxIsElement, Zenon DEF Shared, L
<1> HIDE DEF S, n
<1>7. n \in 0 .. L /\ \A k \in 1 .. n : d[k] = p[k]
  BY <1>3, <1>5, <1>6, Zenon
<1>8. ASSUME n < Len(d), n < Len(p), d[n + 1] = p[n + 1] PROVE FALSE
  <2>1. n + 1 \in 0 .. L /\ ~(n >= n + 1) /\ \A k \in 1 .. n + 1 : k = n + 1 \/ k \in 1 .. n
    BY <1>1, <1>2, <1>7, <1>8
  <2>2. n + 1 \in S
    BY <1>3, <1>7, <1>8, <2>1, Zenon
  <2> QED BY <1>6, <2>1, <2>2, Zenon
<1>9. n \in Nat /\ n <= Len(d) /\ n <= Len(p)
  BY <1>1, <1>2, <1>7
<1>10. /\ n \in Nat /\ n <= Len(d) /\ n <= Len(p)
       /\ \A k \in 1 .. n : d[k] = p[k]
       /\ n < Len(d) /\ n < Len(p) => d[n + 1] # p[n + 1]
  BY <1>7, <1>8, <1>9, Zenon
<1> QED BY <1>10, Zenon DEF n

\* What remove_prefix leaves is a string, and no longer.
LEMMA RemovePrefixType ==
  ASSUME NEW s \in Text, NEW t \in Text
  PROVE  remove_prefix(s, t) \in Text /\ Len(remove_prefix(s, t)) <= Len(s)
<1> DEFINE d == WithoutSlash(s)
           p == WithoutSlash(t)
           n == Shared(d, p)
<1>1. d \in Text /\ p \in Text /\ Len(d) <= Len(s) /\ Len(d) \in Nat /\ Len(s) \in Nat
  <2>1. d \in Text /\ p \in Text
    BY Stripped
  <2>2. Len(d) <= Len(s)
    BY HeadTailProperties DEF WithoutSlash, Text
  <2> QED BY <2>1, <2>2 DEF Text
<1>2. n \in Nat /\ n <= Len(d)
  BY <1>1, SharedIs
<1>3. ASSUME n < Len(d)
      PROVE  /\ SubSeq(d, n + 2, Len(d)) \in Text
             /\ Len(SubSeq(d, n + 2, Len(d))) <= Len(s)
  <2>1. n + 2 \in 1 .. Len(d) + 1 /\ Len(d) \in (n + 2) - 1 .. Len(d)
    BY <1>1, <1>2, <1>3
  <2>2. /\ SubSeq(d, n + 2, Len(d)) \in Text
        /\ Len(SubSeq(d, n + 2, Len(d))) = Len(d) - (n + 2) + 1
    BY <1>1, <2>1, Part
  <2> QED BY <1>1, <1>2, <2>2
<1>4. <<>> \in Text /\ Len(<<>>) <= Len(s)
  BY <1>1 DEF Text
<1> QED BY <1>1, <1>3, <1>4, Zenon DEF remove_prefix

\* Which rest remove_prefix leaves of a path that has no / at its start.
LEMMA RestIs ==
  ASSUME NEW s \in Text, s # <<>>, s[1] # Slash,
         NEW t \in Text, t # <<>>, t[1] # Slash
  PROVE  LET n == Shared(s, t)
         IN  /\ n < Len(s) /\ s[n + 1] = Slash =>
                  remove_prefix(s, t) = SubSeq(s, n + 2, Len(s))
             /\ ~(n < Len(s) /\ s[n + 1] = Slash) => remove_prefix(s, t) = <<>>
<1>1. WithoutSlash(s) = s /\ WithoutSlash(t) = t
  BY Stripped
<1> QED BY <1>1, Zenon DEF remove_prefix

\* The directory that is listed: not the root, and without a / at its start
Below == dir \in Text /\ dir # <<>> /\ dir[1] # Slash

\* A / after what a path shares with dir: the path is below a directory whose
\* name is dir or a prefix of it.
LEMMA SlashAfterShared ==
  ASSUME Below, NEW s \in Text, s # <<>>, s[1] # Slash,
         Shared(s, dir) < Len(s), s[Shared(s, dir) + 1] = Slash
  PROVE  \E t \in PrefixesOfDir \union {dir} :
           Len(t) = Shared(s, dir) /\ Begins(Append(t, Slash), s)
<1> DEFINE n == Shared(s, dir)
           t == SubSeq(dir, 1, n)
<1>1. /\ n \in Nat /\ n <= Len(s) /\ n <= Len(dir)
      /\ \A k \in 1 .. n : s[k] = dir[k]
  BY SharedIs DEF Below
<1>2. n < Len(s) /\ s[n + 1] = Slash /\ Len(s) \in Nat /\ Len(dir) \in Nat
  BY DEF Below, Text
<1> HIDE DEF n
<1>3. n \in 1 .. Len(dir)
  <2>1. n # 0
    BY <1>2
  <2> QED BY <1>1, <1>2, <2>1
<1>4. /\ t \in Text /\ Len(t) = n /\ \A k \in 1 .. n : t[k] = dir[k]
  BY <1>2, <1>3, Part DEF Below
<1>5. t \in PrefixesOfDir \union {dir}
  <2>1. CASE n = Len(dir)
    BY <2>1, SubSeqFull DEF Below, Text
  <2>2. CASE n # Len(dir)
    <3>1. n \in 1 .. Len(dir) - 1
      BY <1>2, <1>3, <2>2
    <3> QED BY <3>1 DEF PrefixesOfDir
  <2> QED BY <2>1, <2>2
<1> HIDE DEF t
<1>6. /\ Append(t, Slash) \in Text /\ Len(Append(t, Slash)) = n + 1
      /\ \A k \in 1 .. n : Append(t, Slash)[k] = t[k]
      /\ Append(t, Slash)[n + 1] = Slash
  BY <1>4, AppendProperties, UstarDirAssumption DEF Text
<1>7. \A k \in 1 .. n + 1 : Append(t, Slash)[k] = s[k]
  <2>1. \A k \in 1 .. n + 1 : k = n + 1 \/ k \in 1 .. n
    BY <1>1
  <2> QED BY <1>1, <1>2, <1>4, <1>6, <2>1, Zenon
<1>8. n + 1 \in Nat /\ n + 1 <= Len(s) /\ n + 1 <= Len(Append(t, Slash))
  BY <1>1, <1>2, <1>6
<1>9. SubSeq(Append(t, Slash), 1, n + 1) = SubSeq(s, 1, n + 1)
  BY <1>6, <1>7, <1>8, SameStart
<1>10. Begins(Append(t, Slash), s)
  BY <1>6, <1>8, <1>9, SubSeqFull, Zenon DEF Begins, Text
<1> QED BY <1>4, <1>5, <1>10 DEF n

\* What remove_prefix leaves of the name of an entry is a rest.
LEMMA RestOfName ==
  ASSUME Below, NEW s \in Names, s \in ArchiveNames, remove_prefix(s, dir) # <<>>
  PROVE  remove_prefix(s, dir) \in Rests /\ remove_prefix(s, dir)[1] # Slash
<1> DEFINE n == Shared(s, dir)
           r == remove_prefix(s, dir)
<1>1. /\ s \in Text /\ s # <<>> /\ s[1] # Slash
      /\ \A k \in 1 .. Len(s) - 1 : s[k] = Slash => s[k + 1] # Slash
  BY UstarDirAssumption DEF Text
<1>2. n < Len(s) /\ s[n + 1] = Slash /\ r = SubSeq(s, n + 2, Len(s))
  BY <1>1, RestIs DEF Below
<1>3. n \in Nat /\ Len(s) \in Nat
  BY <1>1, SharedIs DEF Below, Text
<1>4. PICK t \in PrefixesOfDir \union {dir} : Len(t) = n /\ Begins(Append(t, Slash), s)
  BY <1>1, <1>2, SlashAfterShared
<1> HIDE DEF n
<1>5. n + 1 < Len(s)
  <2> SUFFICES ASSUME n + 1 = Len(s) PROVE FALSE
    BY <1>2, <1>3
  <2>1. r = <<>>
    BY <1>2, <1>3, SubSeqEmpty
  <2> QED BY <2>1
<1>6. r[1] # Slash
  <2>1. /\ n + 2 \in 1 .. Len(s) + 1 /\ Len(s) \in (n + 2) - 1 .. Len(s)
        /\ 1 \in 1 .. Len(s) - (n + 2) + 1 /\ (n + 2) + 1 - 1 = (n + 1) + 1
        /\ n + 1 \in 1 .. Len(s) - 1
    BY <1>3, <1>5
  <2>2. r[1] = s[(n + 2) + 1 - 1]
    BY <1>1, <1>2, <2>1, Part, Zenon
  <2> QED BY <1>1, <1>2, <2>1, <2>2, Zenon
<1>7. r \in RestsBelow(t)
  BY <1>2, <1>3, <1>4, <1>5 DEF RestsBelow
<1> QED BY <1>6, <1>7 DEF Rests

\* Everything below dir leaves a rest.
LEMMA BelowLeavesRest ==
  ASSUME Below, NEW s \in Names, Begins(Append(dir, Slash), s), Len(s) > Len(dir) + 1
  PROVE  /\ remove_prefix(s, dir) = SubSeq(s, Len(dir) + 2, Len(s))
         /\ remove_prefix(s, dir) # <<>>
<1> DEFINE n == Shared(s, dir)
           l == Len(dir)
           a == Append(dir, Slash)
<1>1. s \in Text /\ s # <<>> /\ s[1] # Slash
  BY UstarDirAssumption DEF Text
<1>2. /\ n \in Nat /\ n <= Len(s) /\ n <= l
      /\ n < Len(s) /\ n < l => s[n + 1] # dir[n + 1]
  BY <1>1, SharedIs DEF Below
<1>3. l \in Nat /\ Len(s) \in Nat
  BY <1>1 DEF Below, Text
<1>4. /\ a \in Text /\ Len(a) = l + 1 /\ a[l + 1] = Slash
      /\ \A k \in 1 .. l : a[k] = dir[k]
  BY AppendProperties, UstarDirAssumption DEF Below, Text
<1>5. SubSeq(a, 1, l + 1) = SubSeq(s, 1, l + 1)
  BY <1>4, SubSeqFull DEF Begins, Text
<1> HIDE DEF a
<1>6. \A k \in 1 .. l + 1 : a[k] = s[k]
  <2>1. l + 1 \in Nat /\ l + 1 <= Len(a) /\ l + 1 <= Len(s)
    BY <1>3, <1>4
  <2> QED BY <1>1, <1>4, <1>5, <2>1, SameStart
<1> HIDE DEF n
<1>7. n = l
  <2> SUFFICES ASSUME n < l PROVE FALSE
    BY <1>2, <1>3
  <2>1. n + 1 \in 1 .. l /\ n + 1 \in 1 .. l + 1 /\ n < Len(s)
    BY <1>2, <1>3
  <2> QED BY <1>2, <1>4, <1>6, <2>1
<1>8. n < Len(s) /\ s[n + 1] = Slash
  <2>1. l + 1 \in 1 .. l + 1
    BY <1>3
  <2> QED BY <1>3, <1>4, <1>6, <1>7, <2>1
<1>9. remove_prefix(s, dir) = SubSeq(s, l + 2, Len(s))
  BY <1>1, <1>7, <1>8, RestIs DEF Below, n
<1>10. SubSeq(s, l + 2, Len(s)) # <<>>
  <2>1. l + 2 \in 1 .. Len(s) + 1 /\ Len(s) \in (l + 2) - 1 .. Len(s)
        /\ Len(s) - (l + 2) + 1 # 0
    BY <1>3
  <2>2. Len(SubSeq(s, l + 2, Len(s))) # 0
    BY <1>1, <2>1, Part
  <2>3. Len(<<>>) = 0
    OBVIOUS
  <2> QED BY <2>2, <2>3, Zenon
<1> QED BY <1>9, <1>10

\* Nothing more is taken off a rest that does not start like dir again.
LEMMA NoEcho ==
  ASSUME Below, ~Echo, NEW r \in Rests, r \in Text, r # <<>>, r[1] # Slash
  PROVE  remove_prefix(r, dir) = <<>>
<1>1. \A t \in PrefixesOfDir \union {dir} : ~Begins(Append(t, Slash), r)
  BY DEF Echo
<1>2. ~(Shared(r, dir) < Len(r) /\ r[Shared(r, dir) + 1] = Slash)
  BY <1>1, SlashAfterShared
<1> QED BY <1>2, RestIs DEF Below

-----------------------------------------------------------------------------
\* Steps k of a function that is defined by recursion on 0 .. n exist and are
\* determined.
LEMMA Recursion ==
  ASSUME NEW V, NEW a \in V, NEW n \in Nat, NEW step \in [1 .. n -> [V -> V]]
  PROVE  \E g \in [0 .. n -> V] :
           g[0] = a /\ \A k \in 1 .. n : g[k] = step[k][g[k - 1]]
<1> DEFINE Steps(m, g) == /\ g \in [0 .. m -> V]
                          /\ g[0] = a /\ \A k \in 1 .. m : g[k] = step[k][g[k - 1]]
           Bad == {m \in 0 .. n : ~\E g : Steps(m, g)}
<1>0. n \in 0 .. n /\ Bad \in SUBSET Nat
  OBVIOUS
<1> SUFFICES ASSUME Bad # {} PROVE FALSE
  BY <1>0, Zenon
<1>1. PICK m \in Bad : \A y \in Bad : m <= y
  BY <1>0, Smallest, Zenon
<1>2. CASE m = 0
  <2>1. Steps(0, [k \in 0 .. 0 |-> a])
    OBVIOUS
  <2> QED BY <1>2, <2>1, Zenon
<1>3. CASE m # 0
  <2>1. m - 1 \in 0 .. n /\ ~(m <= m - 1) /\ m \in 1 .. n
    BY <1>3
  <2>2. PICK g : Steps(m - 1, g)
    BY <1>1, <2>1, Zenon
  <2> DEFINE h == [k \in 0 .. m |-> IF k = m THEN step[m][g[m - 1]] ELSE g[k]]
  <2>3. /\ \A k \in 0 .. m : k # m => k \in 0 .. m - 1
        /\ m - 1 \in 0 .. m - 1 /\ 0 \in 0 .. m /\ 0 # m
    BY <2>1
  <2>4. step[m][g[m - 1]] \in V
    BY <2>1, <2>2, <2>3, Zenon
  <2>5. h \in [0 .. m -> V]
    BY <2>2, <2>3, <2>4, Zenon
  <2>6. h[0] = a
    BY <2>2, <2>3, Zenon
  <2>7. ASSUME NEW k \in 1 .. m PROVE h[k] = step[k][h[k - 1]]
    <3>1. k \in 0 .. m /\ k - 1 \in 0 .. m /\ k - 1 # m
      BY <2>1
    <3>2. CASE k = m
      BY <3>1, <3>2
    <3>3. CASE k # m
      <4>1. k \in 1 .. m - 1
        BY <2>1, <3>3
      <4> QED BY <2>2, <3>1, <3>3, <4>1
    <3> QED BY <3>2, <3>3
  <2> QED BY <2>5, <2>6, <2>7, Zenon
<1> QED BY <1>2, <1>3

\* What the names in the root are built from
TopName(x) == x \in Text /\ x # <<>> /\ x[1] # Slash /\ Cut(x) = x

\* The names in an archive
LEMMA ArchiveNameIs ==
  ASSUME archive \in Seq(Header), NEW k \in 1 .. Len(archive)
  PROVE  /\ archive[k].name \in Names /\ archive[k].name \in ArchiveNames
         /\ archive[k].name \in Text /\ archive[k].name # <<>>
         /\ archive[k].name[1] # Slash
         /\ TopName(Cut(archive[k].name))
<1>1. archive[k] \in Header /\ k \in DOMAIN archive
  OBVIOUS
<1>2. archive[k].name \in Names /\ archive[k].name \in ArchiveNames
  BY <1>1 DEF Header, ArchiveNames
<1>3. /\ archive[k].name \in Text /\ archive[k].name # <<>>
      /\ archive[k].name[1] # Slash
  BY <1>2, UstarDirAssumption DEF Text
<1> QED BY <1>2, <1>3, CutName DEF TopName

\* TopNames is well defined, and its elements are names without a /.
LEMMA TopNamesIs ==
  ASSUME archive \in Seq(Header)
  PROVE  /\ TopNames[0] = <<>>
         /\ \A n \in 1 .. Len(archive) :
              TopNames[n] = IF Cut(archive[n].name) \in Range(TopNames[n - 1])
                            THEN TopNames[n - 1]
                            ELSE Append(TopNames[n - 1], Cut(archive[n].name))
         /\ \A n \in 0 .. Len(archive) :
              /\ TopNames[n] \in Seq({x \in Text : TopName(x)})
              /\ n > 0 => TopNames[n] # <<>>
<1> DEFINE l == Len(archive)
           V == Seq({x \in Text : TopName(x)})
           C(n) == Cut(archive[n].name)
           New(v, c) == IF c \in Range(v) THEN v ELSE Append(v, c)
           step == [n \in 1 .. l |-> [v \in V |-> New(v, C(n))]]
           F(g) == [n \in 0 .. l |-> IF n = 0 THEN <<>> ELSE New(g[n - 1], C(n))]
<1>1. l \in Nat /\ <<>> \in V
  OBVIOUS
<1>2. \A n \in 1 .. l : TopName(C(n)) /\ C(n) \in {x \in Text : TopName(x)}
  BY ArchiveNameIs DEF TopName
<1>3. \A n \in 1 .. l, v \in V : New(v, C(n)) \in V /\ New(v, C(n)) # <<>>
  <2> SUFFICES ASSUME NEW n \in 1 .. l, NEW v \in V
               PROVE  New(v, C(n)) \in V /\ New(v, C(n)) # <<>>
    OBVIOUS
  <2>1. CASE C(n) \in Range(v)
    BY <2>1 DEF Range
  <2>2. CASE C(n) \notin Range(v)
    BY <1>2, <2>2, AppendProperties
  <2> QED BY <2>1, <2>2
<1>4. TopNames = CHOOSE g : g = F(g)
  BY DEF TopNames
<1> HIDE DEF C, New, V, l
<1>5. step \in [1 .. l -> [V -> V]]
  BY <1>3
<1> HIDE DEF step
<1>6. PICK g \in [0 .. l -> V] :
        g[0] = <<>> /\ \A k \in 1 .. l : g[k] = step[k][g[k - 1]]
  <2>1. \A a \in V : \A m \in Nat : \A st \in [1 .. m -> [V -> V]] :
          \E h \in [0 .. m -> V] : h[0] = a /\ \A k \in 1 .. m : h[k] = st[k][h[k - 1]]
    BY Recursion
  <2> QED BY <1>1, <1>5, <2>1, Zenon
<1>7. ASSUME NEW k \in 1 .. l PROVE g[k] = New(g[k - 1], C(k)) /\ g[k - 1] \in V
  <2>1. k - 1 \in 0 .. l
    BY <1>1
  <2> QED BY <1>6, <2>1, Zenon DEF step
<1>8. g = F(g)
  <2>1. \A k \in 0 .. l : k = 0 \/ k \in 1 .. l
    BY <1>1
  <2>2. \A k \in 0 .. l : g[k] = IF k = 0 THEN <<>> ELSE New(g[k - 1], C(k))
    BY <1>6, <1>7, <2>1, Zenon
  <2> QED BY <1>6, <2>2, Zenon
<1>9. TopNames = F(TopNames)
  BY <1>4, <1>8, Zenon
<1>10. ASSUME NEW k \in 0 .. l PROVE TopNames[k] = g[k]
  <2> DEFINE Bad == {x \in 0 .. l : TopNames[x] # g[x]}
  <2> SUFFICES ASSUME Bad # {} PROVE FALSE
    OBVIOUS
  <2>1. PICK m \in Bad : \A y \in Bad : m <= y
    <3>1. Bad \in SUBSET Nat
      BY <1>1
    <3> QED BY <3>1, Smallest, Zenon
  <2>2. m # 0
    BY <1>6, <1>9, <2>1
  <2>3. m \in 1 .. l /\ m - 1 \in 0 .. l /\ ~(m <= m - 1)
    BY <1>1, <2>1, <2>2
  <2>4. TopNames[m - 1] = g[m - 1]
    BY <2>1, <2>3
  <2>5. TopNames[m] = New(TopNames[m - 1], C(m))
    BY <1>9, <2>2, <2>3
  <2> QED BY <1>7, <2>1, <2>3, <2>4, <2>5
<1>11. TopNames[0] = <<>> /\ \A n \in 1 .. l : TopNames[n] = New(TopNames[n - 1], C(n))
  <2>1. 0 \in 0 .. l /\ \A n \in 1 .. l : n \in 0 .. l /\ n - 1 \in 0 .. l
    BY <1>1
  <2> QED BY <1>6, <1>7, <1>10, <2>1
<1>12. ASSUME NEW n \in 0 .. l
       PROVE  TopNames[n] \in V /\ (n > 0 => TopNames[n] # <<>>)
  <2>1. TopNames[n] \in V
    BY <1>6, <1>10
  <2>2. CASE n > 0
    <3>1. n \in 1 .. l
      BY <1>1, <2>2
    <3>2. TopNames[n] = New(g[n - 1], C(n)) /\ g[n - 1] \in V
      BY <1>7, <1>10, <3>1
    <3> QED BY <1>3, <2>1, <3>1, <3>2
  <2> QED BY <2>1, <2>2
<1> QED BY <1>11, <1>12 DEF V, New, C, l

\* What depends on the archive alone
LEMMA SameArchive ==
  ASSUME archive' = archive
  PROVE  /\ HeaderAddress' = HeaderAddress /\ Addresses' = Addresses
         /\ TopNames' = TopNames /\ ArchiveNames' = ArchiveNames
<1>1. HeaderAddress' = HeaderAddress
  BY DEF HeaderAddress
<1>2. Addresses' = Addresses
  BY <1>1 DEF Addresses
<1>3. TopNames' = TopNames
  BY DEF TopNames
<1>4. ArchiveNames' = ArchiveNames
  BY DEF ArchiveNames
<1> QED BY <1>1, <1>2, <1>3, <1>4

-----------------------------------------------------------------------------
\* What is left of the name of the k-th entry, and the rests of the first n
Rest(k) == remove_prefix(archive[k].name, dir)
RestSet(n) == {Rest(k) : k \in 1 .. n} \ {<<>>}

\* A directory below the root whose rests do not start like it again
Plain == Below /\ ~Echo

\* The first of the names in the root is shown whole until it is compared.
Tops(n) == IF n = 1 THEN <<archive[1].name>> ELSE TopNames[n]

\* ps is the listing of the first n entries.
Collected(n, ps) ==
  /\ dir = <<>> => ps = Tops(n)
  /\ Plain => Range(ps) = RestSet(n)

\* s, the n-th entry, has been compared with the first x of those before it.
Scanning(n, ps, s, x) ==
  /\ n >= 1 /\ x <= Len(ps)
  /\ dir = <<>> =>
       /\ ps = IF x = 0 THEN Tops(n - 1) ELSE TopNames[n - 1]
       /\ s = IF x = 0 THEN archive[n].name ELSE Cut(archive[n].name)
       /\ \A j \in 1 .. x : ps[j] # s
  /\ Plain => Range(ps) = RestSet(n - 1) /\ s = Rest(n) /\ s # <<>>

\* The walk is at the m-th header; how far the listing has got.
ListInv ==
  \E m \in 1 .. Len(archive) + 1 :
    /\ current_record = HeaderAddress[m]
    /\ dir_pc = "start" => m = 1 /\ pathes = <<>>
    /\ dir_pc = "next" => Collected(m - 1, pathes)
    /\ dir_pc = "scan" => Scanning(m - 1, pathes, path, index)
    /\ dir_pc = "out" => Collected(Len(archive), pathes)
    /\ dir_pc = "done" => Collected(Len(archive), listing)

\* The walk is at the m-th header, and none before it has the name.
LookupInv ==
  \E m \in 1 .. Len(archive) + 1 :
    /\ current_record = HeaderAddress[m]
    /\ \A j \in 1 .. m - 1 : archive[j].name # searched_file
    /\ zero_counter > 0 => m = Len(archive) + 1
    /\ ~done => result = NoHeader
    /\ done => IF m = Len(archive) + 1 THEN result = NoHeader
               ELSE result = current_record /\ archive[m].name = searched_file

DirTypeInv ==
  /\ archive \in Seq(Header) /\ searched_file \in Names
  /\ zero_counter \in 0 .. 2 /\ done \in BOOLEAN
  /\ op \in {"lookup", "read_dir"}
  /\ dir_pc \in {"start", "next", "scan", "out", "done"}
  /\ dir \in Text /\ path \in Text
  /\ index \in 0 .. PATHES
  /\ pathes \in Seq(Text) /\ listing \in Seq(Text) /\ Len(pathes) <= PATHES
  /\ clean \in BOOLEAN /\ broken \in BOOLEAN

DirInv ==
  /\ DirTypeInv
  /\ op = "lookup" => LookupInv /\ dir_pc = "start"
  /\ op = "read_dir" => ListInv /\ ~done /\ result = NoHeader

\* An archive that is listed is one of those that are searched.
LEMMA LargestSize == Max(Sizes) \in Sizes
<1>1. \A q \in Nat \ {0} : q - 1 \in Nat
  OBVIOUS
<1>2. 8^10 - 1 \in Nat
  BY <1>1, FieldShape, Zenon
<1>3. Sizes \in SUBSET (0 .. 8^10 - 1) /\ Sizes # {}
  BY UstarAssumption, Zenon
<1> QED BY <1>2, <1>3, MaxIsElement, Zenon

\* The state in which a lookup or a listing begins satisfies the invariant.
LEMMA DirInitInv == ASSUME DirInit PROVE DirInv
<1>1. archive \in Seq(Header) /\ searched_file \in Names
  <2>1. CASE LookupInit
    <3>1. PICK n \in 0 .. MaxFiles : archive \in [1 .. n -> Header]
      BY <2>1 DEF LookupInit
    <3>2. MaxFiles \in Nat
      BY UstarAssumption, Zenon
    <3>3. n \in Nat
      BY <3>2
    <3>4. archive \in Seq(Header)
      BY <3>1, <3>3
    <3> QED BY <2>1, <3>4 DEF LookupInit
  <2>2. CASE archive \in ListedArchives /\ searched_file = CHOOSE n \in Names : TRUE
    <3>1. PICK n \in 0 .. MaxListed :
            archive \in [1 .. n -> [name : Names, size : {Max(Sizes)}]]
      BY <2>2 DEF ListedArchives
    <3>2. [name : Names, size : {Max(Sizes)}] \subseteq Header
      BY LargestSize DEF Header
    <3>3. n \in Nat /\ archive \in [1 .. n -> Header]
      BY <3>1, <3>2
    <3>4. archive \in Seq(Header)
      BY <3>3
    <3>5. Names # {}
      BY UstarAssumption, Zenon
    <3> QED BY <2>2, <3>4, <3>5, Zenon
  <2> QED BY <2>1, <2>2, Zenon DEF DirInit
<1>2. /\ current_record = 0 /\ zero_counter = 0 /\ result = NoHeader /\ done = FALSE
      /\ dir_pc = "start" /\ path = <<>> /\ index = 0 /\ pathes = <<>> /\ listing = <<>>
      /\ broken = FALSE /\ (op = "lookup" \/ op = "read_dir") /\ clean \in BOOLEAN
  BY Zenon DEF DirInit, LookupInit
<1>3. dir \in Text
  <2>1. Root \in Text /\ Paths \subseteq Text
    BY UstarDirAssumption DEF Root, Text
  <2> QED BY <2>1, Zenon DEF DirInit
<1>4. DirTypeInv
  <2>1. 0 \in 0 .. 2 /\ 0 \in 0 .. PATHES /\ Len(<<>>) <= PATHES
    BY UstarDirAssumption
  <2>2. <<>> \in Text /\ <<>> \in Seq(Text)
    BY DEF Text
  <2>3. index \in 0 .. PATHES /\ Len(pathes) <= PATHES /\ zero_counter \in 0 .. 2
    BY <1>2, <2>1
  <2> QED BY <1>1, <1>2, <1>3, <2>2, <2>3, Zenon DEF DirTypeInv
<1>5. HeaderAddress[1] = 0 /\ 1 \in 1 .. Len(archive) + 1 /\ 1 .. 1 - 1 = {} /\ ~(0 > 0)
  BY <1>1, Layout
<1>6. LookupInv
  BY <1>2, <1>5, Zenon DEF LookupInv
<1>7. ListInv
  BY <1>2, <1>5 DEF ListInv
<1> QED BY <1>2, <1>4, <1>6, <1>7, Zenon DEF DirInv

\* tar_file_lookup looks at one record.
LEMMA LookupStep ==
  ASSUME DirInv, op = "lookup", tar_file_lookup, UNCHANGED dirvars
  PROVE  DirInv'
<1>1. /\ archive \in Seq(Header) /\ zero_counter \in 0 .. 2 /\ done \in BOOLEAN /\ ~done
      /\ archive' = archive /\ searched_file' = searched_file
  BY DEF DirInv, DirTypeInv, tar_file_lookup, tar_file_lookup_zero, tar_file_lookup_header,
         tar_file_lookup_not_found, inputs
<1>2. PICK m \in 1 .. Len(archive) + 1 :
        /\ current_record = HeaderAddress[m]
        /\ \A j \in 1 .. m - 1 : archive[j].name # searched_file
        /\ zero_counter > 0 => m = Len(archive) + 1
        /\ result = NoHeader
  BY <1>1 DEF DirInv, LookupInv
<1>3. HeaderAddress' = HeaderAddress
  BY <1>1, SameArchive
<1>4. /\ current_record \in Addresses <=> m # Len(archive) + 1
      /\ m # Len(archive) + 1 =>
           /\ HeaderAt(current_record) = archive[m]
           /\ NextRecord(current_record, FileSizeField(archive[m].size)) = HeaderAddress[m + 1]
  BY <1>1, <1>2, Headers
<1>5. Len(archive) \in Nat
  BY <1>1
<1> DEFINE Reached(n) ==
             /\ n \in 1 .. Len(archive) + 1
             /\ current_record' = HeaderAddress[n]
             /\ \A j \in 1 .. n - 1 : archive[j].name # searched_file
             /\ zero_counter' > 0 => n = Len(archive) + 1
             /\ ~done' => result' = NoHeader
             /\ done' => IF n = Len(archive) + 1 THEN result' = NoHeader
                         ELSE result' = current_record' /\ archive[n].name = searched_file
           Moved == zero_counter' \in 0 .. 2 /\ done' \in BOOLEAN /\ \E n : Reached(n)
<1>6. ASSUME tar_file_lookup_zero PROVE Moved
  <2>1. /\ zero_counter' = zero_counter + 1 /\ zero_counter < 2 /\ m = Len(archive) + 1
        /\ UNCHANGED <<current_record, result, done>>
    BY <1>4, <1>6 DEF tar_file_lookup_zero, CountZero, MoreRecords
  <2>2. zero_counter' \in 0 .. 2 /\ done' \in BOOLEAN
    BY <1>1, <2>1
  <2>3. Reached(m)
    BY <1>1, <1>2, <2>1
  <2> QED BY <2>2, <2>3, Zenon
<1>7. ASSUME tar_file_lookup_header PROVE Moved
  <2>1. zero_counter' = 0 /\ m # Len(archive) + 1
    BY <1>4, <1>7 DEF tar_file_lookup_header
  <2>2. CASE archive[m].name = searched_file
    <3>1. result' = current_record /\ done' = TRUE /\ current_record' = current_record
      BY <1>4, <1>7, <2>1, <2>2 DEF tar_file_lookup_header
    <3>2. Reached(m) /\ 0 \in 0 .. 2
      BY <1>2, <2>1, <2>2, <3>1
    <3> QED BY <2>1, <3>1, <3>2
  <2>3. CASE archive[m].name # searched_file
    <3>1. /\ current_record' = HeaderAddress[m + 1] /\ result' = result /\ done' = done
      BY <1>4, <1>7, <2>1, <2>3 DEF tar_file_lookup_header
    <3>2. m + 1 \in 1 .. Len(archive) + 1 /\ \A j \in 1 .. (m + 1) - 1 : j = m \/ j \in 1 .. m - 1
      BY <1>5, <2>1
    <3>3. Reached(m + 1)
      BY <1>1, <1>2, <2>1, <2>3, <3>1, <3>2
    <3>4. 0 \in 0 .. 2
      OBVIOUS
    <3> QED BY <1>1, <2>1, <3>1, <3>3, <3>4, Zenon
  <2> QED BY <2>2, <2>3
<1>8. ASSUME tar_file_lookup_not_found PROVE Moved
  <2>1. /\ done' = TRUE /\ ~(zero_counter < 2)
        /\ UNCHANGED <<current_record, zero_counter, result>>
    BY <1>8 DEF tar_file_lookup_not_found, MoreRecords
  <2>2. m = Len(archive) + 1
    BY <1>1, <1>2, <2>1
  <2>3. Reached(m)
    BY <1>2, <2>1, <2>2
  <2> QED BY <1>1, <2>1, <2>3, Zenon
<1>9. Moved
  BY <1>6, <1>7, <1>8 DEF tar_file_lookup
<1>10. LookupInv'
  BY <1>1, <1>3, <1>9, Zenon DEF LookupInv
<1>11. DirTypeInv' /\ op' = "lookup" /\ dir_pc' = "start"
  BY <1>1, <1>9 DEF DirInv, DirTypeInv, dirvars, locals
<1> QED BY <1>10, <1>11 DEF DirInv

\* What a listing should contain depends on the archive and on dir only.
LEMMA SameDir ==
  ASSUME archive' = archive, dir' = dir
  PROVE  /\ Plain' = Plain
         /\ \A n : Rest(n)' = Rest(n) /\ RestSet(n)' = RestSet(n) /\ Tops(n)' = Tops(n)
<1>1. \A n : Rest(n)' = Rest(n)
  BY DEF Rest
<1>2. \A n : RestSet(n)' = RestSet(n)
  BY <1>1 DEF RestSet
<1>3. \A n : Tops(n)' = Tops(n)
  BY SameArchive DEF Tops
<1>4. \A t : RestsBelow(t)' = RestsBelow(t)
  BY SameArchive DEF RestsBelow
<1>5. PrefixesOfDir' = PrefixesOfDir
  BY DEF PrefixesOfDir
<1>6. Rests' = Rests
  BY <1>4, <1>5 DEF Rests
<1>7. Echo' = Echo
  BY <1>5, <1>6 DEF Echo
<1>8. Plain' = Plain
  BY <1>7 DEF Plain, Below
<1> QED BY <1>1, <1>2, <1>3, <1>8

\* A step that moves neither the archive nor dir
LEMMA ListInvAfter ==
  ASSUME archive' = archive, dir' = dir,
         NEW m \in 1 .. Len(archive) + 1, current_record' = HeaderAddress[m],
         dir_pc' # "start",
         dir_pc' = "next" => Collected(m - 1, pathes'),
         dir_pc' = "scan" => Scanning(m - 1, pathes', path', index'),
         dir_pc' = "out" => Collected(Len(archive), pathes'),
         dir_pc' = "done" => Collected(Len(archive), listing')
  PROVE  ListInv'
<1>1. HeaderAddress' = HeaderAddress /\ TopNames' = TopNames
  BY SameArchive
<1>2. /\ Plain' = Plain
      /\ \A n : Rest(n)' = Rest(n) /\ RestSet(n)' = RestSet(n) /\ Tops(n)' = Tops(n)
  BY SameDir
<1>3. dir_pc' = "next" => Collected(m - 1, pathes)'
  BY <1>2 DEF Collected
<1>4. dir_pc' = "out" => Collected(Len(archive), pathes)'
  BY <1>2 DEF Collected
<1>5. dir_pc' = "done" => Collected(Len(archive), listing)'
  BY <1>2 DEF Collected
<1>6. dir_pc' = "scan" => Scanning(m - 1, pathes, path, index)'
  BY <1>1, <1>2 DEF Scanning
<1> QED BY <1>1, <1>3, <1>4, <1>5, <1>6 DEF ListInv

\* The rests of the entries of the archive
LEMMA RestSetIs ==
  ASSUME archive \in Seq(Header), Plain, NEW n \in 0 .. Len(archive), NEW r \in RestSet(n)
  PROVE  r \in Rests /\ r \in Text /\ r # <<>> /\ r[1] # Slash
<1>1. PICK k \in 1 .. n : r = Rest(k) /\ r # <<>>
  BY DEF RestSet
<1>2. k \in 1 .. Len(archive)
  OBVIOUS
<1>3. archive[k].name \in Names /\ archive[k].name \in ArchiveNames /\ archive[k].name \in Text
  BY <1>2, ArchiveNameIs
<1>4. r \in Text
  BY <1>1, <1>3, RemovePrefixType DEF Rest, Plain, Below
<1> QED BY <1>1, <1>3, <1>4, RestOfName DEF Rest, Plain

\* One more entry
LEMMA RestSetGrows ==
  ASSUME NEW n \in Nat \ {0}
  PROVE  RestSet(n) = RestSet(n - 1) \union ({Rest(n)} \ {<<>>})
<1>1. \A k \in 1 .. n : k = n \/ k \in 1 .. n - 1
  OBVIOUS
<1>2. n \in 1 .. n /\ \A k \in 1 .. n - 1 : k \in 1 .. n
  OBVIOUS
<1> QED BY <1>1, <1>2, Zenon DEF RestSet

\* vfs_read_dir makes the path relative; nothing has been collected yet.
LEMMA VfsReadDirStep == ASSUME DirInv, vfs_read_dir PROVE DirInv'
<1>1. /\ archive \in Seq(Header) /\ op = "read_dir" /\ dir_pc = "start" /\ dir_pc' = "next"
      /\ dir' = WithoutSlash(dir) /\ broken' \in BOOLEAN /\ UNCHANGED lookupvars
      /\ UNCHANGED <<op, path, index, pathes, clean, listing>>
  BY DEF DirInv, DirTypeInv, vfs_read_dir, Listing
<1>2. archive' = archive /\ current_record' = current_record
  BY <1>1 DEF lookupvars
<1>3. HeaderAddress' = HeaderAddress /\ TopNames' = TopNames
  BY <1>2, SameArchive
<1>4. current_record = HeaderAddress[1] /\ pathes = <<>> /\ 1 \in 1 .. Len(archive) + 1
  BY <1>1 DEF DirInv, ListInv
<1>5. Collected(1 - 1, pathes)'
  <2>1. Tops(0)' = <<>>
    <3>1. TopNames[0] = <<>> /\ 0 # 1
      BY <1>1, TopNamesIs
    <3>2. TopNames'[0] = <<>>
      BY <1>3, <3>1
    <3> QED BY <3>1, <3>2 DEF Tops
  <2>2. RestSet(0)' = {}
    BY DEF RestSet
  <2>3. Range(<<>>) = {}
    BY DEF Range
  <2>4. 1 - 1 = 0 /\ pathes' = <<>>
    BY <1>1, <1>4
  <2> QED BY <2>1, <2>2, <2>3, <2>4 DEF Collected
<1>6. ListInv'
  BY <1>1, <1>2, <1>3, <1>4, <1>5 DEF ListInv
<1>7. DirTypeInv'
  <2>1. dir' \in Text
    BY <1>1, Stripped DEF DirInv, DirTypeInv
  <2> QED BY <1>1, <2>1 DEF DirInv, DirTypeInv, lookupvars
<1>8. op' = "read_dir" /\ ~done' /\ result' = NoHeader
  BY <1>1 DEF DirInv, lookupvars
<1> QED BY <1>6, <1>7, <1>8 DEF DirInv

\* tar_file_prefix_lookup finds one more entry.
LEMMA HeaderStep == ASSUME DirInv, ustar_read_dir_header PROVE DirInv'
<1>1. /\ archive \in Seq(Header) /\ dir \in Text /\ op = "read_dir" /\ dir_pc = "next"
      /\ current_record \in Addresses
      /\ path' = remove_prefix(HeaderAt(current_record).name, dir)
      /\ current_record' = NextRecord(current_record, FileSizeField(HeaderAt(current_record).size))
      /\ dir_pc' = (IF path' = <<>> THEN "next" ELSE "scan") /\ index' = 0
      /\ UNCHANGED inputs
      /\ UNCHANGED <<zero_counter, result, done, op, dir, pathes, clean, listing, broken>>
  BY DEF DirInv, DirTypeInv, ustar_read_dir_header, Listing
<1>2. PICK m \in 1 .. Len(archive) + 1 :
        current_record = HeaderAddress[m] /\ Collected(m - 1, pathes)
  BY <1>1 DEF DirInv, ListInv
<1>3. /\ m # Len(archive) + 1 /\ HeaderAt(current_record) = archive[m]
      /\ current_record' = HeaderAddress[m + 1]
  BY <1>1, <1>2, Headers
<1>4. Len(archive) \in Nat /\ m \in 1 .. Len(archive) /\ m + 1 \in 1 .. Len(archive) + 1
      /\ (m + 1) - 1 = m /\ m \in Nat \ {0}
  BY <1>1, <1>2, <1>3
<1>5. path' = Rest(m)
  BY <1>1, <1>3 DEF Rest
<1>6. ASSUME dir = <<>> PROVE path' = archive[m].name /\ path' # <<>>
  <2>1. archive[m].name \in Text /\ archive[m].name # <<>> /\ archive[m].name[1] # Slash
    BY <1>1, <1>4, ArchiveNameIs
  <2>2. WithoutSlash(archive[m].name) = archive[m].name /\ WithoutSlash(<<>>) = <<>>
    BY <2>1, Stripped DEF WithoutSlash
  <2>3. remove_prefix(archive[m].name, <<>>) = archive[m].name
    BY <2>2, Zenon DEF remove_prefix
  <2> QED BY <1>5, <1>6, <2>1, <2>3 DEF Rest
<1>7. dir_pc' = "next" => Collected((m + 1) - 1, pathes')
  <2> SUFFICES ASSUME path' = <<>> PROVE Collected(m, pathes)
    BY <1>1, <1>4
  <2>1. dir # <<>>
    BY <1>6
  <2>2. RestSet(m) = RestSet(m - 1)
    BY <1>4, <1>5, RestSetGrows, Zenon
  <2> QED BY <1>2, <2>1, <2>2 DEF Collected
<1>8. dir_pc' = "scan" => Scanning((m + 1) - 1, pathes', path', index')
  <2> SUFFICES ASSUME path' # <<>> PROVE Scanning(m, pathes, path', 0)
    BY <1>1, <1>4
  <2>1. m >= 1 /\ 0 <= Len(pathes) /\ 1 .. 0 = {}
    BY <1>4 DEF DirInv, DirTypeInv
  <2> QED BY <1>2, <1>5, <1>6, <2>1 DEF Scanning, Collected
<1>9. archive' = archive /\ dir' = dir /\ dir_pc' \in {"next", "scan"}
  BY <1>1 DEF inputs
<1>10. ListInv'
  BY <1>3, <1>4, <1>7, <1>8, <1>9, ListInvAfter
<1>11. DirTypeInv'
  <2>1. path' \in Text
    BY <1>1, <1>4, <1>5, ArchiveNameIs, RemovePrefixType DEF Rest
  <2>2. index' \in 0 .. PATHES
    BY <1>1, UstarDirAssumption
  <2> QED BY <1>1, <1>9, <2>1, <2>2 DEF DirInv, DirTypeInv, inputs
<1> QED BY <1>1, <1>10, <1>11 DEF DirInv

\* The archive ends.
LEMMA EndStep == ASSUME DirInv, ustar_read_dir_end PROVE DirInv'
<1>1. /\ archive \in Seq(Header) /\ op = "read_dir" /\ dir_pc = "next" /\ dir_pc' = "out"
      /\ current_record \notin Addresses /\ UNCHANGED lookupvars
      /\ UNCHANGED <<op, dir, path, index, pathes, clean, listing, broken>>
  BY DEF DirInv, DirTypeInv, ustar_read_dir_end, Listing
<1>2. PICK m \in 1 .. Len(archive) + 1 :
        current_record = HeaderAddress[m] /\ Collected(m - 1, pathes)
  BY <1>1 DEF DirInv, ListInv
<1>3. m = Len(archive) + 1
  BY <1>1, <1>2, Headers
<1>4. m - 1 = Len(archive)
  BY <1>1, <1>3
<1>5. Collected(Len(archive), pathes')
  BY <1>1, <1>2, <1>4
<1>6. archive' = archive /\ dir' = dir /\ current_record' = HeaderAddress[m]
  BY <1>1, <1>2 DEF lookupvars
<1>7. ListInv'
  BY <1>1, <1>5, <1>6, ListInvAfter
<1>8. DirTypeInv'
  BY <1>1 DEF DirInv, DirTypeInv, lookupvars
<1> QED BY <1>1, <1>7, <1>8 DEF DirInv, lookupvars

\* The listing is returned.
LEMMA ReturnStep == ASSUME DirInv, ustar_read_dir_return PROVE DirInv'
<1>1. /\ archive \in Seq(Header) /\ op = "read_dir" /\ dir_pc = "out" /\ UNCHANGED lookupvars
      /\ \/ broken' = TRUE /\ UNCHANGED <<listing, dir_pc>>
         \/ listing' = pathes /\ dir_pc' = "done" /\ UNCHANGED broken
      /\ UNCHANGED <<op, dir, path, index, pathes, clean>>
  BY Zenon DEF DirInv, DirTypeInv, ustar_read_dir_return, Listing
<1>2. PICK m \in 1 .. Len(archive) + 1 :
        current_record = HeaderAddress[m] /\ Collected(Len(archive), pathes)
  BY <1>1 DEF DirInv, ListInv
<1>3. archive' = archive /\ dir' = dir /\ current_record' = HeaderAddress[m]
  BY <1>1, <1>2 DEF lookupvars
<1>4. ListInv'
  <2>1. /\ dir_pc' \in {"out", "done"} /\ pathes' = pathes
        /\ dir_pc' = "done" => listing' = pathes
    BY <1>1
  <2> QED BY <1>2, <1>3, <2>1, ListInvAfter
<1>5. DirTypeInv'
  BY <1>1, Zenon DEF DirInv, DirTypeInv, lookupvars
<1> QED BY <1>1, <1>4, <1>5 DEF DirInv, lookupvars

\* The names in the root after the first entry and after one more
LEMMA TopsStep ==
  ASSUME archive \in Seq(Header), NEW n \in 1 .. Len(archive)
  PROVE  /\ n = 1 => TopNames[n - 1] = <<>> /\ TopNames[n] = <<Cut(archive[1].name)>>
         /\ n > 1 => Tops(n) = TopNames[n] /\ TopNames[n - 1] # <<>>
         /\ TopNames[n - 1] \in Seq({x \in Text : TopName(x)})
<1>1. Len(archive) \in Nat /\ n - 1 \in 0 .. Len(archive) /\ n \in Nat \ {0}
  OBVIOUS
<1>2. ASSUME n = 1 PROVE TopNames[n - 1] = <<>> /\ TopNames[n] = <<Cut(archive[1].name)>>
  <2>1. TopNames[n - 1] = <<>>
    BY <1>2, TopNamesIs
  <2>2. Cut(archive[1].name) \notin Range(<<>>)
    BY DEF Range
  <2>3. TopNames[n] = Append(<<>>, Cut(archive[1].name))
    BY <1>2, <2>1, <2>2, TopNamesIs, Zenon
  <2> QED BY <2>1, <2>3
<1>3. ASSUME n > 1 PROVE Tops(n) = TopNames[n] /\ TopNames[n - 1] # <<>>
  <2>1. n - 1 > 0 /\ n # 1
    BY <1>1, <1>3
  <2> QED BY <1>1, <2>1, TopNamesIs, Zenon DEF Tops
<1>4. TopNames[n - 1] \in Seq({x \in Text : TopName(x)})
  BY <1>1, TopNamesIs
<1> QED BY <1>2, <1>3, <1>4

\* An entry that is like none before it is added, if there is a slot for it.
LEMMA AddStep == ASSUME DirInv, ustar_read_dir_add PROVE DirInv'
<1>1. /\ archive \in Seq(Header) /\ op = "read_dir" /\ dir_pc = "scan" /\ UNCHANGED lookupvars
      /\ ~(index < PATHES /\ index < Len(pathes))
      /\ \/ broken' = TRUE /\ UNCHANGED <<pathes, dir_pc>>
         \/ /\ Len(pathes) # PATHES /\ pathes' = Append(pathes, path) /\ dir_pc' = "next"
            /\ UNCHANGED broken
      /\ UNCHANGED <<op, dir, path, index, clean, listing>>
  BY Zenon DEF DirInv, DirTypeInv, ustar_read_dir_add, Listing
<1>2. PICK m \in 1 .. Len(archive) + 1 :
        current_record = HeaderAddress[m] /\ Scanning(m - 1, pathes, path, index)
  BY <1>1 DEF DirInv, ListInv
<1>3. archive' = archive /\ dir' = dir /\ current_record' = HeaderAddress[m]
  BY <1>1, <1>2 DEF lookupvars
<1>4. /\ pathes \in Seq(Text) /\ path \in Text /\ Len(pathes) <= PATHES
      /\ index \in 0 .. PATHES /\ Len(pathes) \in Nat /\ PATHES \in Nat
  BY UstarDirAssumption DEF DirInv, DirTypeInv
<1>5. CASE UNCHANGED <<pathes, dir_pc>> /\ broken' = TRUE
  <2>1. ListInv'
    BY <1>1, <1>2, <1>3, <1>5, ListInvAfter
  <2>2. DirTypeInv'
    BY <1>1, <1>5 DEF DirInv, DirTypeInv, lookupvars
  <2> QED BY <1>1, <2>1, <2>2 DEF DirInv, lookupvars
<1>6. CASE /\ Len(pathes) # PATHES /\ pathes' = Append(pathes, path) /\ dir_pc' = "next"
           /\ UNCHANGED broken
  <2> DEFINE n == m - 1
  <2>1. /\ Len(archive) \in Nat /\ n \in 1 .. Len(archive) /\ n \in Nat \ {0}
        /\ index <= Len(pathes)
    <3>1. m - 1 >= 1 /\ index <= Len(pathes)
      BY <1>2, Zenon DEF Scanning
    <3>2. Len(archive) \in Nat
      BY <1>1
    <3> QED BY <3>1, <3>2
  <2>2. index = Len(pathes)
    BY <1>1, <1>4, <1>6, <2>1
  <2>3. ASSUME dir = <<>> PROVE pathes' = Tops(n)
    <3>1. /\ pathes = IF index = 0 THEN Tops(n - 1) ELSE TopNames[n - 1]
          /\ path = IF index = 0 THEN archive[n].name ELSE Cut(archive[n].name)
          /\ \A j \in 1 .. index : pathes[j] # path
      BY <1>2, <2>3 DEF Scanning
    <3>2. CASE n = 1
      <4>1. TopNames[0] = <<>> /\ Tops(0) = <<>> /\ n - 1 = 0
        <5>1. n - 1 = 0 /\ 0 # 1
          BY <3>2
        <5> QED BY <1>1, <5>1, TopNamesIs, Zenon DEF Tops
      <4>2. pathes = <<>> /\ index = 0
        BY <2>2, <3>1, <4>1
      <4>3. path = archive[1].name
        BY <3>1, <3>2, <4>2
      <4>4. pathes' = <<archive[1].name>>
        BY <1>6, <4>2, <4>3
      <4> QED BY <3>2, <4>4 DEF Tops
    <3>3. CASE n > 1
      <4>1. Tops(n) = TopNames[n] /\ TopNames[n - 1] # <<>>
        BY <1>1, <2>1, <3>3, TopsStep, Zenon
      <4>2. index # 0
        <5> SUFFICES ASSUME index = 0 PROVE FALSE
          OBVIOUS
        <5>0. pathes = Tops(n - 1)
          BY <3>1
        <5>1. pathes = <<>> /\ pathes = Tops(n - 1)
          BY <1>4, <2>2, <5>0, EmptySeq
        <5>2. CASE n - 1 = 1
          BY <5>1, <5>2 DEF Tops
        <5>3. CASE n - 1 # 1
          BY <4>1, <5>1, <5>3 DEF Tops
        <5> QED BY <5>2, <5>3
      <4>3. pathes = TopNames[n - 1] /\ path = Cut(archive[n].name)
        BY <3>1, <4>2
      <4>4. path \notin Range(pathes)
        <5>1. Range(pathes) = {pathes[j] : j \in 1 .. index}
          BY <1>4, <2>2 DEF Range
        <5> QED BY <3>1, <5>1, Zenon
      <4> QED BY <1>1, <1>6, <2>1, <4>1, <4>3, <4>4, TopNamesIs, Zenon
    <3> QED BY <2>1, <3>2, <3>3
  <2>4. ASSUME Plain PROVE Range(pathes') = RestSet(n)
    <3>1. Range(pathes) = RestSet(n - 1) /\ path = Rest(n) /\ path # <<>>
      BY <1>2, <2>4 DEF Scanning
    <3>2. Range(pathes') = Range(pathes) \union {path}
      <4>1. /\ DOMAIN pathes = 1 .. Len(pathes) /\ DOMAIN pathes' = 1 .. Len(pathes) + 1
            /\ \A j \in 1 .. Len(pathes) : pathes'[j] = pathes[j]
            /\ pathes'[Len(pathes) + 1] = path
        BY <1>4, <1>6
      <4>2. /\ \A j \in 1 .. Len(pathes) + 1 : j = Len(pathes) + 1 \/ j \in 1 .. Len(pathes)
            /\ \A j \in 1 .. Len(pathes) : j \in 1 .. Len(pathes) + 1
            /\ Len(pathes) + 1 \in 1 .. Len(pathes) + 1
        BY <1>4
      <4> QED BY <4>1, <4>2, Zenon DEF Range
    <3>3. RestSet(n) = RestSet(n - 1) \union ({Rest(n)} \ {<<>>})
      BY <2>1, RestSetGrows
    <3> QED BY <3>1, <3>2, <3>3
  <2>5. Collected(m - 1, pathes')
    BY <2>3, <2>4 DEF Collected
  <2>6. ListInv'
    BY <1>3, <1>6, <2>5, ListInvAfter
  <2>7. DirTypeInv'
    <3>1. pathes' \in Seq(Text) /\ Len(pathes') <= PATHES
      BY <1>4, <1>6
    <3> QED BY <1>1, <1>6, <3>1 DEF DirInv, DirTypeInv, lookupvars
  <2> QED BY <1>1, <2>6, <2>7 DEF DirInv, lookupvars
<1> QED BY <1>1, <1>5, <1>6, Zenon

\* In the root a name is compared as it is.  The first one is cut when it is
\* first compared; the others have been.
ComparedInRoot(n, ps, s, x) ==
  LET p == ps[x + 1]
      new == [ps EXCEPT ![x + 1] = Cut(p)]
  IN  /\ p \in Text /\ p # <<>> /\ p[1] # Slash /\ n > 1
      /\ new = TopNames[n - 1] /\ new[x + 1] = Cut(p)
      /\ Cut(s) = Cut(archive[n].name)
      /\ \A j \in 1 .. x : new[j] # Cut(s)

\* That is what the first comparison of a name in the root leaves.
LEMMA RootCompared ==
  ASSUME archive \in Seq(Header), NEW n \in 1 .. Len(archive), dir = <<>>,
         NEW ps \in Seq(Text), NEW s \in Text, NEW x \in Nat, x < Len(ps),
         Scanning(n, ps, s, x)
  PROVE  ComparedInRoot(n, ps, s, x)
<1> USE DEF ComparedInRoot
<1> DEFINE p == ps[x + 1]
           new == [ps EXCEPT ![x + 1] = Cut(p)]
           Top == {t \in Text : TopName(t)}
<1>1. /\ Len(archive) \in Nat /\ n - 1 \in 0 .. Len(archive) /\ x + 1 \in 1 .. Len(ps)
      /\ Len(ps) \in Nat /\ p \in Text
  OBVIOUS
<1>2. /\ ps = IF x = 0 THEN Tops(n - 1) ELSE TopNames[n - 1]
      /\ s = IF x = 0 THEN archive[n].name ELSE Cut(archive[n].name)
      /\ \A j \in 1 .. x : ps[j] # s
  BY DEF Scanning
<1>3. n > 1
  <2> SUFFICES ASSUME n = 1 PROVE FALSE
    BY <1>1
  <2>1. TopNames[n - 1] = <<>> /\ Tops(n - 1) = <<>>
    BY TopNamesIs DEF Tops
  <2>2. ps = <<>>
    BY <1>2, <2>1
  <2> QED BY <1>1, <2>2
<1>4. Cut(s) = Cut(archive[n].name)
  <2>1. Cut(Cut(archive[n].name)) = Cut(archive[n].name)
    BY ArchiveNameIs, CutName
  <2> QED BY <1>2, <2>1
<1>5. CASE x = 0 /\ n - 1 = 1
  <2>1. ps = <<archive[1].name>>
    BY <1>2, <1>5 DEF Tops
  <2>2. p = archive[1].name
    BY <1>5, <2>1
  <2>3. new = <<Cut(archive[1].name)>>
    BY <1>5, <2>1, <2>2
  <2>a. 1 \in 1 .. Len(archive)
    BY <1>1
  <2>b. TopNames[1] = <<Cut(archive[1].name)>>
    BY <2>a, TopsStep, Zenon
  <2>4. TopNames[n - 1] = <<Cut(archive[1].name)>>
    BY <1>5, <2>b
  <2>5. p # <<>> /\ p[1] # Slash
    BY <2>a, <2>2, ArchiveNameIs, Zenon
  <2>6. new[x + 1] = Cut(p)
    BY <1>5, <2>2, <2>3
  <2>7. \A j \in 1 .. x : new[j] # Cut(s)
    BY <1>5
  <2> QED BY <1>1, <1>3, <1>4, <2>3, <2>4, <2>5, <2>6, <2>7
<1>6. CASE ~(x = 0 /\ n - 1 = 1)
  <2>1. ps = TopNames[n - 1]
    BY <1>2, <1>6 DEF Tops
  <2>2. ps \in Seq(Top)
    BY <1>1, <2>1, TopNamesIs
  <2>3. TopName(p) /\ p \in Text
    <3>1. p \in Top
      BY <1>1, <2>2
    <3> QED BY <3>1
  <2>4. p # <<>> /\ p[1] # Slash /\ Cut(p) = p
    BY <2>3 DEF TopName
  <2>5. new = ps /\ new[x + 1] = Cut(p)
    BY <1>1, <2>4
  <2>6. ASSUME NEW j \in 1 .. x PROVE new[j] # Cut(s)
    <3>1. x # 0
      BY <2>6
    <3>2. s = Cut(s)
      BY <1>2, <1>4, <3>1
    <3> QED BY <1>2, <2>5, <2>6, <3>2
  <2> QED BY <1>1, <1>3, <1>4, <2>1, <2>4, <2>5, <2>6
<1> QED BY <1>5, <1>6

\* A name is compared: in the root both are cut, and only one with a new start
\* goes on; below it nothing is left to compare.
LEMMA CompareStep == ASSUME DirInv, ustar_read_dir_compare PROVE DirInv'
<1> DEFINE p == pathes[index + 1]
           q == remove_prefix(p, dir)
           compared == WithoutSlash(q) # <<>>
           cutp == SubSeq(p, 1, Len(p) - Len(q)) \o Cut(q)
<1>1. /\ archive \in Seq(Header) /\ op = "read_dir" /\ dir_pc = "scan"
      /\ index < PATHES /\ index < Len(pathes)
      /\ dir_pc' = IF is_in_same_dir(path, q) THEN "next" ELSE "scan"
      /\ path' = IF compared THEN Cut(path) ELSE path
      /\ pathes' = IF compared THEN [pathes EXCEPT ![index + 1] = cutp] ELSE pathes
      /\ index' = index + 1
      /\ UNCHANGED <<lookupvars, op, dir, clean, listing, broken>>
  BY DEF DirInv, DirTypeInv, ustar_read_dir_compare, Listing
<1>2. PICK m \in 1 .. Len(archive) + 1 :
        current_record = HeaderAddress[m] /\ Scanning(m - 1, pathes, path, index)
  BY <1>1 DEF DirInv, ListInv
<1>3. archive' = archive /\ dir' = dir /\ current_record' = HeaderAddress[m]
  BY <1>1, <1>2 DEF lookupvars
<1>4. /\ pathes \in Seq(Text) /\ path \in Text /\ Len(pathes) <= PATHES /\ dir \in Text
      /\ index \in 0 .. PATHES /\ Len(pathes) \in Nat /\ PATHES \in Nat
  BY UstarDirAssumption DEF DirInv, DirTypeInv
<1>a. archive \in Seq(Header) /\ index < PATHES /\ index < Len(pathes) /\ index' = index + 1
  BY <1>1, Zenon
<1>5. index + 1 \in 1 .. Len(pathes) /\ p \in Text /\ index + 1 \in 0 .. PATHES
  BY <1>a, <1>4
<1> DEFINE n == m - 1
<1>6. Len(archive) \in Nat /\ n \in 1 .. Len(archive) /\ index <= Len(pathes)
  <2>1. m - 1 >= 1 /\ index <= Len(pathes)
    BY <1>2, Zenon DEF Scanning
  <2>2. Len(archive) \in Nat
    BY <1>a
  <2>3. m - 1 \in 1 .. Len(archive)
    BY <2>1, <2>2
  <2> QED BY <2>1, <2>2, <2>3
<1>7. q \in Text /\ Len(q) <= Len(p) /\ Len(q) \in Nat /\ Len(p) \in Nat
  BY <1>4, <1>5, RemovePrefixType DEF Text
<1>8. cutp \in Text
  <2>1. Cut(q) \in Text
    BY <1>7, CutType
  <2>2. SubSeq(p, 1, Len(p) - Len(q)) \in Text
    BY <1>5, <1>7, Part DEF Text
  <2> QED BY <2>1, <2>2 DEF Text
<1>9. DirTypeInv'
  <2>1. path' \in Text
    BY <1>1, <1>4, CutType
  <2>2. pathes' \in Seq(Text) /\ Len(pathes') = Len(pathes)
    <3>1. CASE compared
      <4>1. pathes' = [pathes EXCEPT ![index + 1] = cutp]
        BY <1>1, <3>1
      <4> HIDE DEF cutp
      <4> QED BY <1>4, <1>5, <1>8, <4>1, ExceptSeq
    <3>2. CASE ~compared
      BY <1>1, <1>4, <3>2
    <3> QED BY <3>1, <3>2
  <2>3. index' \in 0 .. PATHES
    BY <1>a, <1>5, Zenon
  <2>4. dir_pc' \in {"start", "next", "scan", "out", "done"}
    BY <1>1
  <2>5. Len(pathes') <= PATHES
    BY <1>4, <2>2
  <2> QED BY <1>1, <2>1, <2>2, <2>3, <2>4, <2>5, Zenon DEF DirInv, DirTypeInv, lookupvars
<1>10. ASSUME dir = <<>>
       PROVE  IF is_in_same_dir(path, q) THEN Collected(n, pathes')
              ELSE Scanning(n, pathes', path', index')
  <2>1. /\ p # <<>> /\ p[1] # Slash /\ n > 1 /\ Cut(path) = Cut(archive[n].name)
        /\ [pathes EXCEPT ![index + 1] = Cut(p)] = TopNames[n - 1]
        /\ TopNames[n - 1][index + 1] = Cut(p)
        /\ \A j \in 1 .. index : TopNames[n - 1][j] # Cut(path)
    <3>1. index \in Nat
      BY <1>4
    <3> HIDE DEF n
    <3>2. Scanning(n, pathes, path, index)
      BY <1>2, Zenon DEF n
    <3>3. ComparedInRoot(n, pathes, path, index)
      BY <1>a, <1>4, <1>6, <1>10, <3>1, <3>2, RootCompared, Zenon
    <3> QED BY <3>3, Zenon DEF ComparedInRoot
  <2>2. WithoutSlash(p) = p /\ WithoutSlash(dir) = <<>>
    BY <1>10, <2>1 DEF WithoutSlash
  <2>3. q = p
    BY <2>2 DEF remove_prefix
  <2>4. compared /\ SubSeq(p, 1, 0) = <<>> /\ Cut(p) \in Seq(Chars)
    <3>1. compared
      BY <2>1, <2>2, <2>3, Zenon
    <3>2. Cut(p) \in Seq(Chars)
      BY <1>5, CutType, Zenon DEF Text
    <3> HIDE DEF p
    <3>3. SubSeq(p, 1, 0) = <<>>
      BY <1>5 DEF Text
    <3> QED BY <3>1, <3>2, <3>3, Zenon
  <2>5. cutp = Cut(p)
    <3>1. Len(p) - Len(q) = 0
      BY <1>7, <2>3
    <3> QED BY <2>3, <2>4, <3>1
  <2>6. pathes' = TopNames[n - 1] /\ path' = Cut(archive[n].name) /\ index' = index + 1
    BY <1>1, <2>1, <2>4, <2>5, Zenon
  <2>7. is_in_same_dir(path, q) <=> Cut(path) = Cut(p)
    <3>1. WithoutSlash(Cut(p)) = Cut(p)
      BY <1>5, <2>1, CutName DEF WithoutSlash
    <3>2. WithoutSlash(Cut(archive[n].name)) = Cut(archive[n].name)
      BY <1>1, <1>6, ArchiveNameIs, Zenon DEF WithoutSlash, TopName
    <3> QED BY <2>1, <2>2, <2>3, <3>1, <3>2 DEF is_in_same_dir
  <2>8. ~Plain
    BY <1>10 DEF Plain, Below
  <2>9. Tops(n) = TopNames[n] /\ TopNames[n - 1] \in Seq({y \in Text : TopName(y)})
    BY <1>1, <1>6, <2>1, TopsStep, Zenon
  <2>10. Len(TopNames[n - 1]) = Len(pathes)
    <3> HIDE DEF p
    <3> QED BY <1>4, <2>1
  <2>11. CASE Cut(path) = Cut(p)
    <3>1. Cut(archive[n].name) \in Range(TopNames[n - 1])
      BY <1>5, <2>1, <2>10, <2>11 DEF Range
    <3>2. TopNames[n] = TopNames[n - 1]
      BY <1>1, <1>6, <3>1, TopNamesIs, Zenon
    <3> QED BY <2>6, <2>7, <2>8, <2>9, <2>11, <3>2 DEF Collected
  <2>12. CASE Cut(path) # Cut(p)
    <3>1. \A j \in 1 .. index + 1 : TopNames[n - 1][j] # Cut(archive[n].name)
      <4>1. \A j \in 1 .. index + 1 : j \in 1 .. index \/ j = index + 1
        BY <1>4
      <4> QED BY <2>1, <2>12, <4>1
    <3>2. index' # 0 /\ index' <= Len(pathes') /\ n >= 1
      BY <1>4, <1>5, <1>6, <2>6, <2>10
    <3>3. Scanning(n, pathes', path', index')
      BY <2>6, <2>8, <3>1, <3>2 DEF Scanning
    <3> QED BY <2>7, <2>12, <3>3
  <2> QED BY <2>11, <2>12
<1>11. ASSUME dir # <<>>
       PROVE  IF is_in_same_dir(path, q) THEN Collected(n, pathes')
              ELSE Scanning(n, pathes', path', index')
  <2>1. ASSUME Plain PROVE ~compared /\ ~is_in_same_dir(path, q)
    <3>1. p \in RestSet(n - 1)
      <4>1. Range(pathes) = RestSet(n - 1)
        BY <1>2, <2>1, Zenon DEF Scanning
      <4>2. p \in Range(pathes)
        BY <1>4, <1>5 DEF Range
      <4> QED BY <4>1, <4>2, Zenon
    <3>2. n - 1 \in 0 .. Len(archive)
      BY <1>6
    <3>3. p \in Rests /\ p \in Text /\ p # <<>> /\ p[1] # Slash
      BY <1>1, <2>1, <3>1, <3>2, RestSetIs
    <3>4. q = <<>>
      BY <2>1, <3>3, NoEcho DEF Plain
    <3>5. WithoutSlash(q) = <<>>
      BY <3>4 DEF WithoutSlash
    <3> QED BY <3>5 DEF is_in_same_dir
  <2>2. ASSUME ~Plain, is_in_same_dir(path, q) PROVE Collected(n, pathes')
    BY <1>11, <2>2 DEF Collected
  <2>3. Len(pathes') = Len(pathes) /\ index' <= Len(pathes') /\ n >= 1
    <3>1. Len(pathes') = Len(pathes)
      <4> HIDE DEF p, q, cutp
      <4> QED BY <1>1, <1>4
    <3> QED BY <1>a, <1>5, <1>6, <3>1
  <2>4. ASSUME ~is_in_same_dir(path, q) PROVE Scanning(n, pathes', path', index')
    <3>1. ASSUME Plain
          PROVE  Range(pathes') = RestSet(n - 1) /\ path' = Rest(n) /\ path' # <<>>
      <4>1. pathes' = pathes /\ path' = path
        BY <1>1, <2>1, <3>1
      <4> QED BY <1>2, <3>1, <4>1 DEF Scanning
    <3> QED BY <1>11, <2>3, <3>1 DEF Scanning
  <2> QED BY <2>1, <2>2, <2>4
<1>12. dir_pc' = "next" => Collected(m - 1, pathes')
  BY <1>1, <1>10, <1>11
<1>13. dir_pc' = "scan" => Scanning(m - 1, pathes', path', index')
  BY <1>1, <1>10, <1>11
<1>14. ListInv'
  BY <1>1, <1>3, <1>12, <1>13, ListInvAfter, Zenon
<1> QED BY <1>1, <1>9, <1>14 DEF DirInv, lookupvars

\* Every step keeps the invariant.
LEMMA DirNextInv == ASSUME DirInv, [DirNext]_allvars PROVE DirInv'
<1>1. CASE op = "lookup" /\ tar_file_lookup /\ UNCHANGED dirvars
  BY <1>1, LookupStep
<1>2. CASE ReadDir
  BY <1>2, VfsReadDirStep, HeaderStep, EndStep, CompareStep, AddStep, ReturnStep DEF ReadDir
<1>3. CASE UNCHANGED allvars
  <2>1. UNCHANGED <<lookupvars, dirvars>>
    BY <1>3 DEF allvars
  <2>2. archive' = archive /\ dir' = dir
    BY <2>1 DEF lookupvars, inputs, dirvars, locals
  <2>3. DirTypeInv'
    BY <2>1 DEF DirInv, DirTypeInv, lookupvars, inputs, dirvars, locals
  <2>4. op' = "lookup" => LookupInv' /\ dir_pc' = "start"
    BY <2>1, <2>2, SameArchive DEF DirInv, LookupInv, lookupvars, inputs, dirvars, locals
  <2>5. ASSUME op' = "read_dir" PROVE ListInv'
    <3>1. op = "read_dir" /\ UNCHANGED <<current_record, dir_pc, pathes, path, index, listing>>
      BY <2>1, <2>5 DEF lookupvars, dirvars, locals
    <3>2. ListInv
      BY <3>1 DEF DirInv
    <3>3. CASE dir_pc = "start"
      BY <2>2, <3>1, <3>2, <3>3, SameArchive DEF ListInv
    <3>4. CASE dir_pc # "start"
      BY <2>2, <3>1, <3>2, <3>4, ListInvAfter DEF ListInv
    <3> QED BY <3>3, <3>4
  <2>6. op' = "read_dir" => ~done' /\ result' = NoHeader
    BY <2>1 DEF DirInv, lookupvars, dirvars
  <2> QED BY <2>3, <2>4, <2>5, <2>6 DEF DirInv
<1> QED BY <1>1, <1>2, <1>3 DEF DirNext

\* The invariant holds in every reachable state.
LEMMA DirInductive == DirSpec => []DirInv
<1>1. DirInit => DirInv
  BY DirInitInv
<1>2. DirInv /\ [DirNext]_allvars => DirInv'
  BY DirNextInv
<1> QED BY <1>1, <1>2, PTL DEF DirSpec

\* The strings of ustar_read_dir are strings, pathes never has more names than
\* slots, and tar_file_lookup returns the address of a header or NULL.
THEOREM DirTypeCorrect == DirSpec => []DirTypeOK
<1>1. DirInv => DirTypeOK
  <2> SUFFICES ASSUME DirInv PROVE DirTypeOK
    OBVIOUS
  <2>1. archive \in Seq(Header) /\ op \in {"lookup", "read_dir"}
    BY DEF DirInv, DirTypeInv
  <2>2. PICK m \in 1 .. Len(archive) + 1 : current_record = HeaderAddress[m]
    BY <2>1 DEF DirInv, LookupInv, ListInv
  <2>3. current_record \in Nat
    BY <2>1, <2>2, Layout
  <2>4. result \in Addresses \union {NoHeader}
    <3>1. CASE op = "read_dir"
      BY <3>1 DEF DirInv
    <3>2. CASE op = "lookup"
      <4>1. PICK k \in 1 .. Len(archive) + 1 :
              /\ current_record = HeaderAddress[k]
              /\ ~done => result = NoHeader
              /\ done => IF k = Len(archive) + 1 THEN result = NoHeader
                         ELSE result = current_record
        BY <3>2 DEF DirInv, LookupInv
      <4>2. k # Len(archive) + 1 => HeaderAddress[k] \in Addresses
        BY <2>1, <4>1, Headers
      <4> QED BY <4>1, <4>2
    <3> QED BY <2>1, <3>1, <3>2
  <2>5. LookupTypeOK
    BY <2>3, <2>4 DEF DirInv, DirTypeInv, LookupTypeOK
  <2> QED BY <2>5 DEF DirInv, DirTypeInv, DirTypeOK, Text
<1> QED BY <1>1, DirInductive, PTL

\* tar_file_lookup returns the first header with the searched name, or NULL if
\* there is none, for every archive: whatever the sizes of the files between,
\* which say in octal where the next header is.
THEOREM AlwaysFindsFirst == DirSpec => []FindsFirst
<1>1. DirInv => FindsFirst
  <2> SUFFICES ASSUME DirInv, done
               PROVE  result = IF Matches = {} THEN NoHeader ELSE HeaderAddress[Min(Matches)]
    BY DEF FindsFirst
  <2>1. archive \in Seq(Header) /\ Len(archive) \in Nat /\ op = "lookup"
    BY DEF DirInv, DirTypeInv
  <2>2. PICK m \in 1 .. Len(archive) + 1 :
          /\ current_record = HeaderAddress[m]
          /\ \A j \in 1 .. m - 1 : archive[j].name # searched_file
          /\ IF m = Len(archive) + 1 THEN result = NoHeader
             ELSE result = current_record /\ archive[m].name = searched_file
    BY <2>1 DEF DirInv, LookupInv
  <2>3. CASE m = Len(archive) + 1
    <3>1. \A j \in 1 .. Len(archive) : j \in 1 .. m - 1
      BY <2>1, <2>3
    <3>2. Matches = {}
      BY <2>2, <3>1 DEF Matches
    <3> QED BY <2>2, <2>3, <3>2
  <2>4. CASE m # Len(archive) + 1
    <3>1. m \in Matches /\ Matches \in SUBSET Nat
      BY <2>1, <2>2, <2>4 DEF Matches
    <3>2. Min(Matches) \in Matches /\ Min(Matches) <= m
      BY <3>1, MinIsElement
    <3>3. Min(Matches) \in Nat /\ Min(Matches) >= 1 /\ archive[Min(Matches)].name = searched_file
      BY <2>1, <3>2 DEF Matches
    <3>4. Min(Matches) \notin 1 .. m - 1
      BY <2>2, <3>3
    <3>5. Min(Matches) = m
      BY <2>1, <3>2, <3>3, <3>4
    <3> QED BY <2>2, <2>4, <3>1, <3>5
  <2> QED BY <2>3, <2>4
<1> QED BY <1>1, DirInductive, PTL

\* ls of the root shows every file and every directory at the top of the archive
\* once, in the order of the archive, although is_in_same_dir cuts the names it
\* compares in place.
THEOREM RootAlwaysListsOnce == DirSpec => []RootListsOnce
<1>1. DirInv => RootListsOnce
  <2> SUFFICES ASSUME DirInv, dir_pc = "done", dir = <<>>, Len(archive) # 1
               PROVE  listing = TopNames[Len(archive)]
    BY DEF RootListsOnce, Listed
  <2>1. op = "read_dir"
    BY DEF DirInv, DirTypeInv
  <2>2. Collected(Len(archive), listing)
    BY <2>1 DEF DirInv, ListInv
  <2> QED BY <2>2 DEF Collected, Tops
<1> QED BY <1>1, DirInductive, PTL

\* ls of another directory shows everything below it, and nothing but that and
\* what is below a directory whose name is a prefix of it, unless a path below
\* it starts like it again.
THEOREM AlwaysListsDirectory == DirSpec => []ListsDirectory
<1>1. DirInv => ListsDirectory
  <2> SUFFICES ASSUME DirInv, dir_pc = "done", dir # <<>>, dir[1] # Slash, ~Echo
               PROVE  RestsBelow(dir) \subseteq Range(listing) /\ Range(listing) \subseteq Rests
    BY DEF ListsDirectory, Listed
  <2>1. op = "read_dir" /\ dir \in Text /\ archive \in Seq(Header) /\ Len(archive) \in Nat
    BY DEF DirInv, DirTypeInv
  <2>2. Below /\ Plain
    BY <2>1 DEF Below, Plain
  <2>3. Range(listing) = RestSet(Len(archive))
    BY <2>1, <2>2 DEF DirInv, ListInv, Collected
  <2>4. Range(listing) \subseteq Rests
    <3>1. Len(archive) \in 0 .. Len(archive)
      BY <2>1
    <3> QED BY <2>1, <2>2, <2>3, <3>1, RestSetIs
  <2>5. ASSUME NEW r \in RestsBelow(dir) PROVE r \in RestSet(Len(archive))
    <3>1. PICK k \in DOMAIN archive :
            /\ r = SubSeq(archive[k].name, Len(dir) + 2, Len(archive[k].name))
            /\ Begins(Append(dir, Slash), archive[k].name)
            /\ Len(archive[k].name) > Len(dir) + 1
      BY <2>5 DEF RestsBelow, ArchiveNames
    <3>2. k \in 1 .. Len(archive) /\ archive[k].name \in Names
      <4>1. DOMAIN archive = 1 .. Len(archive)
        BY <2>1
      <4> QED BY <2>1, <4>1, ArchiveNameIs, Zenon
    <3>3. r = Rest(k) /\ r # <<>>
      BY <2>2, <3>1, <3>2, BelowLeavesRest, Zenon DEF Rest
    <3> QED BY <3>2, <3>3 DEF RestSet
  <2> QED BY <2>3, <2>4, <2>5
<1> QED BY <1>1, DirInductive, PTL
=============================================================================
