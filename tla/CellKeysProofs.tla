--------------------------- MODULE CellKeysProofs ---------------------------
(***************************************************************************)
(* Proofs about CellKeys, for all byte strings.                            *)
(*                                                                         *)
(* Escape, Terminator and Unescape are recursive functions on sequences.   *)
(* What they compute is proved by induction over a set: a set of numbers   *)
(* that holds 0 and n + 1 with every n holds them all (UpInduction, from   *)
(* the well-foundedness of <), and likewise for byte strings               *)
(* (KeyInduction). From there:                                             *)
(*                                                                         *)
(*   Pebble's order           LessTotal, LessAsym, Segment, ToEnd          *)
(*   row keys                 RowBelow, RowOrder                           *)
(*   numbers and timestamps   TwoBytesOrder, Inverted                      *)
(*   names                    FieldUnique, ColumnUnique                    *)
(*   bounds                   InColumn, InFamily, InRow, InTimes           *)
(*   decoding                 TerminatorFound, TerminatorMeans,            *)
(*                            UnescapeEscape, DecodeKey, DecodeMeans       *)
(*   the mutations            InvStep and the theorems                     *)
(*                                                                         *)
(* Cat, Slice and the predicates SameRow, Part, Filled, ... hide           *)
(* concatenations and positions from the provers where only their facts    *)
(* are needed.                                                             *)
(***************************************************************************)
EXTENDS CellKeys, SequenceTheorems, WellFoundedInduction, TLAPS

\* Byte strings.
Keys == Seq(Bytes)

\* A set of natural numbers that is not empty has a least element.
LEMMA Least ==
  ASSUME NEW S \in SUBSET Nat, S # {}
  PROVE  \E m \in S : \A n \in S : m <= n
<1>1. \E m \in S : \A n \in S : ~(<<n, m>> \in OpToRel(<, Nat))
  BY NatLessThanWellFounded, WFMin
<1>2. PICK m \in S : \A n \in S : ~(n < m)
  BY <1>1 DEF OpToRel
<1> QED
  BY <1>2

\* Induction over the natural numbers, for a set.
LEMMA UpInduction ==
  ASSUME NEW Q, 0 \in Q, \A n \in Nat : n \in Q => n + 1 \in Q
  PROVE  \A n \in Nat : n \in Q
<1> SUFFICES ASSUME NEW k \in Nat, k \notin Q PROVE FALSE
  OBVIOUS
<1> DEFINE missing == {n \in Nat : n \notin Q}
<1>1. missing \in SUBSET Nat /\ missing # {}
  OBVIOUS
<1> HIDE DEF missing
<1>2. PICK m \in missing : \A n \in missing : m <= n
  BY <1>1, Least
<1> USE DEF missing
<1>3. m # 0 /\ m - 1 \in Nat /\ m - 1 \in Q
  BY <1>2
<1> QED
  BY <1>2, <1>3

IsEscapeUpTo(row, n, g) ==
  g = [i \in 0..n |-> IF i = 0 THEN <<>> ELSE g[i - 1] \o EscapeByte(row[i])]

\* The recursive function that Escape defines exists.
LEMMA EscapeUpToExists ==
  ASSUME NEW row
  PROVE  \A n \in Nat : \E g : IsEscapeUpTo(row, n, g)
<1> DEFINE Q == {n \in Nat : \E g : IsEscapeUpTo(row, n, g)}
<1>1. 0 \in Q
  <2> DEFINE g == [i \in 0..0 |-> <<>>]
  <2>1. IsEscapeUpTo(row, 0, g)
    BY DEF IsEscapeUpTo
  <2> QED
    BY <2>1
<1>2. ASSUME NEW n \in Nat, n \in Q PROVE n + 1 \in Q
  <2>1. PICK g : IsEscapeUpTo(row, n, g)
    BY <1>2
  <2> DEFINE h == [i \in 0..(n + 1) |-> IF i = n + 1 THEN g[n] \o EscapeByte(row[i]) ELSE g[i]]
  <2>2. IsEscapeUpTo(row, n + 1, h)
    BY <2>1 DEF IsEscapeUpTo
  <2> QED
    BY <2>2
<1> HIDE DEF Q
<1>3. \A n \in Nat : n \in Q
  BY <1>1, <1>2, UpInduction
<1> QED
  BY <1>3 DEF Q

\* Escape is the last value of that function.
LEMMA EscapeIs ==
  ASSUME NEW row \in Keys
  PROVE  \E g : IsEscapeUpTo(row, Len(row), g) /\ Escape(row) = g[Len(row)]
<1> DEFINE u == CHOOSE g : g = [i \in 0..Len(row) |-> IF i = 0 THEN <<>> ELSE g[i - 1] \o EscapeByte(row[i])]
<1>1. Len(row) \in Nat
  BY DEF Keys
<1>2. \E g : g = [i \in 0..Len(row) |-> IF i = 0 THEN <<>> ELSE g[i - 1] \o EscapeByte(row[i])]
  BY <1>1, EscapeUpToExists DEF IsEscapeUpTo
<1>3. u = [i \in 0..Len(row) |-> IF i = 0 THEN <<>> ELSE u[i - 1] \o EscapeByte(row[i])]
  BY <1>2
<1>4. Escape(row) = u[Len(row)]
  BY DEF Escape
<1> QED
  BY <1>3, <1>4 DEF IsEscapeUpTo

-----------------------------------------------------------------------------
(* The order of byte strings. *)

\* Bytes are natural numbers up to MaxByte.
LEMMA ByteFacts ==
  /\ MaxByte \in Nat /\ MaxByte > 1 /\ Bytes \in SUBSET Nat
  /\ 0 \in Bytes /\ MaxByte \in Bytes /\ \A b \in Bytes : b <= MaxByte
BY KeysAssumption DEF Bytes

\* A key has a length and holds bytes.
LEMMA At ==
  ASSUME NEW a \in Keys
  PROVE  /\ Len(a) \in Nat
         /\ \A i \in 1..Len(a) : a[i] \in Bytes /\ a[i] \in Nat
<1>1. Len(a) \in Nat
  BY DEF Keys
<1>2. \A i \in 1..Len(a) : a[i] \in Bytes
  BY ElementOfSeq DEF Keys
<1> QED
  BY <1>1, <1>2, ByteFacts

\* Keys that agree byte by byte are equal.
LEMMA Same ==
  ASSUME NEW a \in Keys, NEW b \in Keys, Len(a) = Len(b), \A i \in 1..Len(a) : a[i] = b[i]
  PROVE  a = b
BY SeqEqual DEF Keys

\* Where the bytes of a concatenation are.
LEMMA Concat ==
  ASSUME NEW a \in Keys, NEW b \in Keys
  PROVE  /\ a \o b \in Keys /\ Len(a \o b) = Len(a) + Len(b)
         /\ \A i \in 1..Len(a) : (a \o b)[i] = a[i]
         /\ \A i \in 1..Len(b) : (a \o b)[Len(a) + i] = b[i]
<1>1. /\ a \o b \in Keys
      /\ Len(a \o b) = Len(a) + Len(b)
      /\ \A i \in 1..(Len(a) + Len(b)) :
           (a \o b)[i] = IF i <= Len(a) THEN a[i] ELSE b[i - Len(a)]
  BY ConcatProperties DEF Keys
<1>2. Len(a) \in Nat /\ Len(b) \in Nat
  BY At
<1> QED
  BY <1>1, <1>2

\* Concatenation of keys is associative.
LEMMA Assoc ==
  ASSUME NEW a \in Keys, NEW b \in Keys, NEW c \in Keys
  PROVE  (a \o b) \o c = a \o (b \o c)
BY ConcatAssociative DEF Keys

\* A common prefix can be taken away.
LEMMA Cancel ==
  ASSUME NEW a \in Keys, NEW b \in Keys, NEW c \in Keys, a \o b = a \o c
  PROVE  b = c
BY ConcatSimplifications DEF Keys

\* The empty key.
LEMMA Empty ==
  /\ <<>> \in Keys /\ Len(<<>>) = 0
  /\ \A a \in Keys : a \o <<>> = a /\ <<>> \o a = a
  /\ \A a \in Keys : Len(a) = 0 => a = <<>>
BY EmptySeq, ConcatEmptySeq DEF Keys

\* A key of one byte.
LEMMA One ==
  ASSUME NEW b \in Bytes
  PROVE  <<b>> \in Keys /\ Len(<<b>>) = 1 /\ <<b>>[1] = b
BY DEF Keys

\* HasPrefix, byte by byte.
LEMMA PrefixPointwise ==
  ASSUME NEW k \in Keys, NEW p \in Keys
  PROVE  HasPrefix(k, p) <=> Len(p) <= Len(k) /\ \A i \in 1..Len(p) : k[i] = p[i]
<1>1. Len(p) \in Nat /\ Len(k) \in Nat
  BY At
<1>2. ASSUME Len(p) <= Len(k)
      PROVE  /\ SubSeq(k, 1, Len(p)) \in Keys /\ Len(SubSeq(k, 1, Len(p))) = Len(p)
             /\ \A i \in 1..Len(p) : SubSeq(k, 1, Len(p))[i] = k[i]
  <2>1. \A i \in 1..Len(p) : k[i] \in Bytes
    BY <1>1, <1>2, At
  <2> DEFINE n == Len(p)
  <2>2. n \in Int /\ 1 \in Int
    BY <1>1
  <2>3. /\ SubSeq(k, 1, n) \in Seq(Bytes)
        /\ Len(SubSeq(k, 1, n)) = IF 1 <= n THEN n - 1 + 1 ELSE 0
        /\ \A i \in 1..(n - 1 + 1) : SubSeq(k, 1, n)[i] = k[1 + i - 1]
    <3> HIDE DEF n
    <3> QED
      BY <2>1, <2>2, SubSeqProperties DEF n
  <2> QED
    BY <1>1, <2>3 DEF Keys
<1> QED
  BY <1>1, <1>2, Same DEF HasPrefix

\* a and b part at a byte that is smaller in a: so do all their extensions.
Below(a, b) ==
  \E i \in 1..Len(a) : /\ i <= Len(b) /\ a[i] < b[i]
                       /\ \A j \in 1..(i - 1) : a[j] = b[j]

\* Less, byte by byte: a proper prefix, or a smaller byte where the keys part.
LEMMA LessPointwise ==
  ASSUME NEW a \in Keys, NEW b \in Keys
  PROVE  Less(a, b) <=> \/ Len(a) < Len(b) /\ \A i \in 1..Len(a) : a[i] = b[i]
                        \/ Below(a, b)
<1>1. Len(a) \in Nat /\ Len(b) \in Nat
  BY At
<1>2. HasPrefix(b, a) <=> Len(a) <= Len(b) /\ \A i \in 1..Len(a) : b[i] = a[i]
  BY PrefixPointwise
<1>3. Len(a) = Len(b) /\ (\A i \in 1..Len(a) : b[i] = a[i]) => a = b
  BY Same
<1> QED
  BY <1>1, <1>2, <1>3 DEF Less, Below

\* Two keys have a longest common prefix.
LEMMA Parting ==
  ASSUME NEW a \in Keys, NEW b \in Keys
  PROVE  \E n \in Nat : /\ n <= Len(a) /\ n <= Len(b)
                        /\ \A i \in 1..n : a[i] = b[i]
                        /\ n < Len(a) /\ n < Len(b) => a[n + 1] # b[n + 1]
<1>1. Len(a) \in Nat /\ Len(b) \in Nat
  BY At
<1> DEFINE D == {n \in Nat : \/ n = Len(a) \/ n = Len(b)
                             \/ n < Len(a) /\ n < Len(b) /\ a[n + 1] # b[n + 1]}
<1>2. D \in SUBSET Nat /\ D # {}
  BY <1>1
<1>3. PICK m \in D : \A n \in D : m <= n
  <2> HIDE DEF D
  <2> QED
    BY <1>2, Least
<1>4. m <= Len(a) /\ m <= Len(b)
  BY <1>1, <1>3
<1>5. ASSUME NEW i \in 1..m PROVE a[i] = b[i]
  <2>1. i - 1 \in Nat /\ i - 1 < m /\ (i - 1) + 1 = i
    BY <1>3
  <2>2. i - 1 \notin D
    BY <1>3, <2>1
  <2> QED
    BY <1>1, <1>4, <2>1, <2>2
<1> QED
  BY <1>1, <1>3, <1>4, <1>5

\* Pebble's order is total.
LEMMA LessTotal ==
  ASSUME NEW a \in Keys, NEW b \in Keys
  PROVE  a = b \/ Less(a, b) \/ Less(b, a)
<1>1. PICK n \in Nat : /\ n <= Len(a) /\ n <= Len(b)
                       /\ \A i \in 1..n : a[i] = b[i]
                       /\ n < Len(a) /\ n < Len(b) => a[n + 1] # b[n + 1]
  BY Parting
<1>2. Len(a) \in Nat /\ Len(b) \in Nat
  BY At
<1>3. CASE n < Len(a) /\ n < Len(b)
  <2>1. n + 1 \in 1..Len(a) /\ n + 1 \in 1..Len(b)
    BY <1>2, <1>3
  <2>2. a[n + 1] < b[n + 1] \/ b[n + 1] < a[n + 1]
    BY <1>1, <1>3, <2>1, At
  <2>3. Below(a, b) \/ Below(b, a)
    BY <1>1, <2>1, <2>2 DEF Below
  <2> QED
    BY <2>3, LessPointwise
<1>4. CASE n = Len(a) /\ n = Len(b)
  BY <1>1, <1>4, Same
<1>5. CASE n = Len(a) /\ n < Len(b)
  BY <1>1, <1>5, LessPointwise
<1>6. CASE n = Len(b) /\ n < Len(a)
  BY <1>1, <1>6, LessPointwise
<1> QED
  BY <1>1, <1>2, <1>3, <1>4, <1>5, <1>6

\* Pebble's order is asymmetric.
LEMMA LessAsym ==
  ASSUME NEW a \in Keys, NEW b \in Keys, Less(a, b)
  PROVE  ~Less(b, a) /\ a # b
<1>1. Len(a) \in Nat /\ Len(b) \in Nat
  BY At
<1>2. (\A i \in 1..Len(a) : a[i] \in Nat) /\ (\A i \in 1..Len(b) : b[i] \in Nat)
  BY At
<1>3. ~(Below(a, b) /\ Below(b, a))
  <2> SUFFICES ASSUME Below(a, b), Below(b, a) PROVE FALSE
    OBVIOUS
  <2>1. PICK i \in 1..Len(a) : /\ i <= Len(b) /\ a[i] < b[i]
                               /\ \A j \in 1..(i - 1) : a[j] = b[j]
    BY DEF Below
  <2>2. PICK k \in 1..Len(b) : /\ k <= Len(a) /\ b[k] < a[k]
                               /\ \A j \in 1..(k - 1) : b[j] = a[j]
    BY DEF Below
  <2>3. i = k \/ i \in 1..(k - 1) \/ k \in 1..(i - 1)
    BY <1>1
  <2>4. a[i] \in Nat /\ b[i] \in Nat /\ a[k] \in Nat /\ b[k] \in Nat
    BY <1>1, <1>2, <2>1, <2>2
  <2> QED
    BY <2>1, <2>2, <2>3, <2>4
<1>4. Below(a, b) => /\ ~(Len(b) < Len(a) /\ \A i \in 1..Len(b) : b[i] = a[i])
                     /\ ~(Len(a) < Len(b) /\ \A i \in 1..Len(a) : a[i] = b[i]) /\ a # b
  BY <1>1, <1>2 DEF Below
<1>5. Below(b, a) => ~(Len(a) < Len(b) /\ \A i \in 1..Len(a) : a[i] = b[i])
  BY <1>1, <1>2 DEF Below
<1> QED
  BY <1>1, <1>3, <1>4, <1>5, LessPointwise

\* Keys that have parted stay in their order whatever follows.
LEMMA BelowLess ==
  ASSUME NEW a \in Keys, NEW b \in Keys, Below(a, b), NEW x \in Keys, NEW y \in Keys
  PROVE  Less(a \o x, b \o y) /\ ~Less(b \o y, a \o x) /\ a \o x # b \o y
<1>1. PICK i \in 1..Len(a) : /\ i <= Len(b) /\ a[i] < b[i]
                             /\ \A j \in 1..(i - 1) : a[j] = b[j]
  BY DEF Below
<1>2. Len(a) \in Nat /\ Len(b) \in Nat /\ Len(x) \in Nat /\ Len(y) \in Nat
  BY At
<1>3. /\ a \o x \in Keys /\ Len(a \o x) = Len(a) + Len(x)
      /\ \A j \in 1..Len(a) : (a \o x)[j] = a[j]
  BY Concat
<1>4. /\ b \o y \in Keys /\ Len(b \o y) = Len(b) + Len(y)
      /\ \A j \in 1..Len(b) : (b \o y)[j] = b[j]
  BY Concat
<1>5. Below(a \o x, b \o y)
  <2>1. i \in 1..Len(a \o x) /\ i <= Len(b \o y)
    BY <1>1, <1>2, <1>3, <1>4
  <2>2. (a \o x)[i] < (b \o y)[i]
    BY <1>1, <1>2, <1>3, <1>4
  <2>3. \A j \in 1..(i - 1) : (a \o x)[j] = (b \o y)[j]
    BY <1>1, <1>2, <1>3, <1>4
  <2> QED
    BY <2>1, <2>2, <2>3 DEF Below
<1> QED
  BY <1>3, <1>4, <1>5, LessPointwise, LessAsym

\* A key with a prefix is the prefix and a rest.
LEMMA PrefixSplit ==
  ASSUME NEW k \in Keys, NEW p \in Keys
  PROVE  HasPrefix(k, p) <=> \E t \in Keys : k = p \o t
<1>1. Len(p) \in Nat /\ Len(k) \in Nat
  BY At
<1>2. ASSUME NEW t \in Keys, k = p \o t PROVE HasPrefix(k, p)
  <2>1. Len(k) = Len(p) + Len(t) /\ \A i \in 1..Len(p) : k[i] = p[i]
    BY <1>2, Concat
  <2>2. Len(t) \in Nat
    BY At
  <2> QED
    BY <1>1, <2>1, <2>2, PrefixPointwise
<1>3. ASSUME HasPrefix(k, p) PROVE \E t \in Keys : k = p \o t
  <2>1. Len(p) <= Len(k) /\ \A i \in 1..Len(p) : k[i] = p[i]
    BY <1>3, PrefixPointwise
  <2> DEFINE n == Len(k) - Len(p)
             t == [i \in 1..n |-> k[Len(p) + i]]
  <2>2. n \in Nat
    BY <1>1, <2>1
  <2>3. \A i \in 1..n : k[Len(p) + i] \in Bytes
    BY <1>1, <2>1, At
  <2>4. t \in Keys /\ Len(t) = n
    BY <2>2, <2>3 DEF Keys
  <2>5. \A i \in 1..n : t[i] = k[Len(p) + i]
    OBVIOUS
  <2> HIDE DEF t
  <2>6. /\ p \o t \in Keys /\ Len(p \o t) = Len(p) + Len(t)
        /\ \A i \in 1..Len(p) : (p \o t)[i] = p[i]
        /\ \A i \in 1..Len(t) : (p \o t)[Len(p) + i] = t[i]
    BY <2>4, Concat
  <2>7. ASSUME NEW i \in 1..Len(k) PROVE k[i] = (p \o t)[i]
    <3>1. CASE i <= Len(p)
      BY <1>1, <2>1, <2>6, <3>1
    <3>2. CASE i > Len(p)
      <4>1. i - Len(p) \in 1..n /\ Len(p) + (i - Len(p)) = i
        BY <1>1, <3>2
      <4>2. (p \o t)[i] = t[i - Len(p)]
        BY <2>4, <2>6, <4>1
      <4>3. t[i - Len(p)] = k[i]
        BY <2>5, <4>1
      <4> QED
        BY <4>2, <4>3
    <3>3. i \in Nat /\ (i <= Len(p) \/ i > Len(p))
      BY <1>1
    <3> QED
      BY <3>1, <3>2, <3>3
  <2>8. Len(k) = Len(p \o t)
    BY <1>1, <2>4, <2>6
  <2>9. k = p \o t
    BY <2>6, <2>7, <2>8, Same
  <2> QED
    BY <2>4, <2>9
<1> QED
  BY <1>2, <1>3
\* A common prefix does not change where two keys part.
LEMMA BelowExtend ==
  ASSUME NEW p \in Keys, NEW a \in Keys, NEW b \in Keys, Below(a, b)
  PROVE  Below(p \o a, p \o b)
<1> DEFINE n == Len(p)
<1>1. n \in Nat /\ Len(a) \in Nat /\ Len(b) \in Nat
  BY At
<1>2. /\ p \o a \in Keys /\ Len(p \o a) = n + Len(a)
      /\ \A i \in 1..n : (p \o a)[i] = p[i]
      /\ \A i \in 1..Len(a) : (p \o a)[n + i] = a[i]
  BY Concat
<1>3. /\ p \o b \in Keys /\ Len(p \o b) = n + Len(b)
      /\ \A i \in 1..n : (p \o b)[i] = p[i]
      /\ \A i \in 1..Len(b) : (p \o b)[n + i] = b[i]
  BY Concat
<1> HIDE DEF n
<1>4. PICK i \in 1..Len(a) : /\ i <= Len(b) /\ a[i] < b[i]
                             /\ \A j \in 1..(i - 1) : a[j] = b[j]
  BY DEF Below
<1>5. n + i \in 1..Len(p \o a) /\ n + i <= Len(p \o b)
  BY <1>1, <1>2, <1>3, <1>4
<1>6. (p \o a)[n + i] < (p \o b)[n + i]
  BY <1>1, <1>2, <1>3, <1>4
<1>7. ASSUME NEW j \in 1..(n + i - 1) PROVE (p \o a)[j] = (p \o b)[j]
  <2>1. CASE j <= n
    BY <1>1, <1>2, <1>3, <2>1
  <2>2. CASE j > n
    <3>1. /\ j - n \in 1..(i - 1) /\ n + (j - n) = j
          /\ j - n \in 1..Len(a) /\ j - n \in 1..Len(b)
      BY <1>1, <1>4, <2>2
    <3> QED
      BY <1>2, <1>3, <1>4, <3>1
  <2>3. j \in Nat /\ (j <= n \/ j > n)
    BY <1>1
  <2> QED
    BY <2>1, <2>2, <2>3
<1> QED
  <2> DEFINE m == n + i
  <2>1. /\ m \in 1..Len(p \o a) /\ m <= Len(p \o b) /\ (p \o a)[m] < (p \o b)[m]
        /\ \A j \in 1..(m - 1) : (p \o a)[j] = (p \o b)[j]
    BY <1>1, <1>5, <1>6, <1>7
  <2> HIDE DEF m
  <2> QED
    BY <2>1 DEF Below

\* A common prefix keeps the order.
LEMMA LessExtend ==
  ASSUME NEW p \in Keys, NEW a \in Keys, NEW b \in Keys, Less(a, b)
  PROVE  Less(p \o a, p \o b)
<1> DEFINE n == Len(p)
<1>1. n \in Nat /\ Len(a) \in Nat /\ Len(b) \in Nat
  BY At
<1>2. /\ p \o a \in Keys /\ Len(p \o a) = n + Len(a)
      /\ \A i \in 1..n : (p \o a)[i] = p[i]
      /\ \A i \in 1..Len(a) : (p \o a)[n + i] = a[i]
  BY Concat
<1>3. /\ p \o b \in Keys /\ Len(p \o b) = n + Len(b)
      /\ \A i \in 1..n : (p \o b)[i] = p[i]
      /\ \A i \in 1..Len(b) : (p \o b)[n + i] = b[i]
  BY Concat
<1> HIDE DEF n
<1>4. CASE Len(a) < Len(b) /\ \A i \in 1..Len(a) : a[i] = b[i]
  <2>1. ASSUME NEW i \in 1..Len(p \o a) PROVE (p \o a)[i] = (p \o b)[i]
    <3>1. CASE i <= n
      BY <1>1, <1>2, <1>3, <3>1
    <3>2. CASE i > n
      <4>1. i - n \in 1..Len(a) /\ i - n \in 1..Len(b) /\ n + (i - n) = i
        BY <1>1, <1>2, <1>4, <3>2
      <4> QED
        BY <1>2, <1>3, <1>4, <4>1
    <3>3. i \in Nat /\ (i <= n \/ i > n)
      BY <1>1
    <3> QED
      BY <3>1, <3>2, <3>3
  <2>2. Len(p \o a) < Len(p \o b)
    BY <1>1, <1>2, <1>3, <1>4
  <2> QED
    BY <1>2, <1>3, <2>1, <2>2, LessPointwise
<1>5. CASE Below(a, b)
  BY <1>2, <1>3, <1>5, BelowExtend, LessPointwise
<1> QED
  BY <1>4, <1>5, LessPointwise

\* Behind a common prefix, order is the order of the rests.
LEMMA LessConcat ==
  ASSUME NEW p \in Keys, NEW a \in Keys, NEW b \in Keys
  PROVE  Less(p \o a, p \o b) <=> Less(a, b)
<1>1. p \o a \in Keys /\ p \o b \in Keys
  BY Concat
<1>2. Less(a, b) => Less(p \o a, p \o b)
  BY LessExtend
<1>3. Less(b, a) => Less(p \o b, p \o a)
  BY LessExtend
<1>4. a = b => p \o a = p \o b
  OBVIOUS
<1>5. Less(p \o a, p \o b) => ~Less(p \o b, p \o a) /\ p \o a # p \o b
  BY <1>1, LessAsym
<1> QED
  BY <1>2, <1>3, <1>4, <1>5, LessTotal

\* A key outside a prefix is on the same side of everything with that prefix.
LEMMA Outside ==
  ASSUME NEW k \in Keys, NEW p \in Keys, ~HasPrefix(k, p), NEW x \in Keys, NEW y \in Keys,
         Less(k, p \o x)
  PROVE  Less(k, p \o y)
<1>1. Len(p) \in Nat /\ Len(k) \in Nat /\ Len(x) \in Nat /\ Len(y) \in Nat
  BY At
<1>2. /\ p \o x \in Keys /\ Len(p \o x) = Len(p) + Len(x)
      /\ \A i \in 1..Len(p) : (p \o x)[i] = p[i]
  BY Concat
<1>3. /\ p \o y \in Keys /\ Len(p \o y) = Len(p) + Len(y)
      /\ \A i \in 1..Len(p) : (p \o y)[i] = p[i]
  BY Concat
<1>4. ~(Len(p) <= Len(k) /\ \A i \in 1..Len(p) : k[i] = p[i])
  BY PrefixPointwise
<1>5. CASE Len(k) < Len(p \o x) /\ \A i \in 1..Len(k) : k[i] = (p \o x)[i]
  <2>1. Len(k) < Len(p)
    BY <1>1, <1>2, <1>4, <1>5
  <2>2. Len(k) < Len(p \o y) /\ \A i \in 1..Len(k) : k[i] = (p \o y)[i]
    BY <1>1, <1>2, <1>3, <1>5, <2>1
  <2> QED
    BY <1>3, <2>2, LessPointwise
<1>6. CASE Below(k, p \o x)
  <2>1. PICK i \in 1..Len(k) : /\ i <= Len(p \o x) /\ k[i] < (p \o x)[i]
                               /\ \A j \in 1..(i - 1) : k[j] = (p \o x)[j]
    BY <1>6 DEF Below
  <2>2. i <= Len(p)
    BY <1>1, <1>2, <1>4, <2>1
  <2>3. Below(k, p \o y)
    BY <1>1, <1>2, <1>3, <2>1, <2>2 DEF Below
  <2> QED
    BY <1>3, <2>3, LessPointwise
<1> QED
  BY <1>2, <1>5, <1>6, LessPointwise

\* Concatenation, as the provers see it when only its algebra matters.
Cat(a, b) == a \o b

Within(k, p, x, y) == ~Less(k, Cat(p, x)) /\ Less(k, Cat(p, y))

\* What lies between two keys with a common prefix.
LEMMA Segment ==
  ASSUME NEW k \in Keys, NEW p \in Keys, NEW x \in Keys, NEW y \in Keys
  PROVE  Within(k, p, x, y)
           <=> \E t \in Keys : k = Cat(p, t) /\ ~Less(t, x) /\ Less(t, y)
<1>1. CASE HasPrefix(k, p)
  <2>1. PICK t \in Keys : k = p \o t
    BY <1>1, PrefixSplit
  <2>2. (Less(k, p \o x) <=> Less(t, x)) /\ (Less(k, p \o y) <=> Less(t, y))
    BY <2>1, LessConcat
  <2>3. \A u \in Keys : k = p \o u => u = t
    BY <2>1, Cancel
  <2> QED
    BY <2>1, <2>2, <2>3 DEF Within, Cat
<1>2. CASE ~HasPrefix(k, p)
  <2>1. Less(k, p \o y) => Less(k, p \o x)
    BY <1>2, Outside
  <2>2. ~\E t \in Keys : k = p \o t
    BY <1>2, PrefixSplit
  <2> QED
    BY <2>1, <2>2 DEF Within, Cat
<1> QED
  BY <1>1, <1>2

\* What lies below the 0xFF of an end key: an empty rest, or a first byte under 0xFF.
LEMMA ToEnd ==
  ASSUME NEW t \in Keys
  PROVE  /\ ~Less(t, <<>>)
         /\ Less(t, <<MaxByte>>) <=> t = <<>> \/ t[1] < MaxByte
<1>1. Len(t) \in Nat /\ \A i \in 1..Len(t) : t[i] \in Nat /\ t[i] <= MaxByte
  BY At, ByteFacts
<1>2. <<>> \in Keys /\ Len(<<>>) = 0 /\ (Len(t) = 0 => t = <<>>)
  BY Empty
<1>3. <<MaxByte>> \in Keys /\ Len(<<MaxByte>>) = 1 /\ <<MaxByte>>[1] = MaxByte
  BY One, ByteFacts
<1>4. ~Less(t, <<>>)
  BY <1>1, <1>2, LessPointwise DEF Below
<1> DEFINE end == <<MaxByte>>
<1>5. Less(t, end) <=> \/ Len(t) < Len(end) /\ \A i \in 1..Len(t) : t[i] = end[i]
                       \/ Below(t, end)
  BY <1>3, LessPointwise
<1>6. Len(end) = 1 /\ end[1] = MaxByte
  BY <1>3
<1> HIDE DEF end
<1>7. CASE t = <<>>
  <2>1. Len(t) = 0
    BY <1>2, <1>7
  <2> QED
    BY <1>4, <1>7, <1>5, <1>6, <2>1 DEF end
<1>8. CASE t # <<>>
  <2>1. Len(t) >= 1 /\ 1 \in 1..Len(t)
    BY <1>1, <1>2, <1>8
  <2>2. Below(t, end) <=> t[1] < MaxByte
    BY <1>1, <1>6, <2>1 DEF Below
  <2>3. Less(t, end) <=> t[1] < MaxByte
    BY <1>1, <1>5, <1>6, <2>1, <2>2
  <2> QED
    BY <1>4, <1>8, <2>3 DEF end
<1> QED
  BY <1>4, <1>7, <1>8

-----------------------------------------------------------------------------
(* Escaped row keys. *)

\* Induction over byte strings.
LEMMA KeyInduction ==
  ASSUME NEW Q, <<>> \in Q, \A a \in Keys, b \in Bytes : a \in Q => a \o <<b>> \in Q
  PROVE  \A a \in Keys : a \in Q
<1> DEFINE L == {n \in Nat : \A a \in Keys : Len(a) = n => a \in Q}
<1>1. 0 \in L
  BY Empty
<1>2. ASSUME NEW n \in Nat, n \in L PROVE n + 1 \in L
  <2> SUFFICES ASSUME NEW a \in Keys, Len(a) = n + 1 PROVE a \in Q
    OBVIOUS
  <2>1. a # <<>>
    BY Empty
  <2>2. PICK s \in Keys, b \in Bytes : a = Append(s, b)
    BY <2>1, SequenceEmptyOrAppend DEF Keys
  <2>3. a = s \o <<b>> /\ Len(a) = Len(s) + 1
    BY <2>2, AppendIsConcat, AppendProperties DEF Keys
  <2>4. Len(s) = n
    BY <2>3, At
  <2> QED
    BY <1>2, <2>3, <2>4
<1> HIDE DEF L
<1>3. \A n \in Nat : n \in L
  BY <1>1, <1>2, UpInduction
<1> QED
  BY <1>3, At DEF L

\* One step of Escape's loop.
LEMMA UpToSteps ==
  ASSUME NEW row, NEW n \in Nat, NEW g, IsEscapeUpTo(row, n, g)
  PROVE  g[0] = <<>> /\ \A i \in 1..n : g[i] = g[i - 1] \o EscapeByte(row[i])
BY DEF IsEscapeUpTo

\* Escape's loop depends on the bytes it has read only.
LEMMA UpToAgree ==
  ASSUME NEW row, NEW n \in Nat, NEW g, IsEscapeUpTo(row, n, g),
         NEW more, NEW m \in Nat, NEW h, IsEscapeUpTo(more, m, h),
         n <= m, \A i \in 1..n : row[i] = more[i]
  PROVE  g[n] = h[n]
<1> DEFINE Q == {i \in Nat : i <= n => g[i] = h[i]}
<1>1. g[0] = <<>> /\ \A i \in 1..n : g[i] = g[i - 1] \o EscapeByte(row[i])
  BY UpToSteps
<1>2. h[0] = <<>> /\ \A i \in 1..m : h[i] = h[i - 1] \o EscapeByte(more[i])
  BY UpToSteps
<1>3. 0 \in Q
  BY <1>1, <1>2
<1>4. ASSUME NEW i \in Nat, i \in Q PROVE i + 1 \in Q
  <2> SUFFICES ASSUME i + 1 <= n PROVE g[i + 1] = h[i + 1]
    OBVIOUS
  <2>1. i + 1 \in 1..n /\ i + 1 \in 1..m /\ (i + 1) - 1 = i
    OBVIOUS
  <2>2. g[i + 1] = g[i] \o EscapeByte(row[i + 1]) /\ h[i + 1] = h[i] \o EscapeByte(more[i + 1])
    BY <1>1, <1>2, <2>1
  <2>3. g[i] = h[i] /\ row[i + 1] = more[i + 1]
    BY <1>4, <2>1
  <2> QED
    BY <2>2, <2>3
<1> HIDE DEF Q
<1>5. n \in Q
  BY <1>3, <1>4, UpInduction
<1> QED
  BY <1>5 DEF Q

\* The empty row key needs no escape.
LEMMA EscapeEmpty == Escape(<<>>) = <<>>
<1>1. <<>> \in Keys /\ Len(<<>>) = 0
  BY Empty
<1>2. PICK g : IsEscapeUpTo(<<>>, 0, g) /\ Escape(<<>>) = g[0]
  BY <1>1, EscapeIs
<1> QED
  BY <1>2, UpToSteps

\* Escape works byte by byte.
LEMMA EscapeSnoc ==
  ASSUME NEW row \in Keys, NEW b \in Bytes
  PROVE  Escape(row \o <<b>>) = Escape(row) \o EscapeByte(b)
<1> DEFINE more == row \o <<b>>
           n == Len(row)
<1>1. n \in Nat
  BY At
<1>2. more \in Keys /\ Len(more) = n + 1 /\ more[n + 1] = b /\ \A i \in 1..n : more[i] = row[i]
  <2>1. <<b>> \in Keys /\ Len(<<b>>) = 1 /\ <<b>>[1] = b
    BY One
  <2> QED
    BY <2>1, Concat
<1> HIDE DEF more, n
<1>3. PICK g : IsEscapeUpTo(row, n, g) /\ Escape(row) = g[n]
  BY EscapeIs DEF n
<1>4. PICK h : IsEscapeUpTo(more, n + 1, h) /\ Escape(more) = h[n + 1]
  BY <1>2, EscapeIs
<1>5. n + 1 \in Nat /\ n <= n + 1 /\ n + 1 \in 1..(n + 1) /\ (n + 1) - 1 = n
  BY <1>1
<1>6. g[n] = h[n]
  BY <1>1, <1>2, <1>3, <1>4, <1>5, UpToAgree
<1>7. h[n + 1] = h[n] \o EscapeByte(b)
  <2>1. \A i \in 1..(n + 1) : h[i] = h[i - 1] \o EscapeByte(more[i])
    BY <1>4, <1>5, UpToSteps
  <2> QED
    BY <1>2, <1>5, <2>1
<1> QED
  BY <1>3, <1>4, <1>6, <1>7 DEF more

\* What a byte is escaped to.
LEMMA EscapedByte ==
  ASSUME NEW b \in Bytes
  PROVE  /\ EscapeByte(b) \in Keys /\ EscapeByte(b)[1] = b
         /\ Len(EscapeByte(b)) = IF b = 0 THEN 2 ELSE 1
         /\ b = 0 => EscapeByte(b)[2] = MaxByte
BY ByteFacts DEF EscapeByte, Keys

\* An escaped row key is a key.
LEMMA EscapeType ==
  ASSUME NEW row \in Keys
  PROVE  Escape(row) \in Keys
<1> DEFINE Q == {a \in Keys : Escape(a) \in Keys}
<1>1. <<>> \in Q
  BY EscapeEmpty, Empty
<1>2. ASSUME NEW a \in Keys, NEW b \in Bytes, a \in Q PROVE a \o <<b>> \in Q
  <2>1. a \o <<b>> \in Keys
    BY One, Concat
  <2>2. Escape(a) \o EscapeByte(b) \in Keys
    BY <1>2, EscapedByte, Concat
  <2> QED
    BY <2>1, <2>2, EscapeSnoc
<1> HIDE DEF Q
<1>3. row \in Q
  BY <1>1, <1>2, KeyInduction
<1> QED
  BY <1>3 DEF Q

\* Escape distributes over concatenation.
LEMMA EscapeConcat ==
  ASSUME NEW a \in Keys, NEW c \in Keys
  PROVE  Escape(a \o c) = Escape(a) \o Escape(c)
<1> DEFINE Q == {d \in Keys : Escape(a \o d) = Escape(a) \o Escape(d)}
<1>1. <<>> \in Q
  BY EscapeEmpty, EscapeType, Empty
<1>2. ASSUME NEW d \in Keys, NEW b \in Bytes, d \in Q PROVE d \o <<b>> \in Q
  <2>1. d \o <<b>> \in Keys /\ a \o d \in Keys /\ <<b>> \in Keys
    BY One, Concat
  <2>2. a \o (d \o <<b>>) = (a \o d) \o <<b>>
    BY <2>1, Assoc
  <2>3. Escape((a \o d) \o <<b>>) = (Escape(a) \o Escape(d)) \o EscapeByte(b)
    BY <1>2, <2>1, EscapeSnoc
  <2>4. (Escape(a) \o Escape(d)) \o EscapeByte(b) = Escape(a) \o (Escape(d) \o EscapeByte(b))
    BY EscapeType, EscapedByte, Assoc
  <2> QED
    BY <2>1, <2>2, <2>3, <2>4, EscapeSnoc
<1> HIDE DEF Q
<1>3. c \in Q
  BY <1>1, <1>2, KeyInduction
<1> QED
  BY <1>3 DEF Q

\* A key that is not empty has a first byte.
LEMMA HeadSplit ==
  ASSUME NEW u \in Keys, u # <<>>
  PROVE  u[1] \in Bytes /\ \E s \in Keys : u = <<u[1]>> \o s
<1>1. Len(u) \in Nat /\ Len(u) # 0
  BY At, Empty
<1>2. u[1] \in Bytes
  BY <1>1, At
<1>3. <<u[1]>> \in Keys /\ Len(<<u[1]>>) = 1 /\ <<u[1]>>[1] = u[1]
  BY <1>2, One
<1>4. HasPrefix(u, <<u[1]>>)
  BY <1>1, <1>3, PrefixPointwise
<1> QED
  BY <1>2, <1>3, <1>4, PrefixSplit

\* b goes on behind p with the byte y.
GoesOn(b, p, y) == \E t \in Keys : b = p \o (<<y>> \o t)

\* Where a smaller byte string parts from a larger one.
LEMMA Fork ==
  ASSUME NEW a \in Keys, NEW b \in Keys, Less(a, b)
  PROVE  \E p \in Keys, y \in Bytes :
           GoesOn(b, p, y) /\ (a = p \/ \E x \in Bytes : GoesOn(a, p, x) /\ x < y)
<1>1. CASE Len(a) < Len(b) /\ \A i \in 1..Len(a) : a[i] = b[i]
  <2>1. Len(a) \in Nat /\ Len(b) \in Nat
    BY At
  <2>2. HasPrefix(b, a)
    BY <1>1, <2>1, PrefixPointwise
  <2>3. PICK u \in Keys : b = a \o u
    BY <2>2, PrefixSplit
  <2>4. u # <<>>
    BY <1>1, <2>1, <2>3, Empty
  <2>5. u[1] \in Bytes /\ GoesOn(b, a, u[1])
    BY <2>3, <2>4, HeadSplit DEF GoesOn
  <2> QED
    BY <2>5
<1>2. CASE Below(a, b)
  <2>1. PICK i \in 1..Len(a) : /\ i <= Len(b) /\ a[i] < b[i]
                               /\ \A j \in 1..(i - 1) : a[j] = b[j]
    BY <1>2 DEF Below
  <2>2. Len(a) \in Nat /\ Len(b) \in Nat
    BY At
  <2> DEFINE n == i - 1
             p == [j \in 1..n |-> a[j]]
  <2>3. n \in Nat /\ i = n + 1 /\ n < Len(a) /\ n < Len(b)
    BY <2>1, <2>2
  <2>4. \A j \in 1..n : a[j] \in Bytes
    BY <2>2, <2>3, At
  <2>5. p \in Keys /\ Len(p) = n /\ \A j \in 1..n : p[j] = a[j]
    BY <2>3, <2>4 DEF Keys
  <2> HIDE DEF p
  <2>6. HasPrefix(a, p) /\ HasPrefix(b, p)
    BY <2>1, <2>2, <2>3, <2>5, PrefixPointwise
  <2>7. PICK u \in Keys : a = p \o u
    BY <2>5, <2>6, PrefixSplit
  <2>8. PICK v \in Keys : b = p \o v
    BY <2>5, <2>6, PrefixSplit
  <2>9. u # <<>> /\ v # <<>>
    <3>1. p \o <<>> = p
      BY <2>5, Empty
    <3> QED
      BY <2>2, <2>3, <2>5, <2>7, <2>8, <3>1
  <2>10. 1 \in 1..Len(u) /\ 1 \in 1..Len(v)
    BY <2>9, At, Empty
  <2>11. u[1] = a[i] /\ v[1] = b[i]
    BY <2>3, <2>5, <2>7, <2>8, <2>10, Concat
  <2>12. PICK s \in Keys : u = <<u[1]>> \o s
    BY <2>9, HeadSplit
  <2>13. PICK t \in Keys : v = <<v[1]>> \o t
    BY <2>9, HeadSplit
  <2>14. u[1] \in Bytes /\ v[1] \in Bytes /\ u[1] < v[1]
    BY <2>1, <2>9, <2>11, HeadSplit
  <2>15. GoesOn(a, p, u[1]) /\ GoesOn(b, p, v[1])
    BY <2>7, <2>8, <2>12, <2>13 DEF GoesOn
  <2> QED
    BY <2>5, <2>14, <2>15
<1> QED
  BY <1>1, <1>2, LessPointwise

\* The two bytes that end a row key.
LEMMA Zeros == <<0, 0>> \in Keys /\ Len(<<0, 0>>) = 2 /\ <<0, 0>>[1] = 0 /\ <<0, 0>>[2] = 0
BY ByteFacts DEF Keys

\* The prefix of a row is a key.
LEMMA RowPrefixType ==
  ASSUME NEW row \in Keys
  PROVE  RowPrefix(row) \in Keys
BY EscapeType, Zeros, Concat DEF RowPrefix

\* Escape of one byte.
LEMMA EscapeOne ==
  ASSUME NEW b \in Bytes
  PROVE  Escape(<<b>>) = EscapeByte(b)
<1>1. <<>> \o <<b>> = <<b>> /\ <<>> \in Keys
  BY One, Empty
<1>2. Escape(<<>> \o <<b>>) = Escape(<<>>) \o EscapeByte(b)
  BY <1>1, EscapeSnoc
<1> QED
  BY <1>1, <1>2, EscapeEmpty, EscapedByte, Empty

\* Concatenations of keys are keys.
LEMMA CatType ==
  ASSUME NEW a \in Keys, NEW b \in Keys
  PROVE  Cat(a, b) \in Keys
BY Concat DEF Cat

\* Assoc, for Cat.
LEMMA CatAssoc ==
  ASSUME NEW a \in Keys, NEW b \in Keys, NEW c \in Keys
  PROVE  Cat(Cat(a, b), c) = Cat(a, Cat(b, c))
BY Assoc DEF Cat

\* Cancel, for Cat.
LEMMA CatCancel ==
  ASSUME NEW a \in Keys, NEW b \in Keys, NEW c \in Keys, Cat(a, b) = Cat(a, c)
  PROVE  b = c
BY Cancel DEF Cat

\* A row's prefix, cut at a byte of the row key.
LEMMA RowPrefixAt ==
  ASSUME NEW row \in Keys, NEW p \in Keys, NEW x \in Bytes, GoesOn(row, p, x)
  PROVE  \E w \in Keys : RowPrefix(row) = Escape(p) \o (EscapeByte(x) \o w)
<1>1. PICK s \in Keys : row = p \o (<<x>> \o s)
  BY DEF GoesOn
<1>2. <<x>> \in Keys /\ <<x>> \o s \in Keys
  BY One, Concat
<1>3. Escape(<<x>> \o s) = EscapeByte(x) \o Escape(s)
  BY <1>2, EscapeConcat, EscapeOne
<1>4. Escape(row) = Escape(p) \o (EscapeByte(x) \o Escape(s))
  BY <1>1, <1>2, <1>3, EscapeConcat
<1>5. Escape(p) \in Keys /\ Escape(s) \in Keys /\ EscapeByte(x) \in Keys
  BY EscapeType, EscapedByte
<1>6. RowPrefix(row) = Escape(p) \o (EscapeByte(x) \o (Escape(s) \o <<0, 0>>))
  <2>1. Escape(row) = Cat(Escape(p), Cat(EscapeByte(x), Escape(s)))
    BY <1>4 DEF Cat
  <2>2. \A z \in Keys : Cat(Escape(row), z) = Cat(Escape(p), Cat(EscapeByte(x), Cat(Escape(s), z)))
    BY <1>5, <2>1, CatType, CatAssoc
  <2>3. Cat(Escape(row), <<0, 0>>) = Cat(Escape(p), Cat(EscapeByte(x), Cat(Escape(s), <<0, 0>>)))
    BY <2>2, Zeros
  <2> QED
    BY <2>3 DEF Cat, RowPrefix
<1>7. Escape(s) \o <<0, 0>> \in Keys
  BY <1>5, Zeros, Concat
<1> QED
  BY <1>6, <1>7

\* The row key's order is the order of the rows' keys, whatever follows them.
LEMMA RowBelow ==
  ASSUME NEW q \in Keys, NEW r \in Keys, Less(q, r)
  PROVE  Below(RowPrefix(q), RowPrefix(r))
<1>1. PICK p \in Keys, y \in Bytes :
         GoesOn(r, p, y) /\ (q = p \/ \E x \in Bytes : GoesOn(q, p, x) /\ x < y)
  BY Fork
<1>2. PICK w \in Keys : RowPrefix(r) = Escape(p) \o (EscapeByte(y) \o w)
  BY <1>1, RowPrefixAt
<1>3. /\ Escape(p) \in Keys /\ EscapeByte(y) \in Keys /\ EscapeByte(y)[1] = y
      /\ Len(EscapeByte(y)) = (IF y = 0 THEN 2 ELSE 1) /\ (y = 0 => EscapeByte(y)[2] = MaxByte)
  BY EscapeType, EscapedByte
<1> DEFINE v == EscapeByte(y) \o w
<1>4. /\ v \in Keys /\ Len(v) = Len(EscapeByte(y)) + Len(w)
      /\ \A i \in 1..Len(EscapeByte(y)) : v[i] = EscapeByte(y)[i]
  BY <1>3, Concat
<1>5. Len(w) \in Nat /\ MaxByte \in Nat /\ MaxByte > 1 /\ y \in Nat
  BY At, ByteFacts
<1> HIDE DEF v
<1>6. CASE q = p
  <2> DEFINE z == <<0, 0>>
  <2>1. z \in Keys /\ Len(z) = 2 /\ z[1] = 0 /\ z[2] = 0
    BY Zeros
  <2> HIDE DEF z
  <2>2. CASE y = 0
    <3>1. Len(v) >= 2 /\ v[1] = 0 /\ v[2] = MaxByte
      BY <1>3, <1>4, <1>5, <2>2
    <3>2. 2 \in 1..Len(z) /\ 2 <= Len(v) /\ z[2] < v[2] /\ \A j \in 1..(2 - 1) : z[j] = v[j]
      BY <1>4, <1>5, <2>1, <3>1, At
    <3> QED
      <4>1. Below(z, v)
        BY <3>2 DEF Below
      <4>2. Below(Escape(p) \o z, Escape(p) \o v)
        BY <1>3, <1>4, <2>1, <4>1, BelowExtend
      <4> QED
        BY <1>2, <1>6, <4>2 DEF z, v, RowPrefix
  <2>3. CASE y # 0
    <3>1. Len(v) >= 1 /\ v[1] = y
      BY <1>3, <1>4, <1>5, <2>3
    <3>2. 1 \in 1..Len(z) /\ 1 <= Len(v) /\ z[1] < v[1] /\ \A j \in 1..(1 - 1) : z[j] = v[j]
      BY <1>4, <1>5, <2>1, <2>3, <3>1, At
    <3> QED
      <4>1. Below(z, v)
        BY <3>2 DEF Below
      <4>2. Below(Escape(p) \o z, Escape(p) \o v)
        BY <1>3, <1>4, <2>1, <4>1, BelowExtend
      <4> QED
        BY <1>2, <1>6, <4>2 DEF z, v, RowPrefix
  <2> QED
    BY <2>2, <2>3
<1>7. CASE \E x \in Bytes : GoesOn(q, p, x) /\ x < y
  <2>1. PICK x \in Bytes : GoesOn(q, p, x) /\ x < y
    BY <1>7
  <2>2. PICK o \in Keys : RowPrefix(q) = Escape(p) \o (EscapeByte(x) \o o)
    BY <2>1, RowPrefixAt
  <2> DEFINE u == EscapeByte(x) \o o
  <2>3. EscapeByte(x) \in Keys /\ EscapeByte(x)[1] = x /\ Len(EscapeByte(x)) >= 1
    BY EscapedByte
  <2>4. u \in Keys /\ Len(u) >= 1 /\ u[1] = x
    <3>1. /\ u \in Keys /\ Len(u) = Len(EscapeByte(x)) + Len(o)
          /\ \A i \in 1..Len(EscapeByte(x)) : u[i] = EscapeByte(x)[i]
      BY <2>3, Concat
    <3>2. Len(EscapeByte(x)) \in Nat /\ Len(o) \in Nat
      BY <2>3, At
    <3> HIDE DEF u
    <3> QED
      BY <2>3, <3>1, <3>2
  <2>5. Len(v) >= 1 /\ v[1] = y
    BY <1>3, <1>4, <1>5
  <2> HIDE DEF u
  <2>6. 1 \in 1..Len(u) /\ 1 <= Len(v) /\ u[1] < v[1] /\ \A j \in 1..(1 - 1) : u[j] = v[j]
    BY <2>1, <2>4, <2>5, At
  <2>7. Below(u, v)
    BY <2>6 DEF Below
  <2>8. Below(Escape(p) \o u, Escape(p) \o v)
    BY <1>3, <1>4, <2>4, <2>7, BelowExtend
  <2> QED
    BY <1>2, <2>2, <2>8 DEF u, v
<1> QED
  BY <1>1, <1>6, <1>7

\* Keys of two rows.
LEMMA RowOrder ==
  ASSUME NEW q \in Keys, NEW r \in Keys, NEW u \in Keys, NEW v \in Keys, q # r
  PROVE  Less(RowPrefix(q) \o u, RowPrefix(r) \o v) <=> Less(q, r)
<1>1. RowPrefix(q) \in Keys /\ RowPrefix(r) \in Keys
  BY RowPrefixType
<1>2. Less(q, r) => Less(RowPrefix(q) \o u, RowPrefix(r) \o v)
  BY <1>1, RowBelow, BelowLess
<1>3. Less(r, q) => ~Less(RowPrefix(q) \o u, RowPrefix(r) \o v)
  BY <1>1, RowBelow, BelowLess
<1> QED
  BY <1>2, <1>3, LessTotal

-----------------------------------------------------------------------------
(* Numbers of two bytes, and inverted timestamps. *)

\* The scaled-down widths: Width is Base squared and even.
LEMMA BaseFacts ==
  /\ Base \in Nat /\ Base = MaxByte + 1 /\ Base > 2
  /\ Width \in Nat /\ Width = Base * Base /\ Width > Base
  /\ MaxInt \in Nat /\ Width = 2 * (MaxInt + 1)
<1>1. Base \in Nat /\ Base = MaxByte + 1 /\ Base > 2
  BY ByteFacts DEF Base
<1>2. PICK h \in Nat : Base = 2 * h
  <2>1. MaxByte \in Nat /\ MaxByte % 2 = 1
    BY KeysAssumption
  <2>2. Base % 2 = 0
    BY <1>1, <2>1
  <2>3. Base \div 2 \in Nat /\ Base = 2 * (Base \div 2)
    BY <1>1, <2>2
  <2> QED
    BY <2>3
<1>3. Base * Base \in Nat /\ Base * Base > Base /\ h * Base \in Nat /\ h * Base > 0
  <2>1. Base * Base >= 2 * Base
    BY <1>1
  <2>2. h >= 1 /\ h * Base >= Base
    BY <1>1, <1>2
  <2> QED
    BY <1>1, <1>2, <2>1, <2>2
<1>4. Base * Base = 2 * (h * Base)
  BY <1>1, <1>2
<1>5. (Base * Base) \div 2 = h * Base
  <2> DEFINE a == h * Base
  <2>1. a \in Nat /\ (2 * a) \div 2 = a
    BY <1>3
  <2> QED
    BY <1>4, <2>1
<1> QED
  BY <1>1, <1>3, <1>4, <1>5 DEF Width, MaxInt

\* Bytes are the digits of Base.
LEMMA BytesAre ==
  /\ Base \in Nat /\ Base > 2 /\ Base - 1 = MaxByte /\ MaxByte \in Nat
  /\ \A b : b \in Bytes <=> b \in 0..(Base - 1)
BY ByteFacts DEF Bytes, Base

\* Division with remainder.
LEMMA Quotient ==
  ASSUME NEW n \in Nat, NEW d \in Nat, d > 0
  PROVE  /\ n \div d \in Nat /\ n % d \in 0..(d - 1)
         /\ n = d * (n \div d) + (n % d)
OBVIOUS

\* Quotient and remainder are unique.
LEMMA QuotientUnique ==
  ASSUME NEW d \in Nat, d > 0, NEW q \in Int, NEW r \in 0..(d - 1)
  PROVE  (d * q + r) % d = r /\ (d * q + r) \div d = q
OBVIOUS

\* Multiplication keeps the order.
LEMMA Scaled ==
  ASSUME NEW d \in Nat, NEW i \in Nat, NEW j \in Nat, i <= j
  PROVE  d * i <= d * j /\ d * i \in Nat /\ d * j \in Nat
<1>1. PICK k \in Nat : j = i + k
  <2>1. j - i \in Nat /\ j = i + (j - i)
    OBVIOUS
  <2> QED
    BY <2>1
<1>2. d * j = d * i + d * k /\ d * k >= 0
  BY <1>1
<1> QED
  BY <1>2

\* A number below Width, as two bytes, is read back.
LEMMA TwoBytesFacts ==
  ASSUME NEW n \in 0..(Width - 1)
  PROVE  /\ n \div Base \in Bytes /\ n % Base \in Bytes
         /\ n = Base * (n \div Base) + (n % Base)
         /\ TwoBytes(n) \in Keys /\ Len(TwoBytes(n)) = 2
         /\ TwoBytes(n)[1] = n \div Base /\ TwoBytes(n)[2] = n % Base
         /\ FromTwoBytes(TwoBytes(n)) = n
<1> DEFINE q == n \div Base
           r == n % Base
<1>1. n \in Nat /\ n < Width
  BY BaseFacts
<1>2. q \in Nat /\ r \in 0..(Base - 1) /\ n = Base * q + r
  BY <1>1, BytesAre, Quotient
<1>3. q < Base
  <2> SUFFICES ASSUME q >= Base PROVE FALSE
    BY <1>2, BaseFacts
  <2>1. Base * q >= Base * Base
    BY <1>2, BaseFacts
  <2> QED
    BY <1>2, <2>1, BaseFacts
<1>4. TwoBytes(n) = <<q, r>>
  BY DEF TwoBytes
<1> HIDE DEF q, r
<1>5. q \in Bytes /\ r \in Bytes
  BY <1>2, <1>3, BytesAre
<1>6. /\ <<q, r>> \in Keys /\ Len(<<q, r>>) = 2 /\ <<q, r>>[1] = q /\ <<q, r>>[2] = r
  BY <1>5 DEF Keys
<1>7. FromTwoBytes(<<q, r>>) = n
  BY <1>2, <1>6, BaseFacts DEF FromTwoBytes
<1> QED
  BY <1>2, <1>5, <1>4, <1>6, <1>7 DEF q, r

\* Two bytes, read as a number, are written back.
LEMMA FromTwoBytesFacts ==
  ASSUME NEW s \in Keys, Len(s) = 2
  PROVE  FromTwoBytes(s) \in 0..(Width - 1) /\ TwoBytes(FromTwoBytes(s)) = s
<1> DEFINE n == FromTwoBytes(s)
<1>1. s[1] \in Bytes /\ s[2] \in Bytes
  BY At
<1>2. s[1] \in Nat /\ s[2] \in 0..(Base - 1) /\ s[1] <= Base - 1
  BY <1>1, BytesAre
<1>3. n = Base * s[1] + s[2]
  BY <1>2, BaseFacts DEF FromTwoBytes
<1>4. n \in Nat
  BY <1>2, <1>3, BaseFacts
<1>5. n < Width
  <2>1. Base * s[1] <= Base * (Base - 1)
    BY <1>2, BaseFacts
  <2>2. Base * (Base - 1) = Base * Base - Base
    BY BaseFacts
  <2>3. Base * s[1] \in Int
    BY <1>2, BaseFacts
  <2> QED
    BY <1>2, <1>3, <2>1, <2>2, <2>3, BaseFacts
<1>6. n % Base = s[2] /\ n \div Base = s[1]
  BY <1>2, <1>3, BaseFacts, QuotientUnique
<1>7. n \in 0..(Width - 1)
  BY <1>4, <1>5, BaseFacts
<1> HIDE DEF n
<1>8. /\ TwoBytes(n) \in Keys /\ Len(TwoBytes(n)) = 2
      /\ TwoBytes(n)[1] = s[1] /\ TwoBytes(n)[2] = s[2]
  BY <1>6, <1>7, TwoBytesFacts
<1>9. TwoBytes(n) = s
  BY <1>8, Same
<1> QED
  BY <1>7, <1>9 DEF n

\* Big-endian numbers are in numeric order.
LEMMA TwoBytesOrder ==
  ASSUME NEW m \in 0..(Width - 1), NEW n \in 0..(Width - 1)
  PROVE  Less(TwoBytes(m), TwoBytes(n)) <=> m < n
<1>1. ASSUME NEW i \in 0..(Width - 1), NEW j \in 0..(Width - 1), i < j
      PROVE  Less(TwoBytes(i), TwoBytes(j))
  <2> DEFINE a == TwoBytes(i)
             b == TwoBytes(j)
  <2>1. /\ a \in Keys /\ Len(a) = 2 /\ i = Base * a[1] + a[2]
        /\ a[1] \in Nat /\ a[2] \in 0..(Base - 1)
    <3>1. a \in Keys /\ Len(a) = 2 /\ i = Base * a[1] + a[2] /\ a[1] \in Bytes /\ a[2] \in Bytes
      BY TwoBytesFacts
    <3> QED
      BY <3>1, BytesAre
  <2>2. /\ b \in Keys /\ Len(b) = 2 /\ j = Base * b[1] + b[2]
        /\ b[1] \in Nat /\ b[2] \in 0..(Base - 1)
    <3>1. b \in Keys /\ Len(b) = 2 /\ j = Base * b[1] + b[2] /\ b[1] \in Bytes /\ b[2] \in Bytes
      BY TwoBytesFacts
    <3> QED
      BY <3>1, BytesAre
  <2> HIDE DEF a, b
  <2>3. a[1] <= b[1]
    <3> SUFFICES ASSUME a[1] >= b[1] + 1 PROVE FALSE
      BY <2>1, <2>2
    <3>1. Base * a[1] >= Base * (b[1] + 1)
      <4>1. b[1] + 1 \in Nat
        BY <2>2
      <4> QED
        BY <2>1, <4>1, BytesAre, Scaled
    <3>2. Base * (b[1] + 1) = Base * b[1] + Base
      BY <2>2, BaseFacts
    <3>3. Base * a[1] \in Int /\ Base * b[1] \in Int
      BY <2>1, <2>2, BaseFacts
    <3> QED
      BY <1>1, <2>1, <2>2, <3>1, <3>2, <3>3, BaseFacts
  <2>4. CASE a[1] < b[1]
    <3>1. Below(a, b)
      BY <2>1, <2>2, <2>4 DEF Below
    <3> QED
      BY <2>1, <2>2, <3>1, LessPointwise DEF a, b
  <2>5. CASE a[1] = b[1]
    <3>1. a[2] < b[2]
      <4>1. Base * a[1] = Base * b[1] /\ Base * a[1] \in Int
        BY <2>1, <2>5, BaseFacts
      <4> QED
        BY <1>1, <2>1, <2>2, <4>1
    <3>2. 2 \in 1..Len(a) /\ 2 <= Len(b) /\ \A k \in 1..(2 - 1) : a[k] = b[k]
      BY <2>1, <2>2, <2>5
    <3>3. Below(a, b)
      BY <3>1, <3>2 DEF Below
    <3> QED
      BY <2>1, <2>2, <3>3, LessPointwise DEF a, b
  <2> QED
    BY <2>1, <2>2, <2>3, <2>4, <2>5
<1>2. m < n \/ n < m \/ m = n
  BY BaseFacts
<1>3. Less(TwoBytes(m), TwoBytes(n)) => ~Less(TwoBytes(n), TwoBytes(m)) /\ TwoBytes(m) # TwoBytes(n)
  BY TwoBytesFacts, LessAsym
<1>4. ~(m < n /\ n < m) /\ ~(m = n /\ m < n)
  BY BaseFacts
<1> QED
  BY <1>1, <1>2, <1>3, <1>4

\* invertedTimestamp turns the order of the signed timestamps round and is read back.
LEMMA Inverted ==
  ASSUME NEW ts \in Timestamps
  PROVE  /\ invertedTimestamp(ts) = MaxInt - ts /\ invertedTimestamp(ts) \in 0..(Width - 1)
         /\ timestampFromInverted(invertedTimestamp(ts)) = ts
<1>1. /\ ts \in Int /\ 0 - MaxInt - 1 <= ts /\ ts <= MaxInt /\ MaxInt \in Nat
      /\ Width \in Nat /\ Width = 2 * (MaxInt + 1) /\ Width > 0
  BY BaseFacts DEF Timestamps
<1>2. MaxInt - ts \in 0..(Width - 1)
  BY <1>1
<1>3. \A r \in 0..(Width - 1) : /\ (Width * 0 + r) % Width = r
                                /\ (Width * 1 + r) % Width = r
  BY <1>1, QuotientUnique
<1>4. \A r \in 0..(Width - 1) : r % Width = r /\ (Width + r) % Width = r
  BY <1>1, <1>3
<1>5. invertedTimestamp(ts) = MaxInt - ts
  BY <1>2, <1>4 DEF invertedTimestamp
<1> DEFINE n == MaxInt - ts
<1>6. Signed(n) = IF n <= MaxInt THEN n ELSE n - Width
  <2>1. CASE n <= MaxInt
    <3>1. n + MaxInt + 1 \in 0..(Width - 1)
      BY <1>1, <2>1
    <3> QED
      BY <1>1, <1>4, <2>1, <3>1 DEF Signed
  <2>2. CASE ~(n <= MaxInt)
    <3>1. n - MaxInt - 1 \in 0..(Width - 1) /\ n + MaxInt + 1 = Width + (n - MaxInt - 1)
      BY <1>1, <2>2
    <3> QED
      BY <1>1, <1>4, <2>2, <3>1 DEF Signed
  <2> QED
    BY <2>1, <2>2
<1>7. timestampFromInverted(n) = ts
  <2>1. CASE n <= MaxInt
    <3>1. Signed(n) = n /\ MaxInt - n = ts /\ ts + MaxInt + 1 \in 0..(Width - 1)
      BY <1>1, <1>6, <2>1
    <3> QED
      BY <1>1, <1>4, <3>1 DEF timestampFromInverted, Signed
  <2>2. CASE ~(n <= MaxInt)
    <3>1. /\ Signed(n) = n - Width /\ MaxInt - (n - Width) = ts + Width
          /\ ts + MaxInt + 1 \in 0..(Width - 1)
      BY <1>1, <1>6, <2>2
    <3>2. ts + Width + MaxInt + 1 = Width + (ts + MaxInt + 1)
      BY <1>1
    <3>3. (ts + Width + MaxInt + 1) % Width = ts + MaxInt + 1
      BY <1>4, <3>1, <3>2
    <3> QED
      BY <1>1, <3>1, <3>3 DEF timestampFromInverted, Signed
  <2> QED
    BY <2>1, <2>2
<1> QED
  BY <1>2, <1>5, <1>7

\* Every two bytes are the inversion of a timestamp.
LEMMA InvertedOnto ==
  ASSUME NEW n \in 0..(Width - 1)
  PROVE  timestampFromInverted(n) \in Timestamps /\ invertedTimestamp(timestampFromInverted(n)) = n
<1> DEFINE ts == MaxInt - n
<1>1. ts \in Timestamps /\ MaxInt - ts = n
  BY BaseFacts DEF Timestamps
<1> QED
  BY <1>1, Inverted

-----------------------------------------------------------------------------
(* The parts of a key. *)

\* The columns whose names fit, as EncodeCellKey lays them out.
Cols == [row : Keys, family : Keys, qualifier : Keys]
Fits(c) == c \in Cols /\ ~TooLong(c.family, c.qualifier)

Field(length, name) == Cat(length, Cat(name, <<0>>))
FamilyField(family) == Field(<<Len(family)>>, family)
QualifierField(qualifier) == Field(TwoBytes(Len(qualifier)), qualifier)

\* Concatenations are equal part by part when the first parts are equally long.
LEMMA CatSplit ==
  ASSUME NEW a \in Keys, NEW b \in Keys, NEW c \in Keys, NEW d \in Keys,
         Len(a) = Len(c), Cat(a, b) = Cat(c, d)
  PROVE  a = c /\ b = d
<1>1. \A i \in 1..Len(a) : (a \o b)[i] = a[i]
  BY Concat
<1>2. \A i \in 1..Len(c) : (c \o d)[i] = c[i]
  BY Concat
<1>3. a \o b = c \o d
  BY DEF Cat
<1>4. a = c
  BY <1>1, <1>2, <1>3, Same
<1> QED
  BY <1>4, CatCancel

\* A length-prefixed name is a key.
LEMMA FieldType ==
  ASSUME NEW l \in Keys, NEW s \in Keys
  PROVE  Field(l, s) \in Keys /\ \A u \in Keys : Cat(Field(l, s), u) = Cat(l, Cat(s, Cat(<<0>>, u)))
<1>1. <<0>> \in Keys
  BY One, ByteFacts
<1>2. Cat(s, <<0>>) \in Keys
  BY <1>1, CatType
<1>3. Field(l, s) \in Keys
  BY <1>2, CatType DEF Field
<1>4. ASSUME NEW u \in Keys PROVE Cat(Field(l, s), u) = Cat(l, Cat(s, Cat(<<0>>, u)))
  <2>1. Cat(Cat(l, Cat(s, <<0>>)), u) = Cat(l, Cat(Cat(s, <<0>>), u))
    BY <1>2, CatAssoc
  <2>2. Cat(Cat(s, <<0>>), u) = Cat(s, Cat(<<0>>, u))
    BY <1>1, CatAssoc
  <2> QED
    BY <2>1, <2>2 DEF Field
<1> QED
  BY <1>3, <1>4

\* One key, taken apart in two ways. The predicates are kept folded where the lemmas about
\* them are cited.
SameField(l, s, u, m, t, v) == Cat(Field(l, s), u) = Cat(Field(m, t), v)
SameRow(q, u, r, v) == Cat(RowPrefix(q), u) = Cat(RowPrefix(r), v)
SameFamily(r, f, u, q, g, v) ==
  Cat(FamilyPrefix(RowPrefix(r), f), u) = Cat(FamilyPrefix(RowPrefix(q), g), v)
SameColumn(c, u, d, v) == Cat(ColumnPrefix(c), u) = Cat(ColumnPrefix(d), v)

\* A length-prefixed name can be read off in one way only.
LEMMA FieldUnique ==
  ASSUME NEW l \in Keys, NEW s \in Keys, NEW m \in Keys, NEW t \in Keys,
         NEW u \in Keys, NEW v \in Keys,
         Len(l) = Len(m), l = m => Len(s) = Len(t), SameField(l, s, u, m, t, v)
  PROVE  l = m /\ s = t /\ u = v
<1>1. <<0>> \in Keys
  BY One, ByteFacts
<1>2. Cat(<<0>>, u) \in Keys /\ Cat(<<0>>, v) \in Keys
  BY <1>1, CatType
<1>3. Cat(s, Cat(<<0>>, u)) \in Keys /\ Cat(t, Cat(<<0>>, v)) \in Keys
  BY <1>2, CatType
<1>4. Cat(l, Cat(s, Cat(<<0>>, u))) = Cat(m, Cat(t, Cat(<<0>>, v)))
  BY FieldType DEF SameField
<1>5. l = m /\ Cat(s, Cat(<<0>>, u)) = Cat(t, Cat(<<0>>, v))
  BY <1>3, <1>4, CatSplit
<1>6. s = t /\ Cat(<<0>>, u) = Cat(<<0>>, v)
  BY <1>2, <1>5, CatSplit
<1> QED
  BY <1>1, <1>5, <1>6, CatCancel

\* The family part of a key starts with the length of the family's name.
LEMMA FamilyFieldFacts ==
  ASSUME NEW f \in Keys, Len(f) <= MaxByte
  PROVE  /\ Len(f) \in Bytes /\ <<Len(f)>> \in Keys
         /\ FamilyField(f) \in Keys
         /\ \A u \in Keys : Cat(FamilyField(f), u) # <<>> /\ Cat(FamilyField(f), u)[1] = Len(f)
<1>1. Len(f) \in Bytes
  BY At, ByteFacts DEF Bytes
<1>2. <<Len(f)>> \in Keys /\ Len(<<Len(f)>>) = 1 /\ <<Len(f)>>[1] = Len(f)
  BY <1>1, One
<1>3. FamilyField(f) \in Keys
  BY <1>2, FieldType DEF FamilyField
<1>4. ASSUME NEW u \in Keys
      PROVE  Cat(FamilyField(f), u) # <<>> /\ Cat(FamilyField(f), u)[1] = Len(f)
  <2> DEFINE w == Cat(f, Cat(<<0>>, u))
             l == <<Len(f)>>
  <2>1. w \in Keys
    BY One, ByteFacts, CatType
  <2>2. Cat(FamilyField(f), u) = Cat(l, w)
    BY <1>2, FieldType DEF FamilyField
  <2>3. l \in Keys /\ Len(l) = 1 /\ l[1] = Len(f)
    BY <1>2
  <2> HIDE DEF w, l
  <2>4. Len(l \o w) = Len(l) + Len(w) /\ (\A i \in 1..Len(l) : (l \o w)[i] = l[i])
    BY <2>1, <2>3, Concat
  <2>5. Len(l \o w) # 0 /\ (l \o w)[1] = Len(f)
    BY <2>1, <2>3, <2>4, At
  <2> QED
    BY <2>2, <2>5, Empty DEF Cat
<1> QED
  BY <1>1, <1>2, <1>3, <1>4

\* The qualifier part starts with the high byte of the qualifier's length.
LEMMA QualifierFieldFacts ==
  ASSUME NEW q \in Keys, Len(q) < Width
  PROVE  /\ Len(q) \in 0..(Width - 1) /\ TwoBytes(Len(q)) \in Keys
         /\ QualifierField(q) \in Keys
         /\ \A u \in Keys : /\ Cat(QualifierField(q), u) # <<>>
                            /\ Cat(QualifierField(q), u)[1] = Len(q) \div Base
<1>1. Len(q) \in 0..(Width - 1)
  BY At, BaseFacts
<1> DEFINE l == TwoBytes(Len(q))
<1>2. l \in Keys /\ Len(l) = 2 /\ l[1] = Len(q) \div Base
  BY <1>1, TwoBytesFacts
<1>3. QualifierField(q) \in Keys
  BY <1>2, FieldType DEF QualifierField
<1>4. ASSUME NEW u \in Keys
      PROVE  Cat(QualifierField(q), u) # <<>> /\ Cat(QualifierField(q), u)[1] = Len(q) \div Base
  <2> DEFINE w == Cat(q, Cat(<<0>>, u))
  <2>1. w \in Keys
    BY One, ByteFacts, CatType
  <2>2. Cat(QualifierField(q), u) = Cat(l, w)
    BY <1>2, FieldType DEF QualifierField
  <2> HIDE DEF w, l
  <2>3. Len(l \o w) = Len(l) + Len(w) /\ (\A i \in 1..Len(l) : (l \o w)[i] = l[i])
    BY <1>2, <2>1, Concat
  <2>4. Len(l \o w) # 0 /\ (l \o w)[1] = Len(q) \div Base
    BY <1>2, <2>1, <2>3, At
  <2> QED
    BY <2>2, <2>4, Empty DEF Cat
<1> QED
  BY <1>1, <1>2, <1>3, <1>4

\* A family's prefix, in its parts.
LEMMA FamilyPrefixIs ==
  ASSUME NEW r \in Keys, NEW f \in Keys, Len(f) <= MaxByte
  PROVE  /\ FamilyPrefix(RowPrefix(r), f) = Cat(RowPrefix(r), FamilyField(f))
         /\ FamilyPrefix(RowPrefix(r), f) \in Keys
<1> DEFINE p == RowPrefix(r)
           l == <<Len(f)>>
           z == <<0>>
<1>1. p \in Keys /\ l \in Keys /\ z \in Keys
  BY RowPrefixType, FamilyFieldFacts, One, ByteFacts
<1>2. Len(f) \in Nat /\ MaxByte \in Nat
  BY At, ByteFacts
<1>3. FamilyPrefix(p, f) = Cat(Cat(Cat(p, l), f), z)
  BY <1>2 DEF FamilyPrefix, Cat
<1> HIDE DEF p, l, z
<1>4. Cat(p, l) \in Keys /\ Cat(f, z) \in Keys
  BY <1>1, CatType
<1>5. Cat(Cat(Cat(p, l), f), z) = Cat(Cat(p, l), Cat(f, z))
  BY <1>1, <1>4, CatAssoc
<1>6. Cat(Cat(p, l), Cat(f, z)) = Cat(p, Cat(l, Cat(f, z)))
  BY <1>1, <1>4, CatAssoc
<1>7. FamilyField(f) = Cat(l, Cat(f, z)) /\ Cat(l, Cat(f, z)) \in Keys
  BY <1>1, <1>4, CatType DEF FamilyField, Field, l, z
<1> QED
  BY <1>1, <1>3, <1>5, <1>6, <1>7, CatType DEF p

\* Names that fit their length fields.
LEMMA FitsFacts ==
  ASSUME NEW c, Fits(c)
  PROVE  /\ c.row \in Keys /\ c.family \in Keys /\ c.qualifier \in Keys
         /\ Len(c.family) <= MaxByte /\ Len(c.qualifier) < Width
         /\ Len(c.family) \in Nat /\ Len(c.qualifier) \in Nat
<1>1. c.row \in Keys /\ c.family \in Keys /\ c.qualifier \in Keys
  BY DEF Fits, Cols
<1>2. /\ Len(c.family) \in Nat /\ Len(c.qualifier) \in Nat /\ MaxByte \in Nat /\ Width \in Nat
  BY <1>1, At, ByteFacts, BaseFacts
<1> QED
  BY <1>1, <1>2 DEF Fits, TooLong

\* A column's prefix, in its parts.
LEMMA ColumnPrefixIs ==
  ASSUME NEW c, Fits(c)
  PROVE  /\ ColumnPrefix(c) \in Keys
         /\ ColumnPrefix(c) = Cat(FamilyPrefix(RowPrefix(c.row), c.family), QualifierField(c.qualifier))
<1> DEFINE p == FamilyPrefix(RowPrefix(c.row), c.family)
           q == c.qualifier
           l == TwoBytes(Len(q))
           z == <<0>>
<1>1. /\ c.row \in Keys /\ c.family \in Keys /\ q \in Keys
      /\ Len(c.family) <= MaxByte /\ Len(q) < Width /\ ~(Len(q) >= Width)
  BY FitsFacts, BaseFacts
<1>2. p \in Keys /\ l \in Keys /\ z \in Keys
  BY <1>1, FamilyPrefixIs, QualifierFieldFacts, One, ByteFacts
<1>3. ColumnPrefix(c) = Cat(Cat(Cat(p, l), q), z)
  BY <1>1 DEF ColumnPrefix, QualifierPrefix, Cat
<1>4. q \in Keys
  BY <1>1
<1> HIDE DEF p, l, z, q
<1>5. Cat(p, l) \in Keys /\ Cat(q, z) \in Keys
  BY <1>4, <1>2, CatType
<1>6. Cat(Cat(Cat(p, l), q), z) = Cat(Cat(p, l), Cat(q, z))
  BY <1>4, <1>2, <1>5, CatAssoc
<1>7. Cat(Cat(p, l), Cat(q, z)) = Cat(p, Cat(l, Cat(q, z)))
  BY <1>2, <1>5, CatAssoc
<1>8. QualifierField(q) = Cat(l, Cat(q, z)) /\ Cat(l, Cat(q, z)) \in Keys
  BY <1>2, <1>5, CatType DEF QualifierField, Field, l, z
<1> QED
  BY <1>2, <1>3, <1>6, <1>7, <1>8, CatType DEF p, q

\* Which numbers have a high byte under 0xFF.
LEMMA FirstByte ==
  ASSUME NEW n \in 0..(Width - 1)
  PROVE  n \div Base < MaxByte <=> ~TopByte(n)
<1> DEFINE b == n \div Base
<1>1. b \in Bytes /\ (TopByte(n) <=> b = MaxByte)
  BY TwoBytesFacts DEF TopByte
<1> HIDE DEF b
<1>2. b \in Nat /\ b <= MaxByte /\ MaxByte \in Nat
  BY <1>1, ByteFacts
<1> QED
  BY <1>1, <1>2 DEF b

\* A key starts with the prefix of one row at most.
LEMMA SameRowUnique ==
  ASSUME NEW q \in Keys, NEW r \in Keys, NEW u \in Keys, NEW v \in Keys, SameRow(q, u, r, v)
  PROVE  q = r /\ u = v
<1>1. RowPrefix(q) \in Keys /\ RowPrefix(r) \in Keys
  BY RowPrefixType
<1>2. RowPrefix(q) \o u = RowPrefix(r) \o v
  BY DEF SameRow, Cat
<1>3. ~Less(q, r) /\ ~Less(r, q)
  BY <1>1, <1>2, RowBelow, BelowLess
<1>4. q = r
  BY <1>3, LessTotal
<1> QED
  BY <1>1, <1>2, <1>4, Cancel

\* The row and the family can be read off a key in one way only.
LEMMA FamilyUnique ==
  ASSUME NEW r \in Keys, NEW q \in Keys, NEW f \in Keys, NEW g \in Keys,
         Len(f) <= MaxByte, Len(g) <= MaxByte, NEW u \in Keys, NEW v \in Keys,
         SameFamily(r, f, u, q, g, v)
  PROVE  r = q /\ f = g /\ u = v
<1>1. RowPrefix(r) \in Keys /\ RowPrefix(q) \in Keys /\ FamilyField(f) \in Keys /\ FamilyField(g) \in Keys
  BY RowPrefixType, FamilyFieldFacts
<1>2. Cat(Cat(RowPrefix(r), FamilyField(f)), u) = Cat(Cat(RowPrefix(q), FamilyField(g)), v)
  BY FamilyPrefixIs DEF SameFamily
<1>3. Cat(RowPrefix(r), Cat(FamilyField(f), u)) = Cat(RowPrefix(q), Cat(FamilyField(g), v))
  BY <1>1, <1>2, CatAssoc
<1>4. Cat(FamilyField(f), u) \in Keys /\ Cat(FamilyField(g), v) \in Keys
  BY <1>1, CatType
<1>5. r = q /\ Cat(FamilyField(f), u) = Cat(FamilyField(g), v)
  <2>1. SameRow(r, Cat(FamilyField(f), u), q, Cat(FamilyField(g), v))
    BY <1>3 DEF SameRow
  <2> QED
    BY <1>4, <2>1, SameRowUnique
<1>6. /\ <<Len(f)>> \in Keys /\ Len(<<Len(f)>>) = 1 /\ <<Len(f)>>[1] = Len(f)
      /\ <<Len(g)>> \in Keys /\ Len(<<Len(g)>>) = 1 /\ <<Len(g)>>[1] = Len(g)
  BY FamilyFieldFacts, One
<1>7. f = g /\ u = v
  <2> DEFINE l == <<Len(f)>>
             m == <<Len(g)>>
  <2>1. l \in Keys /\ m \in Keys /\ Len(l) = Len(m) /\ (l = m => Len(f) = Len(g))
    BY <1>6
  <2>2. SameField(l, f, u, m, g, v)
    BY <1>5 DEF FamilyField, SameField
  <2> HIDE DEF l, m
  <2> QED
    BY <2>1, <2>2, FieldUnique
<1> QED
  BY <1>5, <1>7

\* So can the column.
LEMMA ColumnUnique ==
  ASSUME NEW c, NEW d, Fits(c), Fits(d), NEW u \in Keys, NEW v \in Keys, SameColumn(c, u, d, v)
  PROVE  c = d /\ u = v
<1>1. /\ c.row \in Keys /\ c.family \in Keys /\ c.qualifier \in Keys
      /\ Len(c.family) <= MaxByte /\ Len(c.qualifier) < Width
  BY FitsFacts
<1>2. /\ d.row \in Keys /\ d.family \in Keys /\ d.qualifier \in Keys
      /\ Len(d.family) <= MaxByte /\ Len(d.qualifier) < Width
  BY FitsFacts
<1> DEFINE p == FamilyPrefix(RowPrefix(c.row), c.family)
           o == FamilyPrefix(RowPrefix(d.row), d.family)
           a == QualifierField(c.qualifier)
           b == QualifierField(d.qualifier)
<1>3. p \in Keys /\ o \in Keys /\ a \in Keys /\ b \in Keys
  BY <1>1, <1>2, FamilyPrefixIs, QualifierFieldFacts
<1>4. ColumnPrefix(c) = Cat(p, a) /\ ColumnPrefix(d) = Cat(o, b)
  BY ColumnPrefixIs
<1> HIDE DEF p, o, a, b
<1>5. Cat(p, Cat(a, u)) = Cat(o, Cat(b, v)) /\ Cat(a, u) \in Keys /\ Cat(b, v) \in Keys
  BY <1>3, <1>4, CatAssoc, CatType DEF SameColumn
<1>6. c.row = d.row /\ c.family = d.family /\ Cat(a, u) = Cat(b, v)
  <2>1. SameFamily(c.row, c.family, Cat(a, u), d.row, d.family, Cat(b, v))
    BY <1>5 DEF p, o, SameFamily
  <2> QED
    BY <1>1, <1>2, <1>5, <2>1, FamilyUnique
<1>7. c.qualifier = d.qualifier /\ u = v
  <2> DEFINE l == TwoBytes(Len(c.qualifier))
             m == TwoBytes(Len(d.qualifier))
  <2>1. /\ Len(c.qualifier) \in 0..(Width - 1) /\ Len(d.qualifier) \in 0..(Width - 1)
    BY <1>1, <1>2, QualifierFieldFacts
  <2>2. l \in Keys /\ m \in Keys /\ Len(l) = Len(m)
    BY <2>1, TwoBytesFacts
  <2>3. FromTwoBytes(l) = Len(c.qualifier) /\ FromTwoBytes(m) = Len(d.qualifier)
    BY <2>1, TwoBytesFacts
  <2>4. l = m => Len(c.qualifier) = Len(d.qualifier)
    BY <2>3
  <2>5. SameField(l, c.qualifier, u, m, d.qualifier, v)
    BY <1>6 DEF a, b, QualifierField, SameField
  <2> HIDE DEF l, m
  <2> QED
    BY <1>1, <1>2, <2>2, <2>4, <2>5, FieldUnique
<1>8. c = d
  BY <1>6, <1>7 DEF Fits, Cols
<1> QED
  BY <1>7, <1>8

-----------------------------------------------------------------------------
(* Cells, their keys, and which of them lie between two bounds. *)

\* The cells that have a key of their own.
Cells == [column : {c \in Cols : Fits(c)}, ts : Timestamps]
Key(x) == EncodeCellKey(x.column, x.ts)

\* The parts of a cell.
LEMMA CellFacts ==
  ASSUME NEW x \in Cells
  PROVE  /\ Fits(x.column) /\ x.ts \in Timestamps
         /\ x.column \in Cols
         /\ invertedTimestamp(x.ts) \in 0..(Width - 1)
         /\ TwoBytes(invertedTimestamp(x.ts)) \in Keys
<1>1. Fits(x.column) /\ x.ts \in Timestamps
  BY DEF Cells
<1> QED
  BY <1>1, Inverted, TwoBytesFacts DEF Fits

\* A cell's key behind the prefix of its column, its family and its row.
LEMMA KeyForms ==
  ASSUME NEW x \in Cells
  PROVE  LET c == x.column
             t == TwoBytes(invertedTimestamp(x.ts))
         IN /\ Key(x) \in Keys /\ t \in Keys
            /\ QualifierField(c.qualifier) \in Keys /\ FamilyField(c.family) \in Keys
            /\ Key(x) = Cat(ColumnPrefix(c), t)
            /\ Key(x) = Cat(FamilyPrefix(RowPrefix(c.row), c.family),
                            Cat(QualifierField(c.qualifier), t))
            /\ Key(x) = Cat(RowPrefix(c.row),
                            Cat(FamilyField(c.family), Cat(QualifierField(c.qualifier), t)))
<1> DEFINE c == x.column
           t == TwoBytes(invertedTimestamp(x.ts))
           r == RowPrefix(c.row)
           p == FamilyPrefix(r, c.family)
           f == FamilyField(c.family)
           q == QualifierField(c.qualifier)
<1>1. Fits(c) /\ t \in Keys
  BY CellFacts
<1>2. c.row \in Keys /\ c.family \in Keys /\ c.qualifier \in Keys
      /\ Len(c.family) <= MaxByte /\ Len(c.qualifier) < Width
  BY <1>1, FitsFacts
<1>3. r \in Keys /\ f \in Keys /\ q \in Keys /\ p \in Keys /\ p = Cat(r, f)
  BY <1>2, RowPrefixType, FamilyFieldFacts, QualifierFieldFacts, FamilyPrefixIs
<1>4. ColumnPrefix(c) = Cat(p, q) /\ ColumnPrefix(c) \in Keys
  BY <1>1, ColumnPrefixIs
<1>5. Key(x) = Cat(ColumnPrefix(c), t)
  BY DEF Key, EncodeCellKey, Cat
<1>6. Key(x) \in Keys /\ t \in Keys
  BY <1>1, <1>4, <1>5, CatType
<1> HIDE DEF t, r, p, f, q
<1>7. Cat(Cat(p, q), t) = Cat(p, Cat(q, t)) /\ Cat(q, t) \in Keys
  BY <1>3, <1>6, CatAssoc, CatType
<1>8. Cat(Cat(r, f), Cat(q, t)) = Cat(r, Cat(f, Cat(q, t)))
  BY <1>3, <1>7, CatAssoc
<1>9. /\ Key(x) \in Keys /\ t \in Keys /\ q \in Keys /\ f \in Keys /\ Key(x) = Cat(ColumnPrefix(c), t)
      /\ Key(x) = Cat(p, Cat(q, t)) /\ Key(x) = Cat(r, Cat(f, Cat(q, t)))
  BY <1>3, <1>4, <1>5, <1>6, <1>7, <1>8
<1> QED
  BY <1>9 DEF t, r, p, f, q

\* What lies between a prefix and its end key.
LEMMA SegmentToEnd ==
  ASSUME NEW k \in Keys, NEW p \in Keys
  PROVE  ~Less(k, p) /\ Less(k, EndKey(p))
           <=> \E t \in Keys : k = Cat(p, t) /\ (t = <<>> \/ t[1] < MaxByte)
<1> DEFINE end == <<MaxByte>>
           none == <<>>
<1>1. none \in Keys /\ p \o none = p
  BY Empty
<1>2. end \in Keys
  BY One, ByteFacts
<1>3. EndKey(p) = p \o end
  BY AppendIsConcat, ByteFacts DEF EndKey, Keys
<1>4. \A t \in Keys : ~Less(t, none) /\ (Less(t, end) <=> t = <<>> \/ t[1] < MaxByte)
  BY ToEnd
<1> HIDE DEF end, none
<1>5. Within(k, p, none, end)
        <=> \E t \in Keys : k = Cat(p, t) /\ ~Less(t, none) /\ Less(t, end)
  BY <1>1, <1>2, Segment
<1>6. Within(k, p, none, end) <=> ~Less(k, p) /\ Less(k, EndKey(p))
  BY <1>1, <1>3 DEF Within, Cat
<1> QED
  BY <1>4, <1>5, <1>6

\* The keys between the bounds of DeleteFromColumn are those of the column's cells.
LEMMA InColumn ==
  ASSUME NEW x \in Cells, NEW c, Fits(c)
  PROVE  ~Less(Key(x), ColumnPrefix(c)) /\ Less(Key(x), EndKey(ColumnPrefix(c)))
           <=> x.column = c /\ ~TopByte(invertedTimestamp(x.ts))
<1> DEFINE n == invertedTimestamp(x.ts)
           t == TwoBytes(n)
<1>1. n \in 0..(Width - 1) /\ Fits(x.column)
  BY CellFacts
<1>2. t \in Keys /\ Len(t) = 2 /\ t[1] = n \div Base /\ n \div Base \in Bytes
  BY <1>1, TwoBytesFacts
<1>3. t # <<>> /\ (t[1] < MaxByte <=> ~TopByte(n))
  BY <1>1, <1>2, Empty, FirstByte
<1>4. Key(x) \in Keys /\ Key(x) = Cat(ColumnPrefix(x.column), t)
  BY KeyForms
<1>5. ColumnPrefix(c) \in Keys
  BY ColumnPrefixIs
<1> HIDE DEF n, t
<1>6. ASSUME NEW s \in Keys, Key(x) = Cat(ColumnPrefix(c), s) PROVE x.column = c /\ s = t
  <2>1. SameColumn(x.column, t, c, s)
    BY <1>4, <1>6 DEF SameColumn
  <2> QED
    BY <1>1, <1>2, <2>1, ColumnUnique
<1> QED
  BY <1>2, <1>3, <1>4, <1>5, <1>6, SegmentToEnd DEF n

\* The keys between the bounds of DeleteFromFamily are those of the family's cells.
LEMMA InFamily ==
  ASSUME NEW x \in Cells, NEW r \in Keys, NEW f \in Keys, Len(f) <= MaxByte
  PROVE  ~Less(Key(x), FamilyPrefix(RowPrefix(r), f))
           /\ Less(Key(x), EndKey(FamilyPrefix(RowPrefix(r), f)))
           <=> x.column.row = r /\ x.column.family = f /\ ~TopByte(Len(x.column.qualifier))
<1> DEFINE c == x.column
           n == Len(c.qualifier)
           t == Cat(QualifierField(c.qualifier), TwoBytes(invertedTimestamp(x.ts)))
           p == FamilyPrefix(RowPrefix(r), f)
<1>1. /\ c.row \in Keys /\ c.family \in Keys /\ c.qualifier \in Keys
      /\ Len(c.family) <= MaxByte /\ n < Width
  BY CellFacts, FitsFacts
<1>2. TwoBytes(invertedTimestamp(x.ts)) \in Keys
  BY CellFacts
<1>3. t \in Keys /\ t # <<>> /\ t[1] = n \div Base
  BY <1>1, <1>2, QualifierFieldFacts, CatType
<1>4. n \in 0..(Width - 1)
  BY <1>1, QualifierFieldFacts
<1>5. t[1] < MaxByte <=> ~TopByte(n)
  BY <1>3, <1>4, FirstByte
<1>6. Key(x) \in Keys /\ Key(x) = Cat(FamilyPrefix(RowPrefix(c.row), c.family), t)
  BY KeyForms
<1>7. p \in Keys
  BY FamilyPrefixIs
<1> HIDE DEF t
<1>8. ASSUME NEW s \in Keys, Key(x) = Cat(p, s) PROVE c.row = r /\ c.family = f /\ s = t
  <2>1. SameFamily(c.row, c.family, t, r, f, s)
    BY <1>6, <1>8 DEF SameFamily
  <2> QED
    BY <1>1, <1>3, <2>1, FamilyUnique
<1> HIDE DEF p
<1>9. ~Less(Key(x), p) /\ Less(Key(x), EndKey(p)) <=> c.row = r /\ c.family = f /\ ~TopByte(n)
  <2>1. ~Less(Key(x), p) /\ Less(Key(x), EndKey(p))
          <=> \E s \in Keys : Key(x) = Cat(p, s) /\ (s = <<>> \/ s[1] < MaxByte)
    BY <1>6, <1>7, SegmentToEnd
  <2>2. c.row = r /\ c.family = f => Key(x) = Cat(p, t)
    BY <1>6 DEF p
  <2> QED
    BY <1>3, <1>5, <1>8, <2>1, <2>2
<1> QED
  BY <1>9 DEF p

\* The keys between the bounds of DeleteFromRow are those of the row's cells.
LEMMA InRow ==
  ASSUME NEW x \in Cells, NEW r \in Keys
  PROVE  ~Less(Key(x), RowPrefix(r)) /\ Less(Key(x), EndKey(RowPrefix(r)))
           <=> x.column.row = r /\ Len(x.column.family) # MaxByte
<1> DEFINE c == x.column
           t == Cat(FamilyField(c.family),
                    Cat(QualifierField(c.qualifier), TwoBytes(invertedTimestamp(x.ts))))
<1>1. c.row \in Keys /\ c.family \in Keys /\ c.qualifier \in Keys
      /\ Len(c.family) <= MaxByte /\ Len(c.qualifier) < Width /\ Len(c.family) \in Nat
  BY CellFacts, FitsFacts
<1>2. Cat(QualifierField(c.qualifier), TwoBytes(invertedTimestamp(x.ts))) \in Keys
  BY KeyForms, CatType
<1>3. t \in Keys /\ t # <<>> /\ t[1] = Len(c.family)
  BY <1>1, <1>2, FamilyFieldFacts, CatType
<1>4. t[1] < MaxByte <=> Len(c.family) # MaxByte
  BY <1>1, <1>3, ByteFacts
<1>5. Key(x) \in Keys /\ Key(x) = Cat(RowPrefix(c.row), t)
  BY KeyForms
<1>6. RowPrefix(r) \in Keys
  BY RowPrefixType
<1> HIDE DEF t
<1>7. ASSUME NEW s \in Keys, Key(x) = Cat(RowPrefix(r), s) PROVE c.row = r /\ s = t
  <2>1. SameRow(c.row, t, r, s)
    BY <1>5, <1>7 DEF SameRow
  <2> QED
    BY <1>1, <1>3, <2>1, SameRowUnique
<1>8. ~Less(Key(x), RowPrefix(r)) /\ Less(Key(x), EndKey(RowPrefix(r)))
        <=> \E s \in Keys : Key(x) = Cat(RowPrefix(r), s) /\ (s = <<>> \/ s[1] < MaxByte)
  BY <1>5, <1>6, SegmentToEnd
<1> QED
  BY <1>3, <1>4, <1>5, <1>7, <1>8

\* The keys between TimestampBounds are those of the column's cells in the time range.
LEMMA InTimes ==
  ASSUME NEW x \in Cells, NEW c, Fits(c), NEW start \in Timestamps, NEW end \in Timestamps
  PROVE  LET bounds == TimestampBounds(ColumnPrefix(c), <<start, end>>)
         IN ~Less(Key(x), bounds[1]) /\ Less(Key(x), bounds[2])
              <=> /\ x.column = c /\ start <= x.ts /\ x.ts < end
                  /\ x.ts # 0 - MaxInt - 1
<1> DEFINE p == ColumnPrefix(c)
           n == invertedTimestamp(x.ts)
           lo == Successor(invertedTimestamp(end))
           hi == Successor(invertedTimestamp(start))
           t == TwoBytes(n)
           a == TwoBytes(lo)
           b == TwoBytes(hi)
<1>1. Fits(x.column) /\ x.ts \in Timestamps /\ n \in 0..(Width - 1) /\ n = MaxInt - x.ts
  BY CellFacts, Inverted
<1>2. /\ invertedTimestamp(end) = MaxInt - end /\ invertedTimestamp(end) \in 0..(Width - 1)
      /\ invertedTimestamp(start) = MaxInt - start /\ invertedTimestamp(start) \in 0..(Width - 1)
  BY Inverted
<1>3. lo \in 0..(Width - 1) /\ hi \in 0..(Width - 1)
  BY <1>2, BaseFacts DEF Successor
<1>4. /\ lo = (IF MaxInt - end + 1 = Width THEN Width - 1 ELSE MaxInt - end + 1)
      /\ hi = (IF MaxInt - start + 1 = Width THEN Width - 1 ELSE MaxInt - start + 1)
  BY <1>2 DEF Successor
<1>5. ~(n < lo) /\ n < hi <=> start <= x.ts /\ x.ts < end /\ x.ts # 0 - MaxInt - 1
  <2>1. /\ MaxInt \in Nat /\ Width \in Nat /\ Width = 2 * (MaxInt + 1)
        /\ x.ts \in Int /\ start \in Int /\ end \in Int
        /\ 0 - MaxInt - 1 <= x.ts /\ x.ts <= MaxInt
        /\ 0 - MaxInt - 1 <= start /\ start <= MaxInt
        /\ 0 - MaxInt - 1 <= end /\ end <= MaxInt
    BY <1>1, BaseFacts DEF Timestamps
  <2>2. n = MaxInt - x.ts
    BY <1>1
  <2> HIDE DEF n, lo, hi
  <2> QED
    BY <1>4, <2>1, <2>2
<1>6. t \in Keys /\ a \in Keys /\ b \in Keys /\ p \in Keys
  BY <1>1, <1>3, TwoBytesFacts, ColumnPrefixIs
<1>7. (Less(t, a) <=> n < lo) /\ (Less(t, b) <=> n < hi)
  BY <1>1, <1>3, TwoBytesOrder
<1>8. Key(x) \in Keys /\ Key(x) = Cat(ColumnPrefix(x.column), t)
  BY KeyForms
<1>9. TimestampBounds(p, <<start, end>>) = <<Cat(p, a), Cat(p, b)>>
  BY DEF TimestampBounds, Cat
<1> HIDE DEF t, a, b, n, lo, hi
<1>10. ASSUME NEW s \in Keys, Key(x) = Cat(p, s) PROVE x.column = c /\ s = t
  <2>1. SameColumn(x.column, t, c, s)
    BY <1>8, <1>10 DEF SameColumn
  <2> QED
    BY <1>1, <1>6, <2>1, ColumnUnique
<1> HIDE DEF p
<1>11. Within(Key(x), p, a, b) <=> \E s \in Keys : Key(x) = Cat(p, s) /\ ~Less(s, a) /\ Less(s, b)
  BY <1>6, <1>8, Segment
<1>12. x.column = c => Key(x) = Cat(p, t)
  BY <1>8 DEF p
<1>13. Within(Key(x), p, a, b)
         <=> /\ x.column = c /\ start <= x.ts /\ x.ts < end
             /\ x.ts # 0 - MaxInt - 1
  BY <1>5, <1>6, <1>7, <1>10, <1>11, <1>12
<1> QED
  BY <1>9, <1>13 DEF Within, p

\* Keys of two cells: equal only for equal cells, rows in their own order, and within a
\* column the newer cell first.
LEMMA KeysOrdered ==
  ASSUME NEW x \in Cells, NEW y \in Cells
  PROVE  /\ Key(x) = Key(y) => x = y
         /\ Less(Key(x), Key(y)) => /\ ~Less(y.column.row, x.column.row)
                                    /\ x.column = y.column => x.ts > y.ts
<1> DEFINE m == invertedTimestamp(x.ts)
           n == invertedTimestamp(y.ts)
<1>1. Fits(x.column) /\ x.ts \in Timestamps /\ m \in 0..(Width - 1) /\ m = MaxInt - x.ts
  BY CellFacts, Inverted
<1>2. Fits(y.column) /\ y.ts \in Timestamps /\ n \in 0..(Width - 1) /\ n = MaxInt - y.ts
  BY CellFacts, Inverted
<1>3. x.ts \in Int /\ y.ts \in Int /\ MaxInt \in Int
  BY <1>1, <1>2, BaseFacts DEF Timestamps
<1>4. Key(x) \in Keys /\ Key(x) = Cat(ColumnPrefix(x.column), TwoBytes(m)) /\ TwoBytes(m) \in Keys
  BY KeyForms
<1>5. Key(y) \in Keys /\ Key(y) = Cat(ColumnPrefix(y.column), TwoBytes(n)) /\ TwoBytes(n) \in Keys
  BY KeyForms
<1>6. ASSUME Key(x) = Key(y) PROVE x = y
  <2>1. SameColumn(x.column, TwoBytes(m), y.column, TwoBytes(n))
    BY <1>4, <1>5, <1>6 DEF SameColumn
  <2>2. x.column = y.column /\ TwoBytes(m) = TwoBytes(n)
    BY <1>1, <1>2, <1>4, <1>5, <2>1, ColumnUnique
  <2>3. m = n
    BY <1>1, <1>2, <2>2, TwoBytesFacts
  <2>4. x.ts = y.ts
    BY <1>1, <1>2, <1>3, <2>3
  <2> QED
    BY <2>2, <2>4 DEF Cells
<1>7. ASSUME Less(Key(x), Key(y)), x.column = y.column PROVE x.ts > y.ts
  <2>1. ColumnPrefix(x.column) \in Keys
    BY <1>1, ColumnPrefixIs
  <2>2. Less(TwoBytes(m), TwoBytes(n))
    BY <1>4, <1>5, <1>7, <2>1, LessConcat DEF Cat
  <2>3. m < n
    BY <1>1, <1>2, <2>2, TwoBytesOrder
  <2> QED
    BY <1>1, <1>2, <1>3, <2>3
<1>8. ASSUME Less(Key(x), Key(y)), Less(y.column.row, x.column.row) PROVE FALSE
  <2>1. x.column.row \in Keys /\ y.column.row \in Keys
    BY <1>1, <1>2, FitsFacts
  <2>2. PICK u \in Keys : Key(x) = Cat(RowPrefix(x.column.row), u)
    BY KeyForms, CatType
  <2>3. PICK v \in Keys : Key(y) = Cat(RowPrefix(y.column.row), v)
    BY KeyForms, CatType
  <2>4. Below(RowPrefix(y.column.row), RowPrefix(x.column.row))
    BY <1>8, <2>1, RowBelow
  <2>5. RowPrefix(y.column.row) \in Keys /\ RowPrefix(x.column.row) \in Keys
    BY <2>1, RowPrefixType
  <2>6. ~Less(Key(x), Key(y))
    BY <2>2, <2>3, <2>4, <2>5, BelowLess DEF Cat
  <2> QED
    BY <1>8, <2>6
<1> QED
  BY <1>6, <1>7, <1>8

-----------------------------------------------------------------------------
(* Decoding. *)

\* What Terminator says of position p, given what it says of the later ones in g.
EndsAt(key, g, p) ==
  IF p >= Len(key) THEN 0
  ELSE CASE key[p] # 0 -> g[p + 1]
         [] key[p] = 0 /\ key[p + 1] = MaxByte -> g[p + 2]
         [] key[p] = 0 /\ key[p + 1] = 0 -> p
         [] OTHER -> 0

IsTerminator(key, n, g) == g = [p \in n..(Len(key) + 2) |-> EndsAt(key, g, p)]

\* The recursive function that Terminator defines exists.
LEMMA TerminatorExists ==
  ASSUME NEW key \in Keys
  PROVE  \E g : IsTerminator(key, 1, g)
<1> DEFINE L == Len(key)
           Q == {n \in Nat : n <= L + 1 => \E g : IsTerminator(key, L + 2 - n, g)}
<1>1. L \in Nat
  BY At
<1>2. 0 \in Q
  <2> DEFINE g == [p \in (L + 2)..(L + 2) |-> 0]
  <2>1. IsTerminator(key, L + 2, g)
    BY <1>1 DEF IsTerminator, EndsAt
  <2> QED
    BY <1>1, <2>1
<1>3. ASSUME NEW n \in Nat, n \in Q PROVE n + 1 \in Q
  <2> SUFFICES ASSUME n + 1 <= L + 1 PROVE \E h : IsTerminator(key, L + 2 - (n + 1), h)
    OBVIOUS
  <2>1. PICK g : IsTerminator(key, L + 2 - n, g)
    BY <1>1, <1>3
  <2> DEFINE m == L + 2 - (n + 1)
             h == [p \in m..(L + 2) |-> IF p = m THEN EndsAt(key, g, p) ELSE g[p]]
  <2>2. m \in Nat /\ m + 1 = L + 2 - n /\ m <= L + 1
    BY <1>1
  <2>3. \A p \in m..(L + 2) : h[p] = EndsAt(key, g, p)
    <3>1. \A p \in (m + 1)..(L + 2) : g[p] = EndsAt(key, g, p)
      <4> HIDE DEF m
      <4> QED
        BY <1>1, <2>1, <2>2 DEF IsTerminator
    <3>2. \A p \in m..(L + 2) : h[p] = IF p = m THEN EndsAt(key, g, p) ELSE g[p]
      OBVIOUS
    <3> HIDE DEF h, m
    <3> QED
      BY <1>1, <2>2, <3>1, <3>2
  <2>4. \A p \in (m + 1)..(L + 2) : h[p] = g[p]
    BY <1>1, <2>2
  <2>5. \A p \in m..(L + 2) : EndsAt(key, h, p) = EndsAt(key, g, p)
    <3> HIDE DEF h, m
    <3> TAKE p \in m..(L + 2)
    <3>1. p < L => h[p + 1] = g[p + 1] /\ h[p + 2] = g[p + 2]
      BY <1>1, <2>2, <2>4
    <3> QED
      BY <1>1, <2>2, <3>1 DEF EndsAt
  <2>6. h = [p \in m..(L + 2) |-> h[p]]
    OBVIOUS
  <2>7. IsTerminator(key, m, h)
    <3> HIDE DEF h, m
    <3> QED
      BY <2>3, <2>5, <2>6 DEF IsTerminator
  <2> QED
    BY <2>7
<1> HIDE DEF Q
<1>4. L + 1 \in Q
  BY <1>1, <1>2, <1>3, UpInduction
<1> QED
  BY <1>1, <1>4 DEF Q

\* The search for the end of the row key, position by position.
LEMMA TerminatorIs ==
  ASSUME NEW key \in Keys
  PROVE  \E g : /\ Terminator(key) = g[1]
                /\ \A p \in 1..(Len(key) + 2) : g[p] = EndsAt(key, g, p)
<1> DEFINE u == CHOOSE g : g = [p \in 1..(Len(key) + 2) |->
                  IF p >= Len(key) THEN 0
                  ELSE CASE key[p] # 0 -> g[p + 1]
                         [] key[p] = 0 /\ key[p + 1] = MaxByte -> g[p + 2]
                         [] key[p] = 0 /\ key[p + 1] = 0 -> p
                         [] OTHER -> 0]
<1>1. IsTerminator(key, 1, u)
  BY TerminatorExists DEF IsTerminator, EndsAt
<1>2. Terminator(key) = u[1]
  BY DEF Terminator
<1> HIDE DEF u
<1>3. Len(key) \in Nat
  BY At
<1>4. \A p \in 1..(Len(key) + 2) : u[p] = EndsAt(key, u, p)
  BY <1>1, <1>3 DEF IsTerminator
<1> QED
  BY <1>2, <1>4

\* Where a key goes on behind an escaped row.
LEMMA EscapedAt ==
  ASSUME NEW k \in Keys, NEW a \in Keys, NEW b \in Bytes
  PROVE  LET n == Len(Escape(a))
             more == Escape(a \o <<b>>)
         IN /\ n \in Nat /\ more \in Keys
            /\ Len(more) = IF b = 0 THEN n + 2 ELSE n + 1
            /\ HasPrefix(k, more) <=> /\ HasPrefix(k, Escape(a))
                                      /\ n + 1 <= Len(k) /\ k[n + 1] = b
                                      /\ b = 0 => n + 2 <= Len(k) /\ k[n + 2] = MaxByte
<1> DEFINE e == Escape(a)
           s == EscapeByte(b)
           more == Escape(a \o <<b>>)
           n == Len(e)
<1>1. e \in Keys /\ s \in Keys /\ more = e \o s
  BY EscapeType, EscapedByte, EscapeSnoc
<1>2. s[1] = b /\ Len(s) = (IF b = 0 THEN 2 ELSE 1) /\ (b = 0 => s[2] = MaxByte)
  BY EscapedByte
<1>3. /\ more \in Keys /\ Len(more) = n + Len(s)
      /\ \A i \in 1..n : more[i] = e[i]
      /\ \A i \in 1..Len(s) : more[n + i] = s[i]
  <2> HIDE DEF e, s, more
  <2>1. /\ e \o s \in Keys /\ Len(e \o s) = Len(e) + Len(s)
        /\ \A i \in 1..Len(e) : (e \o s)[i] = e[i]
        /\ \A i \in 1..Len(s) : (e \o s)[Len(e) + i] = s[i]
    BY <1>1, Concat
  <2> QED
    BY <1>1, <2>1
<1>4. n \in Nat /\ Len(k) \in Nat /\ Len(s) \in Nat
  BY <1>1, At
<1> HIDE DEF e, s, more
<1>5. HasPrefix(k, more) <=> Len(more) <= Len(k) /\ \A i \in 1..Len(more) : k[i] = more[i]
  BY <1>3, PrefixPointwise
<1>6. HasPrefix(k, e) <=> n <= Len(k) /\ \A i \in 1..n : k[i] = e[i]
  BY <1>1, PrefixPointwise
<1>7. more[n + 1] = b /\ (b = 0 => more[n + 2] = MaxByte)
  BY <1>2, <1>3
<1>8. Len(more) = IF b = 0 THEN n + 2 ELSE n + 1
  BY <1>2, <1>3
<1> HIDE DEF n
<1>9. HasPrefix(k, more) <=> /\ HasPrefix(k, e)
                             /\ n + 1 <= Len(k) /\ k[n + 1] = b
                             /\ b = 0 => n + 2 <= Len(k) /\ k[n + 2] = MaxByte
  <2>1. ASSUME HasPrefix(k, more)
        PROVE  /\ HasPrefix(k, e)
               /\ n + 1 <= Len(k) /\ k[n + 1] = b
               /\ b = 0 => n + 2 <= Len(k) /\ k[n + 2] = MaxByte
    BY <1>3, <1>4, <1>5, <1>6, <1>7, <1>8, <2>1
  <2>2. ASSUME HasPrefix(k, e), n + 1 <= Len(k), k[n + 1] = b,
               b = 0 => n + 2 <= Len(k) /\ k[n + 2] = MaxByte
        PROVE  HasPrefix(k, more)
    <3>1. Len(more) <= Len(k)
      BY <1>8, <2>2
    <3>2. \A i \in 1..n : k[i] = more[i]
      BY <1>3, <1>6, <2>2
    <3>3. ASSUME NEW i \in 1..Len(more) PROVE k[i] = more[i]
      <4>1. i \in 1..n \/ i = n + 1 \/ (b = 0 /\ i = n + 2)
        BY <1>4, <1>8
      <4> QED
        BY <1>7, <2>2, <3>2, <4>1
    <3> QED
      BY <1>5, <3>1, <3>3
  <2> QED
    BY <2>1, <2>2
<1> QED
  BY <1>3, <1>4, <1>8, <1>9 DEF e, more, n

\* The search goes through an escaped row without stopping.
LEMMA TerminatorSkips ==
  ASSUME NEW k \in Keys, NEW g,
         \A p \in 1..(Len(k) + 2) : g[p] = EndsAt(k, g, p)
  PROVE  \A a \in Keys : HasPrefix(k, Escape(a)) => g[1] = g[Len(Escape(a)) + 1]
<1> DEFINE Q == {a \in Keys : HasPrefix(k, Escape(a)) => g[1] = g[Len(Escape(a)) + 1]}
<1>1. <<>> \in Q
  BY EscapeEmpty, Empty
<1>2. ASSUME NEW a \in Keys, NEW b \in Bytes, a \in Q PROVE a \o <<b>> \in Q
  <2> DEFINE n == Len(Escape(a))
             more == a \o <<b>>
  <2>1. more \in Keys
    BY One, Concat
  <2> SUFFICES ASSUME HasPrefix(k, Escape(more))
               PROVE  g[1] = g[Len(Escape(more)) + 1]
    BY <2>1
  <2>2. /\ n \in Nat /\ Len(Escape(more)) = (IF b = 0 THEN n + 2 ELSE n + 1)
        /\ HasPrefix(k, Escape(a)) /\ n + 1 <= Len(k) /\ k[n + 1] = b
        /\ b = 0 => n + 2 <= Len(k) /\ k[n + 2] = MaxByte
    BY EscapedAt
  <2>3. Len(k) \in Nat /\ MaxByte \in Nat /\ MaxByte > 1
    BY At, ByteFacts
  <2> HIDE DEF more, n
  <2>4. g[n + 1] = EndsAt(k, g, n + 1) /\ g[n + 2] = EndsAt(k, g, n + 2)
    BY <2>2, <2>3
  <2>5. b # 0 => g[n + 1] = g[n + 2]
    BY <2>2, <2>3, <2>4 DEF EndsAt
  <2>6. b = 0 => g[n + 1] = g[n + 3]
    BY <2>2, <2>3, <2>4 DEF EndsAt
  <2>7. g[1] = g[n + 1]
    BY <1>2, <2>2 DEF n
  <2>8. Len(Escape(more)) + 1 = IF b = 0 THEN n + 3 ELSE n + 2
    BY <2>2
  <2> QED
    BY <2>5, <2>6, <2>7, <2>8
<1> HIDE DEF Q
<1>3. \A a \in Keys : a \in Q
  BY <1>1, <1>2, KeyInduction
<1> QED
  BY <1>3 DEF Q

\* Decode finds the end of the row key where Encode put it.
LEMMA TerminatorFound ==
  ASSUME NEW row \in Keys, NEW u \in Keys
  PROVE  Terminator(Cat(RowPrefix(row), u)) = Len(Escape(row)) + 1
<1> DEFINE k == Cat(RowPrefix(row), u)
           e == Escape(row)
           z == <<0, 0>>
           n == Len(e)
<1>1. e \in Keys /\ z \in Keys /\ Len(z) = 2 /\ z[1] = 0 /\ z[2] = 0
  BY EscapeType, Zeros
<1>2. k \in Keys /\ k = e \o (z \o u)
  BY <1>1, RowPrefixType, CatType, Assoc DEF Cat, RowPrefix
<1> HIDE DEF k, z, e
<1> DEFINE v == z \o u
<1>3. v \in Keys /\ Len(v) = 2 + Len(u) /\ v[1] = 0 /\ v[2] = 0
  <2>1. /\ v \in Keys /\ Len(v) = Len(z) + Len(u)
        /\ \A i \in 1..Len(z) : v[i] = z[i]
    BY <1>1, Concat
  <2> HIDE DEF v
  <2> QED
    BY <1>1, <2>1
<1>4. k = e \o v
  BY <1>2
<1> HIDE DEF v
<1>5. Len(k) = n + Len(v) /\ \A i \in 1..Len(v) : k[n + i] = v[i]
  <2>1. Len(e \o v) = Len(e) + Len(v) /\ \A i \in 1..Len(v) : (e \o v)[Len(e) + i] = v[i]
    BY <1>1, <1>3, Concat
  <2> QED
    BY <1>4, <2>1
<1>6. n \in Nat /\ Len(u) \in Nat
  BY <1>1, At
<1>7. k[n + 1] = 0 /\ k[n + 2] = 0 /\ n + 1 < Len(k)
  BY <1>3, <1>5, <1>6
<1>8. HasPrefix(k, e)
  BY <1>1, <1>2, <1>3, <1>4, PrefixSplit
<1>9. PICK g : /\ Terminator(k) = g[1]
               /\ \A p \in 1..(Len(k) + 2) : g[p] = EndsAt(k, g, p)
  BY <1>2, TerminatorIs
<1>10. g[1] = g[n + 1]
  BY <1>2, <1>8, <1>9, TerminatorSkips DEF e
<1>11. g[n + 1] = n + 1
  <2>1. Len(k) \in Nat
    BY <1>2, At
  <2>2. g[n + 1] = EndsAt(k, g, n + 1)
    BY <1>6, <1>7, <1>9, <2>1
  <2>3. MaxByte # 0
    BY ByteFacts
  <2> HIDE DEF n
  <2> QED
    BY <1>6, <1>7, <2>1, <2>2, <2>3 DEF EndsAt
<1> QED
  BY <1>9, <1>10, <1>11 DEF k, e

\* A key in which Decode finds an end of the row key starts with a row's prefix.
LEMMA TerminatorMeans ==
  ASSUME NEW k \in Keys, Terminator(k) # 0
  PROVE  \E row \in Keys, u \in Keys :
           k = Cat(RowPrefix(row), u) /\ Terminator(k) = Len(Escape(row)) + 1
<1>1. PICK g : /\ Terminator(k) = g[1]
               /\ \A p \in 1..(Len(k) + 2) : g[p] = EndsAt(k, g, p)
  BY TerminatorIs
<1>2. Len(k) \in Nat /\ MaxByte \in Nat /\ MaxByte > 1
  BY At, ByteFacts
<1> DEFINE S == {m \in Nat : \E a \in Keys : HasPrefix(k, Escape(a)) /\ Len(Escape(a)) + m = Len(k)}
<1>3. S \in SUBSET Nat /\ S # {}
  <2>1. HasPrefix(k, Escape(<<>>)) /\ Len(Escape(<<>>)) = 0 /\ <<>> \in Keys
    BY <1>2, EscapeEmpty, Empty, PrefixPointwise
  <2>2. Len(k) \in S
    BY <1>2, <2>1
  <2> QED
    BY <2>2
<1>4. PICK m \in S : \A i \in S : m <= i
  <2> HIDE DEF S
  <2> QED
    BY <1>3, Least
<1>5. PICK a \in Keys : HasPrefix(k, Escape(a)) /\ Len(Escape(a)) + m = Len(k)
  BY <1>4
<1> DEFINE n == Len(Escape(a))
<1>6. n \in Nat /\ m \in Nat /\ Escape(a) \in Keys /\ n <= Len(k)
  BY <1>2, <1>5, EscapeType, At
<1>7. g[1] = g[n + 1] /\ g[n + 1] # 0
  BY <1>1, <1>5, TerminatorSkips
<1>8. g[n + 1] = EndsAt(k, g, n + 1)
  BY <1>1, <1>2, <1>6
<1>9. n + 1 < Len(k)
  <2> HIDE DEF n
  <2> QED
    BY <1>2, <1>6, <1>7, <1>8 DEF EndsAt
<1>10. k[n + 1] \in Bytes /\ k[n + 2] \in Bytes
  BY <1>2, <1>6, <1>9, At
<1>11. ASSUME k[n + 1] # 0 \/ k[n + 2] = MaxByte PROVE FALSE
  <2> DEFINE b == k[n + 1]
             more == a \o <<b>>
  <2>1. more \in Keys
    BY <1>10, One, Concat
  <2>2. HasPrefix(k, Escape(more)) /\ Len(Escape(more)) > n /\ Len(Escape(more)) \in Nat
    <3>1. b \in Bytes /\ (b = 0 => n + 2 <= Len(k) /\ k[n + 2] = MaxByte) /\ n + 1 <= Len(k)
      BY <1>2, <1>6, <1>9, <1>10, <1>11
    <3>2. Len(Escape(more)) = (IF b = 0 THEN n + 2 ELSE n + 1) /\ HasPrefix(k, Escape(more))
      <4> HIDE DEF b, n
      <4>1. /\ Len(Escape(a \o <<b>>)) = (IF b = 0 THEN Len(Escape(a)) + 2 ELSE Len(Escape(a)) + 1)
            /\ HasPrefix(k, Escape(a \o <<b>>))
                 <=> /\ HasPrefix(k, Escape(a))
                     /\ Len(Escape(a)) + 1 <= Len(k) /\ k[Len(Escape(a)) + 1] = b
                     /\ b = 0 => Len(Escape(a)) + 2 <= Len(k) /\ k[Len(Escape(a)) + 2] = MaxByte
        BY <3>1, EscapedAt
      <4>2. n = Len(Escape(a)) /\ b = k[n + 1]
        BY DEF b, n
      <4> QED
        BY <1>5, <3>1, <4>1, <4>2
    <3> QED
      BY <1>6, <3>2
  <2>3. Len(Escape(more)) <= Len(k)
    BY <2>2 DEF HasPrefix
  <2> HIDE DEF more
  <2>4. Len(k) - Len(Escape(more)) \in S
    BY <1>2, <2>1, <2>2, <2>3
  <2>5. m <= Len(k) - Len(Escape(more))
    <3> HIDE DEF S
    <3> QED
      BY <1>4, <2>4
  <2> QED
    BY <1>2, <1>5, <1>6, <2>2, <2>5
<1>12. k[n + 1] = 0 /\ k[n + 2] = 0 /\ g[n + 1] = n + 1
  <2> HIDE DEF n
  <2> QED
    BY <1>2, <1>6, <1>7, <1>8, <1>9, <1>11 DEF EndsAt
<1>13. HasPrefix(k, RowPrefix(a))
  <2> DEFINE z == <<0, 0>>
  <2>1. z \in Keys /\ Len(z) = 2 /\ z[1] = 0 /\ z[2] = 0
    BY Zeros
  <2> HIDE DEF z
  <2> DEFINE e == Escape(a)
  <2>2. e \in Keys
    BY EscapeType
  <2> HIDE DEF e
  <2>3. /\ e \o z \in Keys /\ Len(e \o z) = Len(e) + Len(z)
        /\ \A i \in 1..Len(e) : (e \o z)[i] = e[i]
        /\ \A i \in 1..Len(z) : (e \o z)[Len(e) + i] = z[i]
    BY <2>1, <2>2, Concat
  <2> DEFINE x == e \o z
             l == Len(e)
  <2>4. x \in Keys /\ Len(x) = l + 2 /\ x[l + 1] = 0 /\ x[l + 2] = 0 /\ \A i \in 1..l : x[i] = e[i]
    BY <2>1, <2>3
  <2> HIDE DEF x
  <2>5. \A i \in 1..l : k[i] = e[i]
    BY <1>5, <2>2, PrefixPointwise DEF e
  <2>6. l = n
    BY DEF e
  <2> HIDE DEF l, n
  <2>7. \A i \in 1..Len(x) : k[i] = x[i]
    <3> TAKE i \in 1..Len(x)
    <3>1. i \in 1..l \/ i = l + 1 \/ i = l + 2
      BY <1>6, <2>4, <2>6
    <3> QED
      BY <1>12, <2>4, <2>5, <2>6, <3>1
  <2>8. Len(x) <= Len(k)
    BY <1>2, <1>6, <1>9, <2>4, <2>6
  <2>9. HasPrefix(k, x)
    BY <2>4, <2>7, <2>8, PrefixPointwise
  <2> QED
    BY <2>9 DEF x, e, z, RowPrefix
<1>14. \E u \in Keys : k = Cat(RowPrefix(a), u)
  BY <1>13, RowPrefixType, PrefixSplit DEF Cat
<1> QED
  BY <1>1, <1>7, <1>12, <1>14

\* What Unescape makes of the bytes from position p on.
Unescaped(s, g, p) ==
  IF p > Len(s) THEN <<>>
  ELSE IF p < Len(s) /\ s[p] = 0 /\ s[p + 1] = MaxByte
       THEN <<0>> \o g[p + 2]
       ELSE <<s[p]>> \o g[p + 1]

IsUnescape(s, n, g) == g = [p \in n..(Len(s) + 2) |-> Unescaped(s, g, p)]

\* The recursive function that Unescape defines exists.
LEMMA UnescapeExists ==
  ASSUME NEW s \in Keys
  PROVE  \E g : IsUnescape(s, 1, g)
<1> DEFINE L == Len(s)
           Q == {n \in Nat : n <= L + 1 => \E g : IsUnescape(s, L + 2 - n, g)}
<1>1. L \in Nat
  BY At
<1>2. 0 \in Q
  <2> DEFINE g == [p \in (L + 2)..(L + 2) |-> <<>>]
  <2>1. IsUnescape(s, L + 2, g)
    BY <1>1 DEF IsUnescape, Unescaped
  <2> QED
    BY <1>1, <2>1
<1>3. ASSUME NEW n \in Nat, n \in Q PROVE n + 1 \in Q
  <2> SUFFICES ASSUME n + 1 <= L + 1 PROVE \E h : IsUnescape(s, L + 2 - (n + 1), h)
    OBVIOUS
  <2>1. PICK g : IsUnescape(s, L + 2 - n, g)
    BY <1>1, <1>3
  <2> DEFINE m == L + 2 - (n + 1)
             h == [p \in m..(L + 2) |-> IF p = m THEN Unescaped(s, g, p) ELSE g[p]]
  <2>2. m \in Nat /\ m + 1 = L + 2 - n /\ m <= L + 1
    BY <1>1
  <2>3. \A p \in m..(L + 2) : h[p] = Unescaped(s, g, p)
    <3>1. \A p \in (m + 1)..(L + 2) : g[p] = Unescaped(s, g, p)
      <4> HIDE DEF m
      <4> QED
        BY <1>1, <2>1, <2>2 DEF IsUnescape
    <3>2. \A p \in m..(L + 2) : h[p] = IF p = m THEN Unescaped(s, g, p) ELSE g[p]
      OBVIOUS
    <3> HIDE DEF h, m
    <3> QED
      BY <1>1, <2>2, <3>1, <3>2
  <2>4. \A p \in (m + 1)..(L + 2) : h[p] = g[p]
    BY <1>1, <2>2
  <2>5. \A p \in m..(L + 2) : Unescaped(s, h, p) = Unescaped(s, g, p)
    <3> HIDE DEF h, m
    <3> TAKE p \in m..(L + 2)
    <3>1. p <= L => h[p + 1] = g[p + 1] /\ h[p + 2] = g[p + 2]
      BY <1>1, <2>2, <2>4
    <3> QED
      BY <1>1, <2>2, <3>1 DEF Unescaped
  <2>6. h = [p \in m..(L + 2) |-> h[p]]
    OBVIOUS
  <2>7. IsUnescape(s, m, h)
    <3> HIDE DEF h, m
    <3> QED
      BY <2>3, <2>5, <2>6 DEF IsUnescape
  <2> QED
    BY <2>7
<1> HIDE DEF Q
<1>4. L + 1 \in Q
  BY <1>1, <1>2, <1>3, UpInduction
<1> QED
  BY <1>1, <1>4 DEF Q

\* Unescape, position by position.
LEMMA UnescapeIs ==
  ASSUME NEW s \in Keys
  PROVE  \E g : /\ Unescape(s) = g[1]
                /\ \A p \in 1..(Len(s) + 2) : g[p] = Unescaped(s, g, p) /\ g[p] \in Keys
<1> DEFINE u == CHOOSE g : g = [p \in 1..(Len(s) + 2) |->
                  IF p > Len(s) THEN <<>>
                  ELSE IF p < Len(s) /\ s[p] = 0 /\ s[p + 1] = MaxByte
                       THEN <<0>> \o g[p + 2]
                       ELSE <<s[p]>> \o g[p + 1]]
<1>1. IsUnescape(s, 1, u)
  BY UnescapeExists DEF IsUnescape, Unescaped
<1>2. Unescape(s) = u[1]
  BY DEF Unescape
<1> HIDE DEF u
<1>3. Len(s) \in Nat
  BY At
<1>4. \A p \in 1..(Len(s) + 2) : u[p] = Unescaped(s, u, p)
  BY <1>1, <1>3 DEF IsUnescape
<1>5. \A p \in 1..(Len(s) + 2) : u[p] \in Keys
  <2> DEFINE L == Len(s)
             Q == {n \in Nat : \A p \in 1..(L + 2) : p + n >= L + 2 => u[p] \in Keys}
  <2>1. 0 \in Q
    <3>1. L + 2 \in 1..(L + 2) /\ L + 2 > Len(s)
      BY <1>3
    <3>2. u[L + 2] = <<>>
      BY <1>4, <3>1 DEF Unescaped
    <3>3. \A p \in 1..(L + 2) : p + 0 >= L + 2 => p = L + 2
      BY <1>3
    <3> QED
      BY <3>2, <3>3, Empty
  <2>2. ASSUME NEW n \in Nat, n \in Q PROVE n + 1 \in Q
    <3> SUFFICES ASSUME NEW p \in 1..(L + 2), p + (n + 1) >= L + 2 PROVE u[p] \in Keys
      OBVIOUS
    <3>1. p <= L => u[p + 1] \in Keys /\ u[p + 2] \in Keys
      BY <1>3, <2>2
    <3>2. p <= L => s[p] \in Bytes
      BY <1>3, At
    <3>3. p <= L => <<s[p]>> \in Keys /\ <<0>> \in Keys
      BY <3>2, ByteFacts, One
    <3>4. p <= L => <<s[p]>> \o u[p + 1] \in Keys /\ <<0>> \o u[p + 2] \in Keys
      BY <3>1, <3>3, Concat
    <3>5. u[p] = Unescaped(s, u, p)
      BY <1>4
    <3> QED
      BY <1>3, <3>4, <3>5, Empty DEF Unescaped
  <2> HIDE DEF Q
  <2>3. L + 2 \in Q
    BY <1>3, <2>1, <2>2, UpInduction
  <2> QED
    BY <1>3, <2>3 DEF Q
<1> QED
  BY <1>2, <1>4, <1>5

\* Decode gives the row key back that Encode escaped.
LEMMA UnescapeEscape ==
  ASSUME NEW row \in Keys
  PROVE  Unescape(Escape(row)) = row
<1> DEFINE s == Escape(row)
<1>1. s \in Keys /\ Len(s) \in Nat
  BY EscapeType, At
<1>2. PICK g : /\ Unescape(s) = g[1]
               /\ \A p \in 1..(Len(s) + 2) : g[p] = Unescaped(s, g, p) /\ g[p] \in Keys
  BY <1>1, UnescapeIs
<1> DEFINE Q == {a \in Keys : HasPrefix(s, Escape(a)) => g[1] = a \o g[Len(Escape(a)) + 1]}
<1> HIDE DEF s
<1>3. <<>> \in Q
  <2>1. g[1] \in Keys
    BY <1>1, <1>2
  <2>2. <<>> \o g[1] = g[1] /\ Len(Escape(<<>>)) = 0 /\ <<>> \in Keys
    BY <2>1, EscapeEmpty, Empty
  <2>3. Len(Escape(<<>>)) + 1 = 1
    BY <2>2
  <2>4. <<>> \o g[Len(Escape(<<>>)) + 1] = g[1]
    BY <2>2, <2>3
  <2> QED
    BY <2>2, <2>4
<1>4. ASSUME NEW a \in Keys, NEW b \in Bytes, a \in Q PROVE a \o <<b>> \in Q
  <2> DEFINE n == Len(Escape(a))
             more == a \o <<b>>
  <2>1. more \in Keys
    BY One, Concat
  <2> SUFFICES ASSUME HasPrefix(s, Escape(more))
               PROVE  g[1] = more \o g[Len(Escape(more)) + 1]
    BY <2>1
  <2>2. /\ n \in Nat /\ Len(Escape(more)) = (IF b = 0 THEN n + 2 ELSE n + 1)
        /\ HasPrefix(s, Escape(a)) /\ n + 1 <= Len(s) /\ s[n + 1] = b
        /\ b = 0 => n + 2 <= Len(s) /\ s[n + 2] = MaxByte
    BY <1>1, EscapedAt
  <2> DEFINE next == Len(Escape(more)) + 1
  <2>3. next \in 1..(Len(s) + 2) /\ next = (IF b = 0 THEN n + 3 ELSE n + 2) /\ n + 1 \in 1..(Len(s) + 2)
    BY <1>1, <2>2
  <2>4. g[1] = a \o g[n + 1]
    BY <1>4, <2>2
  <2> HIDE DEF more, n, next
  <2>5. g[n + 1] = Unescaped(s, g, n + 1) /\ g[next] \in Keys
    BY <1>2, <2>3
  <2>6. g[n + 1] = <<b>> \o g[next]
    <3>1. CASE b = 0
      BY <1>1, <2>2, <2>3, <2>5, <3>1 DEF Unescaped
    <3>2. CASE b # 0
      BY <1>1, <2>2, <2>3, <2>5, <3>2 DEF Unescaped
    <3> QED
      BY <3>1, <3>2
  <2>7. a \o (<<b>> \o g[next]) = (a \o <<b>>) \o g[next]
    <3> DEFINE o == <<b>>
               rest == g[next]
    <3>1. o \in Keys /\ rest \in Keys
      BY <2>5, One
    <3> HIDE DEF o, rest
    <3>2. a \o (o \o rest) = (a \o o) \o rest
      BY <3>1, Assoc
    <3> QED
      BY <3>2 DEF o, rest
  <2>8. g[1] = more \o g[next]
    BY <2>4, <2>6, <2>7 DEF more
  <2> QED
    BY <2>8 DEF next
<1> HIDE DEF Q
<1>5. row \in Q
  BY <1>3, <1>4, KeyInduction
<1>6. HasPrefix(s, Escape(row))
  BY <1>1, PrefixPointwise DEF s
<1>7. g[1] = row \o g[Len(s) + 1]
  BY <1>5, <1>6 DEF Q, s
<1>8. g[Len(s) + 1] = <<>>
  <2>1. g[Len(s) + 1] = Unescaped(s, g, Len(s) + 1)
    BY <1>1, <1>2
  <2> QED
    BY <1>1, <2>1 DEF Unescaped
<1> QED
  BY <1>2, <1>7, <1>8, Empty DEF s

\* A key can be cut at every position.
LEMMA SplitAt ==
  ASSUME NEW k \in Keys, NEW n \in Nat, n <= Len(k)
  PROVE  \E a \in Keys, b \in Keys : k = Cat(a, b) /\ Len(a) = n /\ Len(k) = n + Len(b)
<1> DEFINE a == [j \in 1..n |-> k[j]]
<1>1. \A j \in 1..n : k[j] \in Bytes
  BY At
<1>2. a \in Keys /\ Len(a) = n /\ \A j \in 1..n : a[j] = k[j]
  BY <1>1 DEF Keys
<1> HIDE DEF a
<1>3. HasPrefix(k, a)
  BY <1>2, PrefixPointwise
<1>4. PICK b \in Keys : k = a \o b
  BY <1>2, <1>3, PrefixSplit
<1>5. Len(k) = n + Len(b)
  BY <1>2, <1>4, Concat
<1> QED
  BY <1>2, <1>4, <1>5 DEF Cat

\* The middle part of a key, found by its position.
LEMMA Block ==
  ASSUME NEW a \in Keys, NEW b \in Keys, NEW c \in Keys
  PROVE  LET k == Cat(a, Cat(b, c))
         IN /\ k \in Keys /\ Len(k) = Len(a) + Len(Cat(b, c)) /\ Len(Cat(b, c)) = Len(b) + Len(c)
            /\ Len(Cat(a, b)) = Len(a) + Len(b)
            /\ k = Cat(Cat(a, b), c)
            /\ \A i \in 1..Len(b) : k[Len(a) + i] = b[i]
            /\ SubSeq(k, Len(a) + 1, Len(a) + Len(b)) = b
<1> DEFINE d == Cat(b, c)
           k == Cat(a, d)
<1>1. d \in Keys /\ k \in Keys /\ Len(a) \in Nat /\ Len(b) \in Nat /\ Len(c) \in Nat
  BY CatType, At
<1>2. Len(d) = Len(b) + Len(c) /\ \A i \in 1..Len(b) : d[i] = b[i]
  BY Concat DEF Cat
<1>3. Len(Cat(a, b)) = Len(a) + Len(b)
  BY Concat DEF Cat
<1>4. k = Cat(Cat(a, b), c)
  BY CatAssoc
<1> HIDE DEF d
<1>5. Len(k) = Len(a) + Len(d) /\ \A i \in 1..Len(d) : k[Len(a) + i] = d[i]
  BY <1>1, Concat DEF Cat
<1> HIDE DEF k
<1>6. \A i \in 1..Len(b) : k[Len(a) + i] = b[i]
  BY <1>1, <1>2, <1>5
<1>7. SubSeq(k, Len(a) + 1, Len(a) + Len(b)) = b
  <2> DEFINE m == Len(a) + 1
             n == Len(a) + Len(b)
             s == SubSeq(k, m, n)
  <2>1. m \in Int /\ n \in Int /\ \A i \in m..n : k[i] \in Bytes
    <3>1. \A i \in 1..Len(k) : k[i] \in Bytes
      BY <1>1, At
    <3>2. \A i \in m..n : i \in 1..Len(k)
      BY <1>1, <1>2, <1>5
    <3> QED
      BY <1>1, <3>1, <3>2
  <2>2. s \in Keys /\ Len(s) = (IF m <= n THEN n - m + 1 ELSE 0)
        /\ \A i \in 1..(n - m + 1) : s[i] = k[m + i - 1]
    BY <2>1, SubSeqProperties DEF Keys
  <2>3. Len(s) = Len(b)
    BY <1>1, <2>2
  <2>4. \A i \in 1..Len(b) : s[i] = b[i]
    <3> TAKE i \in 1..Len(b)
    <3>1. i \in 1..(n - m + 1) /\ m + i - 1 = Len(a) + i
      BY <1>1
    <3>2. s[i] = k[m + i - 1]
      BY <2>2, <3>1
    <3> QED
      BY <1>6, <3>1, <3>2
  <2> HIDE DEF s
  <2>5. s = b
    BY <2>2, <2>3, <2>4, Same
  <2> QED
    BY <2>5 DEF s
<1> QED
  BY <1>1, <1>2, <1>3, <1>4, <1>5, <1>6, <1>7 DEF d, k

Slice(k, first, last) == SubSeq(k, first, last)

\* k holds b at the positions first to last, and c behind it.
Part(k, a, b, c, first, last) ==
  k = Cat(a, Cat(b, c)) /\ first = Len(a) + 1 /\ last = Len(a) + Len(b)

\* The first byte of a part.
LEMMA PartFirst ==
  ASSUME NEW k, NEW a \in Keys, NEW b \in Keys, NEW c \in Keys, NEW first, NEW last,
         Part(k, a, b, c, first, last)
  PROVE  b # <<>> => k[first] = b[1]
<1>1. k = Cat(a, Cat(b, c)) /\ first = Len(a) + 1
  BY DEF Part
<1> DEFINE d == Cat(a, Cat(b, c))
<1>2. \A i \in 1..Len(b) : d[Len(a) + i] = b[i]
  BY Block
<1>3. k = d
  BY <1>1
<1> HIDE DEF d
<1>4. b # <<>> => 1 \in 1..Len(b)
  BY At, Empty
<1> QED
  BY <1>1, <1>2, <1>3, <1>4

\* The length of a concatenation.
LEMMA CatLen ==
  ASSUME NEW a \in Keys, NEW b \in Keys
  PROVE  Len(Cat(a, b)) = Len(a) + Len(b)
BY Concat DEF Cat

\* A part, cut out by its positions.
LEMMA PartSlice ==
  ASSUME NEW k, NEW a \in Keys, NEW b \in Keys, NEW c \in Keys, NEW first, NEW last,
         Part(k, a, b, c, first, last)
  PROVE  Slice(k, first, last) = b
<1>1. k = Cat(a, Cat(b, c)) /\ first = Len(a) + 1 /\ last = Len(a) + Len(b)
  BY DEF Part
<1> DEFINE d == Cat(a, Cat(b, c))
<1>2. SubSeq(d, Len(a) + 1, Len(a) + Len(b)) = b
  BY Block
<1> QED
  BY <1>1, <1>2 DEF Slice

\* The parts of a cell's key, one behind the other.
Layout(row, fl, fam, y, ql, qual, z, ts) ==
  Cat(RowPrefix(row), Cat(fl, Cat(fam, Cat(y, Cat(ql, Cat(qual, Cat(z, ts)))))))

Sized(fl, y, ql, z, ts) ==
  Len(fl) = 1 /\ Len(y) = 1 /\ Len(ql) = 2 /\ Len(z) = 1 /\ Len(ts) = 2

\* Where the parts of k are.
LaidOut(k, row, fl, fam, y, ql, qual, z, ts) ==
  LET n == Len(Escape(row)) + 2
      m == Len(fam)
      l == Len(qual)
  IN /\ n \in Nat /\ n >= 2 /\ m \in Nat /\ l \in Nat
     /\ k \in Keys /\ Len(k) = n + m + l + 7
     /\ Terminator(k) = n - 1 /\ Slice(k, 1, n - 2) = Escape(row)
     /\ k[n + 1] = fl[1] /\ Slice(k, n + 2, n + 1 + m) = fam
     /\ k[n + m + 2] = y[1]
     /\ Slice(k, n + m + 3, n + m + 4) = ql
     /\ Slice(k, n + m + 5, n + m + 4 + l) = qual
     /\ k[n + m + l + 5] = z[1]
     /\ Slice(k, n + m + l + 6, n + m + l + 7) = ts

\* Keys made of those parts have them there.
LEMMA LayoutFacts ==
  ASSUME NEW row \in Keys, NEW fl \in Keys, NEW fam \in Keys, NEW y \in Keys, NEW ql \in Keys,
         NEW qual \in Keys, NEW z \in Keys, NEW ts \in Keys,
         Sized(fl, y, ql, z, ts)
  PROVE  LaidOut(Layout(row, fl, fam, y, ql, qual, z, ts), row, fl, fam, y, ql, qual, z, ts)
<1> DEFINE k == Layout(row, fl, fam, y, ql, qual, z, ts)
           e == Escape(row)
           n == Len(e) + 2
           m == Len(fam)
           l == Len(qual)
           p == RowPrefix(row)
           s6 == Cat(z, ts)
           s5 == Cat(qual, s6)
           s4 == Cat(ql, s5)
           s3 == Cat(y, s4)
           s2 == Cat(fam, s3)
           s1 == Cat(fl, s2)
           p1 == Cat(p, fl)
           p2 == Cat(p1, fam)
           p3 == Cat(p2, y)
           p4 == Cat(p3, ql)
           p5 == Cat(p4, qual)
           p6 == Cat(p5, z)
           n1 == n + 1
           n2 == n1 + m
           n3 == n2 + 1
           n4 == n3 + 2
           n5 == n4 + l
           n6 == n5 + 1
           none == <<>>
           zeros == <<0, 0>>
<1>1. e \in Keys /\ p \in Keys /\ p = Cat(e, zeros) /\ zeros \in Keys /\ Len(zeros) = 2
  BY EscapeType, RowPrefixType, Zeros DEF Cat, RowPrefix
<1>2. /\ s6 \in Keys /\ s5 \in Keys /\ s4 \in Keys /\ s3 \in Keys /\ s2 \in Keys /\ s1 \in Keys
  BY CatType
<1>3. /\ p1 \in Keys /\ p2 \in Keys /\ p3 \in Keys /\ p4 \in Keys /\ p5 \in Keys /\ p6 \in Keys
  BY <1>1, CatType
<1>4. k = Cat(p, Cat(fl, s2))
  BY DEF Layout
<1>5. none \in Keys /\ Len(none) = 0 /\ Cat(ts, none) = ts /\ Cat(none, Cat(e, zeros)) = Cat(e, zeros)
  BY <1>1, Empty, CatType DEF Cat
<1>6. /\ s2 = Cat(fam, s3) /\ s3 = Cat(y, s4) /\ s4 = Cat(ql, s5) /\ s5 = Cat(qual, s6) /\ s6 = Cat(z, ts)
      /\ p1 = Cat(p, fl) /\ p2 = Cat(p1, fam) /\ p3 = Cat(p2, y) /\ p4 = Cat(p3, ql)
      /\ p5 = Cat(p4, qual) /\ p6 = Cat(p5, z)
  OBVIOUS
<1>7. /\ Len(e) \in Nat /\ m \in Nat /\ l \in Nat
  BY <1>1, At
<1>8. Terminator(k) = Len(e) + 1
  BY <1>2, <1>4, TerminatorFound
<1> HIDE DEF k, e, p, s1, s2, s3, s4, s5, s6, p1, p2, p3, p4, p5, p6, none, zeros, m, l
<1>9. /\ Len(p) = n /\ n \in Nat /\ n1 \in Nat /\ n2 \in Nat /\ n3 \in Nat /\ n4 \in Nat
      /\ n5 \in Nat /\ n6 \in Nat
  <2>1. Len(p) = Len(e) + Len(zeros)
    BY <1>1, Concat DEF Cat
  <2> QED
    BY <1>1, <1>7, <2>1
<1> HIDE DEF n, n1, n2, n3, n4, n5, n6
<1>10. fl # <<>> /\ y # <<>> /\ z # <<>>
  <2>1. Len(fl) # 0 /\ Len(y) # 0 /\ Len(z) # 0
    BY DEF Sized
  <2> QED
    BY <2>1, Empty
<1>11. k = Cat(p1, s2) /\ k = Cat(p2, s3) /\ k = Cat(p3, s4) /\ k = Cat(p4, s5) /\ k = Cat(p5, s6) /\ k = Cat(p6, ts)
  <2>1. k = Cat(p1, s2)
    BY <1>1, <1>2, <1>4, <1>6, CatAssoc
  <2>2. k = Cat(p2, s3)
    BY <1>2, <1>3, <1>6, <2>1, CatAssoc
  <2>3. k = Cat(p3, s4)
    BY <1>2, <1>3, <1>6, <2>2, CatAssoc
  <2>4. k = Cat(p4, s5)
    BY <1>2, <1>3, <1>6, <2>3, CatAssoc
  <2>5. k = Cat(p5, s6)
    BY <1>2, <1>3, <1>6, <2>4, CatAssoc
  <2>6. k = Cat(p6, ts)
    BY <1>2, <1>3, <1>6, <2>5, CatAssoc
  <2> QED
    BY <2>1, <2>2, <2>3, <2>4, <2>5, <2>6
<1>12. Len(p1) = n1 /\ Len(p2) = n2 /\ Len(p3) = n3 /\ Len(p4) = n4 /\ Len(p5) = n5 /\ Len(p6) = n6
  <2>1. /\ Len(p1) = Len(p) + Len(fl) /\ Len(p2) = Len(p1) + Len(fam) /\ Len(p3) = Len(p2) + Len(y)
    BY <1>1, <1>3, <1>6, CatLen
  <2>2. /\ Len(p4) = Len(p3) + Len(ql) /\ Len(p5) = Len(p4) + Len(qual) /\ Len(p6) = Len(p5) + Len(z)
    BY <1>3, <1>6, CatLen
  <2> QED
    BY <1>9, <2>1, <2>2 DEF n1, n2, n3, n4, n5, n6, m, l, Sized
<1>13. k[n + 1] = fl[1]
  <2> DEFINE i == n + 1
  <2>1. Part(k, p, fl, s2, i, n1)
    BY <1>4, <1>6, <1>9, <1>11, <1>12 DEF Sized, Part, n1
  <2> HIDE DEF i
  <2>2. k[i] = fl[1]
    BY <1>1, <1>2, <1>3, <1>10, <2>1, PartFirst
  <2> QED
    BY <2>2 DEF i
<1>14. Slice(k, n1 + 1, n2) = fam
  <2> DEFINE i == n1 + 1
  <2>1. Part(k, p1, fam, s3, i, n2)
    BY <1>4, <1>6, <1>9, <1>11, <1>12 DEF Sized, Part, n2, m
  <2> HIDE DEF i
  <2>2. Slice(k, i, n2) = fam
    BY <1>1, <1>2, <1>3, <1>10, <2>1, PartSlice
  <2> QED
    BY <2>2 DEF i
<1>15. k[n2 + 1] = y[1]
  <2> DEFINE i == n2 + 1
  <2>1. Part(k, p2, y, s4, i, n3)
    BY <1>4, <1>6, <1>9, <1>11, <1>12 DEF Sized, Part, n3
  <2> HIDE DEF i
  <2>2. k[i] = y[1]
    BY <1>1, <1>2, <1>3, <1>10, <2>1, PartFirst
  <2> QED
    BY <2>2 DEF i
<1>16. Slice(k, n3 + 1, n4) = ql
  <2> DEFINE i == n3 + 1
  <2>1. Part(k, p3, ql, s5, i, n4)
    BY <1>4, <1>6, <1>9, <1>11, <1>12 DEF Sized, Part, n4
  <2> HIDE DEF i
  <2>2. Slice(k, i, n4) = ql
    BY <1>1, <1>2, <1>3, <1>10, <2>1, PartSlice
  <2> QED
    BY <2>2 DEF i
<1>17. Slice(k, n4 + 1, n5) = qual
  <2> DEFINE i == n4 + 1
  <2>1. Part(k, p4, qual, s6, i, n5)
    BY <1>4, <1>6, <1>9, <1>11, <1>12 DEF Sized, Part, n5, l
  <2> HIDE DEF i
  <2>2. Slice(k, i, n5) = qual
    BY <1>1, <1>2, <1>3, <1>10, <2>1, PartSlice
  <2> QED
    BY <2>2 DEF i
<1>18. k[n5 + 1] = z[1]
  <2> DEFINE i == n5 + 1
  <2>1. Part(k, p5, z, ts, i, n6)
    BY <1>4, <1>6, <1>9, <1>11, <1>12 DEF Sized, Part, n6
  <2> HIDE DEF i
  <2>2. k[i] = z[1]
    BY <1>1, <1>2, <1>3, <1>10, <2>1, PartFirst
  <2> QED
    BY <2>2 DEF i
<1>19. Len(k) = n6 + 2 /\ Slice(k, n6 + 1, n6 + 2) = ts
  <2> DEFINE i == n6 + 1
             j == n6 + 2
  <2>1. Part(k, p6, ts, none, i, j)
    BY <1>5, <1>11, <1>12 DEF Sized, Part
  <2> HIDE DEF i, j
  <2>2. Len(k) = Len(p6) + Len(ts)
    BY <1>3, <1>11, CatLen
  <2>3. Slice(k, i, j) = ts
    BY <1>3, <1>5, <2>1, PartSlice
  <2> QED
    BY <1>12, <2>2, <2>3 DEF i, j, Sized
<1>20. Slice(k, 1, n - 2) = e
  <2> DEFINE rest == Cat(zeros, Cat(fl, s2))
  <2>1. k = Cat(e, rest) /\ rest \in Keys
    BY <1>1, <1>2, <1>4, CatType, CatAssoc
  <2> HIDE DEF rest
  <2> DEFINE i == 1
             j == n - 2
  <2>2. Part(k, none, e, rest, i, j)
    <3>1. Cat(none, Cat(e, rest)) = Cat(e, rest)
      BY <1>1, <2>1, CatType, Empty DEF Cat, none
    <3> QED
      BY <1>5, <1>7, <2>1, <3>1 DEF Sized, Part, n
  <2> HIDE DEF i, j
  <2>3. Slice(k, i, j) = e
    BY <1>1, <1>5, <2>1, <2>2, PartSlice
  <2> QED
    BY <2>3 DEF i, j
<1>21. Terminator(k) = n - 1 /\ n >= 2
  BY <1>7, <1>8 DEF n
<1>22. /\ n1 = n + 1 /\ n2 = n + m + 1 /\ n3 = n + m + 2 /\ n4 = n + m + 4
       /\ n5 = n + m + l + 4 /\ n6 = n + m + l + 5
  BY <1>7, <1>9 DEF n1, n2, n3, n4, n5, n6
<1>23. /\ n1 + 1 = n + 2 /\ n2 = n + 1 + m /\ n2 + 1 = n + m + 2
       /\ n3 + 1 = n + m + 3 /\ n4 = n + m + 4
       /\ n4 + 1 = n + m + 5 /\ n5 = n + m + 4 + l /\ n5 + 1 = n + m + l + 5
       /\ n6 + 1 = n + m + l + 6 /\ n6 + 2 = n + m + l + 7
  BY <1>7, <1>9, <1>22
<1>24. k \in Keys
  BY <1>3, <1>11, CatType
<1>25. /\ n \in Nat /\ n >= 2 /\ m \in Nat /\ l \in Nat
       /\ k \in Keys /\ Len(k) = n + m + l + 7
       /\ Terminator(k) = n - 1 /\ Slice(k, 1, n - 2) = e
       /\ k[n + 1] = fl[1] /\ Slice(k, n + 2, n + 1 + m) = fam
       /\ k[n + m + 2] = y[1]
       /\ Slice(k, n + m + 3, n + m + 4) = ql
       /\ Slice(k, n + m + 5, n + m + 4 + l) = qual
       /\ k[n + m + l + 5] = z[1]
       /\ Slice(k, n + m + l + 6, n + m + l + 7) = ts
  BY <1>7, <1>9, <1>13, <1>14, <1>15, <1>16, <1>17, <1>18, <1>19, <1>20, <1>21, <1>23, <1>24
<1> QED
  BY <1>25 DEF LaidOut, k, e, n, m, l

\* Decode, with the positions it computes given names.
DecodeAt(key, t, f, famEnd, q, qualEnd) ==
  IF /\ t # 0 /\ f <= Len(key)
     /\ famEnd <= Len(key) /\ key[famEnd] = 0
     /\ q + 1 <= Len(key)
     /\ qualEnd <= Len(key) /\ key[qualEnd] = 0
     /\ qualEnd + 2 = Len(key)
  THEN {Cell([row |-> Unescape(Slice(key, 1, t - 1)),
              family |-> Slice(key, f + 1, famEnd - 1),
              qualifier |-> Slice(key, q + 2, qualEnd - 1)],
             timestampFromInverted(FromTwoBytes(Slice(key, qualEnd + 1, Len(key)))))}
  ELSE {}

\* Decode is DecodeAt at the positions that it computes.
LEMMA DecodeIs ==
  ASSUME NEW key, NEW t, NEW f, NEW famEnd, NEW q, NEW qualEnd,
         t = Terminator(key), f = t + 2, famEnd = f + 1 + key[f], q = famEnd + 1,
         qualEnd = q + 2 + FromTwoBytes(Slice(key, q, q + 1))
  PROVE  Decode(key) = DecodeAt(key, t, f, famEnd, q, qualEnd)
BY DEF Decode, DecodeAt, Slice

\* The parts hold what Decode looks for.
Filled(row, fl, fam, y, ql, qual, z, ts) ==
  /\ row \in Keys /\ Sized(fl, y, ql, z, ts)
  /\ fl[1] = Len(fam) /\ y[1] = 0 /\ FromTwoBytes(ql) = Len(qual) /\ z[1] = 0

\* The cell that those parts name.
Named(row, fam, qual, ts) ==
  Cell([row |-> row, family |-> fam, qualifier |-> qual],
       timestampFromInverted(FromTwoBytes(ts)))

Decodes(key, x) == Decode(key) = {x}

\* Decode of a key made of such parts.
LEMMA DecodeLayout ==
  ASSUME NEW row \in Keys, NEW fl \in Keys, NEW fam \in Keys, NEW y \in Keys, NEW ql \in Keys,
         NEW qual \in Keys, NEW z \in Keys, NEW ts \in Keys, Filled(row, fl, fam, y, ql, qual, z, ts)
  PROVE  Decodes(Layout(row, fl, fam, y, ql, qual, z, ts), Named(row, fam, qual, ts))
<1> DEFINE k == Layout(row, fl, fam, y, ql, qual, z, ts)
           n == Len(Escape(row)) + 2
           m == Len(fam)
           l == Len(qual)
<1>1. Sized(fl, y, ql, z, ts)
  BY DEF Filled
<1>2. fl[1] = m /\ y[1] = 0 /\ FromTwoBytes(ql) = l /\ z[1] = 0
  BY DEF Filled
<1>3. /\ n \in Nat /\ n >= 2 /\ m \in Nat /\ l \in Nat
      /\ k \in Keys /\ Len(k) = n + m + l + 7
      /\ Terminator(k) = n - 1 /\ Slice(k, 1, n - 2) = Escape(row)
      /\ k[n + 1] = m /\ Slice(k, n + 2, n + 1 + m) = fam
      /\ k[n + m + 2] = 0
      /\ Slice(k, n + m + 3, n + m + 4) = ql
      /\ Slice(k, n + m + 5, n + m + 4 + l) = qual
      /\ k[n + m + l + 5] = 0
      /\ Slice(k, n + m + l + 6, n + m + l + 7) = ts
  <2>1. /\ n \in Nat /\ n >= 2 /\ m \in Nat /\ l \in Nat
        /\ k \in Keys /\ Len(k) = n + m + l + 7
        /\ Terminator(k) = n - 1 /\ Slice(k, 1, n - 2) = Escape(row)
        /\ k[n + 1] = fl[1] /\ Slice(k, n + 2, n + 1 + m) = fam
        /\ k[n + m + 2] = y[1]
        /\ Slice(k, n + m + 3, n + m + 4) = ql
        /\ Slice(k, n + m + 5, n + m + 4 + l) = qual
        /\ k[n + m + l + 5] = z[1]
        /\ Slice(k, n + m + l + 6, n + m + l + 7) = ts
    <3>1. LaidOut(Layout(row, fl, fam, y, ql, qual, z, ts), row, fl, fam, y, ql, qual, z, ts)
      BY <1>1, LayoutFacts
    <3> QED
      BY <3>1 DEF LaidOut
  <2> HIDE DEF k, n, m, l
  <2> QED
    BY <1>2, <2>1
<1> HIDE DEF k, n, m, l
<1> DEFINE t == n - 1
           f == n + 1
           famEnd == n + m + 2
           q == n + m + 3
           qualEnd == n + m + l + 5
<1>4. /\ t = Terminator(k) /\ f = t + 2 /\ famEnd = f + 1 + k[f] /\ q = famEnd + 1
      /\ qualEnd = q + 2 + FromTwoBytes(Slice(k, q, q + 1))
  <2>1. q + 1 = n + m + 4 /\ f = n + 1 /\ q = n + m + 3
    BY <1>3
  <2>2. FromTwoBytes(Slice(k, q, q + 1)) = l
    BY <1>2, <1>3, <2>1
  <2> QED
    BY <1>3, <2>1, <2>2
<1>5. Decode(k) = DecodeAt(k, t, f, famEnd, q, qualEnd)
  <2> HIDE DEF t, f, famEnd, q, qualEnd
  <2> QED
    BY <1>4, DecodeIs
<1>6. /\ t # 0 /\ f <= Len(k) /\ famEnd <= Len(k) /\ q + 1 <= Len(k)
      /\ qualEnd <= Len(k) /\ qualEnd + 2 = Len(k)
  BY <1>3
<1>7. k[famEnd] = 0 /\ k[qualEnd] = 0
  BY <1>3
<1>8. /\ t - 1 = n - 2 /\ f + 1 = n + 2 /\ famEnd - 1 = n + 1 + m /\ q + 2 = n + m + 5
      /\ qualEnd - 1 = n + m + 4 + l /\ qualEnd + 1 = n + m + l + 6
  BY <1>3
<1>9. /\ Slice(k, 1, t - 1) = Escape(row) /\ Slice(k, f + 1, famEnd - 1) = fam
      /\ Slice(k, q + 2, qualEnd - 1) = qual /\ Slice(k, qualEnd + 1, Len(k)) = ts
  BY <1>3, <1>8
<1>10. Unescape(Escape(row)) = row
  BY UnescapeEscape
<1> HIDE DEF t, f, famEnd, q, qualEnd
<1>11. Decode(k) = {Cell([row |-> row, family |-> fam, qualifier |-> qual],
                         timestampFromInverted(FromTwoBytes(ts)))}
  BY <1>5, <1>6, <1>7, <1>9, <1>10 DEF DecodeAt
<1> QED
  BY <1>11 DEF k, Named, Decodes

\* A cell's key in its parts.
LEMMA KeyLayout ==
  ASSUME NEW x \in Cells
  PROVE  LET c == x.column
         IN Key(x) = Layout(c.row, <<Len(c.family)>>, c.family, <<0>>, TwoBytes(Len(c.qualifier)),
                            c.qualifier, <<0>>, TwoBytes(invertedTimestamp(x.ts)))
<1> DEFINE c == x.column
           fl == <<Len(c.family)>>
           ql == TwoBytes(Len(c.qualifier))
           z == <<0>>
           t == TwoBytes(invertedTimestamp(x.ts))
<1>1. /\ c.row \in Keys /\ c.family \in Keys /\ c.qualifier \in Keys
      /\ Len(c.family) <= MaxByte /\ Len(c.qualifier) < Width
  BY CellFacts, FitsFacts
<1>2. fl \in Keys /\ ql \in Keys /\ t \in Keys /\ z \in Keys
  BY <1>1, FamilyFieldFacts, QualifierFieldFacts, CellFacts, ByteFacts, One
<1>3. /\ Key(x) = Cat(RowPrefix(c.row), Cat(FamilyField(c.family), Cat(QualifierField(c.qualifier), t)))
      /\ QualifierField(c.qualifier) \in Keys
  BY KeyForms
<1>4. \A u \in Keys : Cat(QualifierField(c.qualifier), u) = Cat(ql, Cat(c.qualifier, Cat(z, u)))
  BY <1>1, <1>2, FieldType DEF QualifierField
<1>5. \A u \in Keys : Cat(FamilyField(c.family), u) = Cat(fl, Cat(c.family, Cat(z, u)))
  BY <1>1, <1>2, FieldType DEF FamilyField
<1> HIDE DEF fl, ql, z, t
<1>6. Cat(QualifierField(c.qualifier), t) \in Keys
  BY <1>2, <1>3, CatType
<1>7. Key(x) = Layout(c.row, fl, c.family, z, ql, c.qualifier, z, t)
  BY <1>2, <1>3, <1>4, <1>5, <1>6 DEF Layout
<1> QED
  BY <1>7 DEF fl, ql, z, t

\* Decode of a cell's key gives the cell.
LEMMA DecodeKey ==
  ASSUME NEW x \in Cells
  PROVE  Decode(Key(x)) = {x}
<1> DEFINE c == x.column
           fl == <<Len(c.family)>>
           ql == TwoBytes(Len(c.qualifier))
           z == <<0>>
           n == invertedTimestamp(x.ts)
           t == TwoBytes(n)
<1>1. /\ c.row \in Keys /\ c.family \in Keys /\ c.qualifier \in Keys
      /\ Len(c.family) <= MaxByte /\ Len(c.qualifier) < Width
  BY CellFacts, FitsFacts
<1>2. Len(c.family) \in Bytes /\ Len(c.qualifier) \in 0..(Width - 1) /\ n \in 0..(Width - 1)
  BY <1>1, FamilyFieldFacts, QualifierFieldFacts, CellFacts
<1>3. /\ fl \in Keys /\ Len(fl) = 1 /\ fl[1] = Len(c.family)
      /\ z \in Keys /\ Len(z) = 1 /\ z[1] = 0
  BY <1>2, ByteFacts, One
<1>4. /\ ql \in Keys /\ Len(ql) = 2 /\ FromTwoBytes(ql) = Len(c.qualifier)
      /\ t \in Keys /\ Len(t) = 2 /\ FromTwoBytes(t) = n
  BY <1>2, TwoBytesFacts
<1>5. Key(x) = Layout(c.row, fl, c.family, z, ql, c.qualifier, z, t)
  BY KeyLayout
<1> HIDE DEF fl, ql, z, t
<1>6. Filled(c.row, fl, c.family, z, ql, c.qualifier, z, t)
  BY <1>1, <1>3, <1>4 DEF Filled, Sized
<1>7. Decode(Key(x)) = {Cell([row |-> c.row, family |-> c.family, qualifier |-> c.qualifier],
                             timestampFromInverted(FromTwoBytes(t)))}
  <2> DEFINE row == c.row
             fam == c.family
             qual == c.qualifier
  <2>1. row \in Keys /\ fam \in Keys /\ qual \in Keys /\ Filled(row, fl, fam, z, ql, qual, z, t)
    BY <1>1, <1>6
  <2>2. fl \in Keys /\ z \in Keys /\ ql \in Keys /\ t \in Keys
    BY <1>3, <1>4
  <2> HIDE DEF row, fam, qual
  <2>3. Decodes(Layout(row, fl, fam, z, ql, qual, z, t), Named(row, fam, qual, t))
    BY <2>1, <2>2, DecodeLayout
  <2> QED
    BY <1>5, <2>3 DEF row, fam, qual, Named, Decodes
<1>8. timestampFromInverted(n) = x.ts
  BY CellFacts, Inverted
<1>9. Cell([row |-> c.row, family |-> c.family, qualifier |-> c.qualifier], x.ts) = x
  BY DEF Cell, Cells, Cols
<1> QED
  BY <1>4, <1>7, <1>8, <1>9

\* Two bytes cut out of a key.
LEMMA SliceTwo ==
  ASSUME NEW k \in Keys, NEW q \in Nat, q >= 1, q + 1 <= Len(k)
  PROVE  Slice(k, q, q + 1) \in Keys /\ Len(Slice(k, q, q + 1)) = 2
<1> DEFINE r == q + 1
<1>1. \A i \in q..r : k[i] \in Bytes
  BY At
<1>2. q \in Int /\ r \in Int
  OBVIOUS
<1>3. r = q + 1
  OBVIOUS
<1> HIDE DEF r
<1>4. SubSeq(k, q, r) \in Seq(Bytes) /\ Len(SubSeq(k, q, r)) = IF q <= r THEN r - q + 1 ELSE 0
  BY <1>1, <1>2, SubSeqProperties
<1>5. Len(SubSeq(k, q, r)) = 2
  BY <1>2, <1>3, <1>4
<1> QED
  BY <1>4, <1>5 DEF Slice, Keys, r

\* A key of one byte is that byte.
LEMMA SameOne ==
  ASSUME NEW s \in Keys, Len(s) = 1
  PROVE  s = <<s[1]>>
<1>1. s[1] \in Bytes
  BY At
<1>2. <<s[1]>> \in Keys /\ Len(<<s[1]>>) = 1 /\ <<s[1]>>[1] = s[1]
  BY <1>1, One
<1> DEFINE t == <<s[1]>>
<1> HIDE DEF t
<1>3. t \in Keys /\ Len(t) = 1 /\ t[1] = s[1]
  BY <1>2 DEF t
<1>4. s = t
  BY <1>3, Same
<1> QED
  BY <1>4 DEF t

\* A key that Decode accepts is the key of the cell that it gives.
LEMMA DecodeParts ==
  ASSUME NEW k \in Keys, Decode(k) # {}
  PROVE  \E row, fl, fam, y, ql, qual, z, ts \in Keys :
           /\ Filled(row, fl, fam, y, ql, qual, z, ts) /\ Len(fam) <= MaxByte /\ Len(qual) < Width
           /\ k = Layout(row, fl, fam, y, ql, qual, z, ts)
<1> DEFINE t == Terminator(k)
           f == t + 2
           m == k[f]
           famEnd == f + 1 + m
           q == famEnd + 1
           l == FromTwoBytes(Slice(k, q, q + 1))
           qualEnd == q + 2 + l
<1>1. Decode(k) = DecodeAt(k, t, f, famEnd, q, qualEnd)
  BY DecodeIs
<1>2. /\ t # 0 /\ f <= Len(k)
      /\ famEnd <= Len(k) /\ k[famEnd] = 0
      /\ q + 1 <= Len(k)
      /\ qualEnd <= Len(k) /\ k[qualEnd] = 0
      /\ qualEnd + 2 = Len(k)
  <2> HIDE DEF t, f, famEnd, q, qualEnd
  <2> QED
    BY <1>1 DEF DecodeAt
<1>3. PICK row \in Keys, u \in Keys : k = Cat(RowPrefix(row), u) /\ t = Len(Escape(row)) + 1
  BY <1>2, TerminatorMeans
<1> DEFINE n == Len(Escape(row)) + 2
<1>4. Len(Escape(row)) \in Nat /\ Len(k) \in Nat /\ Len(u) \in Nat /\ RowPrefix(row) \in Keys
  BY EscapeType, RowPrefixType, At
<1>5. Len(k) = n + Len(u)
  <2>1. Len(Cat(RowPrefix(row), u)) = Len(RowPrefix(row)) + Len(u)
    BY <1>4, CatLen
  <2>2. Len(RowPrefix(row)) = Len(Escape(row)) + Len(<<0, 0>>)
    BY EscapeType, Zeros, Concat DEF RowPrefix
  <2>3. Len(<<0, 0>>) = 2
    BY Zeros
  <2> QED
    BY <1>3, <1>4, <2>1, <2>2, <2>3
<1>6. n \in Nat /\ n >= 2 /\ f = n + 1 /\ t = n - 1
  BY <1>3, <1>4
<1> HIDE DEF n, t
<1>7. m \in Bytes /\ m \in Nat /\ m <= MaxByte
  <2> HIDE DEF f
  <2>1. f \in 1..Len(k)
    BY <1>2, <1>4, <1>6
  <2> QED
    BY <2>1, At, ByteFacts
<1>8. q = n + m + 3 /\ famEnd = n + m + 2
  <2> HIDE DEF m
  <2> QED
    BY <1>6, <1>7
<1>9. l \in 0..(Width - 1)
  <2> HIDE DEF q, m
  <2>1. q \in Nat /\ q >= 1 /\ q + 1 <= Len(k)
    BY <1>2, <1>6, <1>7, <1>8
  <2> QED
    BY <2>1, SliceTwo, FromTwoBytesFacts
<1>10. l \in Nat /\ l < Width
  BY <1>9, BaseFacts
<1>11. qualEnd = n + m + l + 5 /\ Len(u) = m + l + 7
  <2> HIDE DEF l, q, m, famEnd
  <2> QED
    BY <1>2, <1>4, <1>5, <1>6, <1>7, <1>8, <1>10
<1>12. /\ k[n + 1] = m /\ k[n + m + 2] = 0 /\ k[n + m + l + 5] = 0
       /\ FromTwoBytes(Slice(k, n + m + 3, n + m + 4)) = l
  <2>1. k[f] = m /\ k[famEnd] = 0 /\ k[qualEnd] = 0 /\ FromTwoBytes(Slice(k, q, q + 1)) = l
    BY <1>2
  <2> HIDE DEF f, m, famEnd, q, l, qualEnd
  <2>2. q + 1 = n + m + 4
    BY <1>6, <1>7, <1>8
  <2> QED
    BY <1>6, <1>8, <1>11, <2>1, <2>2
<1> HIDE DEF f, m, famEnd, q, l, qualEnd
<1>13. PICK fl \in Keys, u1 \in Keys : u = Cat(fl, u1) /\ Len(fl) = 1 /\ Len(u) = 1 + Len(u1)
  <2>1. 1 <= Len(u) /\ 1 \in Nat
    BY <1>7, <1>10, <1>11
  <2> QED
    BY <2>1, SplitAt
<1>14. Len(u1) \in Nat /\ Len(u1) = m + l + 6
  BY <1>7, <1>10, <1>11, <1>13, At
<1>15. PICK fam \in Keys, u2 \in Keys : u1 = Cat(fam, u2) /\ Len(fam) = m /\ Len(u1) = m + Len(u2)
  <2>1. m <= Len(u1)
    BY <1>7, <1>10, <1>14
  <2> QED
    BY <1>7, <2>1, SplitAt
<1>16. Len(u2) \in Nat /\ Len(u2) = l + 6
  BY <1>7, <1>10, <1>14, <1>15, At
<1>17. PICK y \in Keys, u3 \in Keys : u2 = Cat(y, u3) /\ Len(y) = 1 /\ Len(u2) = 1 + Len(u3)
  <2>1. 1 <= Len(u2) /\ 1 \in Nat
    BY <1>10, <1>16
  <2> QED
    BY <2>1, SplitAt
<1>18. Len(u3) \in Nat /\ Len(u3) = l + 5
  BY <1>10, <1>16, <1>17, At
<1>19. PICK ql \in Keys, u4 \in Keys : u3 = Cat(ql, u4) /\ Len(ql) = 2 /\ Len(u3) = 2 + Len(u4)
  <2>1. 2 <= Len(u3) /\ 2 \in Nat
    BY <1>10, <1>18
  <2> QED
    BY <2>1, SplitAt
<1>20. Len(u4) \in Nat /\ Len(u4) = l + 3
  BY <1>10, <1>18, <1>19, At
<1>21. PICK qual \in Keys, u5 \in Keys : u4 = Cat(qual, u5) /\ Len(qual) = l /\ Len(u4) = l + Len(u5)
  <2>1. l <= Len(u4)
    BY <1>10, <1>20
  <2> QED
    BY <1>10, <2>1, SplitAt
<1>22. Len(u5) \in Nat /\ Len(u5) = 3
  <2>1. Len(u5) \in Nat
    BY At
  <2> DEFINE size == Len(u5)
  <2>2. size \in Nat /\ l + 3 = l + size
    BY <1>20, <1>21, <2>1
  <2> HIDE DEF size
  <2>3. size = 3
    BY <1>10, <2>2
  <2> QED
    BY <2>2, <2>3 DEF size
<1>23. PICK z \in Keys, ts \in Keys : u5 = Cat(z, ts) /\ Len(z) = 1 /\ Len(u5) = 1 + Len(ts)
  <2>1. 1 <= Len(u5) /\ 1 \in Nat
    BY <1>22
  <2> QED
    BY <2>1, SplitAt
<1>24. Len(ts) = 2
  <2>1. Len(ts) \in Nat
    BY At
  <2> QED
    <3> DEFINE size == Len(ts)
    <3>1. size \in Nat /\ 3 = 1 + size
      BY <1>22, <1>23, <2>1
    <3> HIDE DEF size
    <3>2. size = 2
      BY <3>1
    <3> QED
      BY <3>2 DEF size
<1>25. k = Layout(row, fl, fam, y, ql, qual, z, ts)
  BY <1>3, <1>13, <1>15, <1>17, <1>19, <1>21, <1>23 DEF Layout
<1>26. Sized(fl, y, ql, z, ts)
  BY <1>13, <1>17, <1>19, <1>23, <1>24 DEF Sized
<1>27. LaidOut(k, row, fl, fam, y, ql, qual, z, ts)
  BY <1>25, <1>26, LayoutFacts
<1>28. /\ k[n + 1] = fl[1] /\ k[n + m + 2] = y[1] /\ k[n + m + l + 5] = z[1]
       /\ Slice(k, n + m + 3, n + m + 4) = ql
  BY <1>15, <1>21, <1>27 DEF LaidOut, n
<1>29. Filled(row, fl, fam, y, ql, qual, z, ts)
  BY <1>12, <1>15, <1>21, <1>26, <1>28 DEF Filled
<1> QED
  BY <1>7, <1>10, <1>15, <1>21, <1>25, <1>29

\* A key that Decode accepts is the key of the cell that it gives, which fits.
LEMMA DecodeMeans ==
  ASSUME NEW k \in Keys, NEW x \in Decode(k)
  PROVE  x \in Cells /\ k = Key(x)
<1>1. PICK row, fl, fam, y, ql, qual, z, ts \in Keys :
         /\ Filled(row, fl, fam, y, ql, qual, z, ts) /\ Len(fam) <= MaxByte /\ Len(qual) < Width
         /\ k = Layout(row, fl, fam, y, ql, qual, z, ts)
  BY DecodeParts
<1> DEFINE c == [row |-> row, family |-> fam, qualifier |-> qual]
           inv == FromTwoBytes(ts)
           stamp == timestampFromInverted(inv)
<1>2. x = Cell(c, stamp)
  <2>1. Decode(Layout(row, fl, fam, y, ql, qual, z, ts)) = {Cell(c, stamp)}
    <3>1. Filled(row, fl, fam, y, ql, qual, z, ts)
      BY <1>1
    <3>2. Decodes(Layout(row, fl, fam, y, ql, qual, z, ts), Named(row, fam, qual, ts))
      BY <3>1, DecodeLayout
    <3> QED
      BY <3>2 DEF Named, Decodes
  <2> QED
    BY <1>1, <2>1
<1>3. /\ Sized(fl, y, ql, z, ts)
      /\ fl[1] = Len(fam) /\ y[1] = 0 /\ FromTwoBytes(ql) = Len(qual) /\ z[1] = 0
  BY <1>1 DEF Filled
<1>4. Len(fl) = 1 /\ Len(y) = 1 /\ Len(ql) = 2 /\ Len(z) = 1 /\ Len(ts) = 2
  BY <1>3 DEF Sized
<1>5. inv \in 0..(Width - 1) /\ TwoBytes(inv) = ts /\ TwoBytes(Len(qual)) = ql
  <2>1. TwoBytes(FromTwoBytes(ql)) = ql
    BY <1>4, FromTwoBytesFacts
  <2> QED
    BY <1>3, <1>4, <2>1, FromTwoBytesFacts
<1>6. stamp \in Timestamps /\ invertedTimestamp(stamp) = inv
  BY <1>5, InvertedOnto
<1>7. fl = <<Len(fam)>> /\ y = <<0>> /\ z = <<0>>
  BY <1>3, <1>4, SameOne
<1> HIDE DEF stamp, inv
<1>8. x.column = c /\ x.ts = stamp /\ x = [column |-> c, ts |-> stamp]
  BY <1>2 DEF Cell
<1>9. Fits(c) /\ c \in Cols
  <2>1. c \in Cols /\ c.family = fam /\ c.qualifier = qual
    BY DEF Cols
  <2>2. ~TooLong(fam, qual)
    <3>1. Len(fam) \in Nat /\ Len(qual) \in Nat
      BY At
    <3> QED
      BY <1>1, <3>1, BaseFacts, ByteFacts DEF TooLong
  <2> QED
    BY <2>1, <2>2 DEF Fits
<1>10. x \in Cells
  BY <1>6, <1>8, <1>9 DEF Cells
<1>11. Key(x) = Layout(row, <<Len(fam)>>, fam, <<0>>, TwoBytes(Len(qual)), qual, <<0>>,
                       TwoBytes(invertedTimestamp(stamp)))
  BY <1>8, <1>10, KeyLayout
<1>12. TwoBytes(invertedTimestamp(stamp)) = ts
  BY <1>5, <1>6
<1>13. Key(x) = Layout(row, fl, fam, y, ql, qual, z, ts)
  BY <1>5, <1>7, <1>11, <1>12
<1> QED
  BY <1>1, <1>10, <1>13

\* The cells that a set of keys decodes to are the cells whose key is in it.
LEMMA DecodedIs ==
  ASSUME NEW K \in SUBSET Keys
  PROVE  \A x : x \in Decoded(K) <=> x \in Cells /\ Key(x) \in K
<1>1. ASSUME NEW x, x \in Decoded(K) PROVE x \in Cells /\ Key(x) \in K
  <2>1. PICK k \in K : x \in Decode(k)
    BY <1>1 DEF Decoded
  <2> QED
    BY <2>1, DecodeMeans
<1>2. ASSUME NEW x \in Cells, Key(x) \in K PROVE x \in Decoded(K)
  BY <1>2, DecodeKey DEF Decoded
<1> QED
  BY <1>1, <1>2
-----------------------------------------------------------------------------
(* The mutations. *)

\* The inductive invariant: Pebble holds byte strings, the table cells of named columns,
\* and unless the last call went astray the strings decode to the table.
Inv == db \subseteq Keys /\ TypeOK /\ CellsExact

\* Cells of any names, those that do not fit included.
AnyCells == [column : Cols, ts : Timestamps]

LEMMA CellsAny == Cells \subseteq AnyCells
BY DEF Cells, AnyCells, Fits

\* What a call may expect keeps the invariant, if the call goes astray or leaves just that.
LEMMA Expected ==
  ASSUME Inv, NEW K \in SUBSET Keys, db' = K, NEW T \in SUBSET AnyCells,
         NEW reason \in {"no", "name", "end"}, Expect(T, reason),
         reason = "no" => Decoded(K) = T
  PROVE  Inv'
<1>1. table' = T /\ stray' = reason
  BY DEF Expect
<1>2. TypeOK'
  BY <1>1 DEF TypeOK, AnyCells, Cols, Keys
<1>3. CellsExact'
  BY <1>1 DEF CellsExact, Decoded
<1> QED
  BY <1>2, <1>3 DEF Inv

\* What the calls name.
LEMMA Stamped ==
  /\ Columns \subseteq Cols /\ Stamps \subseteq Timestamps /\ Clock \subseteq Timestamps
  /\ \A range \in TimeRanges : range[1] \in Timestamps /\ range[2] \in Timestamps
  /\ \A c \in Columns : Fits(c) <=> ~TooLong(c.family, c.qualifier)
<1>1. Columns \subseteq Cols
  BY KeysAssumption DEF Cols, Keys
<1>2. Stamps \subseteq Timestamps /\ Clock \subseteq Timestamps
  BY KeysAssumption, BaseFacts DEF Timestamps
<1>3. \A range \in TimeRanges : range[1] \in Timestamps /\ range[2] \in Timestamps
  BY KeysAssumption
<1> QED
  BY <1>1, <1>2, <1>3 DEF Fits

\* Even a column whose names do not fit has a prefix that is a byte string.
LEMMA ColumnPrefixType ==
  ASSUME NEW c \in Cols
  PROVE  ColumnPrefix(c) \in Keys
<1> DEFINE p == FamilyPrefix(RowPrefix(c.row), c.family)
           q == c.qualifier
           l == TwoBytes(Len(q))
           z == <<0>>
<1>1. c.row \in Keys /\ c.family \in Keys /\ q \in Keys
  BY DEF Cols
<1>2. Len(c.family) \in Nat /\ Len(q) \in Nat
  BY <1>1, At
<1>3. p \in Keys
  <2>1. CASE Len(c.family) > MaxByte
    BY <2>1, Empty DEF FamilyPrefix
  <2>2. CASE Len(c.family) <= MaxByte
    BY <1>1, <2>2, FamilyPrefixIs
  <2> QED
    BY <1>2, <2>1, <2>2, ByteFacts
<1>4. CASE Len(q) >= Width
  BY <1>4, Empty DEF ColumnPrefix, QualifierPrefix
<1>5. CASE Len(q) < Width
  <2>1. l \in Keys /\ z \in Keys
    BY <1>1, <1>5, QualifierFieldFacts, ByteFacts, One
  <2>2. ColumnPrefix(c) = p \o l \o q \o z
    <3>1. ~(Len(q) >= Width)
      BY <1>2, <1>5, BaseFacts
    <3>2. ColumnPrefix(c) = QualifierPrefix(p, q)
      BY DEF ColumnPrefix
    <3> HIDE DEF p, q
    <3> QED
      BY <3>1, <3>2 DEF QualifierPrefix
  <2> HIDE DEF p, q, l, z
  <2>3. p \o l \in Keys
    BY <1>3, <2>1, Concat
  <2>4. p \o l \o q \in Keys
    BY <1>1, <2>3, Concat
  <2>5. p \o l \o q \o z \in Keys
    BY <2>1, <2>4, Concat
  <2> QED
    BY <2>2, <2>5
<1> QED
  BY <1>2, <1>4, <1>5, BaseFacts

\* So has every cell a key that is a byte string.
LEMMA KeyType ==
  ASSUME NEW c \in Cols, NEW ts \in Timestamps
  PROVE  EncodeCellKey(c, ts) \in Keys
<1> DEFINE t == TwoBytes(invertedTimestamp(ts))
<1>1. t \in Keys
  BY Inverted, TwoBytesFacts
<1> HIDE DEF t
<1>2. ColumnPrefix(c) \o t \in Keys
  BY <1>1, ColumnPrefixType, Concat
<1> QED
  BY <1>2 DEF EncodeCellKey, t

\* The cell that a call names.
LEMMA CellOf ==
  ASSUME NEW c \in Columns, NEW ts \in Timestamps, ~TooLong(c.family, c.qualifier)
  PROVE  Cell(c, ts) \in Cells /\ Key(Cell(c, ts)) = EncodeCellKey(c, ts)
<1>1. c \in Cols /\ Fits(c)
  BY Stamped
<1>2. Cell(c, ts) = [column |-> c, ts |-> ts]
  BY DEF Cell
<1>3. Cell(c, ts) \in Cells /\ Cell(c, ts).column = c /\ Cell(c, ts).ts = ts
  BY <1>1, <1>2 DEF Cells
<1> QED
  BY <1>3 DEF Key

\* Whether a cell is left when the keys between two bounds are removed.
Outlives(x, start, end) == ~(~Less(Key(x), start) /\ Less(Key(x), end))

\* DeleteRange leaves the cells whose keys are outside its bounds.
LEMMA AfterDelete ==
  ASSUME Inv, NEW start, NEW end, DeleteRange(start, end)
  PROVE  db' \subseteq Keys /\ Decoded(db') = {x \in Decoded(db) : Outlives(x, start, end)}
<1>1. db' = db \ Between(db, start, end)
  BY DEF DeleteRange
<1>2. db \in SUBSET Keys /\ db' \in SUBSET Keys
  BY <1>1 DEF Inv
<1>3. \A x : x \in Decoded(db) <=> x \in Cells /\ Key(x) \in db
  BY <1>2, DecodedIs
<1>4. \A x : x \in Decoded(db') <=> x \in Cells /\ Key(x) \in db'
  BY <1>2, DecodedIs
<1>5. \A x : Key(x) \in db' <=> Key(x) \in db /\ Outlives(x, start, end)
  BY <1>1 DEF Between, Outlives
<1> QED
  BY <1>2, <1>3, <1>4, <1>5

\* What Pebble's keys decode to are cells.
LEMMA StoredCells ==
  ASSUME Inv
  PROVE  Decoded(db) \subseteq Cells /\ Decoded(db) \subseteq AnyCells
<1>1. db \in SUBSET Keys
  BY DEF Inv
<1> QED
  BY <1>1, DecodedIs, CellsAny

\* A deletion that should leave the cells T keeps the invariant.
LEMMA DeleteStep ==
  ASSUME Inv, NEW start, NEW end, DeleteRange(start, end),
         NEW T \in SUBSET Decoded(db), NEW reason \in {"no", "name", "end"}, Expect(T, reason),
         reason = "no" => \A x \in Decoded(db) : Outlives(x, start, end) <=> x \in T
  PROVE  Inv'
<1>1. db' \in SUBSET Keys /\ Decoded(db') = {x \in Decoded(db) : Outlives(x, start, end)}
  BY AfterDelete
<1>2. T \in SUBSET AnyCells
  BY StoredCells
<1>3. reason = "no" => Decoded(db') = T
  BY <1>1
<1> QED
  BY <1>1, <1>2, <1>3, Expected

\* A new key adds the cells that it decodes to.
LEMMA AfterPut ==
  ASSUME Inv, NEW k \in Keys, db' = db \cup {k}
  PROVE  db' \subseteq Keys /\ Decoded(db') = Decoded(db) \cup Decode(k)
BY DEF Inv, Decoded

\* Why a call can go astray.
LEMMA Reasons ==
  ASSUME NEW family, NEW qualifier
  PROVE  /\ Misnamed(family, qualifier) \in {"no", "name", "end"}
         /\ Misnamed(family, qualifier) = "no" <=> ~TooLong(family, qualifier)
BY DEF Misnamed

\* A write of one cell keeps the invariant.
LEMMA PutStep ==
  ASSUME Inv, NEW c \in Columns, NEW ts \in Timestamps, db' = db \cup {EncodeCellKey(c, ts)},
         Expect(Decoded(db) \cup {Cell(c, ts)}, Misnamed(c.family, c.qualifier))
  PROVE  Inv'
<1> DEFINE T == Decoded(db) \cup {Cell(c, ts)}
           K == db \cup {EncodeCellKey(c, ts)}
           why == Misnamed(c.family, c.qualifier)
<1>1. c \in Cols /\ EncodeCellKey(c, ts) \in Keys
  BY Stamped, KeyType
<1>2. db' \subseteq Keys /\ Decoded(db') = Decoded(db) \cup Decode(EncodeCellKey(c, ts))
  BY <1>1, AfterPut
<1>3. why \in {"no", "name", "end"} /\ (why = "no" <=> ~TooLong(c.family, c.qualifier))
  BY Reasons
<1>4. T \in SUBSET AnyCells
  <2>1. Cell(c, ts) \in AnyCells
    BY <1>1 DEF Cell, AnyCells
  <2> QED
    BY <2>1, StoredCells
<1>5. why = "no" => Decoded(db') = T
  <2> SUFFICES ASSUME ~TooLong(c.family, c.qualifier)
               PROVE  Decode(EncodeCellKey(c, ts)) = {Cell(c, ts)}
    BY <1>2, <1>3
  <2> QED
    BY CellOf, DecodeKey
<1>6. Expect(T, why) /\ db' \in SUBSET Keys
  BY <1>2
<1> HIDE DEF T, why
<1> QED
  BY <1>3, <1>4, <1>5, <1>6, Expected

\* applySetCell keeps the invariant.
LEMMA SetCellStep ==
  ASSUME Inv, NEW c \in Columns, NEW ts \in Stamps, SetCell(c, ts)
  PROVE  Inv'
<1>1. PICK now \in Clock :
         LET stamp == IF ts = -1 THEN now ELSE ts
         IN /\ db' = db \cup {EncodeCellKey(c, stamp)}
            /\ Expect(Decoded(db) \cup {Cell(c, stamp)}, "no")
  BY DEF SetCell
<1>2. ~TooLong(c.family, c.qualifier)
  BY DEF SetCell
<1> DEFINE stamp == IF ts = -1 THEN now ELSE ts
<1>3. stamp \in Timestamps
  BY Stamped
<1>4. Misnamed(c.family, c.qualifier) = "no"
  BY <1>2, Reasons
<1>5. /\ db' = db \cup {EncodeCellKey(c, stamp)}
      /\ Expect(Decoded(db) \cup {Cell(c, stamp)}, Misnamed(c.family, c.qualifier))
  BY <1>1, <1>4
<1> HIDE DEF stamp
<1> QED
  BY <1>3, <1>5, PutStep

\* ReadModifyWriteRow keeps the invariant.
LEMMA ReadModifyWriteStep ==
  ASSUME Inv, NEW c \in Columns, ReadModifyWrite(c)
  PROVE  Inv'
<1>1. PICK now \in Clock : /\ db' = db \cup {EncodeCellKey(c, now)}
                           /\ Expect(Decoded(db) \cup {Cell(c, now)},
                                     Misnamed(c.family, c.qualifier))
  BY DEF ReadModifyWrite
<1>2. now \in Timestamps
  BY Stamped
<1> QED
  BY <1>1, <1>2, PutStep

\* applyDeleteFromColumn without a time range keeps the invariant.
LEMMA DeleteFromColumnStep ==
  ASSUME Inv, NEW c \in Columns, DeleteFromColumn(c)
  PROVE  Inv'
<1> DEFINE p == ColumnPrefix(c)
           left == {x \in Decoded(db) : x.column # c \/ TopByte(invertedTimestamp(x.ts))}
           why == Misnamed(c.family, c.qualifier)
<1>1. DeleteRange(p, EndKey(p)) /\ Expect(left, why)
  BY DEF DeleteFromColumn
<1>2. why \in {"no", "name", "end"} /\ (why = "no" <=> ~TooLong(c.family, c.qualifier))
  BY Reasons
<1>3. why = "no" => \A x \in Decoded(db) : Outlives(x, p, EndKey(p)) <=> x \in left
  <2> SUFFICES ASSUME ~TooLong(c.family, c.qualifier), NEW x \in Decoded(db)
               PROVE  Outlives(x, p, EndKey(p))
                        <=> x.column # c \/ TopByte(invertedTimestamp(x.ts))
    BY <1>2
  <2> QED
    BY Stamped, StoredCells, InColumn DEF Outlives
<1>4. left \in SUBSET Decoded(db)
  OBVIOUS
<1> HIDE DEF p, left, why
<1> QED
  BY <1>1, <1>2, <1>3, <1>4, DeleteStep

\* applyDeleteFromColumn with a time range keeps the invariant.
LEMMA DeleteTimeRangeStep ==
  ASSUME Inv, NEW c \in Columns, NEW range \in TimeRanges, DeleteTimeRange(c, range)
  PROVE  Inv'
<1>1. PICK now \in Clock :
         LET end == IF range[2] = 0 THEN now ELSE range[2]
             bounds == TimestampBounds(ColumnPrefix(c), <<range[1], end>>)
         IN /\ DeleteRange(bounds[1], bounds[2])
            /\ Expect({x \in Decoded(db) :
                          x \notin InTimeRange(c, range) \/ x.ts = 0 - MaxInt - 1},
                      IF TooLong(c.family, c.qualifier) THEN "name" ELSE UnsetEnd(c, range, now))
  BY DEF DeleteTimeRange
<1> DEFINE start == range[1]
           end == IF range[2] = 0 THEN now ELSE range[2]
           bounds == TimestampBounds(ColumnPrefix(c), <<start, end>>)
           left == {x \in Decoded(db) : x \notin InTimeRange(c, range) \/ x.ts = 0 - MaxInt - 1}
           why == IF TooLong(c.family, c.qualifier) THEN "name" ELSE UnsetEnd(c, range, now)
<1>2. start \in Timestamps /\ end \in Timestamps
  BY Stamped
<1>3. DeleteRange(bounds[1], bounds[2]) /\ Expect(left, why)
  BY <1>1
<1>4. why \in {"no", "name", "end"}
  BY DEF UnsetEnd
<1>5. ASSUME why = "no", NEW x \in Decoded(db)
      PROVE  Outlives(x, bounds[1], bounds[2]) <=> x \in left
  <2>1. ~TooLong(c.family, c.qualifier) /\ UnsetEnd(c, range, now) = "no"
    BY <1>5
  <2>2. x \in Cells /\ Fits(c)
    BY <2>1, Stamped, StoredCells
  <2>3. x.ts \in Int /\ start \in Int /\ end \in Int /\ now \in Int
    BY <1>2, <2>2, CellFacts, Stamped, BaseFacts DEF Timestamps
  <2>4. x \in InTimeRange(c, range) <=> x.column = c /\ start <= x.ts /\ x.ts < end
    <3>1. CASE range[2] # 0
      BY <3>1 DEF InTimeRange
    <3>2. CASE range[2] = 0
      <4>1. x \in InTimeRange(c, range) => ~(now <= x.ts)
        BY <2>1, <3>2 DEF UnsetEnd
      <4>2. x \in InTimeRange(c, range) <=> x.column = c /\ start <= x.ts
        BY <3>2 DEF InTimeRange
      <4> QED
        BY <2>3, <3>2, <4>1, <4>2
    <3> QED
      BY <3>1, <3>2
  <2> HIDE DEF start, end
  <2>5. Outlives(x, bounds[1], bounds[2])
          <=> ~(/\ x.column = c /\ start <= x.ts /\ x.ts < end /\ x.ts # 0 - MaxInt - 1)
    BY <1>2, <2>2, InTimes DEF Outlives
  <2>6. x \in left <=> x \notin InTimeRange(c, range) \/ x.ts = 0 - MaxInt - 1
    OBVIOUS
  <2> QED
    BY <2>4, <2>5, <2>6
<1>6. left \in SUBSET Decoded(db)
  OBVIOUS
<1> HIDE DEF bounds, left, why
<1> QED
  BY <1>3, <1>4, <1>5, <1>6, DeleteStep

\* applyDeleteFromFamily keeps the invariant.
LEMMA DeleteFromFamilyStep ==
  ASSUME Inv, NEW row \in Keys, NEW family \in Keys, DeleteFromFamily(row, family)
  PROVE  Inv'
<1> DEFINE p == FamilyPrefix(RowPrefix(row), family)
           left == {x \in Decoded(db) : \/ x.column.row # row \/ x.column.family # family
                                        \/ TopByte(Len(x.column.qualifier))}
           why == Misnamed(family, <<>>)
<1>1. DeleteRange(p, EndKey(p)) /\ Expect(left, why)
  BY DEF DeleteFromFamily
<1>2. why \in {"no", "name", "end"} /\ (why = "no" <=> ~TooLong(family, <<>>))
  BY Reasons
<1>3. why = "no" => \A x \in Decoded(db) : Outlives(x, p, EndKey(p)) <=> x \in left
  <2> SUFFICES ASSUME ~TooLong(family, <<>>), NEW x \in Decoded(db)
               PROVE  Outlives(x, p, EndKey(p))
                        <=> \/ x.column.row # row \/ x.column.family # family
                            \/ TopByte(Len(x.column.qualifier))
    BY <1>2
  <2>1. Len(family) <= MaxByte
    BY At, ByteFacts DEF TooLong
  <2> QED
    BY <2>1, StoredCells, InFamily DEF Outlives
<1>4. left \in SUBSET Decoded(db)
  OBVIOUS
<1> HIDE DEF p, left, why
<1> QED
  BY <1>1, <1>2, <1>3, <1>4, DeleteStep

\* applyDeleteFromRow keeps the invariant.
LEMMA DeleteFromRowStep ==
  ASSUME Inv, NEW row \in Keys, DeleteFromRow(row)
  PROVE  Inv'
<1> DEFINE p == RowPrefix(row)
           left == {x \in Decoded(db) : x.column.row # row \/ Len(x.column.family) = MaxByte}
<1>1. DeleteRange(p, EndKey(p)) /\ Expect(left, "no")
  BY DEF DeleteFromRow
<1>2. \A x \in Decoded(db) : Outlives(x, p, EndKey(p)) <=> x \in left
  BY StoredCells, InRow DEF Outlives
<1>3. left \in SUBSET Decoded(db)
  OBVIOUS
<1> HIDE DEF p, left
<1> QED
  BY <1>1, <1>2, <1>3, DeleteStep

\* Every step keeps the invariant.
LEMMA InvStep ==
  ASSUME Inv, [Next]_vars
  PROVE  Inv'
<1>1. ASSUME NEW c \in Columns, NEW ts \in Stamps, SetCell(c, ts) PROVE Inv'
  BY <1>1, SetCellStep
<1>2. ASSUME NEW c \in Columns, DeleteFromColumn(c) PROVE Inv'
  BY <1>2, DeleteFromColumnStep
<1>3. ASSUME NEW c \in Columns, NEW range \in TimeRanges, DeleteTimeRange(c, range) PROVE Inv'
  BY <1>3, DeleteTimeRangeStep
<1>4. ASSUME NEW c \in Columns, ReadModifyWrite(c) PROVE Inv'
  BY <1>4, ReadModifyWriteStep
<1>5. ASSUME NEW f \in {<<c.row, c.family>> : c \in Columns}, DeleteFromFamily(f[1], f[2]) PROVE Inv'
  <2>1. f[1] \in Keys /\ f[2] \in Keys
    BY Stamped DEF Cols
  <2> QED
    BY <1>5, <2>1, DeleteFromFamilyStep
<1>6. ASSUME NEW row \in {c.row : c \in Columns}, DeleteFromRow(row) PROVE Inv'
  <2>1. row \in Keys
    BY Stamped DEF Cols
  <2> QED
    BY <1>6, <2>1, DeleteFromRowStep
<1>7. CASE UNCHANGED vars
  BY <1>7 DEF vars, Inv, TypeOK, CellsExact, Decoded
<1> QED
  BY <1>1, <1>2, <1>3, <1>4, <1>5, <1>6, <1>7 DEF Next

\* Pebble never holds anything but byte strings, which decode to the table unless the last
\* call went astray.
THEOREM InvHolds == Spec => []Inv
<1>1. Init => Inv
  BY DEF Init, Inv, TypeOK, CellsExact, Decoded
<1>2. Inv /\ [Next]_vars => Inv'
  BY InvStep
<1> QED
  BY <1>1, <1>2, PTL DEF Spec

\* Type correctness: byte strings in Pebble, and cells of byte strings and timestamps.
THEOREM TypeHolds == Spec => []TypeOK
<1>1. Inv => TypeOK
  BY DEF Inv
<1> QED
  BY <1>1, InvHolds, PTL

\* Every call leaves exactly the cells that it should, for every set of names, timestamps
\* and ranges: the DeleteRange bounds of mutate.go remove what they name, but for the 0xFF
\* cases, and nothing of a neighbouring row, family or column. Left out are the calls that
\* name what does not fit its length field, and unset ends that spare a cell.
THEOREM CellsExactHolds == Spec => []CellsExact
<1>1. Inv => CellsExact
  BY DEF Inv
<1> QED
  BY <1>1, InvHolds, PTL

\* The keys of cells whose names fit are different and in the order that ReadRows relies on:
\* rows in the order of their raw keys, within a column the newest cell first.
THEOREM KeyOrderHolds == Spec => []KeyOrder
<1>1. Inv => KeyOrder
  <2> SUFFICES ASSUME Inv, NEW x \in table, NEW y \in table, x # y,
                      ~TooLong(x.column.family, x.column.qualifier),
                      ~TooLong(y.column.family, y.column.qualifier)
               PROVE  /\ Key(x) # Key(y)
                      /\ Less(Key(x), Key(y)) => /\ ~Less(y.column.row, x.column.row)
                                                 /\ x.column = y.column => x.ts > y.ts
    BY DEF KeyOrder, Key
  <2>1. x \in AnyCells /\ y \in AnyCells
    BY DEF Inv, TypeOK, AnyCells, Cols, Keys
  <2>2. x \in Cells /\ y \in Cells
    BY <2>1 DEF Cells, AnyCells, Fits
  <2> QED
    BY <2>2, KeysOrdered
<1> QED
  BY <1>1, InvHolds, PTL

\* The bounds of rowRangeToBounds and the rows on either side of them.
LEMMA RowBounds ==
  ASSUME NEW x \in Cells, Len(x.column.family) # MaxByte, NEW s \in Keys
  PROVE  /\ Less(Key(x), RowPrefix(s)) <=> Less(x.column.row, s)
         /\ Less(Key(x), EndKey(RowPrefix(s))) <=> Less(x.column.row, s) \/ x.column.row = s
<1> DEFINE r == x.column.row
<1>1. r \in Keys
  BY CellFacts, FitsFacts
<1>2. PICK u \in Keys : Key(x) = RowPrefix(r) \o u
  BY KeyForms, CatType DEF Cat
<1>3. CASE r = s
  <2>1. ~Less(r, s)
    BY <1>1, <1>3, LessAsym
  <2>2. ~Less(Key(x), RowPrefix(s)) /\ Less(Key(x), EndKey(RowPrefix(s)))
    BY <1>3, InRow
  <2> QED
    BY <1>3, <2>1, <2>2
<1>4. CASE r # s
  <2> DEFINE none == <<>>
             end == <<MaxByte>>
             p == RowPrefix(s)
  <2>1. none \in Keys /\ p \in Keys /\ p \o none = p
    BY RowPrefixType, Empty
  <2>2. end \in Keys
    BY ByteFacts, One
  <2>3. EndKey(p) = p \o end
    BY <2>1, AppendIsConcat, ByteFacts DEF EndKey, Keys
  <2> HIDE DEF none, end, r
  <2>4. Less(RowPrefix(r) \o u, RowPrefix(s) \o none) <=> Less(r, s)
    BY <1>1, <1>4, <2>1, RowOrder
  <2>5. Less(RowPrefix(r) \o u, RowPrefix(s) \o end) <=> Less(r, s)
    BY <1>1, <1>4, <2>2, RowOrder
  <2>6. (Less(Key(x), p) <=> Less(r, s)) /\ (Less(Key(x), EndKey(p)) <=> Less(r, s))
    BY <1>2, <2>1, <2>3, <2>4, <2>5
  <2> QED
    BY <1>4, <2>6 DEF r
<1> QED
  BY <1>3, <1>4

\* A range of rows, seen from one cell.
LEMMA ScanOfCell ==
  ASSUME NEW x \in Cells, Len(x.column.family) # MaxByte, NEW range \in RowRanges, Key(x) \in db
  PROVE  Key(x) \in Scan(range) <=> InRange(x.column.row, range)
<1> DEFINE r == x.column.row
           k == Key(x)
           from == IF range.from = Unbounded THEN <<>>
                   ELSE IF range.fromOpen THEN EndKey(RowPrefix(range.from))
                   ELSE RowPrefix(range.from)
           to == IF range.toOpen THEN RowPrefix(range.to) ELSE EndKey(RowPrefix(range.to))
<1>1. k \in Scan(range) <=> ~Less(k, from) /\ (range.to = Unbounded \/ Less(k, to))
  BY DEF Scan
<1>2. /\ range.from = Unbounded \/ range.from \in Keys
      /\ range.to = Unbounded \/ range.to \in Keys
      /\ range.fromOpen \in BOOLEAN /\ range.toOpen \in BOOLEAN
  BY KeysAssumption DEF Keys
<1>3. r \in Keys /\ k \in Keys
  BY CellFacts, FitsFacts, KeyForms
<1>4. \A s \in Keys : /\ Less(k, RowPrefix(s)) <=> Less(r, s)
                      /\ Less(k, EndKey(RowPrefix(s))) <=> Less(r, s) \/ r = s
  BY RowBounds
<1>5. \A s \in Keys : /\ ~Less(r, s) <=> Less(s, r) \/ r = s
                      /\ ~(Less(r, s) \/ r = s) <=> Less(s, r)
  BY <1>3, LessTotal, LessAsym
<1>6. ~Less(k, <<>>)
  BY <1>3, ToEnd
<1>7. ~Less(k, from) <=> \/ range.from = Unbounded \/ Less(range.from, r)
                         \/ (r = range.from /\ ~range.fromOpen)
  <2> HIDE DEF k, r
  <2>1. CASE range.from = Unbounded
    BY <1>6, <2>1
  <2>2. CASE range.from # Unbounded /\ range.fromOpen
    <3>1. from = EndKey(RowPrefix(range.from)) /\ range.from \in Keys
      BY <1>2, <2>2
    <3>2. Less(k, EndKey(RowPrefix(range.from))) <=> Less(r, range.from) \/ r = range.from
      BY <1>4, <3>1
    <3>3. ~(Less(r, range.from) \/ r = range.from) <=> Less(range.from, r)
      BY <1>5, <3>1
    <3> HIDE DEF from
    <3> QED
      BY <2>2, <3>1, <3>2, <3>3
  <2>3. CASE range.from # Unbounded /\ ~range.fromOpen
    <3>1. from = RowPrefix(range.from) /\ range.from \in Keys
      BY <1>2, <2>3
    <3>2. Less(k, RowPrefix(range.from)) <=> Less(r, range.from)
      BY <1>4, <3>1
    <3>3. ~Less(r, range.from) <=> Less(range.from, r) \/ r = range.from
      BY <1>5, <3>1
    <3> HIDE DEF from
    <3> QED
      BY <2>3, <3>1, <3>2, <3>3
  <2> QED
    BY <2>1, <2>2, <2>3
<1>8. (range.to = Unbounded \/ Less(k, to)) <=> \/ range.to = Unbounded \/ Less(r, range.to)
                                                \/ (r = range.to /\ ~range.toOpen)
  <2> HIDE DEF k, r
  <2> SUFFICES ASSUME range.to # Unbounded
               PROVE  Less(k, to) <=> Less(r, range.to) \/ (r = range.to /\ ~range.toOpen)
    OBVIOUS
  <2>1. range.to \in Keys
    BY <1>2
  <2>2. /\ Less(k, RowPrefix(range.to)) <=> Less(r, range.to)
        /\ Less(k, EndKey(RowPrefix(range.to))) <=> Less(r, range.to) \/ r = range.to
    BY <1>4, <2>1
  <2>3. CASE range.toOpen
    BY <2>2, <2>3
  <2>4. CASE ~range.toOpen
    BY <2>2, <2>4
  <2> QED
    BY <2>3, <2>4
<1> HIDE DEF from, to
<1> QED
  BY <1>1, <1>7, <1>8 DEF InRange

\* The bounds that rowRangeToBounds computes select the cells of the rows in the range and
\* no others, whatever bytes the row keys hold.
THEOREM ScanExactHolds == Spec => []ScanExact
<1>1. Inv => ScanExact
  <2> SUFFICES ASSUME Inv, NEW range \in RowRanges, NEW k \in db, NEW x \in Decode(k),
                      Len(x.column.family) # MaxByte
               PROVE  k \in Scan(range) <=> InRange(x.column.row, range)
    BY DEF ScanExact
  <2>1. k \in Keys
    BY DEF Inv
  <2>2. x \in Cells /\ k = Key(x)
    BY <2>1, DecodeMeans
  <2> QED
    BY <2>2, ScanOfCell
<1> QED
  BY <1>1, InvHolds, PTL
-----------------------------------------------------------------------------
(* Calls whose names fit their length fields. *)

\* No call names a family or a qualifier that its length field cannot hold. Without it
\* ReadModifyWrite writes a key without a row or family prefix, which need not decode, can
\* begin with the prefix of another column, and is then what readCellValue finds there.
NamesFit == \A c \in Columns : ~TooLong(c.family, c.qualifier)

\* Every key in Pebble is the key of a cell.
Keyed == \A k \in db : \E x \in Cells : k = Key(x)

\* No step writes a key that is not a cell's.
LEMMA KeyedStep ==
  ASSUME NamesFit, Keyed, [Next]_vars
  PROVE  Keyed'
<1>1. ASSUME NEW c \in Columns, NEW ts \in Timestamps, db' = db \cup {EncodeCellKey(c, ts)}
      PROVE  Keyed'
  <2>1. Cell(c, ts) \in Cells /\ Key(Cell(c, ts)) = EncodeCellKey(c, ts)
    BY CellOf DEF NamesFit
  <2> QED
    BY <1>1, <2>1 DEF Keyed
<1>2. ASSUME NEW start, NEW end, DeleteRange(start, end) PROVE Keyed'
  BY <1>2 DEF DeleteRange, Keyed
<1>3. ASSUME NEW c \in Columns, NEW ts \in Stamps, SetCell(c, ts) PROVE Keyed'
  <2>1. PICK now \in Clock : db' = db \cup {EncodeCellKey(c, IF ts = -1 THEN now ELSE ts)}
    BY <1>3 DEF SetCell
  <2> DEFINE stamp == IF ts = -1 THEN now ELSE ts
  <2>2. stamp \in Timestamps
    BY Stamped
  <2>3. db' = db \cup {EncodeCellKey(c, stamp)}
    BY <2>1
  <2> HIDE DEF stamp
  <2> QED
    BY <1>1, <2>2, <2>3
<1>4. ASSUME NEW c \in Columns, ReadModifyWrite(c) PROVE Keyed'
  <2>1. PICK now \in Clock : db' = db \cup {EncodeCellKey(c, now)}
    BY <1>4 DEF ReadModifyWrite
  <2>2. now \in Timestamps
    BY Stamped
  <2> QED
    BY <1>1, <2>1, <2>2
<1>5. ASSUME NEW c \in Columns, DeleteFromColumn(c) PROVE Keyed'
  BY <1>2, <1>5 DEF DeleteFromColumn
<1>6. ASSUME NEW c \in Columns, NEW range \in TimeRanges, DeleteTimeRange(c, range) PROVE Keyed'
  <2>1. \E start, end : DeleteRange(start, end)
    BY <1>6 DEF DeleteTimeRange
  <2> QED
    BY <1>2, <2>1
<1>7. ASSUME NEW row, NEW family, DeleteFromFamily(row, family) PROVE Keyed'
  BY <1>2, <1>7 DEF DeleteFromFamily
<1>8. ASSUME NEW row, DeleteFromRow(row) PROVE Keyed'
  BY <1>2, <1>8 DEF DeleteFromRow
<1>9. CASE UNCHANGED vars
  BY <1>9 DEF vars, Keyed
<1> QED
  BY <1>3, <1>4, <1>5, <1>6, <1>7, <1>8, <1>9 DEF Next

\* Keyed is an invariant.
LEMMA KeyedHolds ==
  ASSUME NamesFit
  PROVE  Spec => []Keyed
<1>1. Init => Keyed
  BY DEF Init, Keyed
<1>2. Keyed /\ [Next]_vars => Keyed'
  BY KeyedStep
<1> QED
  BY <1>1, <1>2, PTL DEF Spec

\* readCellValue finds the newest cell of its column.
LEMMA ReadOfColumn ==
  ASSUME Inv, Keyed, NEW c \in Columns, ~TooLong(c.family, c.qualifier)
  PROVE  LET cells == {x \in Decoded(db) : /\ x.column = c
                                           /\ ~TopByte(invertedTimestamp(x.ts))}
         IN Decoded(ReadCell(c)) = {x \in cells : \A y \in cells : y.ts <= x.ts}
<1> DEFINE p == ColumnPrefix(c)
           cells == {x \in Decoded(db) : x.column = c /\ ~TopByte(invertedTimestamp(x.ts))}
           K == Between(db, p, EndKey(p))
<1>1. Fits(c) /\ p \in Keys
  BY Stamped, ColumnPrefixType
<1>2. db \in SUBSET Keys /\ \A x : x \in Decoded(db) <=> x \in Cells /\ Key(x) \in db
  BY DecodedIs DEF Inv
<1>3. \A x \in Cells : Key(x) \in K <=> x \in cells
  <2>1. \A x \in Cells : ~Less(Key(x), p) /\ Less(Key(x), EndKey(p))
                           <=> x.column = c /\ ~TopByte(invertedTimestamp(x.ts))
    BY <1>1, InColumn
  <2> HIDE DEF p
  <2> QED
    BY <1>2, <2>1 DEF Between
<1>4. cells \subseteq Cells
  BY <1>2
<1>5. K \subseteq db
  BY DEF Between
<1>6. \A k \in K : \E x \in cells : k = Key(x)
  <2> HIDE DEF K, cells
  <2> QED
    BY <1>3, <1>5 DEF Keyed
<1>7. \A x \in cells : HasPrefix(Key(x), p)
  <2> SUFFICES ASSUME NEW x \in cells PROVE HasPrefix(Key(x), p)
    OBVIOUS
  <2>1. x \in Cells /\ x.column = c
    BY <1>4
  <2>2. PICK t \in Keys : Key(x) = p \o t /\ Key(x) \in Keys
    BY <2>1, KeyForms DEF Cat
  <2> QED
    BY <1>1, <2>2, PrefixSplit
<1>8. \A x, y \in cells : Less(Key(y), Key(x)) <=> ~(y.ts <= x.ts)
  <2> SUFFICES ASSUME NEW x \in cells, NEW y \in cells
               PROVE  Less(Key(y), Key(x)) <=> ~(y.ts <= x.ts)
    OBVIOUS
  <2>1. x \in Cells /\ y \in Cells /\ x.column = y.column
    BY <1>4
  <2> HIDE DEF cells
  <2>2. Key(x) \in Keys /\ Key(y) \in Keys /\ x.ts \in Int /\ y.ts \in Int
    <3>1. x.ts \in Timestamps /\ y.ts \in Timestamps
      BY <2>1, CellFacts
    <3> QED
      BY <2>1, <3>1, KeyForms, BaseFacts DEF Timestamps
  <2>3. Less(Key(y), Key(x)) => y.ts > x.ts
    BY <2>1, KeysOrdered
  <2>4. Less(Key(x), Key(y)) => x.ts > y.ts
    BY <2>1, KeysOrdered
  <2>5. Key(x) = Key(y) => x = y
    BY <2>1, KeysOrdered
  <2>6. Key(x) = Key(y) \/ Less(Key(x), Key(y)) \/ Less(Key(y), Key(x))
    BY <2>2, LessTotal
  <2> QED
    BY <2>2, <2>3, <2>4, <2>5, <2>6
<1>9. \A x : x \in Decoded(ReadCell(c)) <=> x \in Cells /\ Key(x) \in ReadCell(c)
  <2>1. ReadCell(c) \in SUBSET Keys
    BY <1>2 DEF ReadCell, Smallest, Between
  <2> QED
    BY <2>1, DecodedIs
<1>10. \A k : k \in ReadCell(c) <=> /\ k \in K /\ HasPrefix(k, p)
                                    /\ \A other \in K : ~Less(other, k)
  BY DEF ReadCell, Smallest
<1> HIDE DEF K, p, cells
<1>11. ASSUME NEW x \in cells
       PROVE  (\A other \in K : ~Less(other, Key(x))) <=> \A y \in cells : y.ts <= x.ts
  <2>1. ASSUME \A other \in K : ~Less(other, Key(x)), NEW y \in cells PROVE y.ts <= x.ts
    <3>1. Key(y) \in K
      BY <1>3, <1>4
    <3> QED
      BY <1>8, <2>1, <3>1
  <2>2. ASSUME \A y \in cells : y.ts <= x.ts, NEW other \in K PROVE ~Less(other, Key(x))
    <3>1. PICK y \in cells : other = Key(y)
      BY <1>6
    <3> QED
      BY <1>8, <2>2, <3>1
  <2> QED
    BY <2>1, <2>2
<1>12. \A x : x \in Decoded(ReadCell(c)) <=> x \in cells /\ \A y \in cells : y.ts <= x.ts
  <2>1. ASSUME NEW x, x \in Decoded(ReadCell(c))
        PROVE  x \in cells /\ \A y \in cells : y.ts <= x.ts
    <3>1. x \in Cells /\ Key(x) \in K /\ \A other \in K : ~Less(other, Key(x))
      BY <1>9, <1>10, <2>1
    <3>2. x \in cells
      BY <1>3, <3>1
    <3> QED
      BY <1>11, <3>1, <3>2
  <2>2. ASSUME NEW x \in cells, \A y \in cells : y.ts <= x.ts
        PROVE  x \in Decoded(ReadCell(c))
    <3>1. x \in Cells /\ Key(x) \in K /\ HasPrefix(Key(x), p)
      BY <1>3, <1>4, <1>7
    <3>2. \A other \in K : ~Less(other, Key(x))
      BY <1>11, <2>2
    <3> QED
      BY <1>9, <1>10, <3>1, <3>2
  <2> QED
    BY <2>1, <2>2
<1>13. Decoded(ReadCell(c)) = {x \in cells : \A y \in cells : y.ts <= x.ts}
  BY <1>12
<1> QED
  BY <1>13 DEF cells

\* ReadModifyWriteRow builds on the newest cell of its column and on no other column's,
\* when no call names a family or qualifier that is too long for its length field.
THEOREM LatestReadHolds ==
  ASSUME NamesFit
  PROVE  Spec => []LatestRead
<1>1. Inv /\ Keyed => LatestRead
  BY ReadOfColumn DEF LatestRead
<1>2. Spec => []Keyed
  BY KeyedHolds
<1> QED
  BY <1>1, <1>2, InvHolds, PTL

\* What a removed cell has in common with the call that removed it.
LEMMA RemovedFrom ==
  ASSUME Inv, NEW start, NEW end, DeleteRange(start, end), NEW row,
         \A x \in Cells : ~Less(Key(x), start) /\ Less(Key(x), end) => x.column.row = row
  PROVE  \A x \in Decoded(db) \ Decoded(db') : x.column.row = row
<1>1. Decoded(db') = {x \in Decoded(db) : Outlives(x, start, end)}
  BY AfterDelete
<1>2. Decoded(db) \subseteq Cells
  BY StoredCells
<1> QED
  BY <1>1, <1>2 DEF Outlives

\* A call takes cells away from the row that it names only, when no call names a family or
\* qualifier that is too long for its length field: no DeleteRange of mutate.go reaches
\* into a neighbouring row.
THEOREM OneRowChangedHolds ==
  ASSUME NamesFit
  PROVE  Spec => OneRowChanged
<1> DEFINE Changed == \A x, y \in Decoded(db) \ Decoded(db') : x.column.row = y.column.row
<1>1. ASSUME Inv, [Next]_vars PROVE Changed
  <2>1. ASSUME NEW row, \A x \in Decoded(db) \ Decoded(db') : x.column.row = row PROVE Changed
    BY <2>1
  <2>2. ASSUME db \subseteq db' PROVE Changed
    BY <2>2 DEF Decoded
  <2> HIDE DEF Changed
  <2>3. ASSUME NEW c \in Columns, NEW ts \in Stamps, SetCell(c, ts) PROVE Changed
    BY <2>2, <2>3 DEF SetCell
  <2>4. ASSUME NEW c \in Columns, ReadModifyWrite(c) PROVE Changed
    BY <2>2, <2>4 DEF ReadModifyWrite
  <2>5. ASSUME NEW c \in Columns, DeleteFromColumn(c) PROVE Changed
    <3> DEFINE p == ColumnPrefix(c)
               e == EndKey(p)
    <3>1. Fits(c)
      BY Stamped DEF NamesFit
    <3>2. \A x \in Cells : ~Less(Key(x), p) /\ Less(Key(x), e) => x.column.row = c.row
      BY <3>1, InColumn
    <3>3. DeleteRange(p, e)
      BY <2>5 DEF DeleteFromColumn
    <3> HIDE DEF p, e
    <3> QED
      BY <1>1, <2>1, <3>2, <3>3, RemovedFrom
  <2>6. ASSUME NEW c \in Columns, NEW range \in TimeRanges, DeleteTimeRange(c, range) PROVE Changed
    <3>1. PICK now \in Clock :
            LET end == IF range[2] = 0 THEN now ELSE range[2]
                bounds == TimestampBounds(ColumnPrefix(c), <<range[1], end>>)
            IN DeleteRange(bounds[1], bounds[2])
      BY <2>6 DEF DeleteTimeRange
    <3> DEFINE start == range[1]
               end == IF range[2] = 0 THEN now ELSE range[2]
               bounds == TimestampBounds(ColumnPrefix(c), <<start, end>>)
               p == bounds[1]
               e == bounds[2]
    <3>2. Fits(c) /\ start \in Timestamps /\ end \in Timestamps
      BY Stamped DEF NamesFit
    <3>3. DeleteRange(p, e)
      BY <3>1
    <3> HIDE DEF start, end
    <3>4. \A x \in Cells : ~Less(Key(x), p) /\ Less(Key(x), e) => x.column.row = c.row
      BY <3>2, InTimes
    <3> HIDE DEF p, e
    <3> QED
      BY <1>1, <2>1, <3>3, <3>4, RemovedFrom
  <2>7. ASSUME NEW f \in {<<c.row, c.family>> : c \in Columns}, DeleteFromFamily(f[1], f[2])
        PROVE  Changed
    <3>1. PICK c \in Columns : f = <<c.row, c.family>>
      OBVIOUS
    <3> DEFINE row == c.row
               family == c.family
               p == FamilyPrefix(RowPrefix(row), family)
               e == EndKey(p)
    <3>2. row \in Keys /\ family \in Keys /\ Len(family) <= MaxByte
      <4>1. Fits(c)
        BY Stamped DEF NamesFit
      <4> QED
        BY <4>1, FitsFacts
    <3>3. \A x \in Cells : ~Less(Key(x), p) /\ Less(Key(x), e) => x.column.row = row
      BY <3>2, InFamily
    <3>4. DeleteRange(p, e)
      BY <2>7, <3>1 DEF DeleteFromFamily
    <3> HIDE DEF row, p, e
    <3> QED
      BY <1>1, <2>1, <3>3, <3>4, RemovedFrom
  <2>8. ASSUME NEW row \in {c.row : c \in Columns}, DeleteFromRow(row) PROVE Changed
    <3> DEFINE p == RowPrefix(row)
               e == EndKey(p)
    <3>1. row \in Keys
      BY Stamped DEF Cols
    <3>2. \A x \in Cells : ~Less(Key(x), p) /\ Less(Key(x), e) => x.column.row = row
      BY <3>1, InRow
    <3>3. DeleteRange(p, e)
      BY <2>8 DEF DeleteFromRow
    <3> HIDE DEF p, e
    <3> QED
      BY <1>1, <2>1, <3>2, <3>3, RemovedFrom
  <2>9. CASE UNCHANGED vars
    BY <2>2, <2>9 DEF vars
  <2> QED
    BY <1>1, <2>3, <2>4, <2>5, <2>6, <2>7, <2>8, <2>9 DEF Next
<1>2. Inv /\ [Next]_vars => [Changed]_vars
  BY <1>1
<1> QED
  BY <1>2, InvHolds, PTL DEF Spec, OneRowChanged
=============================================================================
