---------------------------- MODULE ReadRowsProofs ----------------------------
(* ReadRows keeps what it promises, for every content of the table, every request,
   buffer size and schedule of writers, and filters nested to any depth.

   First the filter.  FilterExact says that an evaluator, fed the cells of a row one
   after the other, accepts those which a plain filter means for the row as a whole;
   the proof is an induction over the depth.  It needs the recursive functions of
   RowFilter to satisfy their equations (the first section), and runs of an evaluator:
   the states it goes through for the cells that it is fed.

   Then the scan.  The inductive invariant Inv has eight parts.  TypeInv: types, and
   that the cells under the iterator are rows in one piece.  CountInv: rowCount counts
   the rows that have begun, up to the limit and one.  TailInv: the rows under the
   iterator are the last ones of due.  ExactInv: when a range is done, all its rows
   were counted, unless the limit was reached.  MarkInv: the row under way is row
   number rowCount of due, and last_scanned_row_key is the row ended last.  RunInv:
   the evaluator is where a reset evaluator gets with the cells of the row so far.
   ClientInv: with the buffer, the client has the rows that were ended and of the row
   under way what the filter keeps so far.  SentInv: what ResumeSafe says of every
   response, which later steps do not disturb. *)
EXTENDS ReadRows, FiniteSetTheorems, SequenceTheorems, WellFoundedInduction, TLAPS

-------------------------------------------------------------------------------
(* What is recursive over the depth of a filter satisfies its equation. *)

\* A set of natural numbers that is not empty has a least element.
LEMMA Least ==
  ASSUME NEW S \in SUBSET Nat, S # {}
  PROVE  \E m \in S : \A n \in S : m <= n
<1>1. \E m \in S : \A n \in S : ~(<<n, m>> \in OpToRel(<, Nat))
  BY NatLessThanWellFounded, WFMin
<1>2. PICK m \in S : \A n \in S : ~(n < m)
  BY <1>1 DEF OpToRel
<1> QED
  BY <1>2

\* Induction over the naturals, for a set.
LEMMA UpInduction ==
  ASSUME NEW Q, 0 \in Q, \A n \in Nat : n \in Q => n + 1 \in Q
  PROVE  \A n \in Nat : n \in Q
<1> SUFFICES ASSUME NEW k \in Nat, k \notin Q PROVE FALSE
  OBVIOUS
<1> DEFINE missing == {n \in Nat : n \notin Q}
<1>1. missing \in SUBSET Nat /\ missing # {}
  OBVIOUS
<1> HIDE DEF missing
<1>2. PICK m \in missing : \A n \in missing : m <= n
  BY <1>1, Least
<1> USE DEF missing
<1>3. m # 0 /\ m - 1 \in Nat /\ m - 1 \in Q
  BY <1>2
<1> QED
  BY <1>2, <1>3

\* The depths are 0 to MaxDepth.
LEMMA DepthFacts == Depths \in SUBSET Nat /\ 0 \in Depths /\ MaxDepth \in Depths /\ \A n \in Depths : n # 0 => n - 1 \in Depths
BY MaxDepthAssumption DEF Depths

\* Induction over the depth.
LEMMA DepthInduction ==
  ASSUME NEW Q, 0 \in Q, \A n \in Depths \ {0} : n - 1 \in Q => n \in Q
  PROVE  \A n \in Depths : n \in Q
<1> DEFINE P == {n \in Nat : n \in Depths => n \in Q}
<1>1. 0 \in P
  OBVIOUS
<1>2. ASSUME NEW n \in Nat, n \in P PROVE n + 1 \in P
  <2> SUFFICES ASSUME n + 1 \in Depths PROVE n + 1 \in Q
    OBVIOUS
  <2>1. n \in Depths /\ n + 1 # 0 /\ (n + 1) - 1 = n
    BY MaxDepthAssumption DEF Depths
  <2> QED
    BY <1>2, <2>1
<1> HIDE DEF P
<1>3. \A n \in Nat : n \in P
  BY <1>1, <1>2, UpInduction
<1> QED
  BY <1>3, DepthFacts DEF P

-------------------------------------------------------------------------------

\* The equation of Trees, x standing for the value one depth below.
TreesBody(n, x) ==
  IF n = 0 THEN Leaves ELSE Leaves \cup Composites(x)

\* At depth 0 there is nothing below.
LEMMA TreesStart == \A x, y : TreesBody(0, x) = TreesBody(0, y)
BY DEF TreesBody

\* The recursive function Trees exists.
LEMMA TreesExist == \A m \in Nat : \E g : g = [n \in 0 .. m |-> TreesBody(n, g[n - 1])]
<1> DEFINE Q == {m \in Nat : \E g : g = [n \in 0 .. m |-> TreesBody(n, g[n - 1])]}
<1>1. 0 \in Q
  <2> DEFINE g == [n \in 0 .. 0 |-> TreesBody(0, 0)]
  <2>1. TreesBody(0, g[0 - 1]) = TreesBody(0, 0)
    BY TreesStart
  <2>2. g = [n \in 0 .. 0 |-> TreesBody(n, g[n - 1])]
    BY <2>1
  <2> QED
    BY <2>2
<1>2. ASSUME NEW m \in Nat, m \in Q PROVE m + 1 \in Q
  <2>1. PICK g : g = [n \in 0 .. m |-> TreesBody(n, g[n - 1])]
    BY <1>2
  <2> DEFINE h == [n \in 0 .. (m + 1) |-> IF n = m + 1 THEN TreesBody(n, g[m]) ELSE g[n]]
  <2>2. ASSUME NEW n \in 0 .. (m + 1) PROVE h[n] = TreesBody(n, h[n - 1])
    <3>1. CASE n = 0
      <4>1. TreesBody(n, g[n - 1]) = TreesBody(n, h[n - 1])
        BY <3>1, TreesStart
      <4>2. h[n] = g[n] /\ g[n] = TreesBody(n, g[n - 1])
        BY <2>1, <3>1
      <4> QED
        BY <4>1, <4>2
    <3>2. CASE n \in 1 .. m
      <4>1. h[n] = g[n] /\ g[n] = TreesBody(n, g[n - 1]) /\ h[n - 1] = g[n - 1]
        BY <2>1, <3>2
      <4> QED
        BY <4>1
    <3>3. CASE n = m + 1
      <4>1. h[n] = TreesBody(n, g[m]) /\ h[n - 1] = g[m]
        BY <3>3
      <4> QED
        BY <3>3, <4>1
    <3> QED
      BY <3>1, <3>2, <3>3
  <2>3. h = [n \in 0 .. (m + 1) |-> TreesBody(n, h[n - 1])]
    BY <2>2
  <2> HIDE DEF h
  <2>4. \E k : k = [n \in 0 .. (m + 1) |-> TreesBody(n, k[n - 1])]
    BY <2>3
  <2> QED
    BY <2>4
<1> HIDE DEF Q
<1>3. \A m \in Nat : m \in Q
  BY <1>1, <1>2, UpInduction
<1> QED
  BY <1>3 DEF Q

\* Trees satisfies its definition.
LEMMA TreesAre == \A n \in Depths : Trees[n] = TreesBody(n, Trees[n - 1])
<1>1. \E g : g = [n \in Depths |-> TreesBody(n, g[n - 1])]
  BY MaxDepthAssumption, TreesExist DEF Depths
<1>2. Trees = CHOOSE g : g = [n \in Depths |-> TreesBody(n, g[n - 1])]
  BY Zenon DEF Trees, TreesBody
<1>3. Trees = [n \in Depths |-> TreesBody(n, Trees[n - 1])]
  BY <1>1, <1>2
<1> QED
  BY <1>3

\* An evaluator is a leaf, or a composite of evaluators one depth below.
LEMMA TreeCases ==
  ASSUME NEW n \in Depths, NEW e \in Trees[n]
  PROVE  e \in Leaves \/ (n # 0 /\ n - 1 \in Depths /\ e \in Composites(Trees[n - 1]))
BY TreesAre, DepthFacts DEF TreesBody

\* A leaf is no composite.
LEMMA LeafKinds ==
  ASSUME NEW e \in Leaves
  PROVE  /\ e.kind \notin {"chain", "interleave", "condition"} /\ ~Composite(e)
BY DEF Leaves, Composite

\* At depth 0 there are leaves only.
LEMMA NoDepth == Trees[0] = Leaves
BY TreesAre, DepthFacts DEF TreesBody

\* The equation of EvaluateTo.
EvalBody(n, x) ==
  [e \in Trees[n] |-> [c \in Cells |->
     LET v == [i \in DOMAIN e.fs |-> x[e.fs[i]][c]]
     IN CASE e.kind = "chain" -> EvalChain(e, v)
          [] e.kind = "interleave" -> EvalInterleave(e, v, c)
          [] e.kind = "condition" -> EvalCondition(e, v)
          [] Counter(e) -> Counted(e, c)
          [] OTHER -> [ok |-> Matches(e, c), e |-> e]]]

\* At depth 0 there is nothing below.
LEMMA EvalStart == \A x, y : EvalBody(0, x) = EvalBody(0, y)
BY NoDepth, LeafKinds DEF EvalBody

\* The recursive function EvaluateTo exists.
LEMMA EvalExist == \A m \in Nat : \E g : g = [n \in 0 .. m |-> EvalBody(n, g[n - 1])]
<1> DEFINE Q == {m \in Nat : \E g : g = [n \in 0 .. m |-> EvalBody(n, g[n - 1])]}
<1>1. 0 \in Q
  <2> DEFINE g == [n \in 0 .. 0 |-> EvalBody(0, 0)]
  <2>1. EvalBody(0, g[0 - 1]) = EvalBody(0, 0)
    BY EvalStart
  <2>2. g = [n \in 0 .. 0 |-> EvalBody(n, g[n - 1])]
    BY <2>1
  <2> QED
    BY <2>2
<1>2. ASSUME NEW m \in Nat, m \in Q PROVE m + 1 \in Q
  <2>1. PICK g : g = [n \in 0 .. m |-> EvalBody(n, g[n - 1])]
    BY <1>2
  <2> DEFINE h == [n \in 0 .. (m + 1) |-> IF n = m + 1 THEN EvalBody(n, g[m]) ELSE g[n]]
  <2>2. ASSUME NEW n \in 0 .. (m + 1) PROVE h[n] = EvalBody(n, h[n - 1])
    <3>1. CASE n = 0
      <4>1. EvalBody(n, g[n - 1]) = EvalBody(n, h[n - 1])
        BY <3>1, EvalStart
      <4>2. h[n] = g[n] /\ g[n] = EvalBody(n, g[n - 1])
        BY <2>1, <3>1
      <4> QED
        BY <4>1, <4>2
    <3>2. CASE n \in 1 .. m
      <4>1. h[n] = g[n] /\ g[n] = EvalBody(n, g[n - 1]) /\ h[n - 1] = g[n - 1]
        BY <2>1, <3>2
      <4> QED
        BY <4>1
    <3>3. CASE n = m + 1
      <4>1. h[n] = EvalBody(n, g[m]) /\ h[n - 1] = g[m]
        BY <3>3
      <4> QED
        BY <3>3, <4>1
    <3> QED
      BY <3>1, <3>2, <3>3
  <2>3. h = [n \in 0 .. (m + 1) |-> EvalBody(n, h[n - 1])]
    BY <2>2
  <2> HIDE DEF h
  <2>4. \E k : k = [n \in 0 .. (m + 1) |-> EvalBody(n, k[n - 1])]
    BY <2>3
  <2> QED
    BY <2>4
<1> HIDE DEF Q
<1>3. \A m \in Nat : m \in Q
  BY <1>1, <1>2, UpInduction
<1> QED
  BY <1>3 DEF Q

\* EvaluateTo satisfies its definition.
LEMMA EvalAre == \A n \in Depths : EvaluateTo[n] = EvalBody(n, EvaluateTo[n - 1])
<1>1. \E g : g = [n \in Depths |-> EvalBody(n, g[n - 1])]
  BY MaxDepthAssumption, EvalExist DEF Depths
<1>2. EvaluateTo = CHOOSE g : g = [n \in Depths |-> EvalBody(n, g[n - 1])]
  BY Zenon DEF EvaluateTo, EvalBody
<1>3. EvaluateTo = [n \in Depths |-> EvalBody(n, EvaluateTo[n - 1])]
  BY <1>1, <1>2
<1> QED
  BY <1>3

\* The equation of ResetTo.
ResetBody(n, x) ==
  [e \in Trees[n] |->
     LET fs == [i \in DOMAIN e.fs |-> x[e.fs[i]]]
     IN CASE e.kind \in {"chain", "condition"} -> [e EXCEPT !.fs = fs]
          [] e.kind = "interleave" -> InterleaveOf(fs)
          [] e.kind \in {"offset", "limit"} -> [e EXCEPT !.count = 0]
          [] e.kind = "column" -> [e EXCEPT !.counts = <<>>]
          [] OTHER -> e]

\* At depth 0 there is nothing below.
LEMMA ResetStart == \A x, y : ResetBody(0, x) = ResetBody(0, y)
BY NoDepth, LeafKinds DEF ResetBody

\* The recursive function ResetTo exists.
LEMMA ResetExist == \A m \in Nat : \E g : g = [n \in 0 .. m |-> ResetBody(n, g[n - 1])]
<1> DEFINE Q == {m \in Nat : \E g : g = [n \in 0 .. m |-> ResetBody(n, g[n - 1])]}
<1>1. 0 \in Q
  <2> DEFINE g == [n \in 0 .. 0 |-> ResetBody(0, 0)]
  <2>1. ResetBody(0, g[0 - 1]) = ResetBody(0, 0)
    BY ResetStart
  <2>2. g = [n \in 0 .. 0 |-> ResetBody(n, g[n - 1])]
    BY <2>1
  <2> QED
    BY <2>2
<1>2. ASSUME NEW m \in Nat, m \in Q PROVE m + 1 \in Q
  <2>1. PICK g : g = [n \in 0 .. m |-> ResetBody(n, g[n - 1])]
    BY <1>2
  <2> DEFINE h == [n \in 0 .. (m + 1) |-> IF n = m + 1 THEN ResetBody(n, g[m]) ELSE g[n]]
  <2>2. ASSUME NEW n \in 0 .. (m + 1) PROVE h[n] = ResetBody(n, h[n - 1])
    <3>1. CASE n = 0
      <4>1. ResetBody(n, g[n - 1]) = ResetBody(n, h[n - 1])
        BY <3>1, ResetStart
      <4>2. h[n] = g[n] /\ g[n] = ResetBody(n, g[n - 1])
        BY <2>1, <3>1
      <4> QED
        BY <4>1, <4>2
    <3>2. CASE n \in 1 .. m
      <4>1. h[n] = g[n] /\ g[n] = ResetBody(n, g[n - 1]) /\ h[n - 1] = g[n - 1]
        BY <2>1, <3>2
      <4> QED
        BY <4>1
    <3>3. CASE n = m + 1
      <4>1. h[n] = ResetBody(n, g[m]) /\ h[n - 1] = g[m]
        BY <3>3
      <4> QED
        BY <3>3, <4>1
    <3> QED
      BY <3>1, <3>2, <3>3
  <2>3. h = [n \in 0 .. (m + 1) |-> ResetBody(n, h[n - 1])]
    BY <2>2
  <2> HIDE DEF h
  <2>4. \E k : k = [n \in 0 .. (m + 1) |-> ResetBody(n, k[n - 1])]
    BY <2>3
  <2> QED
    BY <2>4
<1> HIDE DEF Q
<1>3. \A m \in Nat : m \in Q
  BY <1>1, <1>2, UpInduction
<1> QED
  BY <1>3 DEF Q

\* ResetTo satisfies its definition.
LEMMA ResetAre == \A n \in Depths : ResetTo[n] = ResetBody(n, ResetTo[n - 1])
<1>1. \E g : g = [n \in Depths |-> ResetBody(n, g[n - 1])]
  BY MaxDepthAssumption, ResetExist DEF Depths
<1>2. ResetTo = CHOOSE g : g = [n \in Depths |-> ResetBody(n, g[n - 1])]
  BY Zenon DEF ResetTo, ResetBody
<1>3. ResetTo = [n \in Depths |-> ResetBody(n, ResetTo[n - 1])]
  BY <1>1, <1>2
<1> QED
  BY <1>3

\* The equation of RefTo.
RefBody(n, x) ==
  [e \in Trees[n] |-> [cells \in Seq(Cells) |-> [I \in SUBSET Nat |->
     LET of(k, J) == x[e.fs[k]][cells][J]
         out[k \in 0 .. Len(e.fs)] == IF k = 0 THEN I ELSE of(k, out[k - 1])
     IN CASE e.kind = "chain" -> out[Len(e.fs)]
          [] e.kind = "interleave" -> UNION {of(k, I) : k \in DOMAIN e.fs}
          [] e.kind = "condition" -> IF of(1, I) # {} THEN of(2, I) ELSE of(3, I)
          [] Counter(e) -> RefKept(e, cells, I)
          [] OTHER -> {i \in I : RefMatches(e, cells[i])}]]]

\* At depth 0 there is nothing below.
LEMMA RefStart == \A x, y : RefBody(0, x) = RefBody(0, y)
BY NoDepth, LeafKinds DEF RefBody

\* The recursive function RefTo exists.
LEMMA RefExist == \A m \in Nat : \E g : g = [n \in 0 .. m |-> RefBody(n, g[n - 1])]
<1> DEFINE Q == {m \in Nat : \E g : g = [n \in 0 .. m |-> RefBody(n, g[n - 1])]}
<1>1. 0 \in Q
  <2> DEFINE g == [n \in 0 .. 0 |-> RefBody(0, 0)]
  <2>1. RefBody(0, g[0 - 1]) = RefBody(0, 0)
    BY RefStart
  <2>2. g = [n \in 0 .. 0 |-> RefBody(n, g[n - 1])]
    BY <2>1
  <2> QED
    BY <2>2
<1>2. ASSUME NEW m \in Nat, m \in Q PROVE m + 1 \in Q
  <2>1. PICK g : g = [n \in 0 .. m |-> RefBody(n, g[n - 1])]
    BY <1>2
  <2> DEFINE h == [n \in 0 .. (m + 1) |-> IF n = m + 1 THEN RefBody(n, g[m]) ELSE g[n]]
  <2>2. ASSUME NEW n \in 0 .. (m + 1) PROVE h[n] = RefBody(n, h[n - 1])
    <3>1. CASE n = 0
      <4>1. RefBody(n, g[n - 1]) = RefBody(n, h[n - 1])
        BY <3>1, RefStart
      <4>2. h[n] = g[n] /\ g[n] = RefBody(n, g[n - 1])
        BY <2>1, <3>1
      <4> QED
        BY <4>1, <4>2
    <3>2. CASE n \in 1 .. m
      <4>1. h[n] = g[n] /\ g[n] = RefBody(n, g[n - 1]) /\ h[n - 1] = g[n - 1]
        BY <2>1, <3>2
      <4> QED
        BY <4>1
    <3>3. CASE n = m + 1
      <4>1. h[n] = RefBody(n, g[m]) /\ h[n - 1] = g[m]
        BY <3>3
      <4> QED
        BY <3>3, <4>1
    <3> QED
      BY <3>1, <3>2, <3>3
  <2>3. h = [n \in 0 .. (m + 1) |-> RefBody(n, h[n - 1])]
    BY <2>2
  <2> HIDE DEF h
  <2>4. \E k : k = [n \in 0 .. (m + 1) |-> RefBody(n, k[n - 1])]
    BY <2>3
  <2> QED
    BY <2>4
<1> HIDE DEF Q
<1>3. \A m \in Nat : m \in Q
  BY <1>1, <1>2, UpInduction
<1> QED
  BY <1>3 DEF Q

\* RefTo satisfies its definition.
LEMMA RefAre == \A n \in Depths : RefTo[n] = RefBody(n, RefTo[n - 1])
<1>1. \E g : g = [n \in Depths |-> RefBody(n, g[n - 1])]
  BY MaxDepthAssumption, RefExist DEF Depths
<1>2. RefTo = CHOOSE g : g = [n \in Depths |-> RefBody(n, g[n - 1])]
  BY Zenon DEF RefTo, RefBody
<1>3. RefTo = [n \in Depths |-> RefBody(n, RefTo[n - 1])]
  BY <1>1, <1>2
<1> QED
  BY <1>3

\* The equation of StatelessTo.
StatelessBody(n, x) ==
  [e \in Trees[n] |-> ~Counter(e) /\ (Composite(e) => \A i \in DOMAIN e.fs : x[e.fs[i]])]

\* At depth 0 there is nothing below.
LEMMA StatelessStart == \A x, y : StatelessBody(0, x) = StatelessBody(0, y)
BY NoDepth, LeafKinds DEF StatelessBody

\* The recursive function StatelessTo exists.
LEMMA StatelessExist == \A m \in Nat : \E g : g = [n \in 0 .. m |-> StatelessBody(n, g[n - 1])]
<1> DEFINE Q == {m \in Nat : \E g : g = [n \in 0 .. m |-> StatelessBody(n, g[n - 1])]}
<1>1. 0 \in Q
  <2> DEFINE g == [n \in 0 .. 0 |-> StatelessBody(0, 0)]
  <2>1. StatelessBody(0, g[0 - 1]) = StatelessBody(0, 0)
    BY StatelessStart
  <2>2. g = [n \in 0 .. 0 |-> StatelessBody(n, g[n - 1])]
    BY <2>1
  <2> QED
    BY <2>2
<1>2. ASSUME NEW m \in Nat, m \in Q PROVE m + 1 \in Q
  <2>1. PICK g : g = [n \in 0 .. m |-> StatelessBody(n, g[n - 1])]
    BY <1>2
  <2> DEFINE h == [n \in 0 .. (m + 1) |-> IF n = m + 1 THEN StatelessBody(n, g[m]) ELSE g[n]]
  <2>2. ASSUME NEW n \in 0 .. (m + 1) PROVE h[n] = StatelessBody(n, h[n - 1])
    <3>1. CASE n = 0
      <4>1. StatelessBody(n, g[n - 1]) = StatelessBody(n, h[n - 1])
        BY <3>1, StatelessStart
      <4>2. h[n] = g[n] /\ g[n] = StatelessBody(n, g[n - 1])
        BY <2>1, <3>1
      <4> QED
        BY <4>1, <4>2
    <3>2. CASE n \in 1 .. m
      <4>1. h[n] = g[n] /\ g[n] = StatelessBody(n, g[n - 1]) /\ h[n - 1] = g[n - 1]
        BY <2>1, <3>2
      <4> QED
        BY <4>1
    <3>3. CASE n = m + 1
      <4>1. h[n] = StatelessBody(n, g[m]) /\ h[n - 1] = g[m]
        BY <3>3
      <4> QED
        BY <3>3, <4>1
    <3> QED
      BY <3>1, <3>2, <3>3
  <2>3. h = [n \in 0 .. (m + 1) |-> StatelessBody(n, h[n - 1])]
    BY <2>2
  <2> HIDE DEF h
  <2>4. \E k : k = [n \in 0 .. (m + 1) |-> StatelessBody(n, k[n - 1])]
    BY <2>3
  <2> QED
    BY <2>4
<1> HIDE DEF Q
<1>3. \A m \in Nat : m \in Q
  BY <1>1, <1>2, UpInduction
<1> QED
  BY <1>3 DEF Q

\* StatelessTo satisfies its definition.
LEMMA StatelessAre == \A n \in Depths : StatelessTo[n] = StatelessBody(n, StatelessTo[n - 1])
<1>1. \E g : g = [n \in Depths |-> StatelessBody(n, g[n - 1])]
  BY MaxDepthAssumption, StatelessExist DEF Depths
<1>2. StatelessTo = CHOOSE g : g = [n \in Depths |-> StatelessBody(n, g[n - 1])]
  BY Zenon DEF StatelessTo, StatelessBody
<1>3. StatelessTo = [n \in Depths |-> StatelessBody(n, StatelessTo[n - 1])]
  BY <1>1, <1>2
<1> QED
  BY <1>3

\* The equation of PlainTo.
PlainBody(n, x) ==
  [e \in Trees[n] |->
     /\ Composite(e) => StripsLast(n, e) /\ \A i \in DOMAIN e.fs : x[e.fs[i]]
     /\ e.kind = "interleave" =>
          /\ \A i \in DOMAIN e.fs : StatelessTo[n - 1][e.fs[i]]
          /\ \A i, j \in DOMAIN e.fs : i # j => Apart(e.fs[i], e.fs[j])
     /\ e.kind # "missing"
     /\ e.kind = "condition" => RowOnly(e.fs[1])
     /\ e.kind \in {"columns", "values"} =>
          /\ e.lo.set => e.lo.key # 0 \/ e.lo.incl
          /\ e.hi.set => e.hi.key # 0
     /\ e.kind = "times" => e.start > 0 /\ e.end >= 0]

\* At depth 0 there is nothing below.
LEMMA PlainStart == \A x, y : PlainBody(0, x) = PlainBody(0, y)
BY NoDepth, LeafKinds DEF PlainBody

\* The recursive function PlainTo exists.
LEMMA PlainExist == \A m \in Nat : \E g : g = [n \in 0 .. m |-> PlainBody(n, g[n - 1])]
<1> DEFINE Q == {m \in Nat : \E g : g = [n \in 0 .. m |-> PlainBody(n, g[n - 1])]}
<1>1. 0 \in Q
  <2> DEFINE g == [n \in 0 .. 0 |-> PlainBody(0, 0)]
  <2>1. PlainBody(0, g[0 - 1]) = PlainBody(0, 0)
    BY PlainStart
  <2>2. g = [n \in 0 .. 0 |-> PlainBody(n, g[n - 1])]
    BY <2>1
  <2> QED
    BY <2>2
<1>2. ASSUME NEW m \in Nat, m \in Q PROVE m + 1 \in Q
  <2>1. PICK g : g = [n \in 0 .. m |-> PlainBody(n, g[n - 1])]
    BY <1>2
  <2> DEFINE h == [n \in 0 .. (m + 1) |-> IF n = m + 1 THEN PlainBody(n, g[m]) ELSE g[n]]
  <2>2. ASSUME NEW n \in 0 .. (m + 1) PROVE h[n] = PlainBody(n, h[n - 1])
    <3>1. CASE n = 0
      <4>1. PlainBody(n, g[n - 1]) = PlainBody(n, h[n - 1])
        BY <3>1, PlainStart
      <4>2. h[n] = g[n] /\ g[n] = PlainBody(n, g[n - 1])
        BY <2>1, <3>1
      <4> QED
        BY <4>1, <4>2
    <3>2. CASE n \in 1 .. m
      <4>1. h[n] = g[n] /\ g[n] = PlainBody(n, g[n - 1]) /\ h[n - 1] = g[n - 1]
        BY <2>1, <3>2
      <4> QED
        BY <4>1
    <3>3. CASE n = m + 1
      <4>1. h[n] = PlainBody(n, g[m]) /\ h[n - 1] = g[m]
        BY <3>3
      <4> QED
        BY <3>3, <4>1
    <3> QED
      BY <3>1, <3>2, <3>3
  <2>3. h = [n \in 0 .. (m + 1) |-> PlainBody(n, h[n - 1])]
    BY <2>2
  <2> HIDE DEF h
  <2>4. \E k : k = [n \in 0 .. (m + 1) |-> PlainBody(n, k[n - 1])]
    BY <2>3
  <2> QED
    BY <2>4
<1> HIDE DEF Q
<1>3. \A m \in Nat : m \in Q
  BY <1>1, <1>2, UpInduction
<1> QED
  BY <1>3 DEF Q

\* PlainTo satisfies its definition.
LEMMA PlainAre == \A n \in Depths : PlainTo[n] = PlainBody(n, PlainTo[n - 1])
<1>1. \E g : g = [n \in Depths |-> PlainBody(n, g[n - 1])]
  BY MaxDepthAssumption, PlainExist DEF Depths
<1>2. PlainTo = CHOOSE g : g = [n \in Depths |-> PlainBody(n, g[n - 1])]
  BY Zenon DEF PlainTo, PlainBody
<1>3. PlainTo = [n \in Depths |-> PlainBody(n, PlainTo[n - 1])]
  BY <1>1, <1>2
<1> QED
  BY <1>3

-------------------------------------------------------------------------------
(* Evaluation of a cell: leaves. *)

\* What a leaf says of a cell.
LeafVerdict(e, c) == IF Counter(e) THEN Counted(e, c) ELSE [ok |-> Matches(e, c), e |-> e]

\* What the members of a composite say of a cell.
Members(n, e, c) == [i \in DOMAIN e.fs |-> EvaluateTo[n][e.fs[i]][c]]

\* A leaf is an evaluator of every depth.
LEMMA LeavesIn ==
  ASSUME NEW n \in Depths
  PROVE  Leaves \subseteq Trees[n]
BY TreesAre DEF TreesBody

\* A composite of evaluators is one of the next depth.
LEMMA CompositesIn ==
  ASSUME NEW n \in Depths, n # 0
  PROVE  Composites(Trees[n - 1]) \subseteq Trees[n]
BY TreesAre DEF TreesBody

\* Evaluation of a leaf.
LEMMA EvalLeaf ==
  ASSUME NEW n \in Depths, NEW e \in Leaves, NEW c \in Cells
  PROVE  EvaluateTo[n][e][c] = LeafVerdict(e, c)
<1>1. e \in Trees[n] /\ e.kind \notin {"chain", "interleave", "condition"}
  BY LeavesIn, LeafKinds
<1>2. EvaluateTo[n][e][c] = EvalBody(n, EvaluateTo[n - 1])[e][c]
  BY EvalAre
<1> QED
  BY <1>1, <1>2 DEF EvalBody, LeafVerdict

\* Evaluation of a composite, from what its members say.
LEMMA EvalComposite ==
  ASSUME NEW n \in Depths, NEW e \in Trees[n], NEW c \in Cells
  PROVE  /\ e.kind = "chain" => EvaluateTo[n][e][c] = EvalChain(e, Members(n - 1, e, c))
         /\ e.kind = "interleave" =>
              EvaluateTo[n][e][c] = EvalInterleave(e, Members(n - 1, e, c), c)
         /\ e.kind = "condition" => EvaluateTo[n][e][c] = EvalCondition(e, Members(n - 1, e, c))
<1>2. EvaluateTo[n][e][c] = EvalBody(n, EvaluateTo[n - 1])[e][c]
  BY EvalAre
<1> QED
  BY <1>2 DEF EvalBody, Members, Counter

\* A function on 1 .. n is a sequence.
LEMMA FunctionIsSeq ==
  ASSUME NEW S, NEW n \in Nat, NEW f \in [1 .. n -> S]
  PROVE  f \in Seq(S) /\ Len(f) = n
<1>1. f = [i \in 1 .. n |-> f[i]] /\ \A i \in 1 .. n : f[i] \in S
  OBVIOUS
<1>2. [i \in 1 .. n |-> f[i]] \in Seq(S)
  BY <1>1
<1>3. f \in Seq(S)
  BY <1>1, <1>2
<1> QED
  BY <1>3, LenProperties

\* The fields of a composite.
LEMMA CompositeShape ==
  ASSUME NEW S, NEW e \in Composites(S)
  PROVE  /\ Composite(e) /\ ~Counter(e)
         /\ e.kind \in {"chain", "interleave", "condition"}
         /\ e.fs \in Seq(S) /\ DOMAIN e.fs = 1 .. Len(e.fs) /\ Len(e.fs) \in Nat
         /\ \A i \in DOMAIN e.fs : e.fs[i] \in S
         /\ e.kind = "chain" => e = [kind |-> "chain", fs |-> e.fs]
         /\ e.kind = "interleave" => /\ e = [kind |-> "interleave", fs |-> e.fs, seen |-> e.seen]
                                     /\ e.seen \in SUBSET (Nat \X Nat \X Int)
         /\ e.kind = "condition" => e = [kind |-> "condition", fs |-> e.fs] /\ Len(e.fs) = 3
<1>1. CASE e \in [kind : {"chain"}, fs : Seq(S)]
  BY <1>1 DEF Composite, Counter
<1>2. CASE e \in [kind : {"interleave"}, fs : Seq(S), seen : SUBSET (Nat \X Nat \X Int)]
  BY <1>2 DEF Composite, Counter
<1>3. CASE e \in [kind : {"condition"}, fs : [1 .. 3 -> S]]
  <2>1. e.fs \in [1 .. 3 -> S]
    BY <1>3
  <2>2. e.fs \in Seq(S) /\ Len(e.fs) = 3
    BY <2>1, FunctionIsSeq
  <2> QED
    BY <1>3, <2>1, <2>2 DEF Composite, Counter
<1> QED
  BY <1>1, <1>2, <1>3 DEF Composites

\* Records of these shapes are composites.
LEMMA MakeComposite ==
  ASSUME NEW S, NEW fs \in Seq(S), NEW seen \in SUBSET (Nat \X Nat \X Int)
  PROVE  /\ [kind |-> "chain", fs |-> fs] \in Composites(S)
         /\ [kind |-> "interleave", fs |-> fs, seen |-> seen] \in Composites(S)
         /\ Len(fs) = 3 => [kind |-> "condition", fs |-> fs] \in Composites(S)
<1>1. ASSUME Len(fs) = 3 PROVE fs \in [1 .. 3 -> S]
  BY <1>1
<1> QED
  BY <1>1 DEF Composites

\* The members after a cell, one by one.
LEMMA AskType ==
  ASSUME NEW S, NEW e \in Composites(S), NEW v, \A i \in DOMAIN e.fs : v[i].e \in S, NEW I
  PROVE  /\ Ask(e, v, I) \in Seq(S) /\ Len(Ask(e, v, I)) = Len(e.fs)
         /\ DOMAIN Ask(e, v, I) = DOMAIN e.fs
         /\ \A i \in DOMAIN e.fs : Ask(e, v, I)[i] = IF i \in I THEN v[i].e ELSE e.fs[i]
<1>1. DOMAIN e.fs = 1 .. Len(e.fs) /\ Len(e.fs) \in Nat /\ \A i \in DOMAIN e.fs : e.fs[i] \in S
  BY CompositeShape
<1>2. Ask(e, v, I) \in [1 .. Len(e.fs) -> S]
  BY <1>1 DEF Ask
<1> QED
  BY <1>1, <1>2 DEF Ask

\* The fields of a leaf.
LEMMA LeafShape ==
  ASSUME NEW e \in Leaves
  PROVE  /\ e.kind \in {"offset", "limit"} =>
              e = [kind |-> e.kind, n |-> e.n, count |-> e.count] /\ e.n \in Int /\ e.count \in Nat
         /\ e.kind = "column" =>
              /\ e = [kind |-> e.kind, n |-> e.n, counts |-> e.counts]
              /\ e.n \in Int /\ e.counts \in Seq(Nat \X Nat)
         /\ e.kind \in {"pass", "block", "strip", "missing", "regex", "columns", "values", "times",
                         "offset", "limit", "column"}
         /\ e.kind = "regex" => e.field \in {"row", "fam", "qual", "val"} /\ e.in \in SUBSET Nat
         /\ e.kind \in {"columns", "values"} => e.lo \in Bounds /\ e.hi \in Bounds
         /\ e.kind = "times" => e.start \in Int /\ e.end \in Int
BY DEF Leaves

\* An offset counts every cell.
LEMMA OffsetVerdict ==
  ASSUME NEW e \in Leaves, e.kind = "offset", NEW c \in Cells
  PROVE  LeafVerdict(e, c) = [ok |-> e.count + 1 > e.n,
                              e |-> [kind |-> "offset", n |-> e.n, count |-> e.count + 1]]
<1>1. e = [kind |-> "offset", n |-> e.n, count |-> e.count]
  BY LeafShape
<1>2. [e EXCEPT !.count = e.count + 1] = [kind |-> "offset", n |-> e.n, count |-> e.count + 1]
  BY <1>1
<1>3. LeafVerdict(e, c) = [ok |-> e.count + 1 > e.n, e |-> [e EXCEPT !.count = e.count + 1]]
  BY DEF LeafVerdict, Counter, Counted
<1> QED
  BY <1>2, <1>3

\* A limit counts the cells that it lets pass.
LEMMA LimitVerdict ==
  ASSUME NEW e \in Leaves, e.kind = "limit", NEW c \in Cells
  PROVE  LeafVerdict(e, c) =
           [ok |-> e.count < e.n,
            e |-> IF e.count < e.n THEN [kind |-> "limit", n |-> e.n, count |-> e.count + 1] ELSE e]
<1>1. e = [kind |-> "limit", n |-> e.n, count |-> e.count]
  BY LeafShape
<1>2. [e EXCEPT !.count = e.count + 1] = [kind |-> "limit", n |-> e.n, count |-> e.count + 1]
  BY <1>1
<1>3. LeafVerdict(e, c) = [ok |-> e.count < e.n,
                           e |-> IF e.count < e.n THEN [e EXCEPT !.count = e.count + 1] ELSE e]
  BY DEF LeafVerdict, Counter, Counted
<1> QED
  BY <1>2, <1>3

\* A column limit counts them per column.
LEMMA ColumnVerdict ==
  ASSUME NEW e \in Leaves, e.kind = "column", NEW c \in Cells
  PROVE  LET more == CountOf(e.counts, <<c.fam, c.qual>>) < e.n
             counts == Append(e.counts, <<c.fam, c.qual>>)
         IN /\ LeafVerdict(e, c) =
                 [ok |-> more,
                  e |-> IF more THEN [kind |-> "column", n |-> e.n, counts |-> counts] ELSE e]
            /\ counts \in Seq(Nat \X Nat)
<1> DEFINE more == CountOf(e.counts, <<c.fam, c.qual>>) < e.n
           counts == Append(e.counts, <<c.fam, c.qual>>)
<1>1. e = [kind |-> "column", n |-> e.n, counts |-> e.counts]
  BY LeafShape
<1>2. [e EXCEPT !.counts = counts] = [kind |-> "column", n |-> e.n, counts |-> counts]
  BY <1>1
<1>3. LeafVerdict(e, c) = [ok |-> more, e |-> IF more THEN [e EXCEPT !.counts = counts] ELSE e]
  BY DEF LeafVerdict, Counter, Counted
<1>4. <<c.fam, c.qual>> \in Nat \X Nat
  BY DEF Cells
<1>5. counts \in Seq(Nat \X Nat)
  BY <1>4, LeafShape
<1> QED
  BY <1>2, <1>3, <1>5

\* A leaf without state accepts a cell or rejects it.
LEMMA MatchesBoolean ==
  ASSUME NEW e \in Leaves, ~Counter(e), NEW c \in Cells
  PROVE  Matches(e, c) \in BOOLEAN
<1>1. CASE e.kind \in {"pass", "strip", "missing"}
  BY <1>1 DEF Matches
<1>2. CASE e.kind = "block"
  BY <1>2 DEF Matches
<1>3. CASE e.kind = "regex"
  BY <1>3 DEF Matches
<1>4. CASE e.kind = "columns"
  BY <1>4 DEF Matches, WithinBounds
<1>5. CASE e.kind = "values"
  BY <1>5 DEF Matches, WithinBounds
<1>6. CASE e.kind = "times"
  BY <1>6 DEF Matches, WithinTimes
<1> QED
  BY <1>1, <1>2, <1>3, <1>4, <1>5, <1>6, LeafShape DEF Counter

\* A leaf answers with yes or no and stays a leaf.
LEMMA LeafType ==
  ASSUME NEW e \in Leaves, NEW c \in Cells
  PROVE  /\ LeafVerdict(e, c) = [ok |-> LeafVerdict(e, c).ok, e |-> LeafVerdict(e, c).e]
         /\ LeafVerdict(e, c).ok \in BOOLEAN /\ LeafVerdict(e, c).e \in Leaves
<1>1. CASE e.kind = "offset"
  <2>1. e.n \in Int /\ e.count + 1 \in Nat
    BY <1>1, LeafShape
  <2>2. [kind |-> "offset", n |-> e.n, count |-> e.count + 1] \in Leaves
    BY <2>1 DEF Leaves
  <2> DEFINE more == e.count + 1 > e.n
  <2>3. more \in BOOLEAN /\ LeafVerdict(e, c) = [ok |-> more, e |-> [kind |-> "offset", n |-> e.n, count |-> e.count + 1]]
    BY <1>1, OffsetVerdict
  <2> HIDE DEF more
  <2> QED
    BY <2>2, <2>3
<1>2. CASE e.kind = "limit"
  <2>1. e.n \in Int /\ e.count + 1 \in Nat
    BY <1>2, LeafShape
  <2>2. [kind |-> "limit", n |-> e.n, count |-> e.count + 1] \in Leaves
    BY <2>1 DEF Leaves
  <2> DEFINE more == e.count < e.n
  <2>3. more \in BOOLEAN /\ LeafVerdict(e, c) = [ok |-> more, e |-> IF more THEN [kind |-> "limit", n |-> e.n, count |-> e.count + 1] ELSE e]
    BY <1>2, LimitVerdict
  <2> HIDE DEF more
  <2> QED
    BY <2>2, <2>3
<1>3. CASE e.kind = "column"
  <2> DEFINE more == CountOf(e.counts, <<c.fam, c.qual>>) < e.n
             counts == Append(e.counts, <<c.fam, c.qual>>)
  <2>1. /\ LeafVerdict(e, c) =
             [ok |-> more,
              e |-> IF more THEN [kind |-> "column", n |-> e.n, counts |-> counts] ELSE e]
        /\ counts \in Seq(Nat \X Nat)
    BY <1>3, ColumnVerdict
  <2> HIDE DEF counts
  <2>2. [kind |-> "column", n |-> e.n, counts |-> counts] \in Leaves
    BY <1>3, <2>1, LeafShape DEF Leaves
  <2> QED
    BY <2>1, <2>2
<1>4. CASE ~Counter(e)
  BY <1>4, MatchesBoolean DEF LeafVerdict
<1> QED
  BY <1>1, <1>2, <1>3, <1>4 DEF Counter

-------------------------------------------------------------------------------
(* Evaluation of a cell: composites. *)

\* The members of a composite that are asked about a cell.
Asked(e, v) ==
  {i \in DOMAIN e.fs :
     /\ e.kind = "chain" => \A j \in 1 .. i - 1 : v[j].ok
     /\ e.kind = "interleave" => \A j \in 1 .. i - 1 : ~v[j].ok
     /\ e.kind = "condition" => i \in {1, IF v[1].ok THEN 2 ELSE 3}}

\* Whether a composite lets the cell pass, but for those that an interleave has seen.
Accepts(e, v) ==
  /\ e.kind = "chain" => \A i \in DOMAIN e.fs : v[i].ok
  /\ e.kind = "interleave" => \E i \in DOMAIN e.fs : v[i].ok
  /\ e.kind = "condition" => v[IF v[1].ok THEN 2 ELSE 3].ok

\* What a composite answers to a cell and becomes, when its members say v.
Turns(n, e, c, v, r) ==
  /\ \A i \in DOMAIN e.fs : v[i].ok \in BOOLEAN /\ v[i].e \in Trees[n - 1]
  /\ r.ok \in BOOLEAN /\ r.e \in Composites(Trees[n - 1])
  /\ r.e.kind = e.kind /\ r.e.fs = Ask(e, v, Asked(e, v))
  /\ e.kind # "interleave" => r.ok = Accepts(e, v)
  /\ e.kind = "interleave" =>
       /\ r.ok = (Accepts(e, v) /\ <<c.fam, c.qual, c.ts>> \notin e.seen)
       /\ r.e.seen = IF Accepts(e, v) THEN e.seen \cup {<<c.fam, c.qual, c.ts>>} ELSE e.seen

\* Evaluation of a composite is of that form.
LEMMA CompositeVerdict ==
  ASSUME NEW n \in Depths, n # 0, n - 1 \in Depths, NEW e \in Composites(Trees[n - 1]), NEW c \in Cells,
         NEW v, v = Members(n - 1, e, c),
         \A i \in DOMAIN e.fs : v[i].ok \in BOOLEAN /\ v[i].e \in Trees[n - 1]
  PROVE  Turns(n, e, c, v, EvaluateTo[n][e][c])
<1> DEFINE S == Trees[n - 1]
           r == EvaluateTo[n][e][c]
           id == <<c.fam, c.qual, c.ts>>
           fs == Ask(e, v, Asked(e, v))
<1>1. e \in Trees[n]
  BY CompositesIn
<1>2. fs \in Seq(S) /\ Len(fs) = Len(e.fs)
  <2>1. \A i \in DOMAIN e.fs : v[i].e \in S
    OBVIOUS
  <2>2. e \in Composites(S)
    OBVIOUS
  <2> HIDE DEF S
  <2> QED
    BY <2>1, <2>2, AskType
<1>3. Accepts(e, v) \in BOOLEAN
  BY DEF Accepts
<1>4. CASE e.kind = "chain"
  <2>1. Asked(e, v) = {i \in DOMAIN e.fs : \A j \in 1 .. i - 1 : v[j].ok}
    BY <1>4 DEF Asked
  <2>2. Accepts(e, v) = \A i \in DOMAIN e.fs : v[i].ok
    BY <1>4 DEF Accepts
  <2>r. r = EvalChain(e, v)
    BY <1>1, <1>4, EvalComposite
  <2>3. r = [ok |-> Accepts(e, v), e |-> [e EXCEPT !.fs = fs]]
    BY <2>1, <2>2, <2>r, Zenon DEF EvalChain
  <2>4. e = [kind |-> "chain", fs |-> e.fs]
    BY <1>4, CompositeShape
  <2> HIDE DEF fs, r
  <2>5. [e EXCEPT !.fs = fs] = [kind |-> "chain", fs |-> fs]
    BY <2>4
  <2>6. [kind |-> "chain", fs |-> fs] \in Composites(S)
    BY <1>2 DEF Composites
  <2>7. /\ r = [ok |-> r.ok, e |-> r.e] /\ r.ok \in BOOLEAN /\ r.e \in Composites(Trees[n - 1])
        /\ r.e.kind = e.kind /\ r.e.fs = fs /\ r.ok = Accepts(e, v)
    BY <1>3, <1>4, <2>3, <2>5, <2>6
  <2> QED
    BY <1>4, <2>7 DEF Turns, fs, r
<1>5. CASE e.kind = "interleave"
  <2> DEFINE seen == IF Accepts(e, v) THEN e.seen \cup {id} ELSE e.seen
             ok == Accepts(e, v) /\ id \notin e.seen
  <2>1. Asked(e, v) = {i \in DOMAIN e.fs : \A j \in 1 .. i - 1 : ~v[j].ok}
    BY <1>5 DEF Asked
  <2>2. Accepts(e, v) = \E i \in DOMAIN e.fs : v[i].ok
    BY <1>5 DEF Accepts
  <2>r. r = EvalInterleave(e, v, c)
    BY <1>1, <1>5, EvalComposite
  <2>3. r = [ok |-> ok, e |-> [kind |-> "interleave", fs |-> fs, seen |-> seen]]
    BY <2>1, <2>2, <2>r, Zenon DEF EvalInterleave
  <2>4. e = [kind |-> "interleave", fs |-> e.fs, seen |-> e.seen]
        /\ e.seen \in SUBSET (Nat \X Nat \X Int)
    BY <1>5, CompositeShape
  <2>5. id \in Nat \X Nat \X Int
    BY DEF Cells
  <2>6. seen \in SUBSET (Nat \X Nat \X Int) /\ ok \in BOOLEAN
    BY <2>4, <2>5
  <2> HIDE DEF fs, r, seen, ok
  <2>8. [kind |-> "interleave", fs |-> fs, seen |-> seen] \in Composites(S)
    BY <1>2, <2>6 DEF Composites
  <2>9. /\ r = [ok |-> r.ok, e |-> r.e] /\ r.ok \in BOOLEAN /\ r.e \in Composites(Trees[n - 1])
        /\ r.e.kind = e.kind /\ r.e.fs = fs /\ r.ok = ok /\ r.e.seen = seen
    BY <1>5, <2>3, <2>6, <2>8
  <2> QED
    BY <1>5, <2>9 DEF Turns, fs, r, seen, ok, id
<1>6. CASE e.kind = "condition"
  <2>1. e.fs \in Seq(S) /\ Len(e.fs) = 3 /\ DOMAIN e.fs = 1 .. 3
        /\ e = [kind |-> "condition", fs |-> e.fs]
    BY <1>6, CompositeShape
  <2>2. Asked(e, v) = {1, IF v[1].ok THEN 2 ELSE 3}
    BY <1>6, <2>1 DEF Asked
  <2>b. v[IF v[1].ok THEN 2 ELSE 3].ok \in BOOLEAN
    BY <2>1
  <2>3. Accepts(e, v) = v[IF v[1].ok THEN 2 ELSE 3].ok
    <3> DEFINE b == v[IF v[1].ok THEN 2 ELSE 3].ok
    <3>1. Accepts(e, v) <=> b
      BY <1>6 DEF Accepts
    <3> HIDE DEF b
    <3>2. Accepts(e, v) = b
      BY <1>3, <2>b, <3>1 DEF b
    <3> QED
      BY <3>2 DEF b
  <2>r. r = EvalCondition(e, v)
    BY <1>1, <1>6, EvalComposite
  <2>4. r = [ok |-> Accepts(e, v), e |-> [e EXCEPT !.fs = fs]]
    BY <2>2, <2>3, <2>r, Zenon DEF EvalCondition
  <2> HIDE DEF fs, r
  <2>5. [e EXCEPT !.fs = fs] = [kind |-> "condition", fs |-> fs]
    BY <2>1
  <2>6. [kind |-> "condition", fs |-> fs] \in Composites(S)
    BY <1>2, <2>1, MakeComposite
  <2>7. /\ r = [ok |-> r.ok, e |-> r.e] /\ r.ok \in BOOLEAN /\ r.e \in Composites(Trees[n - 1])
        /\ r.e.kind = e.kind /\ r.e.fs = fs /\ r.ok = Accepts(e, v)
    BY <1>3, <1>6, <2>4, <2>5, <2>6
  <2> QED
    BY <1>6, <2>7 DEF Turns, fs, r
<1> QED
  BY <1>4, <1>5, <1>6, CompositeShape

\* An evaluator answers, and stays one.
LEMMA EvalType ==
  \A n \in Depths : \A e \in Trees[n], c \in Cells :
    /\ EvaluateTo[n][e][c].ok \in BOOLEAN
    /\ EvaluateTo[n][e][c].e \in Trees[n]
    /\ e \in Leaves => EvaluateTo[n][e][c].e \in Leaves
<1> DEFINE Q == {n \in Depths : \A e \in Trees[n], c \in Cells :
                   /\ EvaluateTo[n][e][c].ok \in BOOLEAN
                   /\ EvaluateTo[n][e][c].e \in Trees[n]
                   /\ e \in Leaves => EvaluateTo[n][e][c].e \in Leaves}
<1>1. ASSUME NEW n \in Depths, NEW e \in Leaves, NEW c \in Cells
      PROVE  EvaluateTo[n][e][c].ok \in BOOLEAN /\ EvaluateTo[n][e][c].e \in Leaves
  BY EvalLeaf, LeafType
<1>2. 0 \in Q
  BY <1>1, NoDepth, DepthFacts
<1>3. ASSUME NEW n \in Depths \ {0}, n - 1 \in Q PROVE n \in Q
  <2> SUFFICES ASSUME NEW e \in Trees[n], NEW c \in Cells
               PROVE  /\ EvaluateTo[n][e][c].ok \in BOOLEAN
                      /\ EvaluateTo[n][e][c].e \in Trees[n]
                      /\ e \in Leaves => EvaluateTo[n][e][c].e \in Leaves
    OBVIOUS
  <2>1. CASE e \in Leaves
    BY <1>1, <2>1, LeavesIn
  <2>2. CASE e \in Composites(Trees[n - 1]) /\ e \notin Leaves
    <3>1. \A i \in DOMAIN e.fs : e.fs[i] \in Trees[n - 1]
      BY <2>2, CompositeShape
    <3>2. \A i \in DOMAIN e.fs : /\ Members(n - 1, e, c)[i].ok \in BOOLEAN
                                 /\ Members(n - 1, e, c)[i].e \in Trees[n - 1]
      BY <1>3, <3>1 DEF Members
    <3>3. EvaluateTo[n][e][c].ok \in BOOLEAN /\ EvaluateTo[n][e][c].e \in Composites(Trees[n - 1])
      BY <1>3, <2>2, <3>2, CompositeVerdict, DepthFacts DEF Turns
    <3> QED
      BY <2>2, <3>3, CompositesIn
  <2> QED
    BY <2>1, <2>2, TreeCases
<1> HIDE DEF Q
<1>4. \A n \in Depths : n \in Q
  BY <1>2, <1>3, DepthInduction
<1> QED
  BY <1>4 DEF Q

\* What a composite says of a cell, and what it becomes.
LEMMA Verdict ==
  ASSUME NEW n \in Depths, n # 0, NEW e \in Composites(Trees[n - 1]), NEW c \in Cells,
         NEW v, v = Members(n - 1, e, c)
  PROVE  Turns(n, e, c, v, EvaluateTo[n][e][c])
<1>1. n - 1 \in Depths
  BY DepthFacts
<1>2. \A i \in DOMAIN e.fs : v[i].ok \in BOOLEAN /\ v[i].e \in Trees[n - 1]
  BY <1>1, CompositeShape, EvalType DEF Members
<1> QED
  BY <1>1, <1>2, CompositeVerdict

-------------------------------------------------------------------------------
(* Reset, and solutions of a recursion over a sequence. *)

\* A leaf that has seen no cell.
LeafReset(e) ==
  CASE e.kind \in {"offset", "limit"} -> [kind |-> e.kind, n |-> e.n, count |-> 0]
    [] e.kind = "column" -> [kind |-> "column", n |-> e.n, counts |-> <<>>]
    [] OTHER -> e

\* The members of a composite, reset.
Resets(n, e) == [i \in DOMAIN e.fs |-> ResetTo[n][e.fs[i]]]

\* A reset of a leaf clears its counters.
LEMMA ResetLeaf ==
  ASSUME NEW n \in Depths, NEW e \in Leaves
  PROVE  ResetTo[n][e] = LeafReset(e) /\ LeafReset(e) \in Leaves
<1>1. e \in Trees[n] /\ e.kind \notin {"chain", "interleave", "condition"}
  BY LeavesIn, LeafKinds
<1>2. ResetTo[n][e] = ResetBody(n, ResetTo[n - 1])[e]
  BY ResetAre
<1>3. CASE e.kind \in {"offset", "limit"}
  <2>1. e = [kind |-> e.kind, n |-> e.n, count |-> e.count] /\ e.n \in Int
    BY <1>3, LeafShape
  <2>2. [e EXCEPT !.count = 0] = [kind |-> e.kind, n |-> e.n, count |-> 0]
    BY <2>1
  <2>3. [kind |-> e.kind, n |-> e.n, count |-> 0] \in Leaves
    BY <1>3, <2>1 DEF Leaves
  <2> QED
    BY <1>1, <1>2, <1>3, <2>2, <2>3 DEF ResetBody, LeafReset
<1>4. CASE e.kind = "column"
  <2>1. e = [kind |-> e.kind, n |-> e.n, counts |-> e.counts] /\ e.n \in Int
    BY <1>4, LeafShape
  <2>2. [e EXCEPT !.counts = <<>>] = [kind |-> e.kind, n |-> e.n, counts |-> <<>>]
    BY <2>1
  <2>3. [kind |-> e.kind, n |-> e.n, counts |-> <<>>] \in Leaves
    BY <1>4, <2>1 DEF Leaves
  <2> QED
    BY <1>1, <1>2, <1>4, <2>2, <2>3 DEF ResetBody, LeafReset
<1>5. CASE e.kind \notin {"offset", "limit", "column"}
  BY <1>1, <1>2, <1>5 DEF ResetBody, LeafReset
<1> QED
  BY <1>3, <1>4, <1>5

\* A reset of a composite resets its members; an interleave forgets what it has seen.
LEMMA ResetComposite ==
  ASSUME NEW n \in Depths, n # 0, NEW e \in Composites(Trees[n - 1])
  PROVE  /\ e.kind = "chain" => ResetTo[n][e] = [kind |-> "chain", fs |-> Resets(n - 1, e)]
         /\ e.kind = "interleave" =>
              ResetTo[n][e] = [kind |-> "interleave", fs |-> Resets(n - 1, e), seen |-> {}]
         /\ e.kind = "condition" => ResetTo[n][e] = [kind |-> "condition", fs |-> Resets(n - 1, e)]
<1> DEFINE fs == Resets(n - 1, e)
<1>1. e \in Trees[n]
  BY CompositesIn
<1>2. ResetTo[n][e] = ResetBody(n, ResetTo[n - 1])[e]
  BY ResetAre
<1>3. CASE e.kind = "chain"
  <2>1. e = [kind |-> "chain", fs |-> e.fs]
    BY <1>3, CompositeShape
  <2>2. ResetTo[n][e] = [e EXCEPT !.fs = fs]
    BY <1>1, <1>2, <1>3 DEF ResetBody, Resets
  <2> HIDE DEF fs
  <2>3. ResetTo[n][e] = [kind |-> "chain", fs |-> fs]
    BY <2>1, <2>2
  <2> QED
    BY <1>3, <2>3 DEF fs
<1>4. CASE e.kind = "interleave"
  BY <1>1, <1>2, <1>4 DEF ResetBody, Resets, InterleaveOf
<1>5. CASE e.kind = "condition"
  <2>1. e = [kind |-> "condition", fs |-> e.fs]
    BY <1>5, CompositeShape
  <2>2. ResetTo[n][e] = [e EXCEPT !.fs = fs]
    BY <1>1, <1>2, <1>5 DEF ResetBody, Resets
  <2> HIDE DEF fs
  <2>3. ResetTo[n][e] = [kind |-> "condition", fs |-> fs]
    BY <2>1, <2>2
  <2> QED
    BY <1>5, <2>3 DEF fs
<1> QED
  BY <1>3, <1>4, <1>5, CompositeShape

\* What a leaf becomes is reset to the same.
LEMMA LeafKept ==
  ASSUME NEW e \in Leaves, NEW c \in Cells
  PROVE  LeafReset(LeafVerdict(e, c).e) = LeafReset(e)
<1>1. CASE e.kind = "offset"
  BY <1>1, OffsetVerdict DEF LeafReset
<1>2. CASE e.kind = "limit"
  BY <1>2, LimitVerdict DEF LeafReset
<1>3. CASE e.kind = "column"
  <2> DEFINE more == CountOf(e.counts, <<c.fam, c.qual>>) < e.n
             counts == Append(e.counts, <<c.fam, c.qual>>)
  <2>1. LeafVerdict(e, c) =
          [ok |-> more, e |-> IF more THEN [kind |-> "column", n |-> e.n, counts |-> counts] ELSE e]
    BY <1>3, ColumnVerdict
  <2> HIDE DEF more, counts
  <2>2. \/ LeafVerdict(e, c).e = e
        \/ LeafVerdict(e, c).e = [kind |-> "column", n |-> e.n, counts |-> counts]
    BY <2>1
  <2> QED
    BY <1>3, <2>2 DEF LeafReset
<1>4. CASE ~Counter(e)
  BY <1>4 DEF LeafVerdict
<1> QED
  BY <1>1, <1>2, <1>3, <1>4 DEF Counter

\* Resetting an evaluator gives one, the same whatever cells it has seen.
LEMMA ResetKept ==
  \A n \in Depths : \A e \in Trees[n] :
    /\ ResetTo[n][e] \in Trees[n]
    /\ \A c \in Cells : ResetTo[n][EvaluateTo[n][e][c].e] = ResetTo[n][e]
<1> DEFINE Q == {n \in Depths : \A e \in Trees[n] :
                   /\ ResetTo[n][e] \in Trees[n]
                   /\ \A c \in Cells : ResetTo[n][EvaluateTo[n][e][c].e] = ResetTo[n][e]}
<1>1. ASSUME NEW n \in Depths, NEW e \in Leaves
      PROVE  /\ ResetTo[n][e] \in Trees[n]
             /\ \A c \in Cells : ResetTo[n][EvaluateTo[n][e][c].e] = ResetTo[n][e]
  <2>1. ResetTo[n][e] \in Trees[n]
    BY ResetLeaf, LeavesIn
  <2>2. ASSUME NEW c \in Cells PROVE ResetTo[n][EvaluateTo[n][e][c].e] = ResetTo[n][e]
    <3>1. EvaluateTo[n][e][c].e = LeafVerdict(e, c).e /\ LeafVerdict(e, c).e \in Leaves
      BY EvalLeaf, LeafType
    <3> QED
      BY <3>1, ResetLeaf, LeafKept
  <2> QED
    BY <2>1, <2>2
<1>2. 0 \in Q
  BY <1>1, NoDepth, DepthFacts
<1>3. ASSUME NEW n \in Depths \ {0}, n - 1 \in Q PROVE n \in Q
  <2>0. n - 1 \in Depths
    BY DepthFacts
  <2> SUFFICES ASSUME NEW e \in Trees[n], e \in Composites(Trees[n - 1])
               PROVE  /\ ResetTo[n][e] \in Trees[n]
                      /\ \A c \in Cells : ResetTo[n][EvaluateTo[n][e][c].e] = ResetTo[n][e]
    BY <1>1, TreeCases
  <2>1. /\ e.fs \in Seq(Trees[n - 1]) /\ DOMAIN e.fs = 1 .. Len(e.fs) /\ Len(e.fs) \in Nat
        /\ \A i \in DOMAIN e.fs : e.fs[i] \in Trees[n - 1]
    BY CompositeShape
  <2>2. Resets(n - 1, e) \in Seq(Trees[n - 1]) /\ Len(Resets(n - 1, e)) = Len(e.fs)
    <3>1. Resets(n - 1, e) \in [1 .. Len(e.fs) -> Trees[n - 1]]
      BY <1>3, <2>1 DEF Resets
    <3> QED
      BY <2>1, <3>1, FunctionIsSeq
  <2>3. ResetTo[n][e] \in Composites(Trees[n - 1])
    <3>1. {} \in SUBSET (Nat \X Nat \X Int)
      OBVIOUS
    <3>2. CASE e.kind = "chain"
      <4> DEFINE fs == Resets(n - 1, e)
      <4>1. ResetTo[n][e] = [kind |-> "chain", fs |-> fs] /\ fs \in Seq(Trees[n - 1])
        BY <2>2, <3>2, ResetComposite
      <4> HIDE DEF fs
      <4> QED
        BY <3>1, <4>1, MakeComposite
    <3>3. CASE e.kind = "interleave"
      <4> DEFINE fs == Resets(n - 1, e)
      <4>1. ResetTo[n][e] = [kind |-> "interleave", fs |-> fs, seen |-> {}] /\ fs \in Seq(Trees[n - 1])
        BY <2>2, <3>3, ResetComposite
      <4> HIDE DEF fs
      <4> QED
        BY <4>1 DEF Composites
    <3>4. CASE e.kind = "condition"
      <4> DEFINE fs == Resets(n - 1, e)
      <4>1. ResetTo[n][e] = [kind |-> "condition", fs |-> fs] /\ fs \in Seq(Trees[n - 1])
        BY <2>2, <3>4, ResetComposite
      <4>2. Len(fs) = 3
        BY <2>2, <3>4, CompositeShape
      <4> HIDE DEF fs
      <4> QED
        BY <3>1, <4>1, <4>2, MakeComposite
    <3> QED
      BY <3>2, <3>3, <3>4, CompositeShape
  <2>4. ASSUME NEW c \in Cells PROVE ResetTo[n][EvaluateTo[n][e][c].e] = ResetTo[n][e]
    <3> DEFINE v == Members(n - 1, e, c)
               r == EvaluateTo[n][e][c].e
    <3>1. \A i \in DOMAIN e.fs : ResetTo[n - 1][v[i].e] = ResetTo[n - 1][e.fs[i]]
      BY <1>3, <2>1 DEF Members
    <3>v. v = Members(n - 1, e, c)
      OBVIOUS
    <3> HIDE DEF v
    <3>t. Turns(n, e, c, v, EvaluateTo[n][e][c])
      BY <3>v, Verdict
    <3>2. r \in Composites(Trees[n - 1]) /\ r.kind = e.kind /\ r.fs = Ask(e, v, Asked(e, v))
      BY <3>t DEF Turns
    <3>3. /\ DOMAIN r.fs = DOMAIN e.fs
          /\ \A i \in DOMAIN e.fs : r.fs[i] = v[i].e \/ r.fs[i] = e.fs[i]
      BY <3>2 DEF Ask
    <3> HIDE DEF r
    <3>4. Resets(n - 1, r) = Resets(n - 1, e)
      BY <3>1, <3>3 DEF Resets
    <3>5. ResetTo[n][r] = ResetTo[n][e]
      <4>1. CASE e.kind = "chain"
        BY <3>2, <3>4, <4>1, ResetComposite
      <4>2. CASE e.kind = "interleave"
        BY <3>2, <3>4, <4>2, ResetComposite
      <4>3. CASE e.kind = "condition"
        BY <3>2, <3>4, <4>3, ResetComposite
      <4> QED
        BY <4>1, <4>2, <4>3, CompositeShape
    <3> QED
      BY <3>5 DEF r
  <2> QED
    BY <2>3, <2>4, CompositesIn
<1> HIDE DEF Q
<1>4. \A n \in Depths : n \in Q
  BY <1>2, <1>3, DepthInduction
<1> QED
  BY <1>4 DEF Q

\* F[i] maps X to itself.
Steps(X, m, F) == \A i \in 1 .. m : \A x \in X : F[i][x] \in X

\* g is a sequence of m steps by F that begins with a.
Follows(g, X, a, m, F) ==
  g \in [0 .. m -> X] /\ g[0] = a /\ \A i \in 1 .. m : g[i] = F[i][g[i - 1]]

\* A function that is defined step by step exists.
LEMMA Recursion ==
  ASSUME NEW X, NEW a \in X, NEW m \in Nat, NEW F, Steps(X, m, F)
  PROVE  \E g : Follows(g, X, a, m, F)
<1> USE DEF Steps, Follows
<1> DEFINE Q == {k \in Nat : k <= m =>
                   \E g \in [0 .. k -> X] : g[0] = a /\ \A i \in 1 .. k : g[i] = F[i][g[i - 1]]}
<1>1. 0 \in Q
  <2> DEFINE g == [i \in 0 .. 0 |-> a]
  <2>1. g \in [0 .. 0 -> X] /\ g[0] = a /\ \A i \in 1 .. 0 : g[i] = F[i][g[i - 1]]
    OBVIOUS
  <2> HIDE DEF g
  <2> QED
    BY <2>1
<1>2. ASSUME NEW k \in Nat, k \in Q PROVE k + 1 \in Q
  <2> SUFFICES ASSUME k + 1 <= m
               PROVE  \E g \in [0 .. (k + 1) -> X] :
                        g[0] = a /\ \A i \in 1 .. (k + 1) : g[i] = F[i][g[i - 1]]
    OBVIOUS
  <2>1. PICK g \in [0 .. k -> X] : g[0] = a /\ \A i \in 1 .. k : g[i] = F[i][g[i - 1]]
    BY <1>2
  <2> DEFINE h == [i \in 0 .. (k + 1) |-> IF i = k + 1 THEN F[i][g[k]] ELSE g[i]]
  <2>2. h \in [0 .. (k + 1) -> X]
    <3>1. F[k + 1][g[k]] \in X
      BY <2>1
    <3> QED
      BY <2>1, <3>1
  <2>3. h[0] = a /\ \A i \in 1 .. (k + 1) : h[i] = F[i][h[i - 1]]
    BY <2>1
  <2> HIDE DEF h
  <2> QED
    BY <2>2, <2>3
<1> HIDE DEF Q
<1>3. \A k \in Nat : k \in Q
  BY <1>1, <1>2, UpInduction
<1> QED
  BY <1>3 DEF Q

-------------------------------------------------------------------------------
(* The meaning of a filter for positions of a sequence. *)

\* The positions that a filter without state keeps.
RefMatched(e, cells, I) == {i \in I : RefMatches(e, cells[i])}

\* What a leaf means for the positions I.
LEMMA RefLeaf ==
  ASSUME NEW n \in Depths, NEW e \in Leaves, NEW cells \in Seq(Cells), NEW I \in SUBSET Nat
  PROVE  RefTo[n][e][cells][I] =
           IF Counter(e) THEN RefKept(e, cells, I) ELSE RefMatched(e, cells, I)
<1>1. e \in Trees[n] /\ e.kind \notin {"chain", "interleave", "condition"}
  BY LeavesIn, LeafKinds
<1>2. RefTo[n][e][cells][I] = RefBody(n, RefTo[n - 1])[e][cells][I]
  BY RefAre
<1> QED
  BY <1>1, <1>2 DEF RefBody, RefMatched

\* The outputs of the members of a chain, one after the other.
Outputs(n, e, cells, I, out) ==
  /\ out \in [0 .. Len(e.fs) -> SUBSET Nat] /\ out[0] = I
  /\ \A k \in 1 .. Len(e.fs) : out[k] = RefTo[n - 1][e.fs[k]][cells][out[k - 1]]

\* A chain hands the positions from member to member.
LEMMA RefChain ==
  ASSUME NEW n \in Depths, n # 0, NEW e \in Composites(Trees[n - 1]), NEW cells \in Seq(Cells),
         NEW I \in SUBSET Nat, e.kind = "chain",
         \A k \in DOMAIN e.fs : \A J \in SUBSET Nat : RefTo[n - 1][e.fs[k]][cells][J] \in SUBSET Nat
  PROVE  \E out : Outputs(n, e, cells, I, out) /\ RefTo[n][e][cells][I] = out[Len(e.fs)]
<1> DEFINE m == Len(e.fs)
           F == [k \in 1 .. m |-> [J \in SUBSET Nat |-> RefTo[n - 1][e.fs[k]][cells][J]]]
           B(g) == [k \in 0 .. Len(e.fs) |-> IF k = 0 THEN I ELSE RefTo[n - 1][e.fs[k]][cells][g[k - 1]]]
           out == CHOOSE g : g = B(g)
<1>1. m \in Nat /\ DOMAIN e.fs = 1 .. m
  BY CompositeShape
<1> DEFINE X == SUBSET Nat
<1>2. I \in X /\ Steps(X, m, F)
  BY <1>1 DEF Steps
<1>3. PICK h : Follows(h, X, I, m, F)
  <2> HIDE DEF F, m, X
  <2> QED
    BY <1>1, <1>2, Recursion
<1>4. PICK g \in [0 .. m -> X] : g[0] = I /\ \A k \in 1 .. m : g[k] = F[k][g[k - 1]]
  <2> HIDE DEF F, m, X
  <2> QED
    BY <1>3 DEF Follows
<1>5. ASSUME NEW k \in 1 .. m PROVE g[k] = RefTo[n - 1][e.fs[k]][cells][g[k - 1]]
  <2>1. g[k - 1] \in X /\ g[k] = F[k][g[k - 1]]
    <3> HIDE DEF X, F, m
    <3> QED
      BY <1>1, <1>4
  <2>2. \A J \in X : F[k][J] = RefTo[n - 1][e.fs[k]][cells][J]
    OBVIOUS
  <2> HIDE DEF X, F
  <2> QED
    BY <2>1, <2>2
<1>6. g = B(g)
  <2>1. g = [k \in 0 .. m |-> g[k]]
    BY <1>4
  <2>2. ASSUME NEW k \in 0 .. m
        PROVE g[k] = IF k = 0 THEN I ELSE RefTo[n - 1][e.fs[k]][cells][g[k - 1]]
    BY <1>1, <1>4, <1>5
  <2> HIDE DEF F
  <2> QED
    BY <2>1, <2>2
<1>7. out = B(out)
  <2> HIDE DEF B
  <2> QED
    BY <1>6
<1>8. \A k \in 0 .. m : out[k] = IF k = 0 THEN I ELSE RefTo[n - 1][e.fs[k]][cells][out[k - 1]]
  <2> HIDE DEF out
  <2> QED
    BY <1>7
<1>9. out = [k \in 0 .. m |-> out[k]]
  <2> HIDE DEF out
  <2> QED
    BY <1>7
<1>10. e \in Trees[n]
  BY CompositesIn
<1>11. RefTo[n][e][cells][I] = RefBody(n, RefTo[n - 1])[e][cells][I]
  BY RefAre
<1>12. RefBody(n, RefTo[n - 1])[e][cells][I] = out[Len(e.fs)]
  <2>1. RefBody(n, RefTo[n - 1])[e][cells][I] =
          LET of(k, J) == RefTo[n - 1][e.fs[k]][cells][J]
              ouu[k \in 0 .. Len(e.fs)] == IF k = 0 THEN I ELSE of(k, ouu[k - 1])
          IN CASE e.kind = "chain" -> ouu[Len(e.fs)]
               [] e.kind = "interleave" -> UNION {of(k, I) : k \in DOMAIN e.fs}
               [] e.kind = "condition" -> IF of(1, I) # {} THEN of(2, I) ELSE of(3, I)
               [] Counter(e) -> RefKept(e, cells, I)
               [] OTHER -> {i \in I : RefMatches(e, cells[i])}
    BY <1>10 DEF RefBody
  <2> QED
    BY <2>1 DEF Counter
<1>13. \A k \in 0 .. m : out[k] \in SUBSET Nat
  <2> DEFINE Q == {k \in Nat : k <= m => out[k] \in SUBSET Nat}
  <2> HIDE DEF out
  <2>1. 0 \in Q
    <3>1. out[0] = I
      BY <1>1, <1>8
    <3> QED
      BY <3>1
  <2>2. ASSUME NEW k \in Nat, k \in Q PROVE k + 1 \in Q
    <3> SUFFICES ASSUME k + 1 <= m PROVE out[k + 1] \in SUBSET Nat
      OBVIOUS
    <3>1. out[k + 1] = RefTo[n - 1][e.fs[k + 1]][cells][out[k]] /\ k + 1 \in DOMAIN e.fs
      BY <1>1, <1>8
    <3> QED
      BY <1>1, <2>2, <3>1
  <2> HIDE DEF Q
  <2>3. \A k \in Nat : k \in Q
    BY <2>1, <2>2, UpInduction
  <2> QED
    BY <1>1, <2>3 DEF Q
<1>14. Outputs(n, e, cells, I, out)
  <2> HIDE DEF out
  <2>1. \A k \in 0 .. m : out[k] \in X
    BY <1>13
  <2>2. out \in [0 .. m -> X]
    <3> HIDE DEF X, m
    <3> QED
      BY <1>9, <2>1
  <2>3. out[0] = I /\ \A k \in 1 .. m : out[k] = RefTo[n - 1][e.fs[k]][cells][out[k - 1]]
    BY <1>1, <1>8
  <2> QED
    BY <2>2, <2>3 DEF Outputs
<1> HIDE DEF out
<1> QED
  BY <1>11, <1>12, <1>14

\* An interleave unites what its members leave, a condition takes the branch of the row.
LEMMA RefOther ==
  ASSUME NEW n \in Depths, n # 0, NEW e \in Composites(Trees[n - 1]), NEW cells \in Seq(Cells),
         NEW I \in SUBSET Nat
  PROVE  /\ e.kind = "interleave" =>
              RefTo[n][e][cells][I] = UNION {RefTo[n - 1][e.fs[k]][cells][I] : k \in DOMAIN e.fs}
         /\ e.kind = "condition" =>
              RefTo[n][e][cells][I] =
                IF RefTo[n - 1][e.fs[1]][cells][I] # {} THEN RefTo[n - 1][e.fs[2]][cells][I]
                                                       ELSE RefTo[n - 1][e.fs[3]][cells][I]
<1>1. e \in Trees[n]
  BY CompositesIn
<1>2. RefTo[n][e][cells][I] = RefBody(n, RefTo[n - 1])[e][cells][I]
  BY RefAre
<1> QED
  BY <1>1, <1>2 DEF RefBody, Counter

\* A filter leaves some of the cells.
LEMMA RefSubset ==
  \A n \in Depths : \A e \in Trees[n], cells \in Seq(Cells), I \in SUBSET Nat :
    RefTo[n][e][cells][I] \subseteq I
<1> DEFINE Q == {n \in Depths : \A e \in Trees[n], cells \in Seq(Cells), I \in SUBSET Nat :
                   RefTo[n][e][cells][I] \subseteq I}
<1>1. ASSUME NEW n \in Depths, NEW e \in Leaves, NEW cells \in Seq(Cells), NEW I \in SUBSET Nat
      PROVE  RefTo[n][e][cells][I] \subseteq I
  <2>1. Counter(e) => RefKept(e, cells, I) \subseteq I
    BY DEF Counter, RefKept
  <2>2. RefMatched(e, cells, I) \subseteq I
    BY DEF RefMatched
  <2>3. CASE Counter(e)
    BY <2>1, <2>3, RefLeaf
  <2>4. CASE ~Counter(e)
    BY <2>2, <2>4, RefLeaf
  <2> QED
    BY <2>3, <2>4
<1>2. 0 \in Q
  BY <1>1, NoDepth, DepthFacts
<1>3. ASSUME NEW n \in Depths \ {0}, n - 1 \in Q PROVE n \in Q
  <2> SUFFICES ASSUME NEW e \in Composites(Trees[n - 1]), NEW cells \in Seq(Cells), NEW I \in SUBSET Nat
               PROVE  RefTo[n][e][cells][I] \subseteq I
    BY <1>1, TreeCases
  <2>1. DOMAIN e.fs = 1 .. Len(e.fs) /\ Len(e.fs) \in Nat /\ \A k \in DOMAIN e.fs : e.fs[k] \in Trees[n - 1]
    BY CompositeShape
  <2>2. \A k \in DOMAIN e.fs : \A J \in SUBSET Nat : RefTo[n - 1][e.fs[k]][cells][J] \subseteq J
    BY <1>3, <2>1
  <2>3. CASE e.kind = "chain"
    <3>1. PICK out : Outputs(n, e, cells, I, out) /\ RefTo[n][e][cells][I] = out[Len(e.fs)]
      <4>1. \A k \in DOMAIN e.fs : \A J \in SUBSET Nat : RefTo[n - 1][e.fs[k]][cells][J] \in SUBSET Nat
        BY <2>2
      <4> QED
        BY <2>3, <4>1, RefChain
    <3> DEFINE P == {k \in Nat : k <= Len(e.fs) => out[k] \subseteq I}
    <3>2. 0 \in P
      BY <3>1 DEF Outputs
    <3>3. ASSUME NEW k \in Nat, k \in P PROVE k + 1 \in P
      <4> SUFFICES ASSUME k + 1 <= Len(e.fs) PROVE out[k + 1] \subseteq I
        OBVIOUS
      <4>0. k \in 0 .. Len(e.fs) /\ k + 1 \in 1 .. Len(e.fs) /\ (k + 1) - 1 = k
        BY <2>1
      <4>1. out[k + 1] = RefTo[n - 1][e.fs[k + 1]][cells][out[k]] /\ out[k] \in SUBSET Nat
        BY <3>1, <4>0 DEF Outputs
      <4>2. RefTo[n - 1][e.fs[k + 1]][cells][out[k]] \subseteq out[k]
        BY <2>1, <2>2, <4>0, <4>1
      <4>3. out[k] \subseteq I
        BY <3>3, <4>0
      <4> QED
        BY <4>1, <4>2, <4>3
    <3> HIDE DEF P
    <3>4. \A k \in Nat : k \in P
      BY <3>2, <3>3, UpInduction
    <3> QED
      BY <2>1, <3>1, <3>4 DEF P
  <2>4. CASE e.kind = "interleave"
    <3>1. \A k \in DOMAIN e.fs : RefTo[n - 1][e.fs[k]][cells][I] \subseteq I
      BY <2>2
    <3>2. RefTo[n][e][cells][I] = UNION {RefTo[n - 1][e.fs[k]][cells][I] : k \in DOMAIN e.fs}
      BY <2>4, RefOther
    <3> QED
      BY <3>1, <3>2
  <2>5. CASE e.kind = "condition"
    <3>1. DOMAIN e.fs = 1 .. 3
      BY <2>1, <2>5, CompositeShape
    <3> QED
      BY <2>2, <2>5, <3>1, RefOther
  <2> QED
    BY <2>3, <2>4, <2>5, CompositeShape
<1> HIDE DEF Q
<1>4. \A n \in Depths : n \in Q
  BY <1>2, <1>3, DepthInduction
<1> QED
  BY <1>4 DEF Q

-------------------------------------------------------------------------------
(* Filters without state, and filters that look at the row only. *)

\* The members of a plain composite are plain.
LEMMA PlainMembers ==
  ASSUME NEW n \in Depths, n # 0, NEW e \in Composites(Trees[n - 1]), PlainTo[n][e]
  PROVE  /\ \A k \in DOMAIN e.fs : PlainTo[n - 1][e.fs[k]]
         /\ e.kind = "interleave" => \A k \in DOMAIN e.fs : StatelessTo[n - 1][e.fs[k]]
         /\ e.kind = "condition" => RowOnly(e.fs[1])
<1>1. e \in Trees[n] /\ Composite(e)
  BY CompositesIn, CompositeShape
<1>2. PlainBody(n, PlainTo[n - 1])[e]
  BY PlainAre
<1> QED
  BY <1>1, <1>2 DEF PlainBody

\* The members of a composite without state have none.
LEMMA StatelessMembers ==
  ASSUME NEW n \in Depths, n # 0, NEW e \in Composites(Trees[n - 1]), StatelessTo[n][e]
  PROVE  \A k \in DOMAIN e.fs : StatelessTo[n - 1][e.fs[k]]
<1>1. e \in Trees[n] /\ Composite(e)
  BY CompositesIn, CompositeShape
<1>2. StatelessBody(n, StatelessTo[n - 1])[e]
  BY StatelessAre
<1> QED
  BY <1>1, <1>2 DEF StatelessBody

\* A plain leaf without state means what it does.
LEMMA PlainLeaf ==
  ASSUME NEW n \in Depths, NEW e \in Leaves, PlainTo[n][e], ~Counter(e), NEW c \in Cells
  PROVE  RefMatches(e, c) = Matches(e, c)
<1>1. e \in Trees[n]
  BY LeavesIn
<1>2. PlainBody(n, PlainTo[n - 1])[e]
  BY PlainAre
<1>3. /\ e.kind \in {"columns", "values"} => /\ e.lo.set => e.lo.key # 0 \/ e.lo.incl
                                             /\ e.hi.set => e.hi.key # 0
      /\ e.kind = "times" => e.start > 0 /\ e.end >= 0
      /\ e.kind # "missing"
  BY <1>1, <1>2 DEF PlainBody
<1>4. c.qual \in Nat /\ c.val \in Nat /\ c.ts \in Int
  BY DEF Cells
<1>5. ASSUME e.kind \in {"columns", "values"}, NEW x \in Nat
      PROVE  RefWithin(x, e.lo, e.hi) = WithinBounds(x, e.lo, e.hi)
  <2>1. e.lo \in Bounds /\ e.hi \in Bounds
    BY <1>5, LeafShape
  <2>2. ASSUME NEW b \in Bounds
        PROVE  b.set \in BOOLEAN /\ b.key \in Nat /\ b.incl \in BOOLEAN /\ (~b.set => b.key = 0)
    <3>1. CASE b \in [set : {TRUE}, key : Nat, incl : BOOLEAN]
      BY <3>1
    <3>2. CASE b = [set |-> FALSE, key |-> 0, incl |-> FALSE]
      BY <3>2
    <3> QED
      BY <3>1, <3>2 DEF Bounds, NoBound
  <2> QED
    BY <1>3, <1>5, <2>1, <2>2 DEF RefWithin, WithinBounds
<1>6. CASE e.kind = "columns"
  BY <1>4, <1>5, <1>6 DEF RefMatches, Matches
<1>7. CASE e.kind = "values"
  BY <1>4, <1>5, <1>7 DEF RefMatches, Matches
<1>8. CASE e.kind = "times"
  <2>1. e.start \in Int /\ e.end \in Int
    BY <1>8, LeafShape
  <2>2. WithinTimes(c.ts, e) = (c.ts >= e.start /\ (e.end # 0 => c.ts < e.end))
    BY <1>3, <1>4, <1>8, <2>1 DEF WithinTimes
  <2> QED
    BY <1>8, <2>2 DEF RefMatches, Matches
<1>9. CASE e.kind \notin {"columns", "values", "times"}
  BY <1>3, <1>9 DEF RefMatches
<1> QED
  BY <1>6, <1>7, <1>8, <1>9

\* A filter that looks at the row only says the same of all its cells.
LEMMA RowOnlyLeaf ==
  ASSUME NEW n \in Depths, NEW e \in Trees[n], RowOnly(e)
  PROVE  /\ e \in Leaves /\ ~Counter(e)
         /\ \A a, b \in Cells : a.row = b.row => Matches(e, a) = Matches(e, b)
         /\ \A a \in Cells : RefMatches(e, a) = Matches(e, a)
<1>1. e.kind \in {"pass", "block", "regex"} /\ (e.kind = "regex" => e.field = "row")
  BY DEF RowOnly
<1>2. e \in Leaves
  BY <1>1, TreeCases, CompositeShape
<1>3. ASSUME NEW a \in Cells PROVE RefMatches(e, a) = Matches(e, a)
  BY <1>1 DEF RefMatches
<1>4. ASSUME NEW a \in Cells, NEW b \in Cells, a.row = b.row PROVE Matches(e, a) = Matches(e, b)
  <2>1. CASE e.kind = "regex"
    <3>1. a[e.field] = a.row /\ b[e.field] = b.row
      BY <1>1, <2>1
    <3> QED
      BY <1>4, <2>1, <3>1 DEF Matches
  <2> QED
    BY <1>1, <2>1 DEF Matches
<1> QED
  BY <1>1, <1>2, <1>3, <1>4 DEF Counter

\* Cells of one row, which are different.
OneRow(cells, I) ==
  \A i, j \in I : /\ cells[i].row = cells[j].row
                  /\ <<cells[i].fam, cells[i].qual, cells[i].ts>>
                       = <<cells[j].fam, cells[j].qual, cells[j].ts>> => i = j

\* Some cells of a row.
Part(cells, I, J) == I \subseteq DOMAIN cells /\ J \subseteq I /\ OneRow(cells, I)

\* What a filter leaves of a cell does not depend on the others.
PointByPoint(n, e, cells) ==
  \A I, J : Part(cells, I, J) =>
    RefTo[n][e][cells][J] = RefTo[n][e][cells][I] \cap J

\* A plain filter without state judges each position by itself.
LEMMA StatelessPoints ==
  \A n \in Depths : \A e \in Trees[n], cells \in Seq(Cells) :
    StatelessTo[n][e] /\ PlainTo[n][e] => PointByPoint(n, e, cells)
<1> DEFINE Q == {n \in Depths : \A e \in Trees[n], cells \in Seq(Cells) :
                   StatelessTo[n][e] /\ PlainTo[n][e] => PointByPoint(n, e, cells)}
<1>1. ASSUME NEW n \in Depths, NEW e \in Leaves, NEW cells \in Seq(Cells), StatelessTo[n][e]
      PROVE  PointByPoint(n, e, cells)
  <2>1. ~Counter(e)
    <3>1. e \in Trees[n] /\ StatelessBody(n, StatelessTo[n - 1])[e]
      BY <1>1, LeavesIn, StatelessAre
    <3> QED
      BY <3>1 DEF StatelessBody
  <2> SUFFICES ASSUME NEW I, NEW J, I \subseteq DOMAIN cells, J \subseteq I
               PROVE  RefTo[n][e][cells][J] = RefTo[n][e][cells][I] \cap J
    BY DEF PointByPoint, Part
  <2>2. I \in SUBSET Nat /\ J \in SUBSET Nat
    OBVIOUS
  <2>3. RefTo[n][e][cells][J] = RefMatched(e, cells, J) /\ RefTo[n][e][cells][I] = RefMatched(e, cells, I)
    BY <2>1, <2>2, RefLeaf
  <2> QED
    BY <2>3 DEF RefMatched
<1>2. 0 \in Q
  BY <1>1, NoDepth, DepthFacts
<1>3. ASSUME NEW n \in Depths \ {0}, n - 1 \in Q PROVE n \in Q
  <2>0. n - 1 \in Depths
    BY DepthFacts
  <2> SUFFICES ASSUME NEW e \in Composites(Trees[n - 1]), NEW cells \in Seq(Cells),
                      StatelessTo[n][e], PlainTo[n][e], NEW I, NEW J,
                      Part(cells, I, J)
               PROVE  RefTo[n][e][cells][J] = RefTo[n][e][cells][I] \cap J
    <3>1. SUFFICES ASSUME NEW e \in Trees[n], NEW cells \in Seq(Cells), StatelessTo[n][e], PlainTo[n][e]
                   PROVE  PointByPoint(n, e, cells)
      OBVIOUS
    <3>2. CASE e \in Leaves
      BY <1>1, <3>1, <3>2
    <3>3. CASE e \in Composites(Trees[n - 1])
      BY <3>1, <3>3 DEF PointByPoint
    <3> QED
      BY <3>2, <3>3, TreeCases
  <2>p. I \subseteq DOMAIN cells /\ J \subseteq I /\ OneRow(cells, I)
    BY DEF Part
  <2>1. DOMAIN e.fs = 1 .. Len(e.fs) /\ Len(e.fs) \in Nat /\ \A k \in DOMAIN e.fs : e.fs[k] \in Trees[n - 1]
    BY CompositeShape
  <2>2. I \in SUBSET Nat /\ J \in SUBSET Nat /\ DOMAIN cells \in SUBSET Nat
    BY <2>p
  <2>3. \A k \in DOMAIN e.fs : PointByPoint(n - 1, e.fs[k], cells)
    BY <1>3, <2>1, PlainMembers, StatelessMembers
  <2>4. \A k \in DOMAIN e.fs : \A K \in SUBSET Nat : RefTo[n - 1][e.fs[k]][cells][K] \subseteq K
    BY <2>0, <2>1, RefSubset
  <2>5. CASE e.kind = "chain"
    <3>0. \A k \in DOMAIN e.fs : \A K \in SUBSET Nat : RefTo[n - 1][e.fs[k]][cells][K] \in SUBSET Nat
      BY <2>4
    <3>1. PICK p : Outputs(n, e, cells, I, p) /\ RefTo[n][e][cells][I] = p[Len(e.fs)]
      BY <2>2, <2>5, <3>0, RefChain
    <3>2. PICK q : Outputs(n, e, cells, J, q) /\ RefTo[n][e][cells][J] = q[Len(e.fs)]
      BY <2>2, <2>5, <3>0, RefChain
    <3> DEFINE P == {k \in Nat : k <= Len(e.fs) => p[k] \subseteq I /\ q[k] = p[k] \cap J}
    <3>3. 0 \in P
      BY <2>p, <3>1, <3>2 DEF Outputs
    <3>4. ASSUME NEW k \in Nat, k \in P PROVE k + 1 \in P
      <4> SUFFICES ASSUME k + 1 <= Len(e.fs) PROVE p[k + 1] \subseteq I /\ q[k + 1] = p[k + 1] \cap J
        OBVIOUS
      <4>0. k \in 0 .. Len(e.fs) /\ k + 1 \in 1 .. Len(e.fs) /\ (k + 1) - 1 = k /\ k + 1 \in DOMAIN e.fs
        BY <2>1
      <4>1. /\ p[k + 1] = RefTo[n - 1][e.fs[k + 1]][cells][p[k]]
            /\ q[k + 1] = RefTo[n - 1][e.fs[k + 1]][cells][q[k]]
        BY <3>1, <3>2, <4>0 DEF Outputs
      <4>2. p[k] \subseteq I /\ q[k] = p[k] \cap J
        BY <3>4, <4>0
      <4>3. Part(cells, p[k], q[k]) /\ p[k] \in SUBSET Nat
        BY <2>p, <2>2, <4>2 DEF OneRow, Part
      <4>4. q[k + 1] = p[k + 1] \cap q[k]
        <5>1. PointByPoint(n - 1, e.fs[k + 1], cells)
          BY <2>3, <4>0
        <5>2. RefTo[n - 1][e.fs[k + 1]][cells][q[k]] = RefTo[n - 1][e.fs[k + 1]][cells][p[k]] \cap q[k]
          BY <4>3, <5>1 DEF PointByPoint
        <5> QED
          BY <4>1, <5>2
      <4>5. p[k + 1] \subseteq p[k]
        BY <2>4, <4>0, <4>1, <4>3
      <4> QED
        BY <4>2, <4>4, <4>5
    <3> HIDE DEF P
    <3>5. \A k \in Nat : k \in P
      BY <3>3, <3>4, UpInduction
    <3> QED
      BY <2>1, <3>1, <3>2, <3>5 DEF P
  <2>6. CASE e.kind = "interleave"
    <3>1. \A k \in DOMAIN e.fs :
            RefTo[n - 1][e.fs[k]][cells][J] = RefTo[n - 1][e.fs[k]][cells][I] \cap J
      BY <2>3, <2>p DEF PointByPoint
    <3>2. /\ RefTo[n][e][cells][I] = UNION {RefTo[n - 1][e.fs[k]][cells][I] : k \in DOMAIN e.fs}
          /\ RefTo[n][e][cells][J] = UNION {RefTo[n - 1][e.fs[k]][cells][J] : k \in DOMAIN e.fs}
      BY <2>2, <2>6, RefOther
    <3> QED
      BY <3>1, <3>2
  <2>7. CASE e.kind = "condition"
    <3>1. DOMAIN e.fs = 1 .. 3
      BY <2>1, <2>7, CompositeShape
    <3> DEFINE of(k, K) == RefTo[n - 1][e.fs[k]][cells][K]
    <3>2. \A k \in 1 .. 3 : of(k, J) = of(k, I) \cap J
      BY <2>3, <2>p, <3>1 DEF PointByPoint
    <3>3. /\ RefTo[n][e][cells][I] = IF of(1, I) # {} THEN of(2, I) ELSE of(3, I)
          /\ RefTo[n][e][cells][J] = IF of(1, J) # {} THEN of(2, J) ELSE of(3, J)
      BY <2>2, <2>7, RefOther
    <3>4. of(1, I) # {} /\ J # {} => of(1, J) # {}
      <4>1. RowOnly(e.fs[1]) /\ e.fs[1] \in Trees[n - 1]
        BY <2>1, <2>7, <3>1, PlainMembers
      <4>2. e.fs[1] \in Leaves /\ ~Counter(e.fs[1])
        BY <2>0, <4>1, RowOnlyLeaf
      <4>3. of(1, I) = RefMatched(e.fs[1], cells, I) /\ of(1, J) = RefMatched(e.fs[1], cells, J)
        BY <2>0, <2>2, <4>2, RefLeaf
      <4>4. ASSUME NEW i \in I, NEW j \in I PROVE RefMatches(e.fs[1], cells[i]) = RefMatches(e.fs[1], cells[j])
        <5>1. cells[i] \in Cells /\ cells[j] \in Cells /\ cells[i].row = cells[j].row
          BY <2>p, <2>2 DEF OneRow
        <5> QED
          BY <2>0, <4>1, <5>1, RowOnlyLeaf
      <4> QED
        BY <2>p, <4>3, <4>4 DEF RefMatched
    <3>5. \A k \in 1 .. 3 : of(k, J) \subseteq J
      BY <3>2
    <3> HIDE DEF of
    <3> QED
      BY <3>2, <3>3, <3>4, <3>5
  <2> QED
    BY <2>5, <2>6, <2>7, CompositeShape
<1> HIDE DEF Q
<1>4. \A n \in Depths : n \in Q
  BY <1>2, <1>3, DepthInduction
<1> QED
  BY <1>4 DEF Q

-------------------------------------------------------------------------------
(* Ranks, and runs of an evaluator over the cells of a row. *)

\* How many numbers of K are at most i.
Rank(K, i) == Cardinality({j \in K : j <= i})

\* Ranks from one position to the next.
LEMMA RankStep ==
  ASSUME NEW K, \A j \in K : j \in Nat, NEW i \in Nat
  PROVE  /\ Rank(K, i) \in Nat
         /\ Rank(K, i + 1) = IF i + 1 \in K THEN Rank(K, i) + 1 ELSE Rank(K, i)
         /\ 0 \notin K => Rank(K, 0) = 0
<1> DEFINE S == {j \in K : j <= i}
           T == {j \in K : j <= i + 1}
<1>0. \A j \in K : j \in Nat
  OBVIOUS
<1>1. IsFiniteSet(S)
  <2>1. S \subseteq 0 .. i
    BY <1>0
  <2>2. IsFiniteSet(0 .. i)
    BY FS_Interval
  <2> QED
    BY <2>1, <2>2, FS_Subset
<1>2. Cardinality(S) \in Nat
  BY <1>1, FS_CardinalityType
<1>r. Rank(K, i) = Cardinality(S) /\ Rank(K, i + 1) = Cardinality(T)
  BY Zenon DEF Rank
<1>3. ASSUME i + 1 \in K PROVE Rank(K, i + 1) = Rank(K, i) + 1
  <2>1. T = S \cup {i + 1} /\ i + 1 \notin S
    BY <1>0, <1>3
  <2>2. Cardinality(T) = Cardinality(S) + 1
    BY <1>1, <2>1, FS_AddElement
  <2> HIDE DEF S, T
  <2> QED
    BY <1>2, <1>3, <1>r, <2>2
<1>4. ASSUME i + 1 \notin K PROVE Rank(K, i + 1) = Rank(K, i)
  <2>1. T = S
    BY <1>0, <1>4
  <2> HIDE DEF S, T
  <2> QED
    BY <1>2, <1>4, <1>r, <2>1
<1>5. ASSUME 0 \notin K PROVE Rank(K, 0) = 0
  <2>1. {j \in K : j <= 0} = {}
    BY <1>0, <1>5
  <2> QED
    BY <2>1, FS_EmptySet DEF Rank
<1>6. Rank(K, i) \in Nat
  <2> HIDE DEF S, T
  <2> QED
    BY <1>2, <1>r
<1> QED
  BY <1>3, <1>4, <1>5, <1>6

\* Ranks from one position to the one before it.
LEMMA RankBefore ==
  ASSUME NEW K, \A j \in K : j \in Nat, NEW i \in Nat \ {0}
  PROVE  /\ Rank(K, i) \in Nat /\ Rank(K, i - 1) \in Nat
         /\ Rank(K, i) = IF i \in K THEN Rank(K, i - 1) + 1 ELSE Rank(K, i - 1)
<1>1. i - 1 \in Nat /\ (i - 1) + 1 = i
  OBVIOUS
<1> QED
  BY <1>1, RankStep

\* One more column is counted.
LEMMA CountOfAppend ==
  ASSUME NEW S, NEW s \in Seq(S), NEW x \in S, NEW col
  PROVE  /\ CountOf(s, col) \in Nat
         /\ CountOf(Append(s, x), col) = IF x = col THEN CountOf(s, col) + 1 ELSE CountOf(s, col)
<1> DEFINE P == {i \in DOMAIN s : s[i] = col}
           t == Append(s, x)
           R == {i \in DOMAIN t : t[i] = col}
<1>1. DOMAIN s = 1 .. Len(s) /\ Len(s) \in Nat /\ DOMAIN t = 1 .. (Len(s) + 1)
  OBVIOUS
<1>2. t[Len(s) + 1] = x /\ \A i \in 1 .. Len(s) : t[i] = s[i]
  OBVIOUS
<1>3. IsFiniteSet(P)
  <2>1. IsFiniteSet(1 .. Len(s)) /\ P \subseteq 1 .. Len(s)
    BY <1>1, FS_Interval
  <2> QED
    BY <2>1, FS_Subset
<1>4. Cardinality(P) \in Nat
  BY <1>3, FS_CardinalityType
<1> HIDE DEF t
<1>5. CASE x = col
  <2>1. R = P \cup {Len(s) + 1} /\ Len(s) + 1 \notin P
    BY <1>1, <1>2, <1>5
  <2>2. Cardinality(R) = Cardinality(P) + 1
    BY <1>3, <2>1, FS_AddElement
  <2> QED
    BY <1>4, <1>5, <2>2 DEF CountOf, t
<1>6. CASE x # col
  <2>1. R = P
    BY <1>1, <1>2, <1>6
  <2> QED
    BY <1>4, <1>6, <2>1 DEF CountOf, t
<1> QED
  BY <1>5, <1>6

-------------------------------------------------------------------------------
\* st[i] is what f has become after the first i cells, of which it was asked about those in I.
IsRun(n, f, cells, I, st) ==
  /\ st \in [0 .. Len(cells) -> Trees[n]] /\ st[0] = f
  /\ \A i \in 1 .. Len(cells) :
       st[i] = IF i \in I THEN EvaluateTo[n][st[i - 1]][cells[i]].e ELSE st[i - 1]

\* The cells that pass.
Passed(n, cells, I, st) == {i \in I : EvaluateTo[n][st[i - 1]][cells[i]].ok}

\* Cells of a row that a fresh evaluator is asked about.
Case(n, f, cells, I, st) ==
  /\ I \subseteq DOMAIN cells /\ OneRow(cells, I)
  /\ IsRun(n, f, cells, I, st)

\* Cell by cell, the filter leaves what it means.
ExactOn(n, f, cells) ==
  \A I, st : Case(n, f, cells, I, st) => Passed(n, cells, I, st) = RefTo[n][f][cells][I]

\* A leaf that is fed cells stays a leaf of the same kind and bounds.
LEMMA LeafRun ==
  ASSUME NEW n \in Depths, NEW f \in Leaves, NEW cells \in Seq(Cells), NEW I, NEW st,
         Case(n, f, cells, I, st)
  PROVE  \A i \in 0 .. Len(cells) : st[i] \in Leaves /\ LeafReset(st[i]) = LeafReset(f)
<1> DEFINE Q == {i \in Nat : i <= Len(cells) => st[i] \in Leaves /\ LeafReset(st[i]) = LeafReset(f)}
<1>1. 0 \in Q
  BY DEF Case, IsRun
<1>2. ASSUME NEW i \in Nat, i \in Q PROVE i + 1 \in Q
  <2> SUFFICES ASSUME i + 1 <= Len(cells)
               PROVE  st[i + 1] \in Leaves /\ LeafReset(st[i + 1]) = LeafReset(f)
    OBVIOUS
  <2>0. i + 1 \in 1 .. Len(cells) /\ (i + 1) - 1 = i
    OBVIOUS
  <2>1. st[i] \in Leaves /\ LeafReset(st[i]) = LeafReset(f) /\ cells[i + 1] \in Cells
    BY <1>2
  <2>2. st[i + 1] = st[i] \/ st[i + 1] = EvaluateTo[n][st[i]][cells[i + 1]].e
    BY <2>0 DEF Case, IsRun
  <2>3. /\ EvaluateTo[n][st[i]][cells[i + 1]].e \in Leaves
        /\ LeafReset(EvaluateTo[n][st[i]][cells[i + 1]].e) = LeafReset(st[i])
    BY <2>1, EvalLeaf, LeafType, LeafKept
  <2> QED
    BY <2>1, <2>2, <2>3
<1> HIDE DEF Q
<1>3. \A i \in Nat : i \in Q
  BY <1>1, <1>2, UpInduction
<1> QED
  BY <1>3 DEF Q

\* A filter without state.
LEMMA MatchExact ==
  ASSUME NEW n \in Depths, NEW f \in Leaves, PlainTo[n][f], ~Counter(f), NEW cells \in Seq(Cells)
  PROVE  ExactOn(n, f, cells)
<1> SUFFICES ASSUME NEW I, NEW st, Case(n, f, cells, I, st)
             PROVE  Passed(n, cells, I, st) = RefTo[n][f][cells][I]
  BY DEF ExactOn
<1>1. ASSUME NEW i \in 0 .. Len(cells) PROVE st[i] = f
  <2>1. st[i] \in Leaves /\ LeafReset(st[i]) = LeafReset(f)
    BY LeafRun
  <2>2. LeafReset(f) = f
    BY DEF LeafReset, Counter
  <2>3. LeafReset(st[i]).kind = st[i].kind
    BY DEF LeafReset
  <2>4. ~Counter(st[i])
    BY <2>1, <2>2, <2>3 DEF Counter
  <2> QED
    BY <2>1, <2>2, <2>4 DEF LeafReset, Counter
<1>2. I \in SUBSET Nat /\ I \subseteq 1 .. Len(cells)
  BY DEF Case
<1>3. RefTo[n][f][cells][I] = RefMatched(f, cells, I)
  BY <1>2, RefLeaf
<1>4. ASSUME NEW i \in I PROVE EvaluateTo[n][st[i - 1]][cells[i]].ok = RefMatches(f, cells[i])
  <2>1. i - 1 \in 0 .. Len(cells) /\ cells[i] \in Cells
    BY <1>2
  <2>2. EvaluateTo[n][st[i - 1]][cells[i]] = LeafVerdict(f, cells[i])
    BY <1>1, <2>1, EvalLeaf
  <2>3. LeafVerdict(f, cells[i]).ok = Matches(f, cells[i])
    BY DEF LeafVerdict
  <2> QED
    BY <2>1, <2>2, <2>3, PlainLeaf
<1> QED
  BY <1>3, <1>4 DEF Passed, RefMatched

-------------------------------------------------------------------------------
(* Filters that count cells are exact. *)

\* One cell of such a run.
LEMMA LeafStep ==
  ASSUME NEW n \in Depths, NEW f \in Leaves, NEW cells \in Seq(Cells), NEW I, NEW st,
         Case(n, f, cells, I, st), NEW i \in 1 .. Len(cells)
  PROVE  /\ st[i - 1] \in Leaves /\ LeafReset(st[i - 1]) = LeafReset(f) /\ st[i] \in Leaves
         /\ cells[i] \in Cells /\ i - 1 \in Nat
         /\ EvaluateTo[n][st[i - 1]][cells[i]] = LeafVerdict(st[i - 1], cells[i])
         /\ st[i] = IF i \in I THEN LeafVerdict(st[i - 1], cells[i]).e ELSE st[i - 1]
<1>1. i - 1 \in 0 .. Len(cells) /\ i \in 0 .. Len(cells) /\ cells[i] \in Cells
  OBVIOUS
<1>2. st[i - 1] \in Leaves /\ LeafReset(st[i - 1]) = LeafReset(f) /\ st[i] \in Leaves
  BY <1>1, LeafRun
<1>3. EvaluateTo[n][st[i - 1]][cells[i]] = LeafVerdict(st[i - 1], cells[i])
  BY <1>1, <1>2, EvalLeaf
<1>4. st[i] = IF i \in I THEN EvaluateTo[n][st[i - 1]][cells[i]].e ELSE st[i - 1]
  BY DEF Case, IsRun
<1> QED
  BY <1>1, <1>2, <1>3, <1>4

\* A leaf that is reset to f is of f's kind.
LEMMA SameKind ==
  ASSUME NEW e \in Leaves, NEW f \in Leaves, LeafReset(e) = LeafReset(f)
  PROVE  e.kind = f.kind /\ (Counter(f) => e.n = f.n)
<1>1. LeafReset(e).kind = e.kind /\ LeafReset(f).kind = f.kind
  BY DEF LeafReset
<1>2. CASE Counter(f)
  <2>1. LeafReset(e).n = e.n /\ LeafReset(f).n = f.n
    BY <1>1, <1>2 DEF Counter, LeafReset
  <2> QED
    BY <1>1, <2>1
<1> QED
  BY <1>1, <1>2

\* The positions of a run are numbers of the sequence.
LEMMA CaseNumbers ==
  ASSUME NEW n, NEW f, NEW cells \in Seq(Cells), NEW I, NEW st, Case(n, f, cells, I, st)
  PROVE  I \in SUBSET Nat /\ (\A j \in I : j \in Nat /\ j \in 1 .. Len(cells)) /\ 0 \notin I
BY DEF Case

\* A counter that stops at k, next to what it counts.
Tally(a, c, k) == IF a < k THEN a = c ELSE c >= k

\* The comparison survives one more position.
LEMMA TallyStep ==
  ASSUME NEW a \in Nat, NEW c \in Nat, NEW k \in Int, Tally(a, c, k), NEW b, NEW d,
         \/ b = (IF a < k THEN a + 1 ELSE a) /\ d = c + 1
         \/ b = a /\ d = c
  PROVE  Tally(b, d, k)
BY DEF Tally

\* A limit lets a position pass exactly when its rank is within the limit.
LEMMA TallyAnswer ==
  ASSUME NEW a \in Nat, NEW c \in Nat, NEW k \in Int, Tally(a, c, k)
  PROVE  a < k <=> c + 1 <= k
BY DEF Tally

\* CellsPerRowOffset skips the first n cells of the row.
LEMMA OffsetExact ==
  ASSUME NEW n \in Depths, NEW f \in Leaves, f.kind = "offset", f.count = 0, NEW cells \in Seq(Cells)
  PROVE  ExactOn(n, f, cells)
<1> SUFFICES ASSUME NEW I, NEW st, Case(n, f, cells, I, st)
             PROVE  Passed(n, cells, I, st) = RefTo[n][f][cells][I]
  BY DEF ExactOn
<1>1. (\A j \in I : j \in Nat /\ j \in 1 .. Len(cells)) /\ 0 \notin I
  BY CaseNumbers
<1>s. I \in SUBSET Nat
  BY CaseNumbers
<1>2. ASSUME NEW i \in 1 .. Len(cells)
      PROVE  /\ st[i - 1] \in Leaves /\ st[i - 1].kind = "offset" /\ st[i - 1].n = f.n
             /\ st[i].count = IF i \in I THEN st[i - 1].count + 1 ELSE st[i - 1].count
             /\ EvaluateTo[n][st[i - 1]][cells[i]].ok = (st[i - 1].count + 1 > f.n)
             /\ i - 1 \in Nat /\ i \in Nat \ {0}
  <2>1. st[i - 1].kind = "offset" /\ st[i - 1].n = f.n /\ st[i - 1] \in Leaves /\ cells[i] \in Cells
    BY LeafStep, SameKind DEF Counter
  <2>2. LeafVerdict(st[i - 1], cells[i]) =
          [ok |-> st[i - 1].count + 1 > st[i - 1].n,
           e |-> [kind |-> "offset", n |-> st[i - 1].n, count |-> st[i - 1].count + 1]]
    BY <2>1, OffsetVerdict
  <2> DEFINE big == st[i - 1].count + 1 > st[i - 1].n
  <2> HIDE DEF big
  <2>b. LeafVerdict(st[i - 1], cells[i]) =
          [ok |-> big, e |-> [kind |-> "offset", n |-> st[i - 1].n, count |-> st[i - 1].count + 1]]
    BY <2>2 DEF big
  <2>3. /\ LeafVerdict(st[i - 1], cells[i]).ok = big
        /\ LeafVerdict(st[i - 1], cells[i]).e.count = st[i - 1].count + 1
    BY <2>b
  <2>4. /\ EvaluateTo[n][st[i - 1]][cells[i]] = LeafVerdict(st[i - 1], cells[i])
        /\ st[i] = IF i \in I THEN LeafVerdict(st[i - 1], cells[i]).e ELSE st[i - 1]
    BY LeafStep
  <2> QED
    BY <2>1, <2>3, <2>4 DEF big
<1> DEFINE Q == {i \in Nat : i <= Len(cells) => st[i].count = Rank(I, i)}
<1>3. 0 \in Q
  BY <1>1, RankStep DEF Case, IsRun
<1>4. ASSUME NEW i \in Nat, i \in Q PROVE i + 1 \in Q
  <2> SUFFICES ASSUME i + 1 <= Len(cells) PROVE st[i + 1].count = Rank(I, i + 1)
    OBVIOUS
  <2>1. i + 1 \in 1 .. Len(cells) /\ (i + 1) - 1 = i
    OBVIOUS
  <2>2. st[i + 1].count = IF i + 1 \in I THEN st[i].count + 1 ELSE st[i].count
    BY <1>2, <2>1
  <2>3. st[i].count = Rank(I, i)
    BY <1>4
  <2>4. Rank(I, i + 1) = IF i + 1 \in I THEN Rank(I, i) + 1 ELSE Rank(I, i)
    BY <1>1, RankStep
  <2> QED
    BY <2>2, <2>3, <2>4
<1> HIDE DEF Q
<1>5. \A i \in Nat : i \in Q
  BY <1>3, <1>4, UpInduction
<1>6. ASSUME NEW i \in I PROVE EvaluateTo[n][st[i - 1]][cells[i]].ok <=> Rank(I, i) > f.n
  <2>1. i \in 1 .. Len(cells) /\ i - 1 \in Nat /\ i - 1 <= Len(cells) /\ i \in Nat \ {0}
    BY <1>1
  <2>2. st[i - 1].count = Rank(I, i - 1)
    BY <1>5, <2>1 DEF Q
  <2>3. Rank(I, i) = Rank(I, i - 1) + 1
    BY <1>1, <2>1, RankBefore
  <2>4. EvaluateTo[n][st[i - 1]][cells[i]].ok = (st[i - 1].count + 1 > f.n)
    BY <1>2, <2>1
  <2> QED
    BY <2>2, <2>3, <2>4
<1>7. RefTo[n][f][cells][I] = {i \in I : Rank(I, i) > f.n}
  <2>1. RefTo[n][f][cells][I] = RefKept(f, cells, I)
    BY <1>s, RefLeaf DEF Counter
  <2> QED
    BY <2>1 DEF RefKept, Rank
<1> QED
  BY <1>6, <1>7 DEF Passed

\* CellsPerRowLimit keeps the first n cells of the row.
LEMMA LimitExact ==
  ASSUME NEW n \in Depths, NEW f \in Leaves, f.kind = "limit", f.count = 0, NEW cells \in Seq(Cells)
  PROVE  ExactOn(n, f, cells)
<1> SUFFICES ASSUME NEW I, NEW st, Case(n, f, cells, I, st)
             PROVE  Passed(n, cells, I, st) = RefTo[n][f][cells][I]
  BY DEF ExactOn
<1>0. f.n \in Int
  BY LeafShape
<1>1. (\A j \in I : j \in Nat /\ j \in 1 .. Len(cells)) /\ 0 \notin I
  BY CaseNumbers
<1>s. I \in SUBSET Nat
  BY CaseNumbers
<1>2. ASSUME NEW i \in 1 .. Len(cells)
      PROVE  /\ EvaluateTo[n][st[i - 1]][cells[i]].ok = (st[i - 1].count < f.n)
             /\ st[i].count = IF i \in I /\ st[i - 1].count < f.n THEN st[i - 1].count + 1
                                                                 ELSE st[i - 1].count
             /\ st[i - 1].count \in Nat
  <2>1. st[i - 1].kind = "limit" /\ st[i - 1].n = f.n /\ st[i - 1] \in Leaves /\ cells[i] \in Cells
    BY LeafStep, SameKind DEF Counter
  <2> DEFINE more == st[i - 1].count < st[i - 1].n
  <2>2. LeafVerdict(st[i - 1], cells[i]) =
          [ok |-> more,
           e |-> IF more THEN [kind |-> "limit", n |-> st[i - 1].n, count |-> st[i - 1].count + 1]
                 ELSE st[i - 1]]
    BY <2>1, LimitVerdict
  <2> HIDE DEF more
  <2>3. /\ LeafVerdict(st[i - 1], cells[i]).ok = more
        /\ LeafVerdict(st[i - 1], cells[i]).e.count = IF more THEN st[i - 1].count + 1 ELSE st[i - 1].count
    <3>1. LeafVerdict(st[i - 1], cells[i]).ok = more
      BY <2>2
    <3>2. LeafVerdict(st[i - 1], cells[i]).e =
            IF more THEN [kind |-> "limit", n |-> st[i - 1].n, count |-> st[i - 1].count + 1]
            ELSE st[i - 1]
      BY <2>2
    <3> QED
      BY <3>1, <3>2
  <2>4. /\ EvaluateTo[n][st[i - 1]][cells[i]] = LeafVerdict(st[i - 1], cells[i])
        /\ st[i] = IF i \in I THEN LeafVerdict(st[i - 1], cells[i]).e ELSE st[i - 1]
    BY LeafStep
  <2>5. st[i - 1].count \in Nat
    BY <2>1, LeafShape
  <2>6. more = (st[i - 1].count < f.n)
    BY <2>1 DEF more
  <2> QED
    BY <2>3, <2>4, <2>5, <2>6
<1> DEFINE Q == {i \in Nat : i <= Len(cells) => Tally(st[i].count, Rank(I, i), f.n)}
<1>r. \A i \in Nat : Rank(I, i) \in Nat
  BY <1>1, RankStep
<1>3. 0 \in Q
  <2>1. st[0].count = 0 /\ Rank(I, 0) = 0
    BY <1>1, RankStep DEF Case, IsRun
  <2> QED
    BY <1>0, <2>1 DEF Tally
<1>4. ASSUME NEW i \in Nat, i \in Q PROVE i + 1 \in Q
  <2> SUFFICES ASSUME i + 1 <= Len(cells)
               PROVE  Tally(st[i + 1].count, Rank(I, i + 1), f.n)
    OBVIOUS
  <2>1. i + 1 \in 1 .. Len(cells) /\ (i + 1) - 1 = i
    OBVIOUS
  <2>2. /\ st[i + 1].count = IF i + 1 \in I /\ st[i].count < f.n THEN st[i].count + 1 ELSE st[i].count
        /\ st[i].count \in Nat
    BY <1>2, <2>1
  <2>3. Tally(st[i].count, Rank(I, i), f.n)
    BY <1>4
  <2>4. Rank(I, i + 1) = IF i + 1 \in I THEN Rank(I, i) + 1 ELSE Rank(I, i)
    BY <1>1, RankStep
  <2>5. \/ /\ st[i + 1].count = (IF st[i].count < f.n THEN st[i].count + 1 ELSE st[i].count)
           /\ Rank(I, i + 1) = Rank(I, i) + 1
        \/ st[i + 1].count = st[i].count /\ Rank(I, i + 1) = Rank(I, i)
    BY <2>2, <2>4
  <2>6. st[i].count \in Nat /\ Rank(I, i) \in Nat
    BY <1>r, <2>2
  <2> QED
    BY <1>0, <2>3, <2>5, <2>6, TallyStep
<1> HIDE DEF Q
<1>5. \A i \in Nat : i \in Q
  BY <1>3, <1>4, UpInduction
<1>6. ASSUME NEW i \in I PROVE EvaluateTo[n][st[i - 1]][cells[i]].ok <=> Rank(I, i) <= f.n
  <2>1. i \in 1 .. Len(cells) /\ i - 1 \in Nat /\ i - 1 <= Len(cells) /\ i \in Nat \ {0}
    BY <1>1
  <2>2. Tally(st[i - 1].count, Rank(I, i - 1), f.n)
    BY <1>5, <2>1 DEF Q
  <2>3. Rank(I, i) = Rank(I, i - 1) + 1
    BY <1>1, <2>1, RankBefore
  <2>4. /\ EvaluateTo[n][st[i - 1]][cells[i]].ok = (st[i - 1].count < f.n)
        /\ st[i - 1].count \in Nat
    BY <1>2, <2>1
  <2>5. Rank(I, i - 1) \in Nat
    BY <1>r, <2>1
  <2>6. st[i - 1].count < f.n <=> Rank(I, i - 1) + 1 <= f.n
    BY <1>0, <2>2, <2>4, <2>5, TallyAnswer
  <2> QED
    BY <2>3, <2>4, <2>6
<1>7. RefTo[n][f][cells][I] = {i \in I : Rank(I, i) <= f.n}
  <2>1. RefTo[n][f][cells][I] = RefKept(f, cells, I)
    BY <1>s, RefLeaf DEF Counter
  <2> QED
    BY <2>1 DEF RefKept, Rank
<1> QED
  BY <1>6, <1>7 DEF Passed

\* The cells of one column.
OfColumn(cells, I, col) == {j \in I : <<cells[j].fam, cells[j].qual>> = col}

\* CellsPerColumnLimit keeps the first n cells of each column.
LEMMA ColumnExact ==
  ASSUME NEW n \in Depths, NEW f \in Leaves, f.kind = "column", f.counts = <<>>, NEW cells \in Seq(Cells)
  PROVE  ExactOn(n, f, cells)
<1> SUFFICES ASSUME NEW I, NEW st, Case(n, f, cells, I, st)
             PROVE  Passed(n, cells, I, st) = RefTo[n][f][cells][I]
  BY DEF ExactOn
<1> DEFINE col(i) == <<cells[i].fam, cells[i].qual>>
           count(i, c) == CountOf(st[i].counts, c)
           K(c) == OfColumn(cells, I, c)
<1>0. f.n \in Int
  BY LeafShape
<1>1. (\A j \in I : j \in Nat /\ j \in 1 .. Len(cells)) /\ 0 \notin I
  BY CaseNumbers
<1>s. I \in SUBSET Nat
  BY CaseNumbers
<1>2. ASSUME NEW i \in 1 .. Len(cells)
      PROVE  /\ EvaluateTo[n][st[i - 1]][cells[i]].ok = (count(i - 1, col(i)) < f.n)
             /\ \A c : /\ count(i - 1, c) \in Nat
                       /\ count(i, c) = IF i \in I /\ count(i - 1, col(i)) < f.n /\ col(i) = c
                                        THEN count(i - 1, c) + 1 ELSE count(i - 1, c)
  <2>1. st[i - 1].kind = "column" /\ st[i - 1].n = f.n /\ st[i - 1] \in Leaves /\ cells[i] \in Cells
    BY LeafStep, SameKind DEF Counter
  <2> DEFINE e == st[i - 1]
             more == CountOf(e.counts, <<cells[i].fam, cells[i].qual>>) < e.n
             counts == Append(e.counts, <<cells[i].fam, cells[i].qual>>)
  <2>2. LeafVerdict(e, cells[i]) =
          [ok |-> more, e |-> IF more THEN [kind |-> "column", n |-> e.n, counts |-> counts] ELSE e]
    BY <2>1, ColumnVerdict
  <2>3. more = (count(i - 1, col(i)) < f.n)
    BY <2>1
  <2>c. ASSUME NEW c PROVE /\ count(i - 1, c) \in Nat
                           /\ CountOf(counts, c) = IF col(i) = c THEN count(i - 1, c) + 1 ELSE count(i - 1, c)
    <3>1. e.counts \in Seq(Nat \X Nat) /\ col(i) \in Nat \X Nat
      BY <2>1, LeafShape DEF Cells
    <3>2. /\ CountOf(e.counts, c) \in Nat
          /\ CountOf(Append(e.counts, col(i)), c) =
               IF col(i) = c THEN CountOf(e.counts, c) + 1 ELSE CountOf(e.counts, c)
      <4> DEFINE s == e.counts
                 x == col(i)
                 S == Nat \X Nat
      <4>1. s \in Seq(S) /\ x \in S
        BY <3>1
      <4> HIDE DEF s, x, S
      <4>2. /\ CountOf(s, c) \in Nat
            /\ CountOf(Append(s, x), c) = IF x = c THEN CountOf(s, c) + 1 ELSE CountOf(s, c)
        BY <4>1, CountOfAppend
      <4> QED
        BY <4>2 DEF s, x
    <3> QED
      BY <3>2
  <2> HIDE DEF more, counts
  <2>4. LeafVerdict(e, cells[i]).ok = more
    BY <2>2
  <2>5. LeafVerdict(e, cells[i]).e.counts = IF more THEN counts ELSE e.counts
    <3>1. LeafVerdict(e, cells[i]).e = IF more THEN [kind |-> "column", n |-> e.n, counts |-> counts] ELSE e
      BY <2>2
    <3> QED
      BY <3>1
  <2>6. /\ EvaluateTo[n][e][cells[i]] = LeafVerdict(e, cells[i])
        /\ st[i] = IF i \in I THEN LeafVerdict(e, cells[i]).e ELSE e
    BY LeafStep
  <2>7. st[i].counts = IF i \in I /\ more THEN counts ELSE e.counts
    BY <2>5, <2>6
  <2>8. ASSUME NEW c PROVE count(i, c) = IF i \in I /\ more /\ col(i) = c
                                         THEN count(i - 1, c) + 1 ELSE count(i - 1, c)
    BY <2>7, <2>c
  <2> QED
    BY <2>3, <2>4, <2>6, <2>8, <2>c
<1>k. ASSUME NEW c, NEW i \in Nat
      PROVE  /\ \A j \in K(c) : j \in Nat
             /\ Rank(K(c), i) \in Nat /\ Rank(K(c), 0) = 0
             /\ Rank(K(c), i + 1) = IF i + 1 \in I /\ col(i + 1) = c THEN Rank(K(c), i) + 1
                                                                   ELSE Rank(K(c), i)
  <2>1. (\A j \in K(c) : j \in Nat) /\ 0 \notin K(c) /\ (i + 1 \in K(c) <=> i + 1 \in I /\ col(i + 1) = c)
    BY <1>1 DEF OfColumn
  <2> QED
    BY <2>1, RankStep
<1> DEFINE Q == {i \in Nat : i <= Len(cells) =>
                   \A c : Tally(count(i, c), Rank(K(c), i), f.n)}
<1>3. 0 \in Q
  <2>1. st[0].counts = <<>>
    BY DEF Case, IsRun
  <2>2. ASSUME NEW c PROVE count(0, c) = 0
    <3>1. {i \in DOMAIN <<>> : <<>>[i] = c} = {}
      OBVIOUS
    <3> QED
      BY <2>1, <3>1, FS_EmptySet DEF CountOf
  <2>3. \A c : Rank(K(c), 0) = 0
    BY <1>k
  <2> HIDE DEF K, count
  <2> QED
    BY <1>0, <2>2, <2>3 DEF Tally
<1>4. ASSUME NEW i \in Nat, i \in Q PROVE i + 1 \in Q
  <2> SUFFICES ASSUME i + 1 <= Len(cells), NEW c
               PROVE  Tally(count(i + 1, c), Rank(K(c), i + 1), f.n)
    OBVIOUS
  <2>1. i + 1 \in 1 .. Len(cells) /\ (i + 1) - 1 = i
    OBVIOUS
  <2>2. /\ count(i + 1, c) = IF i + 1 \in I /\ count(i, col(i + 1)) < f.n /\ col(i + 1) = c
                             THEN count(i, c) + 1 ELSE count(i, c)
        /\ count(i, c) \in Nat
    <3> HIDE DEF count, col
    <3> QED
      BY <1>2, <2>1
  <2>3. Tally(count(i, c), Rank(K(c), i), f.n)
    BY <1>4
  <2>4. /\ Rank(K(c), i + 1) = IF i + 1 \in I /\ col(i + 1) = c THEN Rank(K(c), i) + 1 ELSE Rank(K(c), i)
        /\ Rank(K(c), i) \in Nat
    BY <1>k
  <2> HIDE DEF count, K, col
  <2>5. \/ /\ count(i + 1, c) = (IF count(i, c) < f.n THEN count(i, c) + 1 ELSE count(i, c))
           /\ Rank(K(c), i + 1) = Rank(K(c), i) + 1
        \/ count(i + 1, c) = count(i, c) /\ Rank(K(c), i + 1) = Rank(K(c), i)
    BY <2>2, <2>4
  <2> QED
    BY <1>0, <2>2, <2>3, <2>4, <2>5, TallyStep
<1> HIDE DEF Q
<1>5. \A i \in Nat : i \in Q
  BY <1>3, <1>4, UpInduction
<1>6. ASSUME NEW i \in I PROVE EvaluateTo[n][st[i - 1]][cells[i]].ok <=> Rank(K(col(i)), i) <= f.n
  <2>1. i \in 1 .. Len(cells) /\ i - 1 \in Nat /\ i - 1 <= Len(cells) /\ (i - 1) + 1 = i
    BY <1>1
  <2>2. Tally(count(i - 1, col(i)), Rank(K(col(i)), i - 1), f.n)
    BY <1>5, <2>1 DEF Q
  <2>3. Rank(K(col(i)), i) = Rank(K(col(i)), i - 1) + 1 /\ Rank(K(col(i)), i - 1) \in Nat
    <3> HIDE DEF K
    <3> QED
      BY <1>k, <2>1
  <2>4. /\ EvaluateTo[n][st[i - 1]][cells[i]].ok = (count(i - 1, col(i)) < f.n)
        /\ count(i - 1, col(i)) \in Nat
    <3> HIDE DEF count, col
    <3> QED
      BY <1>2, <2>1
  <2> HIDE DEF count, K, col
  <2>5. count(i - 1, col(i)) < f.n <=> Rank(K(col(i)), i - 1) + 1 <= f.n
    BY <1>0, <2>2, <2>3, <2>4, TallyAnswer
  <2> QED
    BY <2>3, <2>4, <2>5
<1>7. RefTo[n][f][cells][I] = {i \in I : Rank(K(col(i)), i) <= f.n}
  <2>1. RefTo[n][f][cells][I] = RefKept(f, cells, I)
    BY <1>s, RefLeaf DEF Counter
  <2>2. ASSUME NEW i \in I
        PROVE  {j \in I : /\ j <= i
                          /\ cells[j].fam = cells[i].fam
                          /\ cells[j].qual = cells[i].qual} = {j \in K(col(i)) : j <= i}
    BY DEF OfColumn
  <2>3. ASSUME NEW i \in I
        PROVE  Cardinality({j \in I : /\ j <= i
                                      /\ cells[j].fam = cells[i].fam
                                      /\ cells[j].qual = cells[i].qual}) = Rank(K(col(i)), i)
    BY <2>2 DEF Rank
  <2>4. RefKept(f, cells, I) =
          {i \in I : Cardinality({j \in I : /\ j <= i
                                           /\ cells[j].fam = cells[i].fam
                                           /\ cells[j].qual = cells[i].qual}) <= f.n}
    BY DEF RefKept
  <2> HIDE DEF K, col
  <2> QED
    BY <2>1, <2>3, <2>4
<1> QED
  BY <1>6, <1>7 DEF Passed

-------------------------------------------------------------------------------
(* Chains are exact. *)

\* What the members of the composite st[i - 1] say of cell i.
Says(n, st, cells, i) == Members(n - 1, st[i - 1], cells[i])

\* The cells that member k is asked about.
AskedOf(n, st, cells, I, k) == {i \in I : k \in Asked(st[i - 1], Says(n, st, cells, i))}

\* What becomes of member k.
MemberOf(cells, st, k) == [i \in 0 .. Len(cells) |-> st[i].fs[k]]

\* Those of the cells in K that member k lets pass.
SaidOf(n, st, cells, K, k) == {i \in K : Says(n, st, cells, i)[k].ok}

\* A composite that is fed cells stays a composite of its kind.
LEMMA CompositeRun ==
  ASSUME NEW n \in Depths, n # 0, NEW f \in Composites(Trees[n - 1]), NEW cells \in Seq(Cells),
         NEW I, NEW st, Case(n, f, cells, I, st)
  PROVE  \A i \in 0 .. Len(cells) :
           st[i] \in Composites(Trees[n - 1]) /\ st[i].kind = f.kind /\ DOMAIN st[i].fs = DOMAIN f.fs
<1> DEFINE P(i) == st[i] \in Composites(Trees[n - 1]) /\ st[i].kind = f.kind /\ DOMAIN st[i].fs = DOMAIN f.fs
           Q == {i \in Nat : i <= Len(cells) => P(i)}
<1>1. 0 \in Q
  BY DEF Case, IsRun
<1>2. ASSUME NEW i \in Nat, i \in Q PROVE i + 1 \in Q
  <2> SUFFICES ASSUME i + 1 <= Len(cells) PROVE P(i + 1)
    OBVIOUS
  <2>0. i + 1 \in 1 .. Len(cells) /\ (i + 1) - 1 = i /\ cells[i + 1] \in Cells
    OBVIOUS
  <2>1. P(i)
    BY <1>2
  <2>2. st[i + 1] = st[i] \/ st[i + 1] = EvaluateTo[n][st[i]][cells[i + 1]].e
    BY <2>0 DEF Case, IsRun
  <2> DEFINE e == st[i]
             c == cells[i + 1]
             v == Members(n - 1, e, c)
  <2>3. Turns(n, e, c, v, EvaluateTo[n][e][c])
    <3>1. e \in Composites(Trees[n - 1]) /\ c \in Cells /\ v = Members(n - 1, e, c)
      BY <2>0, <2>1
    <3> HIDE DEF v, e, c
    <3> QED
      BY <3>1, Verdict
  <2>4. /\ EvaluateTo[n][e][c].e \in Composites(Trees[n - 1])
        /\ EvaluateTo[n][e][c].e.kind = e.kind
        /\ EvaluateTo[n][e][c].e.fs = Ask(e, v, Asked(e, v))
    BY <2>3 DEF Turns
  <2>5. DOMAIN EvaluateTo[n][e][c].e.fs = DOMAIN e.fs
    BY <2>4 DEF Ask
  <2> QED
    BY <2>1, <2>2, <2>4, <2>5
<1> HIDE DEF Q
<1>3. \A i \in Nat : i \in Q
  BY <1>1, <1>2, UpInduction
<1> QED
  BY <1>3 DEF Q

\* One cell of such a run.
LEMMA CompositeStep ==
  ASSUME NEW n \in Depths, n # 0, NEW f \in Composites(Trees[n - 1]), NEW cells \in Seq(Cells),
         NEW I, NEW st, Case(n, f, cells, I, st), NEW i \in 1 .. Len(cells)
  PROVE  /\ st[i - 1] \in Composites(Trees[n - 1]) /\ st[i - 1].kind = f.kind
         /\ DOMAIN st[i - 1].fs = DOMAIN f.fs
         /\ Turns(n, st[i - 1], cells[i], Says(n, st, cells, i), EvaluateTo[n][st[i - 1]][cells[i]])
         /\ st[i] = IF i \in I THEN EvaluateTo[n][st[i - 1]][cells[i]].e ELSE st[i - 1]
         /\ i - 1 \in 0 .. Len(cells)
<1>1. i - 1 \in 0 .. Len(cells) /\ cells[i] \in Cells
  OBVIOUS
<1>2. /\ st[i - 1] \in Composites(Trees[n - 1]) /\ st[i - 1].kind = f.kind
      /\ DOMAIN st[i - 1].fs = DOMAIN f.fs
  BY <1>1, CompositeRun
<1>3. Turns(n, st[i - 1], cells[i], Says(n, st, cells, i), EvaluateTo[n][st[i - 1]][cells[i]])
  BY <1>1, <1>2, Verdict DEF Says
<1>4. st[i] = IF i \in I THEN EvaluateTo[n][st[i - 1]][cells[i]].e ELSE st[i - 1]
  BY DEF Case, IsRun
<1> QED
  BY <1>1, <1>2, <1>3, <1>4

\* A member is a filter of its own, that sees the cells it is asked about.
LEMMA MemberCase ==
  ASSUME NEW n \in Depths, n # 0, NEW f \in Composites(Trees[n - 1]), NEW cells \in Seq(Cells),
         NEW I, NEW st, Case(n, f, cells, I, st), NEW k \in DOMAIN f.fs
  PROVE  Case(n - 1, f.fs[k], cells, AskedOf(n, st, cells, I, k), MemberOf(cells, st, k))
<1> DEFINE K == AskedOf(n, st, cells, I, k)
           m == MemberOf(cells, st, k)
<1>1. K \subseteq I
  BY DEF AskedOf
<1>2. K \subseteq DOMAIN cells /\ OneRow(cells, K)
  BY <1>1 DEF Case, OneRow
<1>3. m \in [0 .. Len(cells) -> Trees[n - 1]]
  <2>1. ASSUME NEW i \in 0 .. Len(cells) PROVE st[i].fs[k] \in Trees[n - 1]
    BY CompositeRun, CompositeShape
  <2> QED
    BY <2>1 DEF MemberOf
<1>4. m[0] = f.fs[k]
  BY DEF MemberOf, Case, IsRun
<1>5. ASSUME NEW i \in 1 .. Len(cells)
      PROVE  m[i] = IF i \in K THEN EvaluateTo[n - 1][m[i - 1]][cells[i]].e ELSE m[i - 1]
  <2> DEFINE e == st[i - 1]
             v == Says(n, st, cells, i)
  <2>0. m[i] = st[i].fs[k] /\ m[i - 1] = e.fs[k]
    BY DEF MemberOf
  <2>1. k \in DOMAIN e.fs /\ Turns(n, e, cells[i], v, EvaluateTo[n][e][cells[i]])
        /\ st[i] = IF i \in I THEN EvaluateTo[n][e][cells[i]].e ELSE e
    BY CompositeStep
  <2>2. EvaluateTo[n][e][cells[i]].e.fs = Ask(e, v, Asked(e, v))
    BY <2>1 DEF Turns
  <2>3. EvaluateTo[n][e][cells[i]].e.fs[k] = IF k \in Asked(e, v) THEN v[k].e ELSE e.fs[k]
    BY <2>1, <2>2 DEF Ask
  <2>4. v[k] = EvaluateTo[n - 1][e.fs[k]][cells[i]]
    BY <2>1 DEF Says, Members
  <2>5. i \in K <=> i \in I /\ k \in Asked(e, v)
    BY DEF AskedOf
  <2> HIDE DEF e, v, K, m
  <2> QED
    BY <2>0, <2>1, <2>3, <2>4, <2>5
<1> HIDE DEF K, m
<1>6. IsRun(n - 1, f.fs[k], cells, K, m)
  BY <1>3, <1>4, <1>5 DEF IsRun
<1>7. Case(n - 1, f.fs[k], cells, K, m)
  BY <1>2, <1>6 DEF Case
<1> QED
  BY <1>7 DEF K, m

\* The cells that member k lets pass are those that it leaves of the ones it is asked about.
LEMMA MemberExact ==
  ASSUME NEW n \in Depths, n # 0, NEW f \in Composites(Trees[n - 1]), NEW cells \in Seq(Cells),
         NEW I, NEW st, Case(n, f, cells, I, st), NEW k \in DOMAIN f.fs,
         ExactOn(n - 1, f.fs[k], cells)
  PROVE  SaidOf(n, st, cells, AskedOf(n, st, cells, I, k), k) =
           RefTo[n - 1][f.fs[k]][cells][AskedOf(n, st, cells, I, k)]
<1> DEFINE K == AskedOf(n, st, cells, I, k)
           m == MemberOf(cells, st, k)
<1>1. Passed(n - 1, cells, K, m) = RefTo[n - 1][f.fs[k]][cells][K]
  BY MemberCase DEF ExactOn
<1>2. ASSUME NEW i \in K PROVE EvaluateTo[n - 1][m[i - 1]][cells[i]] = Says(n, st, cells, i)[k]
  <2>1. i \in 1 .. Len(cells)
    BY DEF AskedOf, Case
  <2>2. i - 1 \in 0 .. Len(cells) /\ k \in DOMAIN st[i - 1].fs
    BY <2>1, CompositeStep
  <2> QED
    BY <2>2 DEF MemberOf, Says, Members
<1>3. Passed(n - 1, cells, K, m) = SaidOf(n, st, cells, K, k)
  <2> HIDE DEF K, m
  <2> QED
    BY <1>2 DEF Passed, SaidOf
<1> QED
  BY <1>1, <1>3

\* A chain of exact members is exact: each sees what the one before it let pass.
LEMMA ChainExact ==
  ASSUME NEW n \in Depths, n # 0, NEW f \in Composites(Trees[n - 1]), f.kind = "chain",
         NEW cells \in Seq(Cells), \A k \in DOMAIN f.fs : ExactOn(n - 1, f.fs[k], cells)
  PROVE  ExactOn(n, f, cells)
<1> SUFFICES ASSUME NEW I, NEW st, Case(n, f, cells, I, st)
             PROVE  Passed(n, cells, I, st) = RefTo[n][f][cells][I]
  BY DEF ExactOn
<1> DEFINE ok(i, j) == Says(n, st, cells, i)[j].ok
           C(k) == {i \in I : \A j \in 1 .. k : ok(i, j)}
<1>1. DOMAIN f.fs = 1 .. Len(f.fs) /\ Len(f.fs) \in Nat /\ \A k \in DOMAIN f.fs : f.fs[k] \in Trees[n - 1]
  BY CompositeShape
<1>2. I \in SUBSET Nat
  BY CaseNumbers
<1>3. \A i \in I : i \in 1 .. Len(cells)
  BY CaseNumbers
<1>4. PICK p : Outputs(n, f, cells, I, p) /\ RefTo[n][f][cells][I] = p[Len(f.fs)]
  <2>1. \A k \in DOMAIN f.fs : \A J \in SUBSET Nat : RefTo[n - 1][f.fs[k]][cells][J] \in SUBSET Nat
    <3>1. \A k \in DOMAIN f.fs : \A J \in SUBSET Nat : RefTo[n - 1][f.fs[k]][cells][J] \subseteq J
      BY <1>1, DepthFacts, RefSubset
    <3> QED
      BY <3>1
  <2> QED
    BY <1>2, <2>1, RefChain
<1>5. ASSUME NEW i \in I
      PROVE  /\ Asked(st[i - 1], Says(n, st, cells, i)) = {k \in DOMAIN f.fs : \A j \in 1 .. k - 1 : ok(i, j)}
             /\ EvaluateTo[n][st[i - 1]][cells[i]].ok = \A k \in DOMAIN f.fs : ok(i, k)
  <2>1. /\ st[i - 1].kind = "chain" /\ DOMAIN st[i - 1].fs = DOMAIN f.fs
        /\ Turns(n, st[i - 1], cells[i], Says(n, st, cells, i), EvaluateTo[n][st[i - 1]][cells[i]])
    BY <1>3, CompositeStep
  <2>2. EvaluateTo[n][st[i - 1]][cells[i]].ok = Accepts(st[i - 1], Says(n, st, cells, i))
    BY <2>1 DEF Turns
  <2> QED
    BY <2>1, <2>2 DEF Asked, Accepts
<1>6. ASSUME NEW k \in DOMAIN f.fs PROVE C(k) = RefTo[n - 1][f.fs[k]][cells][C(k - 1)]
  <2>1. AskedOf(n, st, cells, I, k) = C(k - 1)
    BY <1>5 DEF AskedOf
  <2>2. SaidOf(n, st, cells, C(k - 1), k) = RefTo[n - 1][f.fs[k]][cells][C(k - 1)]
    <3> HIDE DEF C
    <3> QED
      BY <2>1, MemberExact
  <2>3. C(k) = {i \in C(k - 1) : ok(i, k)}
    <3>1. k \in Nat \ {0} /\ 1 .. k = (1 .. k - 1) \cup {k}
      BY <1>1
    <3> HIDE DEF ok
    <3> QED
      BY <3>1
  <2>4. {i \in C(k - 1) : ok(i, k)} = SaidOf(n, st, cells, C(k - 1), k)
    BY DEF SaidOf
  <2> HIDE DEF C
  <2> QED
    BY <2>2, <2>3, <2>4
<1> DEFINE Q == {k \in Nat : k <= Len(f.fs) => p[k] = C(k)}
<1>7. 0 \in Q
  BY <1>4 DEF Outputs
<1>8. ASSUME NEW k \in Nat, k \in Q PROVE k + 1 \in Q
  <2> SUFFICES ASSUME k + 1 <= Len(f.fs) PROVE p[k + 1] = C(k + 1)
    OBVIOUS
  <2>1. k + 1 \in 1 .. Len(f.fs) /\ k + 1 \in DOMAIN f.fs /\ (k + 1) - 1 = k /\ k <= Len(f.fs)
    BY <1>1
  <2>2. p[k + 1] = RefTo[n - 1][f.fs[k + 1]][cells][p[k]]
    BY <1>4, <2>1 DEF Outputs
  <2>3. p[k] = C(k)
    BY <1>8, <2>1
  <2> HIDE DEF C
  <2> QED
    BY <1>6, <2>1, <2>2, <2>3
<1> HIDE DEF Q
<1>9. \A k \in Nat : k \in Q
  BY <1>7, <1>8, UpInduction
<1>10. RefTo[n][f][cells][I] = C(Len(f.fs))
  BY <1>1, <1>4, <1>9 DEF Q
<1>11. Passed(n, cells, I, st) = C(Len(f.fs))
  BY <1>1, <1>5 DEF Passed
<1> QED
  BY <1>10, <1>11

-------------------------------------------------------------------------------
(* Interleaves and conditions are exact. *)

\* An interleave of exact members is exact if they judge positions one by one: the members that
\* are not asked keep no state, and the set of seen cells never rejects a cell of the row.
LEMMA InterleaveExact ==
  ASSUME NEW n \in Depths, n # 0, NEW f \in Composites(Trees[n - 1]), f.kind = "interleave",
         f.seen = {}, NEW cells \in Seq(Cells),
         \A k \in DOMAIN f.fs : ExactOn(n - 1, f.fs[k], cells) /\ PointByPoint(n - 1, f.fs[k], cells)
  PROVE  ExactOn(n, f, cells)
<1> SUFFICES ASSUME NEW I, NEW st, Case(n, f, cells, I, st)
             PROVE  Passed(n, cells, I, st) = RefTo[n][f][cells][I]
  BY DEF ExactOn
<1> DEFINE ok(i, j) == Says(n, st, cells, i)[j].ok
           id(i) == <<cells[i].fam, cells[i].qual, cells[i].ts>>
           ref(k, J) == RefTo[n - 1][f.fs[k]][cells][J]
           K(k) == AskedOf(n, st, cells, I, k)
           accepted(i) == \E k \in DOMAIN f.fs : ok(i, k)
           answer(i) == EvaluateTo[n][st[i - 1]][cells[i]]
<1>1. DOMAIN f.fs = 1 .. Len(f.fs) /\ Len(f.fs) \in Nat /\ \A k \in DOMAIN f.fs : f.fs[k] \in Trees[n - 1]
  BY CompositeShape
<1>2. I \in SUBSET Nat
  BY CaseNumbers
<1>3. \A i \in I : i \in 1 .. Len(cells)
  BY CaseNumbers
<1>4. ASSUME NEW i \in I
      PROVE  /\ Asked(st[i - 1], Says(n, st, cells, i)) = {k \in DOMAIN f.fs : \A j \in 1 .. k - 1 : ~ok(i, j)}
             /\ answer(i).ok = (accepted(i) /\ id(i) \notin st[i - 1].seen)
             /\ st[i].seen \subseteq st[i - 1].seen \cup {id(i)}
  <2> DEFINE e == st[i - 1]
             v == Says(n, st, cells, i)
  <2>1. /\ e.kind = "interleave" /\ DOMAIN e.fs = DOMAIN f.fs
        /\ Turns(n, e, cells[i], v, answer(i)) /\ st[i] = answer(i).e
    BY <1>3, CompositeStep
  <2>2. /\ answer(i).ok = (Accepts(e, v) /\ id(i) \notin e.seen)
        /\ answer(i).e.seen = IF Accepts(e, v) THEN e.seen \cup {id(i)} ELSE e.seen
    BY <2>1 DEF Turns
  <2>3. Accepts(e, v) = accepted(i)
    BY <2>1 DEF Accepts
  <2>4. Asked(e, v) = {k \in DOMAIN f.fs : \A j \in 1 .. k - 1 : ~ok(i, j)}
    BY <2>1 DEF Asked
  <2> HIDE DEF v, ok, accepted, answer
  <2>5. st[i].seen \subseteq st[i - 1].seen \cup {id(i)}
    BY <2>1, <2>2
  <2> QED
    BY <2>2, <2>3, <2>4, <2>5 DEF v
\* What was seen are the cells before this one, which are others.
<1> DEFINE before(i) == {id(j) : j \in {j \in I : j <= i}}
           Q == {i \in Nat : i <= Len(cells) => st[i].seen \subseteq before(i)}
<1>5. 0 \in Q
  BY DEF Case, IsRun
<1>6. ASSUME NEW i \in Nat, i \in Q PROVE i + 1 \in Q
  <2> SUFFICES ASSUME i + 1 <= Len(cells) PROVE st[i + 1].seen \subseteq before(i + 1)
    OBVIOUS
  <2>1. i + 1 \in 1 .. Len(cells) /\ (i + 1) - 1 = i
    OBVIOUS
  <2>2. st[i].seen \subseteq before(i)
    BY <1>6
  <2>3. before(i) \subseteq before(i + 1)
    <3>1. {j \in I : j <= i} \subseteq {j \in I : j <= i + 1}
      BY <1>3
    <3> QED
      BY <3>1
  <2>4. CASE i + 1 \in I
    <3>1. st[i + 1].seen \subseteq st[i].seen \cup {id(i + 1)}
      BY <1>4, <2>1, <2>4
    <3>2. id(i + 1) \in before(i + 1)
      BY <2>1, <2>4
    <3> HIDE DEF before, id
    <3> QED
      BY <2>2, <2>3, <3>1, <3>2
  <2>5. CASE i + 1 \notin I
    <3>1. st[i + 1] = st[i]
      BY <2>1, <2>5 DEF Case, IsRun
    <3> HIDE DEF before, id
    <3> QED
      BY <2>2, <2>3, <3>1
  <2> QED
    BY <2>4, <2>5
<1> HIDE DEF Q
<1>7. \A i \in Nat : i \in Q
  BY <1>5, <1>6, UpInduction
<1>8. ASSUME NEW i \in I PROVE id(i) \notin st[i - 1].seen
  <2>1. i - 1 \in Nat /\ i - 1 <= Len(cells) /\ i \in Nat
    BY <1>3
  <2>2. st[i - 1].seen \subseteq before(i - 1)
    BY <1>7, <2>1 DEF Q
  <2>3. ASSUME id(i) \in before(i - 1) PROVE FALSE
    <3>1. PICK j \in I : j <= i - 1 /\ id(j) = id(i)
      BY <2>3
    <3>2. j = i
      BY <3>1 DEF Case, OneRow
    <3> QED
      BY <2>1, <3>1, <3>2
  <2> QED
    BY <2>2, <2>3
\* A member leaves of the cells it is asked about what it leaves of all.
<1>9. ASSUME NEW k \in DOMAIN f.fs, NEW i \in K(k)
      PROVE  ok(i, k) <=> i \in ref(k, I)
  <2>1. SaidOf(n, st, cells, K(k), k) = ref(k, K(k))
    BY MemberExact
  <2>2. Part(cells, I, K(k))
    BY DEF Part, AskedOf, Case
  <2>3. ref(k, K(k)) = ref(k, I) \cap K(k)
    BY <2>2 DEF PointByPoint
  <2>4. i \in SaidOf(n, st, cells, K(k), k) <=> ok(i, k)
    BY DEF SaidOf
  <2> HIDE DEF K, ok, ref
  <2> QED
    BY <2>1, <2>3, <2>4
<1>10. ASSUME NEW i \in I, NEW k \in DOMAIN f.fs
       PROVE  i \in K(k) <=> \A j \in 1 .. k - 1 : ~ok(i, j)
  <2>1. i \in K(k) <=> k \in Asked(st[i - 1], Says(n, st, cells, i))
    BY DEF AskedOf
  <2> HIDE DEF K
  <2> QED
    BY <1>4, <2>1
<1>11. ASSUME NEW i \in I PROVE accepted(i) <=> \E k \in DOMAIN f.fs : i \in ref(k, I)
  <2>1. ASSUME accepted(i) PROVE \E k \in DOMAIN f.fs : i \in ref(k, I)
    <3> DEFINE S == {k \in DOMAIN f.fs : ok(i, k)}
    <3>1. S \in SUBSET Nat /\ S # {}
      BY <1>1, <2>1
    <3>2. PICK k \in S : \A j \in S : k <= j
      <4> HIDE DEF S
      <4> QED
        BY <3>1, Least
    <3>3. \A j \in 1 .. k - 1 : ~ok(i, j)
      <4> SUFFICES ASSUME NEW j \in 1 .. k - 1, ok(i, j) PROVE FALSE
        OBVIOUS
      <4>1. k \in 1 .. Len(f.fs)
        BY <1>1
      <4>2. j \in S /\ j < k
        BY <1>1, <4>1
      <4> QED
        BY <3>2, <4>1, <4>2
    <3>4. k \in DOMAIN f.fs /\ ok(i, k)
      OBVIOUS
    <3> HIDE DEF ok, K, ref, S
    <3>5. i \in K(k)
      BY <1>10, <3>3, <3>4
    <3> QED
      BY <1>9, <3>4, <3>5
  <2>2. ASSUME NEW k \in DOMAIN f.fs, i \in ref(k, I) PROVE accepted(i)
    <3> SUFFICES ASSUME ~accepted(i) PROVE FALSE
      OBVIOUS
    <3>1. \A j \in DOMAIN f.fs : ~ok(i, j)
      OBVIOUS
    <3>2. \A j \in 1 .. k - 1 : j \in DOMAIN f.fs
      BY <1>1
    <3> HIDE DEF ok, K, ref, accepted
    <3>3. i \in K(k)
      BY <1>10, <3>1, <3>2
    <3> QED
      BY <1>9, <2>2, <3>1, <3>3
  <2> QED
    BY <2>1, <2>2
<1>12. RefTo[n][f][cells][I] = UNION {ref(k, I) : k \in DOMAIN f.fs}
  BY <1>2, RefOther
<1>13. \A k \in DOMAIN f.fs : ref(k, I) \subseteq I
  BY <1>1, <1>2, DepthFacts, RefSubset
<1>14. ASSUME NEW i \in I PROVE answer(i).ok <=> accepted(i)
  <2> HIDE DEF answer, accepted
  <2> QED
    BY <1>4, <1>8
<1>15. Passed(n, cells, I, st) = {i \in I : accepted(i)}
  <2>1. Passed(n, cells, I, st) = {i \in I : answer(i).ok}
    BY DEF Passed
  <2> HIDE DEF answer, accepted
  <2> QED
    BY <1>14, <2>1
<1> HIDE DEF accepted, ref
<1> QED
  BY <1>11, <1>12, <1>13, <1>15

\* A condition is exact if its predicate looks at the row only: the same branch sees every cell.
LEMMA ConditionExact ==
  ASSUME NEW n \in Depths, n # 0, NEW f \in Composites(Trees[n - 1]), f.kind = "condition",
         RowOnly(f.fs[1]), NEW cells \in Seq(Cells),
         \A k \in DOMAIN f.fs : ExactOn(n - 1, f.fs[k], cells)
  PROVE  ExactOn(n, f, cells)
<1> SUFFICES ASSUME NEW I, NEW st, Case(n, f, cells, I, st)
             PROVE  Passed(n, cells, I, st) = RefTo[n][f][cells][I]
  BY DEF ExactOn
<1> DEFINE ok(i, j) == Says(n, st, cells, i)[j].ok
           ref(k, J) == RefTo[n - 1][f.fs[k]][cells][J]
           answer(i) == EvaluateTo[n][st[i - 1]][cells[i]]
<1>0. n - 1 \in Depths
  BY DepthFacts
<1>1. DOMAIN f.fs = 1 .. 3 /\ \A k \in DOMAIN f.fs : f.fs[k] \in Trees[n - 1]
  BY CompositeShape
<1>2. I \in SUBSET Nat
  BY CaseNumbers
<1>3. \A i \in I : i \in 1 .. Len(cells)
  BY CaseNumbers
<1>4. ASSUME NEW i \in I
      PROVE  /\ Asked(st[i - 1], Says(n, st, cells, i)) = {1, IF ok(i, 1) THEN 2 ELSE 3}
             /\ answer(i).ok = ok(i, IF ok(i, 1) THEN 2 ELSE 3)
  <2> DEFINE e == st[i - 1]
             v == Says(n, st, cells, i)
  <2>1. e.kind = "condition" /\ DOMAIN e.fs = 1 .. 3 /\ Turns(n, e, cells[i], v, answer(i))
    BY <1>1, <1>3, CompositeStep
  <2>2. answer(i).ok = Accepts(e, v) /\ \A k \in 1 .. 3 : v[k].ok \in BOOLEAN
    BY <2>1 DEF Turns
  <2>3. Asked(e, v) = {1, IF v[1].ok THEN 2 ELSE 3}
    BY <2>1 DEF Asked
  <2>4. Accepts(e, v) = v[IF v[1].ok THEN 2 ELSE 3].ok
    <3> DEFINE b == v[IF v[1].ok THEN 2 ELSE 3].ok
    <3>1. Accepts(e, v) <=> b
      BY <2>1 DEF Accepts
    <3>2. b \in BOOLEAN
      BY <2>2
    <3>3. Accepts(e, v) \in BOOLEAN
      BY DEF Accepts
    <3> HIDE DEF b
    <3>4. Accepts(e, v) = b
      BY <3>1, <3>2, <3>3
    <3> QED
      BY <3>4 DEF b
  <2> QED
    BY <2>2, <2>3, <2>4
\* The predicate says the same of all cells.
<1>5. /\ AskedOf(n, st, cells, I, 1) = I
      /\ (\A i \in I : ok(i, 1)) => AskedOf(n, st, cells, I, 2) = I
      /\ (\A i \in I : ~ok(i, 1)) => AskedOf(n, st, cells, I, 3) = I
  <2> HIDE DEF ok
  <2> QED
    BY <1>4 DEF AskedOf
<1>6. f.fs[1] \in Leaves /\ ~Counter(f.fs[1]) /\ f.fs[1] \in Trees[n - 1]
  BY <1>0, <1>1, RowOnlyLeaf
<1>7. SaidOf(n, st, cells, I, 1) = RefMatched(f.fs[1], cells, I) /\ ref(1, I) = RefMatched(f.fs[1], cells, I)
  <2>1. SaidOf(n, st, cells, AskedOf(n, st, cells, I, 1), 1) = ref(1, AskedOf(n, st, cells, I, 1))
    BY <1>1, MemberExact
  <2>2. ref(1, I) = RefMatched(f.fs[1], cells, I)
    BY <1>0, <1>2, <1>6, RefLeaf
  <2> QED
    BY <1>5, <2>1, <2>2
<1>8. ASSUME NEW i \in I, NEW j \in I PROVE ok(i, 1) <=> ok(j, 1)
  <2>1. cells[i] \in Cells /\ cells[j] \in Cells /\ cells[i].row = cells[j].row
    BY <1>3 DEF Case, OneRow
  <2>2. RefMatches(f.fs[1], cells[i]) = RefMatches(f.fs[1], cells[j])
    BY <1>0, <1>6, <2>1, RowOnlyLeaf
  <2>3. \A k \in I : k \in SaidOf(n, st, cells, I, 1) <=> ok(k, 1)
    BY DEF SaidOf
  <2>4. \A k \in I : k \in RefMatched(f.fs[1], cells, I) <=> RefMatches(f.fs[1], cells[k])
    BY DEF RefMatched
  <2> HIDE DEF ok
  <2> QED
    BY <1>7, <2>2, <2>3, <2>4
<1>9. RefTo[n][f][cells][I] = IF ref(1, I) # {} THEN ref(2, I) ELSE ref(3, I)
  BY <1>2, RefOther
<1>10. Passed(n, cells, I, st) = {i \in I : answer(i).ok}
  BY DEF Passed
<1>11. CASE ref(1, I) # {}
  <2>1. \A i \in I : ok(i, 1)
    BY <1>7, <1>8, <1>11 DEF SaidOf
  <2>2. SaidOf(n, st, cells, I, 2) = ref(2, I)
    <3>1. SaidOf(n, st, cells, AskedOf(n, st, cells, I, 2), 2) = ref(2, AskedOf(n, st, cells, I, 2))
      BY <1>1, MemberExact
    <3> QED
      BY <1>5, <2>1, <3>1
  <2>3. \A i \in I : answer(i).ok = ok(i, 2)
    BY <1>4, <2>1
  <2>4. Passed(n, cells, I, st) = SaidOf(n, st, cells, I, 2)
    <3>1. SaidOf(n, st, cells, I, 2) = {i \in I : ok(i, 2)}
      BY DEF SaidOf
    <3> HIDE DEF ok, answer
    <3> QED
      BY <1>10, <2>3, <3>1
  <2> QED
    BY <1>9, <1>11, <2>2, <2>4
<1>12. CASE ref(1, I) = {}
  <2>1. \A i \in I : ~ok(i, 1)
    BY <1>7, <1>12 DEF SaidOf
  <2>2. SaidOf(n, st, cells, I, 3) = ref(3, I)
    <3>1. SaidOf(n, st, cells, AskedOf(n, st, cells, I, 3), 3) = ref(3, AskedOf(n, st, cells, I, 3))
      BY <1>1, MemberExact
    <3> QED
      BY <1>5, <2>1, <3>1
  <2>3. \A i \in I : answer(i).ok = ok(i, 3)
    BY <1>4, <2>1
  <2>4. Passed(n, cells, I, st) = SaidOf(n, st, cells, I, 3)
    <3>1. SaidOf(n, st, cells, I, 3) = {i \in I : ok(i, 3)}
      BY DEF SaidOf
    <3> HIDE DEF ok, answer
    <3> QED
      BY <1>10, <2>3, <3>1
  <2> QED
    BY <1>9, <1>12, <2>2, <2>4
<1> QED
  BY <1>11, <1>12

-------------------------------------------------------------------------------
(* Plain filters are exact: the evaluator, fed cell by cell, accepts those that the filter means. *)

\* A leaf that a reset leaves as it is has counted nothing.
LEMMA FreshLeaf ==
  ASSUME NEW n \in Depths, NEW f \in Leaves, ResetTo[n][f] = f
  PROVE  /\ f.kind \in {"offset", "limit"} => f.count = 0
         /\ f.kind = "column" => f.counts = <<>>
<1>1. LeafReset(f) = f
  BY ResetLeaf
<1>2. f.kind \in {"offset", "limit"} => LeafReset(f).count = 0
  BY DEF LeafReset
<1>3. f.kind = "column" => LeafReset(f).counts = <<>>
  BY DEF LeafReset
<1> QED
  BY <1>1, <1>2, <1>3

\* So it is with the members of a composite.
LEMMA FreshMembers ==
  ASSUME NEW n \in Depths, n # 0, NEW f \in Composites(Trees[n - 1]), ResetTo[n][f] = f
  PROVE  /\ \A k \in DOMAIN f.fs : ResetTo[n - 1][f.fs[k]] = f.fs[k]
         /\ f.kind = "interleave" => f.seen = {}
<1>1. f.fs = Resets(n - 1, f) /\ (f.kind = "interleave" => f.seen = {})
  <2> DEFINE r == Resets(n - 1, f)
  <2>1. /\ f.kind = "chain" => f = [kind |-> "chain", fs |-> r]
        /\ f.kind = "interleave" => f = [kind |-> "interleave", fs |-> r, seen |-> {}]
        /\ f.kind = "condition" => f = [kind |-> "condition", fs |-> r]
    BY ResetComposite
  <2> HIDE DEF r
  <2>2. f.fs = r /\ (f.kind = "interleave" => f.seen = {})
    <3>1. CASE f.kind = "chain"
      BY <2>1, <3>1
    <3>2. CASE f.kind = "interleave"
      BY <2>1, <3>2
    <3>3. CASE f.kind = "condition"
      BY <2>1, <3>3
    <3> QED
      BY <3>1, <3>2, <3>3, CompositeShape
  <2> QED
    BY <2>2 DEF r
<1>2. ASSUME NEW k \in DOMAIN f.fs PROVE Resets(n - 1, f)[k] = ResetTo[n - 1][f.fs[k]]
  BY DEF Resets
<1> QED
  BY <1>1, <1>2

\* Fed the cells of a row one by one (matchesCell), the evaluator of a plain filter that was reset
\* accepts exactly the cells that the filter means for the row as a whole, however deep it is.
THEOREM FilterExact ==
  \A n \in Depths : \A f \in Trees[n], cells \in Seq(Cells) :
    PlainTo[n][f] /\ ResetTo[n][f] = f => ExactOn(n, f, cells)
<1> DEFINE Q == {n \in Depths : \A f \in Trees[n], cells \in Seq(Cells) :
                   PlainTo[n][f] /\ ResetTo[n][f] = f => ExactOn(n, f, cells)}
<1>1. ASSUME NEW n \in Depths, NEW f \in Leaves, NEW cells \in Seq(Cells),
             PlainTo[n][f], ResetTo[n][f] = f
      PROVE  ExactOn(n, f, cells)
  <2>1. CASE f.kind = "offset"
    BY <1>1, <2>1, FreshLeaf, OffsetExact
  <2>2. CASE f.kind = "limit"
    BY <1>1, <2>2, FreshLeaf, LimitExact
  <2>3. CASE f.kind = "column"
    BY <1>1, <2>3, FreshLeaf, ColumnExact
  <2>4. CASE ~Counter(f)
    BY <1>1, <2>4, MatchExact
  <2> QED
    BY <2>1, <2>2, <2>3, <2>4 DEF Counter
<1>2. 0 \in Q
  BY <1>1, NoDepth, DepthFacts
<1>3. ASSUME NEW n \in Depths \ {0}, n - 1 \in Q PROVE n \in Q
  <2>0. n - 1 \in Depths
    BY DepthFacts
  <2> SUFFICES ASSUME NEW f \in Trees[n], NEW cells \in Seq(Cells), PlainTo[n][f], ResetTo[n][f] = f
               PROVE  ExactOn(n, f, cells)
    OBVIOUS
  <2>1. CASE f \in Leaves
    BY <1>1, <2>1
  <2>2. CASE f \in Composites(Trees[n - 1])
    <3>1. DOMAIN f.fs = 1 .. Len(f.fs) /\ Len(f.fs) \in Nat /\ \A k \in DOMAIN f.fs : f.fs[k] \in Trees[n - 1]
      BY <2>2, CompositeShape
    <3>2. \A k \in DOMAIN f.fs : PlainTo[n - 1][f.fs[k]] /\ ResetTo[n - 1][f.fs[k]] = f.fs[k]
      BY <2>2, PlainMembers, FreshMembers
    <3>3. \A k \in DOMAIN f.fs : ExactOn(n - 1, f.fs[k], cells)
      BY <1>3, <3>1, <3>2
    <3>4. CASE f.kind = "chain"
      BY <2>2, <3>3, <3>4, ChainExact
    <3>5. CASE f.kind = "interleave"
      <4>1. \A k \in DOMAIN f.fs : StatelessTo[n - 1][f.fs[k]]
        BY <2>2, <3>5, PlainMembers
      <4>2. \A k \in DOMAIN f.fs : PointByPoint(n - 1, f.fs[k], cells)
        BY <2>0, <3>1, <3>2, <4>1, StatelessPoints
      <4>3. f.seen = {}
        BY <2>2, <3>5, FreshMembers
      <4> QED
        BY <2>2, <3>3, <3>5, <4>2, <4>3, InterleaveExact
    <3>6. CASE f.kind = "condition"
      <4>1. RowOnly(f.fs[1])
        BY <2>2, <3>6, PlainMembers
      <4> QED
        BY <2>2, <3>3, <3>6, <4>1, ConditionExact
    <3> QED
      BY <2>2, <3>4, <3>5, <3>6, CompositeShape
  <2> QED
    BY <2>1, <2>2, TreeCases
<1> HIDE DEF Q
<1>4. \A n \in Depths : n \in Q
  BY <1>2, <1>3, DepthInduction
<1> QED
  BY <1>4 DEF Q

\* Every sequence of cells has a run.
LEMMA RunExists ==
  ASSUME NEW n \in Depths, NEW f \in Trees[n], NEW cells \in Seq(Cells), NEW I
  PROVE  \E st : IsRun(n, f, cells, I, st)
<1> DEFINE X == Trees[n]
           m == Len(cells)
           F == [i \in 1 .. m |-> [x \in X |-> IF i \in I THEN EvaluateTo[n][x][cells[i]].e ELSE x]]
<1>1. m \in Nat /\ \A i \in 1 .. m : cells[i] \in Cells
  OBVIOUS
<1>2. ASSUME NEW i \in 1 .. m, NEW x \in X PROVE F[i][x] \in X
  <2>1. EvaluateTo[n][x][cells[i]].e \in X
    BY EvalType
  <2> QED
    BY <2>1
<1>3. Steps(X, m, F)
  BY <1>2 DEF Steps
<1>4. PICK st : Follows(st, X, f, m, F)
  <2> HIDE DEF F, m
  <2> QED
    BY <1>1, <1>3, Recursion
<1>5. st \in [0 .. m -> X] /\ st[0] = f
  BY <1>4 DEF Follows
<1>6. ASSUME NEW i \in 1 .. m
      PROVE  st[i] = IF i \in I THEN EvaluateTo[n][st[i - 1]][cells[i]].e ELSE st[i - 1]
  <2>1. st[i] = F[i][st[i - 1]]
    <3> HIDE DEF F
    <3> QED
      BY <1>4 DEF Follows
  <2>2. st[i - 1] \in X
    BY <1>1, <1>5
  <2> HIDE DEF X
  <2> QED
    BY <2>1, <2>2
<1> QED
  BY <1>5, <1>6 DEF IsRun

\* Trees of the full depth.
LEMMA EvaluatorFacts ==
  /\ MaxDepth \in Depths /\ Evaluators = Trees[MaxDepth]
  /\ \A e \in Evaluators : /\ Reset(e) \in Evaluators
                           /\ \A c \in Cells : /\ Evaluate(e, c).e \in Evaluators
                                               /\ Evaluate(e, c).ok \in BOOLEAN
                                               /\ Reset(Evaluate(e, c).e) = Reset(e)
<1>1. MaxDepth \in Depths /\ Evaluators = Trees[MaxDepth]
  BY DepthFacts DEF Evaluators
<1> QED
  BY <1>1, EvalType, ResetKept DEF Reset, Evaluate

\* The predicate of CheckAndMutateRow.
LEMMA HasMatchExact ==
  ASSUME NEW e \in Evaluators, NEW f \in Evaluators, Reset(e) = f, Reset(f) = f, Plain(f),
         NEW cells \in Seq(Cells), OneRow(cells, DOMAIN cells)
  PROVE  HasMatch(e, cells) <=> RefFilter(f, cells, DOMAIN cells) # {}
<1> DEFINE n == MaxDepth
           D == DOMAIN cells
           B(g) == [i \in 0 .. Len(cells) |->
                      IF i = 0 THEN Reset(e) ELSE Evaluate(g[i - 1], cells[i]).e]
           after == CHOOSE g : g = B(g)
<1>0. n \in Depths /\ f \in Trees[n] /\ D = 1 .. Len(cells)
  BY EvaluatorFacts
<1>1. PICK st : IsRun(n, f, cells, D, st)
  BY <1>0, RunExists
<1>2. /\ st \in [0 .. Len(cells) -> Trees[n]] /\ st[0] = f
      /\ \A i \in 1 .. Len(cells) : st[i] = Evaluate(st[i - 1], cells[i]).e
  BY <1>0, <1>1 DEF IsRun, Evaluate
<1>3. st = B(st)
  <2>1. st = [i \in 0 .. Len(cells) |-> st[i]]
    BY <1>2
  <2>2. ASSUME NEW i \in 0 .. Len(cells)
        PROVE  st[i] = IF i = 0 THEN Reset(e) ELSE Evaluate(st[i - 1], cells[i]).e
    BY <1>2
  <2> QED
    BY <2>1, <2>2
<1>4. after = B(after)
  <2> HIDE DEF B
  <2> QED
    BY <1>3
<1> HIDE DEF after
<1>5. /\ after = [i \in 0 .. Len(cells) |-> after[i]]
      /\ \A i \in 0 .. Len(cells) :
           after[i] = IF i = 0 THEN Reset(e) ELSE Evaluate(after[i - 1], cells[i]).e
  BY <1>4
<1> DEFINE Q == {i \in Nat : i <= Len(cells) => after[i] = st[i]}
<1>6. 0 \in Q
  BY <1>2, <1>5
<1>7. ASSUME NEW i \in Nat, i \in Q PROVE i + 1 \in Q
  <2> SUFFICES ASSUME i + 1 <= Len(cells) PROVE after[i + 1] = st[i + 1]
    OBVIOUS
  <2>1. i + 1 \in 1 .. Len(cells) /\ (i + 1) - 1 = i /\ i + 1 \in 0 .. Len(cells) /\ i + 1 # 0
    OBVIOUS
  <2>2. after[i] = st[i]
    BY <1>7
  <2>3. after[i + 1] = Evaluate(after[i], cells[i + 1]).e
    BY <1>5, <2>1
  <2>4. st[i + 1] = Evaluate(st[i], cells[i + 1]).e
    BY <1>2, <2>1
  <2> QED
    BY <2>2, <2>3, <2>4
<1> HIDE DEF Q
<1>8. \A i \in Nat : i \in Q
  BY <1>6, <1>7, UpInduction
<1>9. HasMatch(e, cells) <=> \E i \in D : Evaluate(after[i - 1], cells[i]).ok
  BY Zenon DEF HasMatch, after
<1>10. \A i \in D : after[i - 1] = st[i - 1]
  BY <1>0, <1>8 DEF Q
<1>11. Case(n, f, cells, D, st)
  BY <1>1 DEF Case
<1>12. Passed(n, cells, D, st) = RefFilter(f, cells, D)
  <2>1. ExactOn(n, f, cells)
    BY <1>0, FilterExact DEF Plain, Reset
  <2> QED
    BY <1>11, <2>1 DEF ExactOn, RefFilter
<1>13. Passed(n, cells, D, st) = {i \in D : Evaluate(st[i - 1], cells[i]).ok}
  BY DEF Passed, Evaluate
<1> HIDE DEF D
<1>14. HasMatch(e, cells) <=> \E i \in D : Evaluate(st[i - 1], cells[i]).ok
  BY <1>9, <1>10
<1>15. Passed(n, cells, D, st) # {} <=> \E i \in D : Evaluate(st[i - 1], cells[i]).ok
  BY <1>13
<1> QED
  BY <1>12, <1>14, <1>15 DEF D

-------------------------------------------------------------------------------
(* At: the elements of a sequence at some positions. *)

\* A finite set of numbers.
Numbers(I) == IsFiniteSet(I) /\ \A i \in I : i \in Nat

\* A set of positions is a finite set of numbers.
LEMMA NumbersIn ==
  ASSUME NEW m \in Nat, NEW I, I \subseteq 1 .. m
  PROVE  Numbers(I)
<1>1. IsFiniteSet(1 .. m)
  BY FS_Interval
<1>2. IsFiniteSet(I)
  BY <1>1, FS_Subset
<1> QED
  BY <1>2 DEF Numbers

\* So is a part of it, which is no larger.
LEMMA NumbersPart ==
  ASSUME NEW I, Numbers(I), NEW J, J \subseteq I
  PROVE  Numbers(J) /\ Cardinality(J) \in Nat /\ Cardinality(I) \in Nat /\ Cardinality(J) <= Cardinality(I)
<1>1. IsFiniteSet(I)
  BY DEF Numbers
<1>2. IsFiniteSet(J) /\ Cardinality(J) <= Cardinality(I)
  BY <1>1, FS_Subset
<1>3. Cardinality(J) \in Nat /\ Cardinality(I) \in Nat
  BY <1>1, <1>2, FS_CardinalityType
<1> QED
  BY <1>2, <1>3 DEF Numbers

\* Numbers have a bound.
LEMMA NumbersBound ==
  ASSUME NEW I, Numbers(I)
  PROVE  \E b \in Nat : \A i \in I : i <= b
<1>1. PICK s \in Seq(I) : \A i \in I : \E n \in 1 .. Len(s) : s[n] = i
  BY DEF Numbers, IsFiniteSet
<1> DEFINE B(m, b) == \A n \in 1 .. m : s[n] <= b
           Q == {m \in Nat : m <= Len(s) => \E b \in Nat : B(m, b)}
<1>2. Len(s) \in Nat /\ \A n \in 1 .. Len(s) : s[n] \in I
  OBVIOUS
<1>2a. \A n \in 1 .. Len(s) : s[n] \in Nat
  BY <1>2 DEF Numbers
<1>3. 0 \in Q
  <2>1. B(0, 0)
    OBVIOUS
  <2> QED
    BY <2>1
<1>4. ASSUME NEW m \in Nat, m \in Q PROVE m + 1 \in Q
  <2> SUFFICES ASSUME m + 1 <= Len(s) PROVE \E b \in Nat : B(m + 1, b)
    OBVIOUS
  <2>1. PICK b \in Nat : B(m, b)
    BY <1>2, <1>4
  <2>2. s[m + 1] \in Nat /\ \A n \in 1 .. m : s[n] \in Nat
    BY <1>2, <1>2a
  <2>3. ASSUME s[m + 1] <= b PROVE B(m + 1, b)
    BY <2>1, <2>3
  <2>4. ASSUME b < s[m + 1] PROVE B(m + 1, s[m + 1])
    BY <2>1, <2>2, <2>4
  <2>5. s[m + 1] <= b \/ b < s[m + 1]
    BY <2>2
  <2> HIDE DEF B
  <2> QED
    BY <2>2, <2>3, <2>4, <2>5
<1> HIDE DEF Q, B
<1>5. \A m \in Nat : m \in Q
  BY <1>3, <1>4, UpInduction
<1>6. PICK b \in Nat : B(Len(s), b)
  <2>1. Len(s) \in Q
    BY <1>2, <1>5
  <2> QED
    BY <1>2, <2>1 DEF Q
<1> USE DEF B
<1> QED
  BY <1>1, <1>6

\* Ranks are in the order of the numbers.
LEMMA RankOrder ==
  ASSUME NEW I, Numbers(I), NEW i \in I, NEW j \in I, i < j
  PROVE  Rank(I, i) < Rank(I, j)
<1> DEFINE S == {k \in I : k <= i}
           T == {k \in I : k <= j}
<1>1. \A k \in I : k \in Nat
  BY DEF Numbers
<1>2. S \cup {j} \subseteq T /\ j \notin S /\ S \subseteq I /\ T \subseteq I
  BY <1>1
<1>3. Rank(I, i) = Cardinality(S) /\ Rank(I, j) = Cardinality(T)
  BY Zenon DEF Rank
<1> HIDE DEF S, T
<1>4. Numbers(T) /\ Numbers(S) /\ IsFiniteSet(S)
  BY <1>2, NumbersPart DEF Numbers
<1>5. Cardinality(S \cup {j}) = Cardinality(S) + 1
  BY <1>2, <1>4, FS_AddElement
<1>6. Cardinality(S \cup {j}) <= Cardinality(T) /\ Cardinality(S) \in Nat /\ Cardinality(T) \in Nat
  BY <1>2, <1>4, NumbersPart
<1> QED
  BY <1>3, <1>5, <1>6

\* A rank is between 1 and the size of the set.
LEMMA RankRange ==
  ASSUME NEW I, Numbers(I), NEW i \in I
  PROVE  Rank(I, i) \in 1 .. Cardinality(I)
<1> DEFINE S == {k \in I : k <= i}
<1>1. \A k \in I : k \in Nat
  BY DEF Numbers
<1>2. S \subseteq I /\ i \in S
  BY <1>1
<1>3. Rank(I, i) = Cardinality(S)
  BY Zenon DEF Rank
<1> HIDE DEF S
<1>4. Cardinality(S) <= Cardinality(I) /\ Cardinality(S) \in Nat /\ Cardinality(I) \in Nat /\ Numbers(S)
  BY <1>2, NumbersPart
<1>5. Cardinality(S) # 0
  BY <1>2, <1>4, FS_EmptySet DEF Numbers
<1> QED
  BY <1>3, <1>4, <1>5

\* Each number up to the cardinality is the rank of a member.
LEMMA RankOnto ==
  ASSUME NEW I, Numbers(I), NEW n \in 1 .. Cardinality(I)
  PROVE  \E i \in I : Rank(I, i) = n
<1>1. \A k \in I : k \in Nat
  BY DEF Numbers
<1>2. PICK b \in Nat : \A i \in I : i <= b
  BY NumbersBound
<1>3. Rank(I, b) = Cardinality(I)
  <2>1. {k \in I : k <= b} = I
    BY <1>2
  <2> QED
    BY <2>1 DEF Rank
<1> DEFINE Q == {m \in Nat : n <= Rank(I, m) => \E i \in I : Rank(I, i) = n}
<1>4. 0 \in Q
  <2>1. CASE 0 \in I
    <3>1. {k \in I : k <= 0} = {0}
      BY <1>1, <2>1
    <3>2. Rank(I, 0) = 1
      BY <3>1, FS_Singleton DEF Rank
    <3> QED
      BY <2>1, <3>2
  <2>2. CASE 0 \notin I
    BY <1>1, <2>2, RankStep
  <2> QED
    BY <2>1, <2>2
<1>5. ASSUME NEW m \in Nat, m \in Q PROVE m + 1 \in Q
  <2> SUFFICES ASSUME n <= Rank(I, m + 1) PROVE \E i \in I : Rank(I, i) = n
    OBVIOUS
  <2>1. Rank(I, m) \in Nat /\ Rank(I, m + 1) = IF m + 1 \in I THEN Rank(I, m) + 1 ELSE Rank(I, m)
    BY <1>1, RankStep
  <2>2. CASE n <= Rank(I, m)
    BY <1>5, <2>2
  <2>3. CASE ~(n <= Rank(I, m))
    <3>1. m + 1 \in I /\ n = Rank(I, m + 1)
      BY <2>1, <2>3
    <3> QED
      BY <3>1
  <2> QED
    BY <2>2, <2>3
<1> HIDE DEF Q
<1>6. \A m \in Nat : m \in Q
  BY <1>4, <1>5, UpInduction
<1>7. b \in Q /\ n <= Rank(I, b)
  BY <1>3, <1>6
<1> QED
  BY <1>7 DEF Q

\* No two numbers have one rank.
LEMMA RankOne ==
  ASSUME NEW I, Numbers(I), NEW i \in I, NEW j \in I, Rank(I, i) = Rank(I, j)
  PROVE  i = j
<1>1. i \in Nat /\ j \in Nat
  BY DEF Numbers
<1>2. ~(i < j) /\ ~(j < i)
  <2>1. Rank(I, i) \in Nat /\ Rank(I, j) \in Nat
    BY RankRange, FS_CardinalityType DEF Numbers
  <2> QED
    BY <2>1, RankOrder
<1> QED
  BY <1>1, <1>2

\* At(s, I) is as long as I is large, and has each position of I at its rank.
LEMMA AtShape ==
  ASSUME NEW s, NEW I, Numbers(I)
  PROVE  /\ Cardinality(I) \in Nat /\ DOMAIN At(s, I) = 1 .. Cardinality(I)
         /\ \A i \in I : Rank(I, i) \in 1 .. Cardinality(I) /\ At(s, I)[Rank(I, i)] = s[i]
         /\ \A n \in 1 .. Cardinality(I) : \E i \in I : Rank(I, i) = n /\ At(s, I)[n] = s[i]
<1>1. Cardinality(I) \in Nat
  BY FS_CardinalityType DEF Numbers
<1>2. At(s, I) = [n \in 1 .. Cardinality(I) |-> s[CHOOSE i \in I : Rank(I, i) = n]]
  BY Zenon DEF At, Rank
<1>3. ASSUME NEW i \in I PROVE Rank(I, i) \in 1 .. Cardinality(I) /\ At(s, I)[Rank(I, i)] = s[i]
  <2>1. Rank(I, i) \in 1 .. Cardinality(I)
    BY RankRange
  <2>2. (CHOOSE j \in I : Rank(I, j) = Rank(I, i)) = i
    BY RankOne
  <2> QED
    BY <1>2, <2>1, <2>2
<1>4. ASSUME NEW n \in 1 .. Cardinality(I) PROVE \E i \in I : Rank(I, i) = n /\ At(s, I)[n] = s[i]
  <2>1. PICK i \in I : Rank(I, i) = n
    BY RankOnto
  <2> QED
    BY <1>3, <2>1
<1> QED
  BY <1>1, <1>2, <1>3, <1>4

\* At(s, I) is a sequence of what s has at I.
LEMMA AtType ==
  ASSUME NEW s, NEW I, Numbers(I), NEW S, \A i \in I : s[i] \in S
  PROVE  At(s, I) \in Seq(S) /\ Len(At(s, I)) = Cardinality(I)
<1>1. Cardinality(I) \in Nat /\ DOMAIN At(s, I) = 1 .. Cardinality(I)
  BY AtShape
<1>2. \A n \in 1 .. Cardinality(I) : At(s, I)[n] \in S
  BY AtShape
<1>3. At(s, I) = [n \in 1 .. Cardinality(I) |-> At(s, I)[n]]
  BY <1>1 DEF At
<1>4. At(s, I) \in [1 .. Cardinality(I) -> S]
  BY <1>2, <1>3
<1> QED
  BY <1>1, <1>4, FunctionIsSeq

-------------------------------------------------------------------------------
(* At and FlattenSeq, element by element. *)

\* At(s, I) is the function of its elements.
LEMMA AtElements ==
  ASSUME NEW s, NEW I, Numbers(I)
  PROVE  At(s, I) = [n \in 1 .. Cardinality(I) |-> At(s, I)[n]]
BY DEF At

\* At no position there is nothing.
LEMMA AtEmpty == \A s : At(s, {}) = <<>>
<1> SUFFICES ASSUME NEW s PROVE At(s, {}) = <<>>
  OBVIOUS
<1>1. Cardinality({}) = 0 /\ IsFiniteSet({})
  BY FS_EmptySet
<1>2. Numbers({})
  BY <1>1 DEF Numbers
<1>3. At(s, {}) = [n \in 1 .. Cardinality({}) |-> At(s, {})[n]]
  BY <1>2, AtElements
<1>4. At(s, {}) \in Seq({}) /\ Len(At(s, {})) = 0
  BY <1>1, <1>2, AtType
<1> QED
  BY <1>4

\* At depends on the positions asked for only.
LEMMA AtAgree ==
  ASSUME NEW s, NEW t, NEW I, Numbers(I), \A i \in I : s[i] = t[i]
  PROVE  At(s, I) = At(t, I)
<1>1. ASSUME NEW n \in 1 .. Cardinality(I) PROVE At(s, I)[n] = At(t, I)[n]
  <2>1. PICK i \in I : Rank(I, i) = n /\ At(s, I)[n] = s[i]
    BY AtShape
  <2>2. At(t, I)[Rank(I, i)] = t[i]
    BY AtShape
  <2> QED
    BY <2>1, <2>2
<1>2. At(s, I) = [n \in 1 .. Cardinality(I) |-> At(s, I)[n]]
  BY AtElements
<1>3. At(t, I) = [n \in 1 .. Cardinality(I) |-> At(t, I)[n]]
  BY AtElements
<1> QED
  BY <1>1, <1>2, <1>3

\* A last number.
LEMMA RankLast ==
  ASSUME NEW I, Numbers(I), NEW k \in Nat, \A i \in I : i < k
  PROVE  /\ Numbers(I \cup {k}) /\ Cardinality(I \cup {k}) = Cardinality(I) + 1
         /\ Cardinality(I) \in Nat
         /\ Rank(I \cup {k}, k) = Cardinality(I) + 1
         /\ \A i \in I : Rank(I \cup {k}, i) = Rank(I, i)
<1> DEFINE J == I \cup {k}
<1>1. IsFiniteSet(I) /\ \A i \in I : i \in Nat
  BY DEF Numbers
<1>2. k \notin I
  BY <1>1
<1>3. IsFiniteSet(J) /\ Cardinality(J) = Cardinality(I) + 1 /\ Cardinality(I) \in Nat
  BY <1>1, <1>2, FS_AddElement, FS_CardinalityType
<1>4. {j \in J : j <= k} = J
  BY <1>1
<1>5. \A i \in I : {j \in J : j <= i} = {j \in I : j <= i}
  BY <1>1
<1> QED
  BY <1>1, <1>3, <1>4, <1>5 DEF Numbers, Rank

\* One more position at the end is one more element at the end.
LEMMA AtAppend ==
  ASSUME NEW s, NEW I, Numbers(I), NEW k \in Nat, \A i \in I : i < k
  PROVE  At(s, I \cup {k}) = Append(At(s, I), s[k])
<1> DEFINE J == I \cup {k}
           m == Cardinality(I)
           A == At(s, I)
           B == At(s, J)
           S == {s[i] : i \in J}
<1>1. /\ Numbers(J) /\ Cardinality(J) = m + 1 /\ m \in Nat /\ Rank(J, k) = m + 1
      /\ \A i \in I : Rank(J, i) = Rank(I, i)
  BY RankLast
<1> HIDE DEF J, m
<1>2. A \in Seq(S) /\ Len(A) = m
  <2>1. \A i \in I : s[i] \in S
    BY DEF J
  <2> HIDE DEF S
  <2> QED
    BY <2>1, AtType DEF m
<1>3. B \in Seq(S) /\ Len(B) = m + 1
  <2>1. \A i \in J : s[i] \in S
    OBVIOUS
  <2> HIDE DEF S
  <2> QED
    BY <1>1, <2>1, AtType
<1>4. ASSUME NEW n \in 1 .. m PROVE B[n] = A[n]
  <2>1. PICK i \in I : Rank(I, i) = n /\ A[n] = s[i]
    BY AtShape DEF m
  <2>2. i \in J
    BY DEF J
  <2>3. B[Rank(J, i)] = s[i]
    BY <1>1, <2>2, AtShape
  <2> QED
    BY <1>1, <2>1, <2>3
<1>5. B[m + 1] = s[k] /\ s[k] \in S
  <2>1. k \in J
    BY DEF J
  <2>2. B[Rank(J, k)] = s[k]
    BY <1>1, <2>1, AtShape
  <2> QED
    BY <1>1, <2>1, <2>2
<1> HIDE DEF A, B, S
<1>6. B = Append(A, s[k])
  BY <1>1, <1>2, <1>3, <1>4, <1>5
<1> QED
  BY <1>6 DEF A, B, J

-------------------------------------------------------------------------------
\* Sequences that are put together.
LEMMA FlattenEmpty == FlattenSeq(<<>>) = <<>>
BY DEF FlattenSeq

\* A step of flatten.
FlattenStep(ss, i, x) == IF i = 1 THEN ss[i] ELSE x \o ss[i]

\* FlattenSeq up to m.
FlattenSteps(ss, m, g) == \A i \in 1 .. m : g[i] = FlattenStep(ss, i, g[i - 1])

\* That recursion has a solution.
LEMMA FlattenSome ==
  ASSUME NEW ss
  PROVE  \A m \in Nat : \E g : g = [i \in 1 .. m |-> FlattenStep(ss, i, g[i - 1])]
<1> DEFINE Q == {m \in Nat : \E g : g = [i \in 1 .. m |-> FlattenStep(ss, i, g[i - 1])]}
<1>1. 0 \in Q
  <2> DEFINE g == [i \in 1 .. 0 |-> 0]
  <2>1. g = [i \in 1 .. 0 |-> FlattenStep(ss, i, g[i - 1])]
    OBVIOUS
  <2> HIDE DEF g
  <2> QED
    BY <2>1
<1>2. ASSUME NEW m \in Nat, m \in Q PROVE m + 1 \in Q
  <2>1. PICK g : g = [i \in 1 .. m |-> FlattenStep(ss, i, g[i - 1])]
    BY <1>2
  <2> DEFINE h == [i \in 1 .. (m + 1) |-> IF i = m + 1 THEN FlattenStep(ss, i, g[m]) ELSE g[i]]
  <2>2. ASSUME NEW i \in 1 .. (m + 1) PROVE h[i] = FlattenStep(ss, i, h[i - 1])
    <3>1. CASE i = m + 1 /\ i = 1
      <4>1. h[i] = FlattenStep(ss, i, g[m])
        BY <3>1
      <4>2. FlattenStep(ss, i, g[m]) = ss[i] /\ FlattenStep(ss, i, h[i - 1]) = ss[i]
        BY <3>1 DEF FlattenStep
      <4> QED
        BY <4>1, <4>2
    <3>2. CASE i = m + 1 /\ i # 1
      <4>1. h[i - 1] = g[m] /\ h[i] = FlattenStep(ss, i, g[m])
        BY <3>2
      <4> QED
        BY <4>1
    <3>3. CASE i \in 1 .. m /\ i # 1
      <4>1. h[i] = g[i] /\ g[i] = FlattenStep(ss, i, g[i - 1]) /\ h[i - 1] = g[i - 1]
        BY <2>1, <3>3
      <4> QED
        BY <4>1
    <3>4. CASE i \in 1 .. m /\ i = 1
      <4>1. h[i] = g[i] /\ g[i] = FlattenStep(ss, i, g[i - 1])
        BY <2>1, <3>4
      <4>2. FlattenStep(ss, i, g[i - 1]) = ss[i] /\ FlattenStep(ss, i, h[i - 1]) = ss[i]
        BY <3>4 DEF FlattenStep
      <4> QED
        BY <4>1, <4>2
    <3> QED
      BY <3>1, <3>2, <3>3, <3>4
  <2>3. h = [i \in 1 .. (m + 1) |-> FlattenStep(ss, i, h[i - 1])]
    BY <2>2
  <2> HIDE DEF h
  <2>4. \E k : k = [i \in 1 .. (m + 1) |-> FlattenStep(ss, i, k[i - 1])]
    BY <2>3
  <2> QED
    BY <2>4
<1> HIDE DEF Q
<1>3. \A m \in Nat : m \in Q
  BY <1>1, <1>2, UpInduction
<1> QED
  BY <1>3 DEF Q

\* FlattenSeq is its last value.
LEMMA FlattenIs ==
  ASSUME NEW ss, Len(ss) \in Nat, Len(ss) # 0
  PROVE  \E g : /\ \A i \in 1 .. Len(ss) : g[i] = FlattenStep(ss, i, g[i - 1])
                /\ FlattenSeq(ss) = g[Len(ss)]
<1> DEFINE m == Len(ss)
           F == CHOOSE g : g = [i \in 1 .. m |-> FlattenStep(ss, i, g[i - 1])]
<1>1. F = [i \in 1 .. m |-> FlattenStep(ss, i, F[i - 1])]
  BY FlattenSome
<1>2. FlattenSeq(ss) = F[Len(ss)]
  BY Zenon DEF FlattenSeq, FlattenStep
<1> HIDE DEF F
<1> QED
  BY <1>1, <1>2

\* It has one solution.
LEMMA FlattenOnly ==
  ASSUME NEW ss, NEW g, NEW h, NEW m \in Nat, m # 0,
         FlattenSteps(ss, m, g), FlattenSteps(ss, m, h)
  PROVE  g[m] = h[m]
<1> USE DEF FlattenSteps
<1> DEFINE Q == {i \in Nat : i \in 1 .. m => g[i] = h[i]}
<1>1. 0 \in Q
  OBVIOUS
<1>2. ASSUME NEW i \in Nat, i \in Q PROVE i + 1 \in Q
  <2> SUFFICES ASSUME i + 1 \in 1 .. m PROVE g[i + 1] = h[i + 1]
    OBVIOUS
  <2>1. (i + 1) - 1 = i
    OBVIOUS
  <2>2. g[i + 1] = FlattenStep(ss, i + 1, g[i]) /\ h[i + 1] = FlattenStep(ss, i + 1, h[i])
    BY <2>1
  <2>3. CASE i = 0
    <3>1. FlattenStep(ss, i + 1, g[i]) = ss[i + 1] /\ FlattenStep(ss, i + 1, h[i]) = ss[i + 1]
      BY <2>3 DEF FlattenStep
    <3> QED
      BY <2>2, <3>1
  <2>4. CASE i # 0
    <3>1. g[i] = h[i]
      BY <1>2, <2>4
    <3> QED
      BY <2>2, <3>1
  <2> QED
    BY <2>3, <2>4
<1> HIDE DEF Q
<1>3. \A i \in Nat : i \in Q
  BY <1>1, <1>2, UpInduction
<1> QED
  BY <1>3 DEF Q

\* A sequence at the end of the sequences is at the end of the result.
LEMMA FlattenAppend ==
  ASSUME NEW S, NEW ss \in Seq(Seq(S)), NEW s \in Seq(S)
  PROVE  FlattenSeq(Append(ss, s)) = FlattenSeq(ss) \o s
<1> DEFINE tt == Append(ss, s)
           m == Len(ss)
<1>1. Len(tt) = m + 1 /\ m \in Nat /\ tt[m + 1] = s /\ \A i \in 1 .. m : tt[i] = ss[i]
  OBVIOUS
<1> HIDE DEF tt
<1>2. PICK g : /\ \A i \in 1 .. m + 1 : g[i] = FlattenStep(tt, i, g[i - 1])
               /\ FlattenSeq(tt) = g[m + 1]
  BY <1>1, FlattenIs
<1>3. CASE m = 0
  <2>1. ss = <<>>
    BY <1>3
  <2>2. g[1] = s
    BY <1>1, <1>2, <1>3 DEF FlattenStep
  <2> QED
    BY <1>2, <1>3, <2>1, <2>2, FlattenEmpty DEF tt
<1>4. CASE m # 0
  <2>1. PICK h : /\ \A i \in 1 .. m : h[i] = FlattenStep(ss, i, h[i - 1])
                 /\ FlattenSeq(ss) = h[m]
    BY <1>1, <1>4, FlattenIs
  <2>2. \A i \in 1 .. m : h[i] = FlattenStep(tt, i, h[i - 1])
    BY <1>1, <2>1 DEF FlattenStep
  <2>3. g[m] = h[m]
    <3>1. \A i \in 1 .. m : g[i] = FlattenStep(tt, i, g[i - 1])
      BY <1>1, <1>2
    <3>2. FlattenSteps(tt, m, g) /\ FlattenSteps(tt, m, h)
      BY <2>2, <3>1 DEF FlattenSteps
    <3> HIDE DEF m
    <3> QED
      BY <1>1, <1>4, <3>2, FlattenOnly
  <2>4. g[m + 1] = g[m] \o s
    <3>1. m + 1 \in 1 .. Len(tt) /\ m + 1 # 1 /\ (m + 1) - 1 = m
      BY <1>1, <1>4
    <3> QED
      BY <1>1, <1>2, <3>1 DEF FlattenStep
  <2> QED
    BY <1>2, <2>1, <2>3, <2>4 DEF tt
<1> QED
  BY <1>3, <1>4

-------------------------------------------------------------------------------
(* Received, chunk by chunk. *)

\* A step of the client.
ReceiveStep(chunks, i, x) == IF i = 0 THEN ClientStart ELSE Receive(x, chunks[i])

\* Received up to m.
ReceiveSteps(chunks, m, g) == \A i \in 0 .. m : g[i] = ReceiveStep(chunks, i, g[i - 1])

\* That recursion has a solution.
LEMMA ReceivedSome ==
  ASSUME NEW chunks
  PROVE  \A m \in Nat : \E g : g = [i \in 0 .. m |-> ReceiveStep(chunks, i, g[i - 1])]
<1> DEFINE Q == {m \in Nat : \E g : g = [i \in 0 .. m |-> ReceiveStep(chunks, i, g[i - 1])]}
<1>0. \A x, y : ReceiveStep(chunks, 0, x) = ReceiveStep(chunks, 0, y)
  BY DEF ReceiveStep
<1>1. 0 \in Q
  <2> DEFINE g == [i \in 0 .. 0 |-> ReceiveStep(chunks, 0, 0)]
  <2>1. ReceiveStep(chunks, 0, g[0 - 1]) = ReceiveStep(chunks, 0, 0)
    BY <1>0
  <2>2. g = [i \in 0 .. 0 |-> ReceiveStep(chunks, i, g[i - 1])]
    BY <2>1
  <2> HIDE DEF g
  <2> QED
    BY <2>2
<1>2. ASSUME NEW m \in Nat, m \in Q PROVE m + 1 \in Q
  <2>1. PICK g : g = [i \in 0 .. m |-> ReceiveStep(chunks, i, g[i - 1])]
    BY <1>2
  <2> DEFINE h == [i \in 0 .. (m + 1) |-> IF i = m + 1 THEN ReceiveStep(chunks, i, g[m]) ELSE g[i]]
  <2>2. ASSUME NEW i \in 0 .. (m + 1) PROVE h[i] = ReceiveStep(chunks, i, h[i - 1])
    <3>1. CASE i = 0
      <4>1. ReceiveStep(chunks, i, g[i - 1]) = ReceiveStep(chunks, i, h[i - 1])
        BY <3>1, <1>0
      <4>2. h[i] = g[i] /\ g[i] = ReceiveStep(chunks, i, g[i - 1])
        BY <2>1, <3>1
      <4> QED
        BY <4>1, <4>2
    <3>2. CASE i \in 1 .. m
      <4>1. h[i] = g[i] /\ g[i] = ReceiveStep(chunks, i, g[i - 1]) /\ h[i - 1] = g[i - 1]
        BY <2>1, <3>2
      <4> QED
        BY <4>1
    <3>3. CASE i = m + 1
      <4>1. h[i - 1] = g[m] /\ h[i] = ReceiveStep(chunks, i, g[m])
        BY <3>3
      <4> QED
        BY <4>1
    <3> QED
      BY <3>1, <3>2, <3>3
  <2>3. h = [i \in 0 .. (m + 1) |-> ReceiveStep(chunks, i, h[i - 1])]
    BY <2>2
  <2> HIDE DEF h
  <2>4. \E k : k = [i \in 0 .. (m + 1) |-> ReceiveStep(chunks, i, k[i - 1])]
    BY <2>3
  <2> QED
    BY <2>4
<1> HIDE DEF Q
<1>3. \A m \in Nat : m \in Q
  BY <1>1, <1>2, UpInduction
<1> QED
  BY <1>3 DEF Q

\* Received is its last value.
LEMMA ReceivedIs ==
  ASSUME NEW chunks, Len(chunks) \in Nat
  PROVE  \E g : ReceiveSteps(chunks, Len(chunks), g) /\ Received(chunks) = g[Len(chunks)]
<1> DEFINE m == Len(chunks)
           F == CHOOSE g : g = [i \in 0 .. m |-> ReceiveStep(chunks, i, g[i - 1])]
<1>1. F = [i \in 0 .. m |-> ReceiveStep(chunks, i, F[i - 1])]
  BY ReceivedSome
<1>2. Received(chunks) = F[Len(chunks)]
  BY Zenon DEF Received, ReceiveStep
<1> HIDE DEF F
<1>3. ReceiveSteps(chunks, m, F)
  BY <1>1 DEF ReceiveSteps
<1> QED
  BY <1>2, <1>3

\* It has one solution.
LEMMA ReceivedOnly ==
  ASSUME NEW chunks, NEW g, NEW h, NEW m \in Nat, ReceiveSteps(chunks, m, g), ReceiveSteps(chunks, m, h)
  PROVE  g[m] = h[m]
<1> USE DEF ReceiveSteps
<1> DEFINE Q == {i \in Nat : i <= m => g[i] = h[i]}
<1>1. 0 \in Q
  <2>1. \A x, y : ReceiveStep(chunks, 0, x) = ReceiveStep(chunks, 0, y)
    BY DEF ReceiveStep
  <2>2. g[0] = ReceiveStep(chunks, 0, g[0 - 1]) /\ h[0] = ReceiveStep(chunks, 0, h[0 - 1])
    OBVIOUS
  <2>3. ReceiveStep(chunks, 0, g[0 - 1]) = ReceiveStep(chunks, 0, h[0 - 1])
    BY <2>1
  <2> QED
    BY <2>2, <2>3
<1>2. ASSUME NEW i \in Nat, i \in Q PROVE i + 1 \in Q
  <2> SUFFICES ASSUME i + 1 <= m PROVE g[i + 1] = h[i + 1]
    OBVIOUS
  <2>1. (i + 1) - 1 = i /\ g[i] = h[i] /\ i + 1 \in 0 .. m
    BY <1>2
  <2>2. g[i + 1] = ReceiveStep(chunks, i + 1, g[(i + 1) - 1]) /\ h[i + 1] = ReceiveStep(chunks, i + 1, h[(i + 1) - 1])
    BY <2>1
  <2> QED
    BY <2>1, <2>2
<1> HIDE DEF Q
<1>3. \A i \in Nat : i \in Q
  BY <1>1, <1>2, UpInduction
<1> QED
  BY <1>3 DEF Q

\* A client that received nothing is where it began.
LEMMA ReceivedEmpty == Received(<<>>) = ClientStart
<1>1. Len(<<>>) = 0
  OBVIOUS
<1>2. PICK g : ReceiveSteps(<<>>, 0, g) /\ Received(<<>>) = g[0]
  BY <1>1, ReceivedIs
<1>3. g[0] = ReceiveStep(<<>>, 0, g[0 - 1])
  BY <1>2 DEF ReceiveSteps
<1>4. ReceiveStep(<<>>, 0, g[0 - 1]) = ClientStart
  BY Zenon DEF ReceiveStep
<1> QED
  BY <1>2, <1>3, <1>4

\* Received takes the last chunk last.
LEMMA ReceivedAppend ==
  ASSUME NEW S, NEW chunks \in Seq(S), NEW ch \in S
  PROVE  Received(Append(chunks, ch)) = Receive(Received(chunks), ch)
<1> DEFINE tt == Append(chunks, ch)
           m == Len(chunks)
<1>1. Len(tt) = m + 1 /\ m \in Nat /\ tt[m + 1] = ch /\ \A i \in 1 .. m : tt[i] = chunks[i]
  OBVIOUS
<1> HIDE DEF tt, m
<1>2. PICK g : ReceiveSteps(tt, m + 1, g) /\ Received(tt) = g[m + 1]
  <2>1. Len(tt) \in Nat
    BY <1>1
  <2> QED
    BY <1>1, <2>1, ReceivedIs
<1>3. PICK h : ReceiveSteps(chunks, m, h) /\ Received(chunks) = h[m]
  BY <1>1, ReceivedIs DEF m
<1>4. ReceiveSteps(tt, m, g)
  BY <1>1, <1>2 DEF ReceiveSteps
<1>5. ReceiveSteps(tt, m, h)
  <2>1. ASSUME NEW i \in 0 .. m PROVE ReceiveStep(tt, i, h[i - 1]) = ReceiveStep(chunks, i, h[i - 1])
    <3>1. i # 0 => tt[i] = chunks[i]
      BY <1>1
    <3> QED
      BY <3>1 DEF ReceiveStep
  <2> QED
    BY <1>3, <2>1 DEF ReceiveSteps
<1>6. g[m] = h[m]
  BY <1>1, <1>4, <1>5, ReceivedOnly
<1>7. g[m + 1] = Receive(g[m], ch)
  <2>1. m + 1 \in 0 .. (m + 1) /\ m + 1 # 0 /\ (m + 1) - 1 = m
    BY <1>1
  <2>2. g[m + 1] = ReceiveStep(tt, m + 1, g[m])
    BY <1>2, <2>1 DEF ReceiveSteps
  <2>3. ReceiveStep(tt, m + 1, g[m]) = Receive(g[m], ch)
    BY <1>1, <2>1 DEF ReceiveStep
  <2> QED
    BY <2>2, <2>3
<1> QED
  BY <1>2, <1>3, <1>6, <1>7 DEF tt

-------------------------------------------------------------------------------
(* The chunks of a cell, at the client. *)

\* Chunks.
ChunkSet == [row : Int, cell : Cells, first : BOOLEAN, commit : BOOLEAN]

\* Chunk i of a cell.
CellChunk(c, i) ==
  [row |-> IF i = 1 THEN c.row ELSE NoRow, cell |-> c, first |-> i = 1, commit |-> FALSE]

\* The parts of Receive.
CellsAfter(s, ch) == IF ch.first THEN Append(s.cells, ch.cell) ELSE s.cells
\* The chunks of the cell under way that the client has after ch.
PartsAfter(s, ch) == IF ch.first THEN 1 ELSE s.parts + 1
\* Chunk ch is in its place.
Good(s, ch) ==
  /\ s.ok
  /\ ch.first => (s.cells # <<>> => Last(s.cells).row = ch.row /\ s.parts = Last(s.cells).parts)
  /\ ~ch.first => s.cells # <<>> /\ s.parts < Last(s.cells).parts /\ ch.cell = Last(s.cells)

\* Receive in those terms.
LEMMA ReceiveParts ==
  ASSUME NEW s, NEW ch
  PROVE  /\ Receive(s, ch) =
              IF ch.commit
              THEN [rows |-> Append(s.rows, CellsAfter(s, ch)), cells |-> <<>>, parts |-> 0,
                    ok |-> Good(s, ch) /\ PartsAfter(s, ch) = ch.cell.parts]
              ELSE [rows |-> s.rows, cells |-> CellsAfter(s, ch), parts |-> PartsAfter(s, ch),
                    ok |-> Good(s, ch)]
         /\ Good(s, ch) \in BOOLEAN
BY Zenon DEF Receive, CellsAfter, PartsAfter, Good

\* The chunks of a cell.
LEMMA CellChunkType ==
  ASSUME NEW c \in Cells, NEW i \in Nat
  PROVE  /\ CellChunk(c, i) \in ChunkSet /\ CellChunk(c, i).cell = c /\ ~CellChunk(c, i).commit
         /\ CellChunk(c, i).commit = FALSE
         /\ CellChunk(c, i).first <=> i = 1
         /\ i = 1 => CellChunk(c, i).row = c.row
<1>1. c.row \in Int /\ NoRow \in Int /\ (i = 1) \in BOOLEAN
  BY DEF Cells, NoRow
<1> QED
  BY <1>1 DEF CellChunk, ChunkSet

\* The first chunk of a cell.
LEMMA ReceiveFirst ==
  ASSUME NEW S, S.ok, S.cells \in Seq(Cells), NEW c \in Cells,
         S.cells = <<>> \/ (Last(S.cells).row = c.row /\ S.parts = Last(S.cells).parts)
  PROVE  Receive(S, CellChunk(c, 1)) =
           [rows |-> S.rows, cells |-> Append(S.cells, c), parts |-> 1, ok |-> TRUE]
<1> DEFINE ch == CellChunk(c, 1)
<1>1. ch.first /\ ~ch.commit /\ ch.cell = c /\ ch.row = c.row
  BY CellChunkType
<1> HIDE DEF ch
<1>2. CellsAfter(S, ch) = Append(S.cells, c) /\ PartsAfter(S, ch) = 1
  BY <1>1 DEF CellsAfter, PartsAfter
<1>3. Good(S, ch)
  BY <1>1 DEF Good
<1>4. Receive(S, ch) = [rows |-> S.rows, cells |-> CellsAfter(S, ch), parts |-> PartsAfter(S, ch),
                        ok |-> Good(S, ch)]
  BY <1>1, ReceiveParts
<1>5. Good(S, ch) = TRUE
  BY <1>3, ReceiveParts
<1>6. Receive(S, ch) = [rows |-> S.rows, cells |-> Append(S.cells, c), parts |-> 1, ok |-> TRUE]
  BY <1>2, <1>4, <1>5
<1> QED
  BY <1>6 DEF ch

\* The last element after Append.
LEMMA LastAppended ==
  ASSUME NEW S, NEW s \in Seq(S), NEW x \in S
  PROVE  Append(s, x) # <<>> /\ Last(Append(s, x)) = x
BY DEF Last

\* A continuation.
LEMMA ReceiveNext ==
  ASSUME NEW S, S.cells \in Seq(Cells), NEW c \in Cells, NEW k \in Nat, k < c.parts, k # 0
  PROVE  Receive([rows |-> S.rows, cells |-> Append(S.cells, c), parts |-> k, ok |-> TRUE],
                 CellChunk(c, k + 1)) =
           [rows |-> S.rows, cells |-> Append(S.cells, c), parts |-> k + 1, ok |-> TRUE]
<1> DEFINE ch == CellChunk(c, k + 1)
           T == [rows |-> S.rows, cells |-> Append(S.cells, c), parts |-> k, ok |-> TRUE]
<1>1. ~ch.first /\ ~ch.commit /\ ch.cell = c
  <2>1. k + 1 \in Nat /\ k + 1 # 1
    OBVIOUS
  <2> QED
    BY <2>1, CellChunkType
<1>2. T.rows = S.rows /\ T.cells = Append(S.cells, c) /\ T.parts = k /\ T.ok
  OBVIOUS
<1> HIDE DEF ch, T
<1>3. CellsAfter(T, ch) = Append(S.cells, c) /\ PartsAfter(T, ch) = k + 1
  BY <1>1, <1>2 DEF CellsAfter, PartsAfter
<1>4. Append(S.cells, c) # <<>> /\ Last(Append(S.cells, c)) = c
  BY DEF Last
<1>5. Good(T, ch)
  BY <1>1, <1>2, <1>4 DEF Good
<1>6. Receive(T, ch) = [rows |-> T.rows, cells |-> CellsAfter(T, ch), parts |-> PartsAfter(T, ch),
                        ok |-> Good(T, ch)]
  BY <1>1, ReceiveParts
<1>7. Good(T, ch) = TRUE
  BY <1>5, ReceiveParts
<1>8. Receive(T, ch) = [rows |-> S.rows, cells |-> Append(S.cells, c), parts |-> k + 1, ok |-> TRUE]
  BY <1>2, <1>3, <1>6, <1>7
<1> QED
  BY <1>8 DEF ch, T

\* Concatenation and Append.
LEMMA ConcatAppend ==
  ASSUME NEW S, NEW s \in Seq(S), NEW t \in Seq(S), NEW x \in S
  PROVE  s \o Append(t, x) = Append(s \o t, x)
OBVIOUS

\* All chunks of a cell.
LEMMA ReceiveCell ==
  ASSUME NEW chunks \in Seq(ChunkSet), NEW S, S = Received(chunks), S.ok, S.cells \in Seq(Cells),
         NEW c \in Cells,
         S.cells = <<>> \/ (Last(S.cells).row = c.row /\ S.parts = Last(S.cells).parts)
  PROVE  /\ AppendCellChunks(chunks, c) \in Seq(ChunkSet)
         /\ Len(AppendCellChunks(chunks, c)) = Len(chunks) + c.parts
         /\ Last(AppendCellChunks(chunks, c)) = CellChunk(c, c.parts)
         /\ Received(AppendCellChunks(chunks, c)) =
              [rows |-> S.rows, cells |-> Append(S.cells, c), parts |-> c.parts, ok |-> TRUE]
<1> DEFINE first(k) == [i \in 1 .. k |-> CellChunk(c, i)]
           T(k) == [rows |-> S.rows, cells |-> Append(S.cells, c), parts |-> k, ok |-> TRUE]
           Q == {k \in Nat : k < c.parts => Received(chunks \o first(k + 1)) = T(k + 1)}
<1>0. c.parts \in Nat /\ c.parts # 0
  BY DEF Cells
<1>1. \A k \in Nat : CellChunk(c, k) \in ChunkSet
  BY CellChunkType
<1>2. ASSUME NEW k \in Nat PROVE first(k) \in Seq(ChunkSet) /\ Len(first(k)) = k
  BY <1>1
<1>3. ASSUME NEW k \in Nat PROVE first(k + 1) = Append(first(k), CellChunk(c, k + 1))
  <2>1. Append(first(k), CellChunk(c, k + 1)) \in Seq(ChunkSet) /\ Len(Append(first(k), CellChunk(c, k + 1))) = k + 1
    BY <1>1, <1>2
  <2>2. first(k + 1) \in Seq(ChunkSet) /\ Len(first(k + 1)) = k + 1
    BY <1>2
  <2>3. \A i \in 1 .. (k + 1) : Append(first(k), CellChunk(c, k + 1))[i] = first(k + 1)[i]
    <3> SUFFICES ASSUME NEW i \in 1 .. (k + 1) PROVE Append(first(k), CellChunk(c, k + 1))[i] = first(k + 1)[i]
      OBVIOUS
    <3>1. first(k + 1)[i] = CellChunk(c, i)
      OBVIOUS
    <3>2. CASE i = k + 1
      BY <1>2, <3>1, <3>2
    <3>3. CASE i \in 1 .. k
      <4>1. first(k)[i] = CellChunk(c, i)
        BY <3>3
      <4> HIDE DEF first
      <4> QED
        BY <1>2, <3>1, <3>3, <4>1
    <3> QED
      BY <3>2, <3>3
  <2> HIDE DEF first
  <2> QED
    BY <2>1, <2>2, <2>3, SeqEqual
<1>4. ASSUME NEW k \in Nat PROVE chunks \o first(k + 1) = Append(chunks \o first(k), CellChunk(c, k + 1))
  <2>1. first(k + 1) = Append(first(k), CellChunk(c, k + 1)) /\ first(k) \in Seq(ChunkSet)
    BY <1>2, <1>3
  <2>2. CellChunk(c, k + 1) \in ChunkSet
    BY <1>1
  <2>3. ASSUME NEW a \in Seq(ChunkSet), NEW x \in ChunkSet PROVE chunks \o Append(a, x) = Append(chunks \o a, x)
    BY <2>3, ConcatAppend
  <2>4. chunks \o Append(first(k), CellChunk(c, k + 1)) = Append(chunks \o first(k), CellChunk(c, k + 1))
    BY <2>1, <2>2, <2>3
  <2> QED
    BY <2>1, <2>4
<1>5. chunks \o first(0) = chunks
  <2>1. first(0) = <<>>
    OBVIOUS
  <2> HIDE DEF first
  <2> QED
    BY <2>1
<1>6. \A k \in Nat : chunks \o first(k) \in Seq(ChunkSet)
  <2> HIDE DEF first
  <2> QED
    BY <1>2
<1>7. 0 \in Q
  <2> HIDE DEF first
  <2>0. chunks \o first(0 + 1) = Append(chunks \o first(0), CellChunk(c, 0 + 1))
    BY <1>4
  <2>1. chunks \o first(0 + 1) = Append(chunks, CellChunk(c, 1))
    BY <2>0, <1>5
  <2>2. Received(chunks \o first(0 + 1)) = Receive(S, CellChunk(c, 1))
    BY <1>1, <2>1, ReceivedAppend
  <2> QED
    BY <2>2, ReceiveFirst
<1>8. ASSUME NEW k \in Nat, k \in Q PROVE k + 1 \in Q
  <2> HIDE DEF first, T
  <2> SUFFICES ASSUME k + 1 < c.parts PROVE Received(chunks \o first((k + 1) + 1)) = T((k + 1) + 1)
    OBVIOUS
  <2>1. Received(chunks \o first(k + 1)) = T(k + 1)
    BY <1>0, <1>8
  <2>2. Received(chunks \o first((k + 1) + 1)) = Receive(Received(chunks \o first(k + 1)), CellChunk(c, (k + 1) + 1))
    <3>1. k + 1 \in Nat /\ (k + 1) + 1 \in Nat
      OBVIOUS
    <3> DEFINE n == k + 1
               X == chunks \o first(n)
               ch == CellChunk(c, n + 1)
    <3>2. chunks \o first(n + 1) = Append(X, ch) /\ X \in Seq(ChunkSet) /\ ch \in ChunkSet
      BY <1>1, <1>4, <1>6, <3>1
    <3> HIDE DEF X, ch
    <3>3. Received(Append(X, ch)) = Receive(Received(X), ch)
      BY <3>2, ReceivedAppend
    <3> QED
      BY <3>2, <3>3 DEF X, ch
  <2>3. Receive(T(k + 1), CellChunk(c, (k + 1) + 1)) = T((k + 1) + 1)
    <3>1. k + 1 \in Nat /\ k + 1 # 0
      OBVIOUS
    <3> QED
      BY <3>1, ReceiveNext DEF T
  <2> QED
    BY <2>1, <2>2, <2>3
<1> HIDE DEF Q
<1>9. \A k \in Nat : k \in Q
  BY <1>7, <1>8, UpInduction
<1>10. AppendCellChunks(chunks, c) = chunks \o first(c.parts)
  BY Zenon DEF AppendCellChunks, CellChunk
<1>11. Received(chunks \o first(c.parts)) = T(c.parts)
  <2>1. c.parts - 1 \in Nat /\ (c.parts - 1) + 1 = c.parts /\ c.parts - 1 < c.parts
    BY <1>0
  <2> HIDE DEF first, T
  <2> QED
    BY <1>9, <2>1 DEF Q
<1>12. /\ chunks \o first(c.parts) \in Seq(ChunkSet)
       /\ Len(chunks \o first(c.parts)) = Len(chunks) + c.parts
       /\ Last(chunks \o first(c.parts)) = CellChunk(c, c.parts)
  <2>1. first(c.parts)[c.parts] = CellChunk(c, c.parts) /\ first(c.parts) \in Seq(ChunkSet) /\ Len(first(c.parts)) = c.parts
    <3>1. first(c.parts)[c.parts] = CellChunk(c, c.parts)
      BY <1>0
    <3> HIDE DEF first
    <3> QED
      BY <1>0, <1>2, <3>1
  <2> HIDE DEF first
  <2> QED
    BY <1>0, <2>1 DEF Last
<1> QED
  BY <1>10, <1>11, <1>12

-------------------------------------------------------------------------------
(* The commit of a row, at the client. *)

\* A sequence is what comes before its last element, and that one.
LEMMA FrontLast ==
  ASSUME NEW S, NEW s \in Seq(S), s # <<>>
  PROVE  /\ Len(s) \in Nat \ {0} /\ Last(s) \in S /\ Last(s) = s[Len(s)]
         /\ \E f \in Seq(S) : Len(f) = Len(s) - 1 /\ s = Append(f, Last(s))
                              /\ \A i \in 1 .. Len(f) : f[i] = s[i]
<1>1. Len(s) \in Nat \ {0} /\ Last(s) = s[Len(s)] /\ Last(s) \in S
  BY DEF Last
<1> DEFINE f == [i \in 1 .. (Len(s) - 1) |-> s[i]]
<1>2. f \in Seq(S) /\ Len(f) = Len(s) - 1 /\ \A i \in 1 .. Len(f) : f[i] = s[i]
  BY <1>1
<1> HIDE DEF f
<1>3. s = Append(f, Last(s))
  <2>1. Append(f, Last(s)) \in Seq(S) /\ Len(Append(f, Last(s))) = Len(s)
    BY <1>1, <1>2
  <2>2. \A i \in 1 .. Len(s) : Append(f, Last(s))[i] = s[i]
    BY <1>1, <1>2
  <2> QED
    BY <2>1, <2>2, SeqEqual
<1> QED
  BY <1>1, <1>2, <1>3

\* A chunk that is marked as the last one of its row.
Committed(ch) == [ch EXCEPT !.commit = TRUE]

\* The mark changes nothing else.
LEMMA CommittedChunk ==
  ASSUME NEW ch \in ChunkSet
  PROVE  /\ Committed(ch) \in ChunkSet /\ Committed(ch).commit = TRUE
         /\ Committed(ch).cell = ch.cell /\ Committed(ch).row = ch.row
         /\ Committed(ch).first = ch.first
         /\ ch.commit => Committed(ch) = ch
BY DEF Committed, ChunkSet

\* commitLastChunk marks the last chunk of the buffer.
LEMMA CommitLast ==
  ASSUME NEW buf \in Seq(ChunkSet), buf # <<>>, NEW f \in Seq(ChunkSet), buf = Append(f, Last(buf))
  PROVE  CommitLastChunk(buf) = Append(f, Committed(Last(buf)))
<1> DEFINE m == Len(buf)
           ch == Last(buf)
           b == CommitLastChunk(buf)
<1>1. m \in Nat \ {0} /\ ch \in ChunkSet /\ ch = buf[m] /\ Len(f) = m - 1
  BY FrontLast
<1>2. b = [buf EXCEPT ![m] = Committed(ch)]
  BY <1>1 DEF CommitLastChunk, Committed
<1>3. Committed(ch) \in ChunkSet
  BY <1>1, CommittedChunk
<1> HIDE DEF b, ch
<1>4. b \in Seq(ChunkSet) /\ Len(b) = m /\ b[m] = Committed(ch) /\ \A i \in 1 .. m - 1 : b[i] = buf[i]
  BY <1>1, <1>2, <1>3
<1>5. \A i \in 1 .. m - 1 : buf[i] = f[i]
  BY <1>1 DEF ch
<1>6. Append(f, Committed(ch)) \in Seq(ChunkSet) /\ Len(Append(f, Committed(ch))) = m
  BY <1>1, <1>3
<1>7. \A i \in 1 .. m : Append(f, Committed(ch))[i] = b[i]
  BY <1>1, <1>3, <1>4, <1>5
<1>8. b = Append(f, Committed(ch))
  BY <1>4, <1>6, <1>7, SeqEqual
<1> QED
  BY <1>8 DEF b, ch

\* The row under way is committed.
LEMMA ReceiveCommit ==
  ASSUME NEW X \in Seq(ChunkSet), NEW buf \in Seq(ChunkSet), buf # <<>>,
         NEW P, P = Received(X \o buf), P.ok
  PROVE  /\ CommitLastChunk(buf) \in Seq(ChunkSet) /\ Len(CommitLastChunk(buf)) = Len(buf)
         /\ CommitLastChunk(buf) # <<>> /\ Last(CommitLastChunk(buf)).commit
         /\ Last(buf).commit => CommitLastChunk(buf) = buf
         /\ ~Last(buf).commit /\ P.parts = Last(buf).cell.parts =>
              Received(X \o CommitLastChunk(buf)) =
                [rows |-> Append(P.rows, P.cells), cells |-> <<>>, parts |-> 0, ok |-> TRUE]
<1> DEFINE ch == Last(buf)
           d == Committed(ch)
<1>1. PICK f \in Seq(ChunkSet) : buf = Append(f, ch)
  BY FrontLast
<1>2. CommitLastChunk(buf) = Append(f, d)
  BY <1>1, CommitLast
<1>3. ch \in ChunkSet /\ d \in ChunkSet
  BY FrontLast, CommittedChunk
<1>4. d.commit = TRUE /\ d.cell = ch.cell /\ d.row = ch.row /\ d.first = ch.first /\ (ch.commit => d = ch)
  BY <1>3, CommittedChunk
<1> HIDE DEF ch, d
<1>5. Append(f, d) \in Seq(ChunkSet) /\ Len(Append(f, d)) = Len(buf) /\ Append(f, d) # <<>> /\ Last(Append(f, d)) = d
  BY <1>1, <1>3 DEF Last
<1>6. ch.commit => Append(f, d) = buf
  BY <1>1, <1>4
<1>7. ASSUME ~ch.commit, P.parts = ch.cell.parts
      PROVE  Received(X \o Append(f, d)) =
               [rows |-> Append(P.rows, P.cells), cells |-> <<>>, parts |-> 0, ok |-> TRUE]
  <2> DEFINE Y == X \o f
             S == Received(Y)
  <2>1. X \o buf = Append(Y, ch) /\ X \o Append(f, d) = Append(Y, d) /\ Y \in Seq(ChunkSet)
    BY <1>1, <1>3, ConcatAppend
  <2> HIDE DEF Y
  <2>2. P = Receive(S, ch)
    BY <1>3, <2>1, ReceivedAppend
  <2>3. Received(X \o Append(f, d)) = Receive(S, d)
    BY <1>3, <2>1, ReceivedAppend
  <2> HIDE DEF S
  <2>4. Good(S, ch) \in BOOLEAN /\ Good(S, d) \in BOOLEAN
    BY ReceiveParts
  <2>5. P = [rows |-> S.rows, cells |-> CellsAfter(S, ch), parts |-> PartsAfter(S, ch), ok |-> Good(S, ch)]
    BY <1>7, <2>2, ReceiveParts
  <2>6. Receive(S, d) = [rows |-> Append(S.rows, CellsAfter(S, d)), cells |-> <<>>, parts |-> 0,
                         ok |-> Good(S, d) /\ PartsAfter(S, d) = d.cell.parts]
    BY <1>4, ReceiveParts
  <2>7. CellsAfter(S, d) = CellsAfter(S, ch) /\ PartsAfter(S, d) = PartsAfter(S, ch)
    BY <1>4 DEF CellsAfter, PartsAfter
  <2>8. Good(S, d) <=> Good(S, ch)
    BY <1>4 DEF Good
  <2>9. P.rows = S.rows /\ P.cells = CellsAfter(S, ch) /\ P.parts = PartsAfter(S, ch) /\ Good(S, ch)
    BY <2>5
  <2>10. (Good(S, d) /\ PartsAfter(S, d) = d.cell.parts) = TRUE
    BY <1>4, <1>7, <2>4, <2>7, <2>8, <2>9
  <2> QED
    BY <2>3, <2>6, <2>7, <2>9, <2>10
<1> QED
  BY <1>2, <1>4, <1>5, <1>6, <1>7 DEF ch

-------------------------------------------------------------------------------
(* Scans: cells whose rows are in one piece. *)

\* Cells of rows, each of which is in one piece and has cells that are different.
Scanned(s) ==
  /\ s \in Seq(Cells)
  /\ \A i \in DOMAIN s : s[i].row \in Rows
  /\ \A i, j, k \in DOMAIN s : i < j /\ j < k /\ s[i].row = s[k].row => s[j].row = s[i].row
  /\ \A i, j \in DOMAIN s : s[i].row = s[j].row /\ Id(s[i]) = Id(s[j]) => i = j

\* ... in key order
Ascending(s) ==
  /\ s \in Seq(Cells)
  /\ \A i \in DOMAIN s : s[i].row \in Rows
  /\ \A i, j \in DOMAIN s : i < j => s[i].row <= s[j].row
  /\ \A i, j \in DOMAIN s : s[i].row = s[j].row /\ Id(s[i]) = Id(s[j]) => i = j

\* Rows of cells are numbers.
LEMMA RowNumber == \A c \in Cells : c.row \in Nat
BY DEF Cells

\* Cells in key order are a scan.
LEMMA AscendingScanned ==
  ASSUME NEW s, Ascending(s)
  PROVE  Scanned(s)
<1>1. \A i \in DOMAIN s : s[i].row \in Nat
  BY RowNumber DEF Ascending
<1> QED
  BY <1>1 DEF Ascending, Scanned

\* A scan backwards is a scan.
LEMMA ReverseScanned ==
  ASSUME NEW s, Scanned(s)
  PROVE  Scanned(Reverse(s))
<1> DEFINE t == Reverse(s)
           m == Len(s)
<1>1. s \in Seq(Cells) /\ m \in Nat /\ DOMAIN s = 1 .. m
  BY DEF Scanned
<1>2. t = [i \in 1 .. m |-> s[(m - i) + 1]]
  BY DEF Reverse
<1> HIDE DEF t, m
<1>3. \A i \in 1 .. m : (m - i) + 1 \in 1 .. m /\ t[i] = s[(m - i) + 1]
  BY <1>1, <1>2
<1>4. t \in Seq(Cells) /\ DOMAIN t = 1 .. m
  <2>1. t \in [1 .. m -> Cells]
    BY <1>1, <1>2, <1>3
  <2> QED
    BY <1>1, <1>2, <2>1, FunctionIsSeq
<1>5. \A i \in DOMAIN t : t[i].row \in Rows
  BY <1>1, <1>3, <1>4 DEF Scanned
<1>6. ASSUME NEW i \in 1 .. m, NEW j \in 1 .. m, NEW k \in 1 .. m, i < j, j < k, t[i].row = t[k].row
      PROVE  t[j].row = t[i].row
  <2>1. (m - k) + 1 < (m - j) + 1 /\ (m - j) + 1 < (m - i) + 1
    BY <1>1, <1>6
  <2> QED
    BY <1>1, <1>3, <1>6, <2>1 DEF Scanned
<1>7. ASSUME NEW i \in 1 .. m, NEW j \in 1 .. m, t[i].row = t[j].row, Id(t[i]) = Id(t[j])
      PROVE  i = j
  <2> DEFINE a == (m - i) + 1
             b == (m - j) + 1
  <2>1. a \in DOMAIN s /\ b \in DOMAIN s /\ t[i] = s[a] /\ t[j] = s[b]
    BY <1>1, <1>3
  <2> HIDE DEF a, b
  <2>2. a = b
    BY <1>7, <2>1 DEF Scanned
  <2> QED
    BY <1>1, <2>2 DEF a, b
<1> QED
  BY <1>4, <1>5, <1>6, <1>7 DEF Scanned, t

\* Rows one after the other.
Stacked(ss) ==
  /\ ss \in Seq(Seq(Cells))
  /\ \A k \in DOMAIN ss : \A i, j \in DOMAIN ss[k] :
       /\ ss[k][i].row \in Rows /\ ss[k][i].row = ss[k][j].row
       /\ Id(ss[k][i]) = Id(ss[k][j]) => i = j
  /\ \A k, l \in DOMAIN ss : k < l =>
       \A i \in DOMAIN ss[k], j \in DOMAIN ss[l] : ss[k][i].row < ss[l][j].row

\* The rows of t are before those of u.
Before(t, u) == \A i \in DOMAIN t, j \in DOMAIN u : t[i].row < u[j].row

\* A row that comes after all the others may be put at the end.
LEMMA AscendingConcat ==
  ASSUME NEW t, Ascending(t), NEW u \in Seq(Cells), Before(t, u),
         \A i, j \in DOMAIN u : /\ u[i].row \in Rows /\ u[i].row = u[j].row
                                /\ Id(u[i]) = Id(u[j]) => i = j
  PROVE  Ascending(t \o u)
<1> DEFINE m == Len(t)
           n == Len(u)
           v == t \o u
<1>1. t \in Seq(Cells) /\ m \in Nat /\ n \in Nat /\ DOMAIN t = 1 .. m /\ DOMAIN u = 1 .. n
  BY DEF Ascending
<1>2. v \in Seq(Cells) /\ DOMAIN v = 1 .. (m + n)
  BY <1>1
<1>3. \A i \in 1 .. m : v[i] = t[i]
  BY <1>1
<1>4. \A i \in 1 .. (m + n) : i > m => i - m \in 1 .. n /\ v[i] = u[i - m]
  BY <1>1
<1> HIDE DEF m, n, v
<1>5. \A i \in DOMAIN v : v[i].row \in Rows /\ v[i].row \in Nat
  <2> SUFFICES ASSUME NEW i \in 1 .. (m + n) PROVE v[i].row \in Rows /\ v[i] \in Cells
    BY <1>2, RowNumber
  <2>1. CASE i \in 1 .. m
    BY <1>1, <1>2, <1>3, <2>1 DEF Ascending
  <2>2. CASE i > m
    BY <1>1, <1>2, <1>4, <2>2
  <2> QED
    BY <1>1, <2>1, <2>2
<1>6. ASSUME NEW i \in 1 .. (m + n), NEW j \in 1 .. (m + n), i < j PROVE v[i].row <= v[j].row
  <2>1. CASE j <= m
    BY <1>1, <1>3, <1>6, <2>1 DEF Ascending
  <2>2. CASE i <= m /\ j > m
    <3>1. v[i].row < v[j].row
      BY <1>1, <1>3, <1>4, <2>2 DEF Before
    <3> QED
      BY <1>2, <1>5, <3>1
  <2>3. CASE i > m
    <3>1. j > m
      BY <1>1, <1>6, <2>3
    <3>2. v[i].row = v[j].row
      BY <1>1, <1>4, <2>3, <3>1
    <3> QED
      BY <1>2, <1>5, <3>2
  <2> QED
    BY <1>1, <2>1, <2>2, <2>3
<1>7. ASSUME NEW i \in 1 .. (m + n), NEW j \in 1 .. (m + n), v[i].row = v[j].row, Id(v[i]) = Id(v[j])
      PROVE  i = j
  <2>0. v[i].row \in Nat /\ v[j].row \in Nat
    BY <1>2, <1>5
  <2>1. CASE i <= m /\ j <= m
    <3>1. i \in 1 .. m /\ j \in 1 .. m /\ v[i] = t[i] /\ v[j] = t[j]
      BY <1>1, <1>3, <2>1
    <3> QED
      BY <1>1, <1>7, <3>1 DEF Ascending
  <2>2. CASE i <= m /\ j > m
    <3>1. v[i].row < v[j].row
      BY <1>1, <1>3, <1>4, <2>2 DEF Before
    <3> QED
      BY <1>7, <2>0, <3>1
  <2>3. CASE i > m /\ j <= m
    <3>1. v[j].row < v[i].row
      BY <1>1, <1>3, <1>4, <2>3 DEF Before
    <3> QED
      BY <1>7, <2>0, <3>1
  <2>4. CASE i > m /\ j > m
    <3>1. i - m = j - m
      BY <1>1, <1>4, <1>7, <2>4
    <3> QED
      BY <1>1, <3>1
  <2> QED
    BY <1>1, <2>1, <2>2, <2>3, <2>4
<1> QED
  BY <1>2, <1>5, <1>6, <1>7 DEF Ascending, v

\* Rows one after the other are in key order.
LEMMA FlattenAscending ==
  ASSUME NEW ss, Stacked(ss)
  PROVE  Ascending(FlattenSeq(ss))
<1> DEFINE m == Len(ss)
           pre(k) == [i \in 1 .. k |-> ss[i]]
           Q == {k \in Nat : k <= m =>
                   /\ Ascending(FlattenSeq(pre(k)))
                   /\ \A l \in 1 .. m : k < l => Before(FlattenSeq(pre(k)), ss[l])}
<1>1. ss \in Seq(Seq(Cells)) /\ m \in Nat /\ DOMAIN ss = 1 .. m /\ \A l \in 1 .. m : ss[l] \in Seq(Cells)
  BY DEF Stacked
<1>2. 0 \in Q
  <2>1. pre(0) = <<>>
    OBVIOUS
  <2>2. FlattenSeq(pre(0)) = <<>>
    BY <2>1, FlattenEmpty
  <2>3. <<>> \in Seq(Cells) /\ DOMAIN <<>> = {}
    OBVIOUS
  <2>4. Ascending(<<>>) /\ \A u : Before(<<>>, u)
    BY <2>3 DEF Ascending, Before
  <2> HIDE DEF pre
  <2> QED
    BY <2>2, <2>4
<1>3. ASSUME NEW k \in Nat, k \in Q PROVE k + 1 \in Q
  <2> SUFFICES ASSUME k + 1 <= m
               PROVE  /\ Ascending(FlattenSeq(pre(k + 1)))
                      /\ \A l \in 1 .. m : k + 1 < l => Before(FlattenSeq(pre(k + 1)), ss[l])
    OBVIOUS
  <2> DEFINE t == FlattenSeq(pre(k))
             u == ss[k + 1]
  <2>1. pre(k) \in Seq(Seq(Cells)) /\ u \in Seq(Cells) /\ k + 1 \in 1 .. m
    BY <1>1
  <2>2. pre(k + 1) = Append(pre(k), u)
    <3>1. pre(k + 1) \in Seq(Seq(Cells)) /\ Len(pre(k + 1)) = k + 1 /\ Len(pre(k)) = k
      BY <1>1
    <3>2. Append(pre(k), u) \in Seq(Seq(Cells)) /\ Len(Append(pre(k), u)) = k + 1
      BY <2>1, <3>1
    <3>3. ASSUME NEW i \in 1 .. (k + 1) PROVE pre(k + 1)[i] = Append(pre(k), u)[i]
      <4>1. pre(k + 1)[i] = ss[i]
        OBVIOUS
      <4>2. i # k + 1 => pre(k)[i] = ss[i]
        OBVIOUS
      <4> HIDE DEF pre
      <4> QED
        BY <2>1, <3>1, <4>1, <4>2
    <3> HIDE DEF pre, u
    <3> QED
      BY <3>1, <3>2, <3>3, SeqEqual
  <2>3. Ascending(t) /\ \A l \in 1 .. m : k < l => Before(t, ss[l])
    BY <1>1, <1>3
  <2> HIDE DEF pre
  <2>4. FlattenSeq(pre(k + 1)) = t \o u
    BY <2>1, <2>2, FlattenAppend
  <2> HIDE DEF t
  <2>5. Ascending(t \o u)
    <3>1. Before(t, u)
      BY <2>1, <2>3
    <3>2. \A i, j \in DOMAIN u : /\ u[i].row \in Rows /\ u[i].row = u[j].row
                                 /\ Id(u[i]) = Id(u[j]) => i = j
      BY <1>1, <2>1 DEF Stacked
    <3> HIDE DEF u
    <3> QED
      BY <2>1, <2>3, <3>1, <3>2, AscendingConcat
  <2>6. ASSUME NEW l \in 1 .. m, k + 1 < l PROVE Before(t \o u, ss[l])
    <3>1. Before(t, ss[l])
      BY <2>3, <2>6
    <3>2. Before(u, ss[l])
      BY <1>1, <2>1, <2>6 DEF Stacked, Before
    <3>3. t \in Seq(Cells)
      BY <2>3 DEF Ascending
    <3> HIDE DEF u
    <3> QED
      BY <2>1, <3>1, <3>2, <3>3 DEF Before
  <2> QED
    BY <2>4, <2>5, <2>6
<1> HIDE DEF Q
<1>4. \A k \in Nat : k \in Q
  BY <1>2, <1>3, UpInduction
<1>5. pre(m) = ss
  BY <1>1
<1> HIDE DEF pre
<1>6. Ascending(FlattenSeq(pre(m)))
  BY <1>1, <1>4 DEF Q
<1> QED
  BY <1>5, <1>6

-------------------------------------------------------------------------------
(* The request, the snapshot of a range, and what the filter leaves of its rows. *)

\* What the filter leaves of a row.
DueSet == [row : Rows, cells : Seq(Cells)]

\* A request.
LEMMA RequestFacts ==
  ASSUME req \in Requests
  PROVE  /\ req.filter \in Evaluators /\ Reset(req.filter) = req.filter
         /\ req.limit \in Nat /\ Len(req.ranges) \in Nat
         /\ \A i \in 1 .. Len(req.ranges) : req.ranges[i] \subseteq Rows /\ Numbers(req.ranges[i])
<1>1. /\ req.ranges \in Seq(SUBSET Rows) /\ \A i \in DOMAIN req.ranges : IsFiniteSet(req.ranges[i])
      /\ req.limit \in Nat /\ req.filter \in Evaluators /\ Reset(req.filter) = req.filter
  BY ReadRowsAssumption
<1>2. \A r \in Rows : r \in Nat
  BY ReadRowsAssumption
<1>3. Len(req.ranges) \in Nat /\ DOMAIN req.ranges = 1 .. Len(req.ranges)
  BY <1>1
<1>4. \A i \in 1 .. Len(req.ranges) : req.ranges[i] \subseteq Rows
  BY <1>1
<1> QED
  BY <1>1, <1>2, <1>3, <1>4 DEF Numbers

\* Each element of At(s, I) has its position.
LEMMA AtPick ==
  ASSUME NEW s, NEW I, Numbers(I), NEW n \in 1 .. Cardinality(I)
  PROVE  \E i \in I : Rank(I, i) = n /\ At(s, I)[n] = s[i]
BY AtShape

\* The content of a row.
LEMMA ContentFacts ==
  ASSUME NEW r \in Rows, NEW v \in DOMAIN Content[r]
  PROVE  /\ Content[r][v] \in Seq(Cells)
         /\ \A i, j \in DOMAIN Content[r][v] :
              /\ Content[r][v][i].row = r
              /\ Id(Content[r][v][i]) = Id(Content[r][v][j]) => i = j
<1>1. Content[r] \in Seq(Seq(Cells))
  BY ReadRowsAssumption
<1>2. Content[r][v] \in Seq(Cells)
  BY <1>1
<1>3. \A q \in Rows : \A w \in DOMAIN Content[q] : \A i, j \in DOMAIN Content[q][w] :
        /\ Content[q][w][i].row = q
        /\ Id(Content[q][w][i]) = Id(Content[q][w][j]) => i = j
  BY Zenon, ReadRowsAssumption
<1> QED
  BY <1>2, <1>3

\* Every row is in one of its versions.
Versions == \A r \in Rows : version[r] \in DOMAIN Content[r]

\* What an iterator is opened on.
LEMMA SnapshotScanned ==
  ASSUME req \in Requests, range \in 1 .. Len(req.ranges), Versions
  PROVE  Scanned(Snapshot)
<1> DEFINE now == [r \in Rows |-> Content[r][version[r]]]
           I == req.ranges[range]
           ss == At(now, I)
           seen == FlattenSeq(ss)
<1>1. I \subseteq Rows /\ Numbers(I) /\ \A i \in I : i \in Nat
  BY RequestFacts DEF Numbers
<1> HIDE DEF I
<1>2. ASSUME NEW r \in I
      PROVE  /\ now[r] \in Seq(Cells)
             /\ \A i, j \in DOMAIN now[r] : now[r][i].row = r /\ (Id(now[r][i]) = Id(now[r][j]) => i = j)
  <2>1. r \in Rows /\ version[r] \in DOMAIN Content[r] /\ now[r] = Content[r][version[r]]
    BY <1>1 DEF Versions
  <2> HIDE DEF now
  <2> QED
    BY <2>1, ContentFacts
<1> HIDE DEF now
<1>3. ss \in Seq(Seq(Cells)) /\ Len(ss) = Cardinality(I)
  BY <1>1, <1>2, AtType
<1>4a. DOMAIN At(now, I) = 1 .. Cardinality(I)
  BY <1>1, AtShape
<1>4b. ASSUME NEW n \in 1 .. Cardinality(I) PROVE \E r \in I : Rank(I, r) = n /\ At(now, I)[n] = now[r]
  BY <1>1, <1>4b, AtPick
<1>4. /\ DOMAIN ss = 1 .. Cardinality(I)
      /\ \A n \in 1 .. Cardinality(I) : \E r \in I : Rank(I, r) = n /\ ss[n] = now[r]
  BY <1>4a, <1>4b
<1> HIDE DEF ss
<1>5. \A k \in DOMAIN ss : \A i, j \in DOMAIN ss[k] :
        /\ ss[k][i].row \in Rows /\ ss[k][i].row = ss[k][j].row
        /\ Id(ss[k][i]) = Id(ss[k][j]) => i = j
  BY <1>1, <1>2, <1>4
<1>6. ASSUME NEW k \in DOMAIN ss, NEW l \in DOMAIN ss, k < l, NEW i \in DOMAIN ss[k], NEW j \in DOMAIN ss[l]
      PROVE  ss[k][i].row < ss[l][j].row
  <2>1. PICK r \in I : Rank(I, r) = k /\ ss[k] = now[r]
    BY <1>4
  <2>2. PICK q \in I : Rank(I, q) = l /\ ss[l] = now[q]
    BY <1>4
  <2>3. k \in Nat /\ l \in Nat
    BY <1>4
  <2>4. r < q
    <3>1. r # q
      BY <1>6, <2>1, <2>2, <2>3
    <3>2. ~(q < r)
      <4> SUFFICES ASSUME q < r PROVE FALSE
        OBVIOUS
      <4>1. Rank(I, q) < Rank(I, r)
        BY <1>1, RankOrder
      <4> QED
        BY <1>6, <2>1, <2>2, <2>3, <4>1
    <3>3. r \in Nat /\ q \in Nat
      BY <1>1
    <3> QED
      BY <3>1, <3>2, <3>3
  <2>5. ss[k][i].row = r /\ ss[l][j].row = q
    BY <1>2, <2>1, <2>2
  <2> QED
    BY <2>4, <2>5
<1>7. Stacked(ss)
  BY <1>3, <1>5, <1>6 DEF Stacked
<1>8. Scanned(seen) /\ Scanned(Reverse(seen))
  BY <1>7, FlattenAscending, AscendingScanned, ReverseScanned
<1>9. Snapshot = IF req.reversed THEN Reverse(seen) ELSE seen
  BY Zenon DEF Snapshot, seen, ss, now, I
<1> HIDE DEF seen
<1> QED
  BY <1>8, <1>9

\* Where rows begin are positions of the scan.
LEMMA HeadsFacts ==
  ASSUME NEW s, Scanned(s)
  PROVE  /\ Len(s) \in Nat /\ DOMAIN s = 1 .. Len(s) /\ s \in Seq(Cells)
         /\ Heads(s) \subseteq 1 .. Len(s) /\ Numbers(Heads(s)) /\ Cardinality(Heads(s)) \in Nat
<1>1. s \in Seq(Cells) /\ Len(s) \in Nat /\ DOMAIN s = 1 .. Len(s)
  BY DEF Scanned
<1>2. Heads(s) \subseteq 1 .. Len(s)
  BY <1>1 DEF Heads
<1>3. Numbers(Heads(s))
  BY <1>1, <1>2, NumbersIn
<1> QED
  BY <1>1, <1>2, <1>3, NumbersPart

\* The positions of a row in a scan.
RowIn(s, r) == {i \in DOMAIN s : s[i].row = r}
\* What filter f leaves of it.
KeptIn(f, s, r) == RefFilter(f, s, RowIn(s, r))

\* What the filter keeps of a row are positions of that row.
LEMMA KeptFacts ==
  ASSUME NEW f \in Evaluators, NEW s, Scanned(s), NEW r
  PROVE  /\ RowIn(s, r) \subseteq 1 .. Len(s) /\ OneRow(s, RowIn(s, r))
         /\ KeptIn(f, s, r) \subseteq RowIn(s, r) /\ Numbers(KeptIn(f, s, r))
         /\ At(s, KeptIn(f, s, r)) \in Seq(Cells)
<1>1. Len(s) \in Nat /\ DOMAIN s = 1 .. Len(s) /\ s \in Seq(Cells) /\ \A i \in 1 .. Len(s) : s[i] \in Cells
  BY HeadsFacts
<1>2. RowIn(s, r) \subseteq 1 .. Len(s) /\ RowIn(s, r) \in SUBSET Nat
  BY <1>1 DEF RowIn
<1>3. OneRow(s, RowIn(s, r))
  BY DEF Scanned, OneRow, RowIn, Id
<1>4. KeptIn(f, s, r) \subseteq RowIn(s, r)
  BY <1>1, <1>2, EvaluatorFacts, RefSubset DEF KeptIn, RefFilter
<1>5. Numbers(KeptIn(f, s, r)) /\ \A i \in KeptIn(f, s, r) : s[i] \in Cells
  BY <1>1, <1>2, <1>4, NumbersIn
<1> QED
  BY <1>2, <1>3, <1>4, <1>5, AtType

\* Filtered has a row for each head of the scan, at its rank.
LEMMA FilteredFacts ==
  ASSUME req \in Requests, NEW s, Scanned(s)
  PROVE  /\ Filtered(s) \in Seq(DueSet) /\ Len(Filtered(s)) = Cardinality(Heads(s))
         /\ \A h \in Heads(s) :
              /\ Rank(Heads(s), h) \in 1 .. Cardinality(Heads(s))
              /\ Filtered(s)[Rank(Heads(s), h)] = [row |-> s[h].row, cells |-> At(s, KeptIn(req.filter, s, s[h].row))]
<1> DEFINE H == Heads(s)
           w(h) == [row |-> s[h].row, cells |-> At(s, KeptIn(req.filter, s, s[h].row))]
           f == [h \in DOMAIN s |-> w(h)]
<1>1. H \subseteq DOMAIN s /\ Numbers(H)
  BY HeadsFacts
<1>2. Filtered(s) = At(f, H)
  BY Zenon DEF Filtered, KeptIn, RowIn, RowAt
<1>3. ASSUME NEW h \in H PROVE f[h] = w(h) /\ w(h) \in DueSet
  <2>1. At(s, KeptIn(req.filter, s, s[h].row)) \in Seq(Cells)
    BY RequestFacts, KeptFacts
  <2>2. s[h].row \in Rows
    BY <1>1 DEF Scanned
  <2> QED
    BY <1>1, <2>1, <2>2 DEF DueSet
<1> HIDE DEF f, H
<1>4. At(f, H) \in Seq(DueSet) /\ Len(At(f, H)) = Cardinality(H)
  <2>1. \A h \in H : f[h] \in DueSet
    BY <1>3
  <2> QED
    BY <1>1, <2>1, AtType
<1>5. \A h \in H : Rank(H, h) \in 1 .. Cardinality(H) /\ At(f, H)[Rank(H, h)] = f[h]
  BY <1>1, AtShape
<1> QED
  BY <1>2, <1>3, <1>4, <1>5 DEF H

-------------------------------------------------------------------------------
(* The rows that a client is shown. *)

\* Cells as they are sent, for filter f, and the rows of d.
EmitBy(f, c) ==
  IF HasStripValue(f)
  THEN [row |-> c.row, fam |-> c.fam, qual |-> c.qual, ts |-> c.ts, val |-> 0, parts |-> 1]
  ELSE c

\* Cells as they are sent, for filter f.
ShowBy(f, cells) == [i \in DOMAIN cells |-> EmitBy(f, cells[i])]
\* The rows among the first n of d of which the filter leaves something.
Left(d, n) == {i \in 1 .. n : d[i].cells # <<>>}
\* The first n rows of d as a client sees them.
ShownBy(f, d, n) == [i \in DOMAIN At(d, Left(d, n)) |-> ShowBy(f, At(d, Left(d, n))[i].cells)]

\* The parts of a row that is due.
LEMMA DueFacts ==
  ASSUME NEW r \in DueSet
  PROVE  r.row \in Rows /\ r.cells \in Seq(Cells)
BY DEF DueSet

\* The rows of a sequence of them.
LEMMA DueElement ==
  ASSUME NEW d \in Seq(DueSet), NEW i \in 1 .. Len(d)
  PROVE  d[i] \in DueSet /\ d[i].row \in Rows /\ d[i].cells \in Seq(Cells)
<1>1. d[i] \in DueSet
  OBVIOUS
<1> QED
  BY <1>1, DueFacts

\* Shown and Emitted are those for the request's filter and for due.
LEMMA ShownIs ==
  /\ \A c : Emitted(c) = EmitBy(req.filter, c)
  /\ \A n : Shown(n) = ShownBy(req.filter, due, n)
BY Zenon DEF Emitted, Show, Shown, EmitBy, ShowBy, ShownBy, Left

\* A cell that is sent is of the row it was in.
LEMMA EmittedCell ==
  ASSUME NEW f, NEW c \in Cells
  PROVE  EmitBy(f, c) \in Cells /\ EmitBy(f, c).row = c.row
BY DEF EmitBy, Cells

\* As many cells are shown as there are.
LEMMA ShowFacts ==
  ASSUME NEW f, NEW s \in Seq(Cells)
  PROVE  /\ ShowBy(f, s) \in Seq(Cells) /\ Len(ShowBy(f, s)) = Len(s)
         /\ \A i \in 1 .. Len(s) : ShowBy(f, s)[i] = EmitBy(f, s[i])
         /\ ShowBy(f, s) = <<>> <=> s = <<>>
<1>1. Len(s) \in Nat /\ DOMAIN s = 1 .. Len(s) /\ \A i \in 1 .. Len(s) : s[i] \in Cells
  OBVIOUS
<1>2. \A i \in 1 .. Len(s) : EmitBy(f, s[i]) \in Cells
  BY <1>1, EmittedCell
<1>3. ShowBy(f, s) = [i \in 1 .. Len(s) |-> EmitBy(f, s[i])]
  BY <1>1 DEF ShowBy
<1>4. ShowBy(f, s) \in [1 .. Len(s) -> Cells]
  BY <1>2, <1>3
<1>5. ShowBy(f, s) \in Seq(Cells) /\ Len(ShowBy(f, s)) = Len(s)
  BY <1>1, <1>4, FunctionIsSeq
<1>6. ShowBy(f, s) = <<>> <=> s = <<>>
  BY <1>5
<1> QED
  BY <1>3, <1>5, <1>6

\* Nothing is shown of nothing.
LEMMA ShowEmpty == \A f : ShowBy(f, <<>>) = <<>>
<1>1. <<>> \in Seq(Cells)
  OBVIOUS
<1> QED
  BY <1>1, ShowFacts

\* One more cell, one more shown.
LEMMA ShowAppend ==
  ASSUME NEW f, NEW s \in Seq(Cells), NEW c \in Cells
  PROVE  ShowBy(f, Append(s, c)) = Append(ShowBy(f, s), EmitBy(f, c))
<1> DEFINE a == ShowBy(f, Append(s, c))
           b == Append(ShowBy(f, s), EmitBy(f, c))
           m == Len(s)
<1>1. Append(s, c) \in Seq(Cells) /\ Len(Append(s, c)) = m + 1 /\ m \in Nat
      /\ \A i \in 1 .. m : Append(s, c)[i] = s[i]
  OBVIOUS
<1>2. a \in Seq(Cells) /\ Len(a) = m + 1 /\ \A i \in 1 .. m + 1 : a[i] = EmitBy(f, Append(s, c)[i])
  BY <1>1, ShowFacts
<1>3. EmitBy(f, c) \in Cells
  BY EmittedCell
<1>4. ShowBy(f, s) \in Seq(Cells) /\ Len(ShowBy(f, s)) = m /\ \A i \in 1 .. m : ShowBy(f, s)[i] = EmitBy(f, s[i])
  BY ShowFacts
<1>5. b \in Seq(Cells) /\ Len(b) = m + 1
  BY <1>1, <1>3, <1>4
<1>6. ASSUME NEW i \in 1 .. m + 1 PROVE a[i] = b[i]
  <2>1. CASE i = m + 1
    <3>1. Append(s, c)[i] = c
      BY <2>1
    <3>2. b[i] = EmitBy(f, c)
      BY <1>3, <1>4, <2>1
    <3> HIDE DEF a, b
    <3> QED
      BY <1>2, <3>1, <3>2
  <2>2. CASE i # m + 1
    <3>1. i \in 1 .. m
      BY <1>1, <2>2
    <3>2. a[i] = EmitBy(f, s[i])
      BY <1>1, <1>2, <3>1
    <3>3. b[i] = ShowBy(f, s)[i]
      BY <1>3, <1>4, <3>1
    <3> QED
      BY <1>4, <3>1, <3>2, <3>3
  <2> QED
    BY <2>1, <2>2
<1> HIDE DEF a, b, m
<1>7. a = b
  BY <1>2, <1>5, <1>6, SeqEqual
<1> QED
  BY <1>7 DEF a, b

\* The rows that are left, in order.
LEMMA LeftFacts ==
  ASSUME NEW d \in Seq(DueSet), NEW n \in Nat, n <= Len(d)
  PROVE  /\ Left(d, n) \subseteq 1 .. n /\ Numbers(Left(d, n)) /\ Cardinality(Left(d, n)) \in Nat
         /\ At(d, Left(d, n)) \in Seq(DueSet) /\ Len(At(d, Left(d, n))) = Cardinality(Left(d, n))
<1>1. Left(d, n) \subseteq 1 .. n
  BY DEF Left
<1>2. Numbers(Left(d, n))
  BY <1>1, NumbersIn
<1>3. \A i \in Left(d, n) : d[i] \in DueSet
  BY <1>1
<1> QED
  BY <1>1, <1>2, <1>3, AtType, NumbersPart

\* What is shown of them.
LEMMA ShownFacts ==
  ASSUME NEW f, NEW d \in Seq(DueSet), NEW n \in Nat, n <= Len(d)
  PROVE  /\ ShownBy(f, d, n) \in Seq(Seq(Cells)) /\ Len(ShownBy(f, d, n)) = Cardinality(Left(d, n))
         /\ \A i \in 1 .. Cardinality(Left(d, n)) :
              ShownBy(f, d, n)[i] = ShowBy(f, At(d, Left(d, n))[i].cells)
<1> DEFINE a == At(d, Left(d, n))
           m == Cardinality(Left(d, n))
<1>1. m \in Nat /\ a \in Seq(DueSet) /\ Len(a) = m
  BY LeftFacts
<1>2. ShownBy(f, d, n) = [i \in DOMAIN a |-> ShowBy(f, a[i].cells)]
  BY Zenon DEF ShownBy
<1> HIDE DEF a, m
<1>3. DOMAIN a = 1 .. m /\ \A i \in 1 .. m : a[i].cells \in Seq(Cells)
  <2>1. DOMAIN a = 1 .. m
    BY <1>1
  <2>2. \A i \in 1 .. m : a[i].cells \in Seq(Cells)
    BY <1>1, DueElement
  <2> QED
    BY <2>1, <2>2
<1>4. ShownBy(f, d, n) \in [1 .. m -> Seq(Cells)]
  <2>1. \A i \in 1 .. m : ShowBy(f, a[i].cells) \in Seq(Cells)
    BY <1>3, ShowFacts
  <2> QED
    BY <1>2, <1>3, <2>1
<1>5. ShownBy(f, d, n) \in Seq(Seq(Cells)) /\ Len(ShownBy(f, d, n)) = m
  BY <1>1, <1>4, FunctionIsSeq
<1>6. \A i \in 1 .. m : ShownBy(f, d, n)[i] = ShowBy(f, a[i].cells)
  BY <1>2, <1>3
<1> QED
  BY <1>5, <1>6 DEF a, m

\* No row, nothing shown.
LEMMA ShownNone ==
  ASSUME NEW f, NEW d \in Seq(DueSet)
  PROVE  ShownBy(f, d, 0) = <<>>
<1>1. Left(d, 0) = {}
  BY DEF Left
<1>2. ShownBy(f, d, 0) \in Seq(Seq(Cells)) /\ Len(ShownBy(f, d, 0)) = 0
  <2>1. 0 <= Len(d) /\ Cardinality(Left(d, 0)) = 0
    BY <1>1, FS_EmptySet
  <2> QED
    BY <2>1, ShownFacts
<1> QED
  BY <1>2

\* The next row.
LEMMA ShownStep ==
  ASSUME NEW f, NEW d \in Seq(DueSet), NEW n \in Nat, n + 1 <= Len(d)
  PROVE  ShownBy(f, d, n + 1) =
           IF d[n + 1].cells = <<>> THEN ShownBy(f, d, n)
           ELSE Append(ShownBy(f, d, n), ShowBy(f, d[n + 1].cells))
<1>1. CASE d[n + 1].cells = <<>>
  <2>1. Left(d, n + 1) = Left(d, n)
    BY <1>1 DEF Left
  <2> QED
    BY <1>1, <2>1 DEF ShownBy
<1>2. CASE d[n + 1].cells # <<>>
  <2> DEFINE I == Left(d, n)
             J == Left(d, n + 1)
             a == At(d, I)
             b == At(d, J)
             m == Cardinality(I)
             s == ShownBy(f, d, n)
             t == ShownBy(f, d, n + 1)
             x == ShowBy(f, d[n + 1].cells)
  <2>1. J = I \cup {n + 1} /\ \A i \in I : i < n + 1
    BY <1>2 DEF Left
  <2>2. I \subseteq 1 .. n /\ Numbers(I) /\ m \in Nat /\ a \in Seq(DueSet) /\ Len(a) = m
    BY LeftFacts
  <2>3. d[n + 1] \in DueSet /\ d[n + 1].cells \in Seq(Cells)
    <3>1. n + 1 \in 1 .. Len(d)
      OBVIOUS
    <3> QED
      BY <3>1, DueElement
  <2>4. x \in Seq(Cells)
    BY <2>3, ShowFacts
  <2>5. s \in Seq(Seq(Cells)) /\ Len(s) = m /\ \A i \in 1 .. m : s[i] = ShowBy(f, a[i].cells)
    BY ShownFacts
  <2>6. t \in Seq(Seq(Cells)) /\ Len(t) = Cardinality(J) /\ \A i \in 1 .. Cardinality(J) : t[i] = ShowBy(f, b[i].cells)
    BY ShownFacts
  <2> HIDE DEF I, J, s, t, x, m
  <2>n. n + 1 \in Nat
    OBVIOUS
  <2>7. b = Append(a, d[n + 1])
    <3>1. At(d, I \cup {n + 1}) = Append(At(d, I), d[n + 1])
      BY <2>1, <2>2, <2>n, AtAppend
    <3> QED
      BY <2>1, <3>1
  <2>8. Cardinality(J) = m + 1
    <3>1. Cardinality(I \cup {n + 1}) = Cardinality(I) + 1
      BY <2>1, <2>2, <2>n, RankLast
    <3> QED
      BY <2>1, <3>1 DEF m
  <2> HIDE DEF a, b
  <2>9. Append(s, x) \in Seq(Seq(Cells)) /\ Len(Append(s, x)) = m + 1
    BY <2>2, <2>4, <2>5
  <2>10. ASSUME NEW i \in 1 .. m + 1 PROVE t[i] = Append(s, x)[i]
    <3>1. CASE i = m + 1
      <4>1. b[i] = d[n + 1]
        BY <2>2, <2>3, <2>7, <3>1
      <4>2. Append(s, x)[i] = x
        BY <2>2, <2>4, <2>5, <3>1
      <4> QED
        BY <2>6, <2>8, <4>1, <4>2 DEF x
    <3>2. CASE i # m + 1
      <4>1. i \in 1 .. m
        BY <2>2, <3>2
      <4>2. b[i] = a[i]
        BY <2>2, <2>3, <2>7, <4>1
      <4>3. Append(s, x)[i] = s[i]
        BY <2>2, <2>4, <2>5, <4>1
      <4> QED
        BY <2>5, <2>6, <2>8, <4>1, <4>2, <4>3
    <3> QED
      BY <3>1, <3>2
  <2>11. t = Append(s, x)
    BY <2>6, <2>8, <2>9, <2>10, SeqEqual
  <2> QED
    BY <1>2, <2>11 DEF t, s, x
<1> QED
  BY <1>1, <1>2

\* A prefix stays one when the longer sequence grows.
LEMMA PrefixAppend ==
  ASSUME NEW S, NEW s \in Seq(S), NEW t \in Seq(S), NEW x \in S, IsPrefix(s, t)
  PROVE  IsPrefix(s, Append(t, x))
<1>1. Len(s) <= Len(t) /\ SubSeq(s, 1, Len(s)) = SubSeq(t, 1, Len(s))
  BY DEF IsPrefix
<1>2. SubSeq(Append(t, x), 1, Len(s)) = SubSeq(t, 1, Len(s))
  BY <1>1
<1> QED
  BY <1>1, <1>2 DEF IsPrefix

\* Fewer rows are a beginning of more.
LEMMA ShownPrefix ==
  ASSUME NEW f, NEW d \in Seq(DueSet), NEW m \in Nat, NEW n \in Nat, m <= n, n <= Len(d)
  PROVE  IsPrefix(ShownBy(f, d, m), ShownBy(f, d, n))
<1> DEFINE s == ShownBy(f, d, m)
           Q == {k \in Nat : m + k <= Len(d) => IsPrefix(s, ShownBy(f, d, m + k))}
<1>1. s \in Seq(Seq(Cells))
  BY ShownFacts
<1> HIDE DEF s
<1>2. 0 \in Q
  <2>1. IsPrefix(s, s)
    BY <1>1 DEF IsPrefix
  <2>2. ShownBy(f, d, m + 0) = s
    BY DEF s
  <2> QED
    BY <2>1, <2>2
<1>3. ASSUME NEW k \in Nat, k \in Q PROVE k + 1 \in Q
  <2> SUFFICES ASSUME m + (k + 1) <= Len(d) PROVE IsPrefix(s, ShownBy(f, d, m + (k + 1)))
    OBVIOUS
  <2> DEFINE i == m + k
             t == ShownBy(f, d, i)
             x == ShowBy(f, d[i + 1].cells)
  <2>1. i \in Nat /\ i + 1 <= Len(d) /\ i <= Len(d) /\ m + (k + 1) = i + 1
    OBVIOUS
  <2>2. IsPrefix(s, t)
    BY <1>3, <2>1
  <2> HIDE DEF i
  <2>3. t \in Seq(Seq(Cells))
    BY <2>1, ShownFacts
  <2>4. x \in Seq(Cells)
    <3>1. d[i + 1].cells \in Seq(Cells)
      <4>1. i + 1 \in 1 .. Len(d)
        BY <2>1
      <4> QED
        BY <4>1, DueElement
    <3> QED
      BY <3>1, ShowFacts
  <2>5. ShownBy(f, d, i + 1) = t \/ ShownBy(f, d, i + 1) = Append(t, x)
    BY <2>1, ShownStep
  <2> HIDE DEF t, x
  <2>6. IsPrefix(s, Append(t, x))
    BY <1>1, <2>2, <2>3, <2>4, PrefixAppend
  <2> QED
    BY <2>1, <2>2, <2>5, <2>6
<1> HIDE DEF Q
<1>4. \A k \in Nat : k \in Q
  BY <1>2, <1>3, UpInduction
<1>5. n - m \in Q /\ m + (n - m) = n
  BY <1>4
<1> QED
  BY <1>5 DEF Q, s

\* Rows that come later change nothing.
LEMMA ShownGrown ==
  ASSUME NEW f, NEW d \in Seq(DueSet), NEW e \in Seq(DueSet), NEW n \in Nat, n <= Len(d)
  PROVE  ShownBy(f, d \o e, n) = ShownBy(f, d, n)
<1> DEFINE g == d \o e
<1>1. \A i \in 1 .. n : g[i] = d[i]
  OBVIOUS
<1> HIDE DEF g
<1>2. Left(g, n) = Left(d, n)
  BY <1>1 DEF Left
<1>3. Left(d, n) \subseteq 1 .. n /\ Numbers(Left(d, n))
  BY LeftFacts
<1>4. At(g, Left(d, n)) = At(d, Left(d, n))
  BY <1>1, <1>3, AtAgree
<1>5. ShownBy(f, g, n) = ShownBy(f, d, n)
  BY <1>2, <1>4 DEF ShownBy
<1> QED
  BY <1>5 DEF g

-------------------------------------------------------------------------------
(* Types. *)

\* Responses.
ResponseSet == [chunks : Seq(ChunkSet), last : Rows \cup {NoRow}]

\* The types of the state.
TypeInv ==
  /\ req \in Requests /\ version \in [Rows -> Nat] /\ Versions
  /\ pc \in {"open", "scan", "endRange", "done", "failed"}
  /\ range \in 1 .. Len(req.ranges) + 1
  /\ Scanned(iter) /\ pos \in 0 .. Len(iter)
  /\ lastRowKey \in Rows \cup {EmptyKey} /\ lastScannedRowKey \in Rows \cup {NoRow}
  /\ rowStarted \in BOOLEAN /\ spoiled \in BOOLEAN
  /\ rowStarted => lastRowKey \in Rows
  /\ rowCount \in Nat
  /\ eval \in Evaluators /\ Reset(eval) = req.filter
  /\ chunkBuf \in Seq(ChunkSet) /\ Len(chunkBuf) < BufferSize
  /\ sent \in Seq(ResponseSet)
  /\ due \in Seq(DueSet)
  /\ pc \in {"open", "done"} => iter = <<>> /\ pos = 0
  /\ pc \in {"scan", "endRange"} => range <= Len(req.ranges)
  /\ pc = "done" => range > Len(req.ranges) /\ chunkBuf = <<>>

\* No cell is a scan.
LEMMA ScannedEmpty == Scanned(<<>>)
<1>1. <<>> \in Seq(Cells) /\ DOMAIN <<>> = {}
  OBVIOUS
<1> QED
  BY <1>1 DEF Scanned

\* TypeInv holds at the start of a call.
LEMMA TypeInit == Init => TypeInv
<1> SUFFICES ASSUME Init PROVE TypeInv
  OBVIOUS
<1> USE DEF Init
<1>1. req \in Requests /\ Len(req.ranges) \in Nat /\ req.filter \in Evaluators /\ Reset(req.filter) = req.filter
  BY RequestFacts
<1>2. Versions /\ version \in [Rows -> Nat]
  <2>1. ASSUME NEW r \in Rows PROVE 1 \in DOMAIN Content[r]
    <3>1. Content[r] \in Seq(Seq(Cells)) /\ Content[r] # <<>>
      BY ReadRowsAssumption
    <3> QED
      BY <3>1
  <2> QED
    BY <2>1 DEF Versions
<1>3. Len(chunkBuf) < BufferSize /\ chunkBuf \in Seq(ChunkSet)
  BY ReadRowsAssumption
<1>4. sent \in Seq(ResponseSet) /\ due \in Seq(DueSet)
  OBVIOUS
<1>5. Scanned(iter) /\ Len(iter) = 0
  BY ScannedEmpty
<1>6. range \in 1 .. Len(req.ranges) + 1 /\ pos \in 0 .. Len(iter)
  BY <1>1, <1>5
<1>7. /\ pc = "open" /\ iter = <<>> /\ pos = 0 /\ lastRowKey = EmptyKey /\ rowStarted = FALSE
      /\ rowCount = 0 /\ lastScannedRowKey = NoRow /\ eval = req.filter /\ spoiled = FALSE
      /\ range = 1 /\ Reset(eval) = req.filter /\ eval \in Evaluators
  BY <1>1
<1> HIDE DEF Init
<1>8. lastRowKey \in Rows \cup {EmptyKey} /\ lastScannedRowKey \in Rows \cup {NoRow} /\ rowCount \in Nat
  BY <1>7
<1> QED
  BY <1>1, <1>2, <1>3, <1>4, <1>5, <1>6, <1>7, <1>8 DEF TypeInv

\* What a row's end leaves of the buffer.
LEMMA CommitType ==
  ASSUME NEW buf \in Seq(ChunkSet)
  PROVE  CommitLastChunk(buf) \in Seq(ChunkSet) /\ Len(CommitLastChunk(buf)) = Len(buf)
<1>1. CASE buf = <<>>
  BY <1>1 DEF CommitLastChunk
<1>2. CASE buf # <<>>
  <2>1. PICK f \in Seq(ChunkSet) : buf = Append(f, Last(buf))
    BY <1>2, FrontLast
  <2>2. CommitLastChunk(buf) = Append(f, Committed(Last(buf))) /\ Last(buf) \in ChunkSet
    BY <1>2, <2>1, CommitLast, FrontLast
  <2>3. Committed(Last(buf)) \in ChunkSet
    BY <2>2, CommittedChunk
  <2>4. Append(f, Committed(Last(buf))) \in Seq(ChunkSet) /\ Len(Append(f, Committed(Last(buf)))) = Len(f) + 1
    BY <2>3
  <2>5. Len(buf) = Len(f) + 1
    BY <2>1, <2>2
  <2> QED
    BY <2>2, <2>4, <2>5
<1> QED
  BY <1>1, <1>2

\* What the chunks of a cell add to it.
LEMMA AppendType ==
  ASSUME NEW buf \in Seq(ChunkSet), NEW c \in Cells
  PROVE  AppendCellChunks(buf, c) \in Seq(ChunkSet) /\ Len(AppendCellChunks(buf, c)) = Len(buf) + c.parts
         /\ c.parts \in Nat \ {0} /\ Last(AppendCellChunks(buf, c)) = CellChunk(c, c.parts)
<1> DEFINE t == [i \in 1 .. c.parts |-> CellChunk(c, i)]
<1>1. c.parts \in Nat \ {0}
  BY DEF Cells
<1>2. t \in Seq(ChunkSet) /\ Len(t) = c.parts
  <2>1. \A i \in 1 .. c.parts : CellChunk(c, i) \in ChunkSet
    <3>1. \A i \in 1 .. c.parts : i \in Nat
      BY <1>1
    <3> QED
      BY <3>1, CellChunkType
  <2> QED
    BY <1>1, <2>1
<1>3. t[c.parts] = CellChunk(c, c.parts)
  BY <1>1
<1>4. AppendCellChunks(buf, c) = buf \o t
  BY Zenon DEF AppendCellChunks, CellChunk
<1> HIDE DEF t
<1> QED
  BY <1>1, <1>2, <1>3, <1>4 DEF Last

\* The end of a row keeps the buffer's length.
LEMMA EndRowType ==
  ASSUME TypeInv, EndRow
  PROVE  /\ chunkBuf' \in Seq(ChunkSet) /\ Len(chunkBuf') = Len(chunkBuf)
         /\ lastScannedRowKey' \in Rows \cup {NoRow} /\ spoiled' \in BOOLEAN
<1>1. chunkBuf' \in Seq(ChunkSet) /\ Len(chunkBuf') = Len(chunkBuf)
  BY CommitType DEF TypeInv, EndRow
<1>2. lastScannedRowKey' \in Rows \cup {NoRow}
  BY DEF TypeInv, EndRow
<1>3. spoiled' \in BOOLEAN
  BY DEF EndRow
<1> QED
  BY <1>1, <1>2, <1>3

\* A response carries the row that was scanned last, or none.
LEMMA ReportedType ==
  ASSUME TypeInv
  PROVE  Reported \in Rows \cup {NoRow} /\ (Reported # NoRow => Reported = lastScannedRowKey)
BY DEF TypeInv, Reported

\* A flush sends a response or fails.
LEMMA FlushType ==
  ASSUME TypeInv, NEW buf \in Seq(ChunkSet), NEW next, Flush(buf, next)
  PROVE  sent' \in Seq(ResponseSet) /\ (pc' = next \/ pc' = "failed")
<1>1. [chunks |-> buf, last |-> Reported] \in ResponseSet
  BY ReportedType DEF ResponseSet
<1>2. sent \in Seq(ResponseSet)
  BY DEF TypeInv
<1> QED
  BY <1>1, <1>2 DEF Flush

\* OpenRange keeps TypeInv.
LEMMA TypeOpenRange == TypeInv /\ OpenRange => TypeInv'
<1> SUFFICES ASSUME TypeInv, OpenRange PROVE TypeInv'
  OBVIOUS
<1>1. Scanned(Snapshot)
  BY SnapshotScanned DEF TypeInv, OpenRange
<1>2. Filtered(Snapshot) \in Seq(DueSet)
  BY <1>1, FilteredFacts DEF TypeInv
<1>3. Len(Snapshot) \in Nat
  BY <1>1, HeadsFacts
<1>4. Scanned(iter') /\ pos' \in 0 .. Len(iter') /\ due' \in Seq(DueSet)
  BY <1>1, <1>2, <1>3 DEF TypeInv, OpenRange
<1> QED
  BY <1>4 DEF TypeInv, OpenRange, Versions, EmptyKey

\* SkipRange keeps TypeInv.
LEMMA TypeSkipRange == TypeInv /\ SkipRange => TypeInv'
<1> SUFFICES ASSUME TypeInv, SkipRange PROVE TypeInv'
  OBVIOUS
<1>1. Len(req.ranges) \in Nat
  BY RequestFacts DEF TypeInv
<1>2. range' \in 1 .. Len(req.ranges') + 1
  BY <1>1 DEF TypeInv, SkipRange
<1> QED
  BY <1>2 DEF TypeInv, SkipRange, Versions, scanVars

\* NextRow keeps TypeInv.
LEMMA TypeNextRow == TypeInv /\ NextRow => TypeInv'
<1> SUFFICES ASSUME TypeInv, NextRow PROVE TypeInv'
  OBVIOUS
<1>1. /\ chunkBuf' \in Seq(ChunkSet) /\ Len(chunkBuf') = Len(chunkBuf)
      /\ lastScannedRowKey' \in Rows \cup {NoRow} /\ spoiled' \in BOOLEAN
  BY EndRowType DEF NextRow
<1>2. /\ Reset(eval) \in Evaluators /\ Reset(eval) = req.filter /\ Reset(req.filter) = req.filter
  BY RequestFacts, EvaluatorFacts DEF TypeInv
<1>3. iter[pos + 1].row \in Rows
  <2>1. pos + 1 \in DOMAIN iter
    BY HeadsFacts DEF TypeInv, NextRow, AtBoundary, AtEnd
  <2> QED
    BY <2>1 DEF TypeInv, Scanned
<1>4. /\ eval' \in Evaluators /\ Reset(eval') = req.filter
      /\ lastRowKey' \in Rows \cup {EmptyKey} /\ rowStarted' \in BOOLEAN
      /\ rowStarted' => lastRowKey' \in Rows
      /\ pc' \in {"scan", "endRange"} /\ pc = "scan" /\ rowCount' \in Nat
  <2>1. CASE LimitReached(rowCount + 1)
    BY <2>1 DEF TypeInv, NextRow
  <2>2. CASE ~LimitReached(rowCount + 1)
    BY <1>2, <1>3, <2>2 DEF TypeInv, NextRow
  <2> QED
    BY <2>1, <2>2
<1>5. UNCHANGED <<version, req, range, iter, pos, sent, due>>
  BY DEF NextRow
<1> QED
  BY <1>1, <1>4, <1>5 DEF TypeInv, Versions

\* The buffer that a value was read over.
LEMMA OverwrittenType ==
  ASSUME TypeInv, NEW c \in Cells, NEW n
  PROVE  Overwritten(c, n) \in Seq(ChunkSet) /\ Len(Overwritten(c, n)) = Len(chunkBuf)
<1>1. chunkBuf \in Seq(ChunkSet) /\ Len(chunkBuf) \in Nat /\ DOMAIN chunkBuf = 1 .. Len(chunkBuf)
  BY DEF TypeInv
<1>2. ASSUME NEW ch \in ChunkSet PROVE [ch EXCEPT !.cell.val = c.val] \in ChunkSet
  <2>1. ch.cell \in Cells /\ c.val \in Nat
    BY DEF ChunkSet, Cells
  <2>2. [ch.cell EXCEPT !.val = c.val] \in Cells
    BY <2>1 DEF Cells
  <2> QED
    BY <2>2 DEF ChunkSet
<1>3. \A i \in 1 .. Len(chunkBuf) : chunkBuf[i] \in ChunkSet
  BY <1>1
<1>4. Overwritten(c, n) \in [1 .. Len(chunkBuf) -> ChunkSet]
  BY <1>1, <1>2, <1>3 DEF Overwritten
<1> QED
  BY <1>1, <1>4

\* What happens to one cell of the row under way, the buffer left aside.
LEMMA ScanCellFacts ==
  ASSUME TypeInv, ScanCell
  PROVE  LET c == iter[pos + 1] IN
         /\ pos + 1 \in 1 .. Len(iter) /\ c \in Cells /\ c.row = lastRowKey /\ pc = "scan" /\ pos' = pos + 1
         /\ EmitBy(req.filter, c) \in Cells /\ EmitBy(req.filter, c).row = lastRowKey
         /\ eval' = Evaluate(eval, c).e /\ (Evaluate(eval, c).ok \in BOOLEAN)
         /\ spoiled' \in BOOLEAN /\ (spoiled \/ c.row = EmptyKey => spoiled')
         /\ pc' \in {"scan", "failed"}
         /\ UNCHANGED <<version, req, range, iter, lastRowKey, rowStarted, rowCount, lastScannedRowKey, due>>
<1> DEFINE c == iter[pos + 1]
           ok == Evaluate(eval, c).ok
<1>1. pos + 1 \in 1 .. Len(iter) /\ iter \in Seq(Cells) /\ c.row = lastRowKey
  BY HeadsFacts DEF TypeInv, ScanCell, AtBoundary, AtEnd
<1>2. c \in Cells
  BY <1>1
<1>3. EmitBy(req.filter, c) \in Cells /\ EmitBy(req.filter, c).row = lastRowKey
  BY <1>1, <1>2, EmittedCell
<1>4. ok \in BOOLEAN
  BY <1>2, EvaluatorFacts DEF TypeInv
<1>5. eval' = Evaluate(eval, c).e /\ pos' = pos + 1 /\ pc = "scan"
      /\ UNCHANGED <<version, req, range, iter, lastRowKey, rowStarted, rowCount, lastScannedRowKey, due>>
  BY DEF ScanCell
<1>6. PICK n : spoiled' = (spoiled \/ c.row = EmptyKey \/ Overwritten(c, n) # chunkBuf)
  BY DEF ScanCell
<1>7. pc' \in {"scan", "failed"}
  BY <1>5 DEF ScanCell, Flush
<1> QED
  BY <1>1, <1>2, <1>3, <1>4, <1>5, <1>6, <1>7

\* What happens to the buffer: held is what the value has left of it.
LEMMA ScanCellHeld ==
  ASSUME TypeInv, ScanCell
  PROVE  LET c == iter[pos + 1] IN
         \E held \in Seq(ChunkSet) :
           /\ Len(held) = Len(chunkBuf) /\ (~spoiled' => held = chunkBuf)
           /\ ~Evaluate(eval, c).ok => chunkBuf' = held /\ UNCHANGED <<sent, pc>>
           /\ Evaluate(eval, c).ok =>
                LET buf == AppendCellChunks(held, EmitBy(req.filter, c)) IN
                /\ buf \in Seq(ChunkSet)
                /\ IF Len(buf) >= BufferSize THEN Flush(buf, "scan") /\ chunkBuf' = <<>>
                   ELSE chunkBuf' = buf /\ UNCHANGED <<sent, pc>>
<1> DEFINE c == iter[pos + 1]
           ok == Evaluate(eval, c).ok
<1>1. c \in Cells /\ EmitBy(req.filter, c) \in Cells
  BY ScanCellFacts
<1>2. Emitted(c) = EmitBy(req.filter, c)
  BY ShownIs
<1>3. PICK n :
        LET held == Overwritten(c, n)
            buf == IF ok THEN AppendCellChunks(held, EmitBy(req.filter, c)) ELSE held
        IN /\ spoiled' = (spoiled \/ c.row = EmptyKey \/ held # chunkBuf)
           /\ IF ok /\ Len(buf) >= BufferSize THEN Flush(buf, "scan") /\ chunkBuf' = <<>>
              ELSE chunkBuf' = buf /\ UNCHANGED <<sent, pc>>
  BY <1>2 DEF ScanCell
<1> DEFINE held == Overwritten(c, n)
           buf == AppendCellChunks(held, EmitBy(req.filter, c))
<1>4. held \in Seq(ChunkSet) /\ Len(held) = Len(chunkBuf)
  BY <1>1, OverwrittenType
<1>5. buf \in Seq(ChunkSet)
  BY <1>1, <1>4, AppendType
<1>6. ~spoiled' => held = chunkBuf
  BY <1>3
<1>7. ~ok => chunkBuf' = held /\ UNCHANGED <<sent, pc>>
  BY <1>3
<1>8. ok => IF Len(buf) >= BufferSize THEN Flush(buf, "scan") /\ chunkBuf' = <<>>
            ELSE chunkBuf' = buf /\ UNCHANGED <<sent, pc>>
  BY <1>3
<1> HIDE DEF held, ok
<1>9. /\ held \in Seq(ChunkSet) /\ Len(held) = Len(chunkBuf) /\ (~spoiled' => held = chunkBuf)
      /\ ~ok => chunkBuf' = held /\ UNCHANGED <<sent, pc>>
      /\ ok => /\ buf \in Seq(ChunkSet)
               /\ IF Len(buf) >= BufferSize THEN Flush(buf, "scan") /\ chunkBuf' = <<>>
                  ELSE chunkBuf' = buf /\ UNCHANGED <<sent, pc>>
  BY <1>4, <1>5, <1>6, <1>7, <1>8
<1> QED
  BY <1>9 DEF ok

\* What happens to the buffer of a scan that is not spoiled.
LEMMA ScanCellBuffer ==
  ASSUME TypeInv, ScanCell, ~spoiled'
  PROVE  LET c == iter[pos + 1]
             buf == AppendCellChunks(chunkBuf, EmitBy(req.filter, c))
         IN /\ ~Evaluate(eval, c).ok => chunkBuf' = chunkBuf /\ UNCHANGED <<sent, pc>>
            /\ Evaluate(eval, c).ok =>
                 /\ buf \in Seq(ChunkSet)
                 /\ IF Len(buf) >= BufferSize THEN Flush(buf, "scan") /\ chunkBuf' = <<>>
                    ELSE chunkBuf' = buf /\ UNCHANGED <<sent, pc>>
BY ScanCellHeld

\* ScanCell keeps TypeInv.
LEMMA TypeScanCell == TypeInv /\ ScanCell => TypeInv'
<1> SUFFICES ASSUME TypeInv, ScanCell PROVE TypeInv'
  OBVIOUS
<1> DEFINE c == iter[pos + 1]
           ok == Evaluate(eval, c).ok
<1>1. /\ pos + 1 \in 1 .. Len(iter) /\ c \in Cells /\ pc = "scan" /\ pos' = pos + 1
      /\ eval' = Evaluate(eval, c).e /\ ok \in BOOLEAN
      /\ spoiled' \in BOOLEAN
      /\ UNCHANGED <<version, req, range, iter, lastRowKey, rowStarted, rowCount, lastScannedRowKey, due>>
      /\ EmitBy(req.filter, c) \in Cells
  BY ScanCellFacts
<1>2. PICK held \in Seq(ChunkSet) :
        /\ Len(held) = Len(chunkBuf)
        /\ ~ok => chunkBuf' = held /\ UNCHANGED <<sent, pc>>
        /\ ok => LET buf == AppendCellChunks(held, EmitBy(req.filter, c)) IN
                 /\ buf \in Seq(ChunkSet)
                 /\ IF Len(buf) >= BufferSize THEN Flush(buf, "scan") /\ chunkBuf' = <<>>
                    ELSE chunkBuf' = buf /\ UNCHANGED <<sent, pc>>
  BY ScanCellHeld
<1> DEFINE buf == AppendCellChunks(held, EmitBy(req.filter, c))
<1>3. ok => /\ buf \in Seq(ChunkSet)
            /\ IF Len(buf) >= BufferSize THEN Flush(buf, "scan") /\ chunkBuf' = <<>>
               ELSE chunkBuf' = buf /\ UNCHANGED <<sent, pc>>
  BY <1>2
<1>4. eval' \in Evaluators /\ Reset(eval') = req.filter
  BY <1>1, EvaluatorFacts DEF TypeInv
<1> HIDE DEF c, ok, buf
<1>5. /\ chunkBuf' \in Seq(ChunkSet) /\ Len(chunkBuf') < BufferSize
      /\ sent' \in Seq(ResponseSet) /\ pc' \in {"scan", "failed"}
  <2>1. CASE ~ok
    BY <1>1, <1>2, <2>1 DEF TypeInv
  <2>2. CASE ok /\ Len(buf) >= BufferSize
    <3>1. sent' \in Seq(ResponseSet) /\ (pc' = "scan" \/ pc' = "failed")
      BY <1>3, <2>2, FlushType
    <3>2. <<>> \in Seq(ChunkSet) /\ Len(<<>>) < BufferSize
      BY ReadRowsAssumption
    <3> QED
      BY <1>3, <2>2, <3>1, <3>2
  <2>3. CASE ok /\ ~(Len(buf) >= BufferSize)
    <3>1. Len(buf) \in Nat
      BY <1>3, <2>3
    <3> QED
      BY <1>1, <1>3, <2>3, <3>1, ReadRowsAssumption DEF TypeInv
  <2> QED
    BY <1>1, <2>1, <2>2, <2>3
<1>6. pos' \in 0 .. Len(iter')
  BY <1>1, HeadsFacts DEF TypeInv
<1> QED
  BY <1>1, <1>4, <1>5, <1>6 DEF TypeInv, Versions

\* EndRange keeps TypeInv.
LEMMA TypeEndRange == TypeInv /\ EndRange => TypeInv'
<1> SUFFICES ASSUME TypeInv, EndRange PROVE TypeInv'
  OBVIOUS
<1>1. /\ chunkBuf' \in Seq(ChunkSet) /\ Len(chunkBuf') = Len(chunkBuf)
      /\ lastScannedRowKey' \in Rows \cup {NoRow} /\ spoiled' \in BOOLEAN
  BY EndRowType DEF EndRange
<1>2. Len(req.ranges) \in Nat
  BY RequestFacts DEF TypeInv
<1>3. range' \in 1 .. Len(req.ranges') + 1
  BY <1>2 DEF TypeInv, EndRange
<1>4. Scanned(iter') /\ pos' = 0 /\ iter' = <<>> /\ Len(iter') = 0 /\ pc' = "open"
  BY ScannedEmpty DEF EndRange
<1>5. UNCHANGED <<version, req, lastRowKey, rowStarted, rowCount, eval, sent, due>>
  BY DEF EndRange
<1> QED
  BY <1>1, <1>3, <1>4, <1>5 DEF TypeInv, Versions

\* Finish keeps TypeInv.
LEMMA TypeFinish == TypeInv /\ Finish => TypeInv'
<1> SUFFICES ASSUME TypeInv, Finish PROVE TypeInv'
  OBVIOUS
<1>1. sent' \in Seq(ResponseSet) /\ pc' \in {"done", "failed"}
  <2>1. CASE chunkBuf = <<>>
    BY <2>1 DEF TypeInv, Finish
  <2>2. CASE chunkBuf # <<>>
    <3>1. Flush(chunkBuf, "done") /\ chunkBuf \in Seq(ChunkSet)
      BY <2>2 DEF Finish, TypeInv
    <3> QED
      BY <3>1, FlushType
  <2> QED
    BY <2>1, <2>2
<1>2. chunkBuf' \in Seq(ChunkSet) /\ Len(chunkBuf') < BufferSize /\ chunkBuf' = <<>>
  BY ReadRowsAssumption DEF Finish
<1>3. /\ UNCHANGED <<version, req, range, iter, pos, lastRowKey, rowStarted, rowCount,
                    lastScannedRowKey, eval, due, spoiled>>
      /\ range > Len(req.ranges) /\ pc = "open"
  BY DEF Finish
<1> QED
  BY <1>1, <1>2, <1>3 DEF TypeInv, Versions

\* WriteRow keeps TypeInv.
LEMMA TypeWriteRow == ASSUME NEW r \in Rows PROVE TypeInv /\ WriteRow(r) => TypeInv'
<1> SUFFICES ASSUME TypeInv, WriteRow(r) PROVE TypeInv'
  OBVIOUS
<1>1. version' \in [Rows -> Nat] /\ \A q \in Rows : version'[q] \in DOMAIN Content[q]
  <2>1. version \in [Rows -> Nat] /\ version[r] < Len(Content[r]) /\ version' = [version EXCEPT ![r] = version[r] + 1]
    BY DEF TypeInv, WriteRow
  <2>2. version[r] \in DOMAIN Content[r] /\ Content[r] \in Seq(Seq(Cells))
    BY ReadRowsAssumption DEF TypeInv, Versions
  <2>3. version[r] + 1 \in DOMAIN Content[r] /\ version[r] + 1 \in Nat
    BY <2>1, <2>2
  <2> QED
    BY <2>1, <2>3 DEF TypeInv, Versions
<1> QED
  BY <1>1 DEF TypeInv, WriteRow, Versions, scanVars

\* Every step keeps TypeInv.
LEMMA TypeStep == TypeInv /\ [Next]_vars => TypeInv'
<1> SUFFICES ASSUME TypeInv, [Next]_vars PROVE TypeInv'
  OBVIOUS
<1>1. CASE UNCHANGED vars
  BY <1>1 DEF TypeInv, Versions, vars
<1> QED
  BY <1>1, TypeOpenRange, TypeSkipRange, TypeNextRow, TypeScanCell, TypeEndRange, TypeFinish,
     TypeWriteRow DEF Next

-------------------------------------------------------------------------------
(* The rows that are counted. *)

\* How far a scan of s that has passed p cells and is in row key has got.
Reach(s, p, key) == IF p # Len(s) /\ s[p + 1].row = key THEN p + 1 ELSE p

\* How many rows have begun.
Begun(s, p, key) == Rank(Heads(s), Reach(s, p, key))

\* The rows of earlier ranges.
Base == Len(due) - Cardinality(Heads(iter))

\* No row is counted before it begins, and none beyond the limit.  The limit is passed by one for
\* the moment in which the loop ends.
CountInv ==
  /\ rowCount <= Len(due) /\ Cardinality(Heads(iter)) <= Len(due)
  /\ pc = "scan" =>
       /\ rowCount <= Base + Begun(iter, pos, lastRowKey)
       /\ pos # 0 => lastRowKey = iter[pos].row \/ (~AtEnd /\ lastRowKey = iter[pos + 1].row)
       /\ pos = 0 /\ rowStarted => ~AtEnd /\ lastRowKey = iter[pos + 1].row
       /\ ~rowStarted => lastRowKey = EmptyKey
       /\ req.limit > 0 => rowCount <= req.limit
  /\ pc = "endRange" => req.limit > 0 /\ rowCount = req.limit + 1
  /\ pc = "open" /\ range <= Len(req.ranges) /\ req.limit > 0 => rowCount < req.limit

\* Ranks grow.
LEMMA RankMonotone ==
  ASSUME NEW K, Numbers(K), NEW i \in Nat, NEW j \in Nat, i <= j
  PROVE  /\ Rank(K, i) \in Nat /\ Rank(K, j) \in Nat /\ Rank(K, i) <= Rank(K, j)
         /\ Rank(K, j) <= Cardinality(K) /\ Cardinality(K) \in Nat
<1> DEFINE S == {k \in K : k <= i}
           T == {k \in K : k <= j}
<1>1. \A k \in K : k \in Nat
  BY DEF Numbers
<1>2. S \subseteq T /\ T \subseteq K
  BY <1>1
<1>3. Rank(K, i) = Cardinality(S) /\ Rank(K, j) = Cardinality(T)
  BY Zenon DEF Rank
<1> HIDE DEF S, T
<1>4. Numbers(T) /\ Cardinality(T) <= Cardinality(K) /\ Cardinality(T) \in Nat /\ Cardinality(K) \in Nat
  BY <1>2, NumbersPart
<1>5. Cardinality(S) <= Cardinality(T) /\ Cardinality(S) \in Nat
  BY <1>2, <1>4, NumbersPart
<1> QED
  BY <1>3, <1>4, <1>5

\* The ranks of the heads count the rows that have begun.
LEMMA HeadsRank ==
  ASSUME NEW s, Scanned(s)
  PROVE  /\ Rank(Heads(s), 0) = 0
         /\ Rank(Heads(s), Len(s)) = Cardinality(Heads(s))
         /\ \A p \in Nat : p < Len(s) =>
              /\ p + 1 \in Heads(s) <=> (p = 0 \/ s[p + 1].row # s[p].row)
              /\ p + 1 \in Heads(s) => Rank(Heads(s), p + 1) = Rank(Heads(s), p) + 1
              /\ p + 1 \notin Heads(s) => Rank(Heads(s), p + 1) = Rank(Heads(s), p)
<1> DEFINE H == Heads(s)
<1>1. Len(s) \in Nat /\ DOMAIN s = 1 .. Len(s) /\ H \subseteq 1 .. Len(s) /\ Numbers(H)
  BY HeadsFacts
<1>2. ASSUME NEW p \in Nat, p < Len(s) PROVE p + 1 \in H <=> (p = 0 \/ s[p + 1].row # s[p].row)
  <2>1. p + 1 \in DOMAIN s /\ (p + 1 = 1 <=> p = 0) /\ (p + 1) - 1 = p
    BY <1>1, <1>2
  <2> QED
    BY <2>1 DEF Heads
<1> HIDE DEF H
<1>3. \A j \in H : j \in Nat
  BY <1>1
<1>4. 0 \notin H
  BY <1>1
<1>5. Rank(H, 0) = 0
  BY <1>3, <1>4, RankStep
<1>6. \A p \in Nat : Rank(H, p + 1) = IF p + 1 \in H THEN Rank(H, p) + 1 ELSE Rank(H, p)
  BY <1>3, RankStep
<1>7. Rank(H, Len(s)) = Cardinality(H)
  <2>1. \A j \in H : j \in 1 .. Len(s) /\ j <= Len(s)
    BY <1>1
  <2>2. {j \in H : j <= Len(s)} = H
    BY <2>1
  <2> QED
    BY <2>2 DEF Rank
<1> QED
  BY <1>2, <1>5, <1>6, <1>7 DEF H

\* No cell, no row.
LEMMA HeadsEmpty == Heads(<<>>) = {} /\ Cardinality(Heads(<<>>)) = 0
<1>1. Heads(<<>>) = {}
  BY DEF Heads
<1> QED
  BY <1>1, FS_EmptySet

\* How many rows of the scan have begun.
LEMMA BegunFacts ==
  ASSUME NEW s, Scanned(s), NEW p \in 0 .. Len(s), NEW key
  PROVE  /\ p \in Nat /\ Len(s) \in Nat /\ Reach(s, p, key) \in 0 .. Len(s)
         /\ Begun(s, p, key) \in Nat /\ Begun(s, p, key) <= Cardinality(Heads(s))
         /\ Cardinality(Heads(s)) \in Nat
         /\ p # Len(s) /\ s[p + 1].row # key => Begun(s, p, key) = Rank(Heads(s), p)
         /\ p # Len(s) /\ s[p + 1].row = key => Begun(s, p, key) = Rank(Heads(s), p + 1)
         /\ p = Len(s) => Begun(s, p, key) = Cardinality(Heads(s))
<1>1. Len(s) \in Nat /\ Numbers(Heads(s)) /\ p \in Nat /\ Cardinality(Heads(s)) \in Nat
  BY HeadsFacts
<1>2. Reach(s, p, key) \in 0 .. Len(s)
  BY <1>1 DEF Reach
<1>3. Begun(s, p, key) \in Nat /\ Begun(s, p, key) <= Cardinality(Heads(s))
  BY <1>1, <1>2, RankMonotone DEF Begun
<1> QED
  BY <1>1, <1>2, <1>3, HeadsRank DEF Begun, Reach

\* CountInv holds at the start of a call.
LEMMA CountInit == Init => CountInv
<1> SUFFICES ASSUME Init PROVE CountInv
  OBVIOUS
<1>1. Cardinality(Heads(iter)) = 0 /\ Len(due) = 0 /\ rowCount = 0 /\ pc = "open"
  BY HeadsEmpty DEF Init
<1> QED
  BY <1>1 DEF CountInv

\* The elements of a concatenation.
LEMMA ConcatLen ==
  ASSUME NEW S, NEW s \in Seq(S), NEW t \in Seq(S)
  PROVE  /\ s \o t \in Seq(S) /\ Len(s \o t) = Len(s) + Len(t)
         /\ Len(s) \in Nat /\ Len(t) \in Nat /\ Len(s \o t) \in Nat
         /\ \A i \in 1 .. Len(s) : (s \o t)[i] = s[i]
         /\ \A i \in 1 .. Len(t) : (s \o t)[Len(s) + i] = t[i]
OBVIOUS

\* OpenRange keeps CountInv.
LEMMA CountOpenRange == TypeInv /\ CountInv /\ OpenRange => CountInv'
<1> SUFFICES ASSUME TypeInv, CountInv, OpenRange PROVE CountInv'
  OBVIOUS
<1>1. Scanned(Snapshot) /\ iter' = Snapshot
  BY SnapshotScanned DEF TypeInv, OpenRange
<1>2. Filtered(Snapshot) \in Seq(DueSet) /\ Len(Filtered(Snapshot)) = Cardinality(Heads(iter'))
  BY <1>1, FilteredFacts DEF TypeInv
<1>3. Len(due') = Len(due) + Cardinality(Heads(iter')) /\ Len(due) \in Nat
  <2>1. due \in Seq(DueSet) /\ due' = due \o Filtered(Snapshot)
    BY DEF TypeInv, OpenRange
  <2> DEFINE x == Filtered(Snapshot)
  <2>2. x \in Seq(DueSet) /\ Len(x) = Cardinality(Heads(iter')) /\ due' = due \o x
    BY <1>2, <2>1
  <2> HIDE DEF x
  <2>3. Len(due \o x) = Len(due) + Len(x) /\ Len(due) \in Nat
    BY <2>1, <2>2, ConcatLen
  <2> QED
    BY <2>2, <2>3
<1>4. /\ Begun(iter', pos', lastRowKey') \in Nat /\ Cardinality(Heads(iter')) \in Nat
      /\ Len(iter') \in Nat
  <2>1. Len(iter') \in Nat /\ 0 \in 0 .. Len(iter') /\ pos' = 0
    BY <1>1, HeadsFacts DEF OpenRange
  <2> QED
    BY <1>1, <2>1, BegunFacts
<1>5. /\ rowCount' = rowCount /\ rowCount \in Nat /\ rowCount <= Len(due) /\ req' = req
      /\ pc' = "scan" /\ pos' = 0 /\ ~rowStarted' /\ lastRowKey' = EmptyKey
      /\ req.limit > 0 => rowCount < req.limit
  BY DEF TypeInv, CountInv, OpenRange
<1>6. req.limit \in Nat
  BY RequestFacts DEF TypeInv
<1>7. rowCount' <= Base' + Begun(iter', pos', lastRowKey')
  BY <1>3, <1>4, <1>5 DEF Base
<1> QED
  BY <1>3, <1>4, <1>5, <1>6, <1>7 DEF CountInv

\* SkipRange keeps CountInv.
LEMMA CountSkipRange == TypeInv /\ CountInv /\ SkipRange => CountInv'
<1> SUFFICES ASSUME TypeInv, CountInv, SkipRange PROVE CountInv'
  OBVIOUS
<1>1. range \in Nat /\ range' = range + 1 /\ Len(req.ranges) \in Nat /\ range <= Len(req.ranges)
  BY RequestFacts DEF TypeInv, SkipRange
<1> QED
  BY <1>1 DEF CountInv, SkipRange, scanVars, Base, AtEnd

\* A row begins.
LEMMA Boundary ==
  ASSUME TypeInv, CountInv, pc = "scan", AtBoundary
  PROVE  /\ pos \in Nat /\ pos < Len(iter) /\ pos + 1 \in Heads(iter)
         /\ pos # 0 => lastRowKey = iter[pos].row
         /\ rowStarted => pos # 0
         /\ Begun(iter, pos, lastRowKey) = Rank(Heads(iter), pos)
         /\ Begun(iter, pos, iter[pos + 1].row) = Rank(Heads(iter), pos) + 1
         /\ Rank(Heads(iter), pos) \in Nat
<1>1. pos \in 0 .. Len(iter) /\ Scanned(iter) /\ Len(iter) \in Nat
  BY HeadsFacts DEF TypeInv
<1>2. pos # Len(iter) /\ iter[pos + 1].row # lastRowKey
  BY DEF AtBoundary, AtEnd
<1>3. (pos # 0 => lastRowKey = iter[pos].row) /\ (rowStarted => pos # 0)
  BY <1>2 DEF CountInv
<1>4. pos + 1 \in Heads(iter) /\ Rank(Heads(iter), pos + 1) = Rank(Heads(iter), pos) + 1
  BY <1>1, <1>2, <1>3, HeadsRank
<1>5. /\ Begun(iter, pos, lastRowKey) = Rank(Heads(iter), pos)
      /\ Begun(iter, pos, iter[pos + 1].row) = Rank(Heads(iter), pos + 1)
      /\ Begun(iter, pos, lastRowKey) \in Nat
  BY <1>1, <1>2, BegunFacts
<1> QED
  BY <1>1, <1>2, <1>3, <1>4, <1>5

\* NextRow keeps CountInv.
LEMMA CountNextRow == TypeInv /\ CountInv /\ NextRow => CountInv'
<1> SUFFICES ASSUME TypeInv, CountInv, NextRow PROVE CountInv'
  OBVIOUS
<1> DEFINE b == Begun(iter, pos, lastRowKey)
           n == Cardinality(Heads(iter))
<1>1. /\ pos \in Nat /\ pos < Len(iter) /\ b \in Nat
      /\ Begun(iter, pos, iter[pos + 1].row) = b + 1
  BY Boundary DEF NextRow
<1>2. /\ Begun(iter, pos, iter[pos + 1].row) <= n /\ n \in Nat
  BY BegunFacts DEF TypeInv
<1>3. /\ rowCount <= Base + b /\ n <= Len(due) /\ Base = Len(due) - n /\ pc = "scan"
      /\ rowCount \in Nat /\ Len(due) \in Nat
  BY DEF CountInv, Base, NextRow, TypeInv
<1>4. rowCount' = rowCount + 1 /\ UNCHANGED <<req, iter, pos, due, range>>
  BY DEF NextRow
<1>5. req.limit \in Nat
  BY RequestFacts DEF TypeInv
<1>6. rowCount' <= Len(due') /\ Cardinality(Heads(iter')) <= Len(due')
  BY <1>1, <1>2, <1>3, <1>4
<1>7. CASE LimitReached(rowCount + 1)
  <2>1. pc' = "endRange" /\ req.limit > 0 /\ rowCount + 1 > req.limit
    BY <1>7 DEF NextRow, LimitReached
  <2>2. rowCount <= req.limit
    BY <2>1 DEF CountInv, NextRow
  <2> QED
    BY <1>3, <1>4, <1>5, <1>6, <2>1, <2>2 DEF CountInv
<1>8. CASE ~LimitReached(rowCount + 1)
  <2>1. pc' = "scan" /\ lastRowKey' = iter[pos + 1].row /\ rowStarted' = TRUE
    BY <1>8 DEF NextRow
  <2>2. req.limit > 0 => rowCount + 1 <= req.limit
    BY <1>3, <1>5, <1>8 DEF LimitReached
  <2>3. rowCount' <= Base' + Begun(iter', pos', lastRowKey')
    BY <1>1, <1>2, <1>3, <1>4, <2>1 DEF Base
  <2>4. pos' # Len(iter') /\ lastRowKey' = iter'[pos' + 1].row
    BY <1>1, <1>4, <2>1
  <2> QED
    BY <1>4, <1>6, <2>1, <2>2, <2>3, <2>4 DEF CountInv, AtEnd
<1> QED
  BY <1>7, <1>8

\* A cell of the row under way.
LEMMA Inside ==
  ASSUME TypeInv, CountInv, ScanCell
  PROVE  /\ pos + 1 \in 1 .. Len(iter) /\ pos \in Nat /\ iter' = iter /\ pos' = pos + 1
         /\ Begun(iter, pos, lastRowKey) = Rank(Heads(iter), pos + 1)
         /\ Begun(iter, pos', lastRowKey) = Rank(Heads(iter), pos + 1)
         /\ Rank(Heads(iter), pos + 1) \in Nat
<1>1. /\ pos + 1 \in 1 .. Len(iter) /\ iter[pos + 1].row = lastRowKey
      /\ iter' = iter /\ pos' = pos + 1
  BY ScanCellFacts
<1>2. pos \in 0 .. Len(iter) /\ Scanned(iter) /\ Len(iter) \in Nat /\ pos' \in 0 .. Len(iter) /\ pos # Len(iter)
  BY <1>1, HeadsFacts DEF TypeInv
<1>3. Begun(iter, pos, lastRowKey) = Rank(Heads(iter), pos + 1) /\ Begun(iter, pos, lastRowKey) \in Nat
  BY <1>1, <1>2, BegunFacts
<1>4. CASE pos' # Len(iter) /\ iter[pos' + 1].row = lastRowKey
  <2>1. pos' + 1 \notin Heads(iter) /\ Rank(Heads(iter), pos' + 1) = Rank(Heads(iter), pos')
    BY <1>1, <1>2, <1>4, HeadsRank
  <2>2. Begun(iter, pos', lastRowKey) = Rank(Heads(iter), pos' + 1)
    BY <1>2, <1>4, BegunFacts
  <2> QED
    BY <1>1, <1>2, <1>3, <2>1, <2>2
<1>5. CASE ~(pos' # Len(iter) /\ iter[pos' + 1].row = lastRowKey)
  <2>1. Begun(iter, pos', lastRowKey) = Rank(Heads(iter), pos')
    BY <1>5 DEF Begun, Reach
  <2> QED
    BY <1>1, <1>2, <1>3, <2>1
<1> QED
  BY <1>4, <1>5

\* ScanCell keeps CountInv.
LEMMA CountScanCell == TypeInv /\ CountInv /\ ScanCell => CountInv'
<1> SUFFICES ASSUME TypeInv, CountInv, ScanCell PROVE CountInv'
  OBVIOUS
<1>1. /\ pos \in Nat /\ iter' = iter /\ pos' = pos + 1
      /\ Begun(iter, pos', lastRowKey) = Begun(iter, pos, lastRowKey)
  BY Inside
<1>2. /\ UNCHANGED <<req, range, iter, lastRowKey, rowStarted, rowCount, due>>
      /\ iter[pos + 1].row = lastRowKey /\ pc = "scan"
  BY ScanCellFacts
<1>3. pc' \in {"scan", "failed"}
  BY ScanCellFacts
<1>4. pos' # 0 /\ lastRowKey' = iter'[pos'].row
  BY <1>1, <1>2
<1>5. Base' = Base /\ Begun(iter', pos', lastRowKey') = Begun(iter, pos, lastRowKey)
  BY <1>1, <1>2 DEF Base
<1> QED
  BY <1>2, <1>3, <1>4, <1>5 DEF CountInv

\* EndRange keeps CountInv.
LEMMA CountEndRange == TypeInv /\ CountInv /\ EndRange => CountInv'
<1> SUFFICES ASSUME TypeInv, CountInv, EndRange PROVE CountInv'
  OBVIOUS
<1>1. /\ iter' = <<>> /\ pc' = "open" /\ UNCHANGED <<req, rowCount, due>>
      /\ range' = IF req.limit > 0 /\ rowCount >= req.limit THEN Len(req.ranges) + 1 ELSE range + 1
  BY DEF EndRange
<1>2. Cardinality(Heads(iter')) = 0 /\ Len(due) \in Nat /\ req.limit \in Nat /\ rowCount \in Nat /\ Len(req.ranges) \in Nat
  BY <1>1, HeadsEmpty, RequestFacts DEF TypeInv
<1>3. range' <= Len(req.ranges) /\ req.limit > 0 => rowCount < req.limit
  BY <1>1, <1>2
<1> QED
  BY <1>1, <1>2, <1>3 DEF CountInv

\* Finish keeps CountInv.
LEMMA CountFinish == TypeInv /\ CountInv /\ Finish => CountInv'
<1> SUFFICES ASSUME TypeInv, CountInv, Finish PROVE CountInv'
  OBVIOUS
<1>1. pc' \in {"done", "failed"} /\ UNCHANGED <<rowCount, iter, due>>
  BY DEF Finish, Flush
<1> QED
  BY <1>1 DEF CountInv

\* WriteRow keeps CountInv.
LEMMA CountWriteRow == ASSUME NEW r \in Rows PROVE TypeInv /\ CountInv /\ WriteRow(r) => CountInv'
BY DEF CountInv, WriteRow, scanVars, Base, AtEnd

\* Every step keeps CountInv.
LEMMA CountStep == TypeInv /\ CountInv /\ [Next]_vars => CountInv'
<1> SUFFICES ASSUME TypeInv, CountInv, [Next]_vars PROVE CountInv'
  OBVIOUS
<1>1. CASE UNCHANGED vars
  BY <1>1 DEF CountInv, vars, Base, AtEnd
<1> QED
  BY <1>1, CountOpenRange, CountSkipRange, CountNextRow, CountScanCell, CountEndRange, CountFinish,
     CountWriteRow DEF Next

-------------------------------------------------------------------------------
(* The rows that are due, and the row under way. *)

\* Every row that has begun is counted.
ExactInv ==
  ~spoiled =>
    /\ pc = "scan" =>
         IF rowStarted THEN rowCount = Base + Begun(iter, pos, lastRowKey)
         ELSE pos = 0 /\ rowCount = Base
    /\ pc \in {"open", "done"} =>
         rowCount = Len(due) \/ (range > Len(req.ranges) /\ req.limit > 0 /\ rowCount >= req.limit)

\* The row that begins at h, as due has it.
DueRow(h) == [row |-> iter[h].row, cells |-> At(iter, KeptIn(req.filter, iter, iter[h].row))]
\* The rows of the scan under way are the last ones of due.
TailInv == \A h \in Heads(iter) : due[Base + Rank(Heads(iter), h)] = DueRow(h)

\* How many rows have ended.
Ended == IF pc = "endRange" \/ (pc = "scan" /\ rowStarted) THEN rowCount - 1 ELSE Cap(rowCount)

\* The row under way is row number rowCount of due, and last_scanned_row_key is the row that was
\* ended last.
MarkInv ==
  ~spoiled /\ pc # "failed" =>
    /\ pc = "scan" /\ rowStarted =>
         /\ rowCount > 0
         /\ due[rowCount] = [row |-> lastRowKey, cells |-> At(iter, KeptIn(req.filter, iter, lastRowKey))]
    /\ lastScannedRowKey # NoRow => Ended \in 1 .. Len(due) /\ due[Ended].row = lastScannedRowKey
    /\ pc = "endRange" /\ rowStarted => lastScannedRowKey = lastRowKey

\* ExactInv, TailInv and MarkInv hold at the start of a call.
LEMMA ExactInit == Init => ExactInv /\ TailInv /\ MarkInv
<1> SUFFICES ASSUME Init PROVE ExactInv /\ TailInv /\ MarkInv
  OBVIOUS
<1>1. Heads(iter) = {} /\ Len(due) = 0 /\ rowCount = 0 /\ pc = "open" /\ lastScannedRowKey = NoRow
  BY HeadsEmpty DEF Init
<1> QED
  BY <1>1 DEF ExactInv, TailInv, MarkInv

\* What the start of a scan does.
LEMMA OpenRangeFacts ==
  ASSUME TypeInv, OpenRange
  PROVE  /\ iter' = Snapshot /\ Scanned(Snapshot) /\ pos' = 0 /\ ~rowStarted' /\ pc' = "scan"
         /\ due' = due \o Filtered(Snapshot) /\ due \in Seq(DueSet) /\ Filtered(Snapshot) \in Seq(DueSet)
         /\ Len(due) \in Nat /\ Base' = Len(due) /\ Len(due') = Len(due) + Cardinality(Heads(iter'))
         /\ Len(Filtered(Snapshot)) = Cardinality(Heads(iter')) /\ Cardinality(Heads(iter')) \in Nat
         /\ \A i \in 1 .. Len(due) : due'[i] = due[i]
         /\ UNCHANGED <<req, range, rowCount, lastScannedRowKey, chunkBuf, sent, spoiled>>
<1>1. Scanned(Snapshot) /\ iter' = Snapshot
  BY SnapshotScanned DEF TypeInv, OpenRange
<1> DEFINE x == Filtered(Snapshot)
<1>2. x \in Seq(DueSet) /\ Len(x) = Cardinality(Heads(iter')) /\ Cardinality(Heads(iter')) \in Nat
  BY <1>1, FilteredFacts, HeadsFacts DEF TypeInv
<1>3. due' = due \o x /\ due \in Seq(DueSet)
  BY DEF TypeInv, OpenRange
<1>4. /\ pos' = 0 /\ ~rowStarted' /\ pc' = "scan"
      /\ UNCHANGED <<req, range, rowCount, lastScannedRowKey, chunkBuf, sent, spoiled>>
  BY DEF OpenRange
<1> HIDE DEF x
<1>5. /\ Len(due') = Len(due) + Len(x) /\ Len(due) \in Nat /\ Len(x) \in Nat
      /\ \A i \in 1 .. Len(due) : due'[i] = due[i]
  BY <1>2, <1>3, ConcatLen
<1>6. Base' = Len(due)
  BY <1>2, <1>5 DEF Base
<1> QED
  BY <1>1, <1>2, <1>3, <1>4, <1>5, <1>6 DEF x

\* OpenRange keeps TailInv.
LEMMA TailOpenRange == TypeInv /\ OpenRange => TailInv'
<1> SUFFICES ASSUME TypeInv, OpenRange PROVE TailInv'
  OBVIOUS
<1> DEFINE s == Snapshot
           x == Filtered(Snapshot)
           H == Heads(Snapshot)
<1>1. /\ iter' = s /\ Scanned(s) /\ due' = due \o x /\ due \in Seq(DueSet) /\ x \in Seq(DueSet)
      /\ Base' = Len(due) /\ Len(x) = Cardinality(H) /\ req' = req
  BY OpenRangeFacts
<1>2. \A h \in H : /\ Rank(H, h) \in 1 .. Cardinality(H)
                   /\ x[Rank(H, h)] = [row |-> s[h].row, cells |-> At(s, KeptIn(req.filter, s, s[h].row))]
  BY <1>1, FilteredFacts DEF TypeInv
<1>3. \A i \in 1 .. Cardinality(H) : due'[Len(due) + i] = x[i]
  <2> HIDE DEF x, s, H
  <2> QED
    BY <1>1, ConcatLen
<1>4. \A h \in H : due'[Base' + Rank(H, h)] = [row |-> s[h].row, cells |-> At(s, KeptIn(req.filter, s, s[h].row))]
  <2> HIDE DEF x, s, H
  <2> QED
    BY <1>1, <1>2, <1>3
<1>5. \A h \in Heads(iter') : due'[Base' + Rank(Heads(iter'), h)] =
        [row |-> iter'[h].row, cells |-> At(iter', KeptIn(req'.filter, iter', iter'[h].row))]
  <2> HIDE DEF x, s
  <2> QED
    BY <1>1, <1>4 DEF s
<1> QED
  BY <1>5 DEF TailInv, DueRow

\* Every step keeps TailInv.
LEMMA TailStep == TypeInv /\ TailInv /\ [Next]_vars => TailInv'
<1> SUFFICES ASSUME TypeInv, TailInv, [Next]_vars PROVE TailInv'
  OBVIOUS
<1>1. CASE UNCHANGED <<iter, due, req>>
  BY <1>1 DEF TailInv, Base, DueRow
<1>2. CASE OpenRange
  BY <1>2, TailOpenRange
<1>3. CASE EndRange
  <2>1. Heads(iter') = {}
    BY <1>3, HeadsEmpty DEF EndRange
  <2> QED
    BY <2>1 DEF TailInv
<1>4. CASE SkipRange \/ NextRow \/ ScanCell \/ Finish \/ (\E r \in Rows : WriteRow(r)) \/ UNCHANGED vars
  <2>1. UNCHANGED <<iter, due, req>>
    BY <1>4 DEF SkipRange, NextRow, ScanCell, Finish, WriteRow, vars
  <2> QED
    BY <1>1, <2>1
<1> QED
  BY <1>2, <1>3, <1>4 DEF Next

\* The counts as numbers.
LEMMA Amounts ==
  ASSUME TypeInv, CountInv
  PROVE  /\ rowCount \in Nat /\ Len(due) \in Nat /\ rowCount <= Len(due) /\ req.limit \in Nat
         /\ Base \in Nat /\ Cardinality(Heads(iter)) \in Nat /\ Base + Cardinality(Heads(iter)) = Len(due)
         /\ Scanned(iter) /\ pos \in 0 .. Len(iter) /\ Len(iter) \in Nat
         /\ due \in Seq(DueSet) /\ Cap(rowCount) \in Nat /\ Cap(rowCount) <= rowCount
<1>1. rowCount \in Nat /\ Len(due) \in Nat /\ rowCount <= Len(due) /\ req.limit \in Nat
  BY RequestFacts DEF TypeInv, CountInv
<1>2. /\ Cardinality(Heads(iter)) \in Nat /\ Scanned(iter) /\ pos \in 0 .. Len(iter) /\ Len(iter) \in Nat
      /\ due \in Seq(DueSet)
  BY HeadsFacts DEF TypeInv
<1>3. Base \in Nat /\ Base + Cardinality(Heads(iter)) = Len(due)
  BY <1>1, <1>2 DEF Base, CountInv
<1>4. Cap(rowCount) \in Nat /\ Cap(rowCount) <= rowCount
  BY <1>1 DEF Cap
<1> QED
  BY <1>1, <1>2, <1>3, <1>4

\* OpenRange keeps ExactInv.
LEMMA ExactOpenRange == TypeInv /\ CountInv /\ ExactInv /\ OpenRange => ExactInv'
<1> SUFFICES ASSUME TypeInv, CountInv, ExactInv, OpenRange, ~spoiled PROVE ExactInv'
  BY OpenRangeFacts DEF ExactInv
<1>1. /\ pc' = "scan" /\ pos' = 0 /\ ~rowStarted' /\ rowCount' = rowCount /\ Base' = Len(due)
  BY OpenRangeFacts
<1>2. rowCount = Len(due)
  BY Amounts DEF ExactInv, OpenRange, TypeInv
<1> QED
  BY <1>1, <1>2 DEF ExactInv

\* NextRow keeps ExactInv.
LEMMA ExactNextRow == TypeInv /\ CountInv /\ ExactInv /\ NextRow => ExactInv'
<1> SUFFICES ASSUME TypeInv, CountInv, ExactInv, NextRow, ~spoiled' PROVE ExactInv'
  BY DEF ExactInv
<1>1. ~spoiled /\ pc = "scan" /\ UNCHANGED <<iter, pos, due, req, range>> /\ rowCount' = rowCount + 1
      /\ AtBoundary
  BY DEF NextRow, EndRow
<1>2. /\ pos \in Nat
      /\ Begun(iter, pos, lastRowKey) = Rank(Heads(iter), pos)
      /\ Begun(iter, pos, iter[pos + 1].row) = Rank(Heads(iter), pos) + 1
      /\ Rank(Heads(iter), pos) \in Nat
  BY <1>1, Boundary
<1>3. Rank(Heads(iter), 0) = 0 /\ Base \in Nat
  BY HeadsRank, Amounts
<1>4. rowCount = Base + Rank(Heads(iter), pos)
  BY <1>1, <1>2, <1>3 DEF ExactInv
<1>5. CASE LimitReached(rowCount + 1)
  BY <1>5 DEF NextRow, ExactInv
<1>6. CASE ~LimitReached(rowCount + 1)
  <2>1. pc' = "scan" /\ lastRowKey' = iter[pos + 1].row /\ rowStarted' = TRUE
    BY <1>1, <1>6 DEF NextRow
  <2>2. rowCount' = Base' + Begun(iter', pos', lastRowKey')
    BY <1>1, <1>2, <1>3, <1>4, <2>1 DEF Base
  <2> QED
    BY <2>1, <2>2 DEF ExactInv
<1> QED
  BY <1>5, <1>6

\* A row with a key.
LEMMA Keyed ==
  ASSUME TypeInv, CountInv, ScanCell, ~spoiled'
  PROVE  rowStarted /\ ~spoiled
<1>1. iter[pos + 1].row = lastRowKey /\ (spoiled \/ iter[pos + 1].row = EmptyKey => spoiled') /\ pc = "scan"
  BY ScanCellFacts
<1> QED
  BY <1>1 DEF CountInv, TypeInv

\* ScanCell keeps ExactInv.
LEMMA ExactScanCell == TypeInv /\ CountInv /\ ExactInv /\ ScanCell => ExactInv'
<1> SUFFICES ASSUME TypeInv, CountInv, ExactInv, ScanCell, ~spoiled' PROVE ExactInv'
  BY DEF ExactInv
<1>1. rowStarted /\ ~spoiled
  BY Keyed
<1>2. /\ pos \in Nat /\ iter' = iter /\ pos' = pos + 1
      /\ Begun(iter, pos', lastRowKey) = Begun(iter, pos, lastRowKey)
  BY Inside
<1>3. /\ UNCHANGED <<req, range, iter, lastRowKey, rowStarted, rowCount, due>> /\ pc = "scan"
  BY ScanCellFacts
<1>4. pc' \in {"scan", "failed"}
  BY ScanCellFacts
<1>5. rowCount = Base + Begun(iter, pos, lastRowKey)
  BY <1>1, <1>3 DEF ExactInv
<1>6. Base' = Base /\ Begun(iter', pos', lastRowKey') = Begun(iter, pos, lastRowKey)
  BY <1>2, <1>3 DEF Base
<1> QED
  BY <1>1, <1>3, <1>4, <1>5, <1>6 DEF ExactInv

\* EndRange keeps ExactInv.
LEMMA ExactEndRange == TypeInv /\ CountInv /\ ExactInv /\ EndRange => ExactInv'
<1> SUFFICES ASSUME TypeInv, CountInv, ExactInv, EndRange, ~spoiled' PROVE ExactInv'
  BY DEF ExactInv
<1>1. /\ pc' = "open" /\ UNCHANGED <<req, rowCount, due>> /\ ~spoiled
      /\ range' = IF req.limit > 0 /\ rowCount >= req.limit THEN Len(req.ranges) + 1 ELSE range + 1
      /\ pc = "endRange" \/ (pc = "scan" /\ AtEnd)
  BY DEF EndRange, EndRow
<1>2. /\ Scanned(iter) /\ Len(iter) \in Nat /\ pos \in 0 .. Len(iter) /\ rowCount \in Nat /\ req.limit \in Nat
      /\ Base + Cardinality(Heads(iter)) = Len(due) /\ Base \in Nat /\ Cardinality(Heads(iter)) \in Nat
  BY Amounts
<1>3. CASE pc = "endRange"
  <2>1. req.limit > 0 /\ rowCount = req.limit + 1 /\ Len(req.ranges) \in Nat
    BY <1>3, RequestFacts DEF CountInv, TypeInv
  <2>2. range' > Len(req.ranges') /\ req'.limit > 0 /\ rowCount' >= req'.limit
    BY <1>1, <1>2, <2>1
  <2> QED
    BY <1>1, <2>2 DEF ExactInv
<1>4. CASE pc = "scan" /\ AtEnd
  <2>1. pos = Len(iter)
    BY <1>4 DEF AtEnd
  <2>2. CASE rowStarted
    <3>1. rowCount = Base + Begun(iter, pos, lastRowKey) /\ Begun(iter, pos, lastRowKey) = Cardinality(Heads(iter))
      BY <1>1, <1>2, <1>4, <2>1, <2>2, BegunFacts DEF ExactInv
    <3> QED
      BY <1>1, <1>2, <3>1 DEF ExactInv
  <2>3. CASE ~rowStarted
    <3>1. rowCount = Base /\ pos = 0
      BY <1>1, <1>4, <2>3 DEF ExactInv
    <3>2. Cardinality(Heads(iter)) = 0
      <4>1. Rank(Heads(iter), 0) = 0 /\ Rank(Heads(iter), Len(iter)) = Cardinality(Heads(iter))
        BY <1>2, HeadsRank
      <4>2. Len(iter) = 0
        BY <2>1, <3>1
      <4> QED
        BY <4>1, <4>2
    <3>3. rowCount' = Len(due')
      BY <1>1, <1>2, <3>1, <3>2
    <3> QED
      BY <1>1, <3>3 DEF ExactInv
  <2> QED
    BY <2>2, <2>3
<1> QED
  BY <1>1, <1>3, <1>4

\* Finish keeps ExactInv.
LEMMA ExactFinish == ExactInv /\ Finish => ExactInv'
<1> SUFFICES ASSUME ExactInv, Finish PROVE ExactInv'
  OBVIOUS
<1>1. /\ pc = "open" /\ pc' \in {"done", "failed"} /\ UNCHANGED <<rowCount, due, spoiled, range, req>>
  BY DEF Finish, Flush
<1> QED
  BY <1>1 DEF ExactInv

\* SkipRange keeps ExactInv.
LEMMA ExactSkipRange == SkipRange => ExactInv'
BY DEF SkipRange, ExactInv

\* Every step keeps ExactInv.
LEMMA ExactStep == TypeInv /\ CountInv /\ ExactInv /\ [Next]_vars => ExactInv'
<1> SUFFICES ASSUME TypeInv, CountInv, ExactInv, [Next]_vars PROVE ExactInv'
  OBVIOUS
<1>1. CASE UNCHANGED vars
  BY <1>1 DEF ExactInv, vars, Base
<1>2. CASE \E r \in Rows : WriteRow(r)
  BY <1>2 DEF ExactInv, WriteRow, scanVars, Base
<1> QED
  BY <1>1, <1>2, ExactOpenRange, ExactSkipRange, ExactNextRow, ExactScanCell, ExactEndRange, ExactFinish DEF Next

-------------------------------------------------------------------------------
(* The row under way, step by step. *)

\* What the end of a row leaves behind.
LEMMA RowEnded ==
  ASSUME TypeInv, CountInv, MarkInv, EndRow, ~spoiled', pc = "scan"
  PROVE  /\ ~spoiled
         /\ lastScannedRowKey' # NoRow => rowCount \in 1 .. Len(due) /\ due[rowCount].row = lastScannedRowKey'
         /\ rowStarted => lastScannedRowKey' = lastRowKey
<1>1. /\ ~spoiled /\ lastScannedRowKey' = IF rowStarted THEN lastRowKey ELSE lastScannedRowKey
  BY DEF EndRow
<1>2. rowCount \in Nat /\ Len(due) \in Nat /\ rowCount <= Len(due) /\ req.limit \in Nat
  BY Amounts
<1>3. CASE rowStarted
  <2>1. /\ rowCount > 0
        /\ due[rowCount] = [row |-> lastRowKey, cells |-> At(iter, KeptIn(req.filter, iter, lastRowKey))]
    BY <1>1, <1>3 DEF MarkInv
  <2>2. due[rowCount].row = lastRowKey
    BY <2>1
  <2> QED
    BY <1>1, <1>2, <1>3, <2>1, <2>2
<1>4. CASE ~rowStarted
  <2>1. req.limit > 0 => rowCount <= req.limit
    BY DEF CountInv
  <2>2. Ended = rowCount
    BY <1>2, <1>4, <2>1 DEF Ended, Cap
  <2>3. lastScannedRowKey # NoRow => Ended \in 1 .. Len(due) /\ due[Ended].row = lastScannedRowKey
    BY <1>1 DEF MarkInv
  <2> QED
    BY <1>1, <1>4, <2>2, <2>3
<1> QED
  BY <1>3, <1>4

\* OpenRange keeps MarkInv.
LEMMA MarkOpenRange == TypeInv /\ CountInv /\ MarkInv /\ OpenRange => MarkInv'
<1> SUFFICES ASSUME TypeInv, CountInv, MarkInv, OpenRange, ~spoiled PROVE MarkInv'
  BY OpenRangeFacts DEF MarkInv
<1>1. /\ pc' = "scan" /\ ~rowStarted' /\ UNCHANGED <<req, rowCount, lastScannedRowKey, spoiled>>
      /\ Len(due) \in Nat /\ Cardinality(Heads(iter')) \in Nat /\ Len(due') = Len(due) + Cardinality(Heads(iter'))
      /\ \A i \in 1 .. Len(due) : due'[i] = due[i]
  BY OpenRangeFacts
<1>2. pc = "open" /\ Ended' = Ended
  BY <1>1 DEF Ended, Cap, OpenRange
<1>3. lastScannedRowKey # NoRow => Ended \in 1 .. Len(due) /\ due[Ended].row = lastScannedRowKey
  BY <1>2 DEF MarkInv
<1>4. lastScannedRowKey' # NoRow => Ended' \in 1 .. Len(due') /\ due'[Ended'].row = lastScannedRowKey'
  <2> HIDE DEF Ended
  <2> QED
    BY <1>1, <1>2, <1>3
<1> QED
  BY <1>1, <1>4 DEF MarkInv

\* The row that begins is the next one of due.
LEMMA RowBegins ==
  ASSUME TypeInv, CountInv, ExactInv, TailInv, ~spoiled, pc = "scan", AtBoundary
  PROVE  /\ rowCount + 1 \in 1 .. Len(due)
         /\ due[rowCount + 1] = DueRow(pos + 1)
<1>1. /\ pos \in Nat /\ pos + 1 \in Heads(iter) /\ pos < Len(iter)
      /\ Begun(iter, pos, lastRowKey) = Rank(Heads(iter), pos)
      /\ Begun(iter, pos, iter[pos + 1].row) = Rank(Heads(iter), pos) + 1
      /\ Rank(Heads(iter), pos) \in Nat
  BY Boundary
<1>2. /\ rowCount \in Nat /\ Base \in Nat /\ Cardinality(Heads(iter)) \in Nat
      /\ Base + Cardinality(Heads(iter)) = Len(due) /\ Scanned(iter) /\ Len(iter) \in Nat
  BY Amounts
<1>3. /\ Rank(Heads(iter), 0) = 0 /\ Rank(Heads(iter), pos + 1) = Rank(Heads(iter), pos) + 1
  BY <1>1, <1>2, HeadsRank
<1>4. rowCount = Base + Rank(Heads(iter), pos)
  BY <1>1, <1>2, <1>3 DEF ExactInv
<1>5. Rank(Heads(iter), pos + 1) \in 1 .. Cardinality(Heads(iter))
  BY <1>1, <1>2, HeadsFacts, AtShape
<1>6. due[Base + Rank(Heads(iter), pos + 1)] = DueRow(pos + 1)
  BY <1>1 DEF TailInv
<1>7. rowCount + 1 = Base + Rank(Heads(iter), pos + 1)
  BY <1>1, <1>2, <1>3, <1>4
<1> QED
  BY <1>2, <1>5, <1>6, <1>7

\* NextRow keeps MarkInv.
LEMMA MarkNextRow == TypeInv /\ CountInv /\ ExactInv /\ TailInv /\ MarkInv /\ NextRow => MarkInv'
<1> SUFFICES ASSUME TypeInv, CountInv, ExactInv, TailInv, MarkInv, NextRow, ~spoiled' PROVE MarkInv'
  BY DEF MarkInv
<1>1. /\ EndRow /\ pc = "scan" /\ AtBoundary /\ UNCHANGED <<iter, pos, due, req>> /\ rowCount' = rowCount + 1
  BY DEF NextRow
<1>2. /\ ~spoiled
      /\ lastScannedRowKey' # NoRow => rowCount \in 1 .. Len(due) /\ due[rowCount].row = lastScannedRowKey'
      /\ rowStarted => lastScannedRowKey' = lastRowKey
  BY <1>1, RowEnded
<1>3. rowCount + 1 \in 1 .. Len(due) /\ due[rowCount + 1] = DueRow(pos + 1)
  BY <1>1, <1>2, RowBegins
<1>4. rowCount \in Nat
  BY Amounts
<1>5. CASE LimitReached(rowCount + 1)
  <2>1. pc' = "endRange" /\ UNCHANGED <<lastRowKey, rowStarted>>
    BY <1>5 DEF NextRow
  <2>2. Ended' = rowCount
    BY <1>1, <1>4, <2>1 DEF Ended
  <2>3. lastScannedRowKey' # NoRow => Ended' \in 1 .. Len(due') /\ due'[Ended'].row = lastScannedRowKey'
    BY <1>1, <1>2, <2>2
  <2> QED
    BY <1>2, <2>1, <2>3 DEF MarkInv
<1>6. CASE ~LimitReached(rowCount + 1)
  <2>1. pc' = "scan" /\ lastRowKey' = iter[pos + 1].row /\ rowStarted' = TRUE
    BY <1>1, <1>6 DEF NextRow
  <2>2. Ended' = rowCount
    BY <1>1, <1>4, <2>1 DEF Ended
  <2>3. lastScannedRowKey' # NoRow => Ended' \in 1 .. Len(due') /\ due'[Ended'].row = lastScannedRowKey'
    BY <1>1, <1>2, <2>2
  <2>4. due'[rowCount'] = [row |-> lastRowKey', cells |-> At(iter', KeptIn(req'.filter, iter', lastRowKey'))]
    BY <1>1, <1>3, <2>1 DEF DueRow
  <2>5. rowCount' > 0
    BY <1>1, <1>4
  <2> QED
    BY <2>1, <2>3, <2>4, <2>5 DEF MarkInv
<1> QED
  BY <1>5, <1>6

\* ScanCell keeps MarkInv.
LEMMA MarkScanCell == TypeInv /\ CountInv /\ MarkInv /\ ScanCell => MarkInv'
<1> SUFFICES ASSUME TypeInv, CountInv, MarkInv, ScanCell, ~spoiled' PROVE MarkInv'
  BY DEF MarkInv
<1>1. rowStarted /\ ~spoiled
  BY Keyed
<1>2. /\ UNCHANGED <<req, range, iter, lastRowKey, rowStarted, rowCount, lastScannedRowKey, due>> /\ pc = "scan"
  BY ScanCellFacts
<1>3. pc' \in {"scan", "failed"}
  BY ScanCellFacts
<1>4. pc' = "scan" => Ended' = Ended
  BY <1>2 DEF Ended, Cap
<1> HIDE DEF Ended
<1> QED
  BY <1>1, <1>2, <1>3, <1>4 DEF MarkInv

\* EndRange keeps MarkInv.
LEMMA MarkEndRange == TypeInv /\ CountInv /\ MarkInv /\ EndRange => MarkInv'
<1> SUFFICES ASSUME TypeInv, CountInv, MarkInv, EndRange, ~spoiled' PROVE MarkInv'
  BY DEF MarkInv
<1>1. /\ EndRow /\ pc' = "open" /\ UNCHANGED <<req, rowCount, due, lastRowKey, rowStarted>>
      /\ pc = "endRange" \/ pc = "scan"
  BY DEF EndRange
<1>2. rowCount \in Nat /\ Len(due) \in Nat /\ rowCount <= Len(due) /\ req.limit \in Nat
  BY Amounts
<1>3. Ended' = Cap(rowCount)
  BY <1>1 DEF Ended, Cap
<1>4. CASE pc = "scan"
  <2>1. /\ ~spoiled
        /\ lastScannedRowKey' # NoRow => rowCount \in 1 .. Len(due) /\ due[rowCount].row = lastScannedRowKey'
    BY <1>1, <1>4, RowEnded
  <2>2. req.limit > 0 => rowCount <= req.limit
    BY <1>4 DEF CountInv
  <2>3. Cap(rowCount) = rowCount
    BY <1>2, <2>2 DEF Cap
  <2>4. lastScannedRowKey' # NoRow => Ended' \in 1 .. Len(due') /\ due'[Ended'].row = lastScannedRowKey'
    BY <1>1, <1>3, <2>1, <2>3
  <2> QED
    BY <1>1, <2>4 DEF MarkInv
<1>5. CASE pc = "endRange"
  <2>1. req.limit > 0 /\ rowCount = req.limit + 1
    BY <1>5 DEF CountInv
  <2>2. Ended = rowCount - 1 /\ Cap(rowCount) = rowCount - 1
    BY <1>2, <1>5, <2>1 DEF Ended, Cap
  <2>3. ~spoiled /\ lastScannedRowKey' = IF rowStarted THEN lastRowKey ELSE lastScannedRowKey
    BY <1>1 DEF EndRow
  <2>4. /\ lastScannedRowKey # NoRow => Ended \in 1 .. Len(due) /\ due[Ended].row = lastScannedRowKey
        /\ rowStarted => lastScannedRowKey = lastRowKey
    BY <1>5, <2>3 DEF MarkInv
  <2>5. lastScannedRowKey' = lastScannedRowKey
    BY <2>3, <2>4
  <2>6. lastScannedRowKey' # NoRow => Ended' \in 1 .. Len(due') /\ due'[Ended'].row = lastScannedRowKey'
    BY <1>1, <1>3, <2>2, <2>4, <2>5
  <2> QED
    BY <1>1, <2>6 DEF MarkInv
<1> QED
  BY <1>1, <1>4, <1>5

\* Finish keeps MarkInv.
LEMMA MarkFinish == MarkInv /\ Finish => MarkInv'
<1> SUFFICES ASSUME MarkInv, Finish PROVE MarkInv'
  OBVIOUS
<1>1. /\ pc = "open" /\ pc' \in {"done", "failed"}
      /\ UNCHANGED <<rowCount, due, spoiled, lastScannedRowKey, req>>
  BY DEF Finish, Flush
<1>2. Ended' = Ended
  BY <1>1 DEF Ended, Cap
<1> HIDE DEF Ended
<1> QED
  BY <1>1, <1>2 DEF MarkInv

\* MarkInv depends on these variables only.
LEMMA MarkSame ==
  MarkInv /\ UNCHANGED <<req, pc, iter, lastRowKey, rowStarted, rowCount, lastScannedRowKey, due, spoiled>> => MarkInv'
BY DEF MarkInv, Ended, Cap

\* Every step keeps MarkInv.
LEMMA MarkStep == TypeInv /\ CountInv /\ ExactInv /\ TailInv /\ MarkInv /\ [Next]_vars => MarkInv'
<1> SUFFICES ASSUME TypeInv, CountInv, ExactInv, TailInv, MarkInv, [Next]_vars PROVE MarkInv'
  OBVIOUS
<1>1. CASE UNCHANGED vars \/ \E r \in Rows : WriteRow(r)
  <2>1. UNCHANGED <<req, pc, iter, lastRowKey, rowStarted, rowCount, lastScannedRowKey, due, spoiled>>
    BY <1>1 DEF vars, WriteRow, scanVars
  <2> QED
    BY <2>1, MarkSame
<1>2. CASE SkipRange
  BY <1>2 DEF SkipRange, MarkInv
<1> QED
  BY <1>1, <1>2, MarkOpenRange, MarkNextRow, MarkScanCell, MarkEndRange, MarkFinish DEF Next

-------------------------------------------------------------------------------
(* The evaluator has seen the cells of the row under way. *)

\* The evaluator has seen the cells of the row under way.
RunInv ==
  pc = "scan" /\ rowStarted =>
    \E st : IsRun(MaxDepth, req.filter, iter, RowIn(iter, lastRowKey), st) /\ eval = st[pos]

\* The positions in I lie after p.
Ahead(I, p) == \A i \in 1 .. p : i \notin I

\* A run does not move before its first cell.
LEMMA RunWaits ==
  ASSUME NEW f, NEW s \in Seq(Cells), NEW I, NEW st, NEW p,
         IsRun(MaxDepth, f, s, I, st), p \in 0 .. Len(s), Ahead(I, p)
  PROVE  st[p] = f
<1> DEFINE Q == {i \in Nat : i <= p => st[i] = f}
<1>1. 0 \in Q
  BY DEF IsRun
<1>2. ASSUME NEW i \in Nat, i \in Q PROVE i + 1 \in Q
  <2> SUFFICES ASSUME i + 1 <= p PROVE st[i + 1] = f
    OBVIOUS
  <2>1. i + 1 \in 1 .. p /\ i + 1 \in 1 .. Len(s) /\ (i + 1) - 1 = i /\ st[i] = f
    BY <1>2
  <2>2. st[i + 1] = st[(i + 1) - 1]
    BY <2>1 DEF IsRun, Ahead
  <2> QED
    BY <2>1, <2>2
<1> HIDE DEF Q
<1>3. \A i \in Nat : i \in Q
  BY <1>1, <1>2, UpInduction
<1>4. p \in Q
  BY <1>3
<1> QED
  BY <1>4 DEF Q

\* Nothing of a row that begins lies behind the iterator.
LEMMA NewRow ==
  ASSUME TypeInv, CountInv, pc = "scan", AtBoundary
  PROVE  /\ pos \in Nat /\ pos < Len(iter) /\ iter[pos + 1].row \in Rows
         /\ Ahead(RowIn(iter, iter[pos + 1].row), pos)
<1>1. /\ pos \in Nat /\ pos < Len(iter) /\ (pos # 0 => lastRowKey = iter[pos].row)
  BY Boundary
<1>2. iter[pos + 1].row # lastRowKey
  BY DEF AtBoundary
<1>3. Scanned(iter) /\ DOMAIN iter = 1 .. Len(iter) /\ Len(iter) \in Nat
  BY HeadsFacts DEF TypeInv
<1>4. iter[pos + 1].row \in Rows
  BY <1>1, <1>3 DEF Scanned
<1>5. ASSUME NEW i \in 1 .. pos, iter[i].row = iter[pos + 1].row PROVE FALSE
  <2>1. i \in DOMAIN iter /\ pos \in DOMAIN iter /\ pos + 1 \in DOMAIN iter /\ pos # 0
    BY <1>1, <1>3
  <2>2. CASE i = pos
    BY <1>1, <1>2, <1>5, <2>1, <2>2
  <2>3. CASE i # pos
    <3>1. i < pos /\ pos < pos + 1
      BY <1>1, <2>3
    <3>2. iter[pos].row = iter[i].row
      BY <1>3, <1>5, <2>1, <3>1 DEF Scanned
    <3> QED
      BY <1>1, <1>2, <1>5, <2>1, <3>2
  <2> QED
    BY <2>2, <2>3
<1>6. Ahead(RowIn(iter, iter[pos + 1].row), pos)
  BY <1>5 DEF RowIn, Ahead
<1> QED
  BY <1>1, <1>4, <1>6

\* RunInv holds at the start of a call.
LEMMA RunInit == Init => RunInv
BY DEF Init, RunInv

\* NextRow keeps RunInv.
LEMMA RunNextRow == TypeInv /\ CountInv /\ NextRow => RunInv'
<1> SUFFICES ASSUME TypeInv, CountInv, NextRow PROVE RunInv'
  OBVIOUS
<1>1. CASE LimitReached(rowCount + 1)
  BY <1>1 DEF NextRow, RunInv
<1>2. CASE ~LimitReached(rowCount + 1)
  <2>1. /\ pc = "scan" /\ AtBoundary /\ UNCHANGED <<iter, pos, req>>
        /\ eval' = Reset(eval) /\ lastRowKey' = iter[pos + 1].row
    BY <1>2 DEF NextRow
  <2> DEFINE I == RowIn(iter, iter[pos + 1].row)
             f == req.filter
  <2>2. /\ f \in Trees[MaxDepth] /\ MaxDepth \in Depths /\ Reset(eval) = f
        /\ iter \in Seq(Cells) /\ pos \in 0 .. Len(iter)
    BY RequestFacts, EvaluatorFacts, HeadsFacts DEF TypeInv
  <2>3. Ahead(I, pos)
    BY <2>1, NewRow
  <2> HIDE DEF I, f
  <2>4. PICK st : IsRun(MaxDepth, f, iter, I, st)
    BY <2>2, RunExists
  <2>5. st[pos] = f
    <3>1. iter \in Seq(Cells) /\ pos \in 0 .. Len(iter) /\ Ahead(I, pos) /\ IsRun(MaxDepth, f, iter, I, st)
      BY <2>2, <2>3, <2>4
    <3> QED
      BY <3>1, RunWaits
  <2>6. IsRun(MaxDepth, req'.filter, iter', RowIn(iter', lastRowKey'), st) /\ eval' = st[pos']
    BY <2>1, <2>2, <2>4, <2>5 DEF I, f
  <2> QED
    BY <2>6 DEF RunInv
<1> QED
  BY <1>1, <1>2

\* ScanCell keeps RunInv.
LEMMA RunScanCell == TypeInv /\ RunInv /\ ScanCell => RunInv'
<1> SUFFICES ASSUME TypeInv, RunInv, ScanCell, rowStarted PROVE RunInv'
  BY ScanCellFacts DEF RunInv
<1>1. /\ pos + 1 \in 1 .. Len(iter) /\ iter[pos + 1].row = lastRowKey /\ pc = "scan" /\ pos' = pos + 1
      /\ eval' = Evaluate(eval, iter[pos + 1]).e /\ UNCHANGED <<iter, req, lastRowKey>>
  BY ScanCellFacts
<1>2. PICK st : IsRun(MaxDepth, req.filter, iter, RowIn(iter, lastRowKey), st) /\ eval = st[pos]
  BY <1>1 DEF RunInv
<1>3. pos + 1 \in RowIn(iter, lastRowKey) /\ (pos + 1) - 1 = pos
  BY <1>1, HeadsFacts DEF RowIn, TypeInv
<1>4. st[pos + 1] = EvaluateTo[MaxDepth][st[pos]][iter[pos + 1]].e
  BY <1>1, <1>2, <1>3 DEF IsRun
<1>5. IsRun(MaxDepth, req'.filter, iter', RowIn(iter', lastRowKey'), st) /\ eval' = st[pos']
  BY <1>1, <1>2, <1>4 DEF Evaluate
<1> QED
  BY <1>5 DEF RunInv

\* Every step keeps RunInv.
LEMMA RunStep == TypeInv /\ CountInv /\ RunInv /\ [Next]_vars => RunInv'
<1> SUFFICES ASSUME TypeInv, CountInv, RunInv, [Next]_vars PROVE RunInv'
  OBVIOUS
<1>1. CASE SkipRange \/ (\E r \in Rows : WriteRow(r)) \/ UNCHANGED vars
  BY <1>1 DEF RunInv, SkipRange, WriteRow, vars, scanVars
<1>2. CASE OpenRange
  BY <1>2 DEF RunInv, OpenRange
<1>3. CASE EndRange
  BY <1>3 DEF RunInv, EndRange
<1>4. CASE Finish
  BY <1>4 DEF RunInv, Finish, Flush
<1> QED
  BY <1>1, <1>2, <1>3, <1>4, RunNextRow, RunScanCell DEF Next

\* What the filter leaves of the row under way, up to the iterator.
KeptTo(p) == {i \in KeptIn(req.filter, iter, lastRowKey) : i <= p}

\* The answer of the filter is what it means.
LEMMA FilterAnswer ==
  ASSUME TypeInv, RunInv, ScanCell, rowStarted, Plain(req.filter)
  PROVE  Evaluate(eval, iter[pos + 1]).ok <=> pos + 1 \in KeptIn(req.filter, iter, lastRowKey)
<1> DEFINE I == RowIn(iter, lastRowKey)
           f == req.filter
           n == MaxDepth
<1>1. /\ pos + 1 \in 1 .. Len(iter) /\ iter[pos + 1].row = lastRowKey /\ pc = "scan"
  BY ScanCellFacts
<1>2. PICK st : IsRun(n, f, iter, I, st) /\ eval = st[pos]
  BY <1>1 DEF RunInv
<1>3. pos + 1 \in I /\ (pos + 1) - 1 = pos
  BY <1>1, HeadsFacts DEF RowIn, TypeInv
<1>4. /\ f \in Evaluators /\ f \in Trees[n] /\ n \in Depths /\ ResetTo[n][f] = f /\ PlainTo[n][f]
      /\ iter \in Seq(Cells) /\ DOMAIN iter = 1 .. Len(iter) /\ Scanned(iter)
  BY RequestFacts, EvaluatorFacts, HeadsFacts DEF TypeInv, Plain, Reset
<1>5. I \subseteq DOMAIN iter /\ OneRow(iter, I)
  BY <1>4, KeptFacts
<1> HIDE DEF I, f
<1>6. ExactOn(n, f, iter)
  BY <1>4, FilterExact
<1>7. Case(n, f, iter, I, st)
  BY <1>2, <1>5 DEF Case
<1>8. Passed(n, iter, I, st) = RefTo[n][f][iter][I]
  BY <1>6, <1>7 DEF ExactOn
<1>9. pos + 1 \in Passed(n, iter, I, st) <=> EvaluateTo[n][st[pos]][iter[pos + 1]].ok
  BY <1>3 DEF Passed
<1>10. KeptIn(f, iter, lastRowKey) = RefTo[n][f][iter][I]
  BY DEF KeptIn, RefFilter, I
<1> QED
  BY <1>2, <1>8, <1>9, <1>10 DEF Evaluate, f

-------------------------------------------------------------------------------
(* What the client has, with the buffer. *)

\* The client's state if the buffer was sent now.
Taken == Received(Chunks(sent) \o chunkBuf)

\* The last chunk on the stream is one of the row under way and does not commit it.
Hanging ==
  /\ sent # <<>>
  /\ \E i \in DOMAIN Last(sent).chunks : Last(sent).chunks[i].cell.row = lastRowKey
  /\ ~Last(Last(sent).chunks).commit

\* What RowsExact and ResumeSafe promise is promised still.
Promised == Plain(req.filter) /\ ~spoiled /\ pc # "failed"

\* The client has the rows that have ended, and the cells of the row under way.
ClientInv ==
  Promised =>
    /\ Taken.ok
    /\ Taken.rows = ShownBy(req.filter, due, Ended)
    /\ Taken.cells = IF pc = "scan" /\ rowStarted THEN ShowBy(req.filter, At(iter, KeptTo(pos))) ELSE <<>>
    /\ Taken.cells # <<>> => Taken.parts = Last(Taken.cells).parts
    /\ chunkBuf # <<>> => IF Last(chunkBuf).commit THEN Taken.cells = <<>>
                          ELSE Taken.cells # <<>> /\ Taken.parts = Last(chunkBuf).cell.parts
    /\ chunkBuf = <<>> /\ Taken.cells # <<>> => Hanging

-------------------------------------------------------------------------------

\* No response, no chunk.
LEMMA ChunksEmpty == Chunks(<<>>) = <<>>
<1>1. [i \in DOMAIN <<>> |-> <<>>[i].chunks] = <<>>
  OBVIOUS
<1> QED
  BY <1>1, FlattenEmpty DEF Chunks

\* The parts of a response.
LEMMA ResponseFacts ==
  ASSUME NEW x \in ResponseSet
  PROVE  x.chunks \in Seq(ChunkSet) /\ x.last \in Rows \cup {NoRow}
BY DEF ResponseSet

\* The chunks of the responses, one sequence each.
Parcels(s) == [i \in DOMAIN s |-> s[i].chunks]

\* The chunks of the responses, response by response.
LEMMA ParcelFacts ==
  ASSUME NEW s \in Seq(ResponseSet)
  PROVE  /\ Parcels(s) \in Seq(Seq(ChunkSet)) /\ Len(Parcels(s)) = Len(s)
         /\ \A i \in 1 .. Len(s) : Parcels(s)[i] = s[i].chunks
<1>1. Len(s) \in Nat /\ DOMAIN s = 1 .. Len(s) /\ \A i \in 1 .. Len(s) : s[i] \in ResponseSet
  OBVIOUS
<1>2. \A i \in 1 .. Len(s) : s[i].chunks \in Seq(ChunkSet)
  BY <1>1, ResponseFacts
<1>3. Parcels(s) = [i \in 1 .. Len(s) |-> s[i].chunks]
  BY <1>1 DEF Parcels
<1>4. Parcels(s) \in [1 .. Len(s) -> Seq(ChunkSet)]
  BY <1>2, <1>3
<1> QED
  BY <1>1, <1>3, <1>4, FunctionIsSeq

\* One more response.
LEMMA ParcelsAppend ==
  ASSUME NEW s \in Seq(ResponseSet), NEW x \in ResponseSet
  PROVE  Parcels(Append(s, x)) = Append(Parcels(s), x.chunks)
<1> DEFINE a == Parcels(Append(s, x))
           b == Append(Parcels(s), x.chunks)
           m == Len(s)
           t == Append(s, x)
<1>1. t \in Seq(ResponseSet) /\ Len(t) = m + 1 /\ m \in Nat /\ (\A i \in 1 .. m : t[i] = s[i]) /\ t[m + 1] = x
  OBVIOUS
<1> HIDE DEF t
<1>2. Parcels(t) \in Seq(Seq(ChunkSet)) /\ Len(Parcels(t)) = m + 1
      /\ \A i \in 1 .. m + 1 : Parcels(t)[i] = t[i].chunks
  BY <1>1, ParcelFacts
<1>3. Parcels(s) \in Seq(Seq(ChunkSet)) /\ Len(Parcels(s)) = m /\ \A i \in 1 .. m : Parcels(s)[i] = s[i].chunks
  BY ParcelFacts
<1>4. x.chunks \in Seq(ChunkSet)
  BY ResponseFacts
<1>5. /\ b \in Seq(Seq(ChunkSet)) /\ Len(b) = m + 1 /\ b[m + 1] = x.chunks
      /\ \A i \in 1 .. m : b[i] = Parcels(s)[i]
  BY <1>1, <1>3, <1>4
<1>6. a = Parcels(t)
  BY DEF t
<1> HIDE DEF a, b, m
<1>7. ASSUME NEW i \in 1 .. m + 1 PROVE a[i] = b[i]
  <2>1. CASE i = m + 1
    BY <1>1, <1>2, <1>5, <1>6, <2>1
  <2>2. CASE i # m + 1
    <3>1. i \in 1 .. m
      BY <1>1, <2>2
    <3> QED
      BY <1>1, <1>2, <1>3, <1>5, <1>6, <3>1
  <2> QED
    BY <2>1, <2>2
<1>8. a = b
  BY <1>2, <1>5, <1>6, <1>7, SeqEqual
<1> QED
  BY <1>8 DEF a, b

\* FlattenSeq puts sequences of S together to one.
LEMMA FlattenType ==
  ASSUME NEW S
  PROVE  \A ss \in Seq(Seq(S)) : FlattenSeq(ss) \in Seq(S)
<1> DEFINE Q == {n \in Nat : \A ss \in Seq(Seq(S)) : Len(ss) = n => FlattenSeq(ss) \in Seq(S)}
<1>1. 0 \in Q
  <2>1. ASSUME NEW ss \in Seq(Seq(S)), Len(ss) = 0 PROVE FlattenSeq(ss) \in Seq(S)
    <3>1. ss = <<>>
      BY <2>1
    <3>2. FlattenSeq(ss) = <<>> /\ <<>> \in Seq(S)
      BY <3>1, FlattenEmpty
    <3> QED
      BY <3>2
  <2> QED
    BY <2>1
<1>2. ASSUME NEW n \in Nat, n \in Q PROVE n + 1 \in Q
  <2>1. ASSUME NEW ss \in Seq(Seq(S)), Len(ss) = n + 1 PROVE FlattenSeq(ss) \in Seq(S)
    <3> DEFINE T == Seq(S)
    <3>0. ss \in Seq(T) /\ ss # <<>>
      BY <2>1
    <3> HIDE DEF T
    <3>1. Last(ss) \in T /\ \E f \in Seq(T) : Len(f) = Len(ss) - 1 /\ ss = Append(f, Last(ss))
      BY <3>0, FrontLast
    <3>2. PICK f \in Seq(T) : Len(f) = Len(ss) - 1 /\ ss = Append(f, Last(ss))
      BY <3>1
    <3>3. Len(f) = n
      BY <2>1, <3>2
    <3>4. FlattenSeq(f) \in Seq(S)
      BY <1>2, <3>2, <3>3 DEF T
    <3>5. FlattenSeq(ss) = FlattenSeq(f) \o Last(ss)
      <4>1. FlattenSeq(Append(f, Last(ss))) = FlattenSeq(f) \o Last(ss)
        BY <3>1, <3>2, FlattenAppend DEF T
      <4> QED
        BY <3>2, <4>1
    <3>6. Last(ss) \in Seq(S)
      BY <3>1 DEF T
    <3> QED
      BY <3>4, <3>5, <3>6
  <2> QED
    BY <2>1
<1> HIDE DEF Q
<1>3. \A n \in Nat : n \in Q
  BY <1>1, <1>2, UpInduction
<1>4. ASSUME NEW ss \in Seq(Seq(S)) PROVE FlattenSeq(ss) \in Seq(S)
  <2>1. Len(ss) \in Q
    BY <1>3
  <2> QED
    BY <2>1 DEF Q
<1> QED
  BY <1>4

\* The chunks of the next response come last.
LEMMA ChunksFacts ==
  ASSUME NEW s \in Seq(ResponseSet)
  PROVE  /\ Chunks(s) \in Seq(ChunkSet)
         /\ \A x \in ResponseSet : Chunks(Append(s, x)) = Chunks(s) \o x.chunks
<1>1. Chunks(s) = FlattenSeq(Parcels(s)) /\ Parcels(s) \in Seq(Seq(ChunkSet))
  BY ParcelFacts DEF Chunks, Parcels
<1>2. Chunks(s) \in Seq(ChunkSet)
  BY <1>1, FlattenType
<1>3. ASSUME NEW x \in ResponseSet PROVE Chunks(Append(s, x)) = Chunks(s) \o x.chunks
  <2>1. Chunks(Append(s, x)) = FlattenSeq(Parcels(Append(s, x)))
    BY DEF Chunks, Parcels
  <2>2. Parcels(Append(s, x)) = Append(Parcels(s), x.chunks) /\ x.chunks \in Seq(ChunkSet)
    BY ParcelsAppend, ResponseFacts
  <2>3. FlattenSeq(Append(Parcels(s), x.chunks)) = FlattenSeq(Parcels(s)) \o x.chunks
    BY <1>1, <2>2, FlattenAppend
  <2> QED
    BY <1>1, <2>1, <2>2, <2>3
<1> QED
  BY <1>2, <1>3

\* Sending the buffer changes nothing for the client that will get it.
LEMMA FlushKeeps ==
  ASSUME NEW s \in Seq(ResponseSet), NEW buf \in Seq(ChunkSet), NEW k \in Rows \cup {NoRow}
  PROVE  LET x == [chunks |-> buf, last |-> k]
         IN /\ Append(s, x) \in Seq(ResponseSet) /\ Append(s, x) # <<>> /\ Last(Append(s, x)) = x
            /\ Last(Append(s, x)).chunks = buf
            /\ Chunks(Append(s, x)) = Chunks(s) \o buf
            /\ Chunks(Append(s, x)) \o <<>> = Chunks(s) \o buf
<1> DEFINE x == [chunks |-> buf, last |-> k]
<1>1. x \in ResponseSet /\ x.chunks = buf
  BY DEF ResponseSet
<1> HIDE DEF x
<1>2. Append(s, x) \in Seq(ResponseSet) /\ Append(s, x) # <<>> /\ Last(Append(s, x)) = x
  BY <1>1 DEF Last
<1>3. Chunks(Append(s, x)) = Chunks(s) \o buf /\ Chunks(Append(s, x)) \in Seq(ChunkSet)
  BY <1>1, <1>2, ChunksFacts
<1>4. Chunks(Append(s, x)) \o <<>> = Chunks(Append(s, x))
  BY <1>3
<1> QED
  BY <1>1, <1>2, <1>3, <1>4 DEF x

\* ClientInv holds at the start of a call.
LEMMA ClientInit == Init => ClientInv
<1> SUFFICES ASSUME Init PROVE ClientInv
  OBVIOUS
<1>1. sent = <<>> /\ chunkBuf = <<>> /\ due = <<>> /\ pc = "open" /\ rowCount = 0 /\ req \in Requests
  BY DEF Init
<1>2. Taken = ClientStart
  <2>1. <<>> \o <<>> = <<>>
    OBVIOUS
  <2> QED
    BY <1>1, <2>1, ChunksEmpty, ReceivedEmpty DEF Taken
<1>3. Ended = 0
  BY <1>1, RequestFacts DEF Ended, Cap
<1>4. ShownBy(req.filter, due, 0) = <<>>
  <2>1. due \in Seq(DueSet)
    BY <1>1
  <2> QED
    BY <2>1, ShownNone
<1>5. Taken.ok /\ Taken.rows = <<>> /\ Taken.cells = <<>>
  BY <1>2 DEF ClientStart
<1> QED
  BY <1>1, <1>3, <1>4, <1>5 DEF ClientInv

-------------------------------------------------------------------------------
(* The client when a row ends. *)

\* The chunks that are sent and those that are not.
LEMMA ChunkTypes ==
  ASSUME TypeInv
  PROVE  /\ sent \in Seq(ResponseSet) /\ Chunks(sent) \in Seq(ChunkSet) /\ chunkBuf \in Seq(ChunkSet)
         /\ Chunks(sent) \o chunkBuf \in Seq(ChunkSet)
<1>1. sent \in Seq(ResponseSet) /\ chunkBuf \in Seq(ChunkSet)
  BY DEF TypeInv
<1>2. Chunks(sent) \in Seq(ChunkSet)
  BY <1>1, ChunksFacts
<1> QED
  BY <1>1, <1>2, ConcatLen

\* What the filter keeps up to p are positions of the row under way.
LEMMA KeptToFacts ==
  ASSUME TypeInv, NEW p \in Nat
  PROVE  /\ KeptTo(p) \subseteq 1 .. Len(iter) /\ Numbers(KeptTo(p)) /\ \A i \in KeptTo(p) : i <= p /\ i \in Nat
         /\ At(iter, KeptTo(p)) \in Seq(Cells)
         /\ \A i \in DOMAIN At(iter, KeptTo(p)) : At(iter, KeptTo(p))[i].row = lastRowKey
<1> DEFINE K == KeptIn(req.filter, iter, lastRowKey)
           J == KeptTo(p)
<1>1. /\ RowIn(iter, lastRowKey) \subseteq 1 .. Len(iter) /\ K \subseteq RowIn(iter, lastRowKey)
  BY KeptFacts, RequestFacts DEF TypeInv
<1>2. /\ Len(iter) \in Nat /\ DOMAIN iter = 1 .. Len(iter) /\ iter \in Seq(Cells)
  BY HeadsFacts DEF TypeInv
<1>3. J \subseteq K /\ \A i \in J : i <= p
  BY DEF KeptTo
<1> HIDE DEF J, K
<1>4. J \subseteq 1 .. Len(iter)
  BY <1>1, <1>3
<1>5. Numbers(J) /\ \A i \in J : i \in Nat
  <2>1. Numbers(J)
    BY <1>2, <1>4, NumbersIn
  <2> QED
    BY <2>1 DEF Numbers
<1>6. \A i \in J : iter[i] \in Cells
  BY <1>2, <1>4
<1>7. At(iter, J) \in Seq(Cells) /\ Len(At(iter, J)) = Cardinality(J)
  BY <1>5, <1>6, AtType
<1>8. \A i \in J : iter[i].row = lastRowKey
  BY <1>1, <1>3 DEF RowIn
<1>9. ASSUME NEW n \in DOMAIN At(iter, J) PROVE At(iter, J)[n].row = lastRowKey
  <2>1. n \in 1 .. Cardinality(J)
    BY <1>7
  <2>2. \E i \in J : Rank(J, i) = n /\ At(iter, J)[n] = iter[i]
    BY <1>5, <2>1, AtPick
  <2> QED
    BY <1>8, <2>2
<1> QED
  BY <1>3, <1>4, <1>5, <1>7, <1>9 DEF J

\* What the end of a row shows the client.
LEMMA RowClosed ==
  ASSUME TypeInv, CountInv, MarkInv, ClientInv, EndRow, ~spoiled', Plain(req.filter), pc = "scan",
         AtEnd \/ AtBoundary, UNCHANGED <<sent, due, req>>
  PROVE  /\ Taken'.ok /\ Taken'.rows = ShownBy(req.filter, due, rowCount) /\ Taken'.cells = <<>>
         /\ chunkBuf' # <<>> => Last(chunkBuf').commit
<1> DEFINE f == req.filter
           X == Chunks(sent)
           W == Taken
<1>1. /\ ~spoiled /\ Promised
      /\ chunkBuf' = IF rowStarted THEN CommitLastChunk(chunkBuf) ELSE chunkBuf
  BY DEF EndRow, Promised
<1>2. /\ W.ok /\ W.rows = ShownBy(f, due, Ended)
      /\ W.cells = IF rowStarted THEN ShowBy(f, At(iter, KeptTo(pos))) ELSE <<>>
      /\ chunkBuf # <<>> => IF Last(chunkBuf).commit THEN W.cells = <<>>
                            ELSE W.cells # <<>> /\ W.parts = Last(chunkBuf).cell.parts
      /\ chunkBuf = <<>> /\ W.cells # <<>> => Hanging
  BY <1>1 DEF ClientInv
<1>3. /\ X \in Seq(ChunkSet) /\ chunkBuf \in Seq(ChunkSet) /\ W = Received(X \o chunkBuf)
      /\ Taken' = Received(X \o chunkBuf')
  BY ChunkTypes DEF Taken
<1>4. /\ rowCount \in Nat /\ rowCount <= Len(due) /\ Len(due) \in Nat /\ req.limit \in Nat /\ due \in Seq(DueSet)
      /\ pos \in 0 .. Len(iter) /\ Len(iter) \in Nat
  BY Amounts
<1> HIDE DEF W, X, f
<1>5. CASE ~rowStarted
  <2>1. req.limit > 0 => rowCount <= req.limit
    BY DEF CountInv
  <2>2. Ended = rowCount
    BY <1>4, <1>5, <2>1 DEF Ended, Cap
  <2>3. Taken' = W /\ chunkBuf' = chunkBuf /\ W.cells = <<>>
    BY <1>1, <1>2, <1>3, <1>5
  <2> QED
    BY <1>2, <2>2, <2>3 DEF f
<1>6. CASE rowStarted
  <2> DEFINE K == KeptIn(req.filter, iter, lastRowKey)
             n == rowCount - 1
             left == At(iter, K)
  <2>1. Ended = n
    BY <1>6 DEF Ended
  <2>2. rowCount > 0 /\ due[rowCount] = [row |-> lastRowKey, cells |-> left]
    BY <1>1, <1>6 DEF MarkInv, Promised
  <2>3. n \in Nat /\ n + 1 = rowCount /\ n + 1 <= Len(due) /\ due[n + 1].cells = left
    BY <1>4, <2>2
  <2>4. KeptTo(pos) = K
    <3>1. \A i \in K : i <= pos
      <4>1. K \subseteq RowIn(iter, lastRowKey) /\ RowIn(iter, lastRowKey) \subseteq 1 .. Len(iter)
        BY KeptFacts, RequestFacts DEF TypeInv
      <4>2. CASE AtEnd
        BY <1>4, <4>1, <4>2 DEF AtEnd
      <4>3. CASE AtBoundary
        <5> SUFFICES ASSUME NEW i \in K, i > pos PROVE FALSE
          BY <1>4, <4>1
        <5>1. pos # 0 /\ pos \in Nat /\ pos < Len(iter) /\ lastRowKey = iter[pos].row /\ iter[pos + 1].row # lastRowKey
          BY <1>6, <4>3, Boundary DEF AtBoundary
        <5>2. i \in DOMAIN iter /\ pos \in DOMAIN iter /\ pos + 1 \in DOMAIN iter /\ iter[i].row = lastRowKey
              /\ i \in Nat /\ Scanned(iter)
          BY <1>4, <4>1, <5>1, HeadsFacts DEF RowIn, TypeInv
        <5>3. i # pos + 1 /\ pos < pos + 1 /\ pos + 1 < i
          BY <5>1, <5>2
        <5>4. iter[pos + 1].row = iter[pos].row
          BY <5>1, <5>2, <5>3 DEF Scanned
        <5> QED
          BY <5>1, <5>4
      <4> QED
        BY <4>2, <4>3
    <3> QED
      BY <3>1 DEF KeptTo
  <2> HIDE DEF K, n, left
  <2>5. W.cells = ShowBy(f, left) /\ left \in Seq(Cells)
    <3>1. pos \in Nat
      BY <1>4
    <3>2. At(iter, KeptTo(pos)) \in Seq(Cells)
      BY <3>1, KeptToFacts
    <3> QED
      BY <1>2, <1>6, <2>4, <3>2 DEF left
  <2>6. /\ W.cells = <<>> <=> left = <<>>
    BY <2>5, ShowFacts
  <2>7. ShownBy(f, due, rowCount) =
          IF left = <<>> THEN ShownBy(f, due, n) ELSE Append(ShownBy(f, due, n), ShowBy(f, left))
    <3>1. ShownBy(f, due, n + 1) =
            IF due[n + 1].cells = <<>> THEN ShownBy(f, due, n)
            ELSE Append(ShownBy(f, due, n), ShowBy(f, due[n + 1].cells))
      BY <1>4, <2>3, ShownStep
    <3> QED
      BY <2>3, <3>1
  <2>8. CASE W.cells = <<>>
    <3>1. chunkBuf # <<>> => Last(chunkBuf).commit
      BY <1>2, <2>8
    <3>2. chunkBuf' = chunkBuf
      <4>1. CASE chunkBuf = <<>>
        BY <1>1, <1>6, <4>1 DEF CommitLastChunk
      <4>2. CASE chunkBuf # <<>>
        <5>1. Last(chunkBuf).commit => CommitLastChunk(chunkBuf) = chunkBuf
          BY <1>2, <1>3, <4>2, ReceiveCommit
        <5> QED
          BY <1>1, <1>6, <3>1, <4>2, <5>1
      <4> QED
        BY <4>1, <4>2
    <3>3. Taken' = W
      BY <1>3, <3>2
    <3>4. ShownBy(f, due, rowCount) = W.rows
      BY <1>2, <2>1, <2>6, <2>7, <2>8
    <3> QED
      BY <1>2, <2>8, <3>1, <3>2, <3>3, <3>4 DEF f
  <2>9. CASE W.cells # <<>>
    <3>1. chunkBuf # <<>>
      <4> SUFFICES ASSUME chunkBuf = <<>> PROVE FALSE
        OBVIOUS
      <4>1. Hanging
        BY <1>2, <2>9
      <4>2. Unmarked
        BY <1>6, <4>1 DEF Hanging, Unmarked
      <4> QED
        BY <4>2 DEF EndRow
    <3>2. ~Last(chunkBuf).commit /\ W.parts = Last(chunkBuf).cell.parts
      BY <1>2, <2>9, <3>1
    <3>3. /\ Last(CommitLastChunk(chunkBuf)).commit
          /\ Received(X \o CommitLastChunk(chunkBuf)) =
               [rows |-> Append(W.rows, W.cells), cells |-> <<>>, parts |-> 0, ok |-> TRUE]
      BY <1>2, <1>3, <3>1, <3>2, ReceiveCommit
    <3>4. chunkBuf' = CommitLastChunk(chunkBuf)
      BY <1>1, <1>6
    <3>5. Taken' = [rows |-> Append(W.rows, W.cells), cells |-> <<>>, parts |-> 0, ok |-> TRUE]
      BY <1>3, <3>3, <3>4
    <3>6. Append(W.rows, W.cells) = ShownBy(f, due, rowCount)
      BY <1>2, <2>1, <2>5, <2>6, <2>7, <2>9
    <3> QED
      BY <3>3, <3>4, <3>5, <3>6 DEF f
  <2> QED
    BY <2>8, <2>9
<1> QED
  BY <1>5, <1>6

-------------------------------------------------------------------------------
(* The client, step by step: ranges and rows. *)

\* Rows that come later do not change what the client has to have.
LEMMA ClientOpenRange == TypeInv /\ CountInv /\ ClientInv /\ OpenRange => ClientInv'
<1> SUFFICES ASSUME TypeInv, CountInv, ClientInv, OpenRange, Promised' PROVE ClientInv'
  BY DEF ClientInv
<1>1. /\ pc' = "scan" /\ ~rowStarted' /\ UNCHANGED <<req, rowCount, chunkBuf, sent, spoiled>>
      /\ due' = due \o Filtered(Snapshot) /\ due \in Seq(DueSet) /\ Filtered(Snapshot) \in Seq(DueSet)
  BY OpenRangeFacts
<1>2. pc = "open" /\ Ended' = Ended /\ Ended = Cap(rowCount)
  BY <1>1 DEF Ended, Cap, OpenRange
<1>3. Ended \in Nat /\ Ended <= Len(due)
  BY <1>2, Amounts
<1>4. Promised /\ Taken' = Taken
  BY <1>1, <1>2 DEF Promised, Taken
<1>5. ShownBy(req'.filter, due', Ended') = ShownBy(req.filter, due, Ended)
  <2> HIDE DEF Ended
  <2>1. ShownBy(req.filter, due \o Filtered(Snapshot), Ended) = ShownBy(req.filter, due, Ended)
    BY <1>1, <1>3, ShownGrown
  <2> QED
    BY <1>1, <1>2, <2>1
<1>6. /\ Taken.ok /\ Taken.rows = ShownBy(req.filter, due, Ended) /\ Taken.cells = <<>>
      /\ chunkBuf # <<>> => Last(chunkBuf).commit
  BY <1>2, <1>4 DEF ClientInv
<1> QED
  BY <1>1, <1>4, <1>5, <1>6 DEF ClientInv

\* NextRow keeps ClientInv.
LEMMA ClientNextRow == TypeInv /\ CountInv /\ MarkInv /\ ClientInv /\ NextRow => ClientInv'
<1> SUFFICES ASSUME TypeInv, CountInv, MarkInv, ClientInv, NextRow, Promised' PROVE ClientInv'
  BY DEF ClientInv
<1>1. /\ EndRow /\ pc = "scan" /\ AtBoundary /\ UNCHANGED <<iter, pos, due, req, sent>> /\ rowCount' = rowCount + 1
  BY DEF NextRow
<1>2. ~spoiled' /\ Plain(req.filter)
  BY <1>1 DEF Promised
<1>3. /\ Taken'.ok /\ Taken'.rows = ShownBy(req.filter, due, rowCount) /\ Taken'.cells = <<>>
      /\ chunkBuf' # <<>> => Last(chunkBuf').commit
  BY <1>1, <1>2, RowClosed
<1>4. rowCount \in Nat
  BY Amounts
<1>5. Ended' = rowCount
  BY <1>1, <1>4 DEF Ended, NextRow
<1>6. CASE LimitReached(rowCount + 1)
  <2>1. pc' = "endRange"
    BY <1>6 DEF NextRow
  <2> QED
    BY <1>1, <1>3, <1>5, <2>1 DEF ClientInv
<1>7. CASE ~LimitReached(rowCount + 1)
  <2>1. pc' = "scan" /\ lastRowKey' = iter[pos + 1].row /\ rowStarted' = TRUE
    BY <1>1, <1>7 DEF NextRow
  <2>2. KeptTo(pos)' = {}
    <3> DEFINE r == iter[pos + 1].row
    <3>1. Ahead(RowIn(iter, r), pos) /\ pos \in Nat
      BY <1>1, NewRow
    <3>2. KeptIn(req.filter, iter, r) \subseteq RowIn(iter, r) /\ RowIn(iter, r) \subseteq 1 .. Len(iter)
      BY KeptFacts, RequestFacts DEF TypeInv
    <3>3. Len(iter) \in Nat
      BY Amounts
    <3>4. ASSUME NEW i \in KeptIn(req.filter, iter, r), i <= pos PROVE FALSE
      BY <3>1, <3>2, <3>3, <3>4 DEF Ahead
    <3>5. KeptTo(pos)' = {i \in KeptIn(req.filter, iter, r) : i <= pos}
      BY <1>1, <2>1 DEF KeptTo
    <3> QED
      BY <3>4, <3>5
  <2>3. ShowBy(req'.filter, At(iter', KeptTo(pos)')) = <<>>
    BY <2>2, AtEmpty, ShowEmpty
  <2> QED
    BY <1>1, <1>3, <1>5, <2>1, <2>3 DEF ClientInv
<1> QED
  BY <1>6, <1>7

\* EndRange keeps ClientInv.
LEMMA ClientEndRange == TypeInv /\ CountInv /\ MarkInv /\ ClientInv /\ EndRange => ClientInv'
<1> SUFFICES ASSUME TypeInv, CountInv, MarkInv, ClientInv, EndRange, Promised' PROVE ClientInv'
  BY DEF ClientInv
<1>1. /\ EndRow /\ pc' = "open" /\ UNCHANGED <<req, rowCount, due, lastRowKey, rowStarted, sent>>
      /\ pc = "endRange" \/ (pc = "scan" /\ AtEnd)
  BY DEF EndRange
<1>2. rowCount \in Nat /\ Len(due) \in Nat /\ rowCount <= Len(due) /\ req.limit \in Nat
  BY Amounts
<1>3. Ended' = Cap(rowCount)
  BY <1>1 DEF Ended, Cap
<1>4. ~spoiled' /\ ~spoiled /\ Plain(req.filter)
  BY <1>1 DEF Promised, EndRow
<1>5. CASE pc = "scan" /\ AtEnd
  <2>1. /\ Taken'.ok /\ Taken'.rows = ShownBy(req.filter, due, rowCount) /\ Taken'.cells = <<>>
        /\ chunkBuf' # <<>> => Last(chunkBuf').commit
    BY <1>1, <1>4, <1>5, RowClosed
  <2>2. req.limit > 0 => rowCount <= req.limit
    BY <1>5 DEF CountInv
  <2>3. Ended' = rowCount
    BY <1>2, <1>3, <2>2 DEF Cap
  <2> QED
    BY <1>1, <2>1, <2>3 DEF ClientInv
<1>6. CASE pc = "endRange"
  <2>1. req.limit > 0 /\ rowCount = req.limit + 1
    BY <1>6 DEF CountInv
  <2>2. Ended = rowCount - 1 /\ Cap(rowCount) = rowCount - 1
    BY <1>2, <1>6, <2>1 DEF Ended, Cap
  <2>3. Promised
    BY <1>4, <1>6 DEF Promised
  <2>4. /\ Taken.ok /\ Taken.rows = ShownBy(req.filter, due, Ended) /\ Taken.cells = <<>>
        /\ chunkBuf # <<>> => Last(chunkBuf).commit
    BY <1>6, <2>3 DEF ClientInv
  <2>5. chunkBuf' = chunkBuf
    <3>1. CASE chunkBuf = <<>>
      BY <1>1, <3>1 DEF EndRow, CommitLastChunk
    <3>2. CASE chunkBuf # <<>>
      <4>1. Last(chunkBuf).commit => CommitLastChunk(chunkBuf) = chunkBuf
        BY <2>4, <3>2, ChunkTypes, ReceiveCommit DEF Taken
      <4> QED
        BY <1>1, <2>4, <3>2, <4>1 DEF EndRow
    <3> QED
      BY <3>1, <3>2
  <2>6. Taken' = Taken
    BY <1>1, <2>5 DEF Taken
  <2> QED
    BY <1>1, <1>3, <2>2, <2>4, <2>5, <2>6 DEF ClientInv
<1> QED
  BY <1>1, <1>5, <1>6

\* Finish keeps ClientInv.
LEMMA ClientFinish == TypeInv /\ ClientInv /\ Finish => ClientInv'
<1> SUFFICES ASSUME TypeInv, ClientInv, Finish, Promised' PROVE ClientInv'
  BY DEF ClientInv
<1>1. /\ pc = "open" /\ chunkBuf' = <<>>
      /\ UNCHANGED <<version, req, range, iter, pos, lastRowKey, rowStarted, rowCount,
                     lastScannedRowKey, eval, due, spoiled>>
  BY DEF Finish
<1>2. Promised
  BY <1>1 DEF Promised
<1>3. Taken.ok /\ Taken.rows = ShownBy(req.filter, due, Ended) /\ Taken.cells = <<>>
  BY <1>1, <1>2 DEF ClientInv
<1>4. pc' = "done" /\ Taken' = Taken
  <2>1. CASE chunkBuf = <<>>
    BY <1>1, <2>1 DEF Finish, Taken
  <2>2. CASE chunkBuf # <<>>
    <3> DEFINE x == [chunks |-> chunkBuf, last |-> Reported]
    <3>1. pc' = "done" /\ sent' = Append(sent, x)
      BY <2>2 DEF Finish, Flush, Promised
    <3>2. sent \in Seq(ResponseSet) /\ chunkBuf \in Seq(ChunkSet) /\ Reported \in Rows \cup {NoRow}
      BY ReportedType DEF TypeInv
    <3>3. Chunks(Append(sent, x)) \o <<>> = Chunks(sent) \o chunkBuf
      BY <3>2, FlushKeeps
    <3> QED
      BY <1>1, <3>1, <3>3 DEF Taken
  <2> QED
    BY <2>1, <2>2
<1>5. Ended' = Ended
  BY <1>1, <1>4 DEF Ended, Cap
<1> QED
  BY <1>1, <1>3, <1>4, <1>5 DEF ClientInv

-------------------------------------------------------------------------------
(* The client, step by step: cells. *)

\* Chunks that are buffered are chunks to receive.
LEMMA AppendMore ==
  ASSUME NEW X \in Seq(ChunkSet), NEW buf \in Seq(ChunkSet), NEW c \in Cells
  PROVE  X \o AppendCellChunks(buf, c) = AppendCellChunks(X \o buf, c)
<1> DEFINE t == [i \in 1 .. c.parts |-> CellChunk(c, i)]
<1>1. c.parts \in Nat \ {0}
  BY DEF Cells
<1>2. t \in Seq(ChunkSet)
  <2>1. \A i \in 1 .. c.parts : CellChunk(c, i) \in ChunkSet
    <3>1. \A i \in 1 .. c.parts : i \in Nat
      BY <1>1
    <3> QED
      BY <3>1, CellChunkType
  <2> QED
    BY <1>1, <2>1
<1>3. \A b : AppendCellChunks(b, c) = b \o t
  BY Zenon DEF AppendCellChunks, CellChunk
<1> HIDE DEF t
<1>4. X \o (buf \o t) = (X \o buf) \o t
  BY <1>2, ConcatAssociative
<1> QED
  BY <1>3, <1>4

\* A cell that passes.
LEMMA CellKept ==
  ASSUME TypeInv, CountInv, ScanCell, KeptTo(pos + 1) = KeptTo(pos) \cup {pos + 1}
  PROVE  ShowBy(req.filter, At(iter, KeptTo(pos + 1))) =
           Append(ShowBy(req.filter, At(iter, KeptTo(pos))), EmitBy(req.filter, iter[pos + 1]))
<1> DEFINE I == KeptTo(pos)
           k == pos + 1
<1>1. pos \in Nat /\ k \in Nat /\ k \in 1 .. Len(iter) /\ iter[k] \in Cells
  BY Inside, ScanCellFacts
<1>2. Numbers(I) /\ (\A i \in I : i <= pos /\ i \in Nat) /\ At(iter, I) \in Seq(Cells)
  BY <1>1, KeptToFacts
<1>3. \A i \in I : i < k
  BY <1>1, <1>2
<1> HIDE DEF I, k
<1>4. At(iter, I \cup {k}) = Append(At(iter, I), iter[k])
  BY <1>1, <1>2, <1>3, AtAppend
<1>5. ShowBy(req.filter, Append(At(iter, I), iter[k])) = Append(ShowBy(req.filter, At(iter, I)), EmitBy(req.filter, iter[k]))
  BY <1>1, <1>2, ShowAppend
<1> QED
  BY <1>4, <1>5 DEF I, k

\* The row of a cell that is shown.
LEMMA ShownRow ==
  ASSUME TypeInv, NEW p \in Nat, ShowBy(req.filter, At(iter, KeptTo(p))) # <<>>
  PROVE  /\ ShowBy(req.filter, At(iter, KeptTo(p))) \in Seq(Cells)
         /\ Last(ShowBy(req.filter, At(iter, KeptTo(p)))).row = lastRowKey
<1> DEFINE a == At(iter, KeptTo(p))
           b == ShowBy(req.filter, a)
<1>1. a \in Seq(Cells) /\ \A i \in DOMAIN a : a[i].row = lastRowKey
  BY KeptToFacts
<1> HIDE DEF a
<1>2. b \in Seq(Cells) /\ Len(b) = Len(a) /\ (\A i \in 1 .. Len(a) : b[i] = EmitBy(req.filter, a[i])) /\ (b = <<>> <=> a = <<>>)
  BY <1>1, ShowFacts
<1>3. b # <<>>
  BY DEF a
<1> HIDE DEF b
<1>4. Last(b) = b[Len(b)] /\ Len(b) \in 1 .. Len(a)
  BY <1>1, <1>2, <1>3, FrontLast
<1>5. a[Len(b)] \in Cells /\ a[Len(b)].row = lastRowKey
  BY <1>1, <1>4
<1>6. EmitBy(req.filter, a[Len(b)]).row = lastRowKey
  BY <1>5, EmittedCell
<1> QED
  BY <1>2, <1>4, <1>6 DEF a, b

\* ScanCell keeps ClientInv.
LEMMA ClientScanCell == TypeInv /\ CountInv /\ RunInv /\ ClientInv /\ ScanCell => ClientInv'
<1> SUFFICES ASSUME TypeInv, CountInv, RunInv, ClientInv, ScanCell, Promised' PROVE ClientInv'
  BY DEF ClientInv
<1> DEFINE c == iter[pos + 1]
           f == req.filter
           d == EmitBy(f, c)
           ok == Evaluate(eval, c).ok
           buf == AppendCellChunks(chunkBuf, d)
           shown == ShowBy(f, At(iter, KeptTo(pos)))
           later == ShowBy(f, At(iter, KeptTo(pos + 1)))
<1>1. /\ pos + 1 \in 1 .. Len(iter) /\ c \in Cells /\ c.row = lastRowKey /\ pc = "scan" /\ pos' = pos + 1
      /\ d \in Cells /\ d.row = lastRowKey
      /\ ok \in BOOLEAN /\ ~spoiled'
      /\ UNCHANGED <<version, req, range, iter, lastRowKey, rowStarted, rowCount, lastScannedRowKey, due>>
  BY ScanCellFacts DEF Promised
<1>2. ~ok => chunkBuf' = chunkBuf /\ UNCHANGED <<sent, pc>>
  BY <1>1, ScanCellBuffer
<1>3. ok => /\ buf \in Seq(ChunkSet)
            /\ IF Len(buf) >= BufferSize THEN Flush(buf, "scan") /\ chunkBuf' = <<>>
               ELSE chunkBuf' = buf /\ UNCHANGED <<sent, pc>>
  BY <1>1, ScanCellBuffer
<1>4. rowStarted /\ ~spoiled /\ pc' = "scan" /\ Promised /\ Plain(f)
  <2>1. rowStarted /\ ~spoiled
    BY Keyed DEF Promised
  <2>2. pc' \in {"scan", "failed"}
    BY ScanCellFacts
  <2> QED
    BY <1>1, <2>1, <2>2 DEF Promised
<1>5. ok <=> pos + 1 \in KeptIn(f, iter, lastRowKey)
  BY <1>4, FilterAnswer
<1>6. pos \in Nat
  BY Inside
<1>7. KeptTo(pos + 1) = IF ok THEN KeptTo(pos) \cup {pos + 1} ELSE KeptTo(pos)
  <2>1. \A i \in KeptIn(f, iter, lastRowKey) : i \in Nat
    BY KeptFacts, RequestFacts DEF TypeInv, Numbers
  <2>2. \A i \in KeptIn(f, iter, lastRowKey) : i <= pos + 1 <=> (i <= pos \/ i = pos + 1)
    BY <1>6, <2>1
  <2> HIDE DEF ok
  <2>3. CASE ok
    BY <1>5, <1>6, <2>2, <2>3 DEF KeptTo
  <2>4. CASE ~ok
    BY <1>5, <2>2, <2>4 DEF KeptTo
  <2> QED
    BY <2>3, <2>4
<1>8. /\ Taken.ok /\ Taken.rows = ShownBy(f, due, Ended) /\ Taken.cells = shown
      /\ Taken.cells # <<>> => Taken.parts = Last(Taken.cells).parts
      /\ chunkBuf # <<>> => IF Last(chunkBuf).commit THEN Taken.cells = <<>>
                            ELSE Taken.cells # <<>> /\ Taken.parts = Last(chunkBuf).cell.parts
      /\ chunkBuf = <<>> /\ Taken.cells # <<>> => Hanging
  BY <1>1, <1>4 DEF ClientInv
<1>9. Ended' = Ended /\ ShownBy(req'.filter, due', Ended') = ShownBy(f, due, Ended)
  <2>1. Ended' = Ended
    BY <1>1, <1>4 DEF Ended
  <2> HIDE DEF Ended
  <2> QED
    BY <1>1, <2>1
<1>10. ShowBy(req'.filter, At(iter', KeptTo(pos)')) = later
  BY <1>1 DEF KeptTo
<1>11. CASE ~ok
  <2>1. later = shown
    BY <1>7, <1>11
  <2>2. Taken' = Taken /\ chunkBuf' = chunkBuf /\ Hanging' = Hanging
    BY <1>1, <1>2, <1>11 DEF Taken, Hanging
  <2> HIDE DEF Hanging, later, shown, Ended
  <2> QED
    BY <1>1, <1>4, <1>8, <1>9, <1>10, <2>1, <2>2 DEF ClientInv
<1>12. CASE ok
  <2> DEFINE X == Chunks(sent)
             W == [rows |-> Taken.rows, cells |-> Append(shown, d), parts |-> d.parts, ok |-> TRUE]
  <2>1. later = Append(shown, d)
    BY <1>7, <1>12, CellKept
  <2>2. X \in Seq(ChunkSet) /\ chunkBuf \in Seq(ChunkSet) /\ X \o chunkBuf \in Seq(ChunkSet)
        /\ Taken = Received(X \o chunkBuf) /\ sent \in Seq(ResponseSet)
    BY ChunkTypes DEF Taken
  <2>3. shown \in Seq(Cells) /\ (shown # <<>> => Last(shown).row = lastRowKey)
    <3>1. At(iter, KeptTo(pos)) \in Seq(Cells)
      BY <1>6, KeptToFacts
    <3>2. shown \in Seq(Cells)
      BY <3>1, ShowFacts
    <3> QED
      BY <1>6, <3>2, ShownRow
  <2> HIDE DEF shown, later, d, X, ok, c, f
  <2>4. Received(X \o buf) = W
    <3>1. X \o buf = AppendCellChunks(X \o chunkBuf, d)
      BY <1>1, <2>2, AppendMore
    <3>2. Taken.cells \in Seq(Cells) /\ (Taken.cells = <<>> \/ (Last(Taken.cells).row = d.row /\ Taken.parts = Last(Taken.cells).parts))
      BY <1>1, <1>8, <2>3
    <3>3. Received(AppendCellChunks(X \o chunkBuf, d)) =
            [rows |-> Taken.rows, cells |-> Append(Taken.cells, d), parts |-> d.parts, ok |-> TRUE]
      BY <1>1, <1>8, <2>2, <3>2, ReceiveCell
    <3> QED
      BY <1>8, <3>1, <3>3
  <2>5. Append(shown, d) # <<>> /\ Last(Append(shown, d)) = d
    <3>1. shown \in Seq(Cells) /\ d \in Cells
      BY <1>1, <2>3
    <3> QED
      BY <3>1, LastAppended
  <2>6. /\ buf \in Seq(ChunkSet) /\ buf # <<>> /\ Last(buf) = CellChunk(d, d.parts)
    <3>1. /\ buf \in Seq(ChunkSet) /\ Len(buf) = Len(chunkBuf) + d.parts /\ d.parts \in Nat \ {0}
          /\ Last(buf) = CellChunk(d, d.parts)
      BY <1>1, <2>2, AppendType
    <3> HIDE DEF buf
    <3>2. Len(chunkBuf) \in Nat
      BY <2>2
    <3>3. buf # <<>>
      BY <3>1, <3>2
    <3> QED
      BY <3>1, <3>3
  <2>7. ~Last(buf).commit /\ Last(buf).cell = d
    <3>1. d.parts \in Nat
      BY <1>1 DEF Cells
    <3>2. ~CellChunk(d, d.parts).commit /\ CellChunk(d, d.parts).cell = d
      BY <1>1, <3>1, CellChunkType
    <3> QED
      BY <2>6, <3>2
  <2> HIDE DEF buf, W
  <2>8. /\ W.ok /\ W.rows = ShownBy(f, due, Ended) /\ W.cells = later /\ W.cells # <<>>
        /\ W.parts = Last(W.cells).parts /\ W.parts = d.parts
    <3>1. W.ok /\ W.rows = Taken.rows /\ W.cells = Append(shown, d) /\ W.parts = d.parts
      BY DEF W
    <3> QED
      BY <1>8, <2>1, <2>5, <3>1
  <2>9. CASE Len(buf) >= BufferSize
    <3> DEFINE x == [chunks |-> buf, last |-> Reported]
    <3>1. sent' = Append(sent, x) /\ chunkBuf' = <<>>
      BY <1>3, <1>4, <1>12, <2>9 DEF Flush
    <3>2. Reported \in Rows \cup {NoRow}
      BY ReportedType
    <3>3. /\ Append(sent, x) # <<>> /\ Last(Append(sent, x)).chunks = buf
          /\ Chunks(Append(sent, x)) \o <<>> = X \o buf
      BY <2>2, <2>6, <3>2, FlushKeeps DEF X
    <3> HIDE DEF x
    <3>4. Taken' = W
      BY <2>4, <3>1, <3>3 DEF Taken
    <3>5. Hanging'
      <4>1. sent' # <<>> /\ Last(sent').chunks = buf
        BY <3>1, <3>3
      <4>2. Len(buf) \in DOMAIN buf /\ buf[Len(buf)] = Last(buf)
        BY <2>6, FrontLast
      <4>3. buf[Len(buf)].cell.row = lastRowKey'
        BY <1>1, <2>7, <4>2
      <4> QED
        BY <2>7, <4>1, <4>2, <4>3 DEF Hanging
    <3> HIDE DEF Hanging, Ended
    <3>6. Taken'.ok /\ Taken'.rows = ShownBy(req'.filter, due', Ended') /\ Taken'.cells = later
          /\ Taken'.parts = Last(Taken'.cells).parts
      BY <1>9, <2>8, <3>4
    <3> QED
      BY <1>1, <1>4, <1>10, <3>1, <3>5, <3>6 DEF ClientInv
  <2>10. CASE ~(Len(buf) >= BufferSize)
    <3>1. chunkBuf' = buf /\ sent' = sent
      BY <1>3, <1>12, <2>10
    <3>2. Taken' = W
      BY <2>4, <3>1 DEF Taken, X
    <3> HIDE DEF Hanging, Ended
    <3>3. Taken'.ok /\ Taken'.rows = ShownBy(req'.filter, due', Ended') /\ Taken'.cells = later
          /\ Taken'.parts = Last(Taken'.cells).parts /\ Taken'.cells # <<>>
      BY <1>9, <2>8, <3>2
    <3>4. chunkBuf' # <<>> /\ ~Last(chunkBuf').commit /\ Taken'.parts = Last(chunkBuf').cell.parts
      BY <2>6, <2>7, <2>8, <3>1, <3>2
    <3> QED
      BY <1>1, <1>4, <1>10, <3>3, <3>4 DEF ClientInv
  <2> QED
    BY <2>9, <2>10
<1> QED
  BY <1>1, <1>11, <1>12

\* ClientInv depends on these variables only.
LEMMA ClientSame ==
  ClientInv /\ UNCHANGED <<req, pc, iter, pos, lastRowKey, rowStarted, rowCount, chunkBuf, sent, due, spoiled>> => ClientInv'
<1> SUFFICES ASSUME ClientInv, UNCHANGED <<req, pc, iter, pos, lastRowKey, rowStarted, rowCount, chunkBuf, sent, due, spoiled>>
             PROVE ClientInv'
  OBVIOUS
<1>1. Ended' = Ended /\ Taken' = Taken /\ KeptTo(pos)' = KeptTo(pos) /\ Hanging' = Hanging /\ Promised' = Promised
  BY DEF Ended, Cap, Taken, KeptTo, Hanging, Promised
<1> HIDE DEF Ended, Taken, KeptTo, Hanging, Promised
<1> QED
  BY <1>1 DEF ClientInv

\* Every step keeps ClientInv.
LEMMA ClientStep ==
  TypeInv /\ CountInv /\ MarkInv /\ RunInv /\ ClientInv /\ [Next]_vars => ClientInv'
<1> SUFFICES ASSUME TypeInv, CountInv, MarkInv, RunInv, ClientInv, [Next]_vars PROVE ClientInv'
  OBVIOUS
<1>1. CASE UNCHANGED vars \/ \E r \in Rows : WriteRow(r)
  <2>1. UNCHANGED <<req, pc, iter, pos, lastRowKey, rowStarted, rowCount, chunkBuf, sent, due, spoiled>>
    BY <1>1 DEF vars, WriteRow, scanVars
  <2> QED
    BY <2>1, ClientSame
<1>2. CASE SkipRange
  BY <1>2 DEF SkipRange, ClientInv, Promised
<1> QED
  BY <1>1, <1>2, ClientOpenRange, ClientNextRow, ClientScanCell, ClientEndRange, ClientFinish DEF Next

-------------------------------------------------------------------------------
(* The responses, and the row they say was scanned last. *)

\* What a client has that received s.
Gets(s) == Received(Chunks(s))

\* Every response leaves the client with a beginning of the rows; its
\* last_scanned_row_key is the last of them that has ended.
SentInv ==
  Plain(req.filter) /\ ~spoiled =>
    \A i \in 1 .. Len(sent) :
      /\ Gets(SubSeq(sent, 1, i)).ok
      /\ \E n \in Nat :
           /\ n <= Len(due) /\ n <= Cap(Len(due))
           /\ Gets(SubSeq(sent, 1, i)).rows = ShownBy(req.filter, due, n)
           /\ sent[i].last # NoRow => n \in 1 .. Len(due) /\ due[n].row = sent[i].last

\* SentInv holds at the start of a call.
LEMMA SentInit == Init => SentInv
BY DEF Init, SentInv

\* The rows that have ended are among those to be sent.
LEMMA EndedFacts ==
  ASSUME TypeInv, CountInv, ExactInv, MarkInv, ~spoiled, pc # "failed"
  PROVE  Ended \in Nat /\ Ended <= Len(due) /\ Ended <= Cap(Len(due)) /\ Cap(Len(due)) <= Len(due)
<1>1. rowCount \in Nat /\ Len(due) \in Nat /\ rowCount <= Len(due) /\ req.limit \in Nat
  BY Amounts
<1>2. CASE pc = "endRange"
  <2>1. req.limit > 0 /\ rowCount = req.limit + 1
    BY <1>2 DEF CountInv
  <2> QED
    BY <1>1, <1>2, <2>1 DEF Ended, Cap
<1>3. CASE pc = "scan" /\ rowStarted
  <2>1. rowCount > 0
    BY <1>3 DEF MarkInv
  <2>2. req.limit > 0 => rowCount <= req.limit
    BY <1>3 DEF CountInv
  <2> QED
    BY <1>1, <1>3, <2>1, <2>2 DEF Ended, Cap
<1>4. CASE ~(pc = "endRange" \/ (pc = "scan" /\ rowStarted))
  BY <1>1, <1>4 DEF Ended, Cap
<1> QED
  BY <1>2, <1>3, <1>4

\* A response that carries the whole buffer.
LEMMA SentFlush ==
  ASSUME TypeInv, TypeInv', CountInv', ExactInv', MarkInv', ClientInv', SentInv,
         NEW buf \in Seq(ChunkSet), sent' = Append(sent, [chunks |-> buf, last |-> Reported]),
         chunkBuf' = <<>>, pc' # "failed", UNCHANGED <<req, due, lastScannedRowKey, spoiled>>
  PROVE  SentInv'
<1> SUFFICES ASSUME Plain(req.filter), ~spoiled PROVE SentInv'
  BY DEF SentInv
<1> DEFINE x == [chunks |-> buf, last |-> Reported]
           m == Len(sent)
<1>1. /\ sent \in Seq(ResponseSet) /\ Reported \in Rows \cup {NoRow}
      /\ Reported # NoRow => Reported = lastScannedRowKey
  BY ReportedType DEF TypeInv
<1>2. x \in ResponseSet /\ (x.last # NoRow => x.last = lastScannedRowKey)
  BY <1>1 DEF ResponseSet
<1> HIDE DEF x
<1>3. /\ m \in Nat /\ Len(Append(sent, x)) = m + 1 /\ Append(sent, x) \in Seq(ResponseSet)
      /\ \A i \in 1 .. m : Append(sent, x)[i] = sent[i] /\ SubSeq(Append(sent, x), 1, i) = SubSeq(sent, 1, i)
      /\ Append(sent, x)[m + 1] = x /\ SubSeq(Append(sent, x), 1, m + 1) = Append(sent, x)
  <2>1. /\ m \in Nat /\ Len(Append(sent, x)) = m + 1 /\ Append(sent, x) \in Seq(ResponseSet)
        /\ \A i \in 1 .. m : Append(sent, x)[i] = sent[i]
        /\ Append(sent, x)[m + 1] = x
    BY <1>1, <1>2
  <2>2. \A i \in 1 .. m : SubSeq(Append(sent, x), 1, i) = SubSeq(sent, 1, i)
    BY <1>1, <1>2
  <2>3. SubSeq(Append(sent, x), 1, m + 1) = Append(sent, x)
    BY <1>1, <1>2
  <2> QED
    BY <2>1, <2>2, <2>3
<1>4. sent' = Append(sent, x)
  BY DEF x
<1>5. ASSUME NEW i \in 1 .. m
      PROVE  /\ Gets(SubSeq(sent', 1, i)).ok
             /\ \E n \in Nat :
                  /\ n <= Len(due') /\ n <= Cap(Len(due))'
                  /\ Gets(SubSeq(sent', 1, i)).rows = ShownBy(req'.filter, due', n)
                  /\ sent'[i].last # NoRow => n \in 1 .. Len(due') /\ due'[n].row = sent'[i].last
  <2>1. /\ Gets(SubSeq(sent, 1, i)).ok
        /\ \E n \in Nat :
             /\ n <= Len(due) /\ n <= Cap(Len(due))
             /\ Gets(SubSeq(sent, 1, i)).rows = ShownBy(req.filter, due, n)
             /\ sent[i].last # NoRow => n \in 1 .. Len(due) /\ due[n].row = sent[i].last
    BY DEF SentInv
  <2>2. SubSeq(sent', 1, i) = SubSeq(sent, 1, i) /\ sent'[i] = sent[i]
    BY <1>3, <1>4
  <2>3. Cap(Len(due))' = Cap(Len(due))
    BY DEF Cap
  <2> QED
    BY <2>1, <2>2, <2>3
<1>6. /\ Gets(SubSeq(sent', 1, m + 1)).ok
      /\ \E n \in Nat :
           /\ n <= Len(due') /\ n <= Cap(Len(due))'
           /\ Gets(SubSeq(sent', 1, m + 1)).rows = ShownBy(req'.filter, due', n)
           /\ sent'[m + 1].last # NoRow => n \in 1 .. Len(due') /\ due'[n].row = sent'[m + 1].last
  <2>1. Promised'
    BY DEF Promised
  <2>2. Taken'.ok /\ Taken'.rows = ShownBy(req'.filter, due', Ended')
    BY <2>1 DEF ClientInv
  <2>3. Taken' = Gets(SubSeq(sent', 1, m + 1))
    <3>1. Chunks(sent') \in Seq(ChunkSet)
      BY <1>3, <1>4, ChunksFacts
    <3>2. Chunks(sent') \o <<>> = Chunks(sent')
      BY <3>1
    <3>3. Taken' = Received(Chunks(sent') \o <<>>)
      BY DEF Taken
    <3> QED
      BY <1>3, <1>4, <3>2, <3>3 DEF Gets
  <2>4. /\ Ended' \in Nat /\ Ended' <= Len(due') /\ Ended' <= Cap(Len(due))'
    <3>1. (~spoiled /\ pc # "failed")'
      OBVIOUS
    <3>2. (TypeInv /\ CountInv /\ ExactInv /\ MarkInv /\ ~spoiled /\ pc # "failed" =>
             Ended \in Nat /\ Ended <= Len(due) /\ Ended <= Cap(Len(due)))'
      BY EndedFacts, PTL
    <3> QED
      BY <3>1, <3>2
  <2>5. lastScannedRowKey' # NoRow => Ended' \in 1 .. Len(due') /\ due'[Ended'].row = lastScannedRowKey'
    BY DEF MarkInv
  <2>6. sent'[m + 1].last # NoRow => sent'[m + 1].last = lastScannedRowKey'
    BY <1>2, <1>3, <1>4
  <2> QED
    BY <2>2, <2>3, <2>4, <2>5, <2>6
<1>7. \A i \in 1 .. Len(sent') : i \in 1 .. m \/ i = m + 1
  BY <1>3, <1>4
<1> QED
  BY <1>5, <1>6, <1>7 DEF SentInv

-------------------------------------------------------------------------------
(* The theorems. *)

\* SentInv depends on these variables only.
LEMMA SentSame ==
  SentInv /\ UNCHANGED <<req, sent, due>> /\ (spoiled => spoiled') => SentInv'
<1> SUFFICES ASSUME SentInv, UNCHANGED <<req, sent, due>>, spoiled => spoiled' PROVE SentInv'
  OBVIOUS
<1>1. Cap(Len(due))' = Cap(Len(due))
  BY DEF Cap
<1> QED
  BY <1>1 DEF SentInv

\* OpenRange keeps SentInv.
LEMMA SentOpenRange == TypeInv /\ SentInv /\ OpenRange => SentInv'
<1> SUFFICES ASSUME TypeInv, SentInv, OpenRange, Plain(req.filter), ~spoiled PROVE SentInv'
  BY OpenRangeFacts DEF SentInv
<1> DEFINE x == Filtered(Snapshot)
<1>1. /\ due' = due \o x /\ due \in Seq(DueSet) /\ x \in Seq(DueSet)
      /\ Len(due) \in Nat /\ Cardinality(Heads(iter')) \in Nat /\ Len(due') = Len(due) + Cardinality(Heads(iter'))
      /\ \A i \in 1 .. Len(due) : due'[i] = due[i]
      /\ UNCHANGED <<req, sent, spoiled>>
  BY OpenRangeFacts
<1>2. req.limit \in Nat
  BY RequestFacts DEF TypeInv
<1>3. Cap(Len(due))' = Cap(Len(due')) /\ Cap(Len(due)) <= Cap(Len(due')) /\ Cap(Len(due)) \in Nat /\ Cap(Len(due')) \in Nat
  BY <1>1, <1>2 DEF Cap
<1> HIDE DEF x
<1>4. ASSUME NEW n \in Nat, n <= Len(due) PROVE ShownBy(req.filter, due', n) = ShownBy(req.filter, due, n)
  BY <1>1, <1>4, ShownGrown
<1>5. ASSUME NEW i \in 1 .. Len(sent)
      PROVE  /\ Gets(SubSeq(sent', 1, i)).ok
             /\ \E n \in Nat :
                  /\ n <= Len(due') /\ n <= Cap(Len(due))'
                  /\ Gets(SubSeq(sent', 1, i)).rows = ShownBy(req'.filter, due', n)
                  /\ sent'[i].last # NoRow => n \in 1 .. Len(due') /\ due'[n].row = sent'[i].last
  <2>1. PICK n \in Nat :
             /\ n <= Len(due) /\ n <= Cap(Len(due))
             /\ Gets(SubSeq(sent, 1, i)).rows = ShownBy(req.filter, due, n)
             /\ sent[i].last # NoRow => n \in 1 .. Len(due) /\ due[n].row = sent[i].last
    BY DEF SentInv
  <2>2. Gets(SubSeq(sent, 1, i)).ok
    BY DEF SentInv
  <2>3. ShownBy(req.filter, due', n) = ShownBy(req.filter, due, n)
    BY <1>4, <2>1
  <2>4. n <= Len(due') /\ n <= Cap(Len(due))'
    BY <1>1, <1>3, <2>1
  <2>5. sent[i].last # NoRow => n \in 1 .. Len(due') /\ due'[n].row = sent[i].last
    BY <1>1, <2>1
  <2> QED
    BY <1>1, <2>1, <2>2, <2>3, <2>4, <2>5
<1> QED
  BY <1>1, <1>5 DEF SentInv

\* ScanCell keeps SentInv.
LEMMA SentScanCell ==
  TypeInv /\ SentInv /\ ScanCell /\ TypeInv' /\ CountInv' /\ ExactInv' /\ MarkInv' /\ ClientInv' => SentInv'
<1> SUFFICES ASSUME TypeInv, SentInv, ScanCell, TypeInv', CountInv', ExactInv', MarkInv', ClientInv'
             PROVE SentInv'
  OBVIOUS
<1> DEFINE c == iter[pos + 1]
           ok == Evaluate(eval, c).ok
           buf == AppendCellChunks(chunkBuf, EmitBy(req.filter, c))
<1>1. /\ spoiled' \in BOOLEAN /\ (spoiled => spoiled')
      /\ UNCHANGED <<req, lastScannedRowKey, due>> /\ ok \in BOOLEAN
  BY ScanCellFacts
<1>2. CASE spoiled'
  BY <1>2 DEF SentInv
<1>3. CASE ~spoiled'
  <2>1. ~ok => chunkBuf' = chunkBuf /\ UNCHANGED <<sent, pc>>
    BY <1>3, ScanCellBuffer
  <2>2. ok => /\ buf \in Seq(ChunkSet)
              /\ IF Len(buf) >= BufferSize THEN Flush(buf, "scan") /\ chunkBuf' = <<>>
                 ELSE chunkBuf' = buf /\ UNCHANGED <<sent, pc>>
    BY <1>3, ScanCellBuffer
  <2>3. spoiled' = spoiled
    BY <1>1, <1>3 DEF TypeInv
  <2> HIDE DEF c, ok, buf
  <2>4. CASE sent' = sent
    BY <1>1, <2>4, SentSame
  <2>5. CASE sent' # sent
    <3>1. ok /\ Len(buf) >= BufferSize
      BY <1>1, <2>1, <2>2, <2>5
    <3>2. /\ sent' = Append(sent, [chunks |-> buf, last |-> Reported]) /\ chunkBuf' = <<>>
          /\ pc' # "failed" /\ buf \in Seq(ChunkSet)
      BY <2>2, <2>5, <3>1 DEF Flush
    <3> QED
      BY <1>1, <2>3, <3>2, SentFlush
  <2> QED
    BY <2>4, <2>5
<1> QED
  BY <1>2, <1>3

\* Finish keeps SentInv.
LEMMA SentFinish ==
  TypeInv /\ SentInv /\ Finish /\ TypeInv' /\ CountInv' /\ ExactInv' /\ MarkInv' /\ ClientInv' => SentInv'
<1> SUFFICES ASSUME TypeInv, SentInv, Finish, TypeInv', CountInv', ExactInv', MarkInv', ClientInv'
             PROVE SentInv'
  OBVIOUS
<1>1. UNCHANGED <<req, lastScannedRowKey, due, spoiled>> /\ chunkBuf' = <<>>
  BY DEF Finish
<1>2. CASE sent' = sent
  BY <1>1, <1>2, SentSame
<1>3. CASE sent' # sent
  <2>1. /\ sent' = Append(sent, [chunks |-> chunkBuf, last |-> Reported]) /\ pc' # "failed"
    BY <1>3 DEF Finish, Flush
  <2>2. chunkBuf \in Seq(ChunkSet)
    BY DEF TypeInv
  <2> QED
    BY <1>1, <2>1, <2>2, SentFlush
<1> QED
  BY <1>2, <1>3

\* Every step keeps SentInv.
LEMMA SentStep ==
  TypeInv /\ SentInv /\ [Next]_vars /\ TypeInv' /\ CountInv' /\ ExactInv' /\ MarkInv' /\ ClientInv' => SentInv'
<1> SUFFICES ASSUME TypeInv, SentInv, [Next]_vars, TypeInv', CountInv', ExactInv', MarkInv', ClientInv'
             PROVE SentInv'
  OBVIOUS
<1>1. CASE SkipRange \/ NextRow \/ EndRange \/ (\E r \in Rows : WriteRow(r)) \/ UNCHANGED vars
  <2>1. UNCHANGED <<req, sent, due>> /\ (spoiled => spoiled')
    <3>1. CASE SkipRange
      BY <3>1 DEF SkipRange
    <3>2. CASE NextRow
      BY <3>2 DEF NextRow, EndRow
    <3>3. CASE EndRange
      BY <3>3 DEF EndRange, EndRow
    <3>4. CASE (\E r \in Rows : WriteRow(r))
      BY <3>4 DEF WriteRow
    <3>5. CASE UNCHANGED vars
      BY <3>5 DEF vars
    <3> QED
      BY <1>1, <3>1, <3>2, <3>3, <3>4, <3>5
  <2> QED
    BY <2>1, SentSame
<1> QED
  BY <1>1, SentOpenRange, SentScanCell, SentFinish DEF Next

-------------------------------------------------------------------------------

\* The inductive invariant.
Inv ==
  /\ TypeInv /\ CountInv /\ ExactInv /\ TailInv /\ MarkInv /\ RunInv /\ ClientInv /\ SentInv

\* Inv holds at the start of a call.
LEMMA InvInit == Init => Inv
BY TypeInit, CountInit, ExactInit, RunInit, ClientInit, SentInit DEF Inv

\* Every step keeps Inv.
LEMMA InvStep == Inv /\ [Next]_vars => Inv'
<1> SUFFICES ASSUME Inv, [Next]_vars PROVE Inv'
  OBVIOUS
<1> USE DEF Inv
<1>1. TypeInv'
  BY TypeStep
<1>2. CountInv'
  BY CountStep
<1>3. ExactInv'
  BY ExactStep
<1>4. TailInv'
  BY TailStep
<1>5. MarkInv'
  BY MarkStep
<1>6. RunInv'
  BY RunStep
<1>7. ClientInv'
  BY ClientStep
<1>8. SentInv'
  BY <1>1, <1>2, <1>3, <1>5, <1>7, SentStep
<1> QED
  BY <1>1, <1>2, <1>3, <1>4, <1>5, <1>6, <1>7, <1>8

\* Every state of every call satisfies the inductive invariant: the loop of ReadRows keeps its row
\* count, its buffer, its evaluator and the client in step with the rows that are due, as long as the
\* scan is not spoiled.
THEOREM InvHolds == Spec => []Inv
BY InvInit, InvStep, PTL DEF Spec

\* The bounds of TypeOK follow from TypeInv and CountInv.
LEMMA TypeOfInv == Inv => TypeOK
<1> SUFFICES ASSUME Inv PROVE TypeOK
  OBVIOUS
<1>1. rowCount \in 0 .. Len(due)
  BY Amounts DEF Inv
<1> QED
  BY <1>1 DEF Inv, TypeInv, TypeOK

\* The handler's variables keep their types, the buffer is shorter than cellChunkBufferSize between
\* the steps of ReadRows, and no row is counted that the opened ranges do not have.
THEOREM TypeHolds == Spec => []TypeOK
BY InvHolds, TypeOfInv, PTL

\* PredicateExact follows from HasMatchExact for the evaluator, which is the filter of the request
\* with other counts.
LEMMA PredicateOfInv == Inv => PredicateExact
<1> SUFFICES ASSUME Inv, Plain(req.filter), NEW r \in Rows
             PROVE  LET row == Content[r][version[r]]
                    IN HasMatch(eval, row) <=> RefFilter(req.filter, row, DOMAIN row) # {}
  BY DEF PredicateExact
<1> DEFINE row == Content[r][version[r]]
<1>1. version[r] \in DOMAIN Content[r]
  BY DEF Inv, TypeInv, Versions
<1>2. /\ row \in Seq(Cells)
      /\ \A i, j \in DOMAIN row : row[i].row = r /\ (Id(row[i]) = Id(row[j]) => i = j)
  BY <1>1, ContentFacts
<1> HIDE DEF row
<1>3. OneRow(row, DOMAIN row)
  BY <1>2 DEF OneRow, Id
<1>4. eval \in Evaluators /\ req.filter \in Evaluators /\ Reset(eval) = req.filter /\ Reset(req.filter) = req.filter
  BY RequestFacts DEF Inv, TypeInv
<1>5. HasMatch(eval, row) <=> RefFilter(req.filter, row, DOMAIN row) # {}
  BY <1>2, <1>3, <1>4, HasMatchExact
<1> QED
  BY <1>5 DEF row

\* hasMatch, the predicate of CheckAndMutateRow, answers what the filter means for the row: it may stop
\* at the first cell that passes, whatever the evaluator has counted before.
THEOREM PredicateHolds == Spec => []PredicateExact
BY InvHolds, PredicateOfInv, PTL

\* The client of the properties is the one of the invariant.
LEMMA ClientIs == Client(sent) = Gets(sent) /\ \A i : Client(SubSeq(sent, 1, i)) = Gets(SubSeq(sent, 1, i))
BY DEF Client, Gets

\* RowsExact follows from ClientInv, and from ExactInv at the end of the call.
LEMMA RowsOfInv == Inv => RowsExact
<1> SUFFICES ASSUME Inv, Plain(req.filter), ~spoiled
             PROVE  /\ Gets(sent).ok /\ IsPrefix(Gets(sent).rows, Due)
                    /\ pc = "done" => Gets(sent).rows = Due /\ Gets(sent).cells = <<>>
  BY ClientIs DEF RowsExact
<1> DEFINE f == req.filter
           N == Cap(Len(due))
<1>1. /\ sent \in Seq(ResponseSet) /\ due \in Seq(DueSet) /\ Len(due) \in Nat /\ Len(sent) \in Nat
      /\ rowCount \in Nat /\ rowCount <= Len(due) /\ req.limit \in Nat
  BY Amounts DEF Inv, TypeInv
<1>2. N \in Nat /\ N <= Len(due)
  BY <1>1 DEF Cap
<1>3. Due = ShownBy(f, due, N)
  BY ShownIs DEF Due
<1> HIDE DEF N
<1>4. Gets(sent).ok /\ \E n \in Nat : n <= N /\ Gets(sent).rows = ShownBy(f, due, n)
  <2>1. CASE Len(sent) = 0
    <3>1. Gets(sent) = ClientStart
      <4>1. sent = <<>>
        BY <1>1, <2>1
      <4> QED
        BY <4>1, ChunksEmpty, ReceivedEmpty DEF Gets
    <3>2. ShownBy(f, due, 0) = <<>>
      BY <1>1, ShownNone
    <3> QED
      BY <1>2, <3>1, <3>2 DEF ClientStart
  <2>2. CASE Len(sent) # 0
    <3>1. Len(sent) \in 1 .. Len(sent) /\ SubSeq(sent, 1, Len(sent)) = sent
      BY <1>1, <2>2
    <3>2. /\ Gets(SubSeq(sent, 1, Len(sent))).ok
          /\ \E n \in Nat : n <= N /\ Gets(SubSeq(sent, 1, Len(sent))).rows = ShownBy(f, due, n)
      BY <3>1 DEF Inv, SentInv, N
    <3> QED
      BY <3>1, <3>2
  <2> QED
    BY <2>1, <2>2
<1>5. IsPrefix(Gets(sent).rows, Due)
  BY <1>1, <1>2, <1>3, <1>4, ShownPrefix
<1>6. ASSUME pc = "done" PROVE Gets(sent).rows = Due /\ Gets(sent).cells = <<>>
  <2>1. chunkBuf = <<>>
    BY <1>6 DEF Inv, TypeInv
  <2>2. Taken.rows = ShownBy(f, due, Ended) /\ Taken.cells = <<>>
    BY <1>6 DEF Inv, ClientInv, Promised
  <2>3. Taken = Gets(sent)
    <3>1. Chunks(sent) \o <<>> = Chunks(sent)
      <4>1. Chunks(sent) \in Seq(ChunkSet)
        BY <1>1, ChunksFacts
      <4> QED
        BY <4>1
    <3> QED
      BY <2>1, <3>1 DEF Taken, Gets
  <2>4. Ended = N
    <3>1. rowCount = Len(due) \/ (req.limit > 0 /\ rowCount >= req.limit)
      BY <1>6 DEF Inv, ExactInv
    <3> QED
      BY <1>1, <1>6, <3>1 DEF Ended, Cap, N
  <2> QED
    BY <1>3, <2>2, <2>3, <2>4
<1> QED
  BY <1>4, <1>5, <1>6

\* A client of ReadRows receives the rows of its request, each filtered as a whole, with whole values,
\* from one moment and in order: always a beginning of them, and all of them when the call returns
\* without an error, for every content, buffer size, limit, direction and writer, and Plain filters
\* nested to any depth.  Of a spoiled scan it says nothing: one that left a range out, read a large
\* value over one that was still buffered, or met a row that it cannot delimit.
THEOREM RowsHold == Spec => []RowsExact
BY InvHolds, RowsOfInv, PTL

\* ResumeSafe follows from SentInv.
LEMMA ResumeOfInv == Inv => ResumeSafe
<1> SUFFICES ASSUME Inv, Plain(req.filter), ~spoiled, NEW i \in DOMAIN sent, sent[i].last # NoRow
             PROVE  \E n \in DOMAIN due :
                      due[n].row = sent[i].last /\ Gets(SubSeq(sent, 1, i)).rows = Shown(n)
  BY ClientIs DEF ResumeSafe
<1>1. sent \in Seq(ResponseSet) /\ due \in Seq(DueSet)
  BY DEF Inv, TypeInv
<1>2. i \in 1 .. Len(sent)
  BY <1>1
<1>3. PICK n \in Nat :
         /\ Gets(SubSeq(sent, 1, i)).rows = ShownBy(req.filter, due, n)
         /\ n \in 1 .. Len(due) /\ due[n].row = sent[i].last
  BY <1>2 DEF Inv, SentInv
<1>4. n \in DOMAIN due /\ Shown(n) = ShownBy(req.filter, due, n)
  BY <1>1, <1>3, ShownIs
<1> QED
  BY <1>3, <1>4

\* Whenever a response carries last_scanned_row_key, the responses up to it have committed what the
\* filter leaves of that row and of those before it, and nothing more: a client that resumes behind
\* the key neither loses a row nor reads one twice, unless the scan was spoiled before.
THEOREM ResumeHolds == Spec => []ResumeSafe
BY InvHolds, ResumeOfInv, PTL
===============================================================================
