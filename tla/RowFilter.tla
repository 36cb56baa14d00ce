------------------------------- MODULE RowFilter -------------------------------
(* Row filters: the tree of evaluators that is built from a request's RowFilter
   and is fed the cells of a scan one by one (filter.go), next to what the filter
   means for a whole row.

   An evaluator is a record that holds its own counters.  A cell is a record of
   small numbers, 0 being the empty string; a regular expression is the set of
   strings it matches.  What is recursive over the tree is a function of the depth
   to which filters are nested. *)
EXTENDS Integers, Sequences, FiniteSets

CONSTANT MaxDepth   \* how deep filters are nested

ASSUME MaxDepthAssumption == MaxDepth \in Nat

Depths == 0 .. MaxDepth

\* parts: the chunks that the value takes.
Cells == [row : Nat, fam : Nat, qual : Nat, ts : Int, val : Nat, parts : Nat \ {0}]

-------------------------------------------------------------------------------
(* Evaluators as buildEvaluator makes them, with no cell seen. *)

PassAll == [kind |-> "pass"]
BlockAll == [kind |-> "block"]
StripValue == [kind |-> "strip"]
\* The true_filter of a condition that has none.
Missing == [kind |-> "missing"]

\* One of the fields "row", "fam", "qual", "val" matches a regular expression, or the value
\* a bit mask.
Regex(field, in) == [kind |-> "regex", field |-> field, in |-> in]

\* A bound of a column or value range; an unset one is not there.
Bound(key, incl) == [set |-> TRUE, key |-> key, incl |-> incl]
NoBound == [set |-> FALSE, key |-> 0, incl |-> FALSE]

ColumnRange(fam, lo, hi) == [kind |-> "columns", fam |-> fam, lo |-> lo, hi |-> hi]
ValueRange(lo, hi) == [kind |-> "values", lo |-> lo, hi |-> hi]
TimestampRange(start, end) == [kind |-> "times", start |-> start, end |-> end]

CellsPerRowOffset(n) == [kind |-> "offset", n |-> n, count |-> 0]
CellsPerRowLimit(n) == [kind |-> "limit", n |-> n, count |-> 0]
CellsPerColumnLimit(n) == [kind |-> "column", n |-> n, counts |-> <<>>]

ChainOf(fs) == [kind |-> "chain", fs |-> fs]
InterleaveOf(fs) == [kind |-> "interleave", fs |-> fs, seen |-> {}]
\* fs: the predicate, the filter for a match, the filter for no match (BlockAll if there
\* is none).
ConditionOf(p, t, f) == [kind |-> "condition", fs |-> <<p, t, f>>]

Composite(e) == e.kind \in {"chain", "interleave", "condition"}
Counter(e) == e.kind \in {"offset", "limit", "column"}

Bounds == [set : {TRUE}, key : Nat, incl : BOOLEAN] \cup {NoBound}

Leaves ==
  [kind : {"pass", "block", "strip", "missing"}]
  \cup [kind : {"regex"}, field : {"row", "fam", "qual", "val"}, in : SUBSET Nat]
  \cup [kind : {"columns"}, fam : Nat, lo : Bounds, hi : Bounds]
  \cup [kind : {"values"}, lo : Bounds, hi : Bounds]
  \cup [kind : {"times"}, start : Int, end : Int]
  \cup [kind : {"offset", "limit"}, n : Int, count : Nat]
  \cup [kind : {"column"}, n : Int, counts : Seq(Nat \X Nat)]

\* The evaluators whose members are in S.
Composites(S) ==
  [kind : {"chain"}, fs : Seq(S)]
  \cup [kind : {"interleave"}, fs : Seq(S), seen : SUBSET (Nat \X Nat \X Int)]
  \cup [kind : {"condition"}, fs : [1 .. 3 -> S]]

\* The evaluators that are nested up to n deep.
Trees[n \in Depths] == IF n = 0 THEN Leaves ELSE Leaves \cup Composites(Trees[n - 1])

Evaluators == Trees[MaxDepth]

-------------------------------------------------------------------------------
(* evaluate and reset *)

\* A bound whose key is empty counts as no bound at all.
WithinBounds(x, lo, hi) ==
  /\ lo.key # 0 => x > lo.key \/ (lo.incl /\ x = lo.key)
  /\ hi.key # 0 => x < hi.key \/ (hi.incl /\ x = hi.key)

\* Mutant: the end of the timestamp range is taken as inclusive.
WithinTimesInclusive(ts, e) == (e.start > 0 => ts >= e.start) /\ (e.end > 0 => ts <= e.end)

\* A start or an end that is not positive is no limit.
WithinTimes(ts, e) == (e.start > 0 => ts >= e.start) /\ (e.end > 0 => ts < e.end)

\* How often a column was counted.
CountOf(counts, col) == Cardinality({i \in DOMAIN counts : counts[i] = col})

\* The filters without state.
Matches(e, c) ==
  CASE e.kind \in {"pass", "strip", "missing"} -> TRUE
    [] e.kind = "block" -> FALSE
    [] e.kind = "regex" -> c[e.field] \in e.in
    [] e.kind = "columns" -> (e.fam = 0 \/ c.fam = e.fam) /\ WithinBounds(c.qual, e.lo, e.hi)
    [] e.kind = "values" -> WithinBounds(c.val, e.lo, e.hi)
    [] e.kind = "times" -> WithinTimes(c.ts, e)

\* The filters that count: the answer, and the evaluator afterwards.
Counted(e, c) ==
  CASE e.kind = "offset" ->
         [ok |-> e.count + 1 > e.n, e |-> [e EXCEPT !.count = @ + 1]]
    [] e.kind = "limit" ->
         [ok |-> e.count < e.n, e |-> IF e.count < e.n THEN [e EXCEPT !.count = @ + 1] ELSE e]
    [] e.kind = "column" ->
         LET col == <<c.fam, c.qual>>
             more == CountOf(e.counts, col) < e.n
         IN [ok |-> more, e |-> IF more THEN [e EXCEPT !.counts = Append(@, col)] ELSE e]

\* In a composite, v[i] is what member i says of the cell.  The members in I are
\* asked; the others keep their state.
Ask(e, v, I) == [i \in DOMAIN e.fs |-> IF i \in I THEN v[i].e ELSE e.fs[i]]

\* A chain stops at the first member that rejects the cell.
EvalChain(e, v) ==
  [ok |-> \A i \in DOMAIN e.fs : v[i].ok,
   e |-> [e EXCEPT !.fs = Ask(e, v, {i \in DOMAIN e.fs : \A j \in 1 .. i - 1 : v[j].ok})]]

\* An interleave stops at the first member that accepts it, and lets a cell pass once.
EvalInterleave(e, v, c) ==
  LET accepted == \E i \in DOMAIN e.fs : v[i].ok
      id == <<c.fam, c.qual, c.ts>>
  IN [ok |-> accepted /\ id \notin e.seen,
      e |-> [kind |-> "interleave",
             fs |-> Ask(e, v, {i \in DOMAIN e.fs : \A j \in 1 .. i - 1 : ~v[j].ok}),
             seen |-> IF accepted THEN e.seen \cup {id} ELSE e.seen]]

\* A condition asks the predicate about this cell, and then one of the branches.
EvalCondition(e, v) ==
  LET branch == IF v[1].ok THEN 2 ELSE 3
  IN [ok |-> v[branch].ok, e |-> [e EXCEPT !.fs = Ask(e, v, {1, branch})]]

EvaluateTo[n \in Depths] ==
  [e \in Trees[n] |-> [c \in Cells |->
     LET v == [i \in DOMAIN e.fs |-> EvaluateTo[n - 1][e.fs[i]][c]]
     IN CASE e.kind = "chain" -> EvalChain(e, v)
          [] e.kind = "interleave" -> EvalInterleave(e, v, c)
          [] e.kind = "condition" -> EvalCondition(e, v)
          [] Counter(e) -> Counted(e, c)
          [] OTHER -> [ok |-> Matches(e, c), e |-> e]]]

Evaluate(e, c) == EvaluateTo[MaxDepth][e][c]

ResetTo[n \in Depths] ==
  [e \in Trees[n] |->
     LET fs == [i \in DOMAIN e.fs |-> ResetTo[n - 1][e.fs[i]]]
     IN CASE e.kind \in {"chain", "condition"} -> [e EXCEPT !.fs = fs]
          [] e.kind = "interleave" -> InterleaveOf(fs)
          [] e.kind \in {"offset", "limit"} -> [e EXCEPT !.count = 0]
          [] e.kind = "column" -> [e EXCEPT !.counts = <<>>]
          [] OTHER -> e]

Reset(e) == ResetTo[MaxDepth][e]

\* evaluatorHasStripValue: a transformer anywhere in the tree strips every value.
StripTo[n \in Depths] ==
  [e \in Trees[n] |->
     \/ e.kind = "strip"
     \/ Composite(e) /\ \E i \in DOMAIN e.fs : StripTo[n - 1][e.fs[i]]]

HasStripValue(e) == StripTo[MaxDepth][e]

\* hasMatch, the predicate of CheckAndMutateRow: the cells of the row are evaluated one
\* after the other until one passes.
HasMatch(e, cells) ==
  LET after[i \in 0 .. Len(cells)] ==
        IF i = 0 THEN Reset(e) ELSE Evaluate(after[i - 1], cells[i]).e
  IN \E i \in DOMAIN cells : Evaluate(after[i - 1], cells[i]).ok

-------------------------------------------------------------------------------
(* What the API's documentation says a filter selects, for some cells of a sequence, given
   and left as the set of their positions: each element of a chain filters the output of
   the one before it, those of an interleave all see the whole row, a condition chooses a
   branch for the row, and without a true_filter selects nothing in it.

   A set has no duplicates, and it says nothing of values that a part of the tree strips:
   of interleaves that let a cell pass twice, and of transformers with filters behind or
   beside them, the documentation says more (Plain leaves them out). *)

RefWithin(x, lo, hi) ==
  /\ lo.set => x > lo.key \/ (lo.incl /\ x = lo.key)
  /\ hi.set => x < hi.key \/ (hi.incl /\ x = hi.key)

RefMatches(e, c) ==
  CASE e.kind = "columns" -> (e.fam = 0 \/ c.fam = e.fam) /\ RefWithin(c.qual, e.lo, e.hi)
    [] e.kind = "values" -> RefWithin(c.val, e.lo, e.hi)
    [] e.kind = "times" -> c.ts >= e.start /\ (e.end # 0 => c.ts < e.end)
    [] e.kind = "missing" -> FALSE
    [] OTHER -> Matches(e, c)

\* The positions that a counting filter keeps.
RefKept(e, cells, I) ==
  CASE e.kind = "offset" -> {i \in I : Cardinality({j \in I : j <= i}) > e.n}
    [] e.kind = "limit" -> {i \in I : Cardinality({j \in I : j <= i}) <= e.n}
    [] e.kind = "column" ->
         {i \in I : Cardinality({j \in I : /\ j <= i
                                           /\ cells[j].fam = cells[i].fam
                                           /\ cells[j].qual = cells[i].qual}) <= e.n}

RefTo[n \in Depths] ==
  [e \in Trees[n] |-> [cells \in Seq(Cells) |-> [I \in SUBSET Nat |->
     LET of(k, J) == RefTo[n - 1][e.fs[k]][cells][J]
         out[k \in 0 .. Len(e.fs)] == IF k = 0 THEN I ELSE of(k, out[k - 1])
     IN CASE e.kind = "chain" -> out[Len(e.fs)]
          [] e.kind = "interleave" -> UNION {of(k, I) : k \in DOMAIN e.fs}
          [] e.kind = "condition" -> IF of(1, I) # {} THEN of(2, I) ELSE of(3, I)
          [] Counter(e) -> RefKept(e, cells, I)
          [] OTHER -> {i \in I : RefMatches(e, cells[i])}]]]

RefFilter(e, cells, I) == RefTo[MaxDepth][e][cells][I]

(* The trees for which that is all there is to say, and whose cell-by-cell evaluation can
   agree with it: values are stripped behind everything else; no cell passes two members
   of an interleave, which do not count cells either, since they do not see the cells an
   earlier member accepted; the predicate of a condition looks at the row only, and its
   true_filter is there; a bound that is set is not the empty string, except for an
   inclusive start; a time range has a start, since without one it lets negative times
   pass, too. *)
StatelessTo[n \in Depths] ==
  [e \in Trees[n] |->
     ~Counter(e) /\ (Composite(e) => \A i \in DOMAIN e.fs : StatelessTo[n - 1][e.fs[i]])]

\* A transformer is the whole filter, or the end of a chain.
StripsLast(n, e) ==
  \A i \in DOMAIN e.fs : (e.kind = "chain" /\ i = Len(e.fs)) \/ ~StripTo[n - 1][e.fs[i]]

\* No cell passes both filters, which or of which chains two members exclude each other.
Links(e) == IF e.kind = "chain" THEN {e.fs[i] : i \in DOMAIN e.fs} ELSE {e}
Exclude(a, b) ==
  \/ a.kind = "block"
  \/ a.kind = "regex" /\ b.kind = "regex" /\ a.field = b.field /\ a.in \cap b.in = {}
  \/ a.kind = "columns" /\ b.kind = "columns" /\ a.fam # b.fam /\ 0 \notin {a.fam, b.fam}
  \/ a.kind = "times" /\ b.kind = "times" /\ 0 < a.end /\ a.end <= b.start
Apart(e, f) == \E a \in Links(e), b \in Links(f) : Exclude(a, b) \/ Exclude(b, a)

RowOnly(e) == e.kind \in {"pass", "block"} \/ (e.kind = "regex" /\ e.field = "row")

PlainTo[n \in Depths] ==
  [e \in Trees[n] |->
     /\ Composite(e) => StripsLast(n, e) /\ \A i \in DOMAIN e.fs : PlainTo[n - 1][e.fs[i]]
     /\ e.kind = "interleave" =>
          /\ \A i \in DOMAIN e.fs : StatelessTo[n - 1][e.fs[i]]
          /\ \A i, j \in DOMAIN e.fs : i # j => Apart(e.fs[i], e.fs[j])
     /\ e.kind # "missing"
     /\ e.kind = "condition" => RowOnly(e.fs[1])
     /\ e.kind \in {"columns", "values"} =>
          /\ e.lo.set => e.lo.key # 0 \/ e.lo.incl
          /\ e.hi.set => e.hi.key # 0
     /\ e.kind = "times" => e.start > 0 /\ e.end >= 0]

Plain(e) == PlainTo[MaxDepth][e]
===============================================================================
