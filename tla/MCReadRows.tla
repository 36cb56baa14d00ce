------------------------------ MODULE MCReadRows ------------------------------
(* A table of three rows and one under the empty key; each of two rows changes once
   during the scan.  Two cells are too large for a single chunk. *)
EXTENDS ReadRows

Cell(row, qual, ts, val, parts) ==
  [row |-> row, fam |-> 1, qual |-> qual, ts |-> ts, val |-> val, parts |-> parts]

MCContent ==
  0 :> << <<>>, <<Cell(0, 1, 1, 1, 1)>> >> @@
  1 :> << <<Cell(1, 0, 2, 1, 1), Cell(1, 0, 1, 2, 1)>>, <<Cell(1, 1, 3, 3, 2)>> >> @@
  2 :> << <<Cell(2, 1, 2, 2, 1), Cell(2, 1, 1, 1, 1), Cell(2, 2, 1, 1, 2)>>, <<>> >> @@
  3 :> << <<Cell(3, 1, 1, 2, 1)>> >>

Simple ==
  {PassAll, StripValue, Regex("qual", {1}), Regex("row", {1, 3}),
   ColumnRange(1, Bound(0, TRUE), Bound(2, FALSE)), ColumnRange(0, Bound(1, FALSE), NoBound),
   ValueRange(NoBound, Bound(1, TRUE)), TimestampRange(1, 2),
   CellsPerRowOffset(1), CellsPerRowLimit(1), CellsPerColumnLimit(1)}

\* A leaf, or two or three of them put together.
Filters ==
  Simple \cup {ChainOf(<<f, g>>) : f \in Simple, g \in {CellsPerRowLimit(1), TimestampRange(1, 2)}}
  \cup {ChainOf(<<f, StripValue>>) : f \in {Regex("qual", {1}), CellsPerRowLimit(1)}}
  \cup {InterleaveOf(<<ChainOf(<<Regex("qual", {0, 1}), f>>), Regex("qual", {2})>>) :
          f \in {PassAll, Regex("row", {1, 3}), ValueRange(NoBound, Bound(1, TRUE)),
                 CellsPerRowLimit(1), StripValue}}
  \cup {InterleaveOf(<<TimestampRange(2, 0), f>>) : f \in {TimestampRange(1, 2), PassAll, CellsPerRowOffset(1)}}
  \cup {ConditionOf(p, t, f) : p \in {Regex("row", {1}), Regex("qual", {1})},
                               t \in {CellsPerRowLimit(1), Missing},
                               f \in {BlockAll, InterleaveOf(<<Regex("val", {1}), TimestampRange(1, 2)>>),
                                     InterleaveOf(<<TimestampRange(2, 0), TimestampRange(1, 2)>>)}}

\* The whole table; two keys out of order; overlapping ranges.
Ranges == {<<0 .. 3>>, <<{3}, {1}>>, <<1 .. 2, 2 .. 3>>}

MCRequests ==
  [ranges : {<<0 .. 3>>}, limit : {0, 2}, reversed : BOOLEAN, filter : Filters]
  \cup [ranges : Ranges, limit : {0, 1, 2}, reversed : BOOLEAN,
        filter : {PassAll, CellsPerRowOffset(1), ChainOf(<<Regex("qual", {1}), CellsPerRowLimit(1)>>)}]
===============================================================================
