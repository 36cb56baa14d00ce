------------------------------ MODULE CellKeys ------------------------------
(***************************************************************************)
(* The layout of cells as Pebble keys (pkg/bigtable/encoding.go) under the *)
(* mutations that write and delete them (mutate.go, readmodifywrite.go)    *)
(* and the bounds that read them (readrows.go).                            *)
(*                                                                         *)
(* db holds the encoded keys, byte strings that only their order relates;  *)
(* table holds the cells that the last call should leave of those that     *)
(* Pebble held before it.                                                  *)
(* Bytes are scaled down: MaxByte stands for 0xFF, lengths and timestamps  *)
(* that take several bytes in the code take two here, and the ranges of    *)
(* lengths and of (signed, wrapping) timestamps follow from that.          *)
(***************************************************************************)
EXTENDS Integers, Sequences, FiniteSets

CONSTANTS
  MaxByte,      \* 0xFF
  Columns,      \* [row, family, qualifier] byte strings that calls name
  Stamps,       \* timestamps of SetCell
  TimeRanges,   \* <<start, end>> of DeleteFromColumn; end 0 is "not set"
  Clock,        \* what time.Now may return
  RowRanges,    \* [from, fromOpen, to, toOpen]; Unbounded for a missing side
  Unbounded,
  MaxKeys       \* bound on the number of keys in db

VARIABLES
  db,           \* the keys of the Pebble instance
  table,        \* the cells that should be there
  stray         \* whether the last call is one of the known exceptions: a "name" that its
                \* length field cannot hold, or an unset "end" that spares a cell; else "no"

vars == <<db, table, stray>>

Base == MaxByte + 1
Bytes == 0..MaxByte
Width == Base * Base                      \* 2^64 and 2^16
MaxInt == Width \div 2 - 1                \* math.MaxInt64
Timestamps == (0 - MaxInt - 1)..MaxInt

ASSUME KeysAssumption ==
  /\ MaxByte \in Nat \ {0, 1} /\ MaxByte % 2 = 1
  /\ Columns \subseteq [row : Seq(Bytes), family : Seq(Bytes), qualifier : Seq(Bytes)]
  /\ Stamps \subseteq Timestamps /\ Clock \subseteq 1..MaxInt
  /\ TimeRanges \subseteq Timestamps \X Timestamps
  /\ Unbounded \notin Seq(Bytes)
  /\ RowRanges \subseteq [from : Seq(Bytes) \cup {Unbounded}, fromOpen : BOOLEAN,
                          to : Seq(Bytes) \cup {Unbounded}, toOpen : BOOLEAN]
  /\ MaxKeys \in Nat

Cell(column, ts) == [column |-> column, ts |-> ts]
-----------------------------------------------------------------------------
(* Byte strings in Pebble's order. *)

HasPrefix(key, prefix) ==
  Len(prefix) <= Len(key) /\ SubSeq(key, 1, Len(prefix)) = prefix

Less(a, b) ==
  \/ a # b /\ HasPrefix(b, a)
  \/ \E i \in 1..Len(a) : /\ i <= Len(b) /\ a[i] < b[i]
                          /\ \A j \in 1..(i - 1) : a[j] = b[j]

\* The keys of [start, end): what an iterator visits and DeleteRange removes.
Between(keys, start, end) == {k \in keys : ~Less(k, start) /\ Less(k, end)}

TwoBytes(n) == <<n \div Base, n % Base>>
FromTwoBytes(s) == s[1] * Base + s[2]

\* n wrapped into the signed range.
Signed(n) == ((n + MaxInt + 1) % Width) - (MaxInt + 1)
-----------------------------------------------------------------------------
(* Encoding. *)

\* Mutant: timestamps are stored as they are.
invertedTimestampPlain(ts) == ts % Width

invertedTimestamp(ts) == (MaxInt - ts) % Width
timestampFromInverted(inv) == Signed(MaxInt - Signed(inv))

EscapeByte(b) == IF b = 0 THEN <<0, MaxByte>> ELSE <<b>>

Escape(row) ==
  LET upTo[i \in 0..Len(row)] ==
        IF i = 0 THEN <<>> ELSE upTo[i - 1] \o EscapeByte(row[i])
  IN upTo[Len(row)]

RowPrefix(row) == Escape(row) \o <<0, 0>>

\* A name that its length field cannot hold gives the empty prefix.
FamilyPrefix(rowPrefix, family) ==
  IF Len(family) > MaxByte THEN <<>>
  ELSE rowPrefix \o <<Len(family)>> \o family \o <<0>>

QualifierPrefix(familyPrefix, qualifier) ==
  IF Len(qualifier) >= Width THEN <<>>
  ELSE familyPrefix \o TwoBytes(Len(qualifier)) \o qualifier \o <<0>>

ColumnPrefix(c) ==
  QualifierPrefix(FamilyPrefix(RowPrefix(c.row), c.family), c.qualifier)

EncodeCellKey(c, ts) == ColumnPrefix(c) \o TwoBytes(invertedTimestamp(ts))

\* rowEndKey, familyEndKey and columnEndKey.
EndKey(prefix) == Append(prefix, MaxByte)

\* Mutant: the bounds of a time range are not shifted.
SuccessorNone(inv) == inv

\* inv + 1, which stays at the largest value instead of wrapping.
Successor(inv) == IF inv + 1 = Width THEN Width - 1 ELSE inv + 1

TimestampBounds(prefix, range) ==
  << prefix \o TwoBytes(Successor(invertedTimestamp(range[2]))),
     prefix \o TwoBytes(Successor(invertedTimestamp(range[1]))) >>
-----------------------------------------------------------------------------
(* Decoding. *)

\* Position of the 0 0 that ends the row key; 0 when there is none.
Terminator(key) ==
  LET from[p \in 1..(Len(key) + 2)] ==
        IF p >= Len(key) THEN 0
        ELSE CASE key[p] # 0 -> from[p + 1]
               [] key[p] = 0 /\ key[p + 1] = MaxByte -> from[p + 2]
               [] key[p] = 0 /\ key[p + 1] = 0 -> p
               [] OTHER -> 0
  IN from[1]

Unescape(s) ==
  LET from[p \in 1..(Len(s) + 2)] ==
        IF p > Len(s) THEN <<>>
        ELSE IF p < Len(s) /\ s[p] = 0 /\ s[p + 1] = MaxByte
             THEN <<0>> \o from[p + 2]
             ELSE <<s[p]>> \o from[p + 1]
  IN from[1]

\* The set of cells that a key decodes to: one, or none when Decode fails.
Decode(key) ==
  LET t == Terminator(key)
      f == t + 2                               \* family_len
      famEnd == f + 1 + key[f]                 \* the 0 after the family
      q == famEnd + 1                          \* qual_len
      qualEnd == q + 2 + FromTwoBytes(SubSeq(key, q, q + 1))
  IN IF /\ t # 0 /\ f <= Len(key)
        /\ famEnd <= Len(key) /\ key[famEnd] = 0
        /\ q + 1 <= Len(key)
        /\ qualEnd <= Len(key) /\ key[qualEnd] = 0
        /\ qualEnd + 2 = Len(key)
     THEN {Cell([row |-> Unescape(SubSeq(key, 1, t - 1)),
                 family |-> SubSeq(key, f + 1, famEnd - 1),
                 qualifier |-> SubSeq(key, q + 2, qualEnd - 1)],
                timestampFromInverted(FromTwoBytes(SubSeq(key, qualEnd + 1, Len(key)))))}
     ELSE {}

Decoded(keys) == UNION {Decode(k) : k \in keys}
-----------------------------------------------------------------------------
(* Mutations. *)

DeleteRange(start, end) == db' = db \ Between(db, start, end)

TooLong(family, qualifier) == Len(family) > MaxByte \/ Len(qualifier) >= Width

\* What a call should leave, and whether the code has a reason to leave something else.
Expect(cells, reason) == table' = cells /\ stray' = reason

Misnamed(family, qualifier) == IF TooLong(family, qualifier) THEN "name" ELSE "no"

\* Top byte of a length or of an inverted timestamp is 0xFF: not below an end key.
TopByte(n) == n \div Base = MaxByte

\* applySetCell; -1 asks for the server's clock.
SetCell(c, ts) ==
  /\ Cardinality(db) < MaxKeys
  /\ ~TooLong(c.family, c.qualifier)
  /\ \E now \in Clock :
       LET stamp == IF ts = -1 THEN now ELSE ts
       IN /\ db' = db \cup {EncodeCellKey(c, stamp)}
          /\ Expect(Decoded(db) \cup {Cell(c, stamp)}, "no")

\* applyDeleteFromColumn without a time range.
DeleteFromColumn(c) ==
  /\ DeleteRange(ColumnPrefix(c), EndKey(ColumnPrefix(c)))
  /\ Expect({x \in Decoded(db) : x.column # c \/ TopByte(invertedTimestamp(x.ts))},
            Misnamed(c.family, c.qualifier))

\* The cells of a column in a time range; an end of 0 is not set and stands for infinity.
InTimeRange(c, range) ==
  {x \in Decoded(db) : /\ x.column = c /\ range[1] <= x.ts
                       /\ range[2] = 0 \/ x.ts < range[2]}

\* An end that is not set becomes the server's clock, and spares the cells from there on.
UnsetEnd(c, range, now) ==
  IF range[2] = 0 /\ \E x \in InTimeRange(c, range) : now <= x.ts THEN "end" ELSE "no"

\* applyDeleteFromColumn with a time range.
DeleteTimeRange(c, range) ==
  \E now \in Clock :
    LET end == IF range[2] = 0 THEN now ELSE range[2]
        bounds == TimestampBounds(ColumnPrefix(c), <<range[1], end>>)
    IN /\ DeleteRange(bounds[1], bounds[2])
       /\ Expect({x \in Decoded(db) : x \notin InTimeRange(c, range) \/ x.ts = 0 - MaxInt - 1},
                 IF TooLong(c.family, c.qualifier) THEN "name" ELSE UnsetEnd(c, range, now))

\* applyDeleteFromFamily.
DeleteFromFamily(row, family) ==
  LET prefix == FamilyPrefix(RowPrefix(row), family)
  IN /\ DeleteRange(prefix, EndKey(prefix))
     /\ Expect({x \in Decoded(db) : \/ x.column.row # row \/ x.column.family # family
                                    \/ TopByte(Len(x.column.qualifier))},
               Misnamed(family, <<>>))

\* applyDeleteFromRow.
DeleteFromRow(row) ==
  /\ DeleteRange(RowPrefix(row), EndKey(RowPrefix(row)))
  /\ Expect({x \in Decoded(db) : x.column.row # row \/ Len(x.column.family) = MaxByte}, "no")

\* ReadModifyWriteRow with one rule: the write, whose names' lengths nobody checks.
ReadModifyWrite(c) ==
  /\ Cardinality(db) < MaxKeys
  /\ c.row # <<>>
  /\ \E now \in Clock : /\ db' = db \cup {EncodeCellKey(c, now)}
                        /\ Expect(Decoded(db) \cup {Cell(c, now)},
                                  Misnamed(c.family, c.qualifier))

Init == db = {} /\ table = {} /\ stray = "no"

Next ==
  \/ \E c \in Columns, ts \in Stamps : SetCell(c, ts)
  \/ \E c \in Columns, range \in TimeRanges : DeleteTimeRange(c, range)
  \/ \E c \in Columns : DeleteFromColumn(c) \/ ReadModifyWrite(c)
  \/ \E f \in {<<c.row, c.family>> : c \in Columns} : DeleteFromFamily(f[1], f[2])
  \/ \E row \in {c.row : c \in Columns} : DeleteFromRow(row)

Spec == Init /\ [][Next]_vars
-----------------------------------------------------------------------------
(* Reads. *)

Smallest(keys) == {k \in keys : \A other \in keys : ~Less(other, k)}

\* Mutant: the last key between the bounds.
ReadCellOldest(c) ==
  LET keys == Between(db, ColumnPrefix(c), EndKey(ColumnPrefix(c)))
  IN {k \in keys : \A other \in keys : ~Less(k, other)}

\* readCellValue: the first key between the bounds, if it is of the column.
ReadCell(c) ==
  {k \in Smallest(Between(db, ColumnPrefix(c), EndKey(ColumnPrefix(c)))) :
     HasPrefix(k, ColumnPrefix(c))}

\* Mutant: an open end is the end key of its row.
ScanPastEnd(range) ==
  {k \in db : /\ \/ range.from = Unbounded
                 \/ range.fromOpen /\ ~Less(k, EndKey(RowPrefix(range.from)))
                 \/ ~range.fromOpen /\ ~Less(k, RowPrefix(range.from))
              /\ range.to = Unbounded \/ Less(k, EndKey(RowPrefix(range.to)))}

\* rowRangeToBounds; row keys of a request are RowRanges with equal, closed ends.
Scan(range) ==
  LET from == IF range.from = Unbounded THEN <<>>
              ELSE IF range.fromOpen THEN EndKey(RowPrefix(range.from))
              ELSE RowPrefix(range.from)
      to == IF range.toOpen THEN RowPrefix(range.to) ELSE EndKey(RowPrefix(range.to))
  IN {k \in db : /\ ~Less(k, from)
                 /\ range.to = Unbounded \/ Less(k, to)}
-----------------------------------------------------------------------------
(* Properties. *)

TypeOK ==
  /\ db \subseteq Seq(Bytes)
  /\ table \subseteq [column : [row : Seq(Bytes), family : Seq(Bytes), qualifier : Seq(Bytes)],
                      ts : Timestamps]
  /\ stray \in {"no", "name", "end"}

\* Every call leaves exactly the cells that it should: each DeleteRange of mutate.go removes
\* all the cells the call names, but those whose length or timestamp byte reaches the 0xFF
\* of the end key, and no cell of a neighbouring row, family or column. Not covered are the
\* calls that go astray themselves: those that name a family or qualifier which does not fit
\* its length field, and the time ranges whose unset end spares a cell.
CellsExact == stray = "no" => Decoded(db) = table

\* Different cells whose names fit have different keys, and Pebble's order of them is the one ReadRows and
\* CheckAndMutateRow rely on: rows in the order of their raw keys, a row's keys next to
\* each other, and within a column the newest cell first, negative timestamps included.
KeyOrder ==
  \A x, y \in table :
    LET a == EncodeCellKey(x.column, x.ts)
        b == EncodeCellKey(y.column, y.ts)
    IN /\ x # y
       /\ ~TooLong(x.column.family, x.column.qualifier)
       /\ ~TooLong(y.column.family, y.column.qualifier)
       => /\ a # b
          /\ Less(a, b) => /\ ~Less(y.column.row, x.column.row)
                           /\ x.column = y.column => x.ts > y.ts

InRange(row, range) ==
  /\ range.from = Unbounded \/ Less(range.from, row)
       \/ (row = range.from /\ ~range.fromOpen)
  /\ range.to = Unbounded \/ Less(row, range.to)
       \/ (row = range.to /\ ~range.toOpen)

\* The bounds that rowRangeToBounds computes select the cells of the rows in the range
\* and no others, whatever bytes the row keys hold; only a cell whose family name has
\* 255 bytes may fall on the wrong side of an end key.
ScanExact ==
  \A range \in RowRanges : \A k \in db : \A x \in Decode(k) :
    Len(x.column.family) # MaxByte =>
      (k \in Scan(range) <=> InRange(x.column.row, range))

\* ReadModifyWriteRow builds on the newest cell of its column, and on no cell of another
\* column. It does not cover a column that an over-long name of another call happens to
\* spell out: such a name has no prefix of its own, and its key can begin with any other.
LatestRead ==
  \A c \in Columns : ~TooLong(c.family, c.qualifier) =>
    LET cells == {x \in Decoded(db) : /\ x.column = c
                                      /\ ~TopByte(invertedTimestamp(x.ts))}
    IN Decoded(ReadCell(c)) = {x \in cells : \A y \in cells : y.ts <= x.ts}

\* "Mutates a row atomically. Cells already present in the row are left unchanged unless
\* explicitly changed by `mutation`" (bigtable_grpc.pb.go:70-71): a call takes cells away
\* from the row it names only.
OneRowChanged ==
  [][\A x, y \in Decoded(db) \ Decoded(db') : x.column.row = y.column.row]_vars

\* "The exclusive upper bound on timestamps. If left empty, interpreted as infinity."
\* (data.pb.go:945): a time range without an end leaves no cell from its start on.
UnsetEndExact == stray = "end" => Decoded(db) = table

\* "guaranteed to be lexicographically greater than any cell key in this row"
\* (encoding.go:317-318), the promise rowEndKey makes.
EndKeyAbove ==
  \A k \in db, c \in Columns :
    HasPrefix(k, RowPrefix(c.row)) => Less(k, EndKey(RowPrefix(c.row)))
=============================================================================
