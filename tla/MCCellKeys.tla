----------------------------- MODULE MCCellKeys -----------------------------
\* Bytes 0..3, so that a family name of three bytes has the length byte 0xFF, a qualifier
\* of twelve bytes has it as the first byte of its length, and the timestamps below -4
\* have it as the first byte of their inversion.
EXTENDS CellKeys

Column(row, family, qualifier) ==
  [row |-> row, family |-> family, qualifier |-> qualifier]
Ones(n) == [i \in 1..n |-> 1]

\* Row keys that are prefixes of each other, end in 0 or 0xFF, or are empty.
RowKeys == {<<>>, <<0>>, <<0, 0>>, <<1>>, <<1, 0>>, <<1, 0, 1>>, <<1, 3>>, <<1, 1>>, <<3>>}

\* One column in each of these rows, and in row <<1>> neighbouring families and
\* qualifiers, names at the limit of their length field and names beyond it.
SomeColumns ==
  {Column(row, <<1>>, <<1>>) : row \in RowKeys}
    \cup {Column(<<1>>, f, q) : f \in {<<1>>, Ones(2), Ones(3)}, q \in {<<>>, Ones(12)}}
    \cup {Column(<<1>>, Ones(4), q) : q \in {<<>>, <<1>>}}
    \cup {Column(<<1>>, <<1>>, Ones(16))}

SomeStamps == {-8, -5, -4, -1, 0, 7}
SomeTimeRanges == {<<0, 0>>, <<0, 7>>, <<1, 2>>, <<-8, -4>>, <<-8, 7>>, <<1, -8>>}

SomeRowRanges ==
  [from : {<<>>, <<0>>, <<1>>, <<1, 0>>, <<3>>, Unbounded}, fromOpen : BOOLEAN,
   to : {<<0>>, <<1>>, <<1, 0>>, <<1, 3>>, Unbounded}, toOpen : BOOLEAN]
=============================================================================
