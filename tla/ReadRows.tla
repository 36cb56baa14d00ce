------------------------------- MODULE ReadRows -------------------------------
(* Server.ReadRows: a scan of the requested key ranges, one Pebble iterator per
   range, whose cells pass through the row filter and leave as CellChunks, while
   other calls write to the table.  The client is the other end of the stream: it
   puts rows together from chunks and takes a row when it is committed.

   Rows are the natural numbers in key order, 0 being the empty key.  Every row has
   versions: what it held before and after the writes of others. *)
EXTENDS RowFilter, SequencesExt

CONSTANTS
  Content,      \* the cells of a row, in key order, in each of its versions
  Requests,     \* [ranges, limit, reversed, filter]
  BufferSize    \* cellChunkBufferSize

Rows == DOMAIN Content
EmptyKey == 0
NoRow == -1

\* What makes a cell of a row different from the others.
Id(c) == <<c.fam, c.qual, c.ts>>

ASSUME ReadRowsAssumption ==
  /\ Rows \subseteq Nat /\ BufferSize \in Nat \ {0}
  /\ \A r \in Rows :
       /\ Content[r] \in Seq(Seq(Cells)) /\ Content[r] # <<>>
       /\ \A v \in DOMAIN Content[r] :
            LET cells == Content[r][v]
            IN \A i, j \in DOMAIN cells :
                 /\ cells[i].row = r
                 /\ Id(cells[i]) = Id(cells[j]) => i = j
  /\ \A q \in Requests :
       /\ q.ranges \in Seq(SUBSET Rows) /\ \A i \in DOMAIN q.ranges : IsFiniteSet(q.ranges[i])
       /\ q.limit \in Nat /\ q.reversed \in BOOLEAN
       /\ q.filter \in Evaluators /\ Reset(q.filter) = q.filter

VARIABLES
  version,      \* the current version of each row
  req,          \* the request
  pc,           \* where the handler is
  range,        \* the index of the range under way
  iter, pos,    \* the cells under the iterator, and how many of them it has passed
  lastRowKey, rowStarted, rowCount, lastScannedRowKey,
  eval,         \* the filter's evaluator
  chunkBuf,
  sent,         \* the responses on the stream: [chunks, last]
  due,          \* history: the rows of the ranges opened so far, with what the filter leaves
  spoiled       \* history: the scan met a row it cannot delimit, wrote over a value that it
                \* had not sent, or left a range out

vars == <<version, req, pc, range, iter, pos, lastRowKey, rowStarted, rowCount,
          lastScannedRowKey, eval, chunkBuf, sent, due, spoiled>>

scanVars == <<lastRowKey, rowStarted, rowCount, eval, chunkBuf, lastScannedRowKey>>

Init ==
  /\ version = [r \in Rows |-> 1]
  /\ req \in Requests
  /\ pc = "open" /\ range = 1 /\ iter = <<>> /\ pos = 0
  /\ lastRowKey = EmptyKey /\ rowStarted = FALSE /\ rowCount = 0
  /\ lastScannedRowKey = NoRow
  /\ eval = req.filter
  /\ chunkBuf = <<>> /\ sent = <<>>
  /\ due = <<>> /\ spoiled = FALSE

\* The values of s at the numbers in I, in their order.
At(s, I) ==
  [n \in 1 .. Cardinality(I) |-> s[CHOOSE i \in I : Cardinality({j \in I : j <= i}) = n]]

-------------------------------------------------------------------------------
(* Chunks *)

\* A value that is stripped needs no continuation.
Emitted(c) ==
  IF HasStripValue(req.filter)
  THEN [row |-> c.row, fam |-> c.fam, qual |-> c.qual, ts |-> c.ts, val |-> 0, parts |-> 1]
  ELSE c

\* Mutant: continuation chunks repeat the row key and the rest of the cell.
AppendCellChunksFull(buf, c) ==
  buf \o [i \in 1 .. c.parts |-> [row |-> c.row, cell |-> c, first |-> TRUE, commit |-> FALSE]]

\* appendCellChunks: only the first chunk of a cell says which cell it is.
AppendCellChunks(buf, c) ==
  buf \o [i \in 1 .. c.parts |->
            [row |-> IF i = 1 THEN c.row ELSE NoRow, cell |-> c, first |-> i = 1,
             commit |-> FALSE]]

\* Where the value of c, read into valBuf, reaches continuation chunks: they are slices
\* of valBuf, and those of one cell lie behind each other.
Exposed(c) ==
  {i \in DOMAIN chunkBuf : ~chunkBuf[i].first /\
     \E k \in DOMAIN chunkBuf :
       k < i /\ i - k < c.parts /\ chunkBuf[k].first /\ \A j \in k + 1 .. i : ~chunkBuf[j].first}

\* The buffer once c is read into valBuf: what it reaches is written over, except the first
\* n chunks, from before append needed a larger array.
Overwritten(c, n) ==
  [i \in DOMAIN chunkBuf |->
     IF i \in Exposed(c) /\ i > n THEN [chunkBuf[i] EXCEPT !.cell.val = c.val] ELSE chunkBuf[i]]

\* commitLastChunk: nothing happens if the chunks of the row were sent already.
CommitLastChunk(buf) ==
  IF buf = <<>> THEN buf ELSE [buf EXCEPT ![Len(buf)].commit = TRUE]

\* The row under way has chunks on the stream and none in the buffer: nothing is left
\* to mark, and the row is never committed.
Unmarked ==
  /\ rowStarted /\ chunkBuf = <<>> /\ sent # <<>>
  /\ \E i \in DOMAIN Last(sent).chunks : Last(sent).chunks[i].cell.row = lastRowKey
  /\ ~Last(Last(sent).chunks).commit

\* The key that a response carries: an empty one is left out.
Reported == IF lastScannedRowKey = EmptyKey THEN NoRow ELSE lastScannedRowKey

\* A flush: the buffer goes out, or the stream is broken and the handler returns.
Flush(buf, next) ==
  \/ /\ sent' = Append(sent, [chunks |-> buf, last |-> Reported])
     /\ pc' = next
  \/ sent' = sent /\ pc' = "failed"

-------------------------------------------------------------------------------
(* The scan *)

\* The cells of a range in the versions of this moment, in the direction of the scan.
Snapshot ==
  LET now == [r \in Rows |-> Content[r][version[r]]]
      seen == FlattenSeq(At(now, req.ranges[range]))
  IN IF req.reversed THEN Reverse(seen) ELSE seen

\* Where the rows of a scan begin, and the cells of the row that begins at h.
Heads(scan) == {i \in DOMAIN scan : i = 1 \/ scan[i].row # scan[i - 1].row}
RowAt(scan, h) == {i \in DOMAIN scan : scan[i].row = scan[h].row}

\* The rows of a scan, each with what the filter leaves of it.
Filtered(scan) ==
  At([h \in DOMAIN scan |->
        [row |-> scan[h].row, cells |-> At(scan, RefFilter(req.filter, scan, RowAt(scan, h)))]],
     Heads(scan))

OpenRange ==
  /\ pc = "open" /\ range <= Len(req.ranges)
  /\ iter' = Snapshot /\ pos' = 0
  /\ due' = due \o Filtered(Snapshot)
  /\ lastRowKey' = EmptyKey /\ rowStarted' = FALSE
  /\ pc' = "scan"
  /\ UNCHANGED <<version, req, range, rowCount, lastScannedRowKey, eval, chunkBuf, sent, spoiled>>

\* NewIter failed: the range is left out, without an error.
SkipRange ==
  /\ pc = "open" /\ range <= Len(req.ranges)
  /\ range' = range + 1
  /\ spoiled' = TRUE
  /\ UNCHANGED <<version, req, pc, iter, pos, scanVars, sent, due>>

AtEnd == pos = Len(iter)
AtBoundary == ~AtEnd /\ iter[pos + 1].row # lastRowKey
LimitReached(n) == req.limit > 0 /\ n > req.limit

\* Mutant: the row that begins is reported as scanned.
EndRowAhead ==
  /\ chunkBuf' = IF rowStarted THEN CommitLastChunk(chunkBuf) ELSE chunkBuf
  /\ lastScannedRowKey' = IF AtEnd THEN lastRowKey ELSE iter[pos + 1].row
  /\ spoiled' = (spoiled \/ Unmarked)

\* What ends a row: its last chunk is marked.
EndRow ==
  /\ chunkBuf' = IF rowStarted THEN CommitLastChunk(chunkBuf) ELSE chunkBuf
  /\ lastScannedRowKey' = IF rowStarted THEN lastRowKey ELSE lastScannedRowKey
  /\ spoiled' = (spoiled \/ Unmarked)

\* Mutant: the filter keeps its counters from row to row.
NextRowKept ==
  /\ pc = "scan" /\ AtBoundary
  /\ EndRow
  /\ rowCount' = rowCount + 1
  /\ IF LimitReached(rowCount + 1)
     THEN pc' = "endRange" /\ UNCHANGED <<eval, lastRowKey, rowStarted>>
     ELSE /\ eval' = eval
          /\ lastRowKey' = iter[pos + 1].row /\ rowStarted' = TRUE
          /\ pc' = pc
  /\ UNCHANGED <<version, req, range, iter, pos, sent, due>>

\* The cell under the iterator belongs to another row.
NextRow ==
  /\ pc = "scan" /\ AtBoundary
  /\ EndRow
  /\ rowCount' = rowCount + 1
  /\ IF LimitReached(rowCount + 1)
     THEN pc' = "endRange" /\ UNCHANGED <<eval, lastRowKey, rowStarted>>
     ELSE /\ eval' = Reset(eval)
          /\ lastRowKey' = iter[pos + 1].row /\ rowStarted' = TRUE
          /\ pc' = pc
  /\ UNCHANGED <<version, req, range, iter, pos, sent, due>>

\* Mutant: the buffer is sent when it has grown past its size.
ScanCellLate ==
  /\ pc = "scan" /\ ~AtEnd /\ ~AtBoundary
  /\ \E n \in 0 .. Len(chunkBuf) :
     LET c == iter[pos + 1]
         verdict == Evaluate(eval, c)
         held == Overwritten(c, n)
         buf == IF verdict.ok THEN AppendCellChunks(held, Emitted(c)) ELSE held
     IN /\ eval' = verdict.e
        /\ spoiled' = (spoiled \/ c.row = EmptyKey \/ held # chunkBuf)
        /\ IF verdict.ok /\ Len(buf) > BufferSize
           THEN Flush(buf, "scan") /\ chunkBuf' = <<>>
           ELSE chunkBuf' = buf /\ UNCHANGED <<sent, pc>>
  /\ pos' = pos + 1
  /\ UNCHANGED <<version, req, range, iter, lastRowKey, rowStarted, rowCount, lastScannedRowKey, due>>

\* One cell: its value is read, the filter decides, its chunks are buffered, a full buffer
\* is sent.
ScanCell ==
  /\ pc = "scan" /\ ~AtEnd /\ ~AtBoundary
  /\ \E n \in 0 .. Len(chunkBuf) :
     LET c == iter[pos + 1]
         verdict == Evaluate(eval, c)
         held == Overwritten(c, n)
         buf == IF verdict.ok THEN AppendCellChunks(held, Emitted(c)) ELSE held
     IN /\ eval' = verdict.e
        /\ spoiled' = (spoiled \/ c.row = EmptyKey \/ held # chunkBuf)
        /\ IF verdict.ok /\ Len(buf) >= BufferSize
           THEN Flush(buf, "scan") /\ chunkBuf' = <<>>
           ELSE chunkBuf' = buf /\ UNCHANGED <<sent, pc>>
  /\ pos' = pos + 1
  /\ UNCHANGED <<version, req, range, iter, lastRowKey, rowStarted, rowCount, lastScannedRowKey, due>>

\* The iterator is exhausted, or the limit ended the loop.
EndRange ==
  /\ pc = "endRange" \/ (pc = "scan" /\ AtEnd)
  /\ EndRow
  /\ range' = IF req.limit > 0 /\ rowCount >= req.limit THEN Len(req.ranges) + 1 ELSE range + 1
  /\ pc' = "open" /\ iter' = <<>> /\ pos' = 0
  /\ UNCHANGED <<version, req, lastRowKey, rowStarted, rowCount, eval, sent, due>>

\* The last flush.
Finish ==
  /\ pc = "open" /\ range > Len(req.ranges)
  /\ IF chunkBuf = <<>> THEN pc' = "done" /\ UNCHANGED sent ELSE Flush(chunkBuf, "done")
  /\ chunkBuf' = <<>>
  /\ UNCHANGED <<version, req, range, iter, pos, lastRowKey, rowStarted, rowCount,
                 lastScannedRowKey, eval, due, spoiled>>

\* Another call commits a batch that changes one row.
WriteRow(r) ==
  /\ pc \notin {"done", "failed"}
  /\ version[r] < Len(Content[r])
  /\ version' = [version EXCEPT ![r] = @ + 1]
  /\ UNCHANGED <<req, pc, range, iter, pos, scanVars, sent, due, spoiled>>

Next ==
  \/ OpenRange \/ SkipRange \/ NextRow \/ ScanCell \/ EndRange \/ Finish
  \/ \E r \in Rows : WriteRow(r)

Spec == Init /\ [][Next]_vars

-------------------------------------------------------------------------------
(* The client: rows it has taken, and the cells of the row under way. It is ok as long as
   the chunks fit together and carry the value of the cell they belong to. *)

ClientStart == [rows |-> <<>>, cells |-> <<>>, parts |-> 0, ok |-> TRUE]

\* A first chunk names the row; it must be the one under way, if there is one.
Receive(s, ch) ==
  LET open == s.cells # <<>>
      cells == IF ch.first THEN Append(s.cells, ch.cell) ELSE s.cells
      parts == IF ch.first THEN 1 ELSE s.parts + 1
      good == /\ s.ok
              /\ ch.first => (open => Last(s.cells).row = ch.row /\ s.parts = Last(s.cells).parts)
              /\ ~ch.first => open /\ s.parts < Last(s.cells).parts /\ ch.cell = Last(s.cells)
  IN IF ch.commit
     THEN [rows |-> Append(s.rows, cells), cells |-> <<>>, parts |-> 0,
           ok |-> good /\ parts = ch.cell.parts]
     ELSE [rows |-> s.rows, cells |-> cells, parts |-> parts, ok |-> good]

Chunks(responses) == FlattenSeq([i \in DOMAIN responses |-> responses[i].chunks])

Received(chunks) ==
  LET got[i \in 0 .. Len(chunks)] == IF i = 0 THEN ClientStart ELSE Receive(got[i - 1], chunks[i])
  IN got[Len(chunks)]

Client(responses) == Received(Chunks(responses))

\* Cells as they are sent.
Show(cells) == [i \in DOMAIN cells |-> Emitted(cells[i])]

\* The first n rows of due as a client sees them: those of which the filter leaves something.
Shown(n) ==
  LET rows == At(due, {i \in 1 .. n : due[i].cells # <<>>})
  IN [i \in DOMAIN rows |-> Show(rows[i].cells)]

\* The limit counts the rows that the filter left empty, too.
Cap(n) == IF req.limit > 0 /\ n > req.limit THEN req.limit ELSE n

\* The rows that the request asks for.
Due == Shown(Cap(Len(due)))

-------------------------------------------------------------------------------
(* Properties *)

TypeOK ==
  /\ version \in [Rows -> Nat] /\ req \in Requests
  /\ pc \in {"open", "scan", "endRange", "done", "failed"}
  /\ range \in 1 .. Len(req.ranges) + 1
  /\ lastRowKey \in Rows \cup {EmptyKey} /\ lastScannedRowKey \in Rows \cup {NoRow}
  /\ rowStarted \in BOOLEAN /\ spoiled \in BOOLEAN
  /\ rowCount \in 0 .. Len(due)
  /\ Len(chunkBuf) < BufferSize

\* A client receives the rows of the request, filtered as their filter means it, each
\* whole and from one moment, in the order of the scan and none after the limit: always
\* a beginning of them, and all of them when the call returns without an error.  The
\* exceptions, spoiled: a row whose last cell filled the buffer and one under the empty key,
\* a large value that was still buffered when the next was read, a range whose iterator
\* failed.
RowsExact ==
  LET client == Client(sent) IN
  Plain(req.filter) /\ ~spoiled =>
    /\ client.ok
    /\ IsPrefix(client.rows, Due)
    /\ pc = "done" => client.rows = Due /\ client.cells = <<>>

\* last_scanned_row_key lets a client resume behind that row: the responses up to there
\* have committed what the filter leaves of it and of the rows before it, and no more.
ResumeSafe ==
  Plain(req.filter) /\ ~spoiled =>
    \A i \in DOMAIN sent : sent[i].last # NoRow =>
      \E n \in DOMAIN due : due[n].row = sent[i].last /\ Client(SubSeq(sent, 1, i)).rows = Shown(n)

\* CheckAndMutateRow's predicate, which stops at the first cell that passes: it holds
\* when the filter leaves something of the row, in every version of it.
PredicateExact ==
  pc = "done" /\ Plain(req.filter) =>
    \A r \in Rows :
      LET row == Content[r][version[r]]
      IN HasMatch(eval, row) <=> RefFilter(req.filter, row, DOMAIN row) # {}

-------------------------------------------------------------------------------
(* What the documentation says and the code does not do. *)

\* "ReadRows streams back the contents of all requested rows".
AllRowsCommitted ==
  pc = "done" /\ (\A i \in DOMAIN Chunks(sent) : Chunks(sent)[i].cell.row # EmptyKey)
    => Client(sent).cells = <<>>

\* The same, of the ranges: a row that is there throughout is not left out.
AllRangesRead ==
  pc = "done" /\ req.filter = PassAll /\ req.limit = 0 =>
    \A i \in DOMAIN req.ranges : \A r \in req.ranges[i] \ {EmptyKey} :
      (\A v \in DOMAIN Content[r] : Content[r][v] # <<>>) =>
        \E j \in DOMAIN Chunks(sent) : Chunks(sent)[j].cell.row = r

\* The same, of the values: the chunks of a cell carry the value of that cell.
ValuesUncut ==
  LET chunks == Chunks(sent) IN
  \A i \in DOMAIN chunks : ~chunks[i].first => chunks[i].cell = chunks[i - 1].cell

\* "... in key order".
InKeyOrder ==
  LET rows == Client(sent).rows IN
  ~req.reversed => \A i, j \in DOMAIN rows : i < j => rows[i][1].row < rows[j][1].row

\* "The row contents will not be affected by this flag" (reversed).
ContentsNotAffected ==
  LET rows == Client(sent).rows IN
  \A n \in DOMAIN rows : \A i, j \in DOMAIN rows[n] :
    i < j /\ rows[n][i].qual = rows[n][j].qual => rows[n][i].ts > rows[n][j].ts

\* "The read will stop after committing to N rows' worth of results."
LimitCountsResults ==
  pc = "done" /\ req.limit > 0 /\ Len(Client(sent).rows) < req.limit =>
    Len(Shown(Len(due))) < req.limit

\* A condition evaluates "one of two possible RowFilters, depending on whether or not a
\* predicate RowFilter outputs any cells from the input row", and the elements of an
\* interleave "all process a copy of the input row".
RowsAsDocumented == pc = "done" /\ ~spoiled => Client(sent).rows = Due
===============================================================================
