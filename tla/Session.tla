------------------------------- MODULE Session -------------------------------
(***************************************************************************)
(* One OpenTable stream (pkg/bigtable/session.go): handleSession receives  *)
(* messages in a loop, and dispatchVRPC finds out what a virtual RPC is by *)
(* unmarshalling its payload as one request type after the other.          *)
(*                                                                         *)
(* A payload is the set of protobuf fields it sets, each holding a value   *)
(* of the type its sender's message declares. Reading it as another        *)
(* message reads each field as the type that message declares; unknown     *)
(* fields and fields of another wire type are skipped. Whether bytes that  *)
(* were not written as a type can be read as it depends on the data, and   *)
(* is part of the request. The handlers are modelled by their outcomes.    *)
(***************************************************************************)
EXTENDS Naturals, Sequences

CONSTANTS
  Tables,     \* names of tables
  NoTable,    \* the empty name
  None        \* no call

ASSUME SessionAssumption == NoTable \notin Tables

VARIABLES
  phase,      \* "recv" before a Recv, "done" after a message, "ended"
  tableName,  \* the table of the session
  last        \* the call that was dispatched last, and what came of it

vars == <<phase, tableName, last>>

\* The length-delimited fields of the requests, by number (bigtable.pb.go); "skipped" is a
\* number without one. Field 1 is the table, or the name to ping; the other strings are app
\* profiles and views, which no handler looks at. Numbers above 7 are left out: no two
\* messages declare them with different types, so they read the same everywhere.
Layout ==
  [ReadRows          |-> <<"string", "RowSet", "RowFilter", "skipped", "string">>,
   CheckAndMutateRow |-> <<"string", "bytes", "skipped", "Mutation", "Mutation", "RowFilter",
                           "string">>,
   MutateRow         |-> <<"string", "bytes", "Mutation", "string", "skipped", "string">>,
   MutateRows        |-> <<"string", "Entry", "string", "skipped", "string">>,
   SampleRowKeys     |-> <<"string", "string", "skipped", "string", "string">>,
   PingAndWarm       |-> <<"string", "string">>]

Kinds == DOMAIN Layout

Declared(k) == {f \in DOMAIN Layout[k] : Layout[k][f] # "skipped"}

\* Mutant: reads are tried after the mutations.
OrderReadsLate == <<"CheckAndMutateRow", "MutateRow", "MutateRows", "ReadRows",
                    "SampleRowKeys", "PingAndWarm">>

\* The order of the attempts.
Order == <<"ReadRows", "CheckAndMutateRow", "MutateRow", "MutateRows",
           "SampleRowKeys", "PingAndWarm">>

\* Every byte string is bytes, and what Entry declares is what RowSet declares or skips.
AlwaysReads(written, read) ==
  \/ read = written \/ read = "bytes"
  \/ written = "Entry" /\ read = "RowSet"

\* Readings of a message's fields that may or may not succeed.
Doubtful(kind, fields) ==
  {p \in fields \X {"string", "RowSet", "RowFilter", "Mutation", "Entry"} :
     /\ ~AlwaysReads(Layout[kind][p[1]], p[2])
     /\ \E k \in Kinds : p[1] \in DOMAIN Layout[k] /\ Layout[k][p[1]] = p[2]}

\* hollow: the message in field 2 has no bytes, which every message can be read from.
Requests ==
  UNION {UNION {[kind : {kind}, table : Tables \cup {NoTable}, fields : {fields},
                 reads : SUBSET Doubtful(kind, fields),
                 hollow : IF 2 \in fields /\ kind \in {"ReadRows", "MutateRows"}
                          THEN BOOLEAN ELSE {FALSE}] :
                   fields \in SUBSET (Declared(kind) \ {1})} : kind \in Kinds}

Reads(r, f, type) ==
  \/ AlwaysReads(Layout[r.kind][f], type)
  \/ <<f, type>> \in r.reads
  \/ f = 2 /\ r.hollow

\* proto.Unmarshal(payload, ...) succeeds.
Unmarshals(r, k) ==
  \A f \in r.fields \cap Declared(k) : Reads(r, f, Layout[k][f])

\* Mutant: a conditional mutation is recognised by its mutations as well.
AcceptsMutations(r, k) ==
  CASE k \in {"ReadRows", "SampleRowKeys", "PingAndWarm"} -> r.table # NoTable
    [] k = "CheckAndMutateRow" -> 2 \in r.fields /\ ~r.hollow /\ {4, 5} \cap r.fields # {}
    [] k = "MutateRow" -> 2 \in r.fields /\ ~r.hollow
    [] k = "MutateRows" -> 2 \in r.fields

\* The condition of the k-th attempt beside Unmarshal.
Accepts(r, k) ==
  CASE k \in {"ReadRows", "SampleRowKeys", "PingAndWarm"} -> r.table # NoTable
    [] k \in {"CheckAndMutateRow", "MutateRow"} -> 2 \in r.fields /\ ~r.hollow
    [] k = "MutateRows" -> 2 \in r.fields

Attempt(r, i) == Unmarshals(r, Order[i]) /\ Accepts(r, Order[i])

\* The handler that dispatchVRPC calls; "none" when no attempt succeeds.
Handler(r) ==
  LET hits == {i \in 1..Len(Order) : Attempt(r, i)}
  IN IF hits = {} THEN "none"
     ELSE Order[CHOOSE i \in hits : \A j \in hits : i <= j]

Result(reply, wrote) == [reply |-> reply, wrote |-> wrote]
Error == Result("error", FALSE)

\* What a handler may do: answer with its message, or with a stream that may be empty, and
\* write the mutations it found, text that reads as a mutation included (an app profile of
\* the bytes 22 00 is a DeleteFromRow). The predicate decides which list, 4 or 5, is applied.
Outcomes(r, k) ==
  {Error} \cup
  CASE k \in {"ReadRows", "SampleRowKeys"} -> {Result("ok", FALSE), Result("silent", FALSE)}
    [] k = "CheckAndMutateRow" -> {Result("ok", list \in r.fields) : list \in {4, 5}}
    [] k = "MutateRow" -> IF 3 \in r.fields THEN {Result("ok", TRUE)} ELSE {}
    [] k = "MutateRows" -> {Result("rejected", FALSE), Result("ok", TRUE)}
    [] k = "PingAndWarm" -> {Result("ok", FALSE)}
    [] OTHER -> {}
-----------------------------------------------------------------------------
\* OpenSession: a payload that is no OpenTableRequest leaves the table as it was.
OpenSession ==
  /\ phase = "recv"
  /\ \E name \in Tables \cup {NoTable, tableName} : tableName' = name
  /\ phase' = "done"
  /\ UNCHANGED last

\* Mutant: reads use the payload's table too.
CalledAsNamed(r, k, result) ==
  [request |-> r, session |-> tableName, handler |-> k, table |-> r.table,
   reply |-> result.reply, wrote |-> result.wrote]

\* The record of a call. Reads use the table of the session, the others their payload's.
Called(r, k, result) ==
  [request |-> r, session |-> tableName, handler |-> k,
   table |-> IF k = "ReadRows" THEN tableName ELSE r.table,
   reply |-> result.reply, wrote |-> result.wrote]

\* A virtual RPC; an error is answered as such, and so are an empty payload and a call
\* without a table. A failed Send loses the answer, and the next Recv fails too.
VirtualRpc(r) ==
  LET refused == tableName = NoTable \/ (r.table = NoTable /\ r.fields = {})
      k == IF refused THEN "none" ELSE Handler(r)
  IN /\ phase = "recv"
     /\ \E result \in Outcomes(r, k) :
          \/ last' = Called(r, k, result) /\ phase' = "done"
          \/ last' = Called(r, k, [result EXCEPT !.reply = "lost"]) /\ phase' = "ended"
     /\ UNCHANGED tableName

\* The loop goes on to the next message.
Continue ==
  /\ phase = "done"
  /\ phase' = "recv" /\ last' = None
  /\ UNCHANGED tableName

\* CloseSession, the end of the stream or an error of Recv.
EndSession ==
  /\ phase = "recv"
  /\ phase' = "ended"
  /\ UNCHANGED <<tableName, last>>

Init == phase = "recv" /\ tableName = NoTable /\ last = None

Next ==
  \/ OpenSession
  \/ \E r \in Requests : VirtualRpc(r)
  \/ Continue
  \/ EndSession

Spec == Init /\ [][Next]_vars
-----------------------------------------------------------------------------
Mutating == {"CheckAndMutateRow", "MutateRow", "MutateRows"}

TypeOK ==
  /\ phase \in {"recv", "done", "ended"}
  /\ tableName \in Tables \cup {NoTable}
  /\ last # None => /\ last.handler \in Kinds \cup {"none"}
                    /\ last.reply \in {"ok", "rejected", "silent", "error", "lost"}
                    /\ last.wrote \in BOOLEAN

\* The k-th handler takes a text of the request, an app profile or a view, for a mutation.
TextTaken(r, k) ==
  \E f \in r.fields : /\ Layout[r.kind][f] = "string"
                      /\ f \in Declared(k) /\ Layout[k][f] = "Mutation"
                      /\ <<f, "Mutation">> \in r.reads

\* However a payload is misread, no table that a client named is written by a request that
\* did not ask for it: the handler of the request's own type writes there, to the table the
\* request names, and any other only where it takes an app profile or a view for a mutation.
\* In particular no filter, row set or entry is ever applied as a mutation.
WritesAsked ==
  (last # None /\ last.wrote /\ last.table # NoTable) =>
    /\ last.handler \in Mutating /\ last.table = last.request.table
    /\ last.request.kind = last.handler \/ TextTaken(last.request, last.handler)

\* A read that names a table is served as a read, and from the table of the session.
ReadsServed ==
  (last # None /\ last.request.kind = "ReadRows" /\ last.request.table # NoTable) =>
    /\ last.handler \in {"ReadRows", "none"}
    /\ (last.handler = "none") <=> (last.session = NoTable)
    /\ last.handler = "ReadRows" => last.table = last.session

\* The cost of guessing: a MutateRow or MutateRows that names a table reaches its own handler
\* only if its texts spoil each earlier reading that its fields allow: the app profile or the
\* view of a MutateRow that of a CheckAndMutateRow; the app profile of a MutateRows that of a
\* ReadRows, and its texts the other two, unless its last entry is empty. All others are
\* taken for a read or for another mutation, and a client that is answered takes them for
\* applied.
AppliedOnlySpoilt ==
  (last # None /\ last.wrote /\ last.table # NoTable /\ last.handler = last.request.kind) =>
    LET r == last.request
        Spoils(f, type) == f \in r.fields /\ <<f, type>> \notin r.reads
    IN /\ r.kind = "MutateRow" => Spoils(4, "Mutation") \/ Spoils(6, "RowFilter")
       /\ r.kind = "MutateRows" =>
            /\ Spoils(3, "RowFilter")
            /\ r.hollow \/ (Spoils(5, "Mutation") /\ Spoils(3, "Mutation"))

\* "Cells already present in the row are left unchanged unless explicitly changed by
\* `mutation`" (bigtable_grpc.pb.go:70-71): a MutateRow writes as a MutateRow.
ChangedExplicitly ==
  (last # None /\ last.wrote /\ last.table # NoTable /\ last.request.kind = "MutateRow") =>
    last.handler = "MutateRow"

\* "`mutate_row` | In-session | Empty MutateRowResponse" (BIGTABLE_PLAN.md:112): a MutateRow
\* that is answered without an error has been applied.
MutationsApplied ==
  (last # None /\ last.request.kind = "MutateRow" /\ {2, 3} \subseteq last.request.fields
    /\ last.reply = "ok") => last.wrote
=============================================================================
