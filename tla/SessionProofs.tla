----------------------------- MODULE SessionProofs -----------------------------
(* Proofs about Session, for any set of tables: what dispatchVRPC's guessing by
   Unmarshal can and cannot do to a request.  *)
EXTENDS Session, TLAPS

-------------------------------------------------------------------------------
(* The layout of the requests, spelled out *)

LEMMA KindsAre ==
  Kinds = {"ReadRows", "CheckAndMutateRow", "MutateRow", "MutateRows", "SampleRowKeys",
           "PingAndWarm"}
  BY DEF Kinds, Layout

LEMMA DeclaredAre ==
  /\ Declared("ReadRows") = {1, 2, 3, 5}
  /\ Declared("CheckAndMutateRow") = {1, 2, 4, 5, 6, 7}
  /\ Declared("MutateRow") = {1, 2, 3, 4, 6}
  /\ Declared("MutateRows") = {1, 2, 3, 5}
  /\ Declared("SampleRowKeys") = {1, 2, 4, 5}
  /\ Declared("PingAndWarm") = {1, 2}
  BY DEF Declared, Layout

LEMMA TypesAre ==
  /\ Layout["ReadRows"][2] = "RowSet" /\ Layout["ReadRows"][3] = "RowFilter"
  /\ Layout["ReadRows"][5] = "string"
  /\ Layout["CheckAndMutateRow"][2] = "bytes" /\ Layout["CheckAndMutateRow"][4] = "Mutation"
  /\ Layout["CheckAndMutateRow"][5] = "Mutation" /\ Layout["CheckAndMutateRow"][6] = "RowFilter"
  /\ Layout["MutateRow"][2] = "bytes" /\ Layout["MutateRow"][3] = "Mutation"
  /\ Layout["MutateRow"][4] = "string" /\ Layout["MutateRow"][6] = "string"
  /\ Layout["MutateRows"][2] = "Entry" /\ Layout["MutateRows"][3] = "string"
  /\ Layout["MutateRows"][5] = "string"
  /\ Layout["SampleRowKeys"][4] = "string" /\ Layout["SampleRowKeys"][5] = "string"
  BY DEF Layout

LEMMA RequestShape ==
  ASSUME NEW r \in Requests
  PROVE  /\ r.kind \in Kinds
         /\ r.fields \subseteq Declared(r.kind) \ {1}
         /\ r.hollow \in BOOLEAN
         /\ r.hollow => 2 \in r.fields /\ r.kind \in {"ReadRows", "MutateRows"}
<1> DEFINE From(kind, fields) ==
      [kind : {kind}, table : Tables \cup {NoTable}, fields : {fields},
       reads : SUBSET Doubtful(kind, fields),
       hollow : IF 2 \in fields /\ kind \in {"ReadRows", "MutateRows"}
                THEN BOOLEAN ELSE {FALSE}]
<1>1. r \in UNION {UNION {From(kind, fields) : fields \in SUBSET (Declared(kind) \ {1})} :
                      kind \in Kinds}
  BY Zenon DEF Requests
<1> HIDE DEF From
<1>2. PICK kind \in Kinds :
        r \in UNION {From(kind, fields) : fields \in SUBSET (Declared(kind) \ {1})}
  BY <1>1
<1>3. PICK fields \in SUBSET (Declared(kind) \ {1}) : r \in From(kind, fields)
  BY <1>2
<1> USE DEF From
<1>4. r.kind = kind /\ r.fields = fields
  BY <1>3
<1>5. r.hollow \in IF 2 \in fields /\ kind \in {"ReadRows", "MutateRows"}
                   THEN BOOLEAN ELSE {FALSE}
  BY <1>3
<1> QED
  BY <1>4, <1>5

-------------------------------------------------------------------------------
(* The attempts *)

\* A message can be read as what it is.
LEMMA ReadsItself ==
  ASSUME NEW r \in Requests
  PROVE  Unmarshals(r, r.kind)
  BY DEF Unmarshals, Reads, AlwaysReads

LEMMA OrderIs ==
  /\ Len(Order) = 6
  /\ Order[1] = "ReadRows" /\ Order[2] = "CheckAndMutateRow" /\ Order[3] = "MutateRow"
  /\ Order[4] = "MutateRows" /\ Order[5] = "SampleRowKeys" /\ Order[6] = "PingAndWarm"
  BY DEF Order

\* The handler is that of the first attempt that succeeds.
LEMMA FirstAttempt ==
  ASSUME NEW r
  PROVE  \/ Handler(r) = "none" /\ \A i \in 1 .. 6 : ~Attempt(r, i)
         \/ \E i \in 1 .. 6 : /\ Handler(r) = Order[i] /\ Attempt(r, i)
                              /\ \A j \in 1 .. 6 : j < i => ~Attempt(r, j)
<1> DEFINE hits == {i \in 1 .. 6 : Attempt(r, i)}
           first == CHOOSE i \in hits : \A j \in hits : i <= j
<1>1. Handler(r) = IF hits = {} THEN "none" ELSE Order[first]
  BY OrderIs DEF Handler
<1>2. CASE hits = {}
  BY <1>1, <1>2
<1>3. CASE hits # {}
  <2>1. \E i \in hits : \A j \in hits : i <= j
    <3>1. 1 .. 6 = {1, 2, 3, 4, 5, 6}
      OBVIOUS
    <3>2. hits \subseteq {1, 2, 3, 4, 5, 6}
      BY <3>1
    <3> HIDE DEF hits
    <3>3. ASSUME NEW i \in hits, \A j \in hits : i <= j PROVE \E k \in hits : \A j \in hits : k <= j
      BY <3>3
    <3>4. CASE 1 \in hits
      BY <3>2, <3>3, <3>4
    <3>5. CASE 1 \notin hits /\ 2 \in hits
      BY <3>2, <3>3, <3>5
    <3>6. CASE hits \cap {1, 2} = {} /\ 3 \in hits
      BY <3>2, <3>3, <3>6
    <3>7. CASE hits \cap {1, 2, 3} = {} /\ 4 \in hits
      BY <3>2, <3>3, <3>7
    <3>8. CASE hits \cap {1, 2, 3, 4} = {} /\ 5 \in hits
      BY <3>2, <3>3, <3>8
    <3>9. CASE hits \cap {1, 2, 3, 4, 5} = {}
      <4>1. hits = {6}
        BY <1>3, <3>2, <3>9
      <4> QED
        BY <4>1
    <3> QED
      BY <3>4, <3>5, <3>6, <3>7, <3>8, <3>9
  <2>2. first \in hits /\ \A j \in hits : first <= j
    BY <2>1
  <2> HIDE DEF first
  <2>3. first \in 1 .. 6 /\ Attempt(r, first) /\ \A j \in 1 .. 6 : j < first => ~Attempt(r, j)
    BY <2>2
  <2> QED
    BY <1>1, <1>3, <2>3
<1> QED
  BY <1>2, <1>3

\* A read that names a table is always taken for a read.
LEMMA ReadsAreReads ==
  ASSUME NEW r \in Requests, r.kind = "ReadRows", r.table # NoTable
  PROVE  Handler(r) = "ReadRows"
<1>1. Attempt(r, 1)
  BY ReadsItself, OrderIs DEF Attempt, Accepts
<1> QED
  BY <1>1, FirstAttempt, OrderIs

-------------------------------------------------------------------------------
(* Requests that reach a mutation although they name a table, so that the attempt to
   read them as a ReadRows failed. *)

LEMMA NotARead ==
  ASSUME NEW r \in Requests, r.table # NoTable, Handler(r) \in Mutating
  PROVE  ~Unmarshals(r, "ReadRows")
<1>1. ~Attempt(r, 1)
  BY FirstAttempt, OrderIs DEF Mutating
<1> QED
  BY <1>1, OrderIs DEF Attempt, Accepts

\* A text that reads as the type that a handler declares for its field.
LEMMA TextReads ==
  ASSUME NEW r \in Requests, NEW k \in Kinds, NEW f \in r.fields \cap Declared(k), f # 2,
         Unmarshals(r, k), Layout[r.kind][f] = "string", Layout[k][f] = "Mutation"
  PROVE  TextTaken(r, k)
<1>1. Reads(r, f, "Mutation")
  BY DEF Unmarshals
<1>2. <<f, "Mutation">> \in r.reads
  BY <1>1 DEF Reads, AlwaysReads
<1> QED
  BY <1>2 DEF TextTaken

\* A request that is applied as a conditional mutation is one, or has a text that reads as
\* a mutation.
LEMMA AppliedCheck ==
  ASSUME NEW r \in Requests, r.table # NoTable, Handler(r) = "CheckAndMutateRow",
         NEW list \in {4, 5}, list \in r.fields
  PROVE  r.kind = "CheckAndMutateRow" \/ TextTaken(r, "CheckAndMutateRow")
<1>1. Unmarshals(r, "CheckAndMutateRow")
  BY FirstAttempt, OrderIs DEF Attempt
<1>2. r.kind # "ReadRows"
  BY NotARead, ReadsItself DEF Mutating
<1>3. ASSUME r.kind # "CheckAndMutateRow" PROVE Layout[r.kind][list] = "string"
  <2>1. r.kind \in {"MutateRow", "MutateRows", "SampleRowKeys", "PingAndWarm"}
    BY <1>2, <1>3, RequestShape, KindsAre
  <2>2. list \in Declared(r.kind)
    BY RequestShape
  <2> QED
    BY <2>1, <2>2, DeclaredAre, TypesAre
<1>4. list \in r.fields \cap Declared("CheckAndMutateRow") /\ list # 2
  BY DeclaredAre
<1>5. "CheckAndMutateRow" \in Kinds /\ Layout["CheckAndMutateRow"][list] = "Mutation"
  BY KindsAre, TypesAre
<1> QED
  BY <1>1, <1>3, <1>4, <1>5, TextReads

\* A request that is applied as a MutateRow is a MutateRow whose app profile or view spoils
\* the reading as a conditional mutation, or has a text that reads as a mutation.
LEMMA AppliedMutateRow ==
  ASSUME NEW r \in Requests, r.table # NoTable, Handler(r) = "MutateRow", 3 \in r.fields
  PROVE  \/ /\ r.kind = "MutateRow"
            /\ \/ 4 \in r.fields /\ <<4, "Mutation">> \notin r.reads
               \/ 6 \in r.fields /\ <<6, "RowFilter">> \notin r.reads
         \/ r.kind # "MutateRow" /\ TextTaken(r, "MutateRow")
<1>1. Attempt(r, 3) /\ ~Attempt(r, 2)
  BY FirstAttempt, OrderIs
<1>2. 2 \in r.fields /\ ~r.hollow /\ Unmarshals(r, "MutateRow")
  BY <1>1, OrderIs DEF Attempt, Accepts
<1>3. ~Unmarshals(r, "CheckAndMutateRow")
  BY <1>1, <1>2, OrderIs DEF Attempt, Accepts
<1>4. ~Unmarshals(r, "ReadRows")
  BY NotARead DEF Mutating
<1>5. 3 \in Declared(r.kind)
  BY RequestShape
<1>6. r.kind \in {"MutateRow", "MutateRows"}
  BY <1>3, <1>4, <1>5, ReadsItself, RequestShape, KindsAre, DeclaredAre
<1>7. CASE r.kind = "MutateRows"
  <2>1. 3 \in r.fields \cap Declared("MutateRow") /\ "MutateRow" \in Kinds
    BY DeclaredAre, KindsAre
  <2> QED
    BY <1>2, <1>7, <2>1, TypesAre, TextReads
<1>8. CASE r.kind = "MutateRow"
  <2>1. PICK f \in r.fields \cap {1, 2, 4, 5, 6, 7} : ~Reads(r, f, Layout["CheckAndMutateRow"][f])
    BY <1>3, DeclaredAre DEF Unmarshals
  <2>2. f \notin {1, 2}
    BY <2>1, RequestShape, TypesAre DEF Reads, AlwaysReads
  <2>3. f \in {4, 6}
    BY <1>8, <2>1, <2>2, RequestShape, DeclaredAre
  <2> QED
    BY <1>8, <2>1, <2>3, TypesAre DEF Reads
<1> QED
  BY <1>6, <1>7, <1>8

\* Only a MutateRows whose app profile spoils the reading as a filter is applied as a
\* MutateRows, and its last entry is empty or its texts spoil the readings as mutations.
LEMMA AppliedMutateRows ==
  ASSUME NEW r \in Requests, r.table # NoTable, Handler(r) = "MutateRows"
  PROVE  /\ r.kind = "MutateRows" /\ 3 \in r.fields /\ <<3, "RowFilter">> \notin r.reads
         /\ \/ r.hollow
            \/ /\ 5 \in r.fields /\ <<5, "Mutation">> \notin r.reads
               /\ <<3, "Mutation">> \notin r.reads
<1>1. Attempt(r, 4) /\ ~Attempt(r, 3) /\ ~Attempt(r, 2)
  BY FirstAttempt, OrderIs
<1>2. 2 \in r.fields
  BY <1>1, OrderIs DEF Attempt, Accepts
<1>3. r.hollow \/ (~Unmarshals(r, "CheckAndMutateRow") /\ ~Unmarshals(r, "MutateRow"))
  BY <1>1, <1>2, OrderIs DEF Attempt, Accepts
<1>4. ~Unmarshals(r, "ReadRows")
  BY NotARead DEF Mutating
<1>5. r.kind # "ReadRows"
  BY <1>4, ReadsItself
<1>6. r.kind = "MutateRows"
  <2>1. CASE r.hollow
    BY <1>5, <2>1, RequestShape
  <2>2. CASE ~r.hollow
    <3> SUFFICES ASSUME r.kind # "MutateRows" PROVE FALSE
      OBVIOUS
    <3>1. r.kind \in {"SampleRowKeys", "PingAndWarm"}
      BY <1>3, <1>5, <2>2, ReadsItself, RequestShape, KindsAre
    <3>2. r.fields \subseteq {2, 4, 5}
      BY <3>1, RequestShape, DeclaredAre
    <3>3. r.fields \cap Declared("MutateRow") \subseteq {2, 4}
      BY <3>2, DeclaredAre
    <3>4. 4 \in r.fields => r.kind = "SampleRowKeys"
      BY <3>1, RequestShape, DeclaredAre
    <3>5. Unmarshals(r, "MutateRow")
      BY <3>3, <3>4, TypesAre DEF Unmarshals, Reads, AlwaysReads
    <3> QED
      BY <1>3, <2>2, <3>5
  <2> QED
    BY <2>1, <2>2, RequestShape
<1>7. r.fields \subseteq {2, 3, 5}
  BY <1>6, RequestShape, DeclaredAre
<1>8. 3 \in r.fields /\ <<3, "RowFilter">> \notin r.reads
  <2>1. PICK f \in r.fields \cap {2, 3, 5} : ~Reads(r, f, Layout["ReadRows"][f])
    BY <1>4, <1>7, DeclaredAre DEF Unmarshals
  <2>2. f # 2 /\ f # 5
    BY <1>6, <2>1, TypesAre DEF Reads, AlwaysReads
  <2>3. f = 3
    BY <2>1, <2>2
  <2> QED
    BY <2>1, <2>3, TypesAre DEF Reads
<1>9. ASSUME ~r.hollow
      PROVE  5 \in r.fields /\ <<5, "Mutation">> \notin r.reads /\ <<3, "Mutation">> \notin r.reads
  <2>1. PICK f \in r.fields \cap {2, 5} : ~Reads(r, f, Layout["CheckAndMutateRow"][f])
    BY <1>3, <1>7, <1>9, DeclaredAre DEF Unmarshals
  <2>2. f = 5
    BY <2>1, TypesAre DEF Reads, AlwaysReads
  <2>3. PICK g \in r.fields \cap {2, 3} : ~Reads(r, g, Layout["MutateRow"][g])
    BY <1>3, <1>7, <1>9, DeclaredAre DEF Unmarshals
  <2>4. g = 3
    BY <2>3, TypesAre DEF Reads, AlwaysReads
  <2> QED
    BY <2>1, <2>2, <2>3, <2>4, TypesAre DEF Reads
<1> QED
  BY <1>6, <1>8, <1>9, RequestShape

-------------------------------------------------------------------------------
(* The invariant: the call that was dispatched last is described by its request and by
   the session's table at that time. *)

Dispatched(r, name) ==
  IF name = NoTable \/ (r.table = NoTable /\ r.fields = {}) THEN "none" ELSE Handler(r)

LastCall ==
  last # None =>
    /\ last.request \in Requests
    /\ last.handler = Dispatched(last.request, last.session)
    /\ last.table = IF last.handler = "ReadRows" THEN last.session ELSE last.request.table
    /\ \E result \in Outcomes(last.request, last.handler) : last.wrote = result.wrote

LEMMA LastCallStep == LastCall /\ [Next]_vars => LastCall'
<1> SUFFICES ASSUME LastCall, [Next]_vars PROVE LastCall'
  OBVIOUS
<1>1. ASSUME NEW r \in Requests, VirtualRpc(r) PROVE LastCall'
  <2> DEFINE k == Dispatched(r, tableName)
  <2>1. PICK result \in Outcomes(r, k) :
          \/ last' = Called(r, k, result)
          \/ last' = Called(r, k, [result EXCEPT !.reply = "lost"])
    BY <1>1 DEF VirtualRpc, Dispatched
  <2>2. result = Result(result.reply, result.wrote)
    BY DEF Outcomes, Result, Error
  <2>3. [result EXCEPT !.reply = "lost"].wrote = result.wrote
    BY <2>2 DEF Result
  <2> HIDE DEF k
  <2>4. /\ last'.request = r /\ last'.session = tableName /\ last'.handler = k
        /\ last'.table = IF k = "ReadRows" THEN tableName ELSE r.table
        /\ last'.wrote = result.wrote
    BY <2>1, <2>3 DEF Called
  <2>5. k = Dispatched(r, tableName)
    BY DEF k
  <2> QED
    BY <2>4, <2>5 DEF LastCall
<1>2. CASE OpenSession \/ Continue \/ EndSession \/ UNCHANGED vars
  BY <1>2 DEF OpenSession, Continue, EndSession, vars, LastCall
<1> QED
  BY <1>1, <1>2 DEF Next

\* The record of the last call is that of a dispatch of its request.
THEOREM SessionLastCall == Spec => []LastCall
<1>1. Init => LastCall
  BY DEF Init, LastCall
<1> QED
  BY <1>1, LastCallStep, PTL DEF Spec

\* What a handler that wrote was given.
LEMMA Wrote ==
  ASSUME LastCall, last # None, last.wrote = TRUE, last.table # NoTable
  PROVE  /\ last.request \in Requests /\ last.request.table # NoTable
         /\ last.table = last.request.table
         /\ last.handler = Handler(last.request) /\ last.handler \in Mutating
         /\ last.handler = "CheckAndMutateRow" =>
              \E list \in {4, 5} : list \in last.request.fields
         /\ last.handler = "MutateRow" => 3 \in last.request.fields
<1> DEFINE r == last.request
           k == last.handler
<1>1. PICK result \in Outcomes(r, k) : result.wrote = TRUE
  BY DEF LastCall
<1> HIDE DEF r, k
<1>2. k \in Mutating
  BY <1>1 DEF Outcomes, Result, Error, Mutating
<1>3. ASSUME k = "CheckAndMutateRow" PROVE \E list \in {4, 5} : list \in r.fields
  <2>1. result \in {Error} \cup {Result("ok", list \in r.fields) : list \in {4, 5}}
    BY <1>1, <1>3 DEF Outcomes
  <2>2. result # Error
    BY <1>1 DEF Error, Result
  <2>3. PICK list \in {4, 5} : result = Result("ok", list \in r.fields)
    BY <2>1, <2>2, Zenon
  <2>4. result.wrote = (list \in r.fields)
    BY <2>3 DEF Result
  <2> QED
    BY <1>1, <2>4, Zenon
<1>4. k = "MutateRow" => 3 \in r.fields
  BY <1>1 DEF Outcomes, Result, Error
<1> USE DEF r, k
<1>5. last.table = last.request.table /\ last.handler = Handler(last.request)
  BY <1>2 DEF LastCall, Mutating, Dispatched
<1> QED
  BY <1>2, <1>3, <1>4, <1>5 DEF LastCall

\* However a payload is misread, a table that a client named is written only by the handler
\* of the request's own type, or by one that takes an app profile or a view of it for a
\* mutation, and it is the table the request names.
THEOREM SessionWritesAsked == Spec => []WritesAsked
<1>1. LastCall => WritesAsked
  <2> SUFFICES ASSUME LastCall, last # None, last.wrote, last.table # NoTable
               PROVE  /\ last.handler \in Mutating /\ last.table = last.request.table
                      /\ last.request.kind = last.handler \/ TextTaken(last.request, last.handler)
    BY DEF WritesAsked
  <2>1. last.wrote = TRUE
    BY DEF LastCall, Outcomes, Result, Error
  <2>2. CASE last.handler = "CheckAndMutateRow"
    BY <2>1, <2>2, Wrote, AppliedCheck
  <2>3. CASE last.handler = "MutateRow"
    BY <2>1, <2>3, Wrote, AppliedMutateRow
  <2>4. CASE last.handler = "MutateRows"
    BY <2>1, <2>4, Wrote, AppliedMutateRows
  <2> QED
    BY <2>1, <2>2, <2>3, <2>4, Wrote DEF Mutating
<1> QED
  BY <1>1, SessionLastCall, PTL

\* A read that names a table is served as a read, from the table of the session.
THEOREM SessionReadsServed == Spec => []ReadsServed
<1>1. LastCall => ReadsServed
  BY ReadsAreReads DEF LastCall, ReadsServed, Dispatched
<1> QED
  BY <1>1, SessionLastCall, PTL

\* A MutateRow or MutateRows that names a table reaches its own handler only if its app
\* profile or view spoils each earlier reading that its fields allow.
THEOREM SessionAppliedOnlySpoilt == Spec => []AppliedOnlySpoilt
<1>1. LastCall => AppliedOnlySpoilt
  <2> DEFINE r == last.request
             Spoils(f, type) == f \in r.fields /\ <<f, type>> \notin r.reads
  <2> SUFFICES ASSUME LastCall, last # None, last.wrote, last.table # NoTable,
                      last.handler = last.request.kind
               PROVE  /\ r.kind = "MutateRow" => Spoils(4, "Mutation") \/ Spoils(6, "RowFilter")
                      /\ r.kind = "MutateRows" =>
                           /\ Spoils(3, "RowFilter")
                           /\ r.hollow \/ (Spoils(5, "Mutation") /\ Spoils(3, "Mutation"))
    BY DEF AppliedOnlySpoilt
  <2>1. last.wrote = TRUE
    BY DEF LastCall, Outcomes, Result, Error
  <2> QED
    BY <2>1, Wrote, AppliedMutateRow, AppliedMutateRows
<1> QED
  BY <1>1, SessionLastCall, PTL
================================================================================
