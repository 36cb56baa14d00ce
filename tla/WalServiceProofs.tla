--------------------------- MODULE WalServiceProofs ---------------------------
(* Proofs about WalService, for any set of records: the type invariant, that an
   acknowledged record stays in the store until it is collected, and that stored
   objects never change.  *)
EXTENDS WalService, TLAPS

-------------------------------------------------------------------------------
(* The inductive invariant.  An object can only be replaced by a Put under its
   own number; the invariant says that no batch still waiting for the store has
   the number of an object, of another batch or of a batch to come. *)

\* Numbers are handed out once: they lie below the counter and are not shared.
NumbersFresh ==
  /\ \A o \in wal : o.seq < nextSeq
  /\ \A b \in batches : b.seq < nextSeq
  /\ \A o, p \in wal : o.seq = p.seq => o = p
  /\ \A b, c \in batches : b.seq = c.seq => b = c

\* The number of an open batch is free in the store; an answered batch left its
\* own object, unless it failed or was collected since.
BatchObjects ==
  /\ \A b \in batches, o \in wal : b.seq = o.seq => b.res # "open" /\ o = ObjectOf(b)
  /\ \A b \in batches : b.res = "ok" => ObjectOf(b) \in wal \/ Range(b.recs) \subseteq gone

\* The records of a batch wait for its answer under its number.
BatchWriters ==
  \A b \in batches : \A r \in Range(b.recs) : status[r] = "waiting" /\ seqOf[r] = b.seq

\* The records of an object were accepted under its number, those of a collected
\* one were accepted.
ObjectWriters ==
  /\ \A o \in wal : \A r \in Range(o.recs) : status[r] # "idle" /\ seqOf[r] = o.seq
  /\ \A r \in gone : status[r] # "idle"

SvcInv ==
  SvcTypeOK /\ NumbersFresh /\ BatchObjects /\ BatchWriters /\ ObjectWriters /\ AckedDurable

-------------------------------------------------------------------------------
(* The records of the batches WriteRecord builds. *)

LEMMA RangeSingleton ==
  ASSUME NEW r \in Records
  PROVE  <<r>> \in Seq(Records) /\ Range(<<r>>) = {r}
  BY DEF Range

LEMMA RangeAppend ==
  ASSUME NEW s \in Seq(Records), NEW r \in Records
  PROVE  Append(s, r) \in Seq(Records) /\ Range(Append(s, r)) = Range(s) \cup {r}
<1>1. Append(s, r) \in Seq(Records)
  OBVIOUS
<1>2. Range(Append(s, r)) \subseteq Range(s) \cup {r}
  BY DEF Range
<1>3. Range(s) \subseteq Range(Append(s, r))
  <2> SUFFICES ASSUME NEW i \in DOMAIN s PROVE s[i] \in Range(Append(s, r))
    BY DEF Range
  <2>1. i \in DOMAIN Append(s, r) /\ Append(s, r)[i] = s[i]
    OBVIOUS
  <2> QED
    BY <2>1 DEF Range
<1>4. r \in Range(Append(s, r))
  <2>1. Len(s) + 1 \in DOMAIN Append(s, r) /\ Append(s, r)[Len(s) + 1] = r
    OBVIOUS
  <2> QED
    BY <2>1 DEF Range
<1> QED
  BY <1>1, <1>2, <1>3, <1>4

LEMMA RangeRecords ==
  ASSUME NEW s \in Seq(Records)
  PROVE  Range(s) \subseteq Records
  BY DEF Range

-------------------------------------------------------------------------------
(* Each step preserves the invariant. *)

LEMMA AcceptFreshInv ==
  ASSUME SvcInv, NEW r \in Records, AcceptFresh(r)
  PROVE  SvcInv'
<1> DEFINE b == [seq |-> nextSeq, recs |-> <<r>>, res |-> "open"]
<1> USE DEF SvcInv, AcceptFresh
<1>1. b \in Batches /\ Range(b.recs) = {r}
  BY RangeSingleton DEF SvcTypeOK, Batches, Results
<1>2. SvcTypeOK'
  BY <1>1 DEF SvcTypeOK, Statuses
<1>3. NumbersFresh'
  BY <1>1 DEF NumbersFresh, SvcTypeOK, Objects, Batches
<1>4. BatchObjects'
  BY <1>1 DEF BatchObjects, NumbersFresh, SvcTypeOK, Objects, Batches
<1>5. \A c \in batches : r \notin Range(c.recs)
  BY DEF BatchWriters
<1>6. BatchWriters'
  BY <1>1, <1>5, RangeRecords DEF BatchWriters, SvcTypeOK, Batches
<1>7. AckedDurable'
  BY DEF AckedDurable, Holds, SvcTypeOK
<1>8. ObjectWriters'
  BY RangeRecords DEF ObjectWriters, SvcTypeOK, Objects
<1> QED
  BY <1>2, <1>3, <1>4, <1>6, <1>7, <1>8

LEMMA AcceptJoinInv ==
  ASSUME SvcInv, NEW r \in Records, NEW b \in batches, AcceptJoin(r, b)
  PROVE  SvcInv'
<1> DEFINE c == [b EXCEPT !.recs = Append(b.recs, r)]
<1> USE DEF SvcInv, AcceptJoin
<1>1. b \in Batches /\ c \in Batches /\ Range(c.recs) = Range(b.recs) \cup {r}
      /\ c.seq = b.seq /\ c.res = "open"
  BY RangeAppend DEF SvcTypeOK, Batches
<1>2. SvcTypeOK'
  BY <1>1 DEF SvcTypeOK, Statuses, Batches
<1>3. NumbersFresh'
  BY <1>1 DEF NumbersFresh, SvcTypeOK, Objects, Batches
<1>4. BatchObjects'
  BY <1>1 DEF BatchObjects, NumbersFresh, SvcTypeOK, Objects, Batches
<1>5. \A d \in batches : r \notin Range(d.recs)
  BY DEF BatchWriters
<1>6. BatchWriters'
  BY <1>1, <1>5, RangeRecords DEF BatchWriters, SvcTypeOK, Batches
<1>7. AckedDurable'
  BY DEF AckedDurable, Holds, SvcTypeOK
<1>8. ObjectWriters'
  BY RangeRecords DEF ObjectWriters, SvcTypeOK, Objects
<1> QED
  BY <1>2, <1>3, <1>4, <1>6, <1>7, <1>8

LEMMA RefuseInv ==
  ASSUME SvcInv, NEW r \in Records, Refuse(r)
  PROVE  SvcInv'
<1> USE DEF SvcInv, Refuse
<1>1. SvcTypeOK'
  BY DEF SvcTypeOK, Statuses
<1>2. NumbersFresh' /\ BatchObjects'
  BY DEF NumbersFresh, BatchObjects
<1>3. BatchWriters'
  BY RangeRecords DEF BatchWriters, SvcTypeOK, Batches
<1>4. AckedDurable'
  BY DEF AckedDurable, Holds, SvcTypeOK
<1>5. ObjectWriters'
  BY RangeRecords DEF ObjectWriters, SvcTypeOK, Objects
<1> QED
  BY <1>1, <1>2, <1>3, <1>4, <1>5

LEMMA StoreAnswersInv ==
  ASSUME SvcInv, NEW b \in batches, NEW res \in {"ok", "err"}, StoreAnswers(b, res)
  PROVE  SvcInv'
<1> DEFINE c == [b EXCEPT !.res = res]
<1> USE DEF SvcInv
<1>1. /\ b \in Batches /\ c \in Batches /\ c.recs = b.recs /\ c.seq = b.seq /\ c.res = res
      /\ ObjectOf(b) \in Objects /\ ObjectOf(c) = ObjectOf(b) /\ ObjectOf(b).seq = b.seq
  BY DEF SvcTypeOK, Batches, Objects, Results, ObjectOf
<1>2. \A o \in wal : o.seq # b.seq
  BY DEF StoreAnswers, BatchObjects
<1>3. wal \subseteq wal' /\ wal' \subseteq wal \cup {ObjectOf(b)}
      /\ (res = "ok" => ObjectOf(b) \in wal')
  BY <1>2 DEF StoreAnswers, Stored
<1>4. /\ batches' = (batches \ {b}) \cup {c}
      /\ gone' = gone /\ nextSeq' = nextSeq /\ status' = status /\ seqOf' = seqOf
  BY DEF StoreAnswers
<1> HIDE DEF c
<1>5. SvcTypeOK'
  BY <1>1, <1>3, <1>4 DEF SvcTypeOK
<1>6. NumbersFresh'
  BY <1>1, <1>2, <1>3, <1>4 DEF NumbersFresh
<1>7. BatchObjects'
  <2>1. ASSUME NEW d \in batches', NEW o \in wal', d.seq = o.seq
        PROVE  d.res # "open" /\ o = ObjectOf(d)
    <3>1. CASE d = c
      BY <1>1, <1>2, <1>3, <2>1, <3>1
    <3>2. CASE d # c
      <4>1. d \in batches /\ d # b
        BY <1>4, <3>2
      <4>2. o \in wal
        BY <1>1, <1>3, <2>1, <4>1 DEF NumbersFresh
      <4> QED
        BY <2>1, <4>1, <4>2 DEF BatchObjects
    <3> QED
      BY <3>1, <3>2
  <2>2. ASSUME NEW d \in batches', d.res = "ok"
        PROVE  ObjectOf(d) \in wal' \/ Range(d.recs) \subseteq gone'
    <3>1. CASE d = c
      BY <1>1, <1>3, <2>2, <3>1
    <3>2. CASE d \in batches
      BY <1>3, <1>4, <2>2, <3>2 DEF BatchObjects
    <3> QED
      BY <1>4, <3>1, <3>2
  <2> QED
    BY <2>1, <2>2 DEF BatchObjects
<1>8. BatchWriters'
  BY <1>1, <1>4 DEF BatchWriters
<1>9. AckedDurable'
  BY <1>3, <1>4 DEF AckedDurable, Holds
<1>10. ObjectWriters'
  BY <1>3, <1>4 DEF ObjectWriters, BatchWriters, ObjectOf
<1> QED
  BY <1>5, <1>6, <1>7, <1>8, <1>9, <1>10

LEMMA AnswerInv ==
  ASSUME SvcInv, NEW b \in batches, Answer(b)
  PROVE  SvcInv'
<1> USE DEF SvcInv, Answer
<1>1. SvcTypeOK'
  BY DEF SvcTypeOK, Statuses, Answered
<1>2. NumbersFresh' /\ BatchObjects'
  BY DEF NumbersFresh, BatchObjects
<1>3. BatchWriters'
  <2>1. ASSUME NEW c \in batches', NEW r \in Range(c.recs) PROVE status'[r] = status[r]
    <3>1. r \in Records /\ seqOf[r] = c.seq
      BY RangeRecords DEF BatchWriters, SvcTypeOK, Batches
    <3>2. r \notin Range(b.recs)
      BY <3>1 DEF BatchWriters, NumbersFresh
    <3> QED
      BY <3>1, <3>2 DEF Answered
  <2> QED
    BY <2>1 DEF BatchWriters
<1>4. AckedDurable'
  <2> SUFFICES ASSUME NEW r \in Records, status'[r] = "ok"
               PROVE  (\E o \in wal : Holds(o, r)) \/ r \in gone
    BY DEF AckedDurable, Holds
  <2>1. CASE r \notin Range(b.recs)
    BY <2>1 DEF AckedDurable, Answered
  <2>2. CASE r \in Range(b.recs)
    <3>1. b.res = "ok" /\ seqOf[r] = b.seq
      BY <2>2 DEF Answered, BatchWriters
    <3>2. CASE ObjectOf(b) \in wal
      BY <2>2, <3>1, <3>2 DEF Holds, ObjectOf
    <3> QED
      BY <2>2, <3>1, <3>2 DEF BatchObjects
  <2> QED
    BY <2>1, <2>2
<1>5. ObjectWriters'
  BY RangeRecords DEF ObjectWriters, Answered, SvcTypeOK, Objects
<1> QED
  BY <1>1, <1>2, <1>3, <1>4, <1>5

LEMMA CollectInv ==
  ASSUME SvcInv, NEW o \in wal, Collect(o)
  PROVE  SvcInv'
<1> USE DEF SvcInv, Collect
<1>1. SvcTypeOK'
  BY RangeRecords DEF SvcTypeOK, Objects
<1>2. NumbersFresh'
  BY DEF NumbersFresh
<1>3. BatchObjects'
  BY DEF BatchObjects, ObjectOf
<1>4. BatchWriters'
  BY DEF BatchWriters
<1>5. AckedDurable'
  BY DEF AckedDurable, Holds
<1>6. ObjectWriters'
  BY DEF ObjectWriters
<1> QED
  BY <1>1, <1>2, <1>3, <1>4, <1>5, <1>6

LEMMA RestartInv ==
  ASSUME SvcInv, Restart
  PROVE  SvcInv'
<1> USE DEF SvcInv, Restart
<1>1. PICK L \in SUBSET {b \in batches : b.res = "open"} : wal' = Stored(wal, L)
  OBVIOUS
<1>2. \A b \in L : /\ b \in batches /\ ObjectOf(b) \in Objects /\ ObjectOf(b).seq = b.seq
                   /\ \A o \in wal : o.seq # b.seq
  BY <1>1 DEF SvcTypeOK, Batches, Objects, ObjectOf, BatchObjects
<1>3. wal \subseteq wal'
  BY <1>1, <1>2 DEF Stored
<1>4. wal' \subseteq Objects
  BY <1>1, <1>2 DEF Stored, SvcTypeOK
<1>5. SvcTypeOK'
  BY <1>4 DEF SvcTypeOK, Statuses, Orphaned, FirstSeq, Objects
<1>6. NumbersFresh'
  BY <1>1, <1>2 DEF NumbersFresh, FirstSeq, Stored
<1>7. BatchObjects' /\ BatchWriters'
  BY DEF BatchObjects, BatchWriters
<1>8. AckedDurable'
  BY <1>3 DEF AckedDurable, Holds, Orphaned
<1>9. ObjectWriters'
  <2>1. \A r \in Records : status[r] # "idle" => status'[r] # "idle"
    BY DEF Orphaned
  <2>2. \A o \in wal' : \A r \in Range(o.recs) : status[r] # "idle" /\ seqOf[r] = o.seq
    BY <1>1 DEF Stored, ObjectOf, ObjectWriters, BatchWriters
  <2> QED
    BY <1>4, <2>1, <2>2, RangeRecords DEF ObjectWriters, Objects, SvcTypeOK
<1> QED
  BY <1>5, <1>6, <1>7, <1>8, <1>9

LEMMA SvcStep == SvcInv /\ [SvcNext]_svcVars => SvcInv'
<1> SUFFICES ASSUME SvcInv, [SvcNext]_svcVars PROVE SvcInv'
  OBVIOUS
<1>1. CASE UNCHANGED svcVars
  BY <1>1 DEF svcVars, SvcInv, SvcTypeOK, NumbersFresh, BatchObjects, BatchWriters,
              ObjectWriters, AckedDurable, Holds
<1>2. CASE SvcNext
  BY <1>2, AcceptFreshInv, AcceptJoinInv, RefuseInv, StoreAnswersInv, AnswerInv,
     CollectInv, RestartInv DEF SvcNext
<1> QED
  BY <1>1, <1>2

LEMMA SvcStart == SvcInit => SvcInv
  BY DEF SvcInit, SvcInv, SvcTypeOK, NumbersFresh, BatchObjects, BatchWriters,
         ObjectWriters, AckedDurable, Statuses

-------------------------------------------------------------------------------
(* Who holds the records of the waiting writers. *)

\* A writer that waits is in a batch that will be answered.
WaitersHeld ==
  \A r \in Records : status[r] = "waiting" => \E b \in batches : r \in Range(b.recs)

\* No record is twice in a sequence.
Distinct(s) == \A i, j \in DOMAIN s : s[i] = s[j] => i = j

SvcHeld == WaitersHeld /\ \A b \in batches : Distinct(b.recs)

LEMMA DistinctAppend ==
  ASSUME NEW s \in Seq(Records), NEW r \in Records, Distinct(s), r \notin Range(s)
  PROVE  Distinct(Append(s, r))
  BY DEF Distinct, Range

LEMMA HeldStep == SvcInv /\ SvcHeld /\ [SvcNext]_svcVars => SvcHeld'
<1> SUFFICES ASSUME SvcInv, SvcHeld, [SvcNext]_svcVars PROVE SvcHeld'
  OBVIOUS
<1>1. ASSUME NEW r \in Records, AcceptFresh(r) PROVE SvcHeld'
  <2> DEFINE c == [seq |-> nextSeq, recs |-> <<r>>, res |-> "open"]
  <2>1. c.recs = <<r>> /\ Range(c.recs) = {r} /\ Distinct(c.recs)
    BY RangeSingleton DEF Distinct
  <2>2. batches' = batches \cup {c} /\ status' = [status EXCEPT ![r] = "waiting"]
    BY <1>1 DEF AcceptFresh
  <2> HIDE DEF c
  <2> QED
    BY <2>1, <2>2 DEF SvcHeld, WaitersHeld, SvcInv, SvcTypeOK
<1>2. ASSUME NEW r \in Records, NEW b \in batches, AcceptJoin(r, b) PROVE SvcHeld'
  <2> DEFINE c == [b EXCEPT !.recs = Append(b.recs, r)]
  <2>1. b.recs \in Seq(Records) /\ c.recs = Append(b.recs, r)
    BY DEF SvcInv, SvcTypeOK, Batches
  <2>2. batches' = (batches \ {b}) \cup {c} /\ status' = [status EXCEPT ![r] = "waiting"]
        /\ status[r] = "idle"
    BY <1>2 DEF AcceptJoin
  <2>3. r \notin Range(b.recs)
    BY <2>2 DEF SvcInv, BatchWriters
  <2>4. Range(c.recs) = Range(b.recs) \cup {r} /\ Distinct(c.recs)
    BY <2>1, <2>3, RangeAppend, DistinctAppend DEF SvcHeld
  <2> HIDE DEF c
  <2> QED
    BY <2>2, <2>4 DEF SvcHeld, WaitersHeld, SvcInv, SvcTypeOK
<1>3. ASSUME NEW r \in Records, Refuse(r) PROVE SvcHeld'
  BY <1>3 DEF Refuse, SvcHeld, WaitersHeld, SvcInv, SvcTypeOK
<1>4. ASSUME NEW b \in batches, Answer(b) PROVE SvcHeld'
  BY <1>4 DEF Answer, Answered, SvcHeld, WaitersHeld
<1>5. ASSUME NEW b \in batches, NEW res \in {"ok", "err"}, StoreAnswers(b, res) PROVE SvcHeld'
  <2> DEFINE c == [b EXCEPT !.res = res]
  <2>1. c.recs = b.recs
    BY DEF SvcInv, SvcTypeOK, Batches
  <2>2. batches' = (batches \ {b}) \cup {c} /\ status' = status
    BY <1>5 DEF StoreAnswers
  <2> HIDE DEF c
  <2> QED
    BY <2>1, <2>2 DEF SvcHeld, WaitersHeld
<1>6. ASSUME NEW o \in wal, Collect(o) PROVE SvcHeld'
  BY <1>6 DEF Collect, SvcHeld, WaitersHeld
<1>7. ASSUME Restart PROVE SvcHeld'
  BY <1>7 DEF Restart, Orphaned, SvcHeld, WaitersHeld
<1>8. CASE UNCHANGED svcVars
  BY <1>8 DEF svcVars, SvcHeld, WaitersHeld
<1> QED
  BY <1>1, <1>2, <1>3, <1>4, <1>5, <1>6, <1>7, <1>8 DEF SvcNext

LEMMA HeldStart == SvcInit => SvcHeld
  BY DEF SvcInit, SvcHeld, WaitersHeld

-------------------------------------------------------------------------------
\* The invariant holds in every reachable state of the abstract log.
THEOREM SvcInvariant == SvcSpec => []SvcInv
  BY SvcStart, SvcStep, PTL DEF SvcSpec

\* The state of the log keeps its type.
THEOREM SvcTypeCorrect == SvcSpec => []SvcTypeOK
  BY SvcInvariant, PTL DEF SvcInv

\* WriteRecord's "ok" stands for an object in the store, or for a collected one:
\* no Put of this process or of a later one replaces it.
THEOREM SvcAckedDurable == SvcSpec => []AckedDurable
  BY SvcInvariant, PTL DEF SvcInv

\* A stored object is the same after a step as before it.
LEMMA ImmutableStep ==
  SvcInv /\ [SvcNext]_svcVars => [\A o \in wal, p \in wal' : o.seq = p.seq => o = p]_svcVars
<1> SUFFICES ASSUME SvcInv, SvcNext, NEW o \in wal, NEW p \in wal', o.seq = p.seq
             PROVE  o = p
  OBVIOUS
<1>1. CASE p \in wal
  BY <1>1 DEF SvcInv, NumbersFresh
<1>2. CASE p \notin wal
  <2>1. PICK B \in SUBSET {b \in batches : b.res = "open"} : wal' = Stored(wal, B)
    BY <1>2 DEF SvcNext, AcceptFresh, AcceptJoin, Refuse, StoreAnswers, Answer, Collect,
                Restart
  <2> QED
    BY <1>2, <2>1 DEF SvcInv, BatchObjects, Stored, ObjectOf
<1> QED
  BY <1>1, <1>2

\* "Each write produces an immutable WAL object": no step changes the content of a
\* stored object.
THEOREM SvcImmutable == SvcSpec => WalImmutable
  BY ImmutableStep, SvcInvariant, PTL DEF SvcSpec, WalImmutable
===============================================================================
