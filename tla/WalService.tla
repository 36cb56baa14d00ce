------------------------------ MODULE WalService ------------------------------
(* What the write-ahead log of package walcloud promises to its caller, the
   engine: records are accepted into numbered batches, a batch is stored as one
   object or not at all, the writers of a batch are answered after the store
   has answered, and objects disappear only when they are garbage collected.
   How batches are cut (timers, Flush, Close) is left open; WalManager is the
   detailed specification and implements this one.  *)
EXTENDS Naturals, Sequences, Functions

CONSTANT Records      \* one element per call of WriteRecord

VARIABLES
  wal,        \* the objects {ns}/wal/{seq}.wal: a set of [seq, recs]
  gone,       \* history: the records of the objects the collector deleted
  batches,    \* batches whose writers are not answered yet
  nextSeq,    \* Manager.nextSeq
  status,     \* what the caller of WriteRecord knows of its record
  seqOf       \* the sequence number WriteRecord returned (0: none yet)

svcVars == <<wal, gone, batches, nextSeq, status, seqOf>>

Results == {"open", "ok", "err"}
Statuses == {"idle", "waiting", "ok", "failed", "rejected", "lost"}
Objects == [seq : Nat \ {0}, recs : Seq(Records)]
Batches == [seq : Nat \ {0}, recs : Seq(Records), res : Results]

\* The object a batch is stored as: one Put of the merged segments.
ObjectOf(b) == [seq |-> b.seq, recs |-> b.recs]

\* The store after the objects of B were Put: a Put replaces the object of the
\* same name.
Stored(w, B) ==
  {o \in w : \A b \in B : b.seq # o.seq} \cup {ObjectOf(b) : b \in B}

\* Mutant: the counter starts at the last listed object.
FirstSeqLast(w, n) == n \in {1} \cup {o.seq : o \in w} /\ \A o \in w : o.seq <= n

\* The counter a manager starts from: one past the last listed object, or 1.
FirstSeq(w, n) == n \in {1} \cup {o.seq + 1 : o \in w} /\ \A o \in w : o.seq < n

\* Mutant: the raw result of Put is passed on as the writer's status.
AnsweredRaw(st, b) == [r \in Records |-> IF r \in Range(b.recs) THEN b.res ELSE st[r]]

\* What the writers of a batch learn when the store has answered.
Answered(st, b) ==
  [r \in Records |->
     IF r \in Range(b.recs) THEN IF b.res = "ok" THEN "ok" ELSE "failed" ELSE st[r]]

\* The callers of a process that died never learn what became of their record.
Orphaned(st) == [r \in Records |-> IF st[r] = "waiting" THEN "lost" ELSE st[r]]

-------------------------------------------------------------------------------
SvcInit ==
  /\ wal = {}
  /\ gone = {}
  /\ batches = {}
  /\ nextSeq = 1
  /\ status = [r \in Records |-> "idle"]
  /\ seqOf = [r \in Records |-> 0]

\* WriteRecord opens a batch under a fresh sequence number.
AcceptFresh(r) ==
  /\ status[r] = "idle"
  /\ batches' = batches \cup {[seq |-> nextSeq, recs |-> <<r>>, res |-> "open"]}
  /\ seqOf' = [seqOf EXCEPT ![r] = nextSeq]
  /\ nextSeq' = nextSeq + 1
  /\ status' = [status EXCEPT ![r] = "waiting"]
  /\ UNCHANGED <<wal, gone>>

\* WriteRecord joins the batch of the current window, which is the newest one.
AcceptJoin(r, b) ==
  /\ status[r] = "idle"
  /\ b \in batches /\ b.res = "open" /\ b.seq + 1 = nextSeq
  /\ batches' = (batches \ {b}) \cup {[b EXCEPT !.recs = Append(b.recs, r)]}
  /\ seqOf' = [seqOf EXCEPT ![r] = b.seq]
  /\ status' = [status EXCEPT ![r] = "waiting"]
  /\ UNCHANGED <<wal, gone, nextSeq>>

\* WriteRecord on a closed manager.
Refuse(r) ==
  /\ status[r] = "idle"
  /\ status' = [status EXCEPT ![r] = "rejected"]
  /\ UNCHANGED <<wal, gone, batches, nextSeq, seqOf>>

\* The store answers the Put of a batch; an error does not say whether the
\* object is there.
StoreAnswers(b, res) ==
  /\ b \in batches /\ b.res = "open"
  /\ res \in {"ok", "err"}
  /\ batches' = (batches \ {b}) \cup {[b EXCEPT !.res = res]}
  /\ wal' = Stored(wal, {b}) \/ (res = "err" /\ wal' = wal)
  /\ UNCHANGED <<gone, nextSeq, status, seqOf>>

\* The writers of the batch are told.
Answer(b) ==
  /\ b \in batches /\ b.res # "open"
  /\ batches' = batches \ {b}
  /\ status' = Answered(status, b)
  /\ UNCHANGED <<wal, gone, nextSeq, seqOf>>

\* The collector deletes one object.
Collect(o) ==
  /\ o \in wal
  /\ wal' = wal \ {o}
  /\ gone' = gone \cup Range(o.recs)
  /\ UNCHANGED <<batches, nextSeq, status, seqOf>>

\* The process dies and a new manager starts; each Put that was on its way may
\* have reached the store.
Restart ==
  /\ \E L \in SUBSET {b \in batches : b.res = "open"} : wal' = Stored(wal, L)
  /\ FirstSeq(wal', nextSeq')
  /\ batches' = {}
  /\ status' = Orphaned(status)
  /\ UNCHANGED <<gone, seqOf>>

SvcNext ==
  \/ \E r \in Records : AcceptFresh(r) \/ Refuse(r) \/ \E b \in batches : AcceptJoin(r, b)
  \/ \E b \in batches : Answer(b) \/ \E res \in {"ok", "err"} : StoreAnswers(b, res)
  \/ \E o \in wal : Collect(o)
  \/ Restart

SvcSpec == SvcInit /\ [][SvcNext]_svcVars

-------------------------------------------------------------------------------
SvcTypeOK ==
  /\ wal \subseteq Objects
  /\ gone \subseteq Records
  /\ batches \subseteq Batches
  /\ nextSeq \in Nat \ {0}
  /\ status \in [Records -> Statuses]
  /\ seqOf \in [Records -> Nat]

\* A record is held by an object.
Holds(o, r) == o.seq = seqOf[r] /\ r \in Range(o.recs)

\* "ok" is only answered for a record whose object is in the store under the
\* sequence number its writer was given, unless the collector removed it: no
\* later Put, by this process or by a restarted one, replaces it.
AckedDurable ==
  \A r \in Records : status[r] = "ok" => (\E o \in wal : Holds(o, r)) \/ r \in gone

\* "Each write produces an immutable WAL object": an object that is in the store
\* before and after a step has the same content, whatever batch was Put.
WalImmutable ==
  [][\A o \in wal, p \in wal' : o.seq = p.seq => o = p]_svcVars
===============================================================================
