--------------------------- MODULE WalManagerProofs ---------------------------
(* Proofs about WalManager, for any set of records and either kind of batch
   window: the manager with its timers, background flushes, Flush, Close, GC and
   restarts implements WalService, and what WalServiceProofs shows of the abstract
   log therefore holds of it; Flush is a barrier.  *)
EXTENDS WalManager, TLAPS

P == INSTANCE WalServiceProofs WITH batches <- Window \cup flights \cup flushing

-------------------------------------------------------------------------------
(* The inductive invariant. *)

\* The variables WalService does not have keep their types.
OwnTypeOK ==
  /\ pending \in Seq(Records)
  /\ pendingSeq \in Nat
  /\ timer \in BOOLEAN
  /\ loose \in Nat
  /\ flights \subseteq Svc!Batches
  /\ flushing \subseteq Svc!Batches
  /\ flush \in [pc : FlushPCs, res : {"ok", "err"}, before : SUBSET Records]
  /\ closing \in ClosePCs
  /\ gc \subseteq Nat \ {0}
  /\ panicked \in BOOLEAN
  /\ batching \in Batchings

\* The open window has the newest number, and only a batching manager opens one.
WindowNewest ==
  pending # <<>> =>
    /\ batching
    /\ pendingSeq # 0
    /\ pendingSeq + 1 = nextSeq
    /\ \A b \in flights \cup flushing : b.seq < pendingSeq

\* Flush and the background flushes never hold the same batch.
TakenApart == \A b \in flights, c \in flushing : b.seq # c.seq

\* What Flush holds at each of its steps: a batch not yet put, then the batch with
\* the answer Flush is going to pass on, then nothing.
FlushHolds ==
  /\ \A b, c \in flushing : b = c
  /\ flush.pc \in {"taken", "putting"} => \A b \in flushing : b.res = "open"
  /\ flush.pc = "settling" => \A b \in flushing : b.res = flush.res
  /\ flush.pc \in {"waiting", "woken", "returned"} => flushing = {}

\* The records Flush still has to see answered, while it runs and when it is over.
Barrier ==
  /\ \A r \in flush.before : status[r] # "idle"
  /\ batching =>
       \A r \in flush.before \cap Waiting :
         \/ flush.pc \in {"taken", "putting", "settling"}
            /\ \E b \in flights \cup flushing : r \in Range(b.recs)
         \/ flush.pc = "waiting" /\ \E b \in flights : r \in Range(b.recs)

OwnInv == OwnTypeOK /\ WindowNewest /\ TakenApart /\ FlushHolds /\ Barrier

ManagerInv == P!SvcInv /\ P!SvcHeld /\ OwnInv

-------------------------------------------------------------------------------
(* Facts every action needs. *)

Held == Window \cup flights \cup flushing

\* The batch of the open window when there is one.
WindowBatch == [seq |-> pendingSeq, recs |-> pending, res |-> "open"]

LEMMA SvcFacts ==
  ASSUME P!SvcInv, P!SvcHeld
  PROVE  /\ wal \subseteq Svc!Objects
         /\ nextSeq \in Nat \ {0}
         /\ status \in [Records -> Svc!Statuses]
         /\ seqOf \in [Records -> Nat]
         /\ \A b \in Held : b \in Svc!Batches /\ b.seq < nextSeq
         /\ \A o, p \in wal : o.seq = p.seq => o = p
         /\ \A b \in Held : \A r \in Range(b.recs) :
              r \in Records /\ status[r] = "waiting" /\ seqOf[r] = b.seq
         /\ \A r \in Waiting : \E b \in Held : r \in Range(b.recs)
<1>1. wal \subseteq Svc!Objects /\ nextSeq \in Nat \ {0}
      /\ status \in [Records -> Svc!Statuses] /\ seqOf \in [Records -> Nat]
      /\ \A b \in Held : b \in Svc!Batches
  BY DEF P!SvcInv, P!SvcTypeOK, P!Objects, Svc!Objects, P!Statuses, Svc!Statuses, P!Batches,
         Svc!Batches, P!Results, Svc!Results, Held
<1>2. (\A b \in Held : b.seq < nextSeq) /\ \A o, p \in wal : o.seq = p.seq => o = p
  BY DEF P!SvcInv, P!NumbersFresh, Held
<1>3. ASSUME NEW b \in Held, NEW r \in Range(b.recs)
      PROVE  r \in Records /\ status[r] = "waiting" /\ seqOf[r] = b.seq
  <2>1. r \in Records
    BY <1>1, <1>3 DEF Svc!Batches, Range
  <2>2. r \in P!Range(b.recs)
    BY <1>3 DEF Range, P!Range
  <2> QED
    BY <2>1, <2>2 DEF P!SvcInv, P!BatchWriters, Held
<1>4. \A r \in Waiting : \E b \in Held : r \in Range(b.recs)
  BY DEF P!SvcHeld, P!WaitersHeld, P!Range, Range, Held, Waiting
<1> QED
  BY <1>1, <1>2, <1>3, <1>4

\* The three places a batch can be in are apart.
LEMMA Apart ==
  ASSUME ManagerInv
  PROVE  /\ flights \cap flushing = {}
         /\ \A b \in Window : b \notin flights /\ b \notin flushing
  BY DEF ManagerInv, OwnInv, OwnTypeOK, TakenApart, WindowNewest, Window, Svc!Batches

LEMMA FlushShape ==
  ASSUME OwnTypeOK
  PROVE  /\ flush = [pc |-> flush.pc, res |-> flush.res, before |-> flush.before]
         /\ flush.pc \in FlushPCs /\ flush.res \in {"ok", "err"}
         /\ flush.before \subseteq Records
  BY DEF OwnTypeOK

\* The same step, seen through the instance of the proofs.
LEMMA SameNext == [Svc!SvcNext]_Svc!svcVars => [P!SvcNext]_P!svcVars
  BY DEF Svc!SvcNext, P!SvcNext, Svc!AcceptFresh, P!AcceptFresh, Svc!Refuse, P!Refuse,
         Svc!AcceptJoin, P!AcceptJoin, Svc!Answer, P!Answer, Svc!StoreAnswers,
         P!StoreAnswers, Svc!Collect, P!Collect, Svc!Restart, P!Restart, Svc!Stored,
         P!Stored, Svc!ObjectOf, P!ObjectOf, Svc!Answered, P!Answered, Svc!FirstSeq,
         P!FirstSeq, Svc!Orphaned, P!Orphaned, Svc!Range, P!Range, Svc!svcVars, P!svcVars

-------------------------------------------------------------------------------
(* WriteRecord *)

LEMMA RejectedStep ==
  ASSUME ManagerInv, NEW r \in Records, Rejected(r)
  PROVE  Svc!SvcNext /\ OwnInv'
<1> USE DEF ManagerInv, OwnInv, Rejected, store, window
<1>1. Svc!Refuse(r)
  BY DEF Svc!Refuse, Window
<1>2. OwnTypeOK' /\ WindowNewest' /\ TakenApart' /\ FlushHolds'
  BY DEF OwnTypeOK, WindowNewest, TakenApart, FlushHolds
<1>3. Waiting' = Waiting
  BY SvcFacts DEF Waiting
<1>4. Barrier'
  BY <1>3, SvcFacts, FlushShape DEF Barrier
<1> QED
  BY <1>1, <1>2, <1>4 DEF Svc!SvcNext

LEMMA WriteDirectStep ==
  ASSUME ManagerInv, NEW r \in Records, WriteDirect(r)
  PROVE  Svc!SvcNext /\ OwnInv'
<1> USE DEF ManagerInv, OwnInv, WriteDirect, store, window
<1> DEFINE b == [seq |-> nextSeq, recs |-> <<r>>, res |-> "open"]
<1>1. Svc!AcceptFresh(r)
  BY DEF Svc!AcceptFresh, Window
<1>2. b \in Svc!Batches /\ b.seq = nextSeq
  BY SvcFacts DEF Svc!Batches, Svc!Results
<1>3. OwnTypeOK'
  BY <1>2 DEF OwnTypeOK
<1>4. WindowNewest' /\ TakenApart' /\ FlushHolds'
  BY <1>2, SvcFacts DEF WindowNewest, TakenApart, FlushHolds, Held, Svc!Batches
<1>5. Barrier'
  BY SvcFacts, FlushShape DEF Barrier
<1> QED
  BY <1>1, <1>3, <1>4, <1>5 DEF Svc!SvcNext

LEMMA OpenWindowStep ==
  ASSUME ManagerInv, NEW r \in Records, OpenWindow(r)
  PROVE  Svc!SvcNext /\ OwnInv'
<1> USE DEF ManagerInv, OwnInv, OpenWindow
<1>1. Window = {} /\ Window' = {[seq |-> nextSeq, recs |-> <<r>>, res |-> "open"]}
  BY DEF Window
<1>2. Svc!AcceptFresh(r)
  BY <1>1 DEF Svc!AcceptFresh
<1>3. OwnTypeOK'
  <2>1. pending' \in Seq(Records) /\ pendingSeq' \in Nat /\ loose' \in Nat
    BY SvcFacts DEF OwnTypeOK
  <2> QED
    BY <2>1 DEF OwnTypeOK
<1>4. WindowNewest' /\ TakenApart' /\ FlushHolds'
  BY SvcFacts DEF WindowNewest, TakenApart, FlushHolds, Held
<1>5. Barrier'
  BY SvcFacts, FlushShape DEF Barrier, Waiting
<1> QED
  BY <1>2, <1>3, <1>4, <1>5 DEF Svc!SvcNext

LEMMA JoinWindowStep ==
  ASSUME ManagerInv, NEW r \in Records, JoinWindow(r)
  PROVE  Svc!SvcNext /\ OwnInv'
<1> USE DEF ManagerInv, OwnInv, JoinWindow, store
<1>1. Window = {WindowBatch}
      /\ Window' = {[WindowBatch EXCEPT !.recs = Append(WindowBatch.recs, r)]}
  BY DEF Window, WindowBatch, OwnTypeOK
<1>2. WindowBatch \notin flights \cup flushing
  BY <1>1, Apart
<1>3. WindowBatch.seq = pendingSeq /\ WindowBatch.res = "open" /\ pendingSeq + 1 = nextSeq
  BY DEF WindowBatch, WindowNewest
<1>4. Svc!AcceptJoin(r, WindowBatch)
  BY <1>1, <1>2, <1>3 DEF Svc!AcceptJoin
<1>5. OwnTypeOK'
  <2>1. pending' \in Seq(Records)
    BY DEF OwnTypeOK
  <2> QED
    BY <2>1 DEF OwnTypeOK
<1>6. WindowNewest' /\ TakenApart' /\ FlushHolds'
  BY DEF WindowNewest, TakenApart, FlushHolds
<1>7. Barrier'
  BY SvcFacts, FlushShape DEF Barrier, Waiting
<1> QED
  BY <1>1, <1>4, <1>5, <1>6, <1>7 DEF Svc!SvcNext

-------------------------------------------------------------------------------
(* The timer and the background flush *)

LEMMA TimerFiresStep ==
  ASSUME ManagerInv, TimerFires
  PROVE  UNCHANGED Svc!svcVars /\ OwnInv'
<1> USE DEF ManagerInv, OwnInv, TimerFires, store, callers
<1>1. UNCHANGED Svc!svcVars
  BY DEF Svc!svcVars, Window
<1>2. OwnTypeOK'
  <2>1. loose' \in Nat
    BY DEF OwnTypeOK
  <2> QED
    BY <2>1 DEF OwnTypeOK
<1>3. WindowNewest' /\ TakenApart' /\ FlushHolds' /\ Barrier'
  BY DEF WindowNewest, TakenApart, FlushHolds, Barrier, Waiting
<1> QED
  BY <1>1, <1>2, <1>3

LEMMA FlushPendingStep ==
  ASSUME ManagerInv, FlushPending
  PROVE  UNCHANGED Svc!svcVars /\ OwnInv'
<1> USE DEF ManagerInv, OwnInv, FlushPending, store, callers
<1>1. Window' = {}
  BY DEF Window
<1>2. UNCHANGED Svc!svcVars
  BY <1>1 DEF Svc!svcVars
<1>3. Window \subseteq Svc!Batches /\ \A b \in Window : b.seq = pendingSeq /\ pending # <<>>
  BY SvcFacts DEF Held, Window
<1>4. OwnTypeOK'
  <2>1. loose' \in Nat /\ pending' \in Seq(Records)
    BY DEF OwnTypeOK
  <2> QED
    BY <1>3, <2>1 DEF OwnTypeOK
<1>5. WindowNewest' /\ FlushHolds'
  BY DEF WindowNewest, FlushHolds
<1>6. TakenApart'
  BY <1>3 DEF TakenApart, WindowNewest, OwnTypeOK, Svc!Batches
<1>7. Barrier'
  BY DEF Barrier, Waiting
<1> QED
  BY <1>2, <1>4, <1>5, <1>6, <1>7

\* A Put answered for a batch of one of the two places.
LEMMA PutAnsweredStep ==
  ASSUME ManagerInv, NEW B \in SUBSET Held, NEW b \in B, NEW res \in {"ok", "err"},
         PutAnswered(B, b, res),
         Held' = (Held \ {b}) \cup {[b EXCEPT !.res = res]}
  PROVE  Svc!SvcNext
<1>1. Svc!StoreAnswers(b, res)
  BY DEF PutAnswered, Svc!StoreAnswers, Held, callers
<1> QED
  BY <1>1 DEF Svc!SvcNext, Held

LEMMA FlightPutStep ==
  ASSUME ManagerInv, NEW b \in flights, NEW res \in {"ok", "err"}, FlightPut(b, res)
  PROVE  Svc!SvcNext /\ OwnInv'
<1> USE DEF ManagerInv, OwnInv
<1> DEFINE c == [b EXCEPT !.res = res]
<1>1. /\ flights' = (flights \ {b}) \cup {c}
      /\ b.res = "open"
      /\ UNCHANGED <<nextSeq, status, seqOf, pending, pendingSeq, timer, loose, gc, panicked,
                     batching, flushing, flush, closing>>
  BY DEF FlightPut, PutAnswered, callers, window
<1>2. c \in Svc!Batches /\ c.seq = b.seq /\ c.recs = b.recs
  BY DEF OwnTypeOK, Svc!Batches, Svc!Results
<1>3. b \notin Window /\ b \notin flushing /\ Window' = Window
  BY <1>1, Apart DEF Window
<1>4. Held' = (Held \ {b}) \cup {c}
  BY <1>1, <1>3 DEF Held
<1>5. Svc!SvcNext
  <2>1. PutAnswered(flights, b, res) /\ flights \in SUBSET Held
    BY DEF FlightPut, Held
  <2> QED
    BY <1>4, <2>1, PutAnsweredStep
<1> HIDE DEF c
<1>6. OwnTypeOK'
  BY <1>1, <1>2 DEF OwnTypeOK
<1>7. WindowNewest' /\ TakenApart' /\ FlushHolds'
  BY <1>1, <1>2 DEF WindowNewest, TakenApart, FlushHolds
<1>8. Barrier'
  BY <1>1, <1>2 DEF Barrier, Waiting
<1> QED
  BY <1>5, <1>6, <1>7, <1>8

LEMMA FlightDoneStep ==
  ASSUME ManagerInv, NEW b \in flights, FlightDone(b)
  PROVE  Svc!SvcNext /\ OwnInv'
<1> USE DEF ManagerInv, OwnInv
<1>1. /\ flights' = flights \ {b} /\ b.res # "open"
      /\ status' = Svc!Answered(status, b)
      /\ closing' = Released(closing, flights', flush.pc)
      /\ UNCHANGED <<wal, gone, nextSeq, seqOf, pending, pendingSeq, timer, loose, gc,
                     panicked, batching, flushing>>
  BY DEF FlightDone, store, window
<1>2. b \notin Window /\ b \notin flushing /\ Window' = Window
  BY <1>1, Apart DEF Window
<1>3. Svc!Answer(b)
  BY <1>1, <1>2 DEF Svc!Answer
<1>4. /\ flush'.pc = Released(flush.pc, flights', flush.pc)
      /\ flush'.res = flush.res /\ flush'.before = flush.before
      /\ flush' \in [pc : FlushPCs, res : {"ok", "err"}, before : SUBSET Records]
  BY FlushShape DEF FlightDone, Released, FlushPCs
<1>5. OwnTypeOK'
  <2>1. closing' \in ClosePCs
    BY <1>1 DEF OwnTypeOK, Released, ClosePCs
  <2> QED
    BY <1>1, <1>4, <2>1 DEF OwnTypeOK
<1>6. WindowNewest' /\ TakenApart'
  BY <1>1 DEF WindowNewest, TakenApart
<1>7. FlushHolds'
  BY <1>1, <1>4 DEF FlushHolds, Released
<1>8. Barrier'
  <2>1. \A r \in Records : status'[r] # "idle" \/ status[r] = "idle"
    BY <1>1 DEF Svc!Answered
  <2>2. (\A r \in Waiting' : r \in Waiting /\ r \notin Range(b.recs))
    BY <1>1 DEF Svc!Answered, Waiting, Svc!Range, Range
  <2>3. \A r \in flush'.before : status'[r] # "idle"
    BY <1>4, <2>1, FlushShape DEF Barrier
  <2>4. ASSUME batching', NEW r \in flush'.before \cap Waiting'
        PROVE  \/ flush'.pc \in {"taken", "putting", "settling"}
                  /\ \E c \in flights' \cup flushing' : r \in Range(c.recs)
               \/ flush'.pc = "waiting" /\ \E c \in flights' : r \in Range(c.recs)
    BY <1>1, <1>4, <2>2, <2>4 DEF Barrier, Released, Idle
  <2> QED
    BY <2>3, <2>4 DEF Barrier
<1> QED
  BY <1>3, <1>5, <1>6, <1>7, <1>8 DEF Svc!SvcNext

-------------------------------------------------------------------------------
(* Flush *)

LEMMA FlushBeginStep ==
  ASSUME ManagerInv, FlushBegin
  PROVE  UNCHANGED Svc!svcVars /\ OwnInv'
<1> USE DEF ManagerInv, OwnInv, FlushBegin, store, callers
<1>1. Window' = {} /\ flushing = {}
  BY DEF Window, FlushHolds
<1>2. UNCHANGED Svc!svcVars
  BY <1>1 DEF Svc!svcVars
<1>3. /\ Window \subseteq Svc!Batches
      /\ \A b \in Window : b.seq = pendingSeq /\ pending # <<>> /\ b.res = "open"
      /\ \A b, c \in Window : b = c
  BY SvcFacts DEF Held, Window
<1>4. OwnTypeOK'
  <2>1. pending' \in Seq(Records) /\ pendingSeq' \in Nat
    OBVIOUS
  <2>2. flush' \in [pc : FlushPCs, res : {"ok", "err"}, before : SUBSET Records]
    BY DEF FlushPCs, Waiting
  <2> QED
    BY <1>3, <2>1, <2>2 DEF OwnTypeOK
<1>5. WindowNewest'
  BY DEF WindowNewest
<1>6. TakenApart'
  BY <1>3 DEF TakenApart, WindowNewest, OwnTypeOK, Svc!Batches
<1>7. FlushHolds'
  BY <1>3 DEF FlushHolds
<1>8. Barrier'
  BY <1>1, SvcFacts DEF Barrier, Waiting, Held
<1> QED
  BY <1>2, <1>4, <1>5, <1>6, <1>7, <1>8

LEMMA FlushAddStep ==
  ASSUME ManagerInv, FlushAdd
  PROVE  UNCHANGED Svc!svcVars /\ OwnInv'
<1> USE DEF ManagerInv, OwnInv, FlushAdd, store, callers, window
<1>1. UNCHANGED Svc!svcVars
  BY DEF Svc!svcVars, Window
<1>2. /\ flush'.pc = "putting" /\ flush'.res = flush.res /\ flush'.before = flush.before
      /\ flush' \in [pc : FlushPCs, res : {"ok", "err"}, before : SUBSET Records]
  BY FlushShape DEF FlushPCs
<1>3. OwnTypeOK'
  BY <1>2 DEF OwnTypeOK
<1>4. WindowNewest' /\ TakenApart' /\ FlushHolds' /\ Barrier'
  BY <1>2 DEF WindowNewest, TakenApart, FlushHolds, Barrier, Waiting
<1> QED
  BY <1>1, <1>3, <1>4

LEMMA FlushPutStep ==
  ASSUME ManagerInv, NEW b \in flushing, NEW res \in {"ok", "err"}, FlushPut(b, res)
  PROVE  Svc!SvcNext /\ OwnInv'
<1> USE DEF ManagerInv, OwnInv
<1> DEFINE c == [b EXCEPT !.res = res]
<1>1. /\ flushing' = {c} /\ b.res = "open" /\ flush.pc = "putting"
      /\ closing' = Released(closing, flights, "settling")
      /\ UNCHANGED <<nextSeq, status, seqOf, pending, pendingSeq, timer, loose, gc, panicked,
                     batching, flights>>
  BY DEF FlushPut, PutAnswered, callers, window
<1>2. c \in Svc!Batches /\ c.seq = b.seq /\ c.recs = b.recs /\ c.res = res
  BY DEF OwnTypeOK, Svc!Batches, Svc!Results
<1>3. flushing = {b} /\ b \notin Window /\ b \notin flights /\ Window' = Window
  BY <1>1, Apart DEF Window, FlushHolds
<1>4. Held' = (Held \ {b}) \cup {c}
  BY <1>1, <1>3 DEF Held
<1>5. Svc!SvcNext
  <2>1. PutAnswered(flushing, b, res) /\ flushing \in SUBSET Held
    BY DEF FlushPut, Held
  <2> QED
    BY <1>4, <2>1, PutAnsweredStep
<1> HIDE DEF c
<1>6. /\ flush'.pc = "settling" /\ flush'.res = res /\ flush'.before = flush.before
      /\ flush' \in [pc : FlushPCs, res : {"ok", "err"}, before : SUBSET Records]
  BY FlushShape DEF FlushPCs, FlushPut
<1>7. OwnTypeOK'
  <2>1. closing' \in ClosePCs
    BY <1>1 DEF OwnTypeOK, Released, ClosePCs
  <2> QED
    BY <1>1, <1>2, <1>6, <2>1 DEF OwnTypeOK
<1>8. WindowNewest' /\ TakenApart' /\ FlushHolds'
  BY <1>1, <1>2, <1>3, <1>6 DEF WindowNewest, TakenApart, FlushHolds
<1>9. Barrier'
  BY <1>1, <1>2, <1>3, <1>6 DEF Barrier, Waiting
<1> QED
  BY <1>5, <1>7, <1>8, <1>9

LEMMA FlushSettleStep ==
  ASSUME ManagerInv, FlushSettle
  PROVE  [Svc!SvcNext]_Svc!svcVars /\ OwnInv'
<1> USE DEF ManagerInv, OwnInv
<1>1. /\ flushing' = {} /\ flush.pc = "settling"
      /\ status' = [r \in Records |->
                     IF \E b \in flushing : r \in Range(b.recs)
                       THEN IF flush.res = "ok" THEN "ok" ELSE "failed"
                       ELSE status[r]]
      /\ UNCHANGED <<wal, gone, nextSeq, seqOf, pending, pendingSeq, timer, loose, flights,
                     closing, gc, panicked, batching>>
  BY DEF FlushSettle, store, window
<1>2. [Svc!SvcNext]_Svc!svcVars
  <2>1. CASE flushing = {}
    <3>1. status' = status
      BY <1>1, <2>1, SvcFacts
    <3> QED
      BY <1>1, <2>1, <3>1 DEF Svc!svcVars, Window
  <2>2. ASSUME NEW b \in flushing PROVE Svc!SvcNext
    <3>1. flushing = {b} /\ b.res = flush.res /\ b.res # "open"
      BY <1>1, FlushShape DEF FlushHolds
    <3>2. b \notin Window /\ b \notin flights /\ Window' = Window
      BY <1>1, Apart DEF Window
    <3>3. status' = Svc!Answered(status, b)
      BY <1>1, <3>1 DEF Svc!Answered, Svc!Range, Range
    <3>4. Svc!Answer(b)
      BY <1>1, <3>1, <3>2, <3>3 DEF Svc!Answer
    <3> QED
      BY <3>4 DEF Svc!SvcNext
  <2> QED
    BY <2>1, <2>2
<1>3. /\ flush'.pc = AfterWait("waiting", "returned")
      /\ flush'.res = flush.res /\ flush'.before = flush.before
      /\ flush' \in [pc : FlushPCs, res : {"ok", "err"}, before : SUBSET Records]
  BY FlushShape DEF FlushPCs, FlushSettle, AfterWait
<1>4. OwnTypeOK'
  BY <1>1, <1>3 DEF OwnTypeOK
<1>5. WindowNewest' /\ TakenApart' /\ FlushHolds'
  BY <1>1, <1>3 DEF WindowNewest, TakenApart, FlushHolds, AfterWait
<1>6. Barrier'
  <2>1. \A r \in Records : status'[r] # "idle" \/ status[r] = "idle"
    BY <1>1
  <2>2. \A r \in Waiting' : r \in Waiting /\ \A b \in flushing : r \notin Range(b.recs)
    BY <1>1 DEF Waiting
  <2>3. \A r \in flush'.before : status'[r] # "idle"
    BY <1>3, <2>1, FlushShape DEF Barrier
  <2>4. ASSUME batching', NEW r \in flush'.before \cap Waiting'
        PROVE  flush'.pc = "waiting" /\ \E c \in flights' : r \in Range(c.recs)
    BY <1>1, <1>3, <2>2, <2>4 DEF Barrier, AfterWait, Idle
  <2> QED
    BY <2>3, <2>4 DEF Barrier
<1> QED
  BY <1>2, <1>4, <1>5, <1>6

LEMMA FlushResumeStep ==
  ASSUME ManagerInv, FlushResume
  PROVE  UNCHANGED Svc!svcVars /\ OwnInv'
<1> USE DEF ManagerInv, OwnInv, FlushResume, store, callers, window
<1>1. UNCHANGED Svc!svcVars
  BY DEF Svc!svcVars, Window
<1>2. /\ flush'.pc = "returned" /\ flush'.res = flush.res /\ flush'.before = flush.before
      /\ flush' \in [pc : FlushPCs, res : {"ok", "err"}, before : SUBSET Records]
  BY FlushShape DEF FlushPCs
<1>3. OwnTypeOK'
  <2>1. panicked' \in BOOLEAN
    BY DEF Idle
  <2> QED
    BY <1>2, <2>1 DEF OwnTypeOK
<1>4. WindowNewest' /\ TakenApart' /\ FlushHolds' /\ Barrier'
  BY <1>2 DEF WindowNewest, TakenApart, FlushHolds, Barrier, Waiting
<1> QED
  BY <1>1, <1>3, <1>4

-------------------------------------------------------------------------------
(* Close and GC *)

LEMMA CloseSteps ==
  ASSUME ManagerInv, CloseFlag \/ CloseStep
  PROVE  UNCHANGED Svc!svcVars /\ OwnInv'
<1> USE DEF ManagerInv, OwnInv
<1>1. /\ closing' \in ClosePCs /\ timer' \in BOOLEAN /\ panicked' \in BOOLEAN
      /\ UNCHANGED <<wal, gone, nextSeq, status, seqOf, pending, pendingSeq, loose, flights,
                     flushing, flush, gc, batching>>
  <2>1. CASE CloseFlag
    BY <2>1 DEF CloseFlag, store, callers, window, ClosePCs, OwnTypeOK
  <2>2. CASE CloseStop
    BY <2>2 DEF CloseStop, store, callers, ClosePCs, OwnTypeOK
  <2>3. CASE CloseWait
    BY <2>3 DEF CloseWait, AfterWait, store, callers, window, ClosePCs, OwnTypeOK
  <2>4. CASE CloseResume
    BY <2>4 DEF CloseResume, Idle, store, callers, window, ClosePCs, OwnTypeOK
  <2> QED
    BY <2>1, <2>2, <2>3, <2>4 DEF CloseStep
<1>2. UNCHANGED Svc!svcVars
  BY <1>1 DEF Svc!svcVars, Window
<1>3. OwnTypeOK'
  BY <1>1 DEF OwnTypeOK
<1>4. WindowNewest' /\ TakenApart' /\ FlushHolds' /\ Barrier'
  BY <1>1 DEF WindowNewest, TakenApart, FlushHolds, Barrier, Waiting
<1> QED
  BY <1>2, <1>3, <1>4

LEMMA GCBeginStep ==
  ASSUME ManagerInv, NEW max, NEW old, GCBegin(max, old)
  PROVE  UNCHANGED Svc!svcVars /\ OwnInv'
<1> USE DEF ManagerInv, OwnInv, GCBegin, store, callers, window
<1>1. UNCHANGED Svc!svcVars
  BY DEF Svc!svcVars, Window
<1>2. OwnTypeOK'
  <2>1. gc' \subseteq Nat \ {0}
    BY SvcFacts DEF Listed, Svc!Objects
  <2> QED
    BY <2>1 DEF OwnTypeOK
<1>3. WindowNewest' /\ TakenApart' /\ FlushHolds' /\ Barrier'
  BY DEF WindowNewest, TakenApart, FlushHolds, Barrier, Waiting
<1> QED
  BY <1>1, <1>2, <1>3

\* A Delete removes the one object of its number, or finds none.
LEMMA GCDeleteStep ==
  ASSUME ManagerInv, NEW s \in gc, NEW continue \in BOOLEAN, GCDelete(s, continue)
  PROVE  [Svc!SvcNext]_Svc!svcVars /\ OwnInv'
<1> USE DEF ManagerInv, OwnInv
<1>1. /\ wal' = {o \in wal : o.seq # s}
      /\ gone' = gone \cup UNION {Range(o.recs) : o \in {p \in wal : p.seq = s}}
      /\ gc' \subseteq gc
      /\ UNCHANGED <<nextSeq, status, seqOf, pending, pendingSeq, timer, loose, flights,
                     flushing, flush, closing, panicked, batching>>
  BY DEF GCDelete, callers, window
<1>2. [Svc!SvcNext]_Svc!svcVars
  <2>1. CASE \A o \in wal : o.seq # s
    <3>1. wal' = wal /\ gone' = gone
      BY <1>1, <2>1
    <3> QED
      BY <1>1, <3>1 DEF Svc!svcVars, Window
  <2>2. ASSUME NEW o \in wal, o.seq = s PROVE Svc!SvcNext
    <3>1. {p \in wal : p.seq = s} = {o}
      BY <2>2, SvcFacts
    <3>2. wal' = wal \ {o}
      BY <1>1, <2>2, <3>1
    <3>3. gone' = gone \cup Svc!Range(o.recs)
      BY <1>1, <3>1 DEF Svc!Range, Range
    <3>4. Svc!Collect(o)
      BY <1>1, <3>2, <3>3 DEF Svc!Collect, Window
    <3> QED
      BY <3>4 DEF Svc!SvcNext
  <2> QED
    BY <2>1, <2>2
<1>3. OwnTypeOK'
  BY <1>1 DEF OwnTypeOK
<1>4. WindowNewest' /\ TakenApart' /\ FlushHolds' /\ Barrier'
  BY <1>1 DEF WindowNewest, TakenApart, FlushHolds, Barrier, Waiting
<1> QED
  BY <1>2, <1>3, <1>4

LEMMA GCFailStep ==
  ASSUME ManagerInv, GCFail
  PROVE  UNCHANGED Svc!svcVars /\ OwnInv'
<1> USE DEF ManagerInv, OwnInv, GCFail, store, callers, window
<1>1. UNCHANGED Svc!svcVars
  BY DEF Svc!svcVars, Window
<1>2. OwnTypeOK' /\ WindowNewest' /\ TakenApart' /\ FlushHolds' /\ Barrier'
  BY DEF OwnTypeOK, WindowNewest, TakenApart, FlushHolds, Barrier, Waiting
<1> QED
  BY <1>1, <1>2

-------------------------------------------------------------------------------
(* A new process.  What was on its way is an open batch of the dead one. *)

LEMMA NewManagerStep ==
  ASSUME ManagerInv, NewManager
  PROVE  Svc!SvcNext /\ OwnInv'
<1> USE DEF ManagerInv, OwnInv
<1>1. OnTheWay \subseteq {b \in Held : b.res = "open"}
  BY DEF OnTheWay, Held, FlushHolds
<1>2. Held' = {}
  BY DEF NewManager, Window, Held
<1>3. Svc!Restart
  BY <1>1, <1>2 DEF NewManager, Svc!Restart, Held
<1>4. OwnTypeOK'
  <2>1. flush' \in [pc : FlushPCs, res : {"ok", "err"}, before : SUBSET Records]
    BY DEF NewManager, FlushPCs
  <2>2. pending' \in Seq(Records) /\ closing' \in ClosePCs
    BY DEF NewManager, ClosePCs
  <2> QED
    BY <2>1, <2>2 DEF NewManager, OwnTypeOK
<1>5. WindowNewest' /\ TakenApart' /\ FlushHolds' /\ Barrier'
  BY DEF NewManager, WindowNewest, TakenApart, FlushHolds, Barrier
<1> QED
  BY <1>3, <1>4, <1>5 DEF Svc!SvcNext

-------------------------------------------------------------------------------
(* The invariant, and that every step of the manager is one of the abstract log. *)

LEMMA ManagerStart == Init => Svc!SvcInit /\ ManagerInv
<1> SUFFICES ASSUME Init PROVE Svc!SvcInit /\ ManagerInv
  OBVIOUS
<1> USE DEF Init
<1>1. Svc!SvcInit /\ P!SvcInit
  BY DEF Svc!SvcInit, P!SvcInit, Window
<1>2. P!SvcInv /\ P!SvcHeld
  BY <1>1, P!SvcStart, P!HeldStart
<1>3. OwnTypeOK
  <2>1. flush \in [pc : FlushPCs, res : {"ok", "err"}, before : SUBSET Records]
    BY DEF FlushPCs
  <2>2. pending \in Seq(Records) /\ closing \in ClosePCs
    BY DEF ClosePCs
  <2> QED
    BY <2>1, <2>2 DEF OwnTypeOK
<1>4. WindowNewest /\ TakenApart /\ FlushHolds /\ Barrier
  BY DEF WindowNewest, TakenApart, FlushHolds, Barrier
<1> QED
  BY <1>1, <1>2, <1>3, <1>4 DEF ManagerInv, OwnInv

LEMMA ManagerSteps ==
  ASSUME ManagerInv, [Next]_vars
  PROVE  [Svc!SvcNext]_Svc!svcVars /\ OwnInv'
<1>1. ASSUME NEW r \in Records, Write(r) PROVE [Svc!SvcNext]_Svc!svcVars /\ OwnInv'
  BY <1>1, RejectedStep, WriteDirectStep, OpenWindowStep, JoinWindowStep DEF Write
<1>2. ASSUME NEW b \in flights, Flight(b) PROVE [Svc!SvcNext]_Svc!svcVars /\ OwnInv'
  BY <1>2, FlightDoneStep, FlightPutStep DEF Flight
<1>3. ASSUME FlushStep PROVE [Svc!SvcNext]_Svc!svcVars /\ OwnInv'
  BY <1>3, FlushAddStep, FlushSettleStep, FlushResumeStep, FlushPutStep DEF FlushStep
<1>4. ASSUME GCStep PROVE [Svc!SvcNext]_Svc!svcVars /\ OwnInv'
  BY <1>4, GCFailStep, GCDeleteStep DEF GCStep
<1>5. CASE UNCHANGED vars
  <2>1. UNCHANGED Svc!svcVars
    BY <1>5 DEF vars, Svc!svcVars, Window
  <2>2. OwnInv'
    BY <1>5 DEF vars, ManagerInv, OwnInv, OwnTypeOK, WindowNewest, TakenApart, FlushHolds,
                Barrier, Waiting
  <2> QED
    BY <2>1, <2>2
<1> QED
  BY <1>1, <1>2, <1>3, <1>4, <1>5, TimerFiresStep, FlushPendingStep, FlushBeginStep, CloseSteps,
     GCBeginStep, NewManagerStep DEF Next

LEMMA ManagerStep == ManagerInv /\ [Next]_vars => ManagerInv'
<1> SUFFICES ASSUME ManagerInv, [Next]_vars PROVE ManagerInv'
  OBVIOUS
<1>1. [P!SvcNext]_P!svcVars /\ OwnInv'
  BY ManagerSteps, SameNext
<1>2. P!SvcInv' /\ P!SvcHeld'
  BY <1>1, P!SvcStep, P!HeldStep DEF ManagerInv
<1> QED
  BY <1>1, <1>2 DEF ManagerInv

\* The invariant holds in every reachable state of the manager.
THEOREM ManagerInvariant == Spec => []ManagerInv
  BY ManagerStart, ManagerStep, PTL DEF Spec

\* Timers, background flushes, Flush, Close, GC and restarts together do nothing the
\* abstract log does not allow: the manager implements WalService.
THEOREM ManagerRefines == Spec => RefinesWalService
<1>1. ManagerInv /\ [Next]_vars => [Svc!SvcNext]_Svc!svcVars
  BY ManagerSteps
<1>2. Init => Svc!SvcInit
  BY ManagerStart
<1> QED
  BY <1>1, <1>2, ManagerInvariant, PTL DEF Spec, RefinesWalService, Svc!SvcSpec

\* The state of the manager keeps its type.
THEOREM ManagerTypeCorrect == Spec => []TypeOK
<1>1. ManagerInv => TypeOK
  BY DEF ManagerInv, OwnInv, OwnTypeOK, TypeOK, P!SvcInv, P!SvcTypeOK, Svc!SvcTypeOK,
         P!Objects, Svc!Objects, P!Statuses, Svc!Statuses, P!Batches, Svc!Batches, P!Results,
         Svc!Results
<1> QED
  BY <1>1, ManagerInvariant, PTL

\* WriteRecord's "ok" stands for an object in the store or for a collected one,
\* whichever of the timer, Flush and the direct path put it and whatever was
\* restarted since.
THEOREM ManagerAckedDurable == Spec => []AckedDurable
<1>1. ManagerInv => AckedDurable
  BY DEF ManagerInv, AckedDurable, P!SvcInv, P!AckedDurable, Svc!AckedDurable, P!Holds,
         Svc!Holds, P!Range, Svc!Range
<1> QED
  BY <1>1, ManagerInvariant, PTL

\* A stored WAL object is never replaced by another content.
THEOREM ManagerImmutable == Spec => WalImmutable
<1>1. ManagerInv /\ [Next]_vars
      => [\A o \in wal, p \in wal' : o.seq = p.seq => o = p]_Svc!svcVars
  BY ManagerSteps, SameNext, P!ImmutableStep DEF ManagerInv, Svc!svcVars, P!svcVars
<1> QED
  BY <1>1, ManagerInvariant, PTL DEF Spec, WalImmutable, Svc!WalImmutable

\* Every record whose writer waits is in exactly one batch, exactly once: flushPending
\* and Flush racing for the window neither drop it nor take it twice.
THEOREM ManagerHeldOnce == Spec => []HeldOnce
<1>1. ManagerInv => HeldOnce
  <2> SUFFICES ASSUME ManagerInv, NEW r \in Waiting
               PROVE  \E b \in Held :
                        /\ b.seq = seqOf[r]
                        /\ \E i \in DOMAIN b.recs :
                             b.recs[i] = r /\ \A j \in DOMAIN b.recs \ {i} : b.recs[j] # r
                        /\ \A c \in Held \ {b} : r \notin Range(c.recs)
    BY DEF HeldOnce, Held
  <2>1. P!SvcInv /\ P!SvcHeld
    BY DEF ManagerInv
  <2>2. PICK b \in Held : r \in Range(b.recs)
    BY <2>1, SvcFacts
  <2>3. PICK i \in DOMAIN b.recs : b.recs[i] = r
    BY <2>2 DEF Range
  <2>4. \A j \in DOMAIN b.recs \ {i} : b.recs[j] # r
    BY <2>1, <2>3 DEF P!SvcHeld, P!Distinct, Held
  <2>5. b.seq = seqOf[r]
    BY <2>1, <2>2, SvcFacts
  <2>6. ASSUME NEW c \in Held \ {b}, r \in Range(c.recs) PROVE FALSE
    <3>1. c.seq = b.seq
      BY <2>1, <2>5, <2>6, SvcFacts
    <3> QED
      BY <2>1, <3>1 DEF P!SvcInv, P!NumbersFresh, Held
  <2> QED
    BY <2>3, <2>4, <2>5, <2>6
<1> QED
  BY <1>1, ManagerInvariant, PTL

\* Flush is a barrier: when it has returned, every record that waited when it was called
\* has been answered, those taken by background flushes included.
THEOREM ManagerFlushSettles == Spec => []FlushSettles
<1>1. ManagerInv => FlushSettles
  BY DEF ManagerInv, OwnInv, Barrier, FlushSettles
<1> QED
  BY <1>1, ManagerInvariant, PTL
===============================================================================
