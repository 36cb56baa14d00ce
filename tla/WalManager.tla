------------------------------ MODULE WalManager ------------------------------
(* walcloud.Manager: batching of writes into WAL objects, with every step that
   another goroutine can interleave with.  The critical sections of Manager.mu
   are single actions; a store call is separated from what precedes and from
   what follows it; sync.WaitGroup is modelled with the window between the
   release of a waiter and its return.  flushMu serialises Flush, so there is
   one Flush in progress at most.  *)
EXTENDS Naturals, Sequences, Functions

CONSTANTS
  Records,    \* one element per call of WriteRecord
  Batchings   \* which of batchWindow > 0 and = 0 a process may be started with

ASSUME BatchingAssumption == Batchings \subseteq BOOLEAN /\ Batchings # {}

VARIABLES
  wal, gone, nextSeq, status, seqOf,   \* as in WalService
  pending,     \* Manager.pending and waiters: the open window, in write order
  pendingSeq,  \* Manager.pendingSeq
  timer,       \* commitTimer is an armed timer
  loose,       \* flushPending calls nobody can stop any more: timers that fired
               \* and armed timers that commitTimer no longer refers to
  flights,     \* batches in the hands of a background flush or of a direct write
  flushing,    \* the batch Flush took, if any
  flush,       \* the Flush call: pc, result, records waiting when it was called
  closing,     \* progress of Close
  gc,          \* the GC call: the listed objects it has still to delete
  panicked,    \* a sync.WaitGroup panic killed the process
  batching     \* batchWindow > 0

vars == <<wal, gone, nextSeq, status, seqOf, pending, pendingSeq, timer, loose,
          flights, flushing, flush, closing, gc, panicked, batching>>

store == <<wal, gone, nextSeq>>
callers == <<status, seqOf>>
window == <<pending, pendingSeq, timer, loose>>

FlushPCs == {"returned", "taken", "putting", "settling", "waiting", "woken"}
ClosePCs == {"open", "flagged", "stopped", "waiting", "woken", "done"}

\* The batch of the open window.
Window == IF pending = <<>> THEN {}
          ELSE {[seq |-> pendingSeq, recs |-> pending, res |-> "open"]}

Svc == INSTANCE WalService WITH batches <- Window \cup flights \cup flushing

Waiting == {r \in Records : status[r] = "waiting"}

Init ==
  /\ wal = {} /\ gone = {} /\ nextSeq = 1
  /\ status = [r \in Records |-> "idle"]
  /\ seqOf = [r \in Records |-> 0]
  /\ pending = <<>> /\ pendingSeq = 0
  /\ timer = FALSE /\ loose = 0
  /\ flights = {} /\ flushing = {}
  /\ flush = [pc |-> "returned", res |-> "ok", before |-> {}]
  /\ closing = "open"
  /\ gc = {}
  /\ panicked = FALSE
  /\ batching \in Batchings

-------------------------------------------------------------------------------
(* sync.WaitGroup wg: one unit per background flush and one for the Put of
   Flush.  Direct writes are not counted. *)

Idle(fl, fpc) == (batching => fl = {}) /\ fpc # "putting"

\* Wait: returns at once when the counter is zero.
AfterWait(pc, done) == IF Idle(flights, flush.pc) THEN done ELSE pc

\* Done: when the counter reaches zero the waiters are released.
Released(pc, fl, fpc) == IF pc = "waiting" /\ Idle(fl, fpc) THEN "woken" ELSE pc

-------------------------------------------------------------------------------
(* WriteRecord *)

Rejected(r) ==
  /\ closing # "open"
  /\ status[r] = "idle"
  /\ status' = [status EXCEPT ![r] = "rejected"]
  /\ UNCHANGED <<store, seqOf, window, flights, flushing, flush, closing, gc, panicked, batching>>

\* Direct path: the number is taken atomically, then the Put starts (nothing depends
\* on the order of the check of closed and the fetch-and-add).
WriteDirect(r) ==
  /\ ~batching
  /\ closing = "open"
  /\ status[r] = "idle"
  /\ flights' = flights \cup {[seq |-> nextSeq, recs |-> <<r>>, res |-> "open"]}
  /\ nextSeq' = nextSeq + 1
  /\ status' = [status EXCEPT ![r] = "waiting"]
  /\ seqOf' = [seqOf EXCEPT ![r] = nextSeq]
  /\ UNCHANGED <<wal, gone, window, flushing, flush, closing, gc, panicked, batching>>

\* Batching path, first write of a window: a new timer replaces commitTimer; a
\* timer that is still armed then can no longer be stopped.
OpenWindow(r) ==
  /\ batching
  /\ closing = "open"
  /\ status[r] = "idle"
  /\ pending = <<>>
  /\ pending' = <<r>>
  /\ pendingSeq' = nextSeq
  /\ nextSeq' = nextSeq + 1
  /\ timer' = TRUE
  /\ loose' = IF timer THEN loose + 1 ELSE loose
  /\ status' = [status EXCEPT ![r] = "waiting"]
  /\ seqOf' = [seqOf EXCEPT ![r] = nextSeq]
  /\ UNCHANGED <<wal, gone, flights, flushing, flush, closing, gc, panicked, batching>>

\* Batching path, later writes of the window.
JoinWindow(r) ==
  /\ batching
  /\ closing = "open"
  /\ status[r] = "idle"
  /\ pending # <<>>
  /\ pending' = Append(pending, r)
  /\ status' = [status EXCEPT ![r] = "waiting"]
  /\ seqOf' = [seqOf EXCEPT ![r] = pendingSeq]
  /\ UNCHANGED <<store, pendingSeq, timer, loose, flights, flushing, flush, closing, gc,
                 panicked, batching>>

-------------------------------------------------------------------------------
(* The timer and the background flush *)

\* Mutant: the callback of a timer that fired is lost.
TimerFiresLost ==
  /\ timer
  /\ timer' = FALSE
  /\ UNCHANGED <<store, callers, pending, pendingSeq, loose, flights, flushing, flush,
                 closing, gc, panicked, batching>>

TimerFires ==
  /\ timer
  /\ timer' = FALSE
  /\ loose' = loose + 1
  /\ UNCHANGED <<store, callers, pending, pendingSeq, flights, flushing, flush, closing,
                 gc, panicked, batching>>

\* flushPending up to the start of its goroutine: wg.Add(1) under mu.
FlushPending ==
  /\ loose > 0
  /\ loose' = loose - 1
  /\ flights' = flights \cup Window
  /\ pending' = <<>>
  /\ pendingSeq' = 0
  /\ UNCHANGED <<store, callers, timer, flushing, flush, closing, gc, panicked, batching>>

\* Mutant: success is reported before the object is stored.
PutAnsweredEarly(B, b, res) ==
  /\ b \in B /\ b.res = "open"
  /\ UNCHANGED <<store, callers, window, gc, panicked, batching>>

\* The store answers the Put of a batch in B; on an error the object may have
\* been stored all the same.
PutAnswered(B, b, res) ==
  /\ b \in B /\ b.res = "open"
  /\ wal' = Svc!Stored(wal, {b}) \/ (res = "err" /\ wal' = wal)
  /\ UNCHANGED <<gone, nextSeq, callers, window, gc, panicked, batching>>

FlightPut(b, res) ==
  /\ PutAnswered(flights, b, res)
  /\ flights' = (flights \ {b}) \cup {[b EXCEPT !.res = res]}
  /\ UNCHANGED <<flushing, flush, closing>>

\* Mutant: wg.Done is missing.
FlightDoneUncounted(b) ==
  /\ b \in flights /\ b.res # "open"
  /\ flights' = flights \ {b}
  /\ status' = Svc!Answered(status, b)
  /\ UNCHANGED <<store, seqOf, window, flushing, flush, closing, gc, panicked, batching>>

\* The waiters are told, then wg.Done; in direct mode WriteRecord returns.
FlightDone(b) ==
  /\ b \in flights /\ b.res # "open"
  /\ flights' = flights \ {b}
  /\ status' = Svc!Answered(status, b)
  /\ flush' = [flush EXCEPT !.pc = Released(flush.pc, flights', flush.pc)]
  /\ closing' = Released(closing, flights', flush.pc)
  /\ UNCHANGED <<store, seqOf, window, flushing, gc, panicked, batching>>

-------------------------------------------------------------------------------
(* Flush *)

\* Mutant: the window is copied and not emptied.
FlushBeginKeeps ==
  /\ flush.pc = "returned"
  /\ timer' = FALSE
  /\ flushing' = Window
  /\ flush' = [pc |-> IF pending = <<>> THEN "settling" ELSE "taken",
               res |-> "ok", before |-> Waiting]
  /\ UNCHANGED <<store, callers, pending, pendingSeq, loose, flights, closing, gc, panicked, batching>>

\* The critical section: stop the timer and take the window.
FlushBegin ==
  /\ flush.pc = "returned"
  /\ timer' = FALSE
  /\ flushing' = Window
  /\ pending' = <<>>
  /\ pendingSeq' = 0
  /\ flush' = [pc |-> IF pending = <<>> THEN "settling" ELSE "taken",
               res |-> "ok", before |-> Waiting]
  /\ UNCHANGED <<store, callers, loose, flights, closing, gc, panicked, batching>>

\* wg.Add(1) outside the critical section, then the Put starts.
FlushAdd ==
  /\ flush.pc = "taken"
  /\ flush' = [flush EXCEPT !.pc = "putting"]
  /\ UNCHANGED <<store, callers, window, flights, flushing, closing, gc, panicked, batching>>

\* The Put ends (its context may expire) and wg.Done is called.
FlushPut(b, res) ==
  /\ flush.pc = "putting"
  /\ PutAnswered(flushing, b, res)
  /\ flushing' = {[b EXCEPT !.res = res]}
  /\ flush' = [flush EXCEPT !.pc = "settling", !.res = res]
  /\ closing' = Released(closing, flights, "settling")
  /\ UNCHANGED flights

\* Mutant: Flush does not wait for the background flushes.
FlushSettleNoWait ==
  /\ flush.pc = "settling"
  /\ flush' = [flush EXCEPT !.pc = "returned"]
  /\ flushing' = {}
  /\ status' = [r \in Records |->
                  IF \E b \in flushing : r \in Range(b.recs)
                    THEN IF flush.res = "ok" THEN "ok" ELSE "failed"
                    ELSE status[r]]
  /\ UNCHANGED <<store, seqOf, window, flights, closing, gc, panicked, batching>>

\* The waiters are told, then wg.Wait is called.
FlushSettle ==
  /\ flush.pc = "settling"
  /\ flush' = [flush EXCEPT !.pc = AfterWait("waiting", "returned")]
  /\ flushing' = {}
  /\ status' = [r \in Records |->
                  IF \E b \in flushing : r \in Range(b.recs)
                    THEN IF flush.res = "ok" THEN "ok" ELSE "failed"
                    ELSE status[r]]
  /\ UNCHANGED <<store, seqOf, window, flights, closing, gc, panicked, batching>>

\* A released waiter that finds the counter in use again panics.
FlushResume ==
  /\ flush.pc = "woken"
  /\ flush' = [flush EXCEPT !.pc = "returned"]
  /\ panicked' = ~Idle(flights, flush.pc)
  /\ UNCHANGED <<store, callers, window, flights, flushing, closing, gc, batching>>

-------------------------------------------------------------------------------
(* Close *)

CloseFlag ==
  /\ closing = "open"
  /\ closing' = "flagged"
  /\ UNCHANGED <<store, callers, window, flights, flushing, flush, gc, panicked, batching>>

CloseStop ==
  /\ closing = "flagged"
  /\ closing' = "stopped"
  /\ timer' = FALSE
  /\ UNCHANGED <<store, callers, pending, pendingSeq, loose, flights, flushing, flush, gc,
                 panicked, batching>>

CloseWait ==
  /\ closing = "stopped"
  /\ closing' = AfterWait("waiting", "done")
  /\ UNCHANGED <<store, callers, window, flights, flushing, flush, gc, panicked, batching>>

CloseResume ==
  /\ closing = "woken"
  /\ closing' = "done"
  /\ panicked' = ~Idle(flights, flush.pc)
  /\ UNCHANGED <<store, callers, window, flights, flushing, flush, gc, batching>>

-------------------------------------------------------------------------------
(* GC: the listing is taken once and visited in ascending order.  Objects at or
   below max are deleted; above it those whose age exceeds orphanTTL when they
   are visited (none when orphanTTL <= 0, or when Attrs fails). *)

Listed == {o.seq : o \in wal}

GCBegin(max, old) ==
  /\ gc = {}
  /\ gc' = {s \in Listed : s <= max \/ s \in old}
  /\ UNCHANGED <<store, callers, window, flights, flushing, flush, closing, panicked, batching>>

\* One Delete; the sweep ends at the first one that reports an error.
GCDelete(s, continue) ==
  /\ s \in gc /\ \A t \in gc : s <= t
  /\ wal' = {o \in wal : o.seq # s}
  /\ gone' = gone \cup UNION {Range(o.recs) : o \in {p \in wal : p.seq = s}}
  /\ gc' = IF continue THEN gc \ {s} ELSE {}
  /\ UNCHANGED <<nextSeq, callers, window, flights, flushing, flush, closing, panicked, batching>>

\* A Delete that failed without effect.
GCFail ==
  /\ gc # {}
  /\ gc' = {}
  /\ UNCHANGED <<store, callers, window, flights, flushing, flush, closing, panicked, batching>>

-------------------------------------------------------------------------------
(* NewManager, after a crash or a clean stop of the previous process; the batch
   window is an argument and may differ from the last time.  Each Put that was on its
   way may have reached the store before the listing. *)
OnTheWay ==
  {b \in flights : b.res = "open"} \cup IF flush.pc = "putting" THEN flushing ELSE {}

NewManager ==
  /\ \E L \in SUBSET OnTheWay : wal' = Svc!Stored(wal, L)
  /\ nextSeq' \in {1} \cup {o.seq + 1 : o \in wal'}
  /\ Svc!FirstSeq(wal', nextSeq')
  /\ status' = Svc!Orphaned(status)
  /\ pending' = <<>> /\ pendingSeq' = 0
  /\ timer' = FALSE /\ loose' = 0
  /\ flights' = {} /\ flushing' = {}
  /\ flush' = [pc |-> "returned", res |-> "ok", before |-> {}]
  /\ closing' = "open"
  /\ gc' = {}
  /\ panicked' = FALSE
  /\ batching' \in Batchings
  /\ UNCHANGED <<gone, seqOf>>

-------------------------------------------------------------------------------
Write(r) == Rejected(r) \/ WriteDirect(r) \/ OpenWindow(r) \/ JoinWindow(r)

Flight(b) == FlightDone(b) \/ \E res \in {"ok", "err"} : FlightPut(b, res)

FlushStep ==
  \/ FlushAdd \/ FlushSettle \/ FlushResume
  \/ \E b \in flushing, res \in {"ok", "err"} : FlushPut(b, res)

CloseStep == CloseStop \/ CloseWait \/ CloseResume

GCStep == GCFail \/ \E s \in gc, continue \in BOOLEAN : GCDelete(s, continue)

\* A process that panicked does nothing until a new one is started.
Alive == ~panicked

Next ==
  \/ \E r \in Records : Alive /\ Write(r)
  \/ Alive /\ TimerFires
  \/ Alive /\ FlushPending
  \/ \E b \in flights : Alive /\ Flight(b)
  \/ Alive /\ FlushBegin
  \/ Alive /\ FlushStep
  \/ Alive /\ CloseFlag
  \/ Alive /\ CloseStep
  \/ \E max \in {0} \cup Listed : \E old \in SUBSET {s \in Listed : s > max} :
       Alive /\ GCBegin(max, old)
  \/ Alive /\ GCStep
  \/ NewManager

\* Timers fire and goroutines run.  Nothing makes a Put come back: the background
\* flush calls it with context.Background(), and the contexts of Flush and of a
\* direct write need not have a deadline.  Nobody has to call WriteRecord, Flush,
\* Close or GC, and no process has to be restarted.
Fairness ==
  /\ WF_vars(Alive /\ TimerFires)
  /\ WF_vars(Alive /\ FlushPending)
  /\ WF_vars(Alive /\ \E b \in flights : FlightDone(b))
  /\ WF_vars(Alive /\ (FlushAdd \/ FlushSettle \/ FlushResume))
  /\ WF_vars(Alive /\ CloseStep)

Spec == Init /\ [][Next]_vars
FairSpec == Spec /\ Fairness

-------------------------------------------------------------------------------
(* Properties *)

TypeOK ==
  /\ Svc!SvcTypeOK
  /\ pending \in Seq(Records)
  /\ pendingSeq \in Nat
  /\ timer \in BOOLEAN
  /\ loose \in Nat
  /\ flights \subseteq Svc!Batches
  /\ flushing \subseteq Svc!Batches
  /\ flush \in [pc : FlushPCs, res : {"ok", "err"}, before : SUBSET Records]
  /\ closing \in ClosePCs
  /\ gc \subseteq Nat \ {0}
  /\ panicked \in BOOLEAN
  /\ batching \in Batchings

\* WriteRecord's answer "ok" means the object is in the store under the returned
\* sequence number, or was collected: batches of a timer, of Flush and of a
\* restarted process never overwrite each other.
AckedDurable == Svc!AckedDurable

\* Every record whose writer waits is in exactly one batch, exactly once, so its
\* channel (capacity 1) receives one answer: flushPending and Flush racing for the
\* window neither drop it nor take it twice.
HeldOnce ==
  \A r \in Waiting :
    LET held == Window \cup flights \cup flushing
    IN \E b \in held :
         /\ b.seq = seqOf[r]
         /\ \E i \in DOMAIN b.recs : b.recs[i] = r /\ \A j \in DOMAIN b.recs \ {i} : b.recs[j] # r
         /\ \A c \in held \ {b} : r \notin Range(c.recs)

\* Flush is a barrier: when it has returned, every record that waited when it was
\* called has been answered, including those of background flushes.  (Without
\* batching there are none: a direct write does its own Put.)
FlushSettles ==
  batching /\ flush.pc = "returned" => flush.before \cap Waiting = {}

\* The log implements its abstract specification.
RefinesWalService == Svc!SvcSpec

\* A stored object never changes.
WalImmutable == Svc!WalImmutable

\* The store has not answered the Put of r's batch.
PutOpen(r) == \E b \in flights \cup flushing : b.res = "open" /\ r \in Range(b.recs)

\* Close has stopped the timer of the window r is in.
TimerStopped(r) == closing \notin {"open", "flagged"} /\ r \in Range(pending)

\* A writer that waits for ever waits for the Put of its own batch, or is in the
\* window whose timer Close stopped: whichever of the timer, a late callback of an
\* older timer and Flush takes the window, the batch is put and, once that Put is
\* answered, the channel is sent to, however many other Puts hang.
WritersAnswered ==
  \A r \in Records :
    <>[](status[r] = "waiting" /\ ~panicked) => <>[](PutOpen(r) \/ TimerStopped(r))

\* A Close that never returns has a Put behind it that never returns (the case
\* reliable.md describes): whatever else uses the wait group, it is drained.
CloseEnds ==
  <>[](closing \notin {"open", "done"} /\ ~panicked) =>
    <>[](batching /\ \E b \in flights \cup flushing : b.res = "open")

-------------------------------------------------------------------------------
(* What the comments of manager.go say and the code does not do: TLC refutes each
   when it is checked with WalBatched.cfg or, for NoWriterStranded, WalLive.cfg. *)

\* Flush: "After Flush returns, all WAL data written before the call is durable in
\* object storage" (here: when it returned nil).
FlushDurable ==
  batching /\ flush.pc = "returned" /\ flush.res = "ok" =>
    \A r \in flush.before : (\E o \in wal : Svc!Holds(o, r)) \/ r \in gone

\* Close: "waits for any in-flight batch flush to complete so that callers can
\* safely close the underlying store afterwards".
NoPutAfterClose == closing = "done" => \A b \in flights : b.res # "open"

\* SetContext: shutdown "does not silently lose batched data": an accepted record
\* that waits for ever waits for a Put, even when the manager is closed.
NoWriterStranded ==
  \A r \in Records : <>[](status[r] = "waiting" /\ ~panicked) => <>[]PutOpen(r)

\* Flush "waits for any previously launched flush goroutines to finish": the wait
\* ends with a return, not with a panic of the wait group.
WaitGroupReusedSafely == ~panicked

\* "seqnum is a zero-padded 20-digit monotonic counter": a record accepted after
\* another one was acknowledged has a larger number.
SeqMonotonic ==
  [][\A r, q \in Records :
       status[q] = "ok" /\ seqOf'[r] # seqOf[r] => seqOf'[r] > seqOf[q]]_vars
===============================================================================
