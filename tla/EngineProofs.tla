----------------------------- MODULE EngineProofs -----------------------------
(* Proofs about Engine for any records and keys.  In both consistency modes, with
   manifest faults and cold recoveries, nothing is visible that the log did not
   have first.  An acknowledged write that no manifest ever covered keeps its WAL
   object, unless outages longer than orphanTTL meet eventual mode or cold
   recoveries.  For a node in strong mode, an acknowledged write is recovered and
   served, never behind an older value, unless a manifest covered its number without
   it or its number was reused.

   The second half is about AsyncWAL, with and without batching: who owns the local
   files, and where acknowledged writes can get lost. *)
EXTENDS AsyncWAL, WalServiceProofs, WellFoundedInduction

-------------------------------------------------------------------------------
(* The inductive invariant *)

\* A write is applied and acknowledged only after the log said "ok".
AppliedLogged == \A r \in Records : pc[r] \in {"applied", "acked"} => status[r] = "ok"

\* The fields of the Sync call and of the replay loop.
SyncShape ==
  /\ sync = [pc |-> sync.pc, barrier |-> sync.barrier, view |-> sync.view, seq |-> sync.seq,
             todo |-> sync.todo]
  /\ replay = [todo |-> replay.todo, read |-> replay.read]

\* The numbers of a Sync: from the manifest on, currentSeq is covered.
SyncNumbers ==
  /\ maxWALSeq \in Nat /\ sync.seq \in Nat /\ covered \in Nat /\ manifest.maxSeq \in Nat
  /\ cold \in Nat \cup {NoCold}
  /\ sync.pc \in {"manifest", "gc"} => sync.seq <= covered

\* An object the replay loop holds was in the log.
ReadLogged == \A o \in replay.read : o \in Objects /\ \A r \in Range(o.recs) : Logged(r)

\* What does not depend on how a write is applied.
BaseInv == SvcInv /\ SyncShape /\ SyncNumbers /\ ReadLogged

EngInv ==
  /\ BaseInv /\ AppliedLogged /\ WriteAhead
  /\ pc \in [Records -> {"wal", "applied", "acked", "failed"}]

(* The part about the collector holds when a node that was down for longer than
   orphanTTL replays its log before it collects, and stays above what it replayed. *)
OutagesHandled == LongOutages => Strong /\ ~ColdMisses

\* The sweep only has objects of the log left to delete that a manifest covers or
\* whose writers all failed.
SweepSafe ==
  /\ sync.todo \subseteq {o.seq : o \in wal}
  /\ \A o \in wal : o.seq \in sync.todo => o.seq <= covered \/ Abandoned(o)

\* Whatever was collected was covered or its writer failed.
GoneExplained == \A r \in gone : seqOf[r] <= covered \/ pc[r] = "failed"

\* Objects that aged in an outage were replayed: maxWALSeq and the number of a Sync
\* are at or above them.
AgedReplayed ==
  /\ aged # {} => LongOutages
  /\ ~ColdMisses => cold = NoCold
  /\ \A s \in aged :
       s \in Nat /\ s <= maxWALSeq /\ (sync.pc \in {"upload", "manifest", "gc"} => s <= sync.seq)

SweepInv == BaseInv /\ SweepSafe /\ GoneExplained /\ AgedReplayed

KeepInv == EngInv /\ SweepInv

\* A step does not revive a call that returned an error.
FailedStays == \A r \in Records : pc[r] = "failed" => pc'[r] = "failed"

-------------------------------------------------------------------------------
(* Every step of the engine is a step of the log or leaves the log alone. *)
LEMMA EngineStepsLog == [Next]_vars => [SvcNext]_svcVars
<1> SUFFICES ASSUME [Next]_vars PROVE [SvcNext]_svcVars
  OBVIOUS
<1>1. CASE UNCHANGED vars
  BY <1>1 DEF vars
<1>2. CASE \E r \in Records : Write(r) \/ ReturnError(r) \/ Apply(r) \/ Ack(r)
  BY <1>2 DEF Write, ReturnError, Apply, Ack, SvcNext
<1>3. CASE WalStep
  BY <1>3 DEF WalStep, SvcNext
<1>4. CASE MemtableFlush \/ ColdRead \/ ColdFail
  BY <1>4 DEF MemtableFlush, ColdRead, ColdFail, coldOthers
<1>5. CASE SyncStep
  BY <1>5 DEF SyncStep, SyncFlush, SyncCheckpoint, SyncReadSeq, SyncManifest, SyncReturn,
              SyncGC, SyncDelete, SvcNext
<1>6. CASE Crash
  BY <1>6 DEF Crash, SvcNext
<1>7. CASE Replay
  BY <1>7 DEF Replay, ReplayList, ReplayApply, ReplayStop, ReplaySkip, ReplayRead,
              replayOthers
<1> QED
  BY <1>1, <1>2, <1>3, <1>4, <1>5, <1>6, <1>7 DEF Next

\* A record that is in the log, or was collected, stays so.
LEMMA LoggedStable ==
  ASSUME SvcInv, [SvcNext]_svcVars, NEW r \in Records, Logged(r)
  PROVE  Logged(r)'
<1>1. seqOf'[r] = seqOf[r]
  <2>1. status[r] # "idle"
    BY DEF Logged, Holds, SvcInv, ObjectWriters
  <2> QED
    BY <2>1 DEF SvcNext, svcVars, AcceptFresh, AcceptJoin, Refuse, StoreAnswers, Answer,
                Collect, Restart, SvcInv, SvcTypeOK
<1>2. gone \subseteq gone'
  BY DEF SvcNext, svcVars, AcceptFresh, AcceptJoin, Refuse, StoreAnswers, Answer, Collect,
         Restart
<1>3. ASSUME NEW o \in wal, r \in Range(o.recs) PROVE o \in wal' \/ r \in gone'
  <2>1. CASE \E B \in SUBSET {b \in batches : b.res = "open"} : wal' = Stored(wal, B)
    BY <2>1 DEF Stored, SvcInv, BatchObjects
  <2>2. CASE wal' = wal
    BY <2>2
  <2>3. CASE \E p \in wal : Collect(p)
    BY <1>3, <2>3 DEF Collect
  <2> QED
    BY <2>1, <2>2, <2>3 DEF SvcNext, svcVars, AcceptFresh, AcceptJoin, Refuse, StoreAnswers,
                            Answer, Restart
<1> QED
  BY <1>1, <1>2, <1>3 DEF Logged, Holds

\* The answer "ok" is final.
LEMMA OkStable ==
  ASSUME SvcInv, [SvcNext]_svcVars, NEW r \in Records, status[r] = "ok"
  PROVE  status'[r] = "ok"
  BY DEF SvcNext, svcVars, AcceptFresh, AcceptJoin, Refuse, StoreAnswers, Answer, Collect,
         Restart, SvcInv, SvcTypeOK, BatchWriters, Answered, Orphaned

\* The number of an accepted record is final.
LEMMA SeqStable ==
  ASSUME SvcInv, [SvcNext]_svcVars, NEW r \in Records, status[r] # "idle"
  PROVE  seqOf'[r] = seqOf[r]
  BY DEF SvcNext, svcVars, AcceptFresh, AcceptJoin, Refuse, StoreAnswers, Answer, Collect,
         Restart, SvcInv, SvcTypeOK

-------------------------------------------------------------------------------
(* Each part of the invariant is preserved. *)

LEMMA CallsStep ==
  ASSUME EngInv, [Next]_vars
  PROVE  /\ pc' \in [Records -> {"wal", "applied", "acked", "failed"}]
         /\ FailedStays
         /\ AppliedLogged'
<1> USE DEF FailedStays
<1>1. SvcInv /\ [SvcNext]_svcVars
  BY EngineStepsLog DEF EngInv, BaseInv
<1>2. CASE pc' = pc
  BY <1>1, <1>2, OkStable DEF EngInv, BaseInv, AppliedLogged
<1>3. ASSUME NEW r \in Records, ReturnError(r) \/ Apply(r) \/ Ack(r)
      PROVE  /\ pc' \in [Records -> {"wal", "applied", "acked", "failed"}]
             /\ \A q \in Records : pc[q] = "failed" => pc'[q] = "failed"
             /\ AppliedLogged'
  BY <1>3 DEF EngInv, BaseInv, AppliedLogged, ReturnError, Apply, Ack, svcVars
<1>4. CASE Crash
  BY <1>1, <1>4, OkStable DEF EngInv, BaseInv, AppliedLogged, Crash
<1> QED
  BY <1>2, <1>3, <1>4 DEF Next, vars, engVars, Write, WalStep, MemtableFlush, SyncStep,
     SyncFlush, SyncCheckpoint, SyncReadSeq, SyncManifest, SyncReturn, SyncGC, SyncDelete,
     syncOthers, Replay, ReplayList, ReplayApply, ReplayStop, ReplaySkip, ReplayRead,
     replayOthers, ColdRead, ColdFail, coldOthers

LEMMA ShapeStep ==
  ASSUME BaseInv, [Next]_vars
  PROVE  SyncShape'
<1> USE DEF BaseInv, SyncShape
<1>1. CASE UNCHANGED <<sync, replay>>
  BY <1>1
<1>2. CASE SyncStep
  BY <1>2 DEF SyncStep, SyncFlush, SyncCheckpoint, SyncReadSeq, SyncManifest, SyncReturn,
              SyncGC, SyncDelete, syncOthers, SyncIdle
<1>3. CASE Replay
  BY <1>3 DEF Replay, ReplayList, ReplayApply, ReplayStop, ReplaySkip, ReplayRead,
              replayOthers, ReplayIdle
<1>4. CASE Crash
  BY <1>4 DEF Crash, SyncIdle, ReplayIdle
<1> QED
  BY <1>1, <1>2, <1>3, <1>4 DEF Next, vars, engVars, Write, ReturnError, Apply, Ack, WalStep,
     MemtableFlush, ColdRead, ColdFail, coldOthers

LEMMA NumbersStep ==
  ASSUME BaseInv, [Next]_vars
  PROVE  SyncNumbers' /\ covered <= covered'
<1> USE DEF BaseInv, SyncNumbers, SyncShape
<1>1. CASE UNCHANGED <<maxWALSeq, sync, covered, manifest, cold>>
  BY <1>1
<1>2. ASSUME NEW r \in Records, Ack(r) PROVE SyncNumbers' /\ covered <= covered'
  BY <1>2 DEF Ack, MaxOf, rest, SvcInv, SvcTypeOK
<1>3. CASE SyncFlush \/ SyncReturn
  <2>1. SyncIdle.seq = 0 /\ SyncIdle.pc = "idle"
    BY DEF SyncIdle
  <2>2. CASE SyncReturn
    BY <2>1, <2>2 DEF SyncReturn, syncOthers, rest
  <2>3. CASE SyncFlush
    <3>1. sync'.seq = 0 /\ sync'.pc = "flushed"
      BY <2>3 DEF SyncFlush, SyncIdle
    <3> QED
      BY <2>3, <3>1 DEF SyncFlush, syncOthers, rest
  <2> QED
    BY <1>3, <2>2, <2>3
<1>4. CASE SyncCheckpoint \/ SyncReadSeq
  <2>1. sync'.seq \in {sync.seq, maxWALSeq} /\ sync'.pc \in {"checkpoint", "upload"}
    BY <1>4 DEF SyncCheckpoint, SyncReadSeq
  <2> QED
    BY <1>4, <2>1 DEF SyncCheckpoint, SyncReadSeq, syncOthers, rest
<1>5. CASE SyncManifest
  <2>1. sync'.seq = sync.seq /\ manifest'.maxSeq = sync.seq
        /\ covered' = (IF covered >= sync.seq THEN covered ELSE sync.seq)
    BY <1>5 DEF SyncManifest, MaxOf
  <2> QED
    BY <1>5, <2>1 DEF SyncManifest, syncOthers
<1>6. ASSUME NEW old, SyncGC(old) PROVE SyncNumbers' /\ covered <= covered'
  <2>1. sync'.seq = sync.seq /\ sync.seq <= covered
    BY <1>6 DEF SyncGC
  <2> QED
    BY <1>6, <2>1 DEF SyncGC, syncOthers, rest
<1>7. ASSUME NEW o, SyncDelete(o) PROVE SyncNumbers' /\ covered <= covered'
  <2>1. sync'.seq = sync.seq /\ sync.seq <= covered
    BY <1>7 DEF SyncDelete
  <2> QED
    BY <1>7, <2>1 DEF SyncDelete, syncOthers, rest
<1>8. CASE Crash
  <2>1. \A o \in wal' : o.seq \in Nat
    BY EngineStepsLog, SvcStep DEF SvcInv, SvcTypeOK, Objects
  <2> QED
    BY <1>8, <2>1 DEF Crash, SyncIdle, Above, rest
<1>9. CASE ReplayApply
  BY <1>9 DEF ReplayApply, replayOthers, rest, ReadLogged, Objects
<1>10. CASE ColdRead \/ ColdFail
  BY <1>10 DEF ColdRead, ColdFail, coldOthers, rest, NoCold
<1> QED
  BY <1>1, <1>2, <1>3, <1>4, <1>5, <1>6, <1>7, <1>8, <1>9, <1>10 DEF Next, vars, engVars, rest, Write,
     ReturnError, Apply, WalStep, MemtableFlush, SyncStep, Replay, ReplayList, ReplayStop,
     ReplaySkip, ReplayRead, replayOthers

\* An object that appears takes a number no object had, and only the collector takes
\* one away.
LEMMA ObjectsStep ==
  ASSUME SvcInv, [SvcNext]_svcVars
  PROVE  /\ \A p \in wal' : p \in wal \/ \A o \in wal : o.seq # p.seq
         /\ wal \subseteq wal' \/ \E o \in wal : Collect(o)
<1>1. CASE \E B \in SUBSET {b \in batches : b.res = "open"} : wal' = Stored(wal, B)
  BY <1>1 DEF Stored, SvcInv, BatchObjects, ObjectOf
<1>2. CASE wal' = wal
  BY <1>2
<1>3. CASE \E p \in wal : Collect(p)
  BY <1>3 DEF Collect
<1> QED
  BY <1>1, <1>2, <1>3 DEF SvcNext, svcVars, AcceptFresh, AcceptJoin, Refuse, StoreAnswers,
                          Answer, Restart

\* While the sweep's list stays as it is, so does what it may delete.
LEMMA SweepKept ==
  ASSUME OutagesHandled, SweepInv, FailedStays, [Next]_vars, sync'.todo = {} \/ (sync'.todo = sync.todo /\ wal \subseteq wal')
  PROVE  SweepSafe'
<1>1. SvcInv /\ [SvcNext]_svcVars /\ SvcInv'
  BY EngineStepsLog, SvcStep DEF SweepInv, BaseInv
<1>2. CASE sync'.todo = {}
  BY <1>2 DEF SweepSafe
<1>3. CASE sync'.todo = sync.todo /\ wal \subseteq wal'
  <2>1. sync'.todo \subseteq {o.seq : o \in wal'}
    BY <1>3 DEF SweepInv, BaseInv, SweepSafe
  <2> SUFFICES ASSUME NEW p \in wal', p.seq \in sync.todo
               PROVE  p.seq <= covered' \/ Abandoned(p)'
    BY <1>3, <2>1 DEF SweepSafe
  <2>2. p \in wal /\ p \in Objects
    BY <1>1, ObjectsStep DEF SweepInv, BaseInv, SweepSafe, SvcInv, SvcTypeOK
  <2>3. p.seq <= covered \/ Abandoned(p)
    BY <2>2 DEF SweepInv, BaseInv, SweepSafe
  <2>4. CASE p.seq <= covered
    BY <2>2, <2>4, NumbersStep DEF SweepInv, BaseInv, SyncNumbers, Objects
  <2>5. CASE Abandoned(p)
    BY <2>2, <2>5, RangeRecords DEF FailedStays, SweepInv, Abandoned, Objects
  <2> QED
    BY <2>3, <2>4, <2>5
<1> QED
  BY <1>2, <1>3

LEMMA SweepStep ==
  ASSUME OutagesHandled, SweepInv, FailedStays, [Next]_vars
  PROVE  SweepSafe'
<1>1. SvcInv /\ [SvcNext]_svcVars /\ SvcInv'
  BY EngineStepsLog, SvcStep DEF SweepInv, BaseInv
<1>2. SyncIdle.todo = {}
  BY DEF SyncIdle
<1>3. ASSUME NEW old \in SUBSET Above(wal, sync.seq), SyncGC(old) PROVE SweepSafe'
  <2>1. sync'.todo = {o.seq : o \in {p \in wal : p.seq <= sync.seq} \cup old}
    BY <1>3 DEF SyncGC, SweepInv, BaseInv, SyncShape
  <2>2. wal' = wal /\ covered' = covered /\ pc' = pc /\ sync.seq <= covered
    BY <1>3 DEF SyncGC, svcVars, syncOthers, rest, SweepInv, BaseInv, SyncNumbers
  <2>4. \A o \in wal : o.seq \in Nat
    BY <1>1 DEF SvcInv, SvcTypeOK, Objects
  <2>3. \A o \in old : o \in wal /\ Abandoned(o)
    <3> SUFFICES ASSUME NEW o \in old, o.seq \in aged PROVE FALSE
      BY <1>3 DEF SyncGC, Above
    <3>1. o \in wal /\ o.seq > sync.seq
      BY DEF Above
    <3>2. o.seq <= sync.seq
      BY <1>3 DEF SyncGC, SweepInv, AgedReplayed
    <3> QED
      BY <2>4, <3>1, <3>2 DEF SweepInv, BaseInv, SyncNumbers
  <2>5. sync'.todo \subseteq {o.seq : o \in wal}
    BY <2>1, <2>3
  <2> SUFFICES ASSUME NEW o \in wal, o.seq \in sync'.todo
               PROVE  o.seq <= covered \/ Abandoned(o)
    BY <2>2, <2>5 DEF SweepSafe, Abandoned
  <2>6. PICK p \in {q \in wal : q.seq <= sync.seq} \cup old : p.seq = o.seq
    BY <2>1
  <2>7. p = o
    BY <1>1, <2>3, <2>6 DEF SvcInv, NumbersFresh
  <2> QED
    BY <2>2, <2>3, <2>4, <2>6, <2>7 DEF SweepInv, BaseInv, SyncNumbers
<1>4. ASSUME NEW o \in wal, SyncDelete(o) PROVE SweepSafe'
  <2>1. sync'.todo = sync.todo \ {o.seq}
    BY <1>4 DEF SyncDelete, SweepInv, BaseInv, SyncShape
  <2>2. wal' = wal \ {o} /\ covered' = covered /\ pc' = pc
    BY <1>4 DEF SyncDelete, Collect, syncOthers, rest
  <2> QED
    BY <2>1, <2>2 DEF SweepInv, BaseInv, SweepSafe, Abandoned
<1>5. CASE SyncFlush \/ SyncReturn \/ Crash
  <2>1. sync'.todo = {}
    BY <1>2, <1>5 DEF SyncFlush, SyncReturn, Crash, SyncIdle
  <2> QED
    BY <2>1, SweepKept
<1>6. CASE SyncCheckpoint \/ SyncReadSeq \/ SyncManifest
  <2>1. sync'.todo = sync.todo /\ wal' = wal
    BY <1>6 DEF SyncCheckpoint, SyncReadSeq, SyncManifest, svcVars, SweepInv, BaseInv, SyncShape
  <2> QED
    BY <2>1, SweepKept
<1>7. CASE UNCHANGED <<sync, wal>>
  BY <1>7, SweepKept
<1>8. ASSUME NEW r \in Records, Write(r) PROVE SweepSafe'
  <2>1. UNCHANGED <<sync, wal>>
    BY <1>8 DEF Write, AcceptFresh, AcceptJoin
  <2> QED
    BY <2>1, <1>7
<1>9. CASE WalStep
  <2>1. sync' = sync /\ gone' = gone
    BY <1>9 DEF WalStep, engVars, Answer, StoreAnswers
  <2>2. wal \subseteq wal'
    BY <1>1, <1>9 DEF WalStep, Answer, StoreAnswers, Stored, SvcInv, BatchObjects
  <2> QED
    BY <2>1, <2>2, SweepKept
<1> QED
  BY <1>3, <1>4, <1>5, <1>6, <1>7, <1>8, <1>9 DEF Next, vars, engVars, svcVars, ReturnError,
     Apply, Ack, MemtableFlush, SyncStep, Replay, ReplayList, ReplayApply, ReplayStop,
     ReplaySkip, ReplayRead, replayOthers, ColdRead, ColdFail, coldOthers

LEMMA GoneStep ==
  ASSUME OutagesHandled, SweepInv, FailedStays, [Next]_vars
  PROVE  GoneExplained'
<1>1. SvcInv /\ [SvcNext]_svcVars /\ SvcInv'
  BY EngineStepsLog, SvcStep DEF SweepInv, BaseInv
<1>2. ASSUME NEW r \in gone PROVE seqOf'[r] <= covered' \/ pc'[r] = "failed"
  <2>1. r \in Records /\ seqOf[r] \in Nat /\ status[r] # "idle"
    BY <1>1 DEF SvcInv, SvcTypeOK, ObjectWriters
  <2>2. seqOf'[r] = seqOf[r]
    BY <1>1, <2>1, SeqStable
  <2> QED
    BY <2>1, <2>2, NumbersStep DEF FailedStays, SweepInv, BaseInv, GoneExplained, SyncNumbers
<1>3. CASE gone' = gone
  BY <1>2, <1>3 DEF GoneExplained
<1>4. ASSUME NEW o \in wal, SyncDelete(o) PROVE GoneExplained'
  <2>1. gone' = gone \cup Range(o.recs) /\ UNCHANGED <<seqOf, covered, pc>>
    BY <1>4 DEF SyncDelete, Collect, syncOthers, rest
  <2>2. o.seq <= covered \/ Abandoned(o)
    BY <1>4 DEF SyncDelete, SweepInv, BaseInv, SweepSafe
  <2>3. \A r \in Range(o.recs) : seqOf[r] = o.seq
    BY <1>1 DEF SvcInv, ObjectWriters
  <2> QED
    BY <1>2, <2>1, <2>2, <2>3 DEF GoneExplained, Abandoned
<1>5. CASE Crash
  BY <1>3, <1>5 DEF Crash, Restart
<1>6. CASE WalStep
  BY <1>3, <1>6 DEF WalStep, Answer, StoreAnswers
<1>7. ASSUME NEW r \in Records, Write(r) PROVE GoneExplained'
  BY <1>3, <1>7 DEF Write, AcceptFresh, AcceptJoin
<1>8. CASE SyncFlush \/ SyncCheckpoint \/ SyncReadSeq \/ SyncManifest \/ SyncReturn
  BY <1>3, <1>8 DEF SyncFlush, SyncCheckpoint, SyncReadSeq, SyncManifest, SyncReturn, svcVars
<1>9. ASSUME NEW old, SyncGC(old) PROVE GoneExplained'
  BY <1>3, <1>9 DEF SyncGC, svcVars
<1> QED
  BY <1>3, <1>4, <1>5, <1>6, <1>7, <1>8, <1>9 DEF Next, vars, svcVars, ReturnError, Apply,
     Ack, MemtableFlush, SyncStep, Replay, ReplayList, ReplayApply, ReplayStop, ReplaySkip,
     ReplayRead, replayOthers, ColdRead, ColdFail, coldOthers

\* maxWALSeq is only ever lowered by a cold recovery or a crash.
LEMMA AgedStep ==
  ASSUME OutagesHandled, SweepInv, FailedStays, [Next]_vars
  PROVE  AgedReplayed'
<1> USE DEF SweepInv, BaseInv, SyncShape, SyncNumbers, AgedReplayed
<1>1. SvcInv' /\ SyncNumbers'
  BY EngineStepsLog, SvcStep, NumbersStep
<1>2. ASSUME aged' = aged, cold' = cold, maxWALSeq' >= maxWALSeq,
             sync'.pc \in {"upload", "manifest", "gc"} =>
               \/ sync.pc \in {"upload", "manifest", "gc"} /\ sync'.seq = sync.seq
               \/ sync'.seq = maxWALSeq
      PROVE  AgedReplayed'
  BY <1>1, <1>2
<1>3. CASE UNCHANGED <<aged, cold, maxWALSeq, sync>>
  BY <1>2, <1>3
<1>4. ASSUME NEW r \in Records, Ack(r) PROVE AgedReplayed'
  BY <1>2, <1>4 DEF Ack, rest, MaxOf, SvcInv, SvcTypeOK
<1>5. CASE SyncFlush \/ SyncCheckpoint \/ SyncReturn
  <2>1. sync'.pc \in {"idle", "flushed", "checkpoint"}
    <3>1. CASE SyncFlush
      BY <3>1 DEF SyncFlush, SyncIdle
    <3>2. CASE SyncCheckpoint
      BY <3>2 DEF SyncCheckpoint
    <3>3. CASE SyncReturn
      BY <3>3 DEF SyncReturn, SyncIdle
    <3> QED
      BY <1>5, <3>1, <3>2, <3>3
  <2>2. UNCHANGED <<aged, cold, maxWALSeq>>
    BY <1>5 DEF SyncFlush, SyncCheckpoint, SyncReturn, syncOthers, rest
  <2> QED
    BY <1>2, <2>1, <2>2
<1>6. CASE SyncReadSeq
  <2>1. sync'.seq = maxWALSeq
    BY <1>6 DEF SyncReadSeq
  <2> QED
    BY <1>2, <1>6, <2>1 DEF SyncReadSeq, syncOthers, rest
<1>7. CASE SyncManifest
  <2>1. sync'.seq = sync.seq /\ sync.pc = "upload"
    BY <1>7 DEF SyncManifest
  <2> QED
    BY <1>2, <1>7, <2>1 DEF SyncManifest, syncOthers
<1>8. ASSUME NEW old, SyncGC(old) PROVE AgedReplayed'
  <2>1. sync'.seq = sync.seq /\ sync.pc = "manifest"
    BY <1>8 DEF SyncGC
  <2> QED
    BY <1>2, <1>8, <2>1 DEF SyncGC, syncOthers, rest
<1>9. ASSUME NEW o, SyncDelete(o) PROVE AgedReplayed'
  <2>1. sync'.seq = sync.seq /\ sync.pc = "gc"
    BY <1>9 DEF SyncDelete
  <2> QED
    BY <1>2, <1>9, <2>1 DEF SyncDelete, syncOthers, rest
<1>10. CASE Crash
  <2>1. sync'.pc = "idle" /\ cold' = NoCold
    BY <1>10 DEF Crash, SyncIdle
  <2>2. aged' \subseteq NumbersOf(wal') /\ (aged' # {} => LongOutages)
    <3>1. PICK long \in {FALSE, LongOutages} :
            LET unread == NumbersOf(Above(wal', manifest.maxSeq))
            IN aged' = IF long THEN unread ELSE aged \cap unread
      BY <1>10 DEF Crash
    <3>2. NumbersOf(Above(wal', manifest.maxSeq)) \subseteq NumbersOf(wal')
      BY DEF NumbersOf, Above
    <3>3. CASE long
      BY <3>1, <3>2, <3>3
    <3>4. CASE ~long
      BY <3>1, <3>2, <3>4
    <3> QED
      BY <3>3, <3>4
  <2>3. ASSUME NEW o \in wal', LongOutages PROVE o.seq \in Nat /\ o.seq <= maxWALSeq'
    <3>1. Strong /\ o.seq \in Nat
      BY <1>1, <2>3 DEF OutagesHandled, SvcInv, SvcTypeOK, Objects
    <3>2. PICK seq \in {manifest.maxSeq, 0} : SeqAfter(seq, Above(wal', seq), maxWALSeq')
      BY <1>10, <3>1 DEF Crash
    <3> QED
      BY <1>1, <3>1, <3>2 DEF SeqAfter, Above
  <2> QED
    BY <2>1, <2>2, <2>3 DEF NumbersOf
<1>11. CASE ReplayApply
  BY <1>1, <1>2, <1>11 DEF ReplayApply, replayOthers, rest, SeqAfter
<1>12. CASE ColdRead \/ ColdFail
  <2>1. ColdMisses /\ UNCHANGED <<aged, sync>>
    BY <1>12 DEF ColdRead, ColdFail, coldOthers, rest
  <2>2. aged = {}
    BY <2>1 DEF OutagesHandled
  <2> QED
    BY <2>1, <2>2
<1> QED
  BY <1>3, <1>4, <1>5, <1>6, <1>7, <1>8, <1>9, <1>10, <1>11, <1>12 DEF Next, vars, engVars, rest,
     Write, ReturnError, Apply, WalStep, MemtableFlush, SyncStep, Replay, ReplayList,
     ReplayStop, ReplaySkip, ReplayRead, replayOthers

\* The records of a stored object are logged.
LEMMA StoredLogged ==
  ASSUME SvcInv, NEW o \in wal
  PROVE  o \in Objects /\ Range(o.recs) \subseteq Records /\ \A r \in Range(o.recs) : Logged(r)
  BY RangeRecords DEF SvcInv, SvcTypeOK, ObjectWriters, Objects, Logged, Holds

LEMMA ReadStep ==
  ASSUME BaseInv, [Next]_vars
  PROVE  ReadLogged'
<1>1. SvcInv /\ [SvcNext]_svcVars /\ SvcInv'
  BY EngineStepsLog, SvcStep DEF BaseInv
<1>2. CASE replay'.read \subseteq replay.read
  BY <1>1, <1>2, LoggedStable, RangeRecords DEF BaseInv, ReadLogged, Objects
<1>3. ASSUME NEW o \in wal, ReplayRead(o) PROVE ReadLogged'
  <2>1. replay'.read = {o} /\ o \in wal'
    BY <1>3 DEF ReplayRead, replayOthers, svcVars
  <2> QED
    BY <1>1, <2>1, StoredLogged, LoggedStable DEF ReadLogged
<1>4. CASE Crash \/ ReplayStop
  <2>1. ReplayIdle.read = {} /\ replay' = ReplayIdle
    BY <1>4 DEF Crash, ReplayStop, ReplayIdle
  <2> QED
    BY <1>2, <2>1
<1>5. CASE ReplayList \/ ReplayApply
  <2>1. replay'.read \subseteq replay.read
    BY <1>5 DEF ReplayList, ReplayApply, BaseInv, SyncShape
  <2> QED
    BY <1>2, <2>1
<1>6. ASSUME NEW s, ReplaySkip(s) PROVE ReadLogged'
  <2>1. replay'.read = replay.read
    BY <1>6 DEF ReplaySkip, BaseInv, SyncShape
  <2> QED
    BY <1>2, <2>1
<1>7. CASE replay' = replay
  BY <1>2, <1>7
<1> QED
  BY <1>3, <1>4, <1>5, <1>6, <1>7 DEF Next, vars, engVars, Write, ReturnError, Apply, Ack,
     WalStep, MemtableFlush, SyncStep, SyncFlush, SyncCheckpoint, SyncReadSeq, SyncManifest,
     SyncReturn, SyncGC, SyncDelete, syncOthers, Replay, ColdRead, ColdFail, coldOthers

\* What is in the views after a step was in one of them, or is logged.
LEMMA WriteAheadFrom ==
  ASSUME EngInv, [Next]_vars,
         \A r \in mem'.has \cup sst'.has \cup manifest'.view.has \cup sync'.view.has :
           \/ r \in mem.has \cup sst.has \cup manifest.view.has \cup sync.view.has
           \/ r \in Records /\ (Logged(r) \/ Logged(r)')
  PROVE  WriteAhead'
<1>1. SvcInv /\ [SvcNext]_svcVars
  BY EngineStepsLog DEF EngInv, BaseInv
<1>2. \A r : Logged(r) => r \in Records
  BY <1>1, StoredLogged DEF Logged, Holds, SvcInv, SvcTypeOK
<1>3. \A r : Logged(r) => Logged(r)'
  BY <1>1, <1>2, LoggedStable
<1> QED
  BY <1>3 DEF EngInv, BaseInv, WriteAhead

LEMMA WriteAheadStep ==
  ASSUME EngInv, [Next]_vars
  PROVE  WriteAhead'
<1>1. SvcInv /\ [SvcNext]_svcVars /\ SvcInv'
  BY EngineStepsLog, SvcStep DEF EngInv, BaseInv
<1>2. Empty.has = {} /\ SyncIdle.view.has = {}
  BY DEF Empty, SyncIdle
<1>3. ASSUME NEW r \in Records, Apply(r) PROVE WriteAhead'
  <2>1. mem'.has = mem.has \cup {r} /\ UNCHANGED <<sst, manifest, sync>>
    BY <1>3 DEF Apply, Applied, rest
  <2>2. Logged(r)
    BY <1>1, <1>3 DEF Apply, SvcInv, AckedDurable, Logged
  <2> QED
    BY <2>1, <2>2, WriteAheadFrom
<1>4. CASE MemtableFlush
  BY <1>4, WriteAheadFrom DEF MemtableFlush, rest
<1>5. CASE SyncFlush
  <2>1. sync'.view.has = {} /\ sst' = mem /\ UNCHANGED <<mem, manifest>>
    BY <1>2, <1>5 DEF SyncFlush, SyncIdle, syncOthers, rest
  <2> QED
    BY <2>1, WriteAheadFrom
<1>6. CASE SyncCheckpoint
  <2>1. sync'.view = sst /\ UNCHANGED <<mem, sst, manifest>>
    BY <1>6 DEF SyncCheckpoint, syncOthers, rest, EngInv, BaseInv, SyncShape
  <2> QED
    BY <2>1, WriteAheadFrom
<1>7. CASE SyncReadSeq \/ SyncManifest
  <2>1. sync'.view = sync.view
    BY <1>7 DEF SyncReadSeq, SyncManifest, EngInv, BaseInv, SyncShape
  <2>2. UNCHANGED <<mem, sst>> /\ (manifest' = manifest \/ manifest'.view = sync.view)
    BY <1>7 DEF SyncReadSeq, SyncManifest, syncOthers, rest
  <2> QED
    BY <2>1, <2>2, WriteAheadFrom
<1>8. ASSUME NEW old, SyncGC(old) PROVE WriteAhead'
  <2>1. sync'.view = Empty /\ UNCHANGED <<mem, sst, manifest>>
    BY <1>8 DEF SyncGC, syncOthers, rest, EngInv, BaseInv, SyncShape
  <2> QED
    BY <1>2, <2>1, WriteAheadFrom
<1>9. ASSUME NEW o, SyncDelete(o) PROVE WriteAhead'
  <2>1. sync'.view = sync.view /\ UNCHANGED <<mem, sst, manifest>>
    BY <1>9 DEF SyncDelete, syncOthers, rest, EngInv, BaseInv, SyncShape
  <2> QED
    BY <2>1, WriteAheadFrom
<1>10. CASE SyncReturn
  <2>1. sync'.view.has = {} /\ UNCHANGED <<mem, sst, manifest>>
    BY <1>2, <1>10 DEF SyncReturn, syncOthers, rest
  <2> QED
    BY <2>1, WriteAheadFrom
<1>11. CASE Crash
  <2>1. PICK found \in {TRUE} \cup {~ManifestFaults} :
          \E v \in Opened(found) :
            LET seq == IF found THEN manifest.maxSeq ELSE 0
                W == IF Strong THEN Above(wal', seq) ELSE {}
            IN mem' = Replayed(v, W) /\ sst' = v
    BY <1>11 DEF Crash
  <2>2. PICK v \in Opened(found), W \in SUBSET wal' : mem' = Replayed(v, W) /\ sst' = v
    BY <2>1 DEF Above
  <2>3. mem'.has = v.has \cup UNION {Range(o.recs) : o \in W}
    BY <2>2 DEF Replayed
  <2>4. v.has \subseteq manifest.view.has \cup sst.has
    BY <1>2 DEF Opened
  <2>5. \A r \in UNION {Range(o.recs) : o \in W} : r \in Records /\ Logged(r)'
    <3>1. \A o \in wal' : Range(o.recs) \subseteq Records /\ \A r \in Range(o.recs) : Logged(r)'
      BY <1>1, RangeRecords DEF SvcInv, SvcTypeOK, ObjectWriters, Objects, Logged, Holds
    <3> QED
      BY <3>1
  <2>6. sync'.view.has = {} /\ manifest' = manifest
    BY <1>2, <1>11 DEF Crash
  <2> QED
    BY <2>2, <2>3, <2>4, <2>5, <2>6, WriteAheadFrom
<1>12. CASE ReplayApply
  <2>1. mem'.has = mem.has \cup UNION {Range(o.recs) : o \in replay.read}
        /\ UNCHANGED <<sst, manifest, sync>>
    BY <1>12 DEF ReplayApply, Replayed, replayOthers, rest
  <2>2. \A r \in UNION {Range(o.recs) : o \in replay.read} : r \in Records /\ Logged(r)
    BY RangeRecords DEF EngInv, BaseInv, ReadLogged, Objects
  <2> QED
    BY <2>1, <2>2, WriteAheadFrom
<1>13. CASE UNCHANGED <<mem, sst, manifest, sync>>
  BY <1>13, WriteAheadFrom
<1> QED
  BY <1>3, <1>4, <1>5, <1>6, <1>7, <1>8, <1>9, <1>10, <1>11, <1>12, <1>13
     DEF Next, vars, engVars, rest, Write, ReturnError, Ack, WalStep, SyncStep, Replay, ReplayList,
         ReplayStop, ReplaySkip, ReplayRead, replayOthers, ColdRead, ColdFail, coldOthers

-------------------------------------------------------------------------------
LEMMA EngStart == Init => EngInv
<1> SUFFICES ASSUME Init PROVE EngInv
  OBVIOUS
<1>1. SvcInv
  BY SvcStart DEF Init
<1>2. AppliedLogged /\ pc \in [Records -> {"wal", "applied", "acked", "failed"}]
  BY DEF Init, SvcInit, AppliedLogged
<1>3. SyncShape /\ SyncNumbers
  BY DEF Init, SyncShape, SyncNumbers, SyncIdle, ReplayIdle, NoCold
<1>4. ReadLogged /\ WriteAhead
  BY DEF Init, SvcInit, ReadLogged, WriteAhead, SyncIdle, ReplayIdle, Empty
<1> QED
  BY <1>1, <1>2, <1>3, <1>4 DEF EngInv, BaseInv

LEMMA BaseStep ==
  ASSUME BaseInv, [Next]_vars
  PROVE  BaseInv'
<1>1. SvcInv'
  BY EngineStepsLog, SvcStep DEF BaseInv
<1> QED
  BY <1>1, ShapeStep, NumbersStep, ReadStep DEF BaseInv

LEMMA CollectStep ==
  ASSUME OutagesHandled, SweepInv, FailedStays, [Next]_vars
  PROVE  SweepInv'
<1>1. BaseInv'
  BY BaseStep DEF SweepInv
<1> QED
  BY <1>1, SweepStep, GoneStep, AgedStep DEF SweepInv

LEMMA EngStep == EngInv /\ [Next]_vars => EngInv'
<1> SUFFICES ASSUME EngInv, [Next]_vars PROVE EngInv'
  OBVIOUS
<1>1. BaseInv'
  BY BaseStep DEF EngInv
<1> QED
  BY <1>1, CallsStep, WriteAheadStep DEF EngInv

LEMMA KeepStart == Init => KeepInv
<1> SUFFICES ASSUME Init PROVE KeepInv
  OBVIOUS
<1>1. SweepSafe /\ GoneExplained /\ AgedReplayed
  BY DEF Init, SvcInit, SweepSafe, GoneExplained, AgedReplayed, SyncIdle
<1> QED
  BY <1>1, EngStart DEF KeepInv, SweepInv, EngInv

LEMMA KeepStep ==
  ASSUME OutagesHandled
  PROVE  KeepInv /\ [Next]_vars => KeepInv'
<1> SUFFICES ASSUME KeepInv, [Next]_vars PROVE KeepInv'
  OBVIOUS
<1>1. EngInv'
  BY EngStep DEF KeepInv
<1>2. FailedStays
  BY CallsStep DEF KeepInv
<1> QED
  BY <1>1, <1>2, CollectStep DEF KeepInv

\* The engine keeps its inductive invariant.
THEOREM EngineInvariant == Spec => []EngInv
  BY EngStart, EngStep, PTL DEF Spec

\* Nothing is visible in a read, an SST file, a checkpoint or a manifest that the log
\* did not have first, whatever the interleaving of writers, Sync, replays, cold
\* recoveries and crashes.
THEOREM EngineWriteAhead == Spec => []WriteAhead
  BY EngineInvariant, PTL DEF EngInv, BaseInv

\* WriteRecord's "ok" stands for an object in the store, or for a collected one, also
\* under the engine that collects.
THEOREM EngineAckedDurable == Spec => []AckedDurable
  BY EngineInvariant, PTL DEF EngInv, BaseInv, SvcInv

\* An acknowledged write that no manifest ever covered keeps its WAL object: the
\* collector, its orphan rule included, deletes nothing that only the log has, if
\* a node that was down for long is in strong mode and has no cold recoveries.
THEOREM EngineUncoveredKept ==
  ASSUME OutagesHandled
  PROVE  Spec => []UncoveredKept
<1>1. KeepInv => UncoveredKept
  <2> SUFFICES ASSUME KeepInv, NEW r \in Acked, seqOf[r] > covered
               PROVE  \E o \in wal : Holds(o, r)
    BY DEF UncoveredKept
  <2>1. r \in Records /\ pc[r] = "acked" /\ status[r] = "ok"
    BY DEF Acked, KeepInv, EngInv, BaseInv, AppliedLogged
  <2>2. (\E o \in wal : Holds(o, r)) \/ r \in gone
    BY <2>1 DEF KeepInv, EngInv, BaseInv, SvcInv, AckedDurable
  <2>3. r \notin gone
    BY <2>1 DEF KeepInv, SweepInv, BaseInv, GoneExplained, SyncNumbers, SvcInv, SvcTypeOK
  <2> QED
    BY <2>2, <2>3
<1>2. KeepInv /\ [Next]_vars => KeepInv'
  BY KeepStep
<1> QED
  BY <1>1, <1>2, KeepStart, PTL DEF Spec

\* Every behaviour of the engine is a behaviour of its log: the guarantees proved of
\* WalService hold under the engine's writers, collector and crashes.
THEOREM EngineLog == Spec => SvcSpec
<1>1. Init => SvcInit
  BY DEF Init
<1> QED
  BY <1>1, EngineStepsLog, PTL DEF Spec, SvcSpec

-------------------------------------------------------------------------------
(* What a replay yields *)

LEMMA Largest ==
  ASSUME NEW n \in Nat, NEW S \in SUBSET (0 .. n), S # {}
  PROVE  \E m \in S : \A x \in S : x <= m
<1> DEFINE gaps == {n - x : x \in S}
<1>1. \A x \in S : x \in Nat /\ n - x \in Nat
  OBVIOUS
<1>2. gaps \subseteq Nat /\ gaps # {}
  BY <1>1
<1>3. \E g \in gaps : \A h \in gaps : ~(<<h, g>> \in OpToRel(<, Nat))
  <2> HIDE DEF gaps
  <2> QED
    BY <1>2, NatLessThanWellFounded, WFMin
<1>4. PICK g \in gaps : \A h \in gaps : ~(h < g)
  BY <1>2, <1>3 DEF OpToRel
<1>5. PICK m \in S : g = n - m
  BY <1>4
<1>6. ASSUME NEW x \in S PROVE x <= m
  <2>1. ~(n - x < n - m)
    BY <1>4, <1>5
  <2> QED
    BY <1>1, <2>1
<1> QED
  BY <1>6

\* The last record of an object that writes the key.
LEMMA LastWriteIs ==
  ASSUME NEW o \in Objects, NEW k, Wrote(o, k) # {}
  PROVE  \E i \in Wrote(o, k) : LastWrite(o, k) = o.recs[i] /\ \A j \in Wrote(o, k) : j <= i
<1>1. Len(o.recs) \in Nat /\ Wrote(o, k) \in SUBSET (0 .. Len(o.recs))
  BY DEF Wrote, Objects
<1>2. \E i \in Wrote(o, k) : \A j \in Wrote(o, k) : j <= i
  BY <1>1, Largest
<1> QED
  BY <1>2 DEF LastWrite

\* The objects of a replay that write the key.
Writers(W, k) == {o \in W : Wrote(o, k) # {}}

\* A replay that does not write the key leaves it alone; another one leaves the last
\* record of the last object that has it.
LEMMA ReplayedKey ==
  ASSUME NEW v, NEW W \in SUBSET Objects, NEW n \in Nat, \A o \in W : o.seq <= n,
         NEW k \in Keys
  PROVE  /\ Writers(W, k) = {} => Replayed(v, W).val[k] = v.val[k]
         /\ Writers(W, k) # {} =>
              \E o \in Writers(W, k) :
                /\ \A p \in Writers(W, k) : p.seq <= o.seq
                /\ \E i \in Wrote(o, k) : /\ Replayed(v, W).val[k] = o.recs[i]
                                          /\ \A j \in Wrote(o, k) : j <= i
<1> DEFINE C == Writers(W, k)
           last == CHOOSE o \in C : \A p \in C : p.seq <= o.seq
<1>1. Replayed(v, W).val[k] = IF C = {} THEN v.val[k] ELSE LastWrite(last, k)
  BY DEF Replayed, Writers
<1>2. ASSUME C # {} PROVE last \in C /\ \A p \in C : p.seq <= last.seq
  <2>1. {o.seq : o \in C} \in SUBSET (0 .. n)
    BY DEF Writers, Objects
  <2>2. PICK m \in {o.seq : o \in C} : \A x \in {o.seq : o \in C} : x <= m
    BY <1>2, <2>1, Largest
  <2>3. \E o \in C : \A p \in C : p.seq <= o.seq
    BY <2>2
  <2> QED
    BY <2>3
<1>3. ASSUME C # {} PROVE \E i \in Wrote(last, k) : /\ LastWrite(last, k) = last.recs[i]
                                                    /\ \A j \in Wrote(last, k) : j <= i
  BY <1>2, <1>3, LastWriteIs DEF Writers
<1> QED
  BY <1>1, <1>2, <1>3

LEMMA ReplayedType ==
  ASSUME NEW v \in Views, NEW W \in SUBSET Objects, NEW n \in Nat, \A o \in W : o.seq <= n
  PROVE  Replayed(v, W) \in Views
<1> DEFINE R == Replayed(v, W)
<1>1. R.has = v.has \cup UNION {Range(o.recs) : o \in W}
  BY DEF Replayed
<1>2. R.has \subseteq Records
  BY <1>1, RangeRecords DEF Views, Objects
<1>3. \A k \in Keys : R.val[k] \in Records \cup {None}
  <2> SUFFICES ASSUME NEW k \in Keys PROVE R.val[k] \in Records \cup {None}
    OBVIOUS
  <2>1. CASE Writers(W, k) = {}
    BY <2>1, ReplayedKey DEF Views
  <2>2. CASE Writers(W, k) # {}
    <3>1. PICK o \in Writers(W, k) : \E i \in Wrote(o, k) : R.val[k] = o.recs[i]
      BY <2>2, ReplayedKey
    <3> QED
      BY <3>1 DEF Writers, Wrote, Objects
  <2> QED
    BY <2>1, <2>2
<1>4. R = [val |-> R.val, has |-> R.has] /\ R.val = [k \in Keys |-> R.val[k]]
  BY DEF Replayed
<1> HIDE DEF R
<1>5. R.val \in [Keys -> Records \cup {None}]
  BY <1>3, <1>4
<1>6. R \in Views
  BY <1>2, <1>4, <1>5 DEF Views
<1> QED
  BY <1>6 DEF R

LEMMA AppliedType ==
  ASSUME NEW v \in Views, NEW r \in Records
  PROVE  Applied(v, r) \in Views
  BY EngineAssumption DEF Applied, Views

LEMMA EmptyType == Empty \in Views /\ Empty.has = {}
  BY DEF Empty, Views

-------------------------------------------------------------------------------
(* The engine's type invariant, in every mode. *)

SyncType == [pc : {"idle", "flushed", "checkpoint", "upload", "manifest", "gc"},
             barrier : SUBSET Records, view : Views, seq : Nat, todo : SUBSET Nat]

\* The types of what only the engine keeps, calls and numbers aside.
DataOK ==
  /\ before \in [Records -> SUBSET Records]
  /\ mem \in Views /\ sst \in Views
  /\ manifest \in [maxSeq : Nat, view : Views]
  /\ sync \in SyncType
  /\ replay \in [todo : SUBSET Nat, read : SUBSET Objects]
  /\ aged \subseteq Nat
  /\ missed \subseteq Records /\ reused \subseteq Records

LEMMA SyncIdleType == SyncIdle \in SyncType
  BY EmptyType DEF SyncIdle, SyncType

LEMMA DataStep ==
  ASSUME BaseInv, DataOK, [Next]_vars
  PROVE  DataOK'
<1>1. SvcTypeOK'
  BY EngineStepsLog, SvcStep DEF BaseInv, SvcInv
<1>2. BaseInv'
  BY BaseStep
<1>3. sync \in SyncType /\ maxWALSeq \in Nat
  BY DEF DataOK, BaseInv, SyncNumbers
<1>4. \A o \in wal : o \in Objects /\ o.seq \in Nat
  BY DEF BaseInv, SvcInv, SvcTypeOK, Objects
<1>5. before' \in [Records -> SUBSET Records]
  <2>1. ASSUME NEW r \in Records, Write(r) PROVE before' \in [Records -> SUBSET Records]
    BY <2>1 DEF Write, Returned, DataOK
  <2>2. CASE before' = before
    BY <2>2 DEF DataOK
  <2> QED
    BY <2>1, <2>2 DEF Next, vars, engVars, ReturnError, Apply, Ack, WalStep, MemtableFlush,
       SyncStep, SyncFlush, SyncCheckpoint, SyncReadSeq, SyncManifest, SyncReturn, SyncGC,
       SyncDelete, syncOthers, Crash, Replay, ReplayList, ReplayApply, ReplayStop, ReplaySkip,
       ReplayRead, replayOthers, ColdRead, ColdFail, coldOthers
<1>6. mem' \in Views /\ sst' \in Views
  <2>1. ASSUME NEW r \in Records, Apply(r) PROVE mem' \in Views /\ sst' \in Views
    BY <2>1, AppliedType DEF Apply, DataOK
  <2>2. CASE MemtableFlush \/ SyncFlush
    BY <2>2 DEF MemtableFlush, SyncFlush, syncOthers, DataOK
  <2>3. CASE Crash
    <3>1. PICK found \in {TRUE} \cup {~ManifestFaults} : \E v \in Opened(found) :
            LET seq == IF found THEN manifest.maxSeq ELSE 0
                W == IF Strong THEN Above(wal', seq) ELSE {}
            IN mem' = Replayed(v, W) /\ sst' = v /\ SeqAfter(seq, W, maxWALSeq')
      BY <2>3 DEF Crash
    <3>2. PICK v \in Opened(found), W \in SUBSET wal' :
            mem' = Replayed(v, W) /\ sst' = v /\ \A o \in W : o.seq <= maxWALSeq'
      BY <3>1 DEF Above, SeqAfter
    <3>3. v \in Views
      BY EmptyType DEF Opened, DataOK
    <3>4. W \in SUBSET Objects /\ maxWALSeq' \in Nat
      BY <1>1, <1>2 DEF SvcTypeOK, BaseInv, SyncNumbers
    <3> QED
      BY <3>2, <3>3, <3>4, ReplayedType
  <2>4. CASE ReplayApply
    <3>1. replay.read \in SUBSET Objects /\ maxWALSeq' \in Nat
          /\ \A o \in replay.read : o.seq <= maxWALSeq'
      BY <1>2, <2>4 DEF ReplayApply, SeqAfter, BaseInv, SyncNumbers, ReadLogged
    <3> QED
      BY <2>4, <3>1, ReplayedType DEF ReplayApply, replayOthers, DataOK
  <2>5. CASE UNCHANGED <<mem, sst>>
    BY <2>5 DEF DataOK
  <2> QED
    BY <2>1, <2>2, <2>3, <2>4, <2>5 DEF Next, vars, engVars, Write, ReturnError, Ack, WalStep,
       SyncStep, SyncCheckpoint, SyncReadSeq, SyncManifest, SyncReturn, SyncGC, SyncDelete,
       syncOthers, Replay, ReplayList, ReplayStop, ReplaySkip, ReplayRead, replayOthers,
       ColdRead, ColdFail, coldOthers
<1>7. manifest' \in [maxSeq : Nat, view : Views]
  <2>1. CASE SyncManifest
    BY <1>3, <2>1 DEF SyncManifest, SyncType
  <2>2. CASE manifest' = manifest
    BY <2>2 DEF DataOK
  <2> QED
    BY <2>1, <2>2 DEF Next, vars, engVars, rest, Write, ReturnError, Apply, Ack, WalStep,
       MemtableFlush, SyncStep, SyncFlush, SyncCheckpoint, SyncReadSeq, SyncReturn, SyncGC,
       SyncDelete, Crash, Replay, ReplayList, ReplayApply, ReplayStop, ReplaySkip, ReplayRead,
       replayOthers, ColdRead, ColdFail, coldOthers
<1>8. sync' \in SyncType
  <2>1. CASE SyncFlush
    BY <2>1, SyncIdleType DEF SyncFlush, SyncType
  <2>2. CASE SyncCheckpoint
    BY <1>3, <2>2 DEF SyncCheckpoint, SyncType, DataOK
  <2>3. CASE SyncReadSeq
    BY <1>3, <2>3 DEF SyncReadSeq, SyncType, DataOK
  <2>4. CASE SyncManifest
    BY <1>3, <2>4 DEF SyncManifest, SyncType
  <2>5. ASSUME NEW old \in SUBSET Above(wal, sync.seq), SyncGC(old) PROVE sync' \in SyncType
    <3>1. {o.seq : o \in {p \in wal : p.seq <= sync.seq} \cup old} \subseteq Nat
      BY <1>4 DEF Above
    <3> QED
      BY <1>3, <2>5, <3>1, EmptyType DEF SyncGC, SyncType
  <2>6. ASSUME NEW o \in wal, SyncDelete(o) PROVE sync' \in SyncType
    BY <1>3, <2>6 DEF SyncDelete, SyncType
  <2>7. CASE SyncReturn \/ Crash
    BY <2>7, SyncIdleType DEF SyncReturn, Crash
  <2>8. CASE sync' = sync
    BY <1>3, <2>8
  <2> QED
    BY <2>1, <2>2, <2>3, <2>4, <2>5, <2>6, <2>7, <2>8 DEF Next, vars, engVars, Write,
       ReturnError, Apply, Ack, WalStep, MemtableFlush, SyncStep, Replay, ReplayList,
       ReplayApply, ReplayStop, ReplaySkip, ReplayRead, replayOthers, ColdRead, ColdFail,
       coldOthers
<1>9. replay' \in [todo : SUBSET Nat, read : SUBSET Objects]
  <2>1. CASE ReplayList
    BY <1>4, <2>1 DEF ReplayList, DataOK
  <2>2. ASSUME NEW s \in replay.todo, ReplaySkip(s)
        PROVE  replay' \in [todo : SUBSET Nat, read : SUBSET Objects]
    BY <2>2 DEF ReplaySkip, DataOK
  <2>3. ASSUME NEW o \in wal, ReplayRead(o)
        PROVE  replay' \in [todo : SUBSET Nat, read : SUBSET Objects]
    BY <1>4, <2>3 DEF ReplayRead, DataOK
  <2>4. CASE ReplayApply
    BY <2>4 DEF ReplayApply, DataOK
  <2>5. CASE ReplayStop \/ Crash
    <3>1. replay' = ReplayIdle
      BY <2>5 DEF ReplayStop, Crash
    <3> QED
      BY <3>1 DEF ReplayIdle
  <2>6. CASE replay' = replay
    BY <2>6 DEF DataOK
  <2> QED
    BY <2>1, <2>2, <2>3, <2>4, <2>5, <2>6 DEF Next, vars, engVars, Write, ReturnError, Apply,
       Ack, WalStep, MemtableFlush, SyncStep, SyncFlush, SyncCheckpoint, SyncReadSeq,
       SyncManifest, SyncReturn, SyncGC, SyncDelete, syncOthers, Replay, ColdRead, ColdFail,
       coldOthers
<1>10. aged' \subseteq Nat
  <2>1. CASE Crash
    <3>1. PICK long \in {FALSE, LongOutages} :
            LET unread == NumbersOf(Above(wal', manifest.maxSeq))
            IN aged' = IF long THEN unread ELSE aged \cap unread
      BY <2>1 DEF Crash
    <3>2. NumbersOf(Above(wal', manifest.maxSeq)) \subseteq Nat
      BY <1>1 DEF NumbersOf, Above, SvcTypeOK, Objects
    <3>3. CASE long
      BY <3>1, <3>2, <3>3
    <3>4. CASE ~long
      BY <3>1, <3>2, <3>4
    <3> QED
      BY <3>3, <3>4
  <2>2. CASE aged' = aged
    BY <2>2 DEF DataOK
  <2> QED
    BY <2>1, <2>2 DEF Next, vars, engVars, rest, Write, ReturnError, Apply, Ack, WalStep,
       MemtableFlush, SyncStep, SyncFlush, SyncCheckpoint, SyncReadSeq, SyncManifest,
       SyncReturn, SyncGC, SyncDelete, Replay, ReplayList, ReplayApply, ReplayStop,
       ReplaySkip, ReplayRead, replayOthers, ColdRead, ColdFail, coldOthers
<1>11. missed' \subseteq Records /\ reused' \subseteq Records
  <2>1. missed' = missed \/ SyncManifest
    BY DEF Next, vars, engVars, rest, Write, ReturnError, Apply, Ack, WalStep, MemtableFlush,
       SyncStep, SyncFlush, SyncCheckpoint, SyncReadSeq, SyncReturn, SyncGC, SyncDelete, Crash,
       Replay, ReplayList, ReplayApply, ReplayStop, ReplaySkip, ReplayRead, replayOthers,
       ColdRead, ColdFail, coldOthers
  <2>2. reused' = reused \/ \E r \in Records : reused' = reused \cup {r}
    BY DEF Next, vars, engVars, Write, ReturnError, Apply, Ack, WalStep, MemtableFlush,
       SyncStep, SyncFlush, SyncCheckpoint, SyncReadSeq, SyncManifest, SyncReturn, SyncGC,
       SyncDelete, syncOthers, Crash, Replay, ReplayList, ReplayApply, ReplayStop, ReplaySkip,
       ReplayRead, replayOthers, ColdRead, ColdFail, coldOthers
  <2> QED
    BY <2>1, <2>2 DEF SyncManifest, DataOK
<1> QED
  BY <1>1, <1>2, <1>5, <1>6, <1>7, <1>8, <1>9, <1>10, <1>11
     DEF DataOK

LEMMA DataStart == Init => DataOK
  BY EmptyType, SyncIdleType DEF Init, DataOK, ReplayIdle

\* The state of the engine keeps its type, in both consistency modes.
THEOREM EngineTypeCorrect == Spec => []TypeOK
<1>1. EngInv /\ DataOK => TypeOK
  BY DEF EngInv, BaseInv, SvcInv, SyncNumbers, DataOK, SyncType, TypeOK
<1>2. DataOK /\ EngInv /\ [Next]_vars => DataOK'
  BY DataStep DEF EngInv
<1> QED
  BY <1>1, <1>2, DataStart, EngineInvariant, PTL DEF Spec

-------------------------------------------------------------------------------
(* Recovery in strong mode.  An acknowledged write can be hidden in two ways: it is not
   in what is recovered, or something older is applied over it.  The invariant follows
   every write from the log into the views, and orders the log. *)

\* The mode that is meant: the node replays its log before it serves, the Get of the
\* manifest is retried until it succeeds, and no cold recovery resets maxWALSeq.
Reliable == Strong /\ ~ColdMisses /\ ~ManifestFaults

\* Neither the replay loop nor a cold recovery is at work.
Quiet == replay = ReplayIdle /\ cold = NoCold

\* Only calls for the same key that returned count as older; a call that was not
\* accepted has not begun, and one that was has a number.
History ==
  \A r \in Records :
    /\ before[r] \subseteq {q \in Returned : KeyOf[q] = KeyOf[r]}
    /\ status[r] = "idle" => before[r] = {} /\ pc[r] = "wal"
    /\ status[r] # "idle" => seqOf[r] > 0

\* In the objects and batches of X an older record has no higher number than a younger
\* one, and comes first in an object they share.
Ordered(X) ==
  \A x \in X :
    /\ \A q \in Range(x.recs), r \in Records : q \in before[r] => seqOf[q] <= seqOf[r]
    /\ \A i, j \in DOMAIN x.recs : x.recs[i] \in before[x.recs[j]] => i < j

\* An object per number, with the records that have it.
Numbered(X) ==
  /\ \A o, p \in X : o.seq = p.seq => o = p
  /\ \A o \in X : \A r \in Range(o.recs) : seqOf[r] = o.seq

LogOrder == Ordered(wal) /\ Ordered(batches)

\* Manifests cover more and more, and never more than maxWALSeq.
Covering ==
  /\ covered = manifest.maxSeq
  /\ manifest.maxSeq <= maxWALSeq
  /\ sync.pc = "upload" => manifest.maxSeq <= sync.seq
  /\ sync.seq <= maxWALSeq

\* A checkpoint is part of the SST files, and these of what is read.
Contained ==
  /\ manifest.view.has \subseteq sst.has
  /\ sync.view.has \subseteq sst.has
  /\ sst.has \subseteq mem.has

\* Whatever went into a view is visible in it, or hidden by a write that is not older.
FreshView(v) == \A r \in v.has : Fresh(v, r)

ViewsFresh == FreshView(mem) /\ FreshView(sst) /\ FreshView(sync.view) /\ FreshView(manifest.view)

\* What is read and not covered is still in the log.
ShownKept ==
  \A r \in mem.has : /\ pc[r] # "wal"
                     /\ seqOf[r] <= covered \/ \E o \in wal : Holds(o, r)

\* A failed write that is read came from a replay: maxWALSeq and the number of a Sync
\* are at or above it, so the orphan rule does not reach it.
ShownFailed ==
  \A r \in mem.has : pc[r] = "failed" =>
    /\ seqOf[r] <= maxWALSeq
    /\ sync.pc \in {"upload", "manifest", "gc"} => seqOf[r] <= sync.seq

\* What the manifest covers is in its checkpoint, or lost in one of the two ways.
CoveredShown ==
  \A r \in Records :
    seqOf[r] \in 1 .. manifest.maxSeq => r \in manifest.view.has \cup missed \cup reused

\* What was applied is read, or lost in one of the two ways.
AckedShown ==
  \A r \in Records :
    pc[r] \in {"applied", "acked"} => r \in mem.has \cup missed \cup reused

\* What is read was accepted.
ShownAccepted == \A r \in mem.has : status[r] # "idle"

\* The phases of a call, with and without AsyncWAL.
Phases == {"wal", "open", "local", "applied", "acked", "failed"}

\* The part that does not depend on how a write is applied.
CoreInv ==
  /\ SweepInv /\ DataOK /\ pc \in [Records -> Phases]
  /\ Quiet /\ History /\ LogOrder /\ Covering /\ Contained /\ CoveredShown /\ ShownAccepted

RecoverInv ==
  /\ CoreInv /\ EngInv
  /\ ViewsFresh /\ ShownKept /\ ShownFailed /\ AckedShown

-------------------------------------------------------------------------------
(* A replay on top of a view does not hide a write behind an older one. *)

\* Its form for a key that some object writes.
LEMMA ReplayedLast ==
  ASSUME NEW v, NEW W \in SUBSET Objects, NEW n \in Nat, \A o \in W : o.seq <= n,
         NEW k \in Keys, NEW o \in Writers(W, k)
  PROVE  \E p \in Writers(W, k) :
           \E i \in Wrote(p, k) : /\ \A q \in Writers(W, k) : q.seq <= p.seq
                                  /\ Replayed(v, W).val[k] = p.recs[i]
                                  /\ \A l \in Wrote(p, k) : l <= i
  BY ReplayedKey

LEMMA ReplayedShows ==
  ASSUME NEW v \in Views,
         NEW w \in SUBSET Objects, NEW m \in Nat, NEW n \in Nat, \A o \in w : o.seq <= n,
         Ordered(w), Numbered(w), History, seqOf \in [Records -> Nat],
         NEW r \in Records
  PROVE  \/ \E o \in Above(w, m) : r \in Range(o.recs)
         \/ Fresh(v, r) /\ (seqOf[r] <= m \/ \E o \in w : r \in Range(o.recs))
         => Fresh(Replayed(v, Above(w, m)), r)
<1> DEFINE W == Above(w, m)
           R == Replayed(v, W)
<1>1. W \in SUBSET Objects /\ \A o \in W : o \in w /\ o.seq > m /\ o.seq <= n /\ o.seq \in Nat
  BY DEF Above, Objects
<1>2. r \in Records /\ KeyOf[r] \in Keys
  BY EngineAssumption
<1>4. \A o \in W : \A i \in DOMAIN o.recs : o.recs[i] \in Records /\ o.recs[i] \in Range(o.recs)
  BY <1>1, RangeRecords DEF Objects, Range
<1>5. ASSUME NEW o \in W, r \in Range(o.recs) PROVE Fresh(R, r)
  <2>1. PICK j \in DOMAIN o.recs : r = o.recs[j]
    BY <1>5 DEF Range
  <2>3. j \in Wrote(o, KeyOf[r]) /\ o \in Writers(W, KeyOf[r])
    BY <2>1 DEF Wrote, Writers
  <2>4. PICK p \in Writers(W, KeyOf[r]) :
          \E i \in Wrote(p, KeyOf[r]) :
            /\ \A q \in Writers(W, KeyOf[r]) : q.seq <= p.seq
            /\ R.val[KeyOf[r]] = p.recs[i]
            /\ \A l \in Wrote(p, KeyOf[r]) : l <= i
    <3>1. W \in SUBSET Objects /\ \A x \in W : x.seq <= n
      BY <1>1
    <3>2. KeyOf[r] \in Keys /\ o \in Writers(W, KeyOf[r])
      BY <1>2, <2>3
    <3>3. \A k \in Keys : \A q \in Writers(W, k) :
             \E p \in Writers(W, k) :
               \E i \in Wrote(p, k) : /\ \A l \in Writers(W, k) : l.seq <= p.seq
                                      /\ R.val[k] = p.recs[i]
                                      /\ \A l \in Wrote(p, k) : l <= i
      BY <3>1, ReplayedLast
    <3> QED
      BY <3>2, <3>3, Zenon
  <2>5. PICK i \in Wrote(p, KeyOf[r]) : /\ R.val[KeyOf[r]] = p.recs[i]
                                        /\ \A l \in Wrote(p, KeyOf[r]) : l <= i
    BY <2>4
  <2>6. p \in W /\ i \in DOMAIN p.recs
    BY DEF Writers, Wrote
  <2>7. ASSUME p.recs[i] \in before[r] PROVE FALSE
    <3>1. seqOf[p.recs[i]] <= seqOf[r]
      BY <1>1, <1>4, <1>2, <2>6, <2>7 DEF Ordered
    <3>2. seqOf[p.recs[i]] = p.seq /\ seqOf[r] = o.seq
      BY <1>1, <1>4, <1>5, <2>6 DEF Numbered
    <3>3. o = p
      BY <1>1, <2>3, <2>4, <2>6, <3>1, <3>2 DEF Numbered
    <3>4. i < j
      BY <1>1, <2>1, <2>6, <2>7, <3>3 DEF Ordered
    <3>5. j <= i
      BY <2>3, <2>5, <3>3
    <3>6. i \in Nat /\ j \in Nat
      BY <1>1, <2>6, <3>3 DEF Objects
    <3> QED
      BY <3>4, <3>5, <3>6
  <2>8. p.recs[i] # None
    BY <1>4, <2>6, EngineAssumption
  <2> QED
    BY <2>5, <2>7, <2>8 DEF Fresh
<1>6. ASSUME Fresh(v, r), seqOf[r] <= m \/ \E o \in w : r \in Range(o.recs)
      PROVE  Fresh(R, r)
  <2>2. CASE Writers(W, KeyOf[r]) = {}
    <3>1. R.val[KeyOf[r]] = v.val[KeyOf[r]]
      BY <1>1, <1>2, <2>2, ReplayedKey
    <3> QED
      BY <1>6, <3>1 DEF Fresh
  <2>3. CASE Writers(W, KeyOf[r]) # {}
    <3>1. PICK p \in Writers(W, KeyOf[r]) :
            \E i \in Wrote(p, KeyOf[r]) : R.val[KeyOf[r]] = p.recs[i]
      BY <1>1, <1>2, <2>3, ReplayedKey
    <3>2. PICK i \in Wrote(p, KeyOf[r]) : R.val[KeyOf[r]] = p.recs[i]
      BY <3>1
    <3>3. p \in W /\ i \in DOMAIN p.recs
      BY DEF Writers, Wrote
    <3>4. CASE p.recs[i] \in before[r]
      <4>1. seqOf[p.recs[i]] <= seqOf[r] /\ seqOf[p.recs[i]] = p.seq
        BY <1>1, <1>4, <1>2, <3>3, <3>4 DEF Ordered, Numbered
      <4>2. ~(seqOf[r] <= m)
        BY <1>1, <1>2, <3>3, <4>1
      <4>3. PICK o \in w : r \in Range(o.recs)
        BY <1>6, <4>2
      <4>4. o \in W
        BY <1>1, <1>2, <4>2, <4>3 DEF Above, Objects, Numbered
      <4> QED
        BY <1>5, <4>3, <4>4
    <3>5. CASE p.recs[i] \notin before[r]
      BY <1>4, <3>2, <3>3, <3>5, EngineAssumption DEF Fresh
    <3> QED
      BY <3>4, <3>5
  <2> QED
    BY <2>2, <2>3
<1> QED
  BY <1>5, <1>6

LEMMA ReplayedFresh ==
  ASSUME NEW v \in Views, FreshView(v),
         NEW w \in SUBSET Objects, NEW m \in Nat, NEW n \in Nat, \A o \in w : o.seq <= n,
         Ordered(w), History, seqOf \in [Records -> Nat],
         \A o, p \in w : o.seq = p.seq => o = p,
         \A o \in w : \A r \in Range(o.recs) : seqOf[r] = o.seq,
         \A r \in v.has : seqOf[r] <= m \/ \E o \in w : r \in Range(o.recs)
  PROVE  FreshView(Replayed(v, Above(w, m)))
<1>1. Replayed(v, Above(w, m)).has = v.has \cup UNION {Range(o.recs) : o \in Above(w, m)}
  BY DEF Replayed
<1> SUFFICES ASSUME NEW r \in Replayed(v, Above(w, m)).has
             PROVE  Fresh(Replayed(v, Above(w, m)), r)
  BY DEF FreshView
<1>2. r \in Records
  BY <1>1, RangeRecords DEF Views, Objects, Above
<1>3. CASE r \in v.has
  BY <1>2, <1>3, ReplayedShows DEF FreshView, Numbered
<1>4. CASE \E o \in Above(w, m) : r \in Range(o.recs)
  BY <1>2, <1>4, ReplayedShows DEF Numbered
<1> QED
  BY <1>1, <1>3, <1>4

-------------------------------------------------------------------------------
(* What the steps of a reliable node do. *)

LEMMA StrongSteps ==
  ASSUME Reliable, Quiet, [Next]_vars
  PROVE  /\ \/ \E r \in Records : Write(r) \/ ReturnError(r) \/ Apply(r) \/ Ack(r)
            \/ WalStep \/ MemtableFlush \/ SyncStep \/ Crash \/ UNCHANGED vars
         /\ Quiet'
<1>1. ReplayIdle.todo = {} /\ ReplayIdle.read = {}
  BY DEF ReplayIdle
<1>2. ~Replay /\ ~ColdRead /\ ~ColdFail
  BY <1>1 DEF Reliable, Quiet, Replay, ReplayList, ReplayApply, ReplayStop, ReplaySkip,
              ReplayRead, NextReplay, ColdRead, ColdFail
<1>3. \/ \E r \in Records : Write(r) \/ ReturnError(r) \/ Apply(r) \/ Ack(r)
      \/ WalStep \/ MemtableFlush \/ SyncStep \/ Crash \/ UNCHANGED vars
  BY <1>2 DEF Next
<1>4. Crash \/ UNCHANGED <<replay, cold>>
  BY <1>3 DEF vars, engVars, Write, ReturnError, Apply, Ack, WalStep, MemtableFlush, SyncStep,
     SyncFlush, SyncCheckpoint, SyncReadSeq, SyncManifest, SyncReturn, SyncGC, SyncDelete,
     syncOthers
<1> QED
  BY <1>3, <1>4 DEF Quiet, Crash

LEMMA SyncFields ==
  ASSUME SyncShape
  PROVE  /\ SyncFlush => sync'.pc = "flushed" /\ sync'.seq = 0 /\ sync'.view = Empty
         /\ SyncCheckpoint =>
              sync'.pc = "checkpoint" /\ sync'.seq = sync.seq /\ sync'.view = sst
         /\ SyncReadSeq =>
              sync'.pc = "upload" /\ sync'.seq = maxWALSeq /\ sync'.view = sync.view
         /\ SyncManifest =>
              sync'.pc = "manifest" /\ sync'.seq = sync.seq /\ sync'.view = sync.view
         /\ \A old : SyncGC(old) =>
              sync'.pc = "gc" /\ sync'.seq = sync.seq /\ sync'.view = Empty
         /\ \A o : SyncDelete(o) =>
              sync'.pc = "gc" /\ sync'.seq = sync.seq /\ sync'.view = sync.view
         /\ SyncReturn \/ Crash => sync'.pc = "idle" /\ sync'.seq = 0 /\ sync'.view = Empty
<1> USE DEF SyncShape, SyncIdle
<1>1. SyncFlush => sync'.pc = "flushed" /\ sync'.seq = 0 /\ sync'.view = Empty
  BY DEF SyncFlush
<1>2. SyncCheckpoint => sync'.pc = "checkpoint" /\ sync'.seq = sync.seq /\ sync'.view = sst
  BY DEF SyncCheckpoint
<1>3. SyncReadSeq => sync'.pc = "upload" /\ sync'.seq = maxWALSeq /\ sync'.view = sync.view
  BY DEF SyncReadSeq
<1>4. SyncManifest => sync'.pc = "manifest" /\ sync'.seq = sync.seq /\ sync'.view = sync.view
  BY DEF SyncManifest
<1>5. \A old : SyncGC(old) => sync'.pc = "gc" /\ sync'.seq = sync.seq /\ sync'.view = Empty
  BY DEF SyncGC
<1>6. \A o : SyncDelete(o) => sync'.pc = "gc" /\ sync'.seq = sync.seq /\ sync'.view = sync.view
  BY DEF SyncDelete
<1>7. SyncReturn \/ Crash => sync'.pc = "idle" /\ sync'.seq = 0 /\ sync'.view = Empty
  <2>1. SyncReturn \/ Crash => sync' = SyncIdle
    BY DEF SyncReturn, Crash
  <2> QED
    BY <2>1
<1> QED
  BY <1>1, <1>2, <1>3, <1>4, <1>5, <1>6, <1>7

\* A crash recovers the manifest's checkpoint, or the SST files of a disk that survived,
\* and replays the log above the manifest.
LEMMA CrashRecovers ==
  ASSUME Reliable, SvcInv, SyncNumbers, Crash
  PROVE  /\ wal \subseteq wal' /\ UNCHANGED <<before, seqOf, gone, manifest, covered, missed, reused>>
         /\ \E v \in {manifest.view, sst} :
              sst' = v /\ mem' = Replayed(v, Above(wal', manifest.maxSeq))
         /\ manifest.maxSeq <= maxWALSeq' /\ \A o \in wal' : o.seq <= maxWALSeq'
         /\ \A r \in Records :
              pc'[r] = IF pc[r] = "acked" \/ status[r] = "idle" THEN pc[r] ELSE "failed"
<1>1. wal \subseteq wal' /\ wal' \subseteq Objects
  <2>1. wal' \subseteq Objects
    BY SvcStep DEF Crash, SvcNext, SvcInv, SvcTypeOK
  <2> QED
    BY <2>1 DEF Crash, Restart, Stored, SvcInv, BatchObjects
<1>2. \A found \in {TRUE} \cup {~ManifestFaults} : found
  BY EngineAssumption DEF Reliable
<1>3. PICK v \in {manifest.view, sst} :
        /\ mem' = Replayed(v, Above(wal', manifest.maxSeq)) /\ sst' = v
        /\ SeqAfter(manifest.maxSeq, Above(wal', manifest.maxSeq), maxWALSeq')
  BY <1>2 DEF Crash, Opened, Reliable
<1>4. manifest.maxSeq <= maxWALSeq'
  BY <1>3 DEF SeqAfter
<1>5. maxWALSeq' \in Nat /\ manifest.maxSeq \in Nat /\ \A o \in wal' : o.seq \in Nat
  BY <1>1, <1>3 DEF SeqAfter, Above, SyncNumbers, Objects
<1>6. \A o \in wal' : o.seq <= maxWALSeq'
  BY <1>3, <1>5 DEF SeqAfter, Above
<1> QED
  BY <1>1, <1>3, <1>4, <1>6 DEF Crash, Restart

LEMMA ShownNumbers ==
  ASSUME CoreInv
  PROVE  \A r \in mem.has : r \in Records /\ status[r] # "idle" /\ seqOf[r] > 0
  BY DEF CoreInv, DataOK, Views, History, ShownAccepted

LEMMA RecoverTypes == RecoverInv => TypeOK
  BY DEF RecoverInv, CoreInv, EngInv, BaseInv, SvcInv, SyncNumbers, DataOK, SyncType, TypeOK

LEMMA IdleStays ==
  ASSUME BaseInv, [Next]_vars, NEW r \in Records, status[r] # "idle"
  PROVE  status'[r] # "idle"
<1>1. SvcInv /\ [SvcNext]_svcVars
  BY EngineStepsLog DEF BaseInv
<1> QED
  BY <1>1 DEF SvcNext, svcVars, AcceptFresh, AcceptJoin, Refuse, StoreAnswers, Answer, Collect,
              Restart, SvcInv, SvcTypeOK, Answered, Orphaned

LEMMA AcceptedStable ==
  ASSUME CoreInv, [Next]_vars, NEW r \in Records, status[r] # "idle"
  PROVE  seqOf'[r] = seqOf[r] /\ before'[r] = before[r]
<1>1. seqOf'[r] = seqOf[r]
  BY EngineStepsLog, SeqStable DEF CoreInv, SweepInv, BaseInv
<1>2. ASSUME NEW q \in Records, Write(q) PROVE before'[r] = before[r]
  <2>1. q # r
    BY <1>2 DEF Write, AcceptFresh, AcceptJoin
  <2> QED
    BY <1>2, <2>1 DEF Write, CoreInv, DataOK
<1>3. CASE before' = before
  BY <1>1, <1>3
<1> QED
  BY <1>1, <1>2, <1>3 DEF Next, vars, engVars, ReturnError, Apply, Ack, WalStep, MemtableFlush,
     SyncStep, SyncFlush, SyncCheckpoint, SyncReadSeq, SyncManifest, SyncReturn, SyncGC,
     SyncDelete, syncOthers, Crash, Replay, ReplayList, ReplayApply, ReplayStop, ReplaySkip,
     ReplayRead, replayOthers, ColdRead, ColdFail, coldOthers

-------------------------------------------------------------------------------
(* Each part of the invariant is preserved. *)

LEMMA HistoryStep ==
  ASSUME Reliable, CoreInv, [Next]_vars
  PROVE  History'
<1>1. DataOK /\ History /\ SvcInv /\ SvcTypeOK /\ Quiet /\ pc \in [Records -> Phases]
  BY DEF CoreInv, SweepInv, BaseInv, SvcInv
<1>2. \A r \in Records : pc[r] \in {"acked", "failed"} => pc'[r] \in {"acked", "failed"}
  <2>1. CASE pc' = pc
    BY <2>1
  <2>2. ASSUME NEW r \in Records, ReturnError(r) \/ Apply(r) \/ Ack(r)
        PROVE  \A q \in Records : pc[q] \in {"acked", "failed"} => pc'[q] \in {"acked", "failed"}
    BY <1>1, <2>2 DEF ReturnError, Apply, Ack, DataOK
  <2>3. CASE Crash
    BY <2>3 DEF Crash
  <2> QED
    BY <1>1, <2>1, <2>2, <2>3, StrongSteps DEF vars, engVars, Write, WalStep, MemtableFlush,
       SyncStep, SyncFlush, SyncCheckpoint, SyncReadSeq, SyncManifest, SyncReturn, SyncGC,
       SyncDelete, syncOthers
<1>3. \A r \in Records : status[r] # "idle" => status'[r] # "idle"
  BY IdleStays DEF CoreInv, SweepInv
<1>4. ASSUME NEW r \in Records, status[r] # "idle"
      PROVE  /\ before'[r] \subseteq {q \in Returned' : KeyOf[q] = KeyOf[r]}
             /\ status'[r] # "idle" /\ seqOf'[r] > 0
  <2>1. before'[r] = before[r] /\ seqOf'[r] = seqOf[r]
    BY <1>4, AcceptedStable
  <2> QED
    BY <1>1, <1>2, <1>3, <1>4, <2>1 DEF History, Returned
<1>5. ASSUME NEW r \in Records, status[r] = "idle", \A q \in Records : Write(q) => q # r
      PROVE  before'[r] = {} /\ pc'[r] = "wal" /\ status'[r] = "idle"
  <2>1. before[r] = {} /\ pc[r] = "wal"
    BY <1>1, <1>5 DEF History
  <2>2. CASE Crash
    BY <1>5, <2>1, <2>2 DEF Crash, Restart, Orphaned
  <2>3. CASE WalStep
    <3>1. \A b \in batches : r \notin Range(b.recs)
      BY <1>1, <1>5 DEF SvcInv, BatchWriters
    <3> QED
      BY <1>5, <2>1, <2>3, <3>1 DEF WalStep, Answer, StoreAnswers, Answered, engVars
  <2>4. ASSUME NEW q \in Records, Write(q) PROVE before'[r] = {} /\ pc'[r] = "wal" /\ status'[r] = "idle"
    <3>1. q # r
      BY <1>5, <2>4
    <3> QED
      BY <1>1, <1>5, <2>1, <2>4, <3>1 DEF Write, AcceptFresh, AcceptJoin, DataOK, SvcTypeOK, Phases
  <2>5. ASSUME NEW q \in Records, ReturnError(q) \/ Apply(q) \/ Ack(q)
        PROVE  before'[r] = {} /\ pc'[r] = "wal" /\ status'[r] = "idle"
    <3>1. q # r /\ UNCHANGED <<before, status>>
      BY <1>5, <2>1, <2>5 DEF ReturnError, Apply, Ack, svcVars
    <3> QED
      BY <1>1, <1>5, <2>1, <2>5, <3>1 DEF ReturnError, Apply, Ack, DataOK
  <2>6. CASE UNCHANGED <<before, pc, status>>
    BY <1>5, <2>1, <2>6
  <2> QED
    BY <1>1, <2>2, <2>3, <2>4, <2>5, <2>6, StrongSteps DEF vars, engVars, svcVars, MemtableFlush,
       SyncStep, SyncFlush, SyncCheckpoint, SyncReadSeq, SyncManifest, SyncReturn, SyncGC,
       SyncDelete, syncOthers, Collect
<1>6. ASSUME NEW r \in Records, Write(r)
      PROVE  /\ before'[r] \subseteq {q \in Returned' : KeyOf[q] = KeyOf[r]}
             /\ status'[r] # "idle" /\ seqOf'[r] > 0
  <2>1. status'[r] = "waiting" /\ seqOf'[r] > 0
    BY <1>1, <1>6 DEF Write, AcceptFresh, AcceptJoin, DataOK, SvcTypeOK, Phases, Batches
  <2>2. before'[r] = {q \in Returned : KeyOf[q] = KeyOf[r]} /\ pc' = pc
    BY <1>1, <1>6 DEF Write, DataOK
  <2> QED
    BY <2>1, <2>2 DEF Returned
<1> SUFFICES ASSUME NEW r \in Records
             PROVE  /\ before'[r] \subseteq {q \in Returned' : KeyOf[q] = KeyOf[r]}
                    /\ status'[r] = "idle" => before'[r] = {} /\ pc'[r] = "wal"
                    /\ status'[r] # "idle" => seqOf'[r] > 0
  BY DEF History
<1>7. CASE status[r] # "idle"
  BY <1>4, <1>7
<1>8. CASE Write(r)
  BY <1>6, <1>8
<1>9. CASE status[r] = "idle" /\ ~Write(r)
  BY <1>5, <1>9
<1> QED
  BY <1>7, <1>8, <1>9

\* Objects and batches with the records of old ones are ordered like these.
LEMMA OrderKept ==
  ASSUME UNCHANGED <<before, seqOf>>,
         \A x \in wal' \cup batches' : \E y \in wal \cup batches : x.recs = y.recs,
         LogOrder
  PROVE  LogOrder'
<1>1. ASSUME NEW x \in wal' \cup batches'
      PROVE  /\ \A q \in Range(x.recs), r \in Records : q \in before'[r] => seqOf'[q] <= seqOf'[r]
             /\ \A i, j \in DOMAIN x.recs : x.recs[i] \in before'[x.recs[j]] => i < j
  <2>1. PICK y \in wal \cup batches : x.recs = y.recs
    OBVIOUS
  <2> QED
    BY <2>1 DEF LogOrder, Ordered
<1> QED
  BY <1>1 DEF LogOrder, Ordered

LEMMA OrderStep ==
  ASSUME Reliable, CoreInv, [Next]_vars
  PROVE  LogOrder'
<1>1. DataOK /\ History /\ SvcInv /\ Quiet /\ LogOrder /\ SvcTypeOK
  BY DEF CoreInv, SweepInv, BaseInv, SvcInv
<1>2. ASSUME NEW r \in Records, Write(r) PROVE LogOrder'
  <2>1. status[r] = "idle" /\ pc[r] = "wal"
    BY <1>2 DEF Write, AcceptFresh, AcceptJoin
  <2>2. r \notin Returned
    BY <2>1 DEF Returned
  <2>3. /\ before'[r] = {q \in Returned : KeyOf[q] = KeyOf[r]}
        /\ \A q \in Records \ {r} : before'[q] = before[q]
    BY <1>1, <1>2 DEF Write, DataOK
  <2>4. \A q \in Records : r \notin before'[q]
    BY <1>1, <2>2, <2>3 DEF History
  <2>5. \A x \in wal \cup batches :
          x.recs \in Seq(Records) /\ Range(x.recs) \subseteq Records \ {r}
    BY <1>1, <2>1, RangeRecords DEF SvcInv, SvcTypeOK, ObjectWriters, BatchWriters, Objects,
                                    Batches
  <2>6. /\ \A q \in Records \ {r} : seqOf'[q] = seqOf[q]
        /\ \A x \in wal \cup batches : \A q \in Range(x.recs) : seqOf[q] <= seqOf'[r]
    <3>1. \A x \in wal \cup batches : \A q \in Range(x.recs) : seqOf[q] = x.seq /\ x.seq \in Nat
      BY <1>1 DEF SvcInv, SvcTypeOK, ObjectWriters, BatchWriters, Objects, Batches
    <3>2. \A x \in wal \cup batches : x.seq < nextSeq /\ nextSeq \in Nat
      BY <1>1 DEF SvcInv, SvcTypeOK, NumbersFresh
    <3>3. CASE AcceptFresh(r)
      BY <1>1, <3>1, <3>2, <3>3 DEF AcceptFresh, SvcTypeOK
    <3>4. ASSUME NEW b \in batches, AcceptJoin(r, b)
          PROVE  /\ \A q \in Records \ {r} : seqOf'[q] = seqOf[q]
                 /\ \A x \in wal \cup batches : \A q \in Range(x.recs) : seqOf[q] <= seqOf'[r]
      <4>1. seqOf'[r] = b.seq /\ b.seq + 1 = nextSeq /\ b.seq \in Nat
        BY <1>1, <3>4 DEF AcceptJoin, SvcTypeOK, Batches
      <4> QED
        BY <1>1, <3>1, <3>2, <3>4, <4>1 DEF AcceptJoin, SvcTypeOK
    <3> QED
      BY <1>2, <3>3, <3>4 DEF Write
  <2>7. ASSUME NEW s \in Seq(Records),
               \/ s = <<r>>
               \/ \E x \in wal \cup batches : s = x.recs \/ s = Append(x.recs, r)
        PROVE  \A q \in Range(s), p \in Records : q \in before'[p] => seqOf'[q] <= seqOf'[p]
    <3> SUFFICES ASSUME NEW q \in Range(s), NEW p \in Records, q \in before'[p]
                 PROVE  seqOf'[q] <= seqOf'[p]
      OBVIOUS
    <3>1. q # r
      BY <2>4
    <3>2. PICK x \in wal \cup batches : q \in Range(x.recs)
      <4>1. s # <<r>>
        BY <3>1, RangeSingleton
      <4>2. PICK x \in wal \cup batches : s = x.recs \/ s = Append(x.recs, r)
        BY <2>7, <4>1
      <4>3. Range(Append(x.recs, r)) = Range(x.recs) \cup {r}
        BY <2>5, RangeAppend
      <4> QED
        BY <3>1, <4>2, <4>3
    <3>3. CASE p = r
      BY <2>5, <2>6, <3>2, <3>3
    <3>4. CASE p # r
      <4>1. q \in before[p] /\ q \in Records
        BY <2>3, <2>5, <3>2, <3>4
      <4>2. seqOf[q] <= seqOf[p]
        BY <1>1, <3>2, <4>1 DEF LogOrder, Ordered
      <4> QED
        BY <2>6, <3>1, <3>4, <4>1, <4>2
    <3> QED
      BY <3>3, <3>4
  <2>8. ASSUME NEW x \in wal \cup batches, NEW i \in DOMAIN x.recs, NEW j \in DOMAIN x.recs,
               x.recs[i] \in before'[x.recs[j]]
        PROVE  i < j
    <3>1. x.recs[j] \in Records \ {r}
      BY <2>5 DEF Range
    <3> QED
      BY <1>1, <2>3, <2>8, <3>1 DEF LogOrder, Ordered
  <2>9. ASSUME NEW x \in batches, NEW i \in DOMAIN Append(x.recs, r), NEW j \in DOMAIN Append(x.recs, r),
               Append(x.recs, r)[i] \in before'[Append(x.recs, r)[j]]
        PROVE  i < j
    <3> DEFINE n == Len(x.recs)
               s == Append(x.recs, r)
    <3>1. x.recs \in Seq(Records)
      BY <2>5
    <3>2. /\ n \in Nat /\ DOMAIN x.recs = 1 .. n /\ DOMAIN s = 1 .. n + 1 /\ s[n + 1] = r
          /\ \A l \in 1 .. n : s[l] = x.recs[l]
          /\ \A l \in 1 .. n + 1 : s[l] \in Records
      BY <3>1
    <3> HIDE DEF s, n
    <3>3. i # n + 1
      BY <2>4, <2>9, <3>2 DEF s
    <3>4. CASE j = n + 1
      BY <3>2, <3>3, <3>4 DEF s
    <3>5. CASE j # n + 1
      BY <2>8, <2>9, <3>2, <3>3, <3>5 DEF s
    <3> QED
      BY <3>4, <3>5
  <2>10. Ordered(wal)'
    <3>1. wal' = wal
      BY <1>2 DEF Write, AcceptFresh, AcceptJoin
    <3> QED
      BY <2>5, <2>7, <2>8, <3>1 DEF Ordered
  <2>11. CASE AcceptFresh(r)
    <3>1. batches' = batches \cup {[seq |-> nextSeq, recs |-> <<r>>, res |-> "open"]}
      BY <2>11 DEF AcceptFresh
    <3>2. \A x \in batches' : x \in batches \/ x.recs = <<r>>
      BY <3>1
    <3>3. \A i \in DOMAIN <<r>> : <<r>>[i] = r
      OBVIOUS
    <3>4. ASSUME NEW x \in batches'
          PROVE  /\ \A q \in Range(x.recs), p \in Records : q \in before'[p] => seqOf'[q] <= seqOf'[p]
                 /\ \A i, j \in DOMAIN x.recs : x.recs[i] \in before'[x.recs[j]] => i < j
      <4>1. CASE x \in batches
        BY <2>5, <2>7, <2>8, <4>1
      <4>2. CASE x.recs = <<r>>
        <5>1. x.recs \in Seq(Records)
          BY <4>2, RangeSingleton
        <5>2. \A q \in Range(x.recs), p \in Records : q \in before'[p] => seqOf'[q] <= seqOf'[p]
          BY <2>7, <4>2, <5>1
        <5>3. \A i, j \in DOMAIN x.recs : x.recs[i] = r /\ x.recs[j] = r
          BY <3>3, <4>2
        <5> QED
          BY <2>4, <5>2, <5>3
      <4> QED
        BY <3>2, <4>1, <4>2
    <3> QED
      BY <2>10, <3>4 DEF LogOrder, Ordered
  <2>12. ASSUME NEW b \in batches, AcceptJoin(r, b) PROVE LogOrder'
    <3>1. \A x \in batches' : x \in batches \/ x.recs = Append(b.recs, r)
      BY <1>1, <2>12 DEF AcceptJoin, SvcTypeOK, Batches
    <3>2. ASSUME NEW x \in batches'
          PROVE  /\ \A q \in Range(x.recs), p \in Records : q \in before'[p] => seqOf'[q] <= seqOf'[p]
                 /\ \A i, j \in DOMAIN x.recs : x.recs[i] \in before'[x.recs[j]] => i < j
      <4>1. CASE x \in batches
        BY <2>5, <2>7, <2>8, <4>1
      <4>2. CASE x.recs = Append(b.recs, r)
        <5>1. x.recs \in Seq(Records)
          BY <2>5, <4>2, RangeAppend
        <5>2. \A q \in Range(x.recs), p \in Records : q \in before'[p] => seqOf'[q] <= seqOf'[p]
          BY <2>7, <4>2, <5>1
        <5>3. \A i, j \in DOMAIN x.recs : x.recs[i] \in before'[x.recs[j]] => i < j
          BY <2>9, <4>2
        <5> QED
          BY <5>2, <5>3
      <4> QED
        BY <3>1, <4>1, <4>2
    <3> QED
      BY <2>10, <3>2 DEF LogOrder, Ordered
  <2> QED
    BY <1>2, <2>11, <2>12 DEF Write
<1>3. CASE WalStep
  <2>1. UNCHANGED <<before, seqOf>>
    BY <1>3 DEF WalStep, Answer, StoreAnswers, engVars
  <2>2. \A x \in wal' \cup batches' : \E y \in wal \cup batches : x.recs = y.recs
    <3>1. ASSUME NEW b \in batches, Answer(b)
          PROVE  \A x \in wal' \cup batches' : \E y \in wal \cup batches : x.recs = y.recs
      BY <3>1 DEF Answer
    <3>2. ASSUME NEW b \in batches, NEW res, StoreAnswers(b, res)
          PROVE  \A x \in wal' \cup batches' : \E y \in wal \cup batches : x.recs = y.recs
      <4>1. \A x \in batches' : x \in batches \/ x.recs = b.recs
        BY <1>1, <3>2 DEF StoreAnswers, SvcTypeOK, Batches
      <4>2. \A x \in wal' : x \in wal \/ x.recs = b.recs
        BY <3>2 DEF StoreAnswers, Stored, ObjectOf
      <4> QED
        BY <4>1, <4>2
    <3> QED
      BY <1>3, <3>1, <3>2 DEF WalStep
  <2> QED
    BY <1>1, <2>1, <2>2, OrderKept
<1>4. CASE Crash
  <2>1. UNCHANGED <<before, seqOf>> /\ batches' = {}
    BY <1>4 DEF Crash, Restart
  <2>2. \A x \in wal' : \E y \in wal \cup batches : x.recs = y.recs
    BY <1>4 DEF Crash, Restart, Stored, ObjectOf
  <2> QED
    BY <1>1, <2>1, <2>2, OrderKept
<1>5. CASE UNCHANGED <<before, seqOf, batches>> /\ wal' \subseteq wal
  BY <1>1, <1>5, OrderKept
<1> QED
  BY <1>1, <1>2, <1>3, <1>4, <1>5, StrongSteps DEF vars, engVars, svcVars, ReturnError, Apply, Ack,
     MemtableFlush, SyncStep, SyncFlush, SyncCheckpoint, SyncReadSeq, SyncManifest, SyncReturn,
     SyncGC, SyncDelete, syncOthers, Collect

LEMMA CoveringStep ==
  ASSUME Reliable, CoreInv, [Next]_vars
  PROVE  Covering' /\ maxWALSeq' \in Nat
<1>1. /\ Quiet /\ Covering /\ SyncShape /\ SvcInv /\ SyncNumbers
      /\ maxWALSeq \in Nat /\ manifest.maxSeq \in Nat /\ sync.seq \in Nat
  BY DEF CoreInv, SweepInv, BaseInv, SyncNumbers
<1>2. maxWALSeq' \in Nat
  BY NumbersStep DEF CoreInv, SweepInv, SyncNumbers
<1>3. ASSUME NEW r \in Records, Ack(r) PROVE Covering'
  BY <1>1, <1>3 DEF Ack, MaxOf, rest, Covering, SvcInv, SvcTypeOK
<1>4. CASE SyncFlush \/ SyncCheckpoint \/ SyncReadSeq \/ SyncReturn
  BY <1>1, <1>4, SyncFields DEF SyncFlush, SyncCheckpoint, SyncReadSeq, SyncReturn, syncOthers, rest,
                                Covering
<1>5. CASE SyncManifest
  <2>1. covered' = MaxOf(covered, sync.seq) /\ manifest'.maxSeq = sync.seq /\ sync.pc = "upload"
        /\ maxWALSeq' = maxWALSeq
    BY <1>5 DEF SyncManifest, syncOthers
  <2> QED
    BY <1>1, <1>5, <2>1, SyncFields DEF MaxOf, Covering
<1>6. ASSUME NEW old, SyncGC(old) PROVE Covering'
  BY <1>1, <1>6, SyncFields DEF SyncGC, syncOthers, rest, Covering
<1>7. ASSUME NEW o, SyncDelete(o) PROVE Covering'
  BY <1>1, <1>7, SyncFields DEF SyncDelete, syncOthers, rest, Covering
<1>8. CASE Crash
  BY <1>1, <1>2, <1>8, SyncFields, CrashRecovers DEF Covering
<1>9. CASE UNCHANGED <<covered, manifest, maxWALSeq, sync>>
  BY <1>1, <1>9 DEF Covering
<1> QED
  BY <1>1, <1>2, <1>3, <1>4, <1>5, <1>6, <1>7, <1>8, <1>9, StrongSteps DEF vars, engVars, rest,
     Write, ReturnError, Apply, WalStep, MemtableFlush, SyncStep

LEMMA ContainedStep ==
  ASSUME Reliable, CoreInv, [Next]_vars
  PROVE  Contained'
<1>1. Quiet /\ Contained /\ SyncShape /\ SvcInv /\ SyncNumbers /\ Empty.has = {}
  BY EmptyType DEF CoreInv, SweepInv, BaseInv
<1>2. ASSUME NEW r \in Records, Apply(r) PROVE Contained'
  BY <1>1, <1>2 DEF Apply, Applied, rest, Contained
<1>3. CASE MemtableFlush
  BY <1>1, <1>3 DEF MemtableFlush, rest, Contained
<1>4. CASE SyncFlush \/ SyncCheckpoint \/ SyncReadSeq \/ SyncReturn
  BY <1>1, <1>4, SyncFields DEF SyncFlush, SyncCheckpoint, SyncReadSeq, SyncReturn, syncOthers, rest,
                                Contained
<1>5. CASE SyncManifest
  BY <1>1, <1>5, SyncFields DEF SyncManifest, syncOthers, Contained
<1>6. ASSUME NEW old, SyncGC(old) PROVE Contained'
  BY <1>1, <1>6, SyncFields DEF SyncGC, syncOthers, rest, Contained
<1>7. ASSUME NEW o, SyncDelete(o) PROVE Contained'
  BY <1>1, <1>7, SyncFields DEF SyncDelete, syncOthers, rest, Contained
<1>8. CASE Crash
  <2>1. PICK v \in {manifest.view, sst} :
          sst' = v /\ mem' = Replayed(v, Above(wal', manifest.maxSeq))
    BY <1>1, <1>8, CrashRecovers
  <2>2. v.has \subseteq mem'.has
    BY <2>1 DEF Replayed
  <2> QED
    BY <1>1, <1>8, <2>1, <2>2, SyncFields, CrashRecovers DEF Contained
<1>9. CASE UNCHANGED <<mem, sst, manifest, sync>>
  BY <1>1, <1>9 DEF Contained
<1> QED
  BY <1>1, <1>2, <1>3, <1>4, <1>5, <1>6, <1>7, <1>8, <1>9, StrongSteps DEF vars, engVars, rest,
     Write, ReturnError, Ack, WalStep, SyncStep

LEMMA CoveredStep ==
  ASSUME Reliable, CoreInv, [Next]_vars
  PROVE  CoveredShown'
<1>1. /\ Quiet /\ SyncShape /\ SvcInv /\ SyncNumbers /\ DataOK /\ CoveredShown
  BY DEF CoreInv, SweepInv, BaseInv
<1>2. ASSUME NEW r \in Records, Write(r) PROVE CoveredShown'
  <2>1. \A q \in Records \ {r} : seqOf'[q] = seqOf[q]
    BY <1>1, <1>2 DEF Write, AcceptFresh, AcceptJoin, SvcInv, SvcTypeOK
  <2>2. UNCHANGED <<manifest, missed>> /\ reused \subseteq reused'
        /\ (seqOf'[r] <= manifest.maxSeq => r \in reused')
    BY <1>2 DEF Write, rest
  <2> QED
    BY <1>1, <2>1, <2>2 DEF CoveredShown
<1>3. CASE SyncManifest
  <2>1. /\ manifest'.maxSeq = sync.seq /\ manifest'.view = sync.view /\ seqOf' = seqOf
        /\ missed' = missed \cup ({r \in Records : seqOf[r] \in 1 .. sync.seq} \ sync.view.has)
    BY <1>3 DEF SyncManifest, svcVars
  <2> QED
    BY <2>1 DEF CoveredShown
<1>4. CASE UNCHANGED <<seqOf, manifest, missed, reused>>
  BY <1>1, <1>4 DEF CoveredShown
<1>5. CASE Crash
  BY <1>1, <1>4, <1>5, CrashRecovers
<1>6. CASE WalStep
  BY <1>4, <1>6 DEF WalStep, engVars, Answer, StoreAnswers
<1> QED
  BY <1>1, <1>2, <1>3, <1>4, <1>5, <1>6, StrongSteps DEF vars, engVars, svcVars, rest, ReturnError,
     Apply, Ack, MemtableFlush, SyncStep, SyncFlush, SyncCheckpoint, SyncReadSeq, SyncReturn,
     SyncGC, SyncDelete, syncOthers, Collect

LEMMA AcceptedStep ==
  ASSUME Reliable, CoreInv, [Next]_vars
  PROVE  ShownAccepted'
<1>1. Quiet /\ Contained /\ SvcInv /\ BaseInv /\ SyncNumbers /\ ShownAccepted
  BY DEF CoreInv, SweepInv, BaseInv
<1>2. ASSUME NEW r \in mem.has PROVE status'[r] # "idle"
  BY <1>1, ShownNumbers, IdleStays
<1>3. ASSUME NEW r \in Records, Apply(r) PROVE ShownAccepted'
  BY <1>2, <1>3 DEF Apply, Applied, svcVars, ShownAccepted
<1>4. CASE Crash
  <2>1. PICK v \in {manifest.view, sst} :
          sst' = v /\ mem' = Replayed(v, Above(wal', manifest.maxSeq))
    BY <1>1, <1>4, CrashRecovers
  <2>2. mem'.has = v.has \cup UNION {Range(o.recs) : o \in Above(wal', manifest.maxSeq)}
    BY <2>1 DEF Replayed
  <2>3. \A o \in wal' : \A r \in Range(o.recs) : status'[r] # "idle"
    BY <1>1, EngineStepsLog, SvcStep DEF SvcInv, ObjectWriters
  <2> QED
    BY <1>1, <1>2, <2>2, <2>3 DEF Contained, Above, ShownAccepted
<1>5. CASE mem' = mem
  BY <1>2, <1>5 DEF ShownAccepted
<1> QED
  BY <1>1, <1>3, <1>4, <1>5, StrongSteps DEF vars, engVars, Write, ReturnError, Ack, WalStep,
     MemtableFlush, SyncStep, SyncFlush, SyncCheckpoint, SyncReadSeq, SyncManifest, SyncReturn,
     SyncGC, SyncDelete, syncOthers

LEMMA CoreStep ==
  ASSUME Reliable, CoreInv, FailedStays, pc' \in [Records -> Phases], [Next]_vars
  PROVE  CoreInv'
<1>1. SweepInv'
  BY CollectStep DEF Reliable, OutagesHandled, CoreInv
<1>2. DataOK'
  BY DataStep DEF CoreInv, SweepInv
<1>3. Quiet'
  BY StrongSteps DEF CoreInv
<1> QED
  BY <1>1, <1>2, <1>3, HistoryStep, OrderStep, CoveringStep, ContainedStep, CoveredStep,
     AcceptedStep DEF CoreInv

LEMMA FreshStep ==
  ASSUME Reliable, RecoverInv, [Next]_vars
  PROVE  ViewsFresh'
<1>1. /\ Quiet /\ Contained /\ SyncShape /\ SvcInv /\ SyncNumbers /\ History /\ TypeOK
      /\ ViewsFresh
  BY RecoverTypes DEF RecoverInv, CoreInv, SweepInv, BaseInv
<1>2. ASSUME NEW r \in mem.has PROVE r \in Records /\ before'[r] = before[r]
  BY ShownNumbers, AcceptedStable DEF RecoverInv
<1>3. FreshView(Empty)'
  BY EmptyType DEF FreshView
<1>4. ASSUME NEW r \in Records, Apply(r) PROVE ViewsFresh'
  <2>1. /\ mem'.has = mem.has \cup {r}
        /\ mem'.val[KeyOf[r]] = r
        /\ \A k \in Keys \ {KeyOf[r]} : mem'.val[k] = mem.val[k]
    BY <1>1, <1>4, EngineAssumption DEF Apply, Applied, TypeOK, Views
  <2>2. UNCHANGED <<before, sst, sync, manifest>>
    BY <1>4 DEF Apply, rest
  <2>3. \A q \in Records : r \notin before[q]
    BY <1>1, <1>4 DEF Apply, History, Returned
  <2>4. \A q \in mem'.has : mem'.val[KeyOf[q]] # None /\ mem'.val[KeyOf[q]] \notin before[q]
    BY <1>1, <1>2, <2>1, <2>3, EngineAssumption DEF ViewsFresh, FreshView, Fresh
  <2> QED
    BY <1>1, <2>2, <2>4 DEF ViewsFresh, FreshView, Fresh
<1>5. /\ \A r \in mem.has : mem.val[KeyOf[r]] # None /\ mem.val[KeyOf[r]] \notin before'[r]
      /\ \A r \in sst.has : sst.val[KeyOf[r]] # None /\ sst.val[KeyOf[r]] \notin before'[r]
      /\ \A r \in sync.view.has :
           sync.view.val[KeyOf[r]] # None /\ sync.view.val[KeyOf[r]] \notin before'[r]
      /\ \A r \in manifest.view.has :
           manifest.view.val[KeyOf[r]] # None /\ manifest.view.val[KeyOf[r]] \notin before'[r]
  BY <1>1, <1>2 DEF ViewsFresh, FreshView, Fresh, Contained
<1>6. CASE MemtableFlush
  BY <1>5, <1>6 DEF MemtableFlush, rest, ViewsFresh, FreshView, Fresh
<1>7. CASE SyncFlush \/ SyncCheckpoint \/ SyncReadSeq \/ SyncReturn
  <2>1. /\ sync'.view \in {Empty, sst, sync.view} /\ sst' \in {sst, mem}
        /\ UNCHANGED <<mem, manifest, before>>
    BY <1>1, <1>7, SyncFields DEF SyncFlush, SyncCheckpoint, SyncReadSeq, SyncReturn, syncOthers, rest
  <2> QED
    BY <1>5, <2>1, EmptyType DEF ViewsFresh, FreshView, Fresh
<1>8. CASE SyncManifest
  <2>1. sync'.view = sync.view /\ manifest'.view = sync.view /\ UNCHANGED <<mem, sst, before>>
    BY <1>1, <1>8, SyncFields DEF SyncManifest, syncOthers
  <2> QED
    BY <1>5, <2>1 DEF ViewsFresh, FreshView, Fresh
<1>9. ASSUME NEW old, SyncGC(old) PROVE ViewsFresh'
  <2>1. sync'.view = Empty /\ UNCHANGED <<mem, sst, manifest, before>>
    BY <1>1, <1>9, SyncFields DEF SyncGC, syncOthers, rest
  <2> QED
    BY <1>5, <2>1, EmptyType DEF ViewsFresh, FreshView, Fresh
<1>10. ASSUME NEW o, SyncDelete(o) PROVE ViewsFresh'
  <2>1. sync'.view = sync.view /\ UNCHANGED <<mem, sst, manifest, before>>
    BY <1>1, <1>10, SyncFields DEF SyncDelete, syncOthers, rest
  <2> QED
    BY <1>5, <2>1 DEF ViewsFresh, FreshView, Fresh
<1>11. CASE Crash
  <2>1. PICK v \in {manifest.view, sst} :
          sst' = v /\ mem' = Replayed(v, Above(wal', manifest.maxSeq))
    BY <1>1, <1>11, CrashRecovers
  <2>2. v \in Views /\ FreshView(v) /\ v.has \subseteq mem.has
    BY <1>1 DEF TypeOK, ViewsFresh, Contained
  <2>3. /\ wal \subseteq wal' /\ UNCHANGED <<before, seqOf, manifest, covered>>
        /\ \A o \in wal' : o.seq <= maxWALSeq'
    BY <1>1, <1>11, CrashRecovers
  <2>4. SvcInv' /\ LogOrder' /\ maxWALSeq' \in Nat
    BY EngineStepsLog, SvcStep, OrderStep, CoveringStep DEF RecoverInv, CoreInv, SweepInv, BaseInv
  <2>5. Ordered(wal')
    BY <2>3, <2>4 DEF LogOrder, Ordered
  <2>6. /\ wal' \in SUBSET Objects /\ seqOf \in [Records -> Nat]
        /\ \A o, p \in wal' : o.seq = p.seq => o = p
        /\ \A o \in wal' : \A r \in Range(o.recs) : seqOf[r] = o.seq
    BY <2>3, <2>4 DEF SvcInv, SvcTypeOK, NumbersFresh, ObjectWriters
  <2>7. \A r \in v.has : seqOf[r] <= manifest.maxSeq \/ \E o \in wal' : r \in Range(o.recs)
    BY <2>2, <2>3 DEF RecoverInv, CoreInv, ShownKept, Covering, Holds
  <2>8. FreshView(Replayed(v, Above(wal', manifest.maxSeq)))
    BY <1>1, <2>2, <2>3, <2>4, <2>5, <2>6, <2>7, ReplayedFresh DEF SyncNumbers
  <2>9. FreshView(mem)' /\ FreshView(sst)'
    BY <2>1, <2>2, <2>3, <2>8 DEF FreshView, Fresh
  <2>10. sync'.view.has = {}
    BY <1>1, <1>11, SyncFields, EmptyType
  <2> QED
    BY <1>5, <2>3, <2>9, <2>10 DEF ViewsFresh, FreshView, Fresh
<1>12. CASE UNCHANGED <<mem, sst, manifest, sync>>
  BY <1>5, <1>12 DEF ViewsFresh, FreshView, Fresh
<1> QED
  BY <1>1, <1>4, <1>6, <1>7, <1>8, <1>9, <1>10, <1>11, <1>12, StrongSteps DEF vars, engVars, rest,
     Write, ReturnError, Ack, WalStep, SyncStep

\* In a step of the log nothing disappears.
LEMMA WalGrows ==
  ASSUME SvcInv, WalStep \/ \E r \in Records : Write(r)
  PROVE  wal \subseteq wal'
<1>1. CASE WalStep
  BY <1>1 DEF WalStep, Answer, StoreAnswers, Stored, SvcInv, BatchObjects
<1>2. ASSUME NEW r \in Records, Write(r) PROVE wal \subseteq wal'
  BY <1>2 DEF Write, AcceptFresh, AcceptJoin
<1> QED
  BY <1>1, <1>2

LEMMA KeptStep ==
  ASSUME Reliable, RecoverInv, [Next]_vars
  PROVE  ShownKept'
<1>1. /\ Quiet /\ Covering /\ SyncShape /\ SvcInv /\ SyncNumbers /\ TypeOK /\ ShownKept
      /\ ShownFailed /\ SweepSafe /\ GoneExplained /\ Contained
  BY RecoverTypes DEF RecoverInv, CoreInv, SweepInv, BaseInv
<1>2. ASSUME NEW r \in mem.has
      PROVE  /\ r \in Records /\ status[r] # "idle" /\ seqOf'[r] = seqOf[r]
             /\ seqOf[r] \in Nat
  BY <1>1, ShownNumbers, AcceptedStable DEF SvcInv, SvcTypeOK, RecoverInv
<1>3. covered <= covered' /\ covered \in Nat /\ covered' \in Nat
  BY <1>1, NumbersStep DEF RecoverInv, CoreInv, SweepInv, BaseInv, SyncNumbers
<1>4. \A r \in mem.has : pc'[r] # "wal"
  <2>1. CASE pc' = pc
    BY <1>1, <2>1 DEF ShownKept
  <2>2. ASSUME NEW r \in Records, ReturnError(r) \/ Apply(r) \/ Ack(r)
        PROVE  \A q \in mem.has : pc'[q] # "wal"
    BY <1>1, <1>2, <2>2 DEF ShownKept, ReturnError, Apply, Ack, TypeOK
  <2>3. CASE Crash
    BY <1>2, <2>3 DEF Crash
  <2> QED
    BY <1>1, <2>1, <2>2, <2>3, StrongSteps DEF vars, engVars, Write, WalStep, MemtableFlush,
       SyncStep, SyncFlush, SyncCheckpoint, SyncReadSeq, SyncManifest, SyncReturn, SyncGC,
       SyncDelete, syncOthers
<1>5. ASSUME wal \subseteq wal', NEW r \in mem.has
      PROVE  seqOf'[r] <= covered' \/ \E o \in wal' : Holds(o, r)'
  <2>1. CASE seqOf[r] <= covered
    BY <1>2, <1>3, <2>1
  <2>2. CASE \E o \in wal : Holds(o, r)
    BY <1>2, <1>5, <2>2 DEF Holds
  <2> QED
    BY <1>1, <2>1, <2>2 DEF ShownKept
<1>6. ASSUME NEW r \in Records, Apply(r) PROVE ShownKept'
  <2>1. mem'.has = mem.has \cup {r} /\ UNCHANGED <<wal, seqOf, covered>>
    BY <1>6 DEF Apply, Applied, svcVars, rest
  <2>2. seqOf[r] <= covered \/ \E o \in wal : Holds(o, r)
    BY <1>1, <1>6 DEF Apply, SvcInv, AckedDurable, GoneExplained
  <2>3. pc'[r] # "wal"
    BY <1>1, <1>6 DEF Apply, TypeOK
  <2> QED
    BY <1>4, <1>5, <2>1, <2>2, <2>3 DEF ShownKept, Holds
<1>7. ASSUME NEW o \in wal, SyncDelete(o) PROVE ShownKept'
  <2>1. wal' = wal \ {o} /\ UNCHANGED <<mem, covered, pc, seqOf>> /\ o.seq \in sync.todo
        /\ sync.pc = "gc"
    BY <1>7 DEF SyncDelete, Collect, syncOthers, rest
  <2>2. ASSUME NEW r \in mem.has, Holds(o, r) PROVE seqOf[r] <= covered
    <3>1. CASE o.seq <= covered
      BY <2>2, <3>1 DEF Holds
    <3>2. CASE Abandoned(o)
      <4>1. pc[r] = "failed"
        BY <2>2, <3>2 DEF Abandoned, Holds
      <4>2. seqOf[r] <= sync.seq /\ sync.seq <= covered
        BY <1>1, <2>1, <4>1 DEF ShownFailed, SyncNumbers
      <4> QED
        BY <1>1, <1>2, <1>3, <4>2 DEF SyncNumbers
    <3> QED
      BY <1>1, <2>1, <3>1, <3>2 DEF SweepSafe
  <2>3. \A r \in mem.has : seqOf[r] <= covered \/ \E p \in wal' : Holds(p, r)
    BY <1>1, <2>1, <2>2 DEF ShownKept
  <2> QED
    BY <1>4, <2>1, <2>3 DEF ShownKept, Holds
<1>8. CASE Crash
  <2>1. PICK v \in {manifest.view, sst} :
          sst' = v /\ mem' = Replayed(v, Above(wal', manifest.maxSeq))
    BY <1>1, <1>8, CrashRecovers
  <2>2. wal \subseteq wal'
    BY <1>1, <1>8, CrashRecovers
  <2>3. mem'.has = v.has \cup UNION {Range(o.recs) : o \in Above(wal', manifest.maxSeq)}
    BY <2>1 DEF Replayed
  <2>4. v.has \subseteq mem.has
    BY <1>1 DEF Contained
  <2>5. ASSUME NEW o \in wal', NEW r \in Range(o.recs) PROVE pc'[r] # "wal" /\ Holds(o, r)'
    <3>1. SvcInv'
      BY <1>1, EngineStepsLog, SvcStep
    <3>2. r \in Records /\ seqOf'[r] = o.seq /\ status'[r] # "idle"
      BY <3>1, RangeRecords DEF SvcInv, SvcTypeOK, ObjectWriters, Objects
    <3>3. status[r] # "idle"
      BY <1>8, <3>2 DEF Crash, Restart, Orphaned
    <3>4. pc'[r] # "wal"
      BY <1>8, <3>2, <3>3 DEF Crash
    <3> QED
      BY <3>2, <3>4 DEF Holds
  <2>6. ASSUME NEW r \in mem'.has
        PROVE  pc'[r] # "wal" /\ (seqOf'[r] <= covered' \/ \E o \in wal' : Holds(o, r)')
    <3>1. CASE r \in v.has
      BY <1>4, <1>5, <2>2, <2>4, <3>1
    <3>2. CASE \E o \in wal' : r \in Range(o.recs)
      BY <2>5, <3>2
    <3> QED
      BY <2>3, <3>1, <3>2 DEF Above
  <2> QED
    BY <2>6 DEF ShownKept
<1>9. CASE mem' = mem /\ wal \subseteq wal'
  BY <1>4, <1>5, <1>9 DEF ShownKept
<1>10. CASE WalStep \/ \E r \in Records : Write(r)
  <2>1. mem' = mem
    BY <1>10 DEF WalStep, engVars, Write
  <2> QED
    BY <1>1, <1>9, <1>10, <2>1, WalGrows
<1> QED
  BY <1>1, <1>6, <1>7, <1>8, <1>9, <1>10, StrongSteps DEF vars, engVars, svcVars, ReturnError, Ack,
     MemtableFlush, SyncStep, SyncFlush, SyncCheckpoint, SyncReadSeq, SyncManifest, SyncReturn,
     SyncGC, syncOthers

LEMMA FailedStep ==
  ASSUME Reliable, RecoverInv, [Next]_vars
  PROVE  ShownFailed'
<1>1. /\ Quiet /\ Covering /\ SyncShape /\ SvcInv /\ SyncNumbers /\ TypeOK /\ ShownKept
      /\ ShownFailed /\ Contained
  BY RecoverTypes DEF RecoverInv, CoreInv, SweepInv, BaseInv
<1>2. ASSUME NEW r \in mem.has
      PROVE  r \in Records /\ status[r] # "idle" /\ seqOf'[r] = seqOf[r] /\ seqOf[r] \in Nat
  BY <1>1, ShownNumbers, AcceptedStable DEF SvcInv, SvcTypeOK, RecoverInv
<1>3. ASSUME NEW r \in Records, ReturnError(r) PROVE ShownFailed'
  <2>1. r \notin mem.has
    BY <1>1, <1>3 DEF ReturnError, ShownKept
  <2>2. UNCHANGED <<mem, sync, maxWALSeq, seqOf>> /\ \A q \in mem.has : pc'[q] = pc[q]
    BY <1>1, <1>2, <1>3, <2>1 DEF ReturnError, svcVars, TypeOK
  <2> QED
    BY <1>1, <2>2 DEF ShownFailed
<1>4. ASSUME NEW r \in Records, Apply(r) PROVE ShownFailed'
  <2>1. mem'.has = mem.has \cup {r} /\ UNCHANGED <<sync, maxWALSeq, seqOf>>
    BY <1>4 DEF Apply, Applied, svcVars
  <2>2. pc'[r] = "applied" /\ \A q \in mem.has : pc'[q] = "failed" => pc[q] = "failed"
    BY <1>1, <1>2, <1>4 DEF Apply, TypeOK
  <2> QED
    BY <1>1, <2>1, <2>2 DEF ShownFailed
<1>5. ASSUME NEW r \in Records, Ack(r) PROVE ShownFailed'
  <2>1. UNCHANGED <<mem, sync, seqOf>> /\ \A q \in mem.has : pc'[q] = "failed" => pc[q] = "failed"
    BY <1>1, <1>2, <1>5 DEF Ack, svcVars, TypeOK
  <2>2. maxWALSeq \in Nat /\ maxWALSeq' \in Nat /\ maxWALSeq <= maxWALSeq'
    BY <1>1, <1>5 DEF Ack, MaxOf, SyncNumbers, SvcInv, SvcTypeOK
  <2> QED
    BY <1>1, <1>2, <2>1, <2>2 DEF ShownFailed
<1>6. ASSUME UNCHANGED <<mem, pc, maxWALSeq>>,
             sync'.pc \in {"upload", "manifest", "gc"} =>
               \/ sync.pc \in {"upload", "manifest", "gc"} /\ sync'.seq = sync.seq
               \/ sync'.seq = maxWALSeq
      PROVE  ShownFailed'
  BY <1>1, <1>2, <1>6 DEF ShownFailed
<1>7. CASE SyncFlush \/ SyncCheckpoint \/ SyncReadSeq \/ SyncReturn
  <2>1. UNCHANGED <<mem, pc, maxWALSeq>>
    BY <1>7 DEF SyncFlush, SyncCheckpoint, SyncReadSeq, SyncReturn, syncOthers
  <2> QED
    BY <1>1, <1>6, <1>7, <2>1, SyncFields
<1>8. CASE SyncManifest
  <2>1. UNCHANGED <<mem, pc, maxWALSeq>> /\ sync.pc = "upload"
    BY <1>8 DEF SyncManifest, syncOthers
  <2> QED
    BY <1>1, <1>6, <1>8, <2>1, SyncFields
<1>9. ASSUME NEW old, SyncGC(old) PROVE ShownFailed'
  <2>1. UNCHANGED <<mem, pc, maxWALSeq>> /\ sync.pc = "manifest"
    BY <1>9 DEF SyncGC, syncOthers
  <2> QED
    BY <1>1, <1>6, <1>9, <2>1, SyncFields
<1>10. ASSUME NEW o, SyncDelete(o) PROVE ShownFailed'
  <2>1. UNCHANGED <<mem, pc, maxWALSeq>> /\ sync.pc = "gc"
    BY <1>10 DEF SyncDelete, syncOthers
  <2> QED
    BY <1>1, <1>6, <1>10, <2>1, SyncFields
<1>11. CASE Crash
  <2>1. PICK v \in {manifest.view, sst} :
          sst' = v /\ mem' = Replayed(v, Above(wal', manifest.maxSeq))
    BY <1>1, <1>11, CrashRecovers
  <2>2. /\ wal \subseteq wal' /\ manifest.maxSeq <= maxWALSeq'
        /\ \A o \in wal' : o.seq <= maxWALSeq'
    BY <1>1, <1>11, CrashRecovers
  <2>3. mem'.has = v.has \cup UNION {Range(o.recs) : o \in Above(wal', manifest.maxSeq)}
    BY <2>1 DEF Replayed
  <2>4. v.has \subseteq mem.has
    BY <1>1 DEF Contained
  <2>5. sync'.pc = "idle" /\ maxWALSeq' \in Nat
    BY <1>1, <1>11, SyncFields, CoveringStep DEF RecoverInv
  <2>6. ASSUME NEW o \in wal', NEW r \in Range(o.recs) PROVE seqOf'[r] <= maxWALSeq'
    <3>1. SvcInv'
      BY <1>1, EngineStepsLog, SvcStep
    <3> QED
      BY <2>2, <3>1 DEF SvcInv, ObjectWriters
  <2>7. ASSUME NEW r \in v.has PROVE seqOf'[r] <= maxWALSeq'
    <3>1. r \in mem.has /\ seqOf'[r] = seqOf[r] /\ seqOf[r] \in Nat
      BY <1>2, <2>4
    <3>2. CASE seqOf[r] <= covered
      BY <1>1, <2>2, <2>5, <3>1, <3>2 DEF Covering, SyncNumbers
    <3>3. CASE \E o \in wal : Holds(o, r)
      BY <2>2, <3>1, <3>3 DEF Holds
    <3> QED
      BY <1>1, <3>1, <3>2, <3>3 DEF ShownKept
  <2>8. \A r \in mem'.has : seqOf'[r] <= maxWALSeq'
    BY <2>3, <2>6, <2>7 DEF Above
  <2> QED
    BY <2>5, <2>8 DEF ShownFailed
<1>12. CASE UNCHANGED <<mem, pc, maxWALSeq, sync>>
  BY <1>6, <1>12
<1> QED
  BY <1>1, <1>3, <1>4, <1>5, <1>7, <1>8, <1>9, <1>10, <1>11, <1>12, StrongSteps DEF vars, engVars,
     Write, WalStep, MemtableFlush, SyncStep

LEMMA AckedStep ==
  ASSUME Reliable, RecoverInv, [Next]_vars
  PROVE  AckedShown'
<1>1. /\ Quiet /\ SyncShape /\ SvcInv /\ SyncNumbers /\ TypeOK /\ AckedShown /\ CoveredShown
      /\ Contained /\ ShownKept /\ Covering
  BY RecoverTypes DEF RecoverInv, CoreInv, SweepInv, BaseInv
<1>2. ASSUME NEW r \in Records, ReturnError(r) \/ Apply(r) \/ Ack(r) PROVE AckedShown'
  <2>1. /\ mem.has \subseteq mem'.has /\ (Apply(r) => r \in mem'.has)
        /\ UNCHANGED <<missed, reused>>
    BY <1>2 DEF ReturnError, Apply, Ack, Applied, rest
  <2>2. \A q \in Records : pc'[q] \in {"applied", "acked"} =>
          pc[q] \in {"applied", "acked"} \/ (q = r /\ Apply(r))
    BY <1>1, <1>2 DEF ReturnError, Apply, Ack, TypeOK
  <2> QED
    BY <1>1, <2>1, <2>2 DEF AckedShown
<1>3. CASE Crash
  <2>1. PICK v \in {manifest.view, sst} :
          sst' = v /\ mem' = Replayed(v, Above(wal', manifest.maxSeq))
    BY <1>1, <1>3, CrashRecovers
  <2>2. wal \subseteq wal' /\ UNCHANGED <<missed, reused>>
    BY <1>1, <1>3, CrashRecovers
  <2>3. /\ mem'.has = v.has \cup UNION {Range(o.recs) : o \in Above(wal', manifest.maxSeq)}
        /\ manifest.view.has \subseteq v.has
    BY <1>1, <2>1 DEF Replayed, Contained
  <2>4. ASSUME NEW r \in Records, pc'[r] \in {"applied", "acked"}
        PROVE  r \in mem'.has \cup missed \cup reused
    <3>1. pc[r] \in {"applied", "acked"}
      <4>1. status[r] = "idle" => pc[r] = "wal"
        BY DEF RecoverInv, CoreInv, History
      <4> QED
        BY <1>1, <1>3, <2>4, <4>1, CrashRecovers
    <3>2. CASE r \in mem.has /\ seqOf[r] <= covered
      <4>1. seqOf[r] \in 1 .. manifest.maxSeq
        BY <1>1, <3>2, ShownNumbers DEF Covering, SvcInv, SvcTypeOK, SyncNumbers, RecoverInv
      <4> QED
        BY <1>1, <2>3, <4>1 DEF CoveredShown
    <3>3. CASE r \in mem.has /\ ~(seqOf[r] <= covered)
      <4>1. PICK o \in wal : Holds(o, r)
        BY <1>1, <3>3 DEF ShownKept
      <4>2. o \in Above(wal', manifest.maxSeq) /\ r \in Range(o.recs)
        BY <1>1, <2>2, <3>3, <4>1 DEF Above, Holds, Covering, SvcInv, SvcTypeOK, SyncNumbers
      <4> QED
        BY <2>3, <4>2
    <3> QED
      BY <1>1, <3>1, <3>2, <3>3 DEF AckedShown
  <2> QED
    BY <2>2, <2>4 DEF AckedShown
<1>4. CASE UNCHANGED <<pc, mem>> /\ missed \subseteq missed' /\ reused \subseteq reused'
  BY <1>1, <1>4 DEF AckedShown
<1>5. ASSUME NEW r \in Records, Write(r) PROVE AckedShown'
  <2>1. UNCHANGED <<pc, mem>> /\ missed \subseteq missed' /\ reused \subseteq reused'
    BY <1>5 DEF Write, rest
  <2> QED
    BY <1>4, <2>1
<1>6. CASE SyncManifest
  <2>1. UNCHANGED <<pc, mem>> /\ missed \subseteq missed' /\ reused \subseteq reused'
    BY <1>6 DEF SyncManifest, syncOthers
  <2> QED
    BY <1>4, <2>1
<1> QED
  BY <1>1, <1>2, <1>3, <1>4, <1>5, <1>6, StrongSteps DEF vars, engVars, rest, WalStep,
     MemtableFlush, SyncStep, SyncFlush, SyncCheckpoint, SyncReadSeq, SyncReturn, SyncGC,
     SyncDelete, syncOthers

-------------------------------------------------------------------------------
LEMMA RecoverStart == Init => RecoverInv
<1> SUFFICES ASSUME Init PROVE RecoverInv
  OBVIOUS
<1>1. SweepInv /\ EngInv /\ DataOK
  BY KeepStart, DataStart DEF KeepInv
<1>2. sync.view.has = {} /\ sync.seq = 0 /\ sync.pc = "idle" /\ Empty.has = {}
  BY DEF Init, SyncIdle, Empty
<1>3. manifest.view = Empty /\ manifest.maxSeq = 0
  BY DEF Init
<1> USE DEF Init, SvcInit
<1>4. Quiet /\ History
  BY DEF Quiet, History
<1>5. LogOrder /\ Covering
  BY <1>2, <1>3 DEF LogOrder, Ordered, Covering
<1>6. Contained /\ ViewsFresh
  BY <1>2, <1>3 DEF Contained, ViewsFresh, FreshView
<1>7. ShownKept /\ ShownFailed /\ CoveredShown /\ AckedShown /\ ShownAccepted
  BY <1>2, <1>3 DEF ShownKept, ShownFailed, CoveredShown, AckedShown, ShownAccepted
<1>8. pc \in [Records -> Phases]
  BY DEF Phases
<1> QED
  BY <1>1, <1>4, <1>5, <1>6, <1>7, <1>8 DEF RecoverInv, CoreInv

LEMMA RecoverStep ==
  ASSUME Reliable
  PROVE  RecoverInv /\ [Next]_vars => RecoverInv'
<1> SUFFICES ASSUME RecoverInv, [Next]_vars PROVE RecoverInv'
  OBVIOUS
<1>1. EngInv'
  BY EngStep DEF RecoverInv
<1>2. CoreInv'
  <2>1. FailedStays /\ pc' \in [Records -> Phases]
    BY CallsStep DEF RecoverInv, Phases
  <2> QED
    BY <2>1, CoreStep DEF RecoverInv
<1> QED
  BY <1>1, <1>2, FreshStep, KeptStep, FailedStep, AckedStep DEF RecoverInv

\* A node in strong mode that reads its manifest and has no cold recoveries keeps the
\* invariant of recovery, over any number of crashes, outages and Syncs.
THEOREM RecoveryInvariant ==
  ASSUME Reliable
  PROVE  Spec => []RecoverInv
<1>1. RecoverInv /\ [Next]_vars => RecoverInv'
  BY RecoverStep
<1> QED
  BY <1>1, RecoverStart, PTL DEF Spec

\* An acknowledged write is what a node with an empty disk recovers, or something not
\* older hides it, unless a manifest covered its number and its checkpoint lacks it or
\* its number was reused after the log was emptied.
THEOREM RecoveryLossExplained ==
  ASSUME Reliable
  PROVE  Spec => []LossExplained
<1>1. RecoverInv => LossExplained
  <2> SUFFICES ASSUME RecoverInv, NEW r \in Acked, r \notin missed \cup reused
               PROVE  Fresh(Recovered, r)
    BY DEF LossExplained
  <2>1. /\ SvcInv /\ SyncNumbers /\ TypeOK /\ AckedShown /\ CoveredShown /\ History
        /\ Contained /\ ShownKept /\ Covering /\ ViewsFresh /\ LogOrder
    BY RecoverTypes DEF RecoverInv, CoreInv, SweepInv, BaseInv
  <2>2. r \in mem.has /\ r \in Records
    BY <2>1 DEF AckedShown, Acked
  <2>3. r \in Recovered.has
    <3>1. Recovered.has = manifest.view.has
                            \cup UNION {Range(o.recs) : o \in Above(wal, manifest.maxSeq)}
      BY DEF Recovered, Replayed
    <3>2. CASE seqOf[r] <= covered
      <4>1. seqOf[r] \in 1 .. manifest.maxSeq
        BY <2>1, <2>2, <3>2, ShownNumbers DEF Covering, SvcInv, SvcTypeOK, SyncNumbers, RecoverInv
      <4> QED
        BY <2>1, <2>2, <3>1, <4>1 DEF CoveredShown
    <3>3. CASE ~(seqOf[r] <= covered)
      <4>1. PICK o \in wal : Holds(o, r)
        BY <2>1, <2>2, <3>3 DEF ShownKept
      <4>2. o \in Above(wal, manifest.maxSeq) /\ r \in Range(o.recs)
        BY <2>1, <2>2, <3>3, <4>1 DEF Above, Holds, Covering, SvcInv, SvcTypeOK, SyncNumbers
      <4> QED
        BY <3>1, <4>2
    <3> QED
      BY <3>2, <3>3
  <2>4. manifest.view \in Views /\ FreshView(manifest.view) /\ Ordered(wal)
    BY <2>1 DEF TypeOK, ViewsFresh, LogOrder
  <2>5. /\ wal \in SUBSET Objects /\ seqOf \in [Records -> Nat]
        /\ nextSeq \in Nat /\ \A o \in wal : o.seq <= nextSeq
        /\ \A o, p \in wal : o.seq = p.seq => o = p
        /\ \A o \in wal : \A q \in Range(o.recs) : seqOf[q] = o.seq
    BY <2>1 DEF SvcInv, SvcTypeOK, NumbersFresh, ObjectWriters, Objects
  <2>6. \A q \in manifest.view.has :
          seqOf[q] <= manifest.maxSeq \/ \E o \in wal : q \in Range(o.recs)
    BY <2>1 DEF ShownKept, Contained, Covering, Holds
  <2>7. FreshView(Recovered)
    BY <2>1, <2>4, <2>5, <2>6, ReplayedFresh DEF Recovered, SyncNumbers
  <2> QED
    BY <2>3, <2>7 DEF FreshView
<1> QED
  BY <1>1, RecoveryInvariant, PTL

\* The running node serves every acknowledged write that was not lost in one of those
\* two ways, after any number of recoveries.
THEOREM RecoveryServesAcked ==
  ASSUME Reliable
  PROVE  Spec => []ServesAcked
<1>1. RecoverInv => ServesAcked
  BY DEF RecoverInv, AckedShown, ViewsFresh, FreshView, ServesAcked, Acked
<1> QED
  BY <1>1, RecoveryInvariant, PTL

-------------------------------------------------------------------------------
(* The local files *)

\* A call that was not accepted has not begun.
IdleCalls == \A r \in Records : status[r] = "idle" => pc[r] = "wal"

\* A readable file has the name of its record, whose call got past writeFileSync.
FilesOK ==
  \A f \in local : f.rec # Partial =>
    /\ f.seq = seqOf[f.rec] /\ status[f.rec] # "idle"
    /\ pc[f.rec] \in {"local", "applied", "acked", "failed"}

\* The goroutine of an acknowledged write is still there, or kept the file after an error.
Owned ==
  \A f \in local :
    ~opening /\ Batching /\ f.rec \in Acked => f.rec \in cleaners \/ status[f.rec] = "failed"

FileInv == SvcInv /\ AsyncTypeOK /\ IdleCalls /\ FilesOK /\ Owned

\* Every step is one of the log, or leaves it alone.
LEMMA AsyncStepsLog == [AsyncNext]_allVars => [SvcNext]_svcVars
<1> SUFFICES ASSUME [AsyncNext]_allVars PROVE [SvcNext]_svcVars
  OBVIOUS
<1>1. CASE CrashLocal
  BY <1>1 DEF CrashLocal, Crash, SvcNext
<1>2. CASE EngineStep
  <2>1. [Next]_vars
    BY <1>2 DEF EngineStep, Next
  <2> QED
    BY <2>1, EngineStepsLog
<1>3. CASE \E r \in Records : OpenLocal(r) \/ FillLocal(r) \/ ApplyLocal(r) \/ AckLocal(r)
                              \/ FailLocal(r) \/ Clean(r)
  BY <1>3 DEF OpenLocal, FillLocal, ApplyLocal, AckLocal, Ack, FailLocal, Clean, callOthers, vars,
     svcVars
<1>4. CASE (\E f \in local : ReplayLocal(f)) \/ OpenDone \/ UNCHANGED allVars
  BY <1>4 DEF ReplayLocal, OpenDone, allVars, vars, svcVars
<1> QED
  BY <1>1, <1>2, <1>3, <1>4 DEF AsyncNext

\* The steps of the engine beside the local files leave the calls alone.
LEMMA EngineStepCalls ==
  ASSUME EngineStep
  PROVE  UNCHANGED <<pc, asyncVars>>
  BY DEF EngineStep, Write, WalStep, engVars, SyncStep, SyncFlush, SyncCheckpoint, SyncReadSeq,
     SyncManifest, SyncReturn, SyncGC, SyncDelete, syncOthers, MemtableFlush

\* What a step does to the calls: one that returned stays as it is, and one that was
\* not accepted does not move.
LEMMA CallsMove ==
  ASSUME FileInv, [AsyncNext]_allVars
  PROVE  /\ pc' \in [Records -> Phases]
         /\ \A r \in Records : pc[r] \in {"acked", "failed"} => pc'[r] = pc[r]
         /\ \A r \in Records : status[r] = "idle" => pc'[r] = pc[r]
         /\ \A r \in Records :
              pc[r] \in {"local", "applied", "acked", "failed"}
                => pc'[r] \in {"local", "applied", "acked", "failed"}
<1>1. pc \in [Records -> Phases] /\ IdleCalls
  BY DEF FileInv, AsyncTypeOK, Phases
<1>2. CASE CrashLocal
  BY <1>1, <1>2 DEF CrashLocal, Crash, Phases, IdleCalls
<1>3. CASE EngineStep
  BY <1>1, <1>3, EngineStepCalls
<1>4. ASSUME NEW r \in Records, OpenLocal(r) \/ FillLocal(r) \/ ApplyLocal(r) \/ AckLocal(r)
                                \/ FailLocal(r)
      PROVE  /\ status[r] # "idle"
             /\ \E p \in Phases \ {"wal"} :
                  pc' = [pc EXCEPT ![r] = p] /\ (p = "open" => pc[r] = "wal")
             /\ pc[r] \in {"wal", "open", "local", "applied"}
  BY <1>1, <1>4 DEF OpenLocal, FillLocal, ApplyLocal, AckLocal, Ack, FailLocal, Registered, Phases,
     IdleCalls
<1>5. CASE \E r \in Records : OpenLocal(r) \/ FillLocal(r) \/ ApplyLocal(r) \/ AckLocal(r)
                                \/ FailLocal(r)
  BY <1>1, <1>4, <1>5 DEF Phases
<1>6. CASE pc' = pc
  BY <1>1, <1>6
<1> QED
  BY <1>2, <1>3, <1>5, <1>6 DEF AsyncNext, Clean, ReplayLocal, OpenDone, allVars, vars, engVars

\* A call that was accepted stays accepted, under its number.
LEMMA AcceptedStays ==
  ASSUME SvcInv, [SvcNext]_svcVars, NEW r \in Records, status[r] # "idle"
  PROVE  status'[r] # "idle" /\ seqOf'[r] = seqOf[r]
  BY DEF SvcNext, svcVars, AcceptFresh, AcceptJoin, Refuse, StoreAnswers, Answer, Collect,
         Restart, SvcInv, SvcTypeOK, Answered, Orphaned

LEMMA AsyncTypeStep ==
  ASSUME FileInv, [AsyncNext]_allVars
  PROVE  AsyncTypeOK'
<1>1. AsyncTypeOK /\ seqOf \in [Records -> Nat]
  BY DEF FileInv, SvcInv, SvcTypeOK
<1>2. /\ pc' \in [Records -> {"wal", "open", "local", "applied", "acked", "failed"}]
      /\ \A r \in Records : pc[r] = "acked" => pc'[r] = "acked"
  BY CallsMove DEF Phases
<1>3. CASE CrashLocal
  BY <1>1, <1>2, <1>3 DEF CrashLocal, AsyncTypeOK, Acked
<1>4. CASE EngineStep
  BY <1>1, <1>2, <1>4, EngineStepCalls DEF AsyncTypeOK, Acked, asyncVars
<1>5. ASSUME NEW r \in Records, OpenLocal(r) PROVE AsyncTypeOK'
  BY <1>1, <1>2, <1>5 DEF OpenLocal, AsyncTypeOK, Acked, Others, Named
<1>6. ASSUME NEW r \in Records, FillLocal(r) PROVE AsyncTypeOK'
  <2>1. PICK content \in IF Others(r) = {} THEN {r} ELSE {r, Partial} :
          /\ local' = (local \ Named(seqOf[r])) \cup
                        {[seq |-> seqOf[r], rec |-> content] : f \in Named(seqOf[r])}
          /\ clobbered' = clobbered \cup Others(r) \cup {q \in {r} : content = Partial}
    BY <1>6 DEF FillLocal
  <2> QED
    BY <1>1, <1>2, <1>6, <2>1 DEF FillLocal, AsyncTypeOK, Acked, Others, Named
<1>7. ASSUME NEW r \in Records, ApplyLocal(r) \/ FailLocal(r) PROVE AsyncTypeOK'
  BY <1>1, <1>2, <1>7 DEF ApplyLocal, FailLocal, AsyncTypeOK, Acked, asyncVars
<1>8. ASSUME NEW r \in Records, AckLocal(r) PROVE AsyncTypeOK'
  <2>1. pc'[r] = "acked"
    BY <1>1, <1>8 DEF AckLocal, Ack, AsyncTypeOK
  <2> QED
    BY <1>1, <1>2, <1>8, <2>1 DEF AckLocal, AsyncTypeOK, Acked
<1>9. ASSUME NEW r \in Records, Clean(r) PROVE AsyncTypeOK'
  BY <1>1, <1>2, <1>9 DEF Clean, AsyncTypeOK, Acked, Named
<1>10. ASSUME NEW f \in local, ReplayLocal(f) PROVE AsyncTypeOK'
  BY <1>1, <1>2, <1>10 DEF ReplayLocal, AsyncTypeOK, Acked
<1>11. CASE OpenDone \/ UNCHANGED allVars
  BY <1>1, <1>2, <1>11 DEF OpenDone, AsyncTypeOK, Acked, allVars, asyncVars
<1> QED
  BY <1>3, <1>4, <1>5, <1>6, <1>7, <1>8, <1>9, <1>10, <1>11 DEF AsyncNext

\* Which files a step may add: a partial one, or that of a call whose file is open.
LEMMA FilesMove ==
  ASSUME FileInv, [AsyncNext]_allVars
  PROVE  \A f \in local' :
           \/ f \in local
           \/ f.rec = Partial
           \/ /\ f.rec \in Records /\ pc[f.rec] = "open" /\ FillLocal(f.rec)
              /\ f.seq = seqOf[f.rec] /\ pc'[f.rec] = "local" /\ UNCHANGED <<svcVars, opening>>
<1>1. CASE EngineStep
  BY <1>1, EngineStepCalls DEF asyncVars
<1>2. ASSUME NEW r \in Records, FillLocal(r)
      PROVE  \A f \in local' :
               \/ f \in local
               \/ f.rec = Partial
               \/ /\ f.rec \in Records /\ pc[f.rec] = "open" /\ FillLocal(f.rec)
                  /\ f.seq = seqOf[f.rec] /\ pc'[f.rec] = "local" /\ UNCHANGED <<svcVars, opening>>
  <2>1. \A f \in local' : f \in local \/ f = [seq |-> seqOf[r], rec |-> r]
                            \/ f = [seq |-> seqOf[r], rec |-> Partial]
    BY <1>2 DEF FillLocal
  <2>2. pc[r] = "open" /\ pc'[r] = "local" /\ UNCHANGED <<svcVars, opening>>
    BY <1>2 DEF FillLocal, callOthers, FileInv, AsyncTypeOK
  <2> QED
    BY <1>2, <2>1, <2>2
<1>3. ASSUME NEW r \in Records, OpenLocal(r)
      PROVE  \A f \in local' : f \in local \/ f.rec = Partial
  BY <1>3 DEF OpenLocal
<1> QED
  BY <1>1, <1>2, <1>3 DEF AsyncNext, CrashLocal, ApplyLocal, AckLocal, FailLocal, Clean, ReplayLocal,
     OpenDone, allVars, asyncVars

LEMMA FilesStep ==
  ASSUME FileInv, [AsyncNext]_allVars
  PROVE  FilesOK'
<1> SUFFICES ASSUME NEW f \in local', f.rec # Partial
             PROVE  /\ f.seq = seqOf'[f.rec] /\ status'[f.rec] # "idle"
                    /\ pc'[f.rec] \in {"local", "applied", "acked", "failed"}
  BY DEF FilesOK
<1>1. [SvcNext]_svcVars /\ SvcInv
  BY AsyncStepsLog DEF FileInv
<1>2. CASE f \in local
  <2>1. /\ f.rec \in Records /\ f.seq = seqOf[f.rec] /\ status[f.rec] # "idle"
        /\ pc[f.rec] \in {"local", "applied", "acked", "failed"}
    BY <1>2 DEF FileInv, FilesOK, AsyncTypeOK
  <2> QED
    BY <1>1, <2>1, AcceptedStays, CallsMove
<1>3. CASE /\ f.rec \in Records /\ pc[f.rec] = "open"
           /\ f.seq = seqOf[f.rec] /\ pc'[f.rec] = "local" /\ UNCHANGED svcVars
  BY <1>3 DEF FileInv, IdleCalls, svcVars
<1> QED
  BY <1>2, <1>3, FilesMove

LEMMA OwnedStep ==
  ASSUME FileInv, [AsyncNext]_allVars
  PROVE  Owned'
<1> SUFFICES ASSUME NEW f \in local', ~opening', Batching, f.rec \in Acked'
             PROVE  f.rec \in cleaners' \/ status'[f.rec] = "failed"
  BY DEF Owned
<1>1. [SvcNext]_svcVars /\ SvcInv
  BY AsyncStepsLog DEF FileInv
<1>2. f \in local /\ f.rec \in Records /\ pc'[f.rec] = "acked"
  BY FilesMove, AsyncAssumption DEF Acked
<1>3. f.seq = seqOf[f.rec] /\ f.rec # Partial
  BY <1>2, AsyncAssumption DEF FileInv, FilesOK
<1>4. ASSUME status[f.rec] = "failed" PROVE status'[f.rec] = "failed"
  BY <1>1, <1>2, <1>4 DEF SvcNext, svcVars, AcceptFresh, AcceptJoin, Refuse, StoreAnswers, Answer,
     Collect, Restart, SvcInv, SvcTypeOK, BatchWriters, Answered, Orphaned
<1>5. CASE ~opening /\ f.rec \in Acked /\ cleaners \subseteq cleaners'
  BY <1>2, <1>4, <1>5 DEF FileInv, Owned
<1>6. CASE CrashLocal
  BY <1>6 DEF CrashLocal
<1>7. CASE OpenDone
  BY <1>2, <1>7 DEF OpenDone
<1>8. ASSUME NEW r \in Records, AckLocal(r) PROVE f.rec \in cleaners' \/ status'[f.rec] = "failed"
  <2>1. CASE f.rec = r
    BY <1>8, <2>1 DEF AckLocal
  <2>2. CASE f.rec # r
    BY <1>2, <1>5, <1>8, <2>2 DEF AckLocal, Ack, Acked, FileInv, AsyncTypeOK
  <2> QED
    BY <2>1, <2>2
<1>9. ASSUME NEW r \in Records, Clean(r) PROVE f.rec \in cleaners' \/ status'[f.rec] = "failed"
  <2>1. ~opening /\ f.rec \in Acked /\ UNCHANGED <<status, pc, seqOf>> /\ cleaners' = cleaners \ {r}
        /\ status[r] \in {"ok", "failed"}
    BY <1>2, <1>9 DEF Clean, vars, svcVars, engVars, Acked
  <2>2. CASE f.rec = r
    <3>1. status[r] # "ok"
      BY <1>2, <1>3, <1>9, <2>2 DEF Clean, Named
    <3> QED
      BY <2>1, <2>2, <3>1
  <2>3. CASE f.rec # r
    BY <1>2, <2>1, <2>3 DEF FileInv, Owned
  <2> QED
    BY <2>2, <2>3
<1>10. ASSUME NEW r \in Records, OpenLocal(r) \/ FillLocal(r) \/ ApplyLocal(r) \/ FailLocal(r)
       PROVE  f.rec \in cleaners' \/ status'[f.rec] = "failed"
  BY <1>2, <1>5, <1>10 DEF OpenLocal, FillLocal, ApplyLocal, FailLocal, asyncVars, Acked, FileInv,
     AsyncTypeOK
<1>11. CASE EngineStep
  BY <1>2, <1>5, <1>11, EngineStepCalls DEF asyncVars, Acked
<1>12. CASE UNCHANGED allVars
  BY <1>2, <1>5, <1>12 DEF allVars, asyncVars, vars, engVars, Acked
<1>13. ASSUME NEW g \in local, ReplayLocal(g) PROVE FALSE
  BY <1>13 DEF ReplayLocal
<1> QED
  BY <1>6, <1>7, <1>8, <1>9, <1>10, <1>11, <1>12, <1>13 DEF AsyncNext

LEMMA FileStart == AsyncInit => FileInv
  BY SvcStart DEF AsyncInit, Init, FileInv, AsyncTypeOK, IdleCalls, FilesOK, Owned, SvcInit

LEMMA FileStep == FileInv /\ [AsyncNext]_allVars => FileInv'
<1> SUFFICES ASSUME FileInv, [AsyncNext]_allVars PROVE FileInv'
  OBVIOUS
<1>1. SvcInv'
  BY AsyncStepsLog, SvcStep DEF FileInv
<1>2. IdleCalls'
  BY AsyncStepsLog, AcceptedStays, CallsMove DEF FileInv, IdleCalls
<1> QED
  BY <1>1, <1>2, AsyncTypeStep, FilesStep, OwnedStep DEF FileInv

\* The local files stay in order in every run of an engine with AsyncWAL, with manifest
\* faults and outages of any length: a number has one file, named after its record.
THEOREM AsyncFileInvariant == AsyncSpec => []FileInv
  BY FileStart, FileStep, PTL DEF AsyncSpec

\* Calls, local files and goroutines keep their types: one file per number, and only
\* acknowledged writes have a goroutine that waits.
THEOREM AsyncTypeCorrect == AsyncSpec => []AsyncTypeOK
  BY AsyncFileInvariant, PTL DEF FileInv

\* A running engine has a goroutine for every file whose write was acknowledged and
\* uploaded, whichever writers shared its window.
THEOREM AsyncUploadedOwned == AsyncSpec => []UploadedOwned
<1>1. ASSUME FileInv PROVE UploadedOwned
  <2> SUFFICES ASSUME NEW f \in local, Batching, ~opening, f.rec \in Acked, status[f.rec] = "ok"
               PROVE  \E q \in cleaners : seqOf[q] = f.seq
    BY DEF UploadedOwned
  <2>1. f.rec \in Records /\ f.rec # Partial
    BY AsyncAssumption DEF Acked
  <2> QED
    BY <1>1, <2>1 DEF FileInv, FilesOK, Owned
<1> QED
  BY <1>1, AsyncFileInvariant, PTL

-------------------------------------------------------------------------------
(* Where acknowledged writes can get lost.  The local file is removed when the log has
   answered for ONE writer of the window, so the invariant says that the writers of a
   window get the same answer; it follows every write from its file into the log. *)

InFile(r) == \E f \in local : f.rec = r

InLog(r) == seqOf[r] <= covered \/ \E o \in wal : Holds(o, r)

LocalBounded == \E n \in Nat : \A f \in local : f.seq <= n

\* While Open replays the files no call and no goroutine is at work.
Reopening ==
  opening => /\ cleaners = {}
             /\ \A r \in Records : status[r] = "idle" \/ pc[r] \in {"acked", "failed"}

\* The calls, goroutines and files of the running process.
Running(r) == status[r] # "idle" /\ pc[r] \in {"wal", "open", "local", "applied"}
InWindow(r) == Running(r) \/ r \in cleaners \/ InFile(r)

\* Whoever has the same number shares the batch, and its answer.
SameWindow ==
  ~opening =>
    \A r \in Records : InWindow(r) =>
      /\ status[r] \in {"waiting", "ok", "failed"} /\ seqOf[r] < nextSeq
      /\ \A q \in Records : InWindow(q) /\ seqOf[q] = seqOf[r] => status[q] = status[r]
      /\ \A b \in batches : b.seq = seqOf[r] => r \in Range(b.recs)

\* The file a call opened is there until its record is in the log.
OpenKept == \A r \in Records : pc[r] = "open" => Named(seqOf[r]) # {} \/ InLog(r)

\* So is a record that was written to it, unless another writer took over the file or
\* it was replayed.
WrittenKept ==
  \A r \in Records :
    pc[r] \in {"local", "applied", "acked"} => InLog(r) \/ InFile(r) \/ r \in clobbered \cup lapsed

\* What is read was applied by its call or by a replay.
ShownCalls == \A r \in mem.has : pc[r] \in {"applied", "acked", "failed"}

Served(r) == pc[r] \in {"applied", "acked"}

\* The file of the record is still to be replayed.
Pending(r) == opening /\ InFile(r)

\* A view does not hide an applied write behind an older one, the named exceptions aside.
Serves(v) ==
  \A r \in v.has :
    Served(r) => Fresh(v, r) \/ r \in clobbered \cup lapsed \cup shadowed \/ Pending(r)

ViewsServe == Serves(mem) /\ Serves(sst) /\ Serves(sync.view) /\ Serves(manifest.view)

\* What was applied is read, was lost in one of the named ways, or is about to be replayed.
ServedShown ==
  \A r \in Records :
    Served(r) => r \in mem.has \cup missed \cup reused \cup clobbered \cup lapsed \/ Pending(r)

AsyncInv ==
  /\ FileInv /\ CoreInv
  /\ LocalBounded /\ Reopening /\ SameWindow /\ OpenKept /\ WrittenKept
  /\ ShownCalls /\ ViewsServe /\ ServedShown

-------------------------------------------------------------------------------
(* What the steps do. *)

\* A step of a call, or of the replay of a file, keeps what does not depend on how a
\* write is applied.
LEMMA CoreFrame ==
  ASSUME CoreInv, UNCHANGED <<callOthers, maxWALSeq>>,
         pc' \in [Records -> Phases],
         \A r \in Records : pc[r] \in {"acked", "failed"} => pc'[r] = pc[r],
         \A r \in Records : status[r] = "idle" => pc'[r] = pc[r],
         mem' = mem \/ \E r \in Records : status[r] # "idle" /\ mem' = Applied(mem, r)
  PROVE  CoreInv'
<1>1. UNCHANGED <<wal, gone, batches, nextSeq, status, seqOf, before, sst, sync, replay, cold,
                  manifest, covered, missed, aged, reused, maxWALSeq>>
  BY DEF callOthers, svcVars, rest
<1>2. BaseInv'
  BY <1>1 DEF CoreInv, SweepInv, BaseInv, SvcInv, SvcTypeOK, NumbersFresh, BatchObjects,
     BatchWriters, ObjectWriters, AckedDurable, Holds, SyncShape, SyncNumbers, ReadLogged, Logged
<1>3. SweepSafe' /\ GoneExplained' /\ AgedReplayed'
  <2>1. gone \subseteq Records /\ \A o \in wal : Range(o.recs) \subseteq Records
    BY RangeRecords DEF CoreInv, SweepInv, BaseInv, SvcInv, SvcTypeOK, Objects
  <2> QED
    BY <1>1, <2>1 DEF CoreInv, SweepInv, SweepSafe, GoneExplained, AgedReplayed, Abandoned
<1>4. mem' \in Views /\ mem.has \subseteq mem'.has /\ ShownAccepted'
  BY <1>1, AppliedType DEF CoreInv, DataOK, Applied, ShownAccepted
<1>5. DataOK' /\ Contained' /\ Quiet' /\ LogOrder' /\ Covering' /\ CoveredShown'
  BY <1>1, <1>4 DEF CoreInv, DataOK, Contained, Quiet, LogOrder, Ordered, Covering, CoveredShown
<1>6. History'
  BY <1>1 DEF CoreInv, History, Returned, DataOK
<1> QED
  BY <1>2, <1>3, <1>4, <1>5, <1>6 DEF CoreInv, SweepInv

\* The steps of Engine among those of AsyncWAL.
LEMMA EngineSteps ==
  ASSUME [AsyncNext]_allVars
  PROVE  \/ [Next]_vars
         \/ /\ UNCHANGED <<callOthers, maxWALSeq>>
            /\ \/ \E r \in Records : OpenLocal(r) \/ FillLocal(r) \/ ApplyLocal(r) \/ FailLocal(r)
               \/ \E f \in local : ReplayLocal(f)
<1>1. CASE EngineStep \/ CrashLocal
  BY <1>1 DEF EngineStep, CrashLocal, Next
<1>2. ASSUME NEW r \in Records, AckLocal(r) PROVE [Next]_vars
  BY <1>2 DEF AckLocal, Next
<1>3. ASSUME NEW r \in Records, Clean(r) PROVE [Next]_vars
  BY <1>3 DEF Clean
<1>4. CASE OpenDone \/ UNCHANGED allVars
  BY <1>4 DEF OpenDone, allVars
<1>5. ASSUME NEW r \in Records, OpenLocal(r) \/ FillLocal(r) \/ ApplyLocal(r) \/ FailLocal(r)
      PROVE  UNCHANGED <<callOthers, maxWALSeq>>
  BY <1>5 DEF OpenLocal, FillLocal, ApplyLocal, FailLocal
<1>6. ASSUME NEW f \in local, ReplayLocal(f) PROVE UNCHANGED <<callOthers, maxWALSeq>>
  BY <1>6 DEF ReplayLocal, callOthers
<1> QED
  BY <1>1, <1>2, <1>3, <1>4, <1>5, <1>6 DEF AsyncNext

LEMMA AsyncCoreStep ==
  ASSUME Reliable, FileInv, CoreInv, [AsyncNext]_allVars
  PROVE  CoreInv' /\ covered <= covered' /\ covered \in Nat /\ covered' \in Nat
<1>1. /\ pc' \in [Records -> Phases] /\ FailedStays
      /\ \A r \in Records : pc[r] \in {"acked", "failed"} => pc'[r] = pc[r]
      /\ \A r \in Records : status[r] = "idle" => pc'[r] = pc[r]
  BY CallsMove DEF FailedStays
<1>2. covered \in Nat /\ BaseInv
  BY DEF CoreInv, SweepInv, BaseInv, SyncNumbers
<1>3. CASE [Next]_vars
  <2>1. CoreInv'
    BY <1>1, <1>3, CoreStep
  <2>2. covered <= covered' /\ covered' \in Nat
    BY <1>2, <1>3, NumbersStep DEF SyncNumbers
  <2> QED
    BY <1>2, <2>1, <2>2
<1>4. ASSUME UNCHANGED <<callOthers, maxWALSeq>>,
             \/ \E r \in Records : OpenLocal(r) \/ FillLocal(r) \/ ApplyLocal(r) \/ FailLocal(r)
             \/ \E f \in local : ReplayLocal(f)
      PROVE  CoreInv' /\ covered' = covered
  <2>1. ASSUME NEW r \in Records, OpenLocal(r) \/ FillLocal(r) \/ ApplyLocal(r) \/ FailLocal(r)
        PROVE  mem' = mem \/ (status[r] # "idle" /\ mem' = Applied(mem, r))
    BY <2>1 DEF OpenLocal, FillLocal, ApplyLocal, FailLocal, FileInv, IdleCalls
  <2>2. ASSUME NEW f \in local, ReplayLocal(f)
        PROVE  f.rec \in Records /\ status[f.rec] # "idle" /\ mem' = Applied(mem, f.rec)
    BY <2>2 DEF ReplayLocal, FileInv, FilesOK, AsyncTypeOK
  <2>3. mem' = mem \/ \E r \in Records : status[r] # "idle" /\ mem' = Applied(mem, r)
    BY <1>4, <2>1, <2>2
  <2> QED
    BY <1>1, <1>4, <2>3, CoreFrame DEF callOthers, rest
<1> QED
  BY <1>2, <1>3, <1>4, EngineSteps

\* An accepted record keeps its number, its status and the calls it came after.
LEMMA AcceptedSame ==
  ASSUME FileInv, CoreInv, [AsyncNext]_allVars, NEW r \in Records, status[r] # "idle"
  PROVE  seqOf'[r] = seqOf[r] /\ before'[r] = before[r] /\ status'[r] # "idle"
<1>1. seqOf'[r] = seqOf[r] /\ status'[r] # "idle"
  BY AsyncStepsLog, AcceptedStays DEF FileInv
<1>2. CASE [Next]_vars
  BY <1>1, <1>2, AcceptedStable
<1>3. CASE UNCHANGED callOthers
  BY <1>1, <1>3 DEF callOthers
<1> QED
  BY <1>2, <1>3, EngineSteps

\* A record stays in the log, unless its call failed.
LEMMA InLogKept ==
  ASSUME Reliable, FileInv, CoreInv, [AsyncNext]_allVars,
         NEW r \in Records, status[r] # "idle", InLog(r), pc'[r] # "failed"
  PROVE  InLog(r)'
<1>1. /\ CoreInv' /\ covered <= covered' /\ covered \in Nat /\ covered' \in Nat
      /\ seqOf'[r] = seqOf[r] /\ seqOf[r] \in Nat
  BY AsyncCoreStep, AcceptedSame DEF FileInv, SvcInv, SvcTypeOK
<1>2. CASE seqOf[r] <= covered
  BY <1>1, <1>2 DEF InLog
<1>3. CASE \E o \in wal : Holds(o, r)
  <2>1. Logged(r)'
    BY <1>3, AsyncStepsLog, LoggedStable DEF Logged, FileInv
  <2>2. CASE r \in gone'
    BY <1>1, <2>2 DEF InLog, CoreInv, SweepInv, GoneExplained
  <2>3. CASE (\E o \in wal : Holds(o, r))'
    BY <2>3 DEF InLog
  <2> QED
    BY <2>1, <2>2, <2>3 DEF Logged
<1> QED
  BY <1>2, <1>3 DEF InLog

\* A record the log answered for is in it.
LEMMA AnsweredInLog ==
  ASSUME CoreInv, NEW r \in Records, status[r] = "ok", pc[r] # "failed"
  PROVE  InLog(r)
  BY DEF CoreInv, SweepInv, BaseInv, SvcInv, AckedDurable, GoneExplained, InLog

\* Where a call was before the step.
LEMMA CallsFrom ==
  ASSUME FileInv, [AsyncNext]_allVars, NEW r \in Records
  PROVE  /\ pc'[r] = "open" => pc[r] = "open" \/ OpenLocal(r)
         /\ pc'[r] = "local" => pc[r] = "local" \/ FillLocal(r)
         /\ pc'[r] = "applied" => pc[r] = "applied" \/ ApplyLocal(r)
         /\ pc'[r] = "acked" => pc[r] = "acked" \/ (pc[r] = "applied" /\ AckLocal(r))
<1>1. pc \in [Records -> Phases] /\ IdleCalls
  BY DEF FileInv, AsyncTypeOK, Phases
<1>2. CASE CrashLocal
  BY <1>1, <1>2 DEF CrashLocal, Crash, IdleCalls
<1>3. CASE pc' = pc
  BY <1>1, <1>3
<1>4. ASSUME NEW q \in Records, OpenLocal(q) \/ FillLocal(q) \/ ApplyLocal(q) \/ AckLocal(q)
                                \/ FailLocal(q)
      PROVE  /\ pc'[r] = "open" => pc[r] = "open" \/ OpenLocal(r)
             /\ pc'[r] = "local" => pc[r] = "local" \/ FillLocal(r)
             /\ pc'[r] = "applied" => pc[r] = "applied" \/ ApplyLocal(r)
             /\ pc'[r] = "acked" => pc[r] = "acked" \/ (pc[r] = "applied" /\ AckLocal(r))
  <2>1. CASE q = r
    <3>1. CASE OpenLocal(r)
      BY <1>1, <3>1 DEF OpenLocal
    <3>2. CASE FillLocal(r)
      BY <1>1, <3>2 DEF FillLocal
    <3>3. CASE ApplyLocal(r)
      BY <1>1, <3>3 DEF ApplyLocal
    <3>4. CASE AckLocal(r)
      BY <1>1, <3>4 DEF AckLocal, Ack
    <3>5. CASE FailLocal(r)
      BY <1>1, <3>5 DEF FailLocal
    <3> QED
      BY <1>4, <2>1, <3>1, <3>2, <3>3, <3>4, <3>5
  <2>2. CASE q # r
    <3>1. pc'[r] = pc[r]
      BY <1>1, <1>4, <2>2 DEF OpenLocal, FillLocal, ApplyLocal, AckLocal, Ack, FailLocal
    <3> QED
      BY <3>1
  <2> QED
    BY <2>1, <2>2
<1>5. CASE EngineStep
  BY <1>3, <1>5, EngineStepCalls
<1> QED
  BY <1>2, <1>3, <1>4, <1>5 DEF AsyncNext, Clean, ReplayLocal, OpenDone, allVars, vars, engVars

-------------------------------------------------------------------------------
(* The conjuncts, one by one. *)

LEMMA BoundedStep ==
  ASSUME AsyncInv, [AsyncNext]_allVars
  PROVE  LocalBounded'
<1>1. PICK n \in Nat : \A f \in local : f.seq <= n
  BY DEF AsyncInv, LocalBounded
<1>2. /\ seqOf \in [Records -> Nat] /\ local \subseteq [seq : Nat, rec : Records \cup {Partial}]
  BY DEF AsyncInv, FileInv, SvcInv, SvcTypeOK, AsyncTypeOK
<1>3. ASSUME NEW r \in Records, OpenLocal(r) \/ FillLocal(r) PROVE LocalBounded'
  <2>1. \A f \in local' : f \in local \/ f.seq = seqOf[r]
    BY <1>3 DEF OpenLocal, FillLocal
  <2>2. n + seqOf[r] \in Nat /\ \A f \in local' : f.seq <= n + seqOf[r]
    BY <1>1, <1>2, <2>1
  <2> QED
    BY <2>2 DEF LocalBounded
<1>4. CASE local' \subseteq local
  BY <1>1, <1>4 DEF LocalBounded
<1> QED
  BY <1>3, <1>4, EngineStepCalls DEF AsyncNext, CrashLocal, ApplyLocal, AckLocal, FailLocal, Clean,
     ReplayLocal, OpenDone, allVars, asyncVars

LEMMA ReopeningStep ==
  ASSUME AsyncInv, [AsyncNext]_allVars
  PROVE  Reopening'
<1>1. Reopening /\ IdleCalls /\ SvcInv /\ pc \in [Records -> Phases]
  BY DEF AsyncInv, FileInv, AsyncTypeOK, Phases
<1>2. CASE CrashLocal
  <2>1. ASSUME NEW r \in Records PROVE status'[r] = "idle" \/ pc'[r] \in {"acked", "failed"}
    BY <1>1, <1>2 DEF CrashLocal, Crash, Restart, Orphaned, SvcInv, SvcTypeOK
  <2> QED
    BY <1>2, <2>1 DEF CrashLocal, Reopening
<1>3. ASSUME opening, UNCHANGED <<cleaners, pc, status>> PROVE Reopening'
  BY <1>1, <1>3 DEF Reopening
<1>4. CASE opening' = FALSE
  BY <1>4 DEF Reopening
<1>5. CASE ~opening /\ opening' = opening
  BY <1>5 DEF Reopening
<1>6. CASE EngineStep
  <2>1. CASE opening
    BY <1>3, <1>6, <2>1 DEF EngineStep, MemtableFlush, asyncVars, svcVars
  <2>2. CASE ~opening
    BY <1>5, <1>6, <2>2, EngineStepCalls DEF asyncVars
  <2> QED
    BY <2>1, <2>2
<1>7. ASSUME NEW r \in Records, OpenLocal(r) \/ FillLocal(r) \/ ApplyLocal(r) \/ AckLocal(r)
                                \/ FailLocal(r) \/ Clean(r)
      PROVE  ~opening /\ opening' = opening
  BY <1>7 DEF OpenLocal, FillLocal, ApplyLocal, AckLocal, FailLocal, Clean, asyncVars
<1>8. ASSUME NEW f \in local, ReplayLocal(f) PROVE Reopening'
  BY <1>3, <1>8 DEF ReplayLocal, svcVars
<1>9. CASE UNCHANGED allVars
  BY <1>1, <1>9 DEF allVars, asyncVars, vars, svcVars, engVars, Reopening
<1>10. CASE OpenDone
  BY <1>4, <1>10 DEF OpenDone
<1> QED
  BY <1>2, <1>5, <1>6, <1>7, <1>8, <1>9, <1>10 DEF AsyncNext

\* What the step is for the log.
LEMMA LogSteps ==
  ASSUME [AsyncNext]_allVars
  PROVE  \/ CrashLocal
         \/ \E r \in Records : Write(r) /\ UNCHANGED asyncVars
         \/ WalStep
         \/ UNCHANGED <<batches, nextSeq, status, seqOf>>
<1>1. CASE EngineStep
  <2>1. CASE SyncStep \/ MemtableFlush
    BY <2>1 DEF SyncStep, SyncFlush, SyncCheckpoint, SyncReadSeq, SyncManifest, SyncReturn, SyncGC,
       SyncDelete, Collect, MemtableFlush, svcVars
  <2> QED
    BY <1>1, <2>1 DEF EngineStep
<1>2. ASSUME NEW r \in Records, OpenLocal(r) \/ FillLocal(r) \/ ApplyLocal(r) \/ AckLocal(r)
                                \/ FailLocal(r) \/ Clean(r)
      PROVE  UNCHANGED <<batches, nextSeq, status, seqOf>>
  BY <1>2 DEF OpenLocal, FillLocal, ApplyLocal, AckLocal, Ack, FailLocal, Clean, callOthers, vars,
     svcVars
<1>3. ASSUME NEW f \in local, ReplayLocal(f) PROVE UNCHANGED <<batches, nextSeq, status, seqOf>>
  BY <1>3 DEF ReplayLocal, svcVars
<1>4. CASE OpenDone \/ UNCHANGED allVars
  BY <1>4 DEF OpenDone, allVars, vars, svcVars
<1> QED
  BY <1>1, <1>2, <1>3, <1>4 DEF AsyncNext

\* Only WriteRecord brings a record into the windows of the running process.
LEMMA WindowMove ==
  ASSUME AsyncInv, [AsyncNext]_allVars, ~opening', NEW r \in Records, InWindow(r)'
  PROVE  ~opening /\ (InWindow(r) \/ Write(r))
<1>1. FileInv /\ Reopening /\ IdleCalls /\ SvcInv
  BY DEF AsyncInv, FileInv
<1>2. CASE opening
  <2>1. OpenDone
    BY <1>2 DEF AsyncNext, OpenLocal, FillLocal, ApplyLocal, AckLocal, FailLocal, Clean, CrashLocal,
       ReplayLocal, EngineStep, asyncVars, allVars
  <2>2. local = {} /\ cleaners = {} /\ UNCHANGED <<local, cleaners, pc, status>>
    BY <1>1, <1>2, <2>1 DEF OpenDone, Reopening, vars, svcVars, engVars
  <2> QED
    BY <1>1, <1>2, <2>2 DEF Reopening, InWindow, Running, InFile
<1>3. ASSUME ~opening, Running(r)' PROVE Running(r) \/ Write(r)
  <2>1. status'[r] # "idle" /\ pc'[r] \in {"wal", "open", "local", "applied"}
    BY <1>3 DEF Running
  <2>2. pc[r] \notin {"acked", "failed"} /\ pc[r] \in Phases
    BY <1>1, <2>1, CallsMove DEF FileInv, AsyncTypeOK, Phases
  <2>3. CASE status[r] = "idle"
    <3>1. CASE CrashLocal
      BY <3>1 DEF CrashLocal
    <3>2. ASSUME NEW q \in Records, Write(q) PROVE q = r
      BY <1>1, <2>1, <2>3, <3>2 DEF Write, AcceptFresh, AcceptJoin, SvcInv, SvcTypeOK
    <3>3. CASE WalStep
      BY <1>1, <2>1, <2>3, <3>3 DEF WalStep, Answer, StoreAnswers, Answered, SvcInv, BatchWriters
    <3> QED
      BY <2>1, <2>3, <3>1, <3>2, <3>3, LogSteps
  <2> QED
    BY <2>2, <2>3 DEF Running, Phases
<1>4. ASSUME ~opening, r \in cleaners' PROVE InWindow(r)
  <2>1. ASSUME NEW q \in Records, AckLocal(q) PROVE r \in cleaners \/ pc[r] = "applied"
    BY <1>4, <2>1 DEF AckLocal, Ack
  <2>2. r \in cleaners \/ pc[r] = "applied"
    BY <1>4, <2>1, EngineStepCalls DEF AsyncNext, OpenLocal, FillLocal, ApplyLocal, FailLocal, Clean,
       CrashLocal, ReplayLocal, OpenDone, asyncVars, allVars
  <2> QED
    BY <1>1, <2>2 DEF InWindow, Running, IdleCalls
<1>5. ASSUME ~opening, InFile(r)' PROVE InWindow(r)
  <2>1. PICK f \in local' : f.rec = r
    BY <1>5 DEF InFile
  <2>2. f \in local \/ pc[r] = "open"
    BY <1>1, <2>1, FilesMove, AsyncAssumption
  <2> QED
    BY <1>1, <2>1, <2>2 DEF InWindow, Running, IdleCalls, InFile
<1> QED
  BY <1>2, <1>3, <1>4, <1>5 DEF InWindow

LEMMA WindowStep ==
  ASSUME AsyncInv, [AsyncNext]_allVars
  PROVE  SameWindow'
<1> SUFFICES ASSUME ~opening', NEW r \in Records, InWindow(r)'
             PROVE  /\ status'[r] \in {"waiting", "ok", "failed"} /\ seqOf'[r] < nextSeq'
                    /\ \A q \in Records :
                         InWindow(q)' /\ seqOf'[q] = seqOf'[r] => status'[q] = status'[r]
                    /\ \A b \in batches' : b.seq = seqOf'[r] => r \in Range(b.recs)
  BY DEF SameWindow
<1>1. /\ SvcInv /\ SvcTypeOK /\ NumbersFresh /\ BatchWriters
      /\ ~opening /\ SameWindow /\ (InWindow(r) \/ Write(r))
      /\ seqOf \in [Records -> Nat] /\ nextSeq \in Nat /\ status \in [Records -> Statuses]
      /\ batches \subseteq Batches
  BY WindowMove DEF AsyncInv, FileInv, SvcInv, SvcTypeOK
<1>2. \A q \in Records : InWindow(q)' => InWindow(q) \/ Write(q)
  BY WindowMove
<1>3. \A q \in Records : InWindow(q) =>
        /\ status[q] \in {"waiting", "ok", "failed"} /\ seqOf[q] < nextSeq
        /\ \A p \in Records : InWindow(p) /\ seqOf[p] = seqOf[q] => status[p] = status[q]
        /\ \A b \in batches : b.seq = seqOf[q] => q \in Range(b.recs)
  BY <1>1 DEF SameWindow
<1>4. ASSUME NEW q \in Records, NEW p \in Records, Write(q), Write(p) PROVE p = q
  BY <1>1, <1>4 DEF Write, AcceptFresh, AcceptJoin
<1>5. ASSUME NEW q \in Records, AcceptFresh(q), Write(q)
      PROVE  /\ status'[r] \in {"waiting", "ok", "failed"} /\ seqOf'[r] < nextSeq'
             /\ \A p \in Records :
                  InWindow(p)' /\ seqOf'[p] = seqOf'[r] => status'[p] = status'[r]
             /\ \A b \in batches' : b.seq = seqOf'[r] => r \in Range(b.recs)
  <2>1. /\ seqOf' = [seqOf EXCEPT ![q] = nextSeq] /\ nextSeq' = nextSeq + 1
        /\ status' = [status EXCEPT ![q] = "waiting"]
        /\ batches' = batches \cup {[seq |-> nextSeq, recs |-> <<q>>, res |-> "open"]}
    BY <1>5 DEF AcceptFresh
  <2>2. Range(<<q>>) = {q}
    BY RangeSingleton
  <2>3. \A p \in Records : InWindow(p)' => p = q \/ (InWindow(p) /\ p # q)
    BY <1>2, <1>4, <1>5
  <2>4. \A p \in Records : InWindow(p)' /\ p # q =>
          seqOf'[p] = seqOf[p] /\ seqOf[p] < nextSeq /\ status'[p] = status[p]
    BY <1>1, <1>3, <2>1, <2>3
  <2>5. seqOf'[q] = nextSeq /\ status'[q] = "waiting"
    BY <1>1, <2>1
  <2>6. \A b \in batches' : \/ b \in batches /\ b.seq < nextSeq /\ b.seq \in Nat
                            \/ b.seq = nextSeq /\ Range(b.recs) = {q}
    BY <1>1, <2>1, <2>2 DEF NumbersFresh, Batches
  <2>7. CASE r = q
    <3>1. seqOf'[r] < nextSeq' /\ status'[r] \in {"waiting", "ok", "failed"}
      BY <1>1, <2>1, <2>5, <2>7
    <3>2. \A b \in batches' : b.seq = seqOf'[r] => r \in Range(b.recs)
      BY <1>1, <2>5, <2>6, <2>7
    <3>3. \A p \in Records : InWindow(p)' /\ seqOf'[p] = seqOf'[r] => p = q
      BY <1>1, <2>4, <2>5, <2>7
    <3> QED
      BY <2>7, <3>1, <3>2, <3>3
  <2>8. CASE r # q
    BY <1>1, <1>3, <2>1, <2>3, <2>4, <2>5, <2>6, <2>8
  <2> QED
    BY <2>7, <2>8
<1>6. ASSUME NEW q \in Records, NEW c \in batches, AcceptJoin(q, c), Write(q)
      PROVE  /\ status'[r] \in {"waiting", "ok", "failed"} /\ seqOf'[r] < nextSeq'
             /\ \A p \in Records :
                  InWindow(p)' /\ seqOf'[p] = seqOf'[r] => status'[p] = status'[r]
             /\ \A b \in batches' : b.seq = seqOf'[r] => r \in Range(b.recs)
  <2> DEFINE d == [c EXCEPT !.recs = Append(c.recs, q)]
  <2>1. /\ seqOf' = [seqOf EXCEPT ![q] = c.seq] /\ nextSeq' = nextSeq
        /\ status' = [status EXCEPT ![q] = "waiting"]
        /\ batches' = (batches \ {c}) \cup {d}
    BY <1>6 DEF AcceptJoin
  <2>2. c.seq \in Nat /\ d.seq = c.seq /\ Range(d.recs) = Range(c.recs) \cup {q}
    BY <1>1, RangeAppend DEF Batches
  <2>3. \A p \in Records : InWindow(p)' => p = q \/ (InWindow(p) /\ p # q)
    BY <1>2, <1>4, <1>6
  <2>4. \A p \in Records : InWindow(p)' /\ p # q =>
          /\ seqOf'[p] = seqOf[p] /\ seqOf[p] < nextSeq /\ status'[p] = status[p]
          /\ seqOf[p] = c.seq => status[p] = "waiting" /\ p \in Range(c.recs)
    BY <1>1, <1>3, <2>1, <2>3 DEF BatchWriters
  <2>5. seqOf'[q] = c.seq /\ status'[q] = "waiting" /\ c.seq < nextSeq
    BY <1>1, <2>1 DEF NumbersFresh
  <2>6. \A b \in batches : b.seq = c.seq => b = c
    BY <1>1 DEF NumbersFresh
  <2> HIDE DEF d
  <2>7. CASE r = q
    BY <2>1, <2>2, <2>3, <2>4, <2>5, <2>6, <2>7
  <2>8. CASE r # q
    BY <1>1, <1>3, <2>1, <2>2, <2>3, <2>4, <2>5, <2>6, <2>8
  <2> QED
    BY <2>7, <2>8
<1>7. CASE \E q \in Records : Write(q)
  BY <1>5, <1>6, <1>7 DEF Write
<1>8. ASSUME NEW c \in batches, Answer(c), ~\E q \in Records : Write(q)
      PROVE  /\ status'[r] \in {"waiting", "ok", "failed"} /\ seqOf'[r] < nextSeq'
             /\ \A p \in Records :
                  InWindow(p)' /\ seqOf'[p] = seqOf'[r] => status'[p] = status'[r]
             /\ \A b \in batches' : b.seq = seqOf'[r] => r \in Range(b.recs)
  <2>1. /\ batches' = batches \ {c} /\ UNCHANGED <<nextSeq, seqOf>>
        /\ \A p \in Records :
             status'[p] = IF p \in Range(c.recs) THEN IF c.res = "ok" THEN "ok" ELSE "failed"
                          ELSE status[p]
    BY <1>8 DEF Answer, Answered
  <2>2. \A p \in Records : InWindow(p)' => InWindow(p)
    BY <1>2, <1>8
  <2>3. \A p \in Records : InWindow(p) => (p \in Range(c.recs) <=> seqOf[p] = c.seq)
    BY <1>1, <1>3 DEF BatchWriters
  <2> QED
    BY <1>3, <2>1, <2>2, <2>3
<1>9. ASSUME NEW c \in batches, NEW res \in {"ok", "err"}, StoreAnswers(c, res),
             ~\E q \in Records : Write(q)
      PROVE  /\ status'[r] \in {"waiting", "ok", "failed"} /\ seqOf'[r] < nextSeq'
             /\ \A p \in Records :
                  InWindow(p)' /\ seqOf'[p] = seqOf'[r] => status'[p] = status'[r]
             /\ \A b \in batches' : b.seq = seqOf'[r] => r \in Range(b.recs)
  <2>1. /\ UNCHANGED <<nextSeq, seqOf, status>>
        /\ \A b \in batches' : \E a \in batches : a.seq = b.seq /\ a.recs = b.recs
    BY <1>1, <1>9 DEF StoreAnswers, Batches
  <2>2. \A p \in Records : InWindow(p)' => InWindow(p)
    BY <1>2, <1>9
  <2> QED
    BY <1>3, <2>1, <2>2
<1>10. CASE UNCHANGED <<batches, nextSeq, status, seqOf>> /\ ~\E q \in Records : Write(q)
  <2>1. \A p \in Records : InWindow(p)' => InWindow(p)
    BY <1>2, <1>10
  <2> QED
    BY <1>3, <1>10, <2>1
<1>11. ~CrashLocal
  BY DEF CrashLocal
<1> QED
  BY <1>7, <1>8, <1>9, <1>10, <1>11, LogSteps DEF WalStep

\* A goroutine that removes a file finds the records of its window in the log.
LEMMA CleanedInLog ==
  ASSUME AsyncInv, NEW r \in Records, Clean(r), status[r] = "ok",
         NEW q \in Records, InWindow(q), seqOf[q] = seqOf[r], pc[q] # "failed"
  PROVE  InLog(q)
<1>1. ~opening /\ InWindow(r)
  BY DEF Clean, InWindow
<1>2. status[q] = "ok"
  BY <1>1 DEF AsyncInv, SameWindow
<1> QED
  BY <1>2, AnsweredInLog DEF AsyncInv

\* What a step removes from the local disk.
LEMMA FilesGo ==
  ASSUME AsyncInv, [AsyncNext]_allVars, NEW f \in local
  PROVE  \/ f \in local'
         \/ \E r \in Records : OpenLocal(r) /\ f \in Named(seqOf[r])
         \/ \E r \in Records : FillLocal(r) /\ f \in Named(seqOf[r])
         \/ \E r \in Records : Clean(r) /\ status[r] = "ok" /\ f \in Named(seqOf[r])
         \/ ReplayLocal(f)
<1>1. ASSUME NEW r \in Records, OpenLocal(r), f \notin local' PROVE f \in Named(seqOf[r])
  BY <1>1 DEF OpenLocal
<1>2. ASSUME NEW r \in Records, FillLocal(r), f \notin local' PROVE f \in Named(seqOf[r])
  BY <1>2 DEF FillLocal
<1>3. ASSUME NEW r \in Records, Clean(r), f \notin local'
      PROVE  status[r] = "ok" /\ f \in Named(seqOf[r])
  BY <1>3 DEF Clean
<1>4. ASSUME NEW g \in local, ReplayLocal(g), f \notin local' PROVE g = f
  BY <1>4 DEF ReplayLocal
<1>5. CASE local' = local
  BY <1>5
<1> QED
  BY <1>1, <1>2, <1>3, <1>4, <1>5, EngineStepCalls DEF AsyncNext, CrashLocal, ApplyLocal, AckLocal,
     FailLocal, OpenDone, allVars, asyncVars

\* The history variables only grow.
LEMMA HistoryGrows ==
  ASSUME [AsyncNext]_allVars
  PROVE  clobbered \subseteq clobbered' /\ lapsed \subseteq lapsed' /\ shadowed \subseteq shadowed'
<1>1. ASSUME NEW r \in Records, FillLocal(r) PROVE clobbered \subseteq clobbered'
  BY <1>1 DEF FillLocal
<1> QED
  BY <1>1, EngineStepCalls DEF AsyncNext, CrashLocal, OpenLocal, FillLocal, ApplyLocal, AckLocal,
     FailLocal, Clean, ReplayLocal, OpenDone, allVars, asyncVars

LEMMA OpenStep ==
  ASSUME Reliable, AsyncInv, [AsyncNext]_allVars
  PROVE  OpenKept'
<1> SUFFICES ASSUME NEW r \in Records, pc'[r] = "open"
             PROVE  (\E f \in local' : f.seq = seqOf'[r]) \/ InLog(r)'
  BY DEF OpenKept, Named
<1>1. FileInv /\ CoreInv /\ IdleCalls /\ OpenKept /\ seqOf \in [Records -> Nat]
  BY DEF AsyncInv, FileInv, SvcInv, SvcTypeOK
<1>2. CASE OpenLocal(r)
  <2>1. seqOf'[r] = seqOf[r]
    BY <1>2 DEF OpenLocal, callOthers, svcVars
  <2>2. [seq |-> seqOf[r], rec |-> Partial] \in local'
    BY <1>2 DEF OpenLocal
  <2> QED
    BY <2>1, <2>2
<1>3. CASE pc[r] = "open"
  <2>1. status[r] # "idle" /\ seqOf'[r] = seqOf[r] /\ InWindow(r)
    BY <1>1, <1>3, AcceptedSame DEF IdleCalls, InWindow, Running
  <2>2. ASSUME InLog(r) PROVE InLog(r)'
    BY <1>1, <2>1, <2>2, InLogKept
  <2>3. ASSUME NEW f \in local, f.seq = seqOf[r]
        PROVE  (\E g \in local' : g.seq = seqOf[r]) \/ InLog(r)
    <3>1. ASSUME NEW q \in Records, OpenLocal(q), f \in Named(seqOf[q])
          PROVE  \E g \in local' : g.seq = seqOf[r]
      <4>1. [seq |-> seqOf[q], rec |-> Partial] \in local'
        BY <3>1 DEF OpenLocal
      <4>2. seqOf[q] = seqOf[r]
        BY <2>3, <3>1 DEF Named
      <4> QED
        BY <4>1, <4>2
    <3>2. ASSUME NEW q \in Records, FillLocal(q), f \in Named(seqOf[q])
          PROVE  \E g \in local' : g.seq = seqOf[r]
      <4>1. PICK content : [seq |-> seqOf[q], rec |-> content] \in local'
        BY <3>2 DEF FillLocal
      <4>2. seqOf[q] = seqOf[r]
        BY <2>3, <3>2 DEF Named
      <4> QED
        BY <4>1, <4>2
    <3>3. ASSUME NEW q \in Records, Clean(q), status[q] = "ok", f \in Named(seqOf[q])
          PROVE  InLog(r)
      BY <1>3, <2>1, <2>3, <3>3, CleanedInLog DEF Named
    <3>4. ASSUME ReplayLocal(f) PROVE FALSE
      BY <1>3, <2>1, <3>4 DEF ReplayLocal, AsyncInv, Reopening
    <3> QED
      BY <2>3, <3>1, <3>2, <3>3, <3>4, FilesGo
  <2> QED
    BY <1>1, <1>3, <2>1, <2>2, <2>3 DEF OpenKept, Named
<1> QED
  BY <1>1, <1>2, <1>3, CallsFrom

LEMMA WrittenStep ==
  ASSUME Reliable, AsyncInv, [AsyncNext]_allVars
  PROVE  WrittenKept'
<1> SUFFICES ASSUME NEW r \in Records, pc'[r] \in {"local", "applied", "acked"}
             PROVE  InLog(r)' \/ (\E f \in local' : f.rec = r) \/ r \in clobbered' \cup lapsed'
  BY DEF WrittenKept, InFile
<1>1. /\ FileInv /\ CoreInv /\ IdleCalls /\ OpenKept /\ WrittenKept /\ FilesOK
      /\ local \subseteq [seq : Nat, rec : Records \cup {Partial}]
  BY DEF AsyncInv, FileInv, AsyncTypeOK
<1>2. CASE FillLocal(r)
  <2>1. pc[r] = "open" /\ status[r] # "idle"
    BY <1>1, <1>2 DEF FillLocal, IdleCalls
  <2>2. PICK content \in {r, Partial} :
          /\ local' = (local \ Named(seqOf[r])) \cup
                        {[seq |-> seqOf[r], rec |-> content] : f \in Named(seqOf[r])}
          /\ clobbered' = clobbered \cup Others(r) \cup {q \in {r} : content = Partial}
    BY <1>2 DEF FillLocal
  <2>3. CASE Named(seqOf[r]) = {}
    BY <1>1, <2>1, <2>3, InLogKept DEF OpenKept
  <2>4. CASE Named(seqOf[r]) # {} /\ content = r
    <3>1. [seq |-> seqOf[r], rec |-> r] \in local'
      BY <2>2, <2>4
    <3> QED
      BY <3>1
  <2>5. CASE content = Partial
    BY <2>2, <2>5
  <2> QED
    BY <2>2, <2>3, <2>4, <2>5
<1>3. CASE pc[r] \in {"local", "applied", "acked"}
  <2>1. status[r] # "idle"
    BY <1>1, <1>3 DEF IdleCalls
  <2>2. ASSUME InLog(r) PROVE InLog(r)'
    BY <1>1, <2>1, <2>2, InLogKept
  <2>3. ASSUME NEW f \in local, f.rec = r
        PROVE  InLog(r) \/ (\E g \in local' : g.rec = r) \/ r \in clobbered' \cup lapsed'
    <3>1. f.seq = seqOf[r] /\ r # Partial /\ InWindow(r)
      BY <1>1, <2>3, AsyncAssumption DEF FilesOK, InWindow, InFile
    <3>2. ASSUME NEW q \in Records, OpenLocal(q), f \in Named(seqOf[q]) PROVE r \in clobbered'
      <4>1. r # q
        BY <1>3, <3>2 DEF OpenLocal
      <4> QED
        BY <2>3, <3>1, <3>2, <4>1 DEF OpenLocal, Others
    <3>3. ASSUME NEW q \in Records, FillLocal(q), f \in Named(seqOf[q]) PROVE r \in clobbered'
      <4>1. r # q
        BY <1>3, <3>3 DEF FillLocal
      <4>2. r \in Others(q)
        BY <2>3, <3>1, <3>3, <4>1 DEF Others
      <4> QED
        BY <3>3, <4>2 DEF FillLocal
    <3>4. ASSUME NEW q \in Records, Clean(q), status[q] = "ok", f \in Named(seqOf[q])
          PROVE  InLog(r)
      BY <1>3, <3>1, <3>4, CleanedInLog DEF Named
    <3>5. ASSUME ReplayLocal(f) PROVE r \in lapsed'
      BY <2>3, <3>5 DEF ReplayLocal
    <3> QED
      BY <2>3, <3>2, <3>3, <3>4, <3>5, FilesGo
  <2> QED
    BY <1>1, <1>3, <2>2, <2>3, HistoryGrows DEF WrittenKept, InFile
<1>4. FillLocal(r) \/ pc[r] \in {"local", "applied", "acked"}
  <2>1. ApplyLocal(r) => pc[r] = "local"
    BY DEF ApplyLocal
  <2> QED
    BY <1>1, <2>1, CallsFrom
<1> QED
  BY <1>2, <1>3, <1>4

\* A file that is still to be replayed stays so until it is.
LEMMA PendingStays ==
  ASSUME AsyncInv, [AsyncNext]_allVars, NEW r \in Records, Pending(r)
  PROVE  r \in lapsed' \/ Pending(r)'
<1>1. PICK f \in local : f.rec = r
  BY DEF Pending, InFile
<1>2. opening
  BY DEF Pending
<1>3. CASE ReplayLocal(f)
  BY <1>1, <1>3 DEF ReplayLocal
<1>4. CASE f \in local'
  <2>1. opening'
    BY <1>1, <1>2, <1>4 DEF AsyncNext, OpenLocal, FillLocal, ApplyLocal, AckLocal, FailLocal, Clean,
       CrashLocal, ReplayLocal, OpenDone, EngineStep, asyncVars, allVars
  <2> QED
    BY <1>1, <1>4, <2>1 DEF Pending, InFile
<1> QED
  BY <1>2, <1>3, <1>4, FilesGo DEF OpenLocal, FillLocal, Clean

\* What a crash recovers from the object store.
LEMMA AsyncRestart ==
  ASSUME Reliable, AsyncInv, CrashLocal
  PROVE  /\ wal \subseteq wal' /\ UNCHANGED <<before, seqOf, manifest, covered, missed, reused>>
         /\ Ordered(wal') /\ Numbered(wal') /\ wal' \in SUBSET Objects
         /\ \A o \in wal' : o.seq <= maxWALSeq' /\ \A r \in Range(o.recs) : status'[r] # "idle"
         /\ maxWALSeq' \in Nat
         /\ \E v \in {manifest.view, sst} :
              sst' = v /\ mem' = Replayed(v, Above(wal', manifest.maxSeq))
         /\ sync'.view = Empty
<1>1. CoreInv /\ SvcInv /\ SyncNumbers /\ SyncShape /\ FileInv /\ Crash
  BY DEF AsyncInv, FileInv, CoreInv, SweepInv, BaseInv, CrashLocal
<1>2. [AsyncNext]_allVars
  BY DEF AsyncNext
<1>3. CoreInv'
  BY <1>1, <1>2, AsyncCoreStep
<1>4. /\ wal \subseteq wal' /\ UNCHANGED <<before, seqOf, manifest, covered, missed, reused>>
      /\ \A o \in wal' : o.seq <= maxWALSeq'
      /\ \E v \in {manifest.view, sst} :
           sst' = v /\ mem' = Replayed(v, Above(wal', manifest.maxSeq))
  BY <1>1, CrashRecovers
<1>5. sync'.view = Empty
  BY <1>1, SyncFields
<1>6. Ordered(wal')
  BY <1>3, <1>4 DEF CoreInv, LogOrder, Ordered
<1>7. /\ wal' \in SUBSET Objects /\ maxWALSeq' \in Nat /\ Numbered(wal')
      /\ \A o \in wal' : \A r \in Range(o.recs) : status'[r] # "idle"
  BY <1>3, <1>4 DEF CoreInv, SweepInv, BaseInv, SyncNumbers, SvcInv, SvcTypeOK, NumbersFresh,
     ObjectWriters, Numbered
<1> QED
  BY <1>4, <1>5, <1>6, <1>7

LEMMA ShownStep ==
  ASSUME Reliable, AsyncInv, [AsyncNext]_allVars
  PROVE  ShownCalls'
<1>1. /\ FileInv /\ CoreInv /\ Reopening /\ FilesOK /\ ShownCalls /\ pc \in [Records -> Phases]
      /\ mem.has \subseteq Records
  BY DEF AsyncInv, FileInv, CoreInv, DataOK, Views
<1>2. \A r \in Records : pc[r] \in {"applied", "acked", "failed"}
                           => pc'[r] \in {"applied", "acked", "failed"}
  <2> SUFFICES ASSUME NEW r \in Records, pc[r] = "applied", pc'[r] # "applied"
               PROVE  pc'[r] \in {"acked", "failed"}
    BY <1>1, CallsMove
  <2>1. pc'[r] \in {"local", "acked", "failed"}
    BY <1>1, CallsMove
  <2>2. FillLocal(r) => pc[r] = "open"
    BY DEF FillLocal
  <2> QED
    BY <1>1, <2>1, <2>2, CallsFrom
<1>3. CASE mem'.has \subseteq mem.has
  BY <1>1, <1>2, <1>3 DEF ShownCalls
<1>4. ASSUME NEW r \in Records, ApplyLocal(r) PROVE ShownCalls'
  <2>1. mem'.has = mem.has \cup {r} /\ pc'[r] = "applied"
    BY <1>1, <1>4 DEF ApplyLocal, Applied
  <2> QED
    BY <1>1, <1>2, <2>1 DEF ShownCalls
<1>5. ASSUME NEW f \in local, ReplayLocal(f) PROVE ShownCalls'
  <2>1. f.rec \in Records /\ pc[f.rec] \in {"acked", "failed"}
    BY <1>1, <1>5 DEF ReplayLocal, FilesOK, Reopening, FileInv, AsyncTypeOK
  <2>2. mem'.has = mem.has \cup {f.rec} /\ pc' = pc
    BY <1>5 DEF ReplayLocal, Applied
  <2> QED
    BY <1>1, <2>1, <2>2 DEF ShownCalls
<1>6. CASE CrashLocal
  <2> SUFFICES ASSUME NEW r \in mem'.has PROVE pc'[r] \in {"applied", "acked", "failed"}
    BY DEF ShownCalls
  <2>1. PICK v \in {manifest.view, sst} :
          sst' = v /\ mem' = Replayed(v, Above(wal', manifest.maxSeq))
    BY <1>6, AsyncRestart
  <2>2. v.has \subseteq mem.has
    BY <1>1 DEF CoreInv, Contained
  <2>3. r \in v.has \/ \E o \in wal' : r \in Range(o.recs)
    BY <2>1 DEF Replayed, Above
  <2>4. CASE r \in v.has
    BY <1>1, <1>2, <2>2, <2>4 DEF ShownCalls
  <2>5. CASE \E o \in wal' : r \in Range(o.recs)
    <3>1. r \in Records /\ status'[r] # "idle"
      BY <1>6, <2>5, AsyncRestart, RangeRecords DEF Objects
    <3>2. Reopening' /\ opening'
      BY <1>6, ReopeningStep DEF CrashLocal
    <3> QED
      BY <3>1, <3>2 DEF Reopening
  <2> QED
    BY <2>3, <2>4, <2>5
<1>7. ASSUME UNCHANGED mem PROVE ShownCalls'
  BY <1>3, <1>7
<1>8. CASE EngineStep
  BY <1>7, <1>8 DEF EngineStep, Write, WalStep, engVars, SyncStep, SyncFlush, SyncCheckpoint,
     SyncReadSeq, SyncManifest, SyncReturn, SyncGC, SyncDelete, syncOthers, MemtableFlush
<1> QED
  BY <1>4, <1>5, <1>6, <1>7, <1>8 DEF AsyncNext, OpenLocal, FillLocal, AckLocal, Ack, FailLocal,
     Clean, OpenDone, allVars, vars, engVars

\* v, a view before or after the step, serves the calls as they are after it.
ServesAfter(v) ==
  \A r \in v.has :
    pc'[r] \in {"applied", "acked"} =>
      \/ v.val[KeyOf[r]] # None /\ v.val[KeyOf[r]] \notin before'[r]
      \/ r \in clobbered' \cup lapsed' \cup shadowed'
      \/ opening' /\ \E f \in local' : f.rec = r

LEMMA ServedBefore ==
  ASSUME AsyncInv, [AsyncNext]_allVars, NEW r \in Records, pc'[r] \in {"applied", "acked"}
  PROVE  pc[r] \in {"applied", "acked"} \/ (ApplyLocal(r) /\ pc[r] = "local")
  BY CallsFrom DEF AsyncInv, ApplyLocal

\* A view that serves the calls before a step serves them after it.
LEMMA ViewCarried ==
  ASSUME Reliable, AsyncInv, [AsyncNext]_allVars
  PROVE  \A v \in {mem, sst, sync.view, manifest.view} : ServesAfter(v)
<1> SUFFICES ASSUME NEW v \in {mem, sst, sync.view, manifest.view}, NEW r \in v.has,
                    pc'[r] \in {"applied", "acked"}
             PROVE  \/ v.val[KeyOf[r]] # None /\ v.val[KeyOf[r]] \notin before'[r]
                    \/ r \in clobbered' \cup lapsed' \cup shadowed'
                    \/ opening' /\ \E f \in local' : f.rec = r
  BY DEF ServesAfter
<1>1. FileInv /\ CoreInv /\ ShownCalls
  BY DEF AsyncInv
<1>2. r \in mem.has
  BY <1>1 DEF CoreInv, Contained
<1>3. r \in Records /\ status[r] # "idle" /\ before'[r] = before[r]
  BY <1>1, <1>2, ShownNumbers, AcceptedSame
<1>4. pc[r] \in {"applied", "acked"}
  BY <1>1, <1>2, <1>3, ServedBefore DEF ShownCalls
<1>5. Fresh(v, r) \/ r \in clobbered \cup lapsed \cup shadowed \/ Pending(r)
  BY <1>4 DEF AsyncInv, ViewsServe, Serves, Served
<1>6. CASE Pending(r)
  BY <1>3, <1>6, PendingStays DEF Pending, InFile
<1> QED
  BY <1>3, <1>5, <1>6, HistoryGrows DEF Fresh

LEMMA ViewsFrom ==
  ASSUME ServesAfter(mem'), ServesAfter(sst'), ServesAfter(sync'.view), ServesAfter(manifest'.view)
  PROVE  ViewsServe'
  BY DEF ServesAfter, ViewsServe, Serves, Served, Fresh, Pending, InFile

\* The replay of the log on top of a view that serves.
LEMMA RestartServes ==
  ASSUME Reliable, AsyncInv, CrashLocal
  PROVE  ServesAfter(mem') /\ ServesAfter(sst')
<1>1. [AsyncNext]_allVars
  BY DEF AsyncNext
<1>2. PICK v \in {manifest.view, sst} :
        sst' = v /\ mem' = Replayed(v, Above(wal', manifest.maxSeq))
  BY AsyncRestart
<1>3. ServesAfter(v)
  BY <1>1, ViewCarried
<1>4. /\ CoreInv /\ FileInv /\ v \in Views /\ v.has \subseteq mem.has /\ manifest.maxSeq \in Nat
      /\ seqOf \in [Records -> Nat] /\ History /\ covered = manifest.maxSeq
  BY DEF AsyncInv, FileInv, CoreInv, DataOK, Contained, SvcInv, SvcTypeOK, Covering
<1>5. /\ wal \subseteq wal' /\ UNCHANGED <<before, seqOf>> /\ maxWALSeq' \in Nat
      /\ \A o \in wal' : o.seq <= maxWALSeq'
      /\ Ordered(wal') /\ Numbered(wal') /\ wal' \in SUBSET Objects
  BY AsyncRestart
<1>6. ASSUME NEW r \in Records,
             \/ \E o \in Above(wal', manifest.maxSeq) : r \in Range(o.recs)
             \/ Fresh(v, r) /\ (seqOf[r] <= manifest.maxSeq \/ \E o \in wal' : r \in Range(o.recs))
      PROVE  Fresh(mem', r)
  BY <1>2, <1>4, <1>5, <1>6, ReplayedShows
<1>7. ASSUME NEW r \in mem'.has, pc'[r] \in {"applied", "acked"}
      PROVE  \/ Fresh(mem', r)
             \/ r \in clobbered' \cup lapsed' \cup shadowed'
             \/ opening' /\ \E f \in local' : f.rec = r
  <2>1. r \in v.has \/ \E o \in Above(wal', manifest.maxSeq) : r \in Range(o.recs)
    BY <1>2 DEF Replayed
  <2>2. r \in Records
    BY <1>4, <1>5, <2>1, RangeRecords DEF Views, Above, Objects
  <2>3. CASE \E o \in Above(wal', manifest.maxSeq) : r \in Range(o.recs)
    BY <1>6, <2>2, <2>3
  <2>4. CASE r \in v.has
    <3>1. \/ Fresh(v, r)
          \/ r \in clobbered' \cup lapsed' \cup shadowed'
          \/ opening' /\ \E f \in local' : f.rec = r
      BY <1>3, <1>5, <1>7, <2>4 DEF ServesAfter, Fresh
    <3>2. InLog(r) \/ InFile(r) \/ r \in clobbered \cup lapsed
      BY <1>1, <1>7, <2>2, ServedBefore DEF AsyncInv, WrittenKept
    <3>3. CASE InFile(r) \/ r \in clobbered \cup lapsed
      BY <3>3 DEF InFile, CrashLocal
    <3>4. CASE InLog(r) /\ Fresh(v, r)
      <4>1. seqOf[r] <= manifest.maxSeq \/ \E o \in wal' : r \in Range(o.recs)
        BY <1>4, <1>5, <3>4 DEF InLog, Holds
      <4> QED
        BY <1>6, <2>2, <3>4, <4>1
    <3> QED
      BY <3>1, <3>2, <3>3, <3>4
  <2> QED
    BY <2>1, <2>3, <2>4
<1> QED
  BY <1>2, <1>3, <1>5, <1>7 DEF ServesAfter, Fresh

LEMMA ViewsStep ==
  ASSUME Reliable, AsyncInv, [AsyncNext]_allVars
  PROVE  ViewsServe'
<1>1. /\ ServesAfter(mem) /\ ServesAfter(sst) /\ ServesAfter(sync.view)
      /\ ServesAfter(manifest.view) /\ ServesAfter(Empty)
  BY ViewCarried, EmptyType DEF ServesAfter
<1>2. /\ FileInv /\ CoreInv /\ History /\ ShownCalls /\ SyncShape /\ mem \in Views
      /\ Reopening /\ FilesOK
  BY DEF AsyncInv, FileInv, CoreInv, SweepInv, BaseInv, DataOK
<1>3. \A r \in mem.has : r \in Records /\ status[r] # "idle" /\ KeyOf[r] \in Keys
  BY <1>2, ShownNumbers, EngineAssumption
<1>4. ASSUME NEW q \in Records, mem' = Applied(mem, q)
      PROVE  /\ mem'.has = mem.has \cup {q} /\ KeyOf[q] \in Keys
             /\ mem'.val[KeyOf[q]] = q /\ q # None
             /\ \A k \in Keys \ {KeyOf[q]} : mem'.val[k] = mem.val[k]
  BY <1>2, <1>4, EngineAssumption DEF Applied, Views
<1>5. ASSUME NEW q \in Records, ApplyLocal(q) PROVE ViewsServe'
  <2>1. mem' = Applied(mem, q) /\ pc[q] = "local" /\ UNCHANGED <<before, sst, sync, manifest>>
    BY <1>5 DEF ApplyLocal, callOthers, rest
  <2>2. \A r \in Records : q \notin before[r]
    BY <1>2, <2>1 DEF History, Returned
  <2>3. ASSUME NEW r \in mem'.has, pc'[r] \in {"applied", "acked"}
        PROVE  \/ mem'.val[KeyOf[r]] # None /\ mem'.val[KeyOf[r]] \notin before'[r]
               \/ r \in clobbered' \cup lapsed' \cup shadowed'
               \/ opening' /\ \E f \in local' : f.rec = r
    <3>1. r = q \/ r \in mem.has
      BY <1>4, <2>1
    <3>2. CASE KeyOf[r] = KeyOf[q]
      BY <1>3, <1>4, <2>1, <2>2, <3>1, <3>2
    <3>3. CASE KeyOf[r] # KeyOf[q]
      BY <1>1, <1>3, <1>4, <2>1, <2>3, <3>1, <3>3 DEF ServesAfter
    <3> QED
      BY <3>2, <3>3
  <2>4. ServesAfter(mem')
    BY <2>3 DEF ServesAfter
  <2> QED
    BY <1>1, <2>1, <2>4, ViewsFrom
<1>6. ASSUME NEW g \in local, ReplayLocal(g) PROVE ViewsServe'
  <2>1. /\ g.rec \in Records /\ mem' = Applied(mem, g.rec) /\ UNCHANGED <<before, sst, sync, manifest>>
        /\ shadowed' = shadowed \cup {r \in Records : g.rec \in before[r]}
        /\ lapsed' = lapsed \cup {g.rec}
    BY <1>2, <1>6 DEF ReplayLocal, rest, FileInv, AsyncTypeOK
  <2>2. ASSUME NEW r \in mem'.has, pc'[r] \in {"applied", "acked"}
        PROVE  \/ mem'.val[KeyOf[r]] # None /\ mem'.val[KeyOf[r]] \notin before'[r]
               \/ r \in clobbered' \cup lapsed' \cup shadowed'
               \/ opening' /\ \E f \in local' : f.rec = r
    <3>1. r = g.rec \/ r \in mem.has
      BY <1>4, <2>1
    <3>2. CASE r = g.rec
      BY <2>1, <3>2
    <3>3. CASE r \in mem.has /\ KeyOf[r] = KeyOf[g.rec]
      BY <1>3, <1>4, <2>1, <3>3
    <3>4. CASE r \in mem.has /\ KeyOf[r] # KeyOf[g.rec]
      BY <1>1, <1>3, <1>4, <2>1, <2>2, <3>4 DEF ServesAfter
    <3> QED
      BY <3>1, <3>2, <3>3, <3>4
  <2>3. ServesAfter(mem')
    BY <2>2 DEF ServesAfter
  <2> QED
    BY <1>1, <2>1, <2>3, ViewsFrom
<1>7. CASE CrashLocal
  <2>1. sync'.view = Empty /\ UNCHANGED manifest
    BY <1>7, AsyncRestart
  <2> QED
    BY <1>1, <1>7, <2>1, RestartServes, ViewsFrom
<1>8. ASSUME mem' = mem, sst' \in {mem, sst}, sync'.view \in {Empty, sst, sync.view},
             manifest'.view \in {manifest.view, sync.view}
      PROVE  ViewsServe'
  BY <1>1, <1>8, ViewsFrom
<1>9. CASE UNCHANGED <<mem, sst, sync, manifest>>
  BY <1>8, <1>9
<1>10. CASE EngineStep
  <2>1. CASE MemtableFlush
    BY <1>8, <2>1 DEF MemtableFlush, rest
  <2>2. CASE SyncFlush \/ SyncCheckpoint \/ SyncReadSeq \/ SyncReturn
    BY <1>2, <1>8, <2>2, SyncFields DEF SyncFlush, SyncCheckpoint, SyncReadSeq, SyncReturn,
       syncOthers, rest
  <2>3. CASE SyncManifest
    BY <1>2, <1>8, <2>3, SyncFields DEF SyncManifest, syncOthers
  <2>4. ASSUME NEW old, SyncGC(old) PROVE ViewsServe'
    BY <1>2, <1>8, <2>4, SyncFields DEF SyncGC, syncOthers, rest
  <2>5. ASSUME NEW o, SyncDelete(o) PROVE ViewsServe'
    BY <1>2, <1>8, <2>5, SyncFields DEF SyncDelete, syncOthers, rest
  <2>6. CASE WalStep \/ \E r \in Records : Write(r)
    BY <1>9, <2>6 DEF WalStep, engVars, Write, rest
  <2> QED
    BY <1>10, <2>1, <2>2, <2>3, <2>4, <2>5, <2>6 DEF EngineStep, SyncStep
<1>11. ASSUME NEW r \in Records, OpenLocal(r) \/ FillLocal(r) \/ AckLocal(r) \/ FailLocal(r) \/ Clean(r)
       PROVE  UNCHANGED <<mem, sst, sync, manifest>>
  BY <1>11 DEF OpenLocal, FillLocal, AckLocal, Ack, FailLocal, Clean, callOthers, rest, vars, engVars
<1>12. CASE OpenDone \/ UNCHANGED allVars
  BY <1>9, <1>12 DEF OpenDone, allVars, vars, engVars
<1> QED
  BY <1>5, <1>6, <1>7, <1>9, <1>10, <1>11, <1>12 DEF AsyncNext

LEMMA ServedStep ==
  ASSUME Reliable, AsyncInv, [AsyncNext]_allVars
  PROVE  ServedShown'
<1> SUFFICES ASSUME NEW r \in Records, pc'[r] \in {"applied", "acked"}
             PROVE  \/ r \in mem'.has \cup missed' \cup reused' \cup clobbered' \cup lapsed'
                    \/ Pending(r)'
  BY DEF ServedShown, Served
<1>1. CoreInv /\ ServedShown /\ WrittenKept /\ FileInv
  BY DEF AsyncInv
<1>2. CASE ApplyLocal(r)
  BY <1>2 DEF ApplyLocal, Applied
<1>3. ASSUME pc[r] \in {"applied", "acked"}, ~CrashLocal
      PROVE  \/ r \in mem'.has \cup missed' \cup reused' \cup clobbered' \cup lapsed'
             \/ Pending(r)'
  <2>1. mem.has \subseteq mem'.has /\ missed \subseteq missed' /\ reused \subseteq reused'
    <3>1. CASE EngineStep
      BY <3>1 DEF EngineStep, Write, WalStep, engVars, SyncStep, SyncFlush, SyncCheckpoint,
         SyncReadSeq, SyncManifest, SyncReturn, SyncGC, SyncDelete, syncOthers, MemtableFlush, rest
    <3>2. ASSUME NEW q \in Records, OpenLocal(q) \/ FillLocal(q) \/ AckLocal(q) \/ FailLocal(q)
                                    \/ Clean(q) \/ ApplyLocal(q)
          PROVE  mem.has \subseteq mem'.has /\ UNCHANGED <<missed, reused>>
      BY <3>2 DEF OpenLocal, FillLocal, AckLocal, Ack, FailLocal, Clean, ApplyLocal, Applied,
         callOthers, rest, vars, engVars
    <3>3. ASSUME NEW f \in local, ReplayLocal(f)
          PROVE  mem.has \subseteq mem'.has /\ UNCHANGED <<missed, reused>>
      BY <3>3 DEF ReplayLocal, Applied, rest
    <3>4. CASE OpenDone \/ UNCHANGED allVars
      BY <3>4 DEF OpenDone, allVars, vars, engVars
    <3> QED
      BY <1>3, <3>1, <3>2, <3>3, <3>4 DEF AsyncNext
  <2>2. CASE Pending(r)
    BY <2>2, PendingStays
  <2> QED
    BY <1>1, <1>3, <2>1, <2>2, HistoryGrows DEF ServedShown, Served
<1>4. ASSUME pc[r] \in {"applied", "acked"}, CrashLocal
      PROVE  \/ r \in mem'.has \cup missed' \cup reused' \cup clobbered' \cup lapsed'
             \/ Pending(r)'
  <2>1. PICK v \in {manifest.view, sst} :
          sst' = v /\ mem' = Replayed(v, Above(wal', manifest.maxSeq))
    BY <1>4, AsyncRestart
  <2>2. /\ wal \subseteq wal' /\ UNCHANGED <<manifest, covered, missed, reused>>
    BY <1>4, AsyncRestart
  <2>3. /\ manifest.view.has \subseteq v.has /\ covered = manifest.maxSeq
        /\ manifest.maxSeq \in Nat /\ seqOf[r] \in Nat /\ seqOf[r] > 0
    <3>1. status[r] # "idle"
      BY <1>1, <1>4 DEF FileInv, IdleCalls
    <3> QED
      BY <1>1, <3>1 DEF CoreInv, Contained, Covering, DataOK, FileInv, SvcInv, SvcTypeOK, History
  <2>4. mem'.has = v.has \cup UNION {Range(o.recs) : o \in Above(wal', manifest.maxSeq)}
    BY <2>1 DEF Replayed
  <2>5. CASE InFile(r) \/ r \in clobbered \cup lapsed
    BY <1>4, <2>5 DEF CrashLocal, InFile, Pending
  <2>6. CASE seqOf[r] <= covered
    BY <1>1, <2>2, <2>3, <2>4, <2>6 DEF CoreInv, CoveredShown
  <2>7. ASSUME NEW o \in wal, Holds(o, r), ~(seqOf[r] <= covered) PROVE r \in mem'.has
    <3>1. o \in Above(wal', manifest.maxSeq)
      BY <2>2, <2>3, <2>7 DEF Holds, Above
    <3> QED
      BY <2>4, <2>7, <3>1 DEF Holds
  <2> QED
    BY <1>1, <1>4, <2>5, <2>6, <2>7 DEF WrittenKept, InLog
<1> QED
  BY <1>2, <1>3, <1>4, ServedBefore

LEMMA AsyncStart == AsyncInit => AsyncInv
<1> SUFFICES ASSUME AsyncInit PROVE AsyncInv
  OBVIOUS
<1>1. FileInv
  BY FileStart
<1>2. CoreInv
  BY RecoverStart DEF AsyncInit, RecoverInv
<1>3. LocalBounded
  BY DEF AsyncInit, LocalBounded
<1>4. /\ \A r \in Records : status[r] = "idle" /\ pc[r] = "wal"
      /\ local = {} /\ cleaners = {} /\ ~opening
      /\ mem = Empty /\ sst = Empty /\ sync.view = Empty /\ manifest.view = Empty
  BY DEF AsyncInit, Init, SvcInit, SyncIdle
<1> QED
  BY <1>1, <1>2, <1>3, <1>4, EmptyType DEF AsyncInv, Reopening, SameWindow, InWindow, Running, InFile,
     OpenKept, WrittenKept, ShownCalls, ViewsServe, Serves, ServedShown, Served

LEMMA AsyncStep ==
  ASSUME Reliable
  PROVE  AsyncInv /\ [AsyncNext]_allVars => AsyncInv'
<1> SUFFICES ASSUME AsyncInv, [AsyncNext]_allVars PROVE AsyncInv'
  OBVIOUS
<1>1. FileInv' /\ CoreInv'
  BY FileStep, AsyncCoreStep DEF AsyncInv
<1> QED
  BY <1>1, BoundedStep, ReopeningStep, WindowStep, OpenStep, WrittenStep, ShownStep, ViewsStep,
     ServedStep DEF AsyncInv

\* The inductive invariant of an engine with AsyncWAL.
THEOREM AsyncInvariant ==
  ASSUME Reliable
  PROVE  AsyncSpec => []AsyncInv
  BY AsyncStart, AsyncStep, PTL DEF AsyncSpec

\* After any number of crashes, interrupted replays, shared windows and failed uploads,
\* a running node serves every acknowledged write that was not lost in a named way.
THEOREM AsyncServesAcked ==
  ASSUME Reliable
  PROVE  AsyncSpec => []AsyncServes
<1>1. ASSUME AsyncInv PROVE AsyncServes
  <2> SUFFICES ASSUME ~opening, NEW r \in Acked
               PROVE  \/ Fresh(mem, r)
                      \/ r \in missed \cup reused \cup clobbered \cup lapsed \cup shadowed
    BY DEF AsyncServes
  <2>1. r \in Records /\ Served(r) /\ ~Pending(r)
    BY DEF Acked, Served, Pending
  <2> QED
    BY <1>1, <2>1 DEF AsyncInv, ServedShown, ViewsServe, Serves
<1> QED
  BY <1>1, AsyncInvariant, PTL

\* An acknowledged write is in what a node that keeps its disk and opens recovers from the
\* object store and its local files, or was lost in one of the named ways.
THEOREM AsyncLoss ==
  ASSUME Reliable
  PROVE  AsyncSpec => []AsyncLossExplained
<1>1. ASSUME AsyncInv PROVE AsyncLossExplained
  <2> SUFFICES ASSUME NEW r \in Acked,
                      r \notin missed \cup reused \cup clobbered \cup lapsed \cup shadowed,
                      Openable, \A f \in local : f.rec \notin before[r]
               PROVE  Fresh(AsyncRecovered, r)
    BY DEF AsyncLossExplained
  <2>1. /\ r \in Records /\ pc[r] = "acked" /\ KeyOf[r] \in Keys /\ status[r] # "idle"
        /\ CoreInv /\ FileInv /\ SvcInv
    BY <1>1, EngineAssumption DEF Acked, AsyncInv, FileInv, IdleCalls
  <2>2. local \subseteq [seq : Nat, rec : Records \cup {Partial}]
    BY <2>1 DEF FileInv, AsyncTypeOK
  <2>3. PICK n \in Nat : \A f \in local : f.seq <= n
    BY <1>1 DEF AsyncInv, LocalBounded
  <2>4. \A o \in LocalObjects : \E f \in local :
          /\ f.rec # Partial /\ f.rec \in Records /\ o = [seq |-> f.seq, recs |-> <<f.rec>>]
    BY <2>2 DEF LocalObjects, Openable
  <2>5. ASSUME NEW f \in local, f.rec \in Records PROVE f.seq = seqOf[f.rec] /\ f.seq > 0
    BY <2>1, <2>5, AsyncAssumption DEF FileInv, FilesOK, CoreInv, History
  <2>6. LocalObjects \in SUBSET Objects /\ \A o \in LocalObjects : o.seq <= n
    <3> SUFFICES ASSUME NEW o \in LocalObjects PROVE o \in Objects /\ o.seq <= n
      OBVIOUS
    <3>1. PICK f \in local : f.rec \in Records /\ o = [seq |-> f.seq, recs |-> <<f.rec>>]
      BY <2>4
    <3>2. f.seq \in Nat \ {0} /\ <<f.rec>> \in Seq(Records)
      BY <2>2, <2>5, <3>1
    <3> QED
      BY <2>3, <3>1, <3>2 DEF Objects
  <2>7. CASE Writers(LocalObjects, KeyOf[r]) # {}
    <3>1. PICK o \in Writers(LocalObjects, KeyOf[r]) :
            \E i \in Wrote(o, KeyOf[r]) : AsyncRecovered.val[KeyOf[r]] = o.recs[i]
      BY <2>1, <2>6, <2>7, ReplayedKey DEF AsyncRecovered
    <3>2. PICK i \in Wrote(o, KeyOf[r]) : AsyncRecovered.val[KeyOf[r]] = o.recs[i]
      BY <3>1
    <3>3. PICK f \in local : f.rec \in Records /\ o = [seq |-> f.seq, recs |-> <<f.rec>>]
      BY <2>4 DEF Writers
    <3>4. o.recs[i] = f.rec
      BY <3>3 DEF Wrote
    <3> QED
      BY <3>2, <3>3, <3>4, EngineAssumption DEF Fresh
  <2>8. CASE Writers(LocalObjects, KeyOf[r]) = {}
    <3>1. AsyncRecovered.val[KeyOf[r]] = Recovered.val[KeyOf[r]]
      BY <2>1, <2>6, <2>8, ReplayedKey DEF AsyncRecovered
    <3>2. ~InFile(r)
      <4> SUFFICES ASSUME NEW f \in local, f.rec = r PROVE FALSE
        BY DEF InFile
      <4> DEFINE o == [seq |-> f.seq, recs |-> <<r>>]
      <4>1. o \in LocalObjects
        BY <2>1 DEF LocalObjects
      <4>2. 1 \in Wrote(o, KeyOf[r])
        BY DEF Wrote
      <4> QED
        BY <2>8, <4>1, <4>2 DEF Writers
    <3>3. InLog(r)
      BY <1>1, <2>1, <3>2 DEF AsyncInv, WrittenKept
    <3>4. /\ manifest.view \in Views /\ manifest.maxSeq \in Nat /\ covered = manifest.maxSeq
          /\ wal \in SUBSET Objects /\ Ordered(wal) /\ Numbered(wal) /\ History
          /\ seqOf \in [Records -> Nat] /\ nextSeq \in Nat /\ \A o \in wal : o.seq <= nextSeq
          /\ seqOf[r] > 0
      BY <2>1 DEF CoreInv, DataOK, Covering, SvcInv, SvcTypeOK, LogOrder, NumbersFresh,
         ObjectWriters, Numbered, History, Objects
    <3>5. CASE seqOf[r] <= covered
      <4>1. r \in manifest.view.has
        BY <2>1, <3>4, <3>5 DEF CoreInv, CoveredShown
      <4>2. Fresh(manifest.view, r)
        BY <1>1, <2>1, <3>2, <4>1 DEF AsyncInv, ViewsServe, Serves, Served, Pending
      <4>3. Fresh(Recovered, r)
        BY <2>1, <3>4, <3>5, <4>2, ReplayedShows DEF Recovered
      <4> QED
        BY <3>1, <4>3 DEF Fresh
    <3>6. ASSUME NEW o \in wal, Holds(o, r), ~(seqOf[r] <= covered) PROVE Fresh(AsyncRecovered, r)
      <4>1. o \in Above(wal, manifest.maxSeq) /\ r \in Range(o.recs)
        BY <2>1, <3>4, <3>6 DEF Above, Holds
      <4>2. Fresh(Recovered, r)
        BY <2>1, <3>4, <4>1, ReplayedShows DEF Recovered
      <4> QED
        BY <3>1, <4>2 DEF Fresh
    <3> QED
      BY <3>3, <3>5, <3>6 DEF InLog
  <2> QED
    BY <2>7, <2>8
<1> QED
  BY <1>1, AsyncInvariant, PTL
===============================================================================
