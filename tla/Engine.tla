-------------------------------- MODULE Engine --------------------------------
(* engine.Engine with synchronous WAL (AsyncWAL off): writers, checkpoints
   (Sync), WAL collection, crash and recovery, the replay loop of eventual
   consistency and cold-miss recovery, on top of the log WalService describes.

   A write is one record for one key (a delete is a record too).  Pebble runs
   with DisableWAL: what is in its memtable is lost in a crash and is not part of
   a checkpoint.  A checkpoint is one value here; how its files are uploaded is
   left to a module of its own.  *)
EXTENDS WalService

CONSTANTS
  Keys,
  KeyOf,          \* the key a record writes
  None,           \* the value of a key nobody wrote
  Batching,       \* BatchWindow > 0
  Strong,         \* ConsistencyStrong; otherwise ConsistencyEventual
  ManifestFaults, \* the Get of the manifest in recover may fail transiently
  ColdMisses,     \* reads may miss ColdMissThreshold times in a row
  LongOutages     \* a node may stay down for longer than orphanTTL

ASSUME EngineAssumption ==
  /\ KeyOf \in [Records -> Keys]
  /\ None \notin Records
  /\ Batching \in BOOLEAN
  /\ Strong \in BOOLEAN
  /\ ManifestFaults \in BOOLEAN
  /\ ColdMisses \in BOOLEAN
  /\ LongOutages \in BOOLEAN

VARIABLES
  pc,         \* the Set/Delete/Apply call of a record
  before,     \* history: the calls for the same key that had returned when it began
  mem,        \* what reads of the local Pebble return
  sst,        \* the part of it that is in SST files
  maxWALSeq,  \* Engine.maxWALSeq
  manifest,   \* manifest.json and the checkpoint it refers to
  sync,       \* the Sync call (syncMu: one at a time)
  replay,     \* the replay loop: listing still to visit and the object it read
  cold,       \* cold recovery: the MaxWALSeq of the manifest it read
  aged,       \* objects above the manifest that an outage made older than orphanTTL
  covered,    \* history: the highest MaxWALSeq a manifest had
  missed,     \* history: records a manifest covered and its checkpoint lacks
  reused      \* history: records accepted under a number the manifest covers

engVars == <<pc, before, mem, sst, maxWALSeq, manifest, sync, replay, cold, aged,
             covered, missed, reused>>
vars == <<svcVars, engVars>>

-------------------------------------------------------------------------------
(* The contents of a Pebble instance: the record that wrote each key last, and
   the set of records that went into it. *)

Views == [val : [Keys -> Records \cup {None}], has : SUBSET Records]

Empty == [val |-> [k \in Keys |-> None], has |-> {}]

Applied(v, r) == [val |-> [v.val EXCEPT ![KeyOf[r]] = r], has |-> v.has \cup {r}]

\* The records of an object are applied in the order they were merged in.
Wrote(o, k) == {i \in DOMAIN o.recs : KeyOf[o.recs[i]] = k}
\* Mutant: the position is taken for the record.
LastWriteIndex(o, k) == Len(o.recs)

LastWrite(o, k) == o.recs[CHOOSE i \in Wrote(o, k) : \A j \in Wrote(o, k) : j <= i]

\* Objects are replayed in ascending order, so the last one that has the key wins.
Replayed(v, W) ==
  [val |-> [k \in Keys |->
              LET writers == {o \in W : Wrote(o, k) # {}}
              IN IF writers = {} THEN v.val[k]
                 ELSE LastWrite(CHOOSE o \in writers : \A p \in writers : p.seq <= o.seq, k)],
   has |-> v.has \cup UNION {Range(o.recs) : o \in W}]

\* Mutant: the first object above maxWALSeq is skipped too.
AboveOffByOne(w, seq) == {o \in w : o.seq > seq + 1}

\* replayWALs takes the objects above maxWALSeq.
Above(w, seq) == {o \in w : o.seq > seq}

MaxOf(a, b) == IF a >= b THEN a ELSE b

\* n is maxWALSeq after the objects of W were replayed: it is only ever raised.
SeqAfter(seq, W, n) ==
  n \in {seq} \cup {o.seq : o \in W} /\ n >= seq /\ \A o \in W : o.seq <= n

SyncIdle == [pc |-> "idle", barrier |-> {}, view |-> Empty, seq |-> 0, todo |-> {}]
ReplayIdle == [todo |-> {}, read |-> {}]
NoCold == -1

Init ==
  /\ SvcInit
  /\ pc = [r \in Records |-> "wal"]
  /\ before = [r \in Records |-> {}]
  /\ mem = Empty /\ sst = Empty
  /\ maxWALSeq = 0
  /\ manifest = [maxSeq |-> 0, view |-> Empty]
  /\ sync = SyncIdle
  /\ replay = ReplayIdle
  /\ cold = NoCold
  /\ aged = {}
  /\ covered = 0 /\ missed = {} /\ reused = {}

-------------------------------------------------------------------------------
(* writeWALAndApply *)

\* What only Sync, or a crash, changes.
rest == <<manifest, covered, missed, aged>>

Returned == {r \in Records : pc[r] \in {"acked", "failed"}}

\* WriteRecord: the record is given a number, alone or in the open window.
Write(r) ==
  /\ pc[r] = "wal"
  /\ AcceptFresh(r) \/ (Batching /\ \E b \in batches : AcceptJoin(r, b))
  /\ before' = [before EXCEPT ![r] = {q \in Returned : KeyOf[q] = KeyOf[r]}]
  /\ reused' = IF seqOf'[r] <= manifest.maxSeq THEN reused \cup {r} ELSE reused
  /\ UNCHANGED <<pc, mem, sst, maxWALSeq, sync, replay, cold, rest>>

\* The log at work.
WalStep ==
  /\ \E b \in batches : Answer(b) \/ \E res \in {"ok", "err"} : StoreAnswers(b, res)
  /\ UNCHANGED engVars

\* The call returns an error: the WAL failed, its context ended while it waited, or
\* db.Apply failed after the WAL was durable.
ReturnError(r) ==
  /\ pc[r] = "wal" /\ status[r] \in {"waiting", "ok", "failed"}
  /\ pc' = [pc EXCEPT ![r] = "failed"]
  /\ UNCHANGED <<svcVars, before, mem, sst, maxWALSeq, sync, replay, cold, rest, reused>>

\* Mutant: the memtable is written while the WAL is on its way.
ApplyEarly(r) ==
  /\ pc[r] = "wal" /\ status[r] \in {"waiting", "ok"}
  /\ mem' = Applied(mem, r)
  /\ pc' = [pc EXCEPT ![r] = "applied"]
  /\ UNCHANGED <<svcVars, before, sst, maxWALSeq, sync, replay, cold, rest, reused>>

\* db.Apply, once the WAL is durable.
Apply(r) ==
  /\ pc[r] = "wal" /\ status[r] = "ok"
  /\ mem' = Applied(mem, r)
  /\ pc' = [pc EXCEPT ![r] = "applied"]
  /\ UNCHANGED <<svcVars, before, sst, maxWALSeq, sync, replay, cold, rest, reused>>

\* maxWALSeq is raised under mu and the call returns.
Ack(r) ==
  /\ pc[r] = "applied"
  /\ maxWALSeq' = MaxOf(maxWALSeq, seqOf[r])
  /\ pc' = [pc EXCEPT ![r] = "acked"]
  /\ UNCHANGED <<svcVars, before, mem, sst, sync, replay, cold, rest, reused>>

\* Pebble flushes a full memtable on its own.
MemtableFlush ==
  /\ sst' = mem
  /\ UNCHANGED <<svcVars, pc, before, mem, maxWALSeq, sync, replay, cold, rest, reused>>

-------------------------------------------------------------------------------
(* Sync *)

syncOthers == <<pc, before, mem, maxWALSeq, replay, cold, reused>>

\* AsyncFlush and its completion; then walMgr.Flush is called.
SyncFlush ==
  /\ sync.pc = "idle"
  /\ sst' = mem
  /\ sync' = [SyncIdle EXCEPT !.pc = "flushed",
                              !.barrier = {r \in Records : status[r] = "waiting"}]
  /\ UNCHANGED <<svcVars, syncOthers, rest>>

\* walMgr.Flush returned (with batching, the records that waited have been answered),
\* then the checkpoint is taken: the SST files of this moment.
SyncCheckpoint ==
  /\ sync.pc = "flushed"
  /\ Batching => \A r \in sync.barrier : status[r] # "waiting"
  /\ sync' = [sync EXCEPT !.pc = "checkpoint", !.barrier = {}, !.view = sst]
  /\ UNCHANGED <<svcVars, syncOthers, sst, rest>>

\* currentSeq := maxWALSeq, after the checkpoint; then the files are uploaded.
SyncReadSeq ==
  /\ sync.pc = "checkpoint"
  /\ sync' = [sync EXCEPT !.pc = "upload", !.seq = maxWALSeq]
  /\ UNCHANGED <<svcVars, syncOthers, sst, rest>>

\* Mutant: the versioned manifest is written and the pointer is left as it is.
SyncManifestUnpointed ==
  /\ sync.pc = "upload"
  /\ sync' = [sync EXCEPT !.pc = "manifest"]
  /\ UNCHANGED <<svcVars, syncOthers, sst, rest>>

\* The manifest pointer is written.
SyncManifest ==
  /\ sync.pc = "upload"
  /\ manifest' = [maxSeq |-> sync.seq, view |-> sync.view]
  /\ missed' = missed \cup ({r \in Records : seqOf[r] \in 1 .. sync.seq} \ sync.view.has)
  /\ covered' = MaxOf(covered, sync.seq)
  /\ sync' = [sync EXCEPT !.pc = "manifest"]
  /\ UNCHANGED <<svcVars, syncOthers, sst, aged>>

\* The numbers of the stored objects.
NumbersOf(w) == {o.seq : o \in w}

\* Mutant: the age of an object above the manifest is not looked at.
AbandonedAny(o) == TRUE

\* No call of the record is under way and none was acknowledged.
Abandoned(o) == \A r \in Range(o.recs) : pc[r] = "failed"

\* walMgr.GC lists the log: objects the manifest covers, and those above it that are
\* older than orphanTTL.  An hour is longer than any call takes to return and than
\* a replay tick, so only abandoned objects reach that age, or those that were in
\* the log of a node that was down.
SyncGC(old) ==
  /\ sync.pc = "manifest"
  /\ \A o \in old : Abandoned(o) \/ o.seq \in aged
  /\ sync' = [sync EXCEPT !.pc = "gc", !.view = Empty,
                          !.todo = {o.seq : o \in {p \in wal : p.seq <= sync.seq} \cup old}]
  /\ UNCHANGED <<svcVars, syncOthers, sst, rest>>

SyncDelete(o) ==
  /\ sync.pc = "gc"
  /\ o.seq \in sync.todo /\ \A s \in sync.todo : o.seq <= s
  /\ Collect(o)
  /\ sync' = [sync EXCEPT !.todo = sync.todo \ {o.seq}]
  /\ UNCHANGED <<syncOthers, sst, rest>>

\* Sync returns: GC is done, or a step of it failed.
SyncReturn ==
  /\ sync.pc # "idle"
  /\ sync' = SyncIdle
  /\ UNCHANGED <<svcVars, syncOthers, sst, rest>>

-------------------------------------------------------------------------------
(* Crash, Open and recover *)

\* pebble.Open on the local directory: a wiped one yields the downloaded
\* checkpoint; one that survived may instead yield its own SST files.
Opened(found) == {IF found THEN manifest.view ELSE Empty, sst}

Crash ==
  /\ Restart
  /\ \E found \in {TRUE} \cup {~ManifestFaults} :
       \E v \in Opened(found) :
         LET seq == IF found THEN manifest.maxSeq ELSE 0
             W == IF Strong THEN Above(wal', seq) ELSE {}
         IN /\ mem' = Replayed(v, W)
            /\ sst' = v
            /\ maxWALSeq' \in {seq} \cup {o.seq : o \in W}
            /\ SeqAfter(seq, W, maxWALSeq')
  /\ pc' = [r \in Records |->
              IF pc[r] = "acked" \/ status[r] = "idle" THEN pc[r] ELSE "failed"]
  /\ sync' = SyncIdle
  /\ replay' = ReplayIdle
  /\ cold' = NoCold
  /\ \E long \in {FALSE, LongOutages} :
       LET unread == NumbersOf(Above(wal', manifest.maxSeq))
       IN aged' = IF long THEN unread ELSE aged \cap unread
  /\ UNCHANGED <<before, manifest, covered, missed, reused>>

-------------------------------------------------------------------------------
(* walReplayLoop, in eventual mode: replayWALs lists once, and reads an object
   before it applies it. *)

replayOthers == <<svcVars, pc, before, sst, sync, cold, rest, reused>>

NextReplay(o) == o.seq \in replay.todo /\ \A s \in replay.todo : o.seq <= s

ReplayList ==
  /\ ~Strong
  /\ replay = ReplayIdle
  /\ replay' = [replay EXCEPT !.todo = {o.seq : o \in wal}]
  /\ UNCHANGED <<replayOthers, mem, maxWALSeq>>

ReplaySkip(s) ==
  /\ replay.read = {}
  /\ s \in replay.todo /\ s <= maxWALSeq
  /\ replay' = [replay EXCEPT !.todo = replay.todo \ {s}]
  /\ UNCHANGED <<replayOthers, mem, maxWALSeq>>

ReplayRead(o) ==
  /\ replay.read = {}
  /\ NextReplay(o) /\ o.seq > maxWALSeq
  /\ replay' = [todo |-> replay.todo \ {o.seq}, read |-> {o}]
  /\ UNCHANGED <<replayOthers, mem, maxWALSeq>>

ReplayApply ==
  /\ replay.read # {}
  /\ mem' = Replayed(mem, replay.read)
  /\ maxWALSeq' \in {maxWALSeq} \cup {o.seq : o \in replay.read}
  /\ SeqAfter(maxWALSeq, replay.read, maxWALSeq')
  /\ replay' = [replay EXCEPT !.read = {}]
  /\ UNCHANGED replayOthers

\* A List, Get or Apply that failed ends the pass.
ReplayStop ==
  /\ replay # ReplayIdle
  /\ replay' = ReplayIdle
  /\ UNCHANGED <<replayOthers, mem, maxWALSeq>>

-------------------------------------------------------------------------------
(* triggerColdRecovery on the running engine: recover reads the manifest, later
   assigns maxWALSeq, and fails in pebble.Open because the instance in use holds
   the lock of the directory. *)

coldOthers == <<svcVars, pc, before, mem, sst, sync, replay, rest, reused>>

ColdRead ==
  /\ ColdMisses
  /\ cold = NoCold
  /\ cold' = manifest.maxSeq
  /\ UNCHANGED <<coldOthers, maxWALSeq>>

ColdFail ==
  /\ cold # NoCold
  /\ maxWALSeq' = cold
  /\ cold' = NoCold
  /\ UNCHANGED coldOthers

-------------------------------------------------------------------------------
SyncStep ==
  \/ SyncFlush \/ SyncCheckpoint \/ SyncReadSeq \/ SyncManifest \/ SyncReturn
  \/ \E old \in SUBSET Above(wal, sync.seq) : SyncGC(old)
  \/ \E o \in wal : SyncDelete(o)

Replay ==
  \/ ReplayList \/ ReplayApply \/ ReplayStop
  \/ \E s \in replay.todo : ReplaySkip(s)
  \/ \E o \in wal : ReplayRead(o)

Next ==
  \/ \E r \in Records : Write(r) \/ ReturnError(r) \/ Apply(r) \/ Ack(r)
  \/ WalStep
  \/ MemtableFlush
  \/ SyncStep
  \/ Crash
  \/ Replay
  \/ ColdRead \/ ColdFail

Spec == Init /\ [][Next]_vars

\* The log answers, and syncLoop keeps calling Sync; a Sync may fail and the process
\* may crash, but not every time at the same step.
FairSpec ==
  /\ Spec
  /\ WF_vars(WalStep)
  /\ SF_vars(SyncFlush) /\ SF_vars(SyncCheckpoint) /\ SF_vars(SyncReadSeq)
  /\ SF_vars(SyncManifest) /\ WF_vars(SyncReturn)

-------------------------------------------------------------------------------
(* Properties *)

Acked == {r \in Records : pc[r] = "acked"}

TypeOK ==
  /\ SvcTypeOK
  /\ pc \in [Records -> {"wal", "applied", "acked", "failed"}]
  /\ before \in [Records -> SUBSET Records]
  /\ mem \in Views /\ sst \in Views
  /\ maxWALSeq \in Nat
  /\ manifest \in [maxSeq : Nat, view : Views]
  /\ sync \in [pc : {"idle", "flushed", "checkpoint", "upload", "manifest", "gc"},
               barrier : SUBSET Records, view : Views, seq : Nat, todo : SUBSET Nat]
  /\ replay \in [todo : SUBSET Nat, read : SUBSET Objects]
  /\ cold \in Nat \cup {NoCold}
  /\ aged \subseteq Nat
  /\ covered \in Nat
  /\ missed \subseteq Records /\ reused \subseteq Records

\* The record is in the log or was collected from it.
Logged(r) == (\E o \in wal : Holds(o, r)) \/ r \in gone

\* Write-ahead: whatever a read, an SST file or a checkpoint shows was in the log
\* first, also after replays, races between Sync and writers, and crashes.
WriteAhead == \A r \in mem.has \cup sst.has \cup manifest.view.has \cup sync.view.has : Logged(r)

\* What a node with an empty disk recovers in strong mode.
Recovered == Replayed(manifest.view, Above(wal, manifest.maxSeq))

\* The view shows r, or a write that had not returned when r began.
Fresh(v, r) == v.val[KeyOf[r]] # None /\ v.val[KeyOf[r]] \notin before[r]

\* An acknowledged write no manifest ever covered keeps its object: GC, its orphan rule
\* included, deletes nothing that only the log has.
UncoveredKept ==
  \A r \in Acked : seqOf[r] > covered => \E o \in wal : Holds(o, r)

\* Where acknowledged writes can get lost in strong mode: only when a manifest
\* covered a number its checkpoint did not contain, or a number was reused after
\* the log was emptied.  Every other acknowledged write is recovered, and not
\* behind an older value.
LossExplained == \A r \in Acked : Fresh(Recovered, r) \/ r \in missed \cup reused

\* The running node, after any number of recoveries, serves every acknowledged
\* write that was not lost in one of those two ways.
ServesAcked == \A r \in Acked : Fresh(mem, r) \/ r \in missed \cup reused

\* Every acknowledged write reaches a checkpoint, however often Sync fails half-way
\* or the node crashes and recovers, unless it was lost as above.
AckedCheckpointed ==
  \A r \in Records :
    pc[r] = "acked" ~> (r \in manifest.view.has \/ r \in missed \cup reused)

-------------------------------------------------------------------------------
(* What the documentation promises and the code does not keep: TLC refutes each of
   these, SurvivesSync in a run of its own.  In eventual mode with LongOutages
   UncoveredKept is refuted too, and with ColdMisses LossExplained is. *)

\* Set: "The write is durably committed to object storage before returning", and
\* Sync: "all data up to the current point is durably stored".
SurvivesSync == \A r \in Acked : Fresh(Recovered, r) \/ r \in reused

\* The same across restarts, leaving aside what a Sync missed: the sequence numbers
\* of the log are "a monotonic counter", so a manifest never covers a later write.
SurvivesRestart == \A r \in Acked : Fresh(Recovered, r) \/ r \in missed

\* "Eventual consistency converges to strong over time as the background WAL replay
\* loop catches up": a number the loop skips has been applied.
ReplayCatchesUp ==
  \A r \in Acked : seqOf[r] <= maxWALSeq => r \in mem.has \cup missed \cup reused
===============================================================================
