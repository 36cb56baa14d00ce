------------------------------- MODULE AsyncWAL -------------------------------
(* engine.Engine with AsyncWAL on: a write is registered with the log, saved in
   a file of the local disk, applied and acknowledged; a goroutine removes the
   file once the log has answered.  A restarted engine replays the files that
   are left on top of what it recovered from the object store.

   The log, Sync, the collector and the recovery from the object store are those
   of Engine, in strong mode.  The local disk survives a crash.  *)
EXTENDS Engine

CONSTANT Partial      \* the content of a file that is no complete record

ASSUME AsyncAssumption == Partial \notin Records /\ Strong

VARIABLES
  local,      \* the files localwal/{seq}.wal: a set of [seq, rec], one per number
  cleaners,   \* records whose goroutine waits for the log's answer
  opening,    \* Open is replaying the local files
  clobbered,  \* history: records whose file another writer truncated
  lapsed,     \* history: records whose file was replayed and deleted
  shadowed    \* history: records an older one was replayed over

asyncVars == <<local, cleaners, opening, clobbered, lapsed, shadowed>>
allVars == <<vars, asyncVars>>

AsyncInit ==
  /\ Init
  /\ local = {} /\ cleaners = {} /\ opening = FALSE
  /\ clobbered = {} /\ lapsed = {} /\ shadowed = {}

Named(seq) == {f \in local : f.seq = seq}

\* The record another writer left in the file of r's number.
Others(r) == {f.rec : f \in Named(seqOf[r])} \ {r, Partial}

-------------------------------------------------------------------------------
(* applyThenWALAsync *)

\* WriteRecord: it returns at once with batching, otherwise when the Put is done.
Registered(r) == status[r] \in (IF Batching THEN {"waiting", "ok", "failed"} ELSE {"ok"})

\* What the steps of one call leave alone.
callOthers == <<svcVars, before, sst, sync, replay, cold, rest, reused>>

\* Mutant: the file of another writer of the window is left in place.
OpenLocalBeside(r) ==
  /\ ~opening
  /\ pc[r] = "wal" /\ Registered(r)
  /\ local' = local \cup {[seq |-> seqOf[r], rec |-> Partial]}
  /\ pc' = [pc EXCEPT ![r] = "open"]
  /\ UNCHANGED <<callOthers, mem, maxWALSeq, cleaners, opening, clobbered, lapsed, shadowed>>

\* writeFileSync opens the file of the record's number: an existing one, of another
\* writer of the same window, is truncated.
OpenLocal(r) ==
  /\ ~opening
  /\ pc[r] = "wal" /\ Registered(r)
  /\ local' = (local \ Named(seqOf[r])) \cup {[seq |-> seqOf[r], rec |-> Partial]}
  /\ clobbered' = clobbered \cup Others(r)
  /\ pc' = [pc EXCEPT ![r] = "open"]
  /\ UNCHANGED <<callOthers, mem, maxWALSeq, cleaners, opening, lapsed, shadowed>>

\* It writes and fsyncs the record.  What another writer of the file put there since
\* stays behind the end of a shorter record, and a file that was removed meanwhile
\* does not come back.
FillLocal(r) ==
  /\ ~opening
  /\ pc[r] = "open"
  /\ \E content \in IF Others(r) = {} THEN {r} ELSE {r, Partial} :
       /\ local' = (local \ Named(seqOf[r])) \cup
                     {[seq |-> seqOf[r], rec |-> content] : f \in Named(seqOf[r])}
       /\ clobbered' = clobbered \cup Others(r) \cup {q \in {r} : content = Partial}
  /\ pc' = [pc EXCEPT ![r] = "local"]
  /\ UNCHANGED <<callOthers, mem, maxWALSeq, cleaners, opening, lapsed, shadowed>>

\* Mutant: a failed db.Apply goes unnoticed.
ApplySkipped(r) ==
  /\ ~opening
  /\ pc[r] = "local"
  /\ pc' = [pc EXCEPT ![r] = "applied"]
  /\ UNCHANGED <<callOthers, mem, maxWALSeq, asyncVars>>

\* db.Apply.
ApplyLocal(r) ==
  /\ ~opening
  /\ pc[r] = "local"
  /\ mem' = Applied(mem, r)
  /\ pc' = [pc EXCEPT ![r] = "applied"]
  /\ UNCHANGED <<callOthers, maxWALSeq, asyncVars>>

\* maxWALSeq is raised, the goroutine is started if there is an answer to wait for,
\* and the call returns.
AckLocal(r) ==
  /\ ~opening
  /\ Ack(r)
  /\ cleaners' = IF Batching THEN cleaners \cup {r} ELSE cleaners
  /\ UNCHANGED <<local, opening, clobbered, lapsed, shadowed>>

\* The call returns an error: WriteRecord, the local file or db.Apply failed.
FailLocal(r) ==
  /\ ~opening
  /\ pc[r] \in {"wal", "open", "local"} /\ status[r] # "idle"
  /\ pc[r] = "wal" /\ ~Batching => status[r] # "waiting"
  /\ pc' = [pc EXCEPT ![r] = "failed"]
  /\ UNCHANGED <<callOthers, mem, maxWALSeq, asyncVars>>

\* Mutant: the goroutine removes the file without waiting for the answer.
CleanEarly(r) ==
  /\ ~opening
  /\ r \in cleaners
  /\ local' = local \ Named(seqOf[r])
  /\ cleaners' = cleaners \ {r}
  /\ UNCHANGED <<vars, opening, clobbered, lapsed, shadowed>>

\* Mutant: the goroutine ends without removing the file.
CleanNothing(r) ==
  /\ ~opening
  /\ r \in cleaners /\ status[r] \in {"ok", "failed"}
  /\ cleaners' = cleaners \ {r}
  /\ UNCHANGED <<vars, local, opening, clobbered, lapsed, shadowed>>

\* The goroutine receives the log's answer: the file is removed, or kept after an error.
Clean(r) ==
  /\ ~opening
  /\ r \in cleaners /\ status[r] \in {"ok", "failed"}
  /\ local' = IF status[r] = "ok" THEN local \ Named(seqOf[r]) ELSE local
  /\ cleaners' = cleaners \ {r}
  /\ UNCHANGED <<vars, opening, clobbered, lapsed, shadowed>>

-------------------------------------------------------------------------------
(* Restart *)

CrashLocal ==
  /\ Crash
  /\ opening' = TRUE
  /\ cleaners' = {}
  /\ UNCHANGED <<local, clobbered, lapsed, shadowed>>

\* replayLocalWALs applies the files in the order of their names and deletes each; one
\* it cannot read ends the attempt to open, and the next attempt finds it again.
ReplayLocal(f) ==
  /\ opening
  /\ f \in local /\ f.rec # Partial
  /\ \A g \in local : f.seq <= g.seq
  /\ mem' = Applied(mem, f.rec)
  /\ local' = local \ {f}
  /\ lapsed' = lapsed \cup {f.rec}
  /\ shadowed' = shadowed \cup {r \in Records : f.rec \in before[r]}
  /\ UNCHANGED <<svcVars, pc, before, sst, maxWALSeq, sync, replay, cold, rest, reused,
                 cleaners, opening, clobbered>>

OpenDone ==
  /\ opening /\ local = {}
  /\ opening' = FALSE
  /\ UNCHANGED <<vars, local, cleaners, clobbered, lapsed, shadowed>>

-------------------------------------------------------------------------------
\* The rest of the engine: its loops start when Open is done.
EngineStep ==
  /\ \/ ~opening /\ ((\E r \in Records : Write(r)) \/ WalStep \/ SyncStep)
     \/ MemtableFlush
  /\ UNCHANGED asyncVars

AsyncNext ==
  \/ \E r \in Records :
       \/ OpenLocal(r) \/ FillLocal(r) \/ ApplyLocal(r) \/ AckLocal(r) \/ FailLocal(r)
       \/ Clean(r)
  \/ CrashLocal
  \/ \E f \in local : ReplayLocal(f)
  \/ OpenDone
  \/ EngineStep

AsyncSpec == AsyncInit /\ [][AsyncNext]_allVars

-------------------------------------------------------------------------------
(* Properties *)

AsyncTypeOK ==
  /\ pc \in [Records -> {"wal", "open", "local", "applied", "acked", "failed"}]
  /\ local \subseteq [seq : Nat, rec : Records \cup {Partial}]
  /\ \A f, g \in local : f.seq = g.seq => f = g
  /\ cleaners \subseteq Acked
  /\ opening \in BOOLEAN
  /\ clobbered \subseteq Records /\ lapsed \subseteq Records /\ shadowed \subseteq Records

\* replayLocalWALs reads every file.  A single unreadable one makes Open fail, at this and
\* at every later attempt, until someone removes it.
Openable == \A f \in local : f.rec # Partial

\* What a node that keeps its disk recovers in strong mode when it opens.
LocalObjects == {[seq |-> f.seq, recs |-> <<f.rec>>] : f \in local}
AsyncRecovered == Replayed(Recovered, LocalObjects)

\* Where acknowledged writes can get lost with AsyncWAL, a disk that survives and no
\* unreadable file in the way: as without it, when another writer of the window took over the file, when the file was
\* replayed and deleted before Pebble flushed what it held, or behind the left-over
\* file of an older write.  A file is never removed before its record is in the log,
\* and an upload that failed keeps it.
AsyncLossExplained ==
  Openable => \A r \in Acked :
    \/ Fresh(AsyncRecovered, r)
    \/ r \in missed \cup reused \cup clobbered \cup lapsed \cup shadowed
    \/ \E f \in local : f.rec \in before[r]

\* "Once uploaded, the local WAL file is deleted": whichever writers share a window and
\* in whatever order they write the file, a running engine still has a goroutine that
\* will remove the file of an acknowledged write whose upload succeeded.
UploadedOwned ==
  \A f \in local :
    Batching /\ ~opening /\ f.rec \in Acked /\ status[f.rec] = "ok"
      => \E q \in cleaners : seqOf[q] = f.seq

\* After any number of restarts the running node serves every acknowledged write, with
\* the exceptions of AsyncLossExplained.  An unreadable file keeps a node from running.
AsyncServes ==
  ~opening =>
    \A r \in Acked :
      Fresh(mem, r) \/ r \in missed \cup reused \cup clobbered \cup lapsed \cup shadowed

-------------------------------------------------------------------------------
(* What the documentation promises and the code does not keep. *)

\* "On crash, local WAL files are replayed - zero data loss if the SSD survives."
ZeroLoss ==
  \A r \in Acked : r \in missed \cup reused \/ (Openable /\ Fresh(AsyncRecovered, r))

\* The same of a node that restarts: its local files are replayed, whenever it crashed.
OpensAgain == opening => Openable
===============================================================================
