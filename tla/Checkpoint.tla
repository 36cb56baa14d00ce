------------------------------ MODULE Checkpoint ------------------------------
(* The files of a checkpoint: how Engine.Sync uploads them incrementally, deletes
   stale ones and publishes manifest.json, and how recover and Pebble use them.
   Complements Engine, where a checkpoint is a single value.

   A checkpoint has SST files, which Pebble never changes, and mutable files
   (CURRENT, MANIFEST-*, OPTIONS-*, markers), which are one file here: its content
   names the SST files that belong to the database and the next file number.
   Every SST file has a number, and a content: the process life that wrote it.
   Numbers are drawn again when a node restarts from an older checkpoint.  *)
EXTENDS Integers, FiniteSets, Functions, TLC

CONSTANTS
  MaxFile,     \* bound: SST file numbers
  MaxLife,     \* bound: process lives
  MaxVersion,  \* bound: manifest versions
  ColdMisses   \* reads may miss ColdMissThreshold times in a row

ASSUME CheckpointAssumption ==
  /\ MaxFile \in Nat \ {0} /\ MaxLife \in Nat \ {0}
  /\ MaxVersion \in Nat \ {0}
  /\ ColdMisses \in BOOLEAN

VARIABLES
  life,        \* the current process
  db,          \* local Pebble: its SST files and the next file number
  ssts,        \* object store: {ns}/data/*.sst, number -> content
  meta,        \* object store: the mutable files of {ns}/data
  manifest,    \* manifest.json (nothing reads the versioned copies beside it)
  version,     \* Engine.manifestVersion
  uploaded,    \* Engine.uploadedFiles (SST files only: the others are always put)
  sync,        \* the Sync call
  cold,        \* cold recovery: the manifest it read and the files still to download
  blind        \* history: a process started empty beside a manifest it could not read

vars == <<life, db, ssts, meta, manifest, version, uploaded, sync, cold, blind>>

Numbers == 1 .. MaxFile
Fresh == [files |-> <<>>, next |-> 1]

NoManifest == [version |-> 0, db |-> Fresh]

\* A map without some of its keys, and with one more.
Without(f, S) == [n \in DOMAIN f \ S |-> f[n]]
With(f, n, c) == [m \in DOMAIN f \cup {n} |-> IF m = n THEN c ELSE f[m]]

ColdIdle == [pc |-> "idle", mf |-> NoManifest, todo |-> {}]

SyncIdle == [pc |-> "idle", db |-> Fresh, todo |-> {}, prev |-> {}, version |-> 0]

Init ==
  /\ life = 1
  /\ db = Fresh
  /\ ssts = <<>> /\ meta = Fresh
  /\ manifest = NoManifest
  /\ version = 0 /\ uploaded = {}
  /\ sync = SyncIdle
  /\ cold = ColdIdle
  /\ blind = FALSE

-------------------------------------------------------------------------------
(* Pebble *)

\* A memtable is flushed into a new file; a compaction also replaces the old ones.
NewFile(compact) ==
  /\ db.next <= MaxFile
  /\ db' = [files |-> With(IF compact THEN <<>> ELSE db.files, db.next, life),
            next |-> db.next + 1]
  /\ UNCHANGED <<life, ssts, meta, manifest, version, uploaded, sync, cold, blind>>

\* pebble.Open succeeds on a directory when the files its MANIFEST names are there
\* with the content they were written with.
Opens(m, files) == \A n \in DOMAIN m.files : n \in DOMAIN files /\ files[n] = m.files[n]

\* What recover downloads for a manifest: the files it lists, as they are now.
Listed(mf) == DOMAIN mf.db.files
Downloaded(mf) == [n \in Listed(mf) \cap DOMAIN ssts |-> ssts[n]]

Recoverable(mf) ==
  mf = NoManifest \/ (Listed(mf) \subseteq DOMAIN ssts /\ Opens(meta, Downloaded(mf)))

-------------------------------------------------------------------------------
(* Sync, from the checkpoint on *)

others == <<life, db, version, cold, blind>>

\* The checkpoint is taken and the record of uploaded files starts over.
SyncBegin ==
  /\ sync.pc = "idle" /\ version < MaxVersion
  /\ sync' = [pc |-> "upload", db |-> db, todo |-> DOMAIN db.files, prev |-> uploaded,
              version |-> 0]
  /\ uploaded' = {}
  /\ UNCHANGED <<others, ssts, meta, manifest>>

\* SST files in name order: those of the previous record are not put again.
Upload(n) ==
  /\ sync.pc = "upload"
  /\ n \in sync.todo /\ \A m \in sync.todo : n <= m
  /\ ssts' = IF n \in sync.prev THEN ssts ELSE With(ssts, n, sync.db.files[n])
  /\ uploaded' = uploaded \cup {n}
  /\ sync' = [sync EXCEPT !.todo = sync.todo \ {n}]
  /\ UNCHANGED <<others, meta, manifest>>

\* Mutant: mutable files are skipped like SST files once they were uploaded.
UploadMutableOnce ==
  /\ sync.pc = "upload" /\ sync.todo = {}
  /\ meta' = IF manifest = NoManifest THEN sync.db ELSE meta
  /\ sync' = [sync EXCEPT !.pc = "stale", !.todo = sync.prev \ DOMAIN sync.db.files]
  /\ UNCHANGED <<others, ssts, manifest, uploaded>>

\* The mutable files come last and are always put.
UploadMutable ==
  /\ sync.pc = "upload" /\ sync.todo = {}
  /\ meta' = sync.db
  /\ sync' = [sync EXCEPT !.pc = "stale", !.todo = sync.prev \ DOMAIN sync.db.files]
  /\ UNCHANGED <<others, ssts, manifest, uploaded>>

\* Stale files of the previous record are deleted; an error is only logged.
DeleteStale(n, deleted) ==
  /\ sync.pc = "stale" /\ n \in sync.todo
  /\ ssts' = IF deleted THEN Without(ssts, {n}) ELSE ssts
  /\ sync' = [sync EXCEPT !.todo = sync.todo \ {n}]
  /\ UNCHANGED <<others, meta, manifest, uploaded>>

\* The versioned copy is put; the number of the new manifest is fixed here, once.
PutVersioned ==
  /\ sync.pc = "stale" /\ sync.todo = {}
  /\ sync' = [sync EXCEPT !.pc = "pointer", !.version = version + 1]
  /\ UNCHANGED <<others, ssts, meta, manifest, uploaded>>

PutPointer ==
  /\ sync.pc = "pointer"
  /\ manifest' = [version |-> sync.version, db |-> sync.db]
  /\ sync' = [sync EXCEPT !.pc = "trim"]
  /\ UNCHANGED <<others, ssts, meta, uploaded>>

\* The oldest versioned copies are deleted, best effort, and Sync goes on to the
\* collector (Engine).
Trim ==
  /\ sync.pc = "trim"
  /\ version' = sync.version
  /\ sync' = SyncIdle
  /\ UNCHANGED <<life, db, ssts, meta, manifest, uploaded, cold, blind>>

\* Mutant: a file is recorded as uploaded before its Put succeeded.
UploadFailRecorded(n) ==
  /\ sync.pc = "upload"
  /\ n \in sync.todo \ sync.prev /\ \A m \in sync.todo : n <= m
  /\ uploaded' = uploaded \cup {n}
  /\ sync' = SyncIdle
  /\ UNCHANGED <<others, ssts, meta, manifest>>

\* The Put of an SST file reports an error but had its effect.
UploadFail(n) ==
  /\ sync.pc = "upload"
  /\ n \in sync.todo \ sync.prev /\ \A m \in sync.todo : n <= m
  /\ ssts' = With(ssts, n, sync.db.files[n])
  /\ sync' = SyncIdle
  /\ UNCHANGED <<others, meta, manifest, uploaded>>

\* Another Put fails and Sync returns the error: without effect, or after the
\* effect of the step before (then "trim" is the pointer Put that failed).
SyncFail ==
  /\ sync.pc \in {"upload", "stale", "pointer", "trim"}
  /\ sync.pc = "stale" => sync.todo = {}
  /\ sync' = SyncIdle
  /\ UNCHANGED <<others, ssts, meta, manifest, uploaded>>

-------------------------------------------------------------------------------
(* Crash and recover *)

\* What recover may take for the manifest: any error of its Get means there is none.
ManifestRead == {manifest, NoManifest}

\* Mutant: the mutable files are not among those recover downloads.
WipedRenumbered(mf) ==
  IF mf = NoManifest THEN Fresh ELSE [files |-> Downloaded(mf), next |-> 1]

\* The database that Pebble opens on a new directory.
Wiped(mf) ==
  IF mf = NoManifest THEN Fresh ELSE [files |-> Downloaded(mf), next |-> meta.next]

\* A new process.  A process whose recovery fails exits and changes nothing.
Recovered(mf) ==
  /\ version' = mf.version
  /\ uploaded' = Listed(mf)
  /\ life' = life + 1
  /\ sync' = SyncIdle
  /\ cold' = ColdIdle
  /\ UNCHANGED <<ssts, meta, manifest>>

\* recover on an empty directory.
CrashWiped(mf) ==
  /\ Recoverable(mf)
  /\ db' = Wiped(mf)
  /\ blind' = (blind \/ (mf = NoManifest /\ manifest # NoManifest))
  /\ Recovered(mf)

\* recover on the directory of the last process, where the listed files replace those of
\* the same names: Pebble goes on from its own MANIFEST, or from the checkpoint's
\* when that has the same name, but never draws the number of a file it finds.
CrashKept(mf) ==
  /\ Listed(mf) \subseteq DOMAIN ssts
  /\ \/ /\ Opens(db, Downloaded(mf) @@ db.files)
        /\ db' = db
     \/ /\ mf # NoManifest /\ Recoverable(mf)
        /\ db' = [Wiped(mf) EXCEPT !.next = IF @ < db.next THEN db.next ELSE @]
  /\ UNCHANGED blind
  /\ Recovered(mf)

Crash ==
  /\ life < MaxLife
  /\ \E mf \in ManifestRead : CrashWiped(mf) \/ CrashKept(mf)

(* Cold recovery on the running engine: recover rebuilds uploadedFiles from the
   manifest it read, beside a Sync that swaps and fills the same map, and then
   fails in pebble.Open.  Not modelled: the files it writes over those of the
   running Pebble instance. *)
coldOthers == <<life, db, ssts, meta, manifest, sync, blind>>

ColdRead ==
  /\ ColdMisses /\ cold.pc = "idle" /\ manifest # NoManifest
  /\ cold' = [pc |-> "read", mf |-> manifest, todo |-> {}]
  /\ UNCHANGED <<coldOthers, version, uploaded>>

\* The Get failed, or there is no manifest: only the record starts over.
ColdUnread ==
  /\ ColdMisses /\ cold.pc = "idle"
  /\ uploaded' = {}
  /\ UNCHANGED <<coldOthers, version, cold>>

ColdReset ==
  /\ cold.pc = "read"
  /\ version' = cold.mf.version
  /\ uploaded' = {}
  /\ cold' = IF Listed(cold.mf) = {} THEN ColdIdle
             ELSE [cold EXCEPT !.pc = "download", !.todo = Listed(cold.mf)]
  /\ UNCHANGED coldOthers

\* One file is downloaded and recorded; a missing one ends the recovery.
ColdDownload(n) ==
  /\ cold.pc = "download"
  /\ n \in cold.todo /\ \A m \in cold.todo : n <= m
  /\ uploaded' = uploaded \cup ({n} \cap DOMAIN ssts)
  /\ cold' = IF cold.todo = {n} \/ n \notin DOMAIN ssts THEN ColdIdle
             ELSE [cold EXCEPT !.todo = cold.todo \ {n}]
  /\ UNCHANGED <<coldOthers, version>>

-------------------------------------------------------------------------------
Next ==
  \/ \E compact \in BOOLEAN : NewFile(compact)
  \/ SyncBegin \/ UploadMutable \/ PutVersioned \/ PutPointer \/ Trim \/ SyncFail
  \/ \E n \in Numbers : Upload(n) \/ UploadFail(n) \/ \E deleted \in BOOLEAN : DeleteStale(n, deleted)
  \/ Crash
  \/ ColdRead \/ ColdUnread \/ ColdReset \/ \E n \in Numbers : ColdDownload(n)

Spec == Init /\ [][Next]_vars

-------------------------------------------------------------------------------
(* Properties *)

IsDb(d) == DOMAIN d.files \subseteq Numbers /\ Range(d.files) \subseteq 1 .. MaxLife
           /\ d.next \in 1 .. MaxFile + 1

TypeOK ==
  /\ life \in 1 .. MaxLife
  /\ IsDb(db) /\ IsDb(meta) /\ IsDb(manifest.db) /\ IsDb(sync.db)
  /\ DOMAIN ssts \subseteq Numbers
  /\ version \in Nat /\ manifest.version \in Nat
  /\ uploaded \subseteq Numbers /\ sync.prev \subseteq Numbers /\ sync.todo \subseteq Numbers
  /\ sync.pc \in {"idle", "upload", "stale", "pointer", "trim"} /\ sync.version \in Nat
  /\ blind \in BOOLEAN

\* A node with an empty disk can start.
ManifestRecoverable == Recoverable(manifest)

\* A process that starts empty although there is a manifest (its Get failed) draws the
\* numbers of listed files again.  The properties are about the time before that;
\* ListedNeverReplaced shows what happens after it.

\* A manifest is published only when a node could recover from it at that moment:
\* every file it lists is in the store with the content of the checkpoint, although
\* most were skipped as uploaded by an earlier Sync, life or failed attempt, and
\* numbers are drawn again after a crash.
PublishedSound == [][manifest' # manifest /\ ~blind => ManifestRecoverable']_vars

\* No upload, of whatever life, replaces an SST file the current manifest lists.
ListedNotReplaced ==
  ~blind => \A n \in Listed(manifest) \cap DOMAIN ssts : ssts[n] = manifest.db.files[n]

\* A record in uploadedFiles of a file the database still has is true: skipping its
\* upload is safe.
UploadedIsStored ==
  ~blind => \A n \in (uploaded \cup sync.prev) \cap DOMAIN db.files :
              n \in DOMAIN ssts /\ ssts[n] = db.files[n]

\* Refuted by TLC: the same without the exception.
ListedNeverReplaced ==
  \A n \in Listed(manifest) \cap DOMAIN ssts : ssts[n] = manifest.db.files[n]
===============================================================================
