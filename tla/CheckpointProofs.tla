--------------------------- MODULE CheckpointProofs ---------------------------
(* Proofs about Checkpoint, for any bounds, with or without cold recovery: until a process starts
   beside a manifest it could not read, a published manifest can be recovered from, its
   SST files are never replaced, and a file Sync skips is in the store.  *)
EXTENDS Checkpoint, TLAPS

-------------------------------------------------------------------------------
(* The inductive invariant.  A file number is drawn again after a crash; the
   invariant says which versions of the database draw from the same numbering, so
   that a number in two of them is one file. *)

\* The records have their fields.
Shape ==
  /\ sync = [pc |-> sync.pc, db |-> sync.db, todo |-> sync.todo, prev |-> sync.prev,
             version |-> sync.version]
  /\ cold = [pc |-> cold.pc, mf |-> cold.mf, todo |-> cold.todo]
  /\ sync.pc = "idle" => sync = SyncIdle
  /\ cold.pc = "idle" => cold = ColdIdle
  /\ cold.pc \in {"idle", "read", "download"}
  /\ IsDb(cold.mf.db) /\ cold.mf.version \in Nat

\* The files of d have numbers below its next one.
Below(d) == \A n \in DOMAIN d.files : n < d.next

\* d is an earlier version of e in one numbering.
Earlier(d, e) ==
  /\ d.next <= e.next
  /\ \A n \in DOMAIN d.files \cap DOMAIN e.files : d.files[n] = e.files[n]

\* The checkpoints in use are earlier versions of the running database.
Numbering ==
  /\ Below(db) /\ Below(meta) /\ Below(sync.db) /\ Below(manifest.db) /\ Below(cold.mf.db)
  /\ Earlier(manifest.db, db) /\ Earlier(sync.db, db) /\ Earlier(cold.mf.db, db)
  /\ sync.pc # "idle" => Earlier(manifest.db, sync.db)
  /\ manifest # NoManifest => manifest.db.next <= meta.next

\* A file that is in the store as d has it.
Has(d, n) == n \in DOMAIN ssts /\ ssts[n] = d.files[n]

\* The progress of Sync: which files of its checkpoint are in the store.
SyncProgress ==
  /\ \A n \in sync.prev : n < sync.db.next
  /\ \A n \in sync.prev \cap DOMAIN sync.db.files : Has(sync.db, n)
  /\ sync.pc = "upload" => \A n \in DOMAIN sync.db.files \ sync.todo : Has(sync.db, n)
  /\ sync.pc = "upload" => sync.todo \subseteq DOMAIN sync.db.files
  /\ sync.pc \in {"stale", "pointer", "trim"} =>
       /\ \A n \in DOMAIN sync.db.files : Has(sync.db, n)
       /\ meta = sync.db
  /\ sync.pc = "stale" => sync.todo \subseteq sync.prev \ DOMAIN sync.db.files
  /\ sync.pc # "idle" =>
       \A n \in DOMAIN db.files : n < sync.db.next => n \in DOMAIN sync.db.files

\* The record of uploaded files, and what cold recovery may add to it.
RecordSound ==
  /\ \A n \in uploaded : n < db.next
  /\ cold.todo \subseteq Listed(cold.mf)
  /\ \A n \in Listed(cold.mf) \cap DOMAIN ssts \cap DOMAIN db.files : ssts[n] = db.files[n]

CheckpointInv ==
  TypeOK /\ Shape /\ Numbering /\ SyncProgress /\ RecordSound
  /\ ListedNotReplaced /\ UploadedIsStored /\ ~blind

-------------------------------------------------------------------------------
(* Maps of files *)

LEMMA FreshFiles ==
  /\ DOMAIN Fresh.files = {} /\ Fresh.next = 1 /\ IsDb(Fresh) /\ Below(Fresh)
  /\ NoManifest.db = Fresh /\ NoManifest.version = 0
<1>1. DOMAIN Fresh.files = {} /\ Fresh.next = 1
  BY DEF Fresh
<1>2. IsDb(Fresh)
  BY <1>1, CheckpointAssumption DEF IsDb, Range
<1>3. Below(Fresh)
  BY <1>1 DEF Below
<1> QED
  BY <1>1, <1>2, <1>3 DEF NoManifest

LEMMA IdleSync ==
  /\ SyncIdle.pc = "idle" /\ SyncIdle.db = Fresh /\ SyncIdle.todo = {} /\ SyncIdle.prev = {}
  /\ SyncIdle.version = 0
  /\ SyncIdle = [pc |-> SyncIdle.pc, db |-> SyncIdle.db, todo |-> SyncIdle.todo,
                 prev |-> SyncIdle.prev, version |-> SyncIdle.version]
  BY DEF SyncIdle

LEMMA IdleCold ==
  /\ ColdIdle.pc = "idle" /\ ColdIdle.mf = NoManifest /\ ColdIdle.todo = {}
  /\ ColdIdle = [pc |-> ColdIdle.pc, mf |-> ColdIdle.mf, todo |-> ColdIdle.todo]
  BY DEF ColdIdle

-------------------------------------------------------------------------------
(* Pebble *)

LEMMA NewFileStep ==
  ASSUME CheckpointInv, NEW compact \in BOOLEAN, NewFile(compact)
  PROVE  CheckpointInv'
<1> USE DEF CheckpointInv
<1> DEFINE old == IF compact THEN <<>> ELSE db.files
<1>1. /\ db'.files = With(old, db.next, life) /\ db'.next = db.next + 1
      /\ UNCHANGED <<life, ssts, meta, manifest, version, uploaded, sync, cold, blind>>
  BY DEF NewFile
<1>2. /\ db.next \in Numbers /\ life \in 1 .. MaxLife
      /\ DOMAIN db.files \subseteq Numbers /\ \A n \in DOMAIN db.files : db.files[n] \in 1 .. MaxLife
  BY CheckpointAssumption DEF NewFile, TypeOK, IsDb, Numbers, Range
<1>3. DOMAIN old \subseteq DOMAIN db.files /\ \A n \in DOMAIN old : old[n] = db.files[n]
  OBVIOUS
<1> HIDE DEF old
<1>4. /\ DOMAIN db'.files = DOMAIN old \cup {db.next}
      /\ db'.files[db.next] = life
      /\ \A n \in DOMAIN old \ {db.next} : db'.files[n] = old[n]
  BY <1>1 DEF With
<1>5. \A n \in DOMAIN db'.files : n = db.next \/ (n \in DOMAIN db.files /\ db'.files[n] = db.files[n])
  BY <1>3, <1>4
<1>6. db.next \in Nat /\ db'.next \in 1 .. MaxFile + 1
  BY <1>1, <1>2, CheckpointAssumption DEF Numbers
<1>7. TypeOK'
  <2>1. IsDb(db)'
    BY <1>2, <1>4, <1>5, <1>6 DEF IsDb, Range
  <2> QED
    BY <1>1, <2>1 DEF TypeOK, IsDb
<1>8. Shape'
  BY <1>1 DEF Shape, IsDb
<1>9. Numbering'
  <2>1. Below(db)'
    BY <1>1, <1>2, <1>5, <1>6 DEF Numbering, Below, Numbers
  <2>2. ASSUME NEW d, Earlier(d, db), Below(d), d.next \in 1 .. MaxFile + 1,
               DOMAIN d.files \subseteq Numbers
        PROVE  d.next <= db'.next
               /\ \A n \in DOMAIN d.files \cap DOMAIN db'.files : d.files[n] = db'.files[n]
    BY <1>1, <1>5, <1>6, <2>2 DEF Earlier, Below, Numbers
  <2>3. Earlier(manifest.db, db)' /\ Earlier(sync.db, db)' /\ Earlier(cold.mf.db, db)'
    BY <1>1, <2>2 DEF Earlier, Numbering, TypeOK, Shape, IsDb
  <2> QED
    BY <1>1, <2>1, <2>3 DEF Numbering, Below, Earlier
<1>10. SyncProgress'
  BY <1>1, <1>2, <1>5, <1>6 DEF SyncProgress, Has, Numbering, Earlier, TypeOK, IsDb, Numbers
<1>11. RecordSound'
  <2>1. \A n \in uploaded' : n < db'.next
    BY <1>1, <1>6 DEF RecordSound, TypeOK, Numbers
  <2>2. db.next \notin Listed(cold.mf)
    BY <1>6 DEF Numbering, Below, Earlier, Shape, IsDb, Listed, Numbers
  <2> QED
    BY <1>1, <1>5, <2>1, <2>2 DEF RecordSound, Listed
<1>12. ListedNotReplaced'
  BY <1>1 DEF ListedNotReplaced, Listed
<1>13. UploadedIsStored'
  <2>1. db.next \notin uploaded \cup sync.prev
    BY <1>6 DEF RecordSound, SyncProgress, Numbering, Earlier, TypeOK, Numbers, IsDb
  <2> QED
    BY <1>1, <1>5, <2>1 DEF UploadedIsStored
<1> QED
  BY <1>1, <1>7, <1>8, <1>9, <1>10, <1>11, <1>12, <1>13

-------------------------------------------------------------------------------
(* Sync *)

LEMMA SyncBeginStep ==
  ASSUME CheckpointInv, SyncBegin
  PROVE  CheckpointInv'
<1> USE DEF CheckpointInv
<1>1. /\ sync' = [pc |-> "upload", db |-> db, todo |-> DOMAIN db.files, prev |-> uploaded,
                  version |-> 0]
      /\ uploaded' = {} /\ sync = SyncIdle
      /\ UNCHANGED <<life, db, version, cold, blind, ssts, meta, manifest>>
  BY DEF SyncBegin, others, Shape
<1>2. sync'.pc = "upload" /\ sync'.db = db /\ sync'.todo = DOMAIN db.files
      /\ sync'.prev = uploaded /\ sync'.version = 0
  BY <1>1
<1>3. TypeOK'
  BY <1>1, <1>2 DEF TypeOK, IsDb
<1>4. Shape'
  BY <1>1, <1>2 DEF Shape, IsDb
<1>5. Numbering'
  BY <1>1, <1>2 DEF Numbering, Below, Earlier, TypeOK, IsDb
<1>6. SyncProgress'
  BY <1>1, <1>2 DEF SyncProgress, Has, RecordSound, UploadedIsStored
<1>7. RecordSound' /\ ListedNotReplaced' /\ UploadedIsStored'
  BY <1>1, <1>2 DEF RecordSound, ListedNotReplaced, UploadedIsStored, Listed
<1> QED
  BY <1>1, <1>3, <1>4, <1>5, <1>6, <1>7

\* A Put of a file of the checkpoint Sync is uploading makes every statement about the
\* store that held before hold after it, whatever the content it replaced.
LEMMA PutFile ==
  ASSUME CheckpointInv, sync.pc = "upload", NEW n \in DOMAIN sync.db.files,
         ssts' = With(ssts, n, sync.db.files[n]),
         UNCHANGED <<life, db, version, cold, blind, meta, manifest>>
  PROVE  /\ DOMAIN ssts' \subseteq Numbers
         /\ \A m \in DOMAIN sync.db.files : Has(sync.db, m) \/ m = n =>
              m \in DOMAIN ssts' /\ ssts'[m] = sync.db.files[m]
         /\ \A m \in Listed(manifest) \cap DOMAIN ssts' : ssts'[m] = manifest.db.files[m]
         /\ \A m \in DOMAIN db.files : (Has(db, m) \/ m = n) =>
              m \in DOMAIN ssts' /\ ssts'[m] = db.files[m]
         /\ \A m \in Listed(cold.mf) \cap DOMAIN ssts' \cap DOMAIN db.files :
              ssts'[m] = db.files[m]
<1> USE DEF CheckpointInv
<1>1. /\ DOMAIN ssts' = DOMAIN ssts \cup {n} /\ ssts'[n] = sync.db.files[n]
      /\ \A m \in DOMAIN ssts \ {n} : ssts'[m] = ssts[m]
  BY DEF With
<1>2. n \in Numbers
  BY DEF TypeOK, IsDb
<1>3. (n \in Listed(manifest) => manifest.db.files[n] = sync.db.files[n])
      /\ (n \in DOMAIN db.files => db.files[n] = sync.db.files[n])
  BY DEF Numbering, Earlier, Listed
<1>4. DOMAIN ssts' \subseteq Numbers
  BY <1>1, <1>2 DEF TypeOK
<1>5. \A m \in Listed(manifest) \cap DOMAIN ssts' : ssts'[m] = manifest.db.files[m]
  BY <1>1, <1>3 DEF ListedNotReplaced
<1>6. \A m \in Listed(cold.mf) \cap DOMAIN ssts' \cap DOMAIN db.files : ssts'[m] = db.files[m]
  BY <1>1, <1>3 DEF RecordSound
<1> QED
  BY <1>1, <1>3, <1>4, <1>5, <1>6 DEF Has

LEMMA UploadStep ==
  ASSUME CheckpointInv, NEW n \in Numbers, Upload(n)
  PROVE  CheckpointInv'
<1> USE DEF CheckpointInv
<1>1. /\ sync.pc = "upload" /\ n \in sync.todo
      /\ ssts' = IF n \in sync.prev THEN ssts ELSE With(ssts, n, sync.db.files[n])
      /\ uploaded' = uploaded \cup {n}
      /\ UNCHANGED <<life, db, version, cold, blind, meta, manifest>>
  BY DEF Upload, others
<1>2. /\ sync' = [pc |-> "upload", db |-> sync.db, todo |-> sync.todo \ {n}, prev |-> sync.prev,
                  version |-> sync.version]
      /\ sync'.version = sync.version
      /\ sync'.pc = "upload" /\ sync'.db = sync.db /\ sync'.todo = sync.todo \ {n}
      /\ sync'.prev = sync.prev
  BY <1>1 DEF Upload, Shape
<1>3. n \in DOMAIN sync.db.files /\ n < db.next
  BY <1>1 DEF SyncProgress, Numbering, Below, Earlier, TypeOK, IsDb, Numbers
<1>4. /\ DOMAIN ssts' \subseteq Numbers
      /\ \A m \in DOMAIN sync.db.files : Has(sync.db, m) \/ m = n =>
           m \in DOMAIN ssts' /\ ssts'[m] = sync.db.files[m]
      /\ \A m \in Listed(manifest) \cap DOMAIN ssts' : ssts'[m] = manifest.db.files[m]
      /\ \A m \in DOMAIN db.files : (Has(db, m) \/ m = n) =>
           m \in DOMAIN ssts' /\ ssts'[m] = db.files[m]
      /\ \A m \in Listed(cold.mf) \cap DOMAIN ssts' \cap DOMAIN db.files : ssts'[m] = db.files[m]
  <2>1. CASE n \notin sync.prev
    BY <1>1, <1>3, <2>1, PutFile
  <2>2. CASE n \in sync.prev
    <3>1. ssts' = ssts /\ Has(sync.db, n)
      BY <1>1, <1>3, <2>2 DEF SyncProgress
    <3>2. n \in DOMAIN db.files => db.files[n] = sync.db.files[n]
      BY <1>3 DEF Numbering, Earlier
    <3> QED
      BY <3>1, <3>2 DEF Has, TypeOK, ListedNotReplaced, RecordSound
  <2> QED
    BY <2>1, <2>2
<1>5. TypeOK'
  BY <1>1, <1>2, <1>4 DEF TypeOK, IsDb
<1>6. Shape'
  BY <1>1, <1>2 DEF Shape, IsDb
<1>7. Numbering'
  BY <1>1, <1>2 DEF Numbering, Below, Earlier
<1>8. SyncProgress'
  BY <1>1, <1>2, <1>4 DEF SyncProgress, Has
<1>9. RecordSound' /\ ListedNotReplaced'
  BY <1>1, <1>3, <1>4 DEF RecordSound, ListedNotReplaced, Listed
<1>10. UploadedIsStored'
  BY <1>1, <1>2, <1>4 DEF UploadedIsStored, Has
<1> QED
  BY <1>1, <1>5, <1>6, <1>7, <1>8, <1>9, <1>10

\* Sync returns, after its last step or with the error of a Put that may have had its
\* effect: nothing depends on its checkpoint any more.
LEMMA SyncEnds ==
  ASSUME CheckpointInv, sync' = SyncIdle,
         UNCHANGED <<life, db, cold, blind, meta, manifest, uploaded>>,
         version' \in Nat,
         DOMAIN ssts' \subseteq Numbers,
         \A m \in Listed(manifest) \cap DOMAIN ssts' : ssts'[m] = manifest.db.files[m],
         \A m \in DOMAIN db.files : Has(db, m) => m \in DOMAIN ssts' /\ ssts'[m] = db.files[m],
         \A m \in Listed(cold.mf) \cap DOMAIN ssts' \cap DOMAIN db.files : ssts'[m] = db.files[m]
  PROVE  CheckpointInv'
<1> USE DEF CheckpointInv
<1>1. sync'.pc = "idle" /\ sync'.db = Fresh /\ sync'.todo = {} /\ sync'.prev = {}
      /\ sync'.version = 0
      /\ sync' = [pc |-> sync'.pc, db |-> sync'.db, todo |-> sync'.todo, prev |-> sync'.prev,
                  version |-> sync'.version]
  BY IdleSync
<1>2. TypeOK'
  <2>1. IsDb(sync.db)'
    BY <1>1, FreshFiles DEF IsDb
  <2> QED
    BY <1>1, <2>1 DEF TypeOK, IsDb
<1>3. Shape'
  BY <1>1 DEF Shape, IsDb
<1>4. Numbering'
  <2>1. Below(sync.db)'
    BY <1>1, FreshFiles DEF Below
  <2>2. Earlier(sync.db, db)'
    BY <1>1, FreshFiles DEF Earlier, TypeOK, IsDb
  <2> QED
    BY <1>1, <2>1, <2>2 DEF Numbering, Below, Earlier
<1>5. SyncProgress'
  BY <1>1, FreshFiles DEF SyncProgress
<1>6. RecordSound' /\ ListedNotReplaced'
  BY DEF RecordSound, ListedNotReplaced, Listed
<1>7. UploadedIsStored'
  BY <1>1 DEF UploadedIsStored, Has
<1> QED
  BY <1>2, <1>3, <1>4, <1>5, <1>6, <1>7

LEMMA SyncFailStep ==
  ASSUME CheckpointInv, SyncFail
  PROVE  CheckpointInv'
<1>1. sync' = SyncIdle
      /\ UNCHANGED <<life, db, version, cold, blind, ssts, meta, manifest, uploaded>>
  BY DEF SyncFail, others
<1> QED
  BY <1>1, SyncEnds DEF CheckpointInv, TypeOK, ListedNotReplaced, RecordSound, Has

LEMMA UploadFailStep ==
  ASSUME CheckpointInv, NEW n \in Numbers, UploadFail(n)
  PROVE  CheckpointInv'
<1>1. /\ sync' = SyncIdle /\ sync.pc = "upload" /\ n \in DOMAIN sync.db.files
      /\ ssts' = With(ssts, n, sync.db.files[n])
      /\ UNCHANGED <<life, db, version, cold, blind, meta, manifest, uploaded>>
  BY DEF UploadFail, others, CheckpointInv, SyncProgress
<1>2. version' \in Nat
  BY <1>1 DEF CheckpointInv, TypeOK
<1> QED
  BY <1>1, <1>2, PutFile, SyncEnds

LEMMA TrimStep ==
  ASSUME CheckpointInv, Trim
  PROVE  CheckpointInv'
<1>1. sync' = SyncIdle /\ version' = sync.version
      /\ UNCHANGED <<life, db, cold, blind, ssts, meta, manifest, uploaded>>
  BY DEF Trim
<1>2. version' \in Nat
  BY <1>1 DEF CheckpointInv, TypeOK
<1> QED
  BY <1>1, <1>2, SyncEnds DEF CheckpointInv, TypeOK, ListedNotReplaced, RecordSound, Has

LEMMA UploadMutableStep ==
  ASSUME CheckpointInv, UploadMutable
  PROVE  CheckpointInv'
<1> USE DEF CheckpointInv
<1>1. /\ sync.pc = "upload" /\ sync.todo = {} /\ meta' = sync.db
      /\ UNCHANGED <<life, db, version, cold, blind, ssts, manifest, uploaded>>
  BY DEF UploadMutable, others
<1>2. /\ sync' = [pc |-> "stale", db |-> sync.db, todo |-> sync.prev \ DOMAIN sync.db.files,
                  prev |-> sync.prev, version |-> sync.version]
      /\ sync'.version = sync.version
      /\ sync'.pc = "stale" /\ sync'.db = sync.db /\ sync'.prev = sync.prev
      /\ sync'.todo = sync.prev \ DOMAIN sync.db.files
  BY DEF UploadMutable, Shape
<1>3. TypeOK'
  BY <1>1, <1>2 DEF TypeOK, IsDb
<1>4. Shape'
  BY <1>1, <1>2 DEF Shape, IsDb
<1>5. Numbering'
  BY <1>1, <1>2 DEF Numbering, Below, Earlier
<1>6. SyncProgress'
  BY <1>1, <1>2 DEF SyncProgress, Has
<1>7. RecordSound' /\ ListedNotReplaced' /\ UploadedIsStored'
  BY <1>1, <1>2 DEF RecordSound, ListedNotReplaced, UploadedIsStored, Listed
<1> QED
  BY <1>1, <1>3, <1>4, <1>5, <1>6, <1>7

\* A stale file belongs neither to the checkpoint nor to the database: numbers are not
\* drawn twice in one life, and Sync's checkpoint has what the database still has of them.
LEMMA DeleteStaleStep ==
  ASSUME CheckpointInv, NEW n \in Numbers, NEW deleted \in BOOLEAN, DeleteStale(n, deleted)
  PROVE  CheckpointInv'
<1> USE DEF CheckpointInv
<1>1. /\ sync.pc = "stale" /\ n \in sync.todo
      /\ UNCHANGED <<life, db, version, cold, blind, meta, manifest, uploaded>>
  BY DEF DeleteStale, others
<1>2. /\ sync' = [pc |-> "stale", db |-> sync.db, todo |-> sync.todo \ {n}, prev |-> sync.prev,
                  version |-> sync.version]
      /\ sync'.version = sync.version
      /\ sync'.pc = "stale" /\ sync'.db = sync.db /\ sync'.prev = sync.prev
      /\ sync'.todo = sync.todo \ {n}
  BY DEF DeleteStale, Shape
<1>3. DOMAIN ssts' \subseteq DOMAIN ssts /\ \A m \in DOMAIN ssts' : ssts'[m] = ssts[m]
  BY DEF DeleteStale, Without
<1>4. \A m \in DOMAIN ssts \ {n} : m \in DOMAIN ssts'
  BY DEF DeleteStale, Without
<1>5. n \notin DOMAIN sync.db.files /\ n \notin DOMAIN db.files
  BY <1>1 DEF SyncProgress
<1>6. TypeOK'
  BY <1>1, <1>2, <1>3 DEF TypeOK, IsDb
<1>7. Shape'
  BY <1>1, <1>2 DEF Shape, IsDb
<1>8. Numbering'
  BY <1>1, <1>2 DEF Numbering, Below, Earlier
<1>9. SyncProgress'
  BY <1>1, <1>2, <1>3, <1>4, <1>5 DEF SyncProgress, Has
<1>10. RecordSound' /\ ListedNotReplaced'
  BY <1>1, <1>3 DEF RecordSound, ListedNotReplaced, Listed
<1>11. UploadedIsStored'
  BY <1>1, <1>2, <1>3, <1>4, <1>5 DEF UploadedIsStored
<1> QED
  BY <1>1, <1>6, <1>7, <1>8, <1>9, <1>10, <1>11

LEMMA PutVersionedStep ==
  ASSUME CheckpointInv, PutVersioned
  PROVE  CheckpointInv'
<1> USE DEF CheckpointInv
<1>1. /\ sync.pc = "stale"
      /\ UNCHANGED <<life, db, version, cold, blind, ssts, meta, manifest, uploaded>>
  BY DEF PutVersioned, others
<1>2. /\ sync' = [pc |-> "pointer", db |-> sync.db, todo |-> sync.todo, prev |-> sync.prev,
                  version |-> version + 1]
      /\ sync'.version = version + 1
      /\ sync'.pc = "pointer" /\ sync'.db = sync.db /\ sync'.prev = sync.prev
      /\ sync'.todo = sync.todo
  BY DEF PutVersioned, Shape
<1>3. TypeOK'
  BY <1>1, <1>2 DEF TypeOK, IsDb
<1>4. Shape'
  BY <1>1, <1>2 DEF Shape, IsDb
<1>5. Numbering'
  BY <1>1, <1>2 DEF Numbering, Below, Earlier
<1>6. SyncProgress'
  BY <1>1, <1>2 DEF SyncProgress, Has
<1>7. RecordSound' /\ ListedNotReplaced' /\ UploadedIsStored'
  BY <1>1, <1>2 DEF RecordSound, ListedNotReplaced, UploadedIsStored, Listed
<1> QED
  BY <1>1, <1>3, <1>4, <1>5, <1>6, <1>7

LEMMA PutPointerStep ==
  ASSUME CheckpointInv, PutPointer
  PROVE  CheckpointInv' /\ ManifestRecoverable'
<1> USE DEF CheckpointInv
<1>1. /\ sync.pc = "pointer"
      /\ manifest' = [version |-> sync.version, db |-> sync.db]
      /\ manifest'.version = sync.version /\ manifest'.db = sync.db
      /\ UNCHANGED <<life, db, version, cold, blind, ssts, meta, uploaded>>
  BY DEF PutPointer, others
<1>2. /\ sync' = [pc |-> "trim", db |-> sync.db, todo |-> sync.todo, prev |-> sync.prev,
                  version |-> sync.version]
      /\ sync'.version = sync.version
      /\ sync'.pc = "trim" /\ sync'.db = sync.db /\ sync'.prev = sync.prev
      /\ sync'.todo = sync.todo
  BY DEF PutPointer, Shape
<1>3. meta = sync.db /\ \A n \in DOMAIN sync.db.files : Has(sync.db, n)
  BY <1>1 DEF SyncProgress
<1>4. TypeOK'
  BY <1>1, <1>2 DEF TypeOK, IsDb
<1>5. Shape'
  BY <1>1, <1>2 DEF Shape, IsDb
<1>6. Numbering'
  BY <1>1, <1>2, <1>3 DEF Numbering, Below, Earlier, TypeOK, IsDb
<1>7. SyncProgress'
  BY <1>1, <1>2 DEF SyncProgress, Has
<1>8. RecordSound' /\ UploadedIsStored'
  BY <1>1, <1>2 DEF RecordSound, UploadedIsStored, Listed
<1>9. ListedNotReplaced'
  BY <1>1, <1>3 DEF ListedNotReplaced, Listed, Has
<1>10. ManifestRecoverable'
  BY <1>1, <1>3 DEF ManifestRecoverable, Recoverable, Opens, Downloaded, Listed, Has
<1> QED
  BY <1>1, <1>4, <1>5, <1>6, <1>7, <1>8, <1>9, <1>10

-------------------------------------------------------------------------------
(* Crash and recover *)

\* A process that could read the manifest, or had nothing to lose by not reading it, starts
\* from a database in the numbering of the mutable files: that of the manifest, or its own.
LEMMA CrashStep ==
  ASSUME CheckpointInv, Crash
  PROVE  blind' \/ CheckpointInv'
<1> USE DEF CheckpointInv
<1> SUFFICES ASSUME ~blind' PROVE CheckpointInv'
  OBVIOUS
<1>0. PICK mf \in ManifestRead : CrashWiped(mf) \/ CrashKept(mf)
  BY DEF Crash
<1>1. /\ life' = life + 1 /\ life < MaxLife /\ sync' = SyncIdle /\ cold' = ColdIdle
      /\ version' = mf.version /\ uploaded' = Listed(mf)
      /\ UNCHANGED <<ssts, meta, manifest>> /\ blind' \in BOOLEAN
  BY <1>0 DEF Crash, CrashWiped, CrashKept, Recovered, TypeOK
<1>5. /\ DOMAIN manifest.db.files \subseteq Numbers /\ manifest.db.next \in 1 .. MaxFile + 1
      /\ \A n \in DOMAIN manifest.db.files :
           manifest.db.files[n] \in 1 .. MaxLife /\ n < manifest.db.next
      /\ db.next \in 1 .. MaxFile + 1 /\ meta.next \in 1 .. MaxFile + 1
  BY DEF TypeOK, IsDb, Range, Numbering, Below
<1>13. mf = manifest \/ (mf = NoManifest /\ Listed(mf) = {} /\ mf.version = 0)
  BY FreshFiles DEF ManifestRead, Listed
<1>14. ASSUME NEW d, d = Wiped(mf), mf = manifest
       PROVE  /\ \A n \in DOMAIN d.files : n \in Listed(manifest) /\ Has(manifest.db, n)
                   /\ d.files[n] = ssts[n]
              /\ manifest.db.next <= d.next /\ d.next \in 1 .. MaxFile + 1
              /\ d = [files |-> d.files, next |-> d.next]
  <2>1. CASE manifest = NoManifest
    <3>1. d = Fresh
      BY <1>14, <2>1 DEF Wiped
    <3>2. d = [files |-> d.files, next |-> d.next]
      BY <3>1 DEF Fresh
    <3> QED
      BY <2>1, <3>1, <3>2, FreshFiles, CheckpointAssumption DEF IsDb
  <2>2. CASE manifest # NoManifest
    <3>1. d = [files |-> Downloaded(manifest), next |-> meta.next]
      BY <1>14, <2>2 DEF Wiped
    <3>2. /\ DOMAIN d.files = Listed(manifest) \cap DOMAIN ssts
          /\ \A n \in Listed(manifest) \cap DOMAIN ssts : d.files[n] = ssts[n]
          /\ d.next = meta.next
      BY <3>1 DEF Downloaded
    <3>3. manifest.db.next <= d.next /\ d.next \in 1 .. MaxFile + 1
      BY <1>5, <2>2, <3>2 DEF Numbering
    <3>4. \A n \in Listed(manifest) \cap DOMAIN ssts : Has(manifest.db, n)
      BY DEF ListedNotReplaced, Has
    <3> QED
      BY <3>1, <3>2, <3>3, <3>4
  <2> QED
    BY <2>1, <2>2
\* What the new process has on its disk.
<1>2. \/ /\ mf = manifest
         /\ \A n \in DOMAIN db'.files : n \in Listed(manifest) /\ Has(manifest.db, n)
              /\ db'.files[n] = ssts[n]
         /\ manifest.db.next <= db'.next /\ db'.next \in 1 .. MaxFile + 1
      \/ db' = db
  <2>1. CASE CrashWiped(mf)
    <3>1. db' = Wiped(mf) /\ blind' = (blind \/ (mf = NoManifest /\ manifest # NoManifest))
      BY <2>1 DEF CrashWiped
    <3>2. mf = manifest
      BY <1>13, <3>1
    <3> QED
      BY <1>14, <3>1, <3>2
  <2>2. CASE CrashKept(mf)
    <3>1. CASE db' = db
      BY <3>1
    <3>2. CASE mf # NoManifest
               /\ db' = [Wiped(mf) EXCEPT !.next = IF @ < db.next THEN db.next ELSE @]
      <4> DEFINE d == Wiped(mf)
      <4>1. mf = manifest
        BY <1>13, <3>2
      <4>2. /\ \A n \in DOMAIN d.files : n \in Listed(manifest) /\ Has(manifest.db, n)
                 /\ d.files[n] = ssts[n]
            /\ manifest.db.next <= d.next /\ d.next \in 1 .. MaxFile + 1
            /\ d = [files |-> d.files, next |-> d.next]
        BY <1>14, <4>1
      <4> HIDE DEF d
      <4>3. db' = [d EXCEPT !.next = IF @ < db.next THEN db.next ELSE @]
        BY <3>2 DEF d
      <4>4. db'.files = d.files /\ db'.next = IF d.next < db.next THEN db.next ELSE d.next
        BY <4>2, <4>3
      <4> QED
        BY <1>5, <4>1, <4>2, <4>4
    <3> QED
      BY <2>2, <3>1, <3>2 DEF CrashKept
  <2> QED
    BY <1>0, <2>1, <2>2
<1>3. sync'.pc = "idle" /\ sync'.db = Fresh /\ sync'.todo = {} /\ sync'.prev = {}
      /\ sync'.version = 0
      /\ sync' = [pc |-> sync'.pc, db |-> sync'.db, todo |-> sync'.todo, prev |-> sync'.prev,
                  version |-> sync'.version]
  BY <1>1, IdleSync
<1>4. cold'.pc = "idle" /\ cold'.mf = NoManifest /\ cold'.mf.db = Fresh /\ cold'.todo = {}
      /\ cold' = [pc |-> cold'.pc, mf |-> cold'.mf, todo |-> cold'.todo]
      /\ cold'.mf.version = 0
  BY <1>1, IdleCold, FreshFiles
<1>6. TypeOK'
  <2>1. IsDb(db)'
    <3>1. CASE db' = db
      BY <3>1 DEF TypeOK, IsDb
    <3>2. CASE db' # db
      BY <1>2, <1>5, <3>2 DEF IsDb, Range, Listed, Has
    <3> QED
      BY <3>1, <3>2
  <2>2. IsDb(sync.db)'
    BY <1>3, FreshFiles DEF IsDb
  <2>3. life' \in 1 .. MaxLife
    BY <1>1, CheckpointAssumption DEF TypeOK
  <2>4. version' \in Nat /\ uploaded' \subseteq Numbers
    BY <1>1, <1>5, <1>13 DEF TypeOK, Listed
  <2> QED
    BY <1>1, <1>3, <1>5, <2>1, <2>2, <2>3, <2>4 DEF TypeOK, IsDb
<1>7. Shape'
  <2>1. IsDb(cold.mf.db)'
    BY <1>4, FreshFiles DEF IsDb
  <2> QED
    BY <1>1, <1>3, <1>4, <2>1 DEF Shape
<1>8. Numbering'
  <2>1. Below(db)'
    <3>1. CASE db' = db
      BY <3>1 DEF Numbering, Below
    <3>2. CASE db' # db
      BY <1>2, <1>5, <3>2 DEF Below, Listed, Numbers
    <3> QED
      BY <3>1, <3>2
  <2>2. Below(meta)' /\ Below(manifest.db)' /\ Below(sync.db)' /\ Below(cold.mf.db)'
    BY <1>1, <1>3, <1>4, FreshFiles DEF Numbering, Below
  <2>3. Earlier(manifest.db, db)'
    <3>1. CASE db' = db
      BY <1>1, <3>1 DEF Numbering, Earlier
    <3>2. CASE db' # db
      BY <1>1, <1>2, <3>2 DEF Earlier, Has
    <3> QED
      BY <3>1, <3>2
  <2>5. db'.next >= 1
    BY <1>2, <1>5
  <2>4. Earlier(sync.db, db)' /\ Earlier(cold.mf.db, db)'
    BY <1>3, <1>4, <2>5, FreshFiles DEF Earlier
  <2> QED
    BY <1>1, <1>3, <2>1, <2>2, <2>3, <2>4 DEF Numbering
<1>9. SyncProgress'
  BY <1>3, FreshFiles DEF SyncProgress
<1>10. RecordSound'
  <2>1. manifest.db.next <= db'.next /\ db'.next \in Nat
    BY <1>2, <1>5 DEF Numbering, Earlier
  <2>2. \A n \in uploaded' : n < db'.next
    BY <1>1, <1>5, <1>13, <2>1 DEF Listed, Numbers
  <2> QED
    BY <1>4, <2>2, FreshFiles DEF RecordSound, Listed
<1>11. ListedNotReplaced'
  BY <1>1 DEF ListedNotReplaced, Listed
<1>12. UploadedIsStored'
  <2>1. CASE db' = db
    <3>1. SUFFICES ASSUME NEW n \in Listed(mf) \cap DOMAIN db.files
                   PROVE  n \in DOMAIN ssts /\ ssts[n] = db.files[n]
      BY <1>1, <1>3, <2>1 DEF UploadedIsStored
    <3>2. mf = manifest
      BY <1>13
    <3>3. n \in DOMAIN ssts
      <4>1. mf # NoManifest
        BY FreshFiles DEF Listed
      <4> QED
        BY <1>0, <4>1 DEF CrashWiped, CrashKept, Recoverable
    <3> QED
      BY <3>2, <3>3 DEF ListedNotReplaced, Numbering, Earlier, Listed
  <2>2. CASE db' # db
    BY <1>1, <1>2, <1>3, <2>2 DEF UploadedIsStored, Has
  <2> QED
    BY <2>1, <2>2
<1> QED
  BY <1>6, <1>7, <1>8, <1>9, <1>10, <1>11, <1>12

LEMMA ColdReadStep ==
  ASSUME CheckpointInv, ColdRead
  PROVE  CheckpointInv'
<1> USE DEF CheckpointInv
<1>1. /\ cold' = [pc |-> "read", mf |-> manifest, todo |-> {}]
      /\ cold'.pc = "read" /\ cold'.mf = manifest /\ cold'.todo = {}
      /\ UNCHANGED <<life, db, ssts, meta, manifest, sync, blind, version, uploaded>>
  BY DEF ColdRead, coldOthers
<1>2. TypeOK'
  BY <1>1 DEF TypeOK, IsDb
<1>3. Shape'
  BY <1>1 DEF Shape, IsDb, TypeOK
<1>4. Numbering'
  BY <1>1 DEF Numbering, Below, Earlier
<1>5. SyncProgress' /\ ListedNotReplaced' /\ UploadedIsStored'
  BY <1>1 DEF SyncProgress, Has, ListedNotReplaced, UploadedIsStored, Listed
<1>6. RecordSound'
  BY <1>1 DEF RecordSound, ListedNotReplaced, Numbering, Earlier, Listed
<1> QED
  BY <1>1, <1>2, <1>3, <1>4, <1>5, <1>6

\* Cold recovery goes on with the manifest it read or ends.
LEMMA ColdGoesOn ==
  ASSUME CheckpointInv,
         UNCHANGED <<life, db, ssts, meta, manifest, sync, blind>>,
         version' \in Nat, uploaded' \subseteq Numbers,
         \A n \in uploaded' : n \in uploaded \/ n \in Listed(cold.mf) \cap DOMAIN ssts,
         \/ cold' = ColdIdle
         \/ /\ cold' = [pc |-> "download", mf |-> cold.mf, todo |-> cold'.todo]
            /\ cold'.todo \subseteq Listed(cold.mf)
  PROVE  CheckpointInv'
<1> USE DEF CheckpointInv
<1>1. \/ /\ cold'.pc = "idle" /\ cold'.mf = NoManifest /\ cold'.todo = {}
         /\ cold' = ColdIdle
      \/ /\ cold'.pc = "download" /\ cold'.mf = cold.mf
         /\ cold'.todo \subseteq Listed(cold.mf)
  <2>1. CASE cold' = ColdIdle
    BY <2>1, IdleCold
  <2>2. CASE cold' = [pc |-> "download", mf |-> cold.mf, todo |-> cold'.todo]
             /\ cold'.todo \subseteq Listed(cold.mf)
    BY <2>2
  <2> QED
    BY <2>1, <2>2
<1>2. cold' = [pc |-> cold'.pc, mf |-> cold'.mf, todo |-> cold'.todo]
  BY <1>1, IdleCold
<1>3. TypeOK'
  BY DEF TypeOK, IsDb
<1>4. IsDb(cold.mf.db)' /\ Below(cold.mf.db)' /\ Earlier(cold.mf.db, db)'
      /\ cold'.mf.version \in Nat
  <2>1. CASE cold'.mf = cold.mf
    BY <2>1 DEF Shape, Numbering, IsDb, Below, Earlier
  <2>2. CASE cold'.mf = NoManifest
    <3>1. cold'.mf.db = Fresh /\ cold'.mf.version = 0
      BY <2>2, FreshFiles
    <3> QED
      BY <3>1, FreshFiles DEF IsDb, Below, Earlier, TypeOK
  <2> QED
    BY <1>1, <2>1, <2>2
<1>5. Shape'
  BY <1>1, <1>2, <1>4 DEF Shape
<1>6. Numbering'
  BY <1>4 DEF Numbering, Below, Earlier
<1>7. SyncProgress' /\ ListedNotReplaced'
  BY DEF SyncProgress, Has, ListedNotReplaced, Listed
<1>8. \A n \in Listed(cold.mf) : n < db.next
  BY DEF Numbering, Below, Earlier, Listed, Shape, TypeOK, IsDb, Numbers
<1>9. RecordSound'
  BY <1>1, <1>8, FreshFiles DEF RecordSound, Listed
<1>10. UploadedIsStored'
  BY DEF UploadedIsStored, RecordSound
<1> QED
  BY <1>3, <1>5, <1>6, <1>7, <1>9, <1>10

LEMMA ColdUnreadStep ==
  ASSUME CheckpointInv, ColdUnread
  PROVE  CheckpointInv'
<1> USE DEF CheckpointInv
<1>1. uploaded' = {} /\ UNCHANGED <<life, db, ssts, meta, manifest, sync, blind, version, cold>>
  BY DEF ColdUnread, coldOthers
<1>2. TypeOK' /\ Shape'
  BY <1>1 DEF TypeOK, IsDb, Shape
<1>3. Numbering'
  BY <1>1 DEF Numbering, Below, Earlier
<1>4. SyncProgress' /\ ListedNotReplaced' /\ UploadedIsStored' /\ RecordSound'
  BY <1>1 DEF SyncProgress, Has, ListedNotReplaced, UploadedIsStored, RecordSound, Listed
<1> QED
  BY <1>1, <1>2, <1>3, <1>4

LEMMA ColdResetStep ==
  ASSUME CheckpointInv, ColdReset
  PROVE  CheckpointInv'
<1>1. /\ UNCHANGED <<life, db, ssts, meta, manifest, sync, blind>>
      /\ uploaded' = {} /\ version' = cold.mf.version
  BY DEF ColdReset, coldOthers
<1>2. \/ cold' = ColdIdle
      \/ /\ cold' = [pc |-> "download", mf |-> cold.mf, todo |-> cold'.todo]
         /\ cold'.todo \subseteq Listed(cold.mf)
  BY DEF ColdReset, CheckpointInv, Shape
<1>3. version' \in Nat
  BY <1>1 DEF CheckpointInv, Shape
<1> QED
  BY <1>1, <1>2, <1>3, ColdGoesOn

LEMMA ColdDownloadStep ==
  ASSUME CheckpointInv, NEW n \in Numbers, ColdDownload(n)
  PROVE  CheckpointInv'
<1>1. /\ UNCHANGED <<life, db, ssts, meta, manifest, sync, blind, version>>
      /\ uploaded' = uploaded \cup ({n} \cap DOMAIN ssts)
      /\ cold.pc = "download" /\ n \in Listed(cold.mf)
  BY DEF ColdDownload, coldOthers, CheckpointInv, RecordSound
<1>2. \/ cold' = ColdIdle
      \/ /\ cold' = [pc |-> "download", mf |-> cold.mf, todo |-> cold'.todo]
         /\ cold'.todo \subseteq Listed(cold.mf)
  BY <1>1 DEF ColdDownload, CheckpointInv, Shape, RecordSound
<1>3. version' \in Nat /\ uploaded' \subseteq Numbers
  BY <1>1 DEF CheckpointInv, TypeOK
<1> QED
  BY <1>1, <1>2, <1>3, ColdGoesOn

-------------------------------------------------------------------------------
LEMMA CheckpointStart == Init => CheckpointInv
<1> SUFFICES ASSUME Init PROVE CheckpointInv
  OBVIOUS
<1> USE DEF Init
<1>1. sync.pc = "idle" /\ sync.db = Fresh /\ sync.todo = {} /\ sync.prev = {}
      /\ sync.version = 0
      /\ sync = [pc |-> sync.pc, db |-> sync.db, todo |-> sync.todo, prev |-> sync.prev,
                 version |-> sync.version]
  BY IdleSync
<1>2. cold.pc = "idle" /\ cold.mf.db = Fresh /\ cold.todo = {} /\ cold.mf.version = 0
      /\ cold = [pc |-> cold.pc, mf |-> cold.mf, todo |-> cold.todo]
  BY IdleCold, FreshFiles
<1>3. db = Fresh /\ meta = Fresh /\ manifest.db = Fresh /\ manifest.version = 0
      /\ DOMAIN ssts = {}
  BY FreshFiles
<1>4. TypeOK
  <2>1. IsDb(db) /\ IsDb(meta) /\ IsDb(manifest.db) /\ IsDb(sync.db)
    BY <1>1, <1>3, FreshFiles
  <2>2. life \in 1 .. MaxLife
    BY CheckpointAssumption
  <2>3. DOMAIN ssts \subseteq Numbers /\ version \in Nat /\ manifest.version \in Nat
    BY <1>3
  <2>4. /\ uploaded \subseteq Numbers /\ sync.prev \subseteq Numbers /\ sync.todo \subseteq Numbers
        /\ sync.pc \in {"idle", "upload", "stale", "pointer", "trim"} /\ sync.version \in Nat
    BY <1>1
  <2> HIDE DEF Init
  <2>5. blind \in BOOLEAN
    BY DEF Init
  <2> QED
    BY <2>1, <2>2, <2>3, <2>4, <2>5 DEF TypeOK
<1>5. Shape
  BY <1>1, <1>2, FreshFiles DEF Shape
<1>6. Numbering
  BY <1>1, <1>2, <1>3, FreshFiles DEF Numbering, Earlier
<1>7. SyncProgress
  BY <1>1, FreshFiles DEF SyncProgress
<1>8. RecordSound /\ ListedNotReplaced /\ UploadedIsStored
  BY <1>1, <1>2, <1>3, FreshFiles DEF RecordSound, ListedNotReplaced, UploadedIsStored, Listed
<1> QED
  BY <1>4, <1>5, <1>6, <1>7, <1>8 DEF CheckpointInv

\* Until a process starts beside a manifest it could not read.
LEMMA CheckpointStep == (blind \/ CheckpointInv) /\ [Next]_vars => (blind \/ CheckpointInv)'
<1> SUFFICES ASSUME blind \/ CheckpointInv, [Next]_vars PROVE blind' \/ CheckpointInv'
  OBVIOUS
<1>1. CASE UNCHANGED vars
  BY <1>1 DEF vars, CheckpointInv, TypeOK, IsDb, Shape, Numbering, Below, Earlier, SyncProgress,
              Has, RecordSound, ListedNotReplaced, UploadedIsStored, Listed
<1>2. CASE Next /\ CheckpointInv
  BY <1>2, NewFileStep, SyncBeginStep, UploadMutableStep, PutVersionedStep, PutPointerStep,
     SyncFailStep, UploadStep, UploadFailStep, DeleteStaleStep, TrimStep, CrashStep,
     ColdReadStep, ColdUnreadStep, ColdResetStep, ColdDownloadStep DEF Next
<1>3. CASE Next /\ blind
  BY <1>3 DEF Next, NewFile, SyncBegin, UploadMutable, PutVersioned, PutPointer, SyncFail, Upload,
              UploadFail, DeleteStale, Trim, Crash, CrashWiped, CrashKept, ColdRead, ColdUnread,
              ColdReset, ColdDownload, others, coldOthers
<1> QED
  BY <1>1, <1>2, <1>3

\* The invariant holds until a process starts beside a manifest it could not read.
THEOREM CheckpointInvariant == Spec => [](blind \/ CheckpointInv)
<1>1. Init => blind \/ CheckpointInv
  BY CheckpointStart
<1> QED
  BY <1>1, CheckpointStep, PTL DEF Spec

\* No upload, of whatever life, replaces an SST file the current manifest lists.
THEOREM CheckpointListedKept == Spec => []ListedNotReplaced
<1>1. blind \/ CheckpointInv => ListedNotReplaced
  BY DEF CheckpointInv, ListedNotReplaced
<1> QED
  BY <1>1, CheckpointInvariant, PTL

\* A record in uploadedFiles of a file the database still has is true, so skipping its
\* upload is safe, although cold recovery fills the same map beside Sync.
THEOREM CheckpointSkipsSafely == Spec => []UploadedIsStored
<1>1. blind \/ CheckpointInv => UploadedIsStored
  BY DEF CheckpointInv, UploadedIsStored
<1> QED
  BY <1>1, CheckpointInvariant, PTL

\* Sync publishes manifest.json only when a node with an empty disk could recover from it at
\* that moment.
THEOREM CheckpointPublished == Spec => PublishedSound
<1>1. (blind \/ CheckpointInv) /\ [Next]_vars =>
        [manifest' # manifest /\ ~blind => ManifestRecoverable']_vars
  <2> SUFFICES ASSUME CheckpointInv, Next, manifest' # manifest PROVE ManifestRecoverable'
    OBVIOUS
  <2>1. PutPointer
    BY DEF Next, NewFile, SyncBegin, UploadMutable, PutVersioned, SyncFail, Upload, UploadFail,
           DeleteStale, Trim, Crash, CrashWiped, CrashKept, Recovered, ColdRead, ColdUnread,
           ColdReset, ColdDownload, coldOthers
  <2> QED
    BY <2>1, PutPointerStep
<1> QED
  BY <1>1, CheckpointInvariant, PTL DEF Spec, PublishedSound
===============================================================================
