# A TLA+ verification of CloudPebble

CloudPebble is a key-value engine on top of Pebble whose durability comes from an
object store: every write is put there as a write-ahead-log (WAL) object before
it is applied locally, and a background Sync uploads checkpoints and collects the
WAL objects they cover. A Bigtable-compatible gRPC server runs on top of it.

This directory holds TLA+ modules translated from the Go source under `src/`, TLC
configurations that check them on small instances, and TLAPS proofs of the results
that matter most. `PROJECT.json` has the exact correspondence (`map`), the runs,
the mutants, the findings, the hazards and the theorems.

## 1. Inventory

| Component | State | Operations | Depends on |
|---|---|---|---|
| `walcloud.Manager` (`pkg/walcloud/manager.go`) | `nextSeq`, the open window (`pending`, `waiters`, `pendingSeq`, `commitTimer`), `closed`, `wg`, `flushMu` | `NewManager`, `WriteRecord`, `flushPending`, `Flush`, `Close`, `List`, `ReadRecord`, `GC` | object store |
| `engine.Engine` (`pkg/engine/engine.go`) | Pebble, `maxWALSeq`, `manifestVersion`, `uploadedFiles`, `syncMu`, miss counters | `Open`/`recover`, `Set`/`Delete`/`Apply`, `Get`, `Sync`, `syncLoop`, `checkEviction`, `walReplayLoop`, `triggerColdRecovery`, `Close` | Manager, store, Pebble |
| asynchronous WAL (same file) | local WAL files named by sequence number, one goroutine per acknowledged write | `applyThenWALAsync`, `replayLocalWALs` | Manager, Pebble |
| `objstore.Store` (local, GCS) | objects by path | `Put`, `Get`, `Delete`, `List`, `Attrs` | - |
| Bigtable server: writes (`mutate.go`, `readmodifywrite.go`, `server.go`) | one engine per table, row locks | `MutateRow(s)`, `CheckAndMutateRow`, `ReadModifyWriteRow` | Engine, encoding, filters |
| Bigtable server: reads (`readrows.go`) | per call: iterator, row under way, row count, chunk buffer | `ReadRows`, `SampleRowKeys` | Engine, encoding, filters |
| Bigtable server: sessions (`session.go`) | the table of the stream | `handleSession`, `dispatchVRPC` | the handlers above |
| row filters (`filter.go`) | a tree of evaluators with counters | `evaluate`, `reset`, `hasMatch` | - |
| key encoding (`encoding.go`) | none (pure) | encode, decode, end keys, timestamp bounds | - |

How they interact. A write is one call of `WriteRecord`, which returns after the
object that holds the record is stored; then the record is applied to Pebble and
`maxWALSeq` is raised. Sync flushes Pebble, flushes the Manager, takes a Pebble
checkpoint, reads `maxWALSeq`, uploads the files, publishes `manifest.json`, and
has the Manager delete the WAL objects up to that number, and older "orphans". A
starting node downloads the checkpoint of the manifest and, in strong mode,
replays the objects above the manifest's number; in eventual mode a loop does that
later. Reads that miss several times in a row start a recovery on the running
engine.

What is hard here: batching windows raced by timers, `Flush` and `Close`; a
`sync.WaitGroup` shared by three kinds of callers; Puts that fail after they took
effect; a counter that is re-derived from a listing after a restart; Sync reading
four pieces of state at four moments while writers run; a crash between any two
store calls; file and sequence numbers that are drawn again; cold recovery on a
live engine; with AsyncWAL, local files that several writers share and a goroutine
removes. On the Bigtable side: filters with counters that see one cell at a time, a
chunk buffer that fills in the middle of a row, keys whose byte order has to agree with
the order of cells up to the limits of every length field, and virtual RPCs whose type
is guessed from their payload. Most of that takes two or three actors and a crash to go wrong, which
is what the models explore. `PROJECT.json` lists each hazard at its line.

What makes each component correct:

* Manager: acknowledged records are stored under the returned number until they
  are collected, objects never change, each writer is answered exactly once,
  `Flush` is a barrier, `Close` ends.
* Engine: nothing is visible that is not logged; an acknowledged write survives any
  crash, is served afterwards, and reaches a checkpoint eventually.
* Checkpoints: whatever manifest is published can be recovered from.
* Asynchronous WAL: a local file stays until its record is uploaded, and goes then;
  a restart on the same disk finds every acknowledged write.
* Bigtable writes: conditional and read-modify-write operations are atomic per row.
* Reads: a client puts together whole rows, filtered as documented, and may resume where
  it is told.
* Encoding: the order of encoded keys is the order of cells, and every bound selects
  the cells it names.
* Sessions: a virtual RPC reaches its own handler and table.

## 2. Modules

```
WalService <--implements-- WalManager <-- MCWalManager (TLC)
  ^    ^                       ^
  |    |                       `-- WalManagerProofs (TLAPS, instantiates WalServiceProofs)
  |    `-- WalServiceProofs (TLAPS)
  |            ^
Engine <-- AsyncWAL <-- EngineProofs (TLAPS)
  ^            ^
  |            `-- MCAsyncWAL (TLC)
  `-- MCEngine (TLC)

Checkpoint (TLC) <-- CheckpointProofs (TLAPS)
Session (TLC) <-- SessionProofs (TLAPS)
RowOps <-- RowOpsProofs (TLAPS)         RowOps <-- MCRowOps (TLC)
RowFilter <-- ReadRows <-- ReadRowsProofs (TLAPS)
                 ^-- MCReadRows (TLC)
CellKeys <-- CellKeysProofs (TLAPS)     CellKeys <-- MCCellKeys (TLC)
```

**WalService** is the abstract log: records are accepted into numbered batches, a
batch becomes one object or none, its writers are answered after the store has
answered, the collector removes objects, and a restart derives the counter from
what the store lists. It says nothing of windows and timers.

**WalManager** is `walcloud.Manager` with every step another goroutine can
interleave with. Each critical section of `mu` is an action, a store call is
separated from what precedes and follows it, and `sync.WaitGroup` keeps the gap
between the release of a waiter and its return. `loose` counts the `flushPending`
callbacks that can no longer be stopped: a timer that fired, or one that an
`AfterFunc` of the next window replaced in `commitTimer` while it was armed. An
error of a Put leaves open whether the object is there. It implements `WalService`
(`RefinesWalService`) with the batches of the open window, of the flights and of
`Flush` as the abstract batches. The batch window is an argument of
`NewManager`, so each start chooses it anew; in the direct mode (`batchWindow = 0`) the
check of `closed` and the
fetch-and-add are one step: nothing depends on their order.

**Engine** extends WalService with writers, Sync, recovery, the replay loop and
cold recovery, AsyncWAL off. A record writes one key (a delete is a record too).
`mem` is what a read of Pebble returns, `sst` the part in SST files: Pebble runs
with `DisableWAL`, so a crash loses the difference and a checkpoint does not have
it. The actions of Sync follow the source: flush, `walMgr.Flush`, checkpoint, read
of `maxWALSeq`, manifest, listing of the collector, one delete at a time; each can
fail. `Crash` is the death of the process and the `Open` of the next one up to the
point where it serves. It may find its local directory wiped (the checkpoint is
downloaded) or kept (its own SST files). `before`, `covered`, `missed`, `reused`
are history variables the properties need.

**Checkpoint** opens the box Engine leaves closed: the incremental upload of SST
files by number, the mutable files put in place, stale deletion, the
manifest and its version, failed attempts, and recovery on an empty directory, by a node that
draws file numbers again, or on the kept one. A failed Get of the manifest counts as "no
manifest", as in the code; `blind` (history) marks a process that started empty that way. The
versioned copies of the manifest are put and trimmed, but nothing reads them. A file's content is the process life that wrote it, so a reused
number with a different content is visible.

**RowOps** is the write side of the Bigtable server: any number of handlers of
MutateRow, MutateRows, CheckAndMutateRow and ReadModifyWriteRow on one table, from
`getEngine`'s lookup under the read lock to the answer. A handler's steps are the
points where it reads or changes what others see: the lookup and the opening of the
table, the row lock, the predicate, each rule of a read-modify-write, `eng.Apply`.
A row has one column, a cell is a row and a timestamp, and a value is the set of
writes that went into it, so a lost increment or append is a missing element.
`told` is the status a client gets for each row. `eng.Apply` is atomic here: the batch is
visible, or the call fails and has left nothing or its whole batch in the log (`logged`),
which a replay may give back later (`Replay`); how the engine gets there is the subject of
Engine. There is no variable for the clock: `time.Now()` is wall time, so whoever looks at
it may find any time. Three histories say what happened to a call: something else wrote its
row after it had begun to read it (`raced`), its timestamp was older than a cell of its row
when it took it (`behind`), it failed and was given back (`replayed`). MutateRows has one
entry per row.

**AsyncWAL** extends Engine with the option of that name. A write is registered with
the log (`Write` of Engine), then `writeFileSync` opens (and truncates) and fills the
file of its number, two steps because the writers of a window have the same number and
so the same file; then it is applied and acknowledged, and a goroutine (`cleaners`)
waits for the log's answer. `Partial` is a file that does not hold a complete record: it
makes `replayLocalWALs`, and so Open, fail until someone removes it (`Openable`).
`CrashLocal` is Engine's crash on a disk that survives; `opening` is the time in which
`replayLocalWALs` applies and deletes the files in the order of their names, before the
loops start and before writers are admitted. `clobbered`, `lapsed` and `shadowed` are
history: they name the records that a truncation, a deletion after replay, or an older
file can have cost.

**RowFilter** has filter.go twice: `Evaluate` and `Reset`, the tree of evaluators that
is fed one cell after the other, and `RefFilter`, what the API's documentation says a
filter does to the cells of a row, given as their positions. Both recurse over the tree,
and are functions of the depth to which filters are nested (`Trees`, `MaxDepth`). A member
of a composite is evaluated in its own state, so what it says does not depend on whether
the others were asked: `EvalChain`, `EvalInterleave` and `EvalCondition` take the answers of
all members and keep the new state of those the loop in the code gets to (`Ask`). A regular
expression or a bit mask is the set of strings it accepts, for both sides: that the code
searches where the documentation matches whole strings (filter.go:296-310,
data.pb.go:1197) is outside. `RefFilter` returns a set of cells, with the values they have:
the documentation says more of interleaves that let a cell pass twice (it comes out twice,
data.pb.go:2756-2778) and of transformers inside the tree (only the cells of their branch are
stripped, and a filter behind one sees the empty value, data.pb.go:1205-1208, 2707). `Plain`
has the trees to which that does not apply and for which both sides can agree: transformers
at the end only, interleaves whose members exclude each other and do not count, conditions
that have a true_filter (`Missing`) and look at the row key only, no empty bound, no time
range without a start.

**ReadRows** is the handler on a table that other calls change. `OpenRange` takes the
iterator's snapshot; `NextRow`, `ScanCell` and `EndRange` are the parts of the loop, and
a `Flush` may find the stream broken. The client of the stream takes the chunks
sent so far one by one (`Client`): it checks what the protocol asks of a chunk and takes a
row when it is committed. `due` (history) has the rows of the snapshots, with what the
filter means for each. Values are copied to one buffer, `valBuf`, and the continuation
chunks of a large value are slices of it (readrows.go:154, 233): reading the next large value
writes over those that are still in the chunk buffer (`Overwritten`; not those of an array
that append has replaced). `spoiled` (history) is set by that, by a range that is left out because its iterator
failed (`SkipRange`), and by a row that the loop cannot delimit.
The predicate of CheckAndMutateRow (`HasMatch`) is checked on the same filters.

**CellKeys** is encoding.go under the mutations and bounds that use it. `db` holds byte
strings, of which only the order is used; `table` holds the cells that the last call should leave of those
that Pebble held before it, by what the call names. Bytes are scaled down (`MaxByte` = 3 stands for 0xFF, two bytes for a length or a
timestamp of several), so names at and beyond the limit of a length field, wrapping and
saturating timestamps and prefixes that collide with end keys are all within reach.
What end keys miss is written into the expected result of each deletion (`TopByte`, a
family name of `MaxByte` bytes). Calls that leave something else are marked in `stray`: names
that do not fit their length field, and time ranges whose unset end spares a cell. The call
after such a one is judged again, by what Pebble then holds.

**Session** is one OpenTable stream. A payload is the set of fields it sets with the types
its sender gave them; `dispatchVRPC` tries to read it as six request types in turn. Some
readings always succeed (everything is `bytes`), some never, and some depend on the data:
these are part of the request (`reads`), so every accident is explored, also a text (an app
profile or a view, which no handler looks at) that reads as a mutation and is applied. The
handlers are their outcomes. Only the table's name survives a message, so one call at a time is enough.

### Assumptions

* One process per namespace at a time, as the engine presumes.
* `Put` is atomic (true of GCS; the local backend writes in place and can leave a
  torn file).
* Puts of a dead process have settled, stored or not, before the next one lists the
  log.
* `orphanTTL` (one hour by default) is longer than any call takes to return and
  than a replay tick. Objects meet it when all their writers failed, or when the
  node was down that long (`LongOutages`).
* `pebble.Open` on the directory of the running instance fails on its lock, which is
  how a cold recovery ends. What Pebble makes of files a cold recovery writes over
  its own is not modelled; `PublishedSound` says nothing about that.

## 3. Runs

Passing runs:

| Run | What it shows |
|---|---|
| `wal_batched` | three writers, with and without batching, against timers, Flush, Close, GC, failing Puts and restarts: the Manager implements the abstract log; acknowledged records stay; each waiting writer is in one batch once; Flush is a barrier |
| `wal_live` | with a store that may never answer: a writer that waits for ever waits for the Put of its own batch, or was in the window whose timer Close stopped (`WritersAnswered`); a Close that never returns has a Put that never returns behind it (`CloseEnds`) |
| `engine_strong` | strong mode, three writes of one key against Sync, GC, Pebble's flushes and crashes: what is acknowledged is recovered (`LossExplained`) and served (`ServesAcked`), except in the two ways the refuted claims exhibit, and GC deletes nothing that only the log has (`UncoveredKept`) |
| `engine_live` | every acknowledged write reaches a checkpoint, cold recoveries on the running engine or not |
| `engine_eventual` | eventual mode with its replay loop: the log still comes first, and GC deletes nothing that only the log has |
| `async_wal` | two asynchronous writes that share a window or do not, failing uploads, Sync, crashes anywhere and outages longer than `orphanTTL`, on a disk that survives: a node that opens again has lost an acknowledged write only in the ways `AsyncLossExplained` names, `AsyncServes` the same for the running node; no file of an uploaded write is left without a goroutine to remove it (`UploadedOwned`) |
| `row_ops` | three calls of any method on two rows of a table that is being opened: one engine for all; conditional mutations exclude each other (`CheckIsolated`) and release their locks on every path; a call that reported an error has left nothing, unless the log had its whole batch and gave it back (`ErrorLeavesNothing`); increments add up where nothing overtook them and the clock was not behind (`SequentialRules`) |
| `checkpoint` | over two lives, with failing Puts, cold recoveries and restarts on a kept or an empty disk, no upload replaces a file the manifest lists, skipped uploads were really done, every published manifest can be recovered from |
| `read_rows` | scans in both directions, with limits, overlapping ranges and keys out of order, through some fifty filters, with a buffer of three chunks, cells of two chunks, broken streams and concurrent writes: in a scan that is not spoiled the client gets exactly the rows the filter means (`RowsExact`) and may resume behind `last_scanned_row_key` (`ResumeSafe`); the predicate of CheckAndMutateRow decides as documented (`PredicateExact`) |
| `cell_keys` | pairs of cells of twenty columns under every mutation: each call takes and spares the cells it should, unless it is `stray` (`CellsExact`), keys sort as cells do (`KeyOrder`), row ranges select their rows (`ScanExact`), ReadModifyWriteRow finds the newest cell (`LatestRead`) |
| `session` | every request with every set of fields and accidental readings: what is written was asked for, in the table it was asked for, unless a text was taken for a mutation (`WritesAsked`); reads are served from the session's table (`ReadsServed`); which mutations ever reach their own handler (`AppliedOnlySpoilt`) |

The type invariants of Checkpoint, CellKeys and Session are stated beside the model, for
proofs to start from, and hold with these configurations; no run lists them, because the
properties above say more (`CheckpointInvariant` contains that of Checkpoint, `TypeHolds` proves
that of CellKeys).

One run refutes a claim of the repository (it is the finding in `PROJECT.json`, with the
sentence it quotes). `engine_sync_loss`: a write acknowledged between the flush and the
read of `maxWALSeq` is covered by the manifest, missing in the checkpoint, and collected.

### Further claims

TLC refutes these too. Each is an invariant (or, where it says so, a property) of its
module; to see it, check it with the cfg named, with the changed constants if any.

Log and engine:

* `SurvivesRestart`, `EngineStrong.cfg`: after the log was collected a restarted node
  numbers from 1 again, below the manifest: those writes are acknowledged, skipped by
  recovery and collected.
* `ManifestRecoverable`, `Checkpoint.cfg`: a crash between the upload of the mutable files
  and the manifest pointer leaves a manifest that cannot be opened.
* `ListedNeverReplaced`, `Checkpoint.cfg`: a process whose Get of the manifest fails
  (engine.go:266) starts empty, draws the file numbers from 1 again, and its next Sync puts
  its own files over those the manifest lists.
* `OpensAgain`, `AsyncWAL.cfg`: a crash between the opening of a local file and its fsync
  leaves a file that is no record, `replayLocalWALs` (engine.go:930-933) returns an error at
  it, and the node does not open, with the acknowledged files behind it unread.
* `ZeroLoss`, `AsyncWAL.cfg` with `Records = {r1}` and no symmetry: a local file is
  replayed into a memtable without a WAL and deleted, and the next crash loses it
  (src/README.md:19 "zero data loss if the SSD survives"). With two records a shared file
  that another writer of the window truncates will do.
* `FlushDurable`, `WalBatched.cfg`: `Flush` returns nil although a background flush it
  waited for failed. `NoPutAfterClose`: Close returns while a direct write, or a late
  `flushPending`, has its Put to do. `WaitGroupReusedSafely`: `wg.Add` races with a
  released `Wait`, and the wait group panics. `SeqMonotonic` (a property).
* `NoWriterStranded` (a property), `WalLive.cfg`: Close stops the timer of an open window
  and nobody flushes it: its writers wait for ever although no Put hangs.
* `LossExplained` with `ColdMisses = TRUE`: a cold recovery puts `maxWALSeq` back, and a
  later replay puts old values over new ones. With `ManifestFaults = TRUE` (`ServesAcked`
  too): `recover` (engine.go:266) takes any error of the manifest's Get for "no manifest",
  starts empty and later publishes that, although `objstore.ErrNotFound` would tell the
  two apart.
* `UncoveredKept` with `Strong = FALSE` and `LongOutages = TRUE`: an eventual node that
  was down for long collects acknowledged objects as orphans before it replays them.
* `ReplayCatchesUp`, `EngineEventual.cfg`: a write raises `maxWALSeq` past objects of
  an earlier life that were never replayed, and the loop, of which src/README.md:254
  says that it "catches up", skips them for ever (engine.go:341).

Bigtable writes, `RowOps.cfg`:

* `RulesAtomic` (quickest with `Kinds = {"rmw"}`): two ReadModifyWriteRow calls read the
  same value, both succeed, and one increment is lost: no row lock is taken.
* `CheckAtomic`: a MutateRow or a ReadModifyWriteRow comes between the predicate and
  the mutations of a CheckAndMutateRow (mutate.go:136 "atomically reads a row").
* `EntryOkApplied`: one entry of MutateRows fails to encode, nothing is applied, and
  the other entries are reported OK (bigtable.proto:701-704 asks for "the same error").
* `ErrorNeverApplied`: a write that was reported as failed appears after all, because the
  log had it (reliable.md:71 "semantically confusing").
* `RulesWhateverTheClock`: after the wall clock was set back, a ReadModifyWriteRow that
  nobody disturbs reads the newest cell and writes its result below it, unseen.
* `RulesCompose`: a newer cell appears between two rules of a ReadModifyWriteRow, or
  was there before, and the second rule does not see what the first one wrote
  (readmodifywrite.go:17 "Earlier rules affect the results of later ones").

Reads, `ReadRows.cfg`:

* `AllRowsCommitted`: the last cell of a row fills the buffer, which is sent; at the row's
  end no chunk is left to mark, and the client never takes the row (readrows.go:38).
* `ValuesUncut`: a value of more than 64 KB is still in the chunk buffer when the next one
  of that size is read over its second chunk, and the client gets a mixture
  (readrows.go:154-155, 233; whether the filter lets the second one pass does not matter).
* `AllRangesRead`: a range whose iterator fails is left out, and the call returns no error
  (readrows.go:38, 121-123).
* `InKeyOrder`: keys and ranges are scanned in the order of the request (readrows.go:38).
* `ContentsNotAffected`: a reversed scan turns the cells of a row around as well
  (bigtable.pb.go:192-193), so a limit per column then keeps the oldest cells.
* `LimitCountsResults`: rows of which the filter leaves nothing count for `rows_limit`
  (bigtable.pb.go:184-185).
* `RowsAsDocumented`: filters that are not `Plain` decide cell by cell what is defined for
  a row (data.pb.go:2756, 2823): a condition's predicate is asked about each cell alone,
  a counting member of an interleave does not see what an earlier member accepted, and a
  condition without a true_filter lets everything pass (filter.go:255-258; data.pb.go:2835-2837
  "no results").
* Beyond those: cells under the empty row key are never delimited (`lastRowKey` starts as
  the empty string); an empty bound counts as none, and a time range without a start lets
  negative times pass (data.pb.go:943 "interpreted as 0").

Encoding, `CellKeys.cfg`:

* `EndKeyAbove`: a family name of 255 bytes puts 0xFF behind the row's prefix, at or above
  the end key (encoding.go:317-318 "guaranteed to be lexicographically greater").
* `OneRowChanged` (a property): deleting a column or family whose name does not fit its
  length field starts at the empty prefix and takes everything below 0xFF with it
  (bigtable_grpc.pb.go:70-71).
* `UnsetEndExact`: an end of 0 in a time range is taken as the server's clock
  (mutate.go:279-281) and spares what is stamped later (data.pb.go:945 "If left empty,
  interpreted as infinity").

Sessions, `Session.cfg`:

* `MutationsApplied`: a MutateRow reads as a CheckAndMutateRow without mutations, is
  answered, and is not applied (BIGTABLE_PLAN.md:112). SampleRowKeys and PingAndWarm
  are taken for reads, or, if their texts spoil that, for conditional mutations. missing.md:28
  has the trial unmarshalling as a known gap.
* `ChangedExplicitly`: the app profile of a MutateRow is read as the `true_mutations` of a
  CheckAndMutateRow; the bytes 22 00 are a DeleteFromRow there, and the row is gone
  (bigtable_grpc.pb.go:70-71).

### What the passing properties except

`LossExplained` and `ServesAcked` leave out exactly the records in `missed` and
`reused`: those a manifest covered without having them, and those that were given
a number the manifest already covered. `engine_sync_loss` and `SurvivesRestart`
show that neither exception is empty; the passing runs show that nothing else is lost.
The properties of Checkpoint end where a process started empty beside a manifest it could
not read (`blind`; `ListedNeverReplaced` shows why).
In the same way `AsyncLossExplained` adds `clobbered`, `lapsed` and `shadowed`; it says
nothing while an unreadable local file keeps the node from opening, nor does `AsyncServes`
then, because no node runs (`OpensAgain` shows that it happens).
`RowsExact` and `ResumeSafe` leave out `spoiled` scans (`AllRowsCommitted`, `ValuesUncut` and
`AllRangesRead` show the three ways) and filters that are not `Plain`,
`CheckIsolated` leaves out calls in `raced`, `ErrorLeavesNothing` those in `replayed`, and
`SequentialRules` rows with a call in `raced`, `behind` or `replayed`. A predicate whose
iterator fails (mutate.go:203-205) is false whatever the row holds, and counts as isolated.
`WritesAsked` leaves out texts that are taken for mutations (`ChangedExplicitly`).
`CellsExact` leaves out the calls in `stray` (`OneRowChanged`, `UnsetEndExact`); `LatestRead` has
no exception for over-long names because no column of the run is spelt out by one, and the
theorem asks for `NamesFit` instead.

`Fresh` allows a view to show a concurrent write of the same
key in place of the acknowledged one, but never one that had returned before it
began: concurrent writes are applied in an order that can differ from their order
in the log, and a recovery may pick the other winner.

### Bounds

The number of records bounds everything in WalManager and Engine: sequence numbers,
batches and crashes with an effect are limited by it. Two records of one key are
what it takes to overtake, to overwrite and to reuse a number; the third in
`wal_batched` and `engine_strong` puts one batch in each of the window, the
background flush and `Flush`, and one write before, in and after a Sync. All records
write one key, because different keys never meet in the engine; they are
interchangeable, which justifies the symmetry sets (not used with liveness). In
Checkpoint, `MaxFile` is 3 and `MaxLife` 2 so that a number can be drawn again, with another content,
beside files that were published and files that were uploaded and never published; with
`MaxFile` 2 and `MaxLife` 3 TLC finds nothing either.

In RowOps, three calls are two that compete for a row and one that takes no lock;
two rows are what MutateRows needs, two rules what composition needs, and two
timestamps make "older", "same" and "newer" possible. The mutation lists delete what is
older and set, and fail half-way; every call happens once, and a failed one is given back
any number of times, in whole or where no later record of the log won.

AsyncWAL has two records, the smallest number that shares a file; a third multiplies the
states and adds no new pair. A row of MCReadRows has at most three cells, the buffer three
chunks and a cell one or two, so a flush falls before, in and after a row, and in the
middle of a cell; each of two rows changes once. Filters are nested up to `MaxDepth` = 2,
which has a composite in a branch of a composite. In CellKeys the properties compare two
keys, or a key and a bound, so two keys at a time suffice; the columns are chosen so that
each pair of neighbours (prefix, zero byte, 0xFF, length limit, beyond it) occurs. In
Session nothing is bounded but the number of tables: two, the session's and another.

The direct write path of the engine (`Batching = FALSE`), `UncoveredKept` after an outage
longer than `orphanTTL`, and manifests that cannot be read (`ManifestFaults`) have no run of
their own: the theorems cover both values of these switches, MCWalManager runs with and
without batching, and `async_wal` has long outages. TLC confirms each on its own: the first
two with `EngineStrong.cfg`, the third with `EngineEventual.cfg`, in about two minutes each.

Deadlock is checked in the runs of WalManager, Engine, AsyncWAL and CellKeys, where a
restart, a flush, a GC or a deletion is always possible. Checkpoint runs into its bounds,
in RowOps and ReadRows all calls have returned in the end, and a session ends: these switch
the check off.

### Fairness

`WalManager.Fairness`: armed timers fire and goroutines get to run. No Put has to come back:
the background flush calls it with `context.Background()` (manager.go:236-238), and
reliable.md:65 describes a Close that a hung Put blocks for ever. The two properties are
conditional on that: they say which Put, or which stopped timer, is behind whoever waits for
ever. Nobody has to call WriteRecord, Flush, Close or GC. `Engine.FairSpec`: the log answers, and the steps of Sync are strongly
fair: `syncLoop` calls Sync on every tick for as long as the process lives, and a
Sync may fail or crash at any step, but not at the same one each time. Both are assumed:
`engine_live` says nothing of a log that stops answering, or of a Sync that always fails at
one step. Weak
fairness would not do, because each failure disables the step.

## 4. Proofs

TLAPS checks these for every set of records, keys, calls, rows, files and lives. The
inductive invariants were checked with TLC on the runs' instances first (with
`LongOutages`, with and without batching, with two and three records).

* **WalServiceProofs**: `SvcTypeCorrect`, `SvcAckedDurable`, `SvcImmutable`. An
  object can only be replaced by a Put under its own number, so `AckedDurable`
  alone is not inductive. `SvcInv` adds that numbers lie below the counter and are
  not shared (`NumbersFresh`), that an open batch's number is free in the store and
  an answered one left its own object (`BatchObjects`), and that the records of a
  batch or an object carry its number (`BatchWriters`, `ObjectWriters`). The
  restart step is the interesting one: the listing bounds every object, and every
  batch is gone. `SvcHeld`: a waiting record is in a batch, and no batch has a record
  twice.
* **WalManagerProofs**: `ManagerRefines`, that the Manager implements the log, and with it
  `ManagerAckedDurable` and `ManagerImmutable`, which are those of WalServiceProofs under
  the refinement mapping; `ManagerHeldOnce` and `ManagerFlushSettles`; `ManagerTypeCorrect`.
  The mapped state satisfies `SvcInv` and `SvcHeld`, which come with the refinement and
  need no second proof. `OwnInv` adds what the mapping hides: the types, that the open
  window has the newest number (`WindowNewest`), that background flushes and `Flush` never
  hold the same batch (`TakenApart`), what `Flush` holds at each of its steps (`FlushHolds`),
  and where the records are that it still has to see answered (`Barrier`).
* **EngineProofs**: `EngineLog` (every step of the engine is a step of the log, so
  the results above carry over, `EngineAckedDurable`), `EngineWriteAhead`, and
  `EngineUncoveredKept`. `EngInv` strengthens `WriteAhead` with what the replay
  loop holds in its hands (`ReadLogged`), with "applied implies ok"
  (`AppliedLogged`) and the numbers of a Sync (`SyncNumbers`). `SweepInv` is the
  collector's side: what the sweep has left is covered or abandoned (`SweepSafe`),
  what is gone was (`GoneExplained`), and what aged in an outage is at or below
  `maxWALSeq` (`AgedReplayed`). The last one needs `OutagesHandled`: long
  outages only in strong mode and without cold recoveries; TLC refutes
  `UncoveredKept` otherwise. `EngineWriteAhead` needs no condition.
  Recovery: `EngineTypeCorrect` in all modes; `RecoveryLossExplained` and
  `RecoveryServesAcked` under `Reliable` (strong mode, no cold recovery, a manifest that can
  be read). The condition is needed: TLC refutes both properties with `ColdMisses` or
  `ManifestFaults`, and `ServesAcked` is not meant for eventual mode. A write can get lost
  in two ways: it is in none of the parts a recovery reads, or something older is applied
  over it. `CoreInv` orders the log (`LogOrder`: an older write of a key never has a
  higher number, and comes first in a shared object), nests the views (`Contained`) and says
  what a manifest covers (`CoveredShown`). `RecoverInv` adds that every view shows a
  write or one that is not older (`ViewsFresh`), that what is read and not covered is still in
  the log (`ShownKept`), and that a failed write a replay brought back is below the number
  of every later Sync (`ShownFailed`), without which the orphan rule could take it away.
  What a replay computes (`ReplayedKey`) is the last write of the last object that has the
  key; the CHOOSE that defines it is well defined because a non-empty bounded set of
  numbers has a largest element (`Largest`, from the well-foundedness of the naturals).
  AsyncWAL, in the same module: `AsyncTypeCorrect` and `AsyncUploadedOwned` with every fault;
  `AsyncServesAcked` and `AsyncLoss` under `Reliable`. `CoreInv` is reused: it does not
  depend on how a write is applied, so a step of the asynchronous path either is a step of
  Engine or only moves a call and the memtable (`CoreFrame`). The file of a window is
  removed when the log has answered for ONE of its writers, which is right only because
  all calls, goroutines and files of the running process that share a number share the
  batch and its answer (`SameWindow`); numbers are drawn again after a restart, so this
  holds for the running process and not for files of an earlier one, which `Open` has
  replayed before it admits writers (`Reopening`). `WrittenKept` follows a record from its
  file into the log, `Serves` and `ServedShown` through crashes and half-done replays.
* **CheckpointProofs**, for any bounds: `CheckpointListedKept`, `CheckpointSkipsSafely` and
  `CheckpointPublished`, until a process is `blind`. A crash draws file numbers again, so the invariant
  says which versions of the database draw from one numbering (`Earlier`, `Numbering`): the
  checkpoints in use are earlier versions of the running database, and a number in two of
  them is one file. `SyncProgress` has the files a Sync has put so far, `RecordSound` what a
  cold recovery may add to the record of uploads.
* **RowOpsProofs**, for any number of calls, rows, timestamps and mutation lists:
  `RowCheckIsolated`, `RowLocksReleased`, `RowOneEngine`. `CheckIsolated` becomes
  inductive with: a call between predicate and commit holds its row's mutex
  (`SectionLocked`), its batch stays in its row (`SectionBatch`), and nobody is past
  `getEngine` while the table has no engine (`OpenedFirst`), so that the fresh row
  locks of a new table take nothing from anybody. The step that matters is Commit:
  another conditional call holds another row's lock and writes another row, and any
  other call that writes the row has put the reader into `raced`. `RowDataInvariant` adds
  the data: every cell's value is made of writes of calls that applied their batch or were
  given back by the log (`CellsWritten`), which gives `RowErrorLeavesNothing`; in a row that only undisturbed
  read-modify-writes changed (`Undisturbed`), the newest cell has the rules of all that were applied, and one
  at work holds what it read with its rules on top (`RulesInv`), which gives
  `RowSequentialRules`. `RowTypeCorrect`.
* **SessionProofs**, for any tables, fields and accidental readings: `SessionWritesAsked`,
  `SessionReadsServed`, `SessionAppliedOnlySpoilt`. The state is the last call, so the
  argument is about `dispatchVRPC`: for each kind, which of the attempts before its own
  can fail (`Handler`), by the types the fields are declared with.
* **CellKeysProofs**, for row keys, names and ranges of any bytes and lengths, any odd
  `MaxByte` above 1 and all timestamps: `CellsExactHolds`, `KeyOrderHolds`, `ScanExactHolds`
  and `TypeHolds` without a condition; `LatestReadHolds` and `OneRowChangedHolds` under
  `NamesFit`, that no call names a family or qualifier too long for its length field. The
  condition is needed: such a key has no row prefix, so that a deletion reaches every row
  (`OneRowChanged` above) and ReadModifyWriteRow's new cell can carry the prefix of another
  column. The inductive invariant (`Inv`: byte strings, the types, `CellsExact`) is short, the work
  is in what the encoding does:
  the escaped and terminated row keys have the order of the raw ones and none begins another
  (`RowOrder`, `RowBelow`), each range of keys holds the cells of its row, family, column or
  time range (`InRow`, `InFamily`, `InColumn`, `InTimes`, with `Inverted` for the wrapping
  timestamps), and the decoder finds the terminator, undoes the escapes and reads the lengths
  of every key that was encoded (`TerminatorFound`, `UnescapeEscape`, `DecodeKey`) and rejects
  or reads the others as the model says (`DecodeMeans`). Induction over byte strings goes
  through sets: the positions where a statement fails have a least element (`UpInduction`,
  from the well-foundedness of the naturals).
* **ReadRowsProofs**, for every content, request, buffer size, schedule of writers and
  `MaxDepth`: `TypeHolds`, `RowsHold`, `ResumeHolds` and `PredicateHolds`, which state
  `TypeOK`, `RowsExact`, `ResumeSafe` and `PredicateExact`.
  The filter comes first. `FilterExact`: fed the cells of a row one by one, a plain filter
  that was reset accepts those it means for the row as a whole. The proof is an induction over
  the depth, with runs of an evaluator (`IsRun`: the states it goes through when it is asked
  about some of the cells); a run of a composite is a run of each member (`MemberCase`), a
  counter holds the rank of the cell among those it was asked about (`Rank`, `Tally`), members
  of an interleave judge cell by cell (`StatelessPoints`), and the predicate of a plain
  condition gives one answer for the whole row (`ConditionExact`). That the recursive
  functions satisfy their equations is proved from the well-foundedness of the naturals.
  `RowsExact` and `ResumeSafe` speak of what a client has received and are far from inductive:
  nothing in them says what is in the buffer, what the evaluator has counted, or which row of
  `due` is under the iterator. `Inv` has eight parts. `CountInv` and `ExactInv`: `rowCount` is the
  number of rows that have begun, and at the end of the ranges that of the rows due, or at
  least the limit. `TailInv` and `MarkInv`: the rows under the iterator are the last ones of
  `due`, and the row under way is number `rowCount`. `RunInv`: the evaluator is where a reset
  one gets with the cells of the row so far. `ClientInv`: stream and buffer together give the
  client the rows that have ended, and of the row under way what the filter keeps so far.
  `SentInv`: for every prefix of the responses there is a number of rows the client has taken.
  `TypeInv` adds to the types that the cells under the iterator are rows in one piece
  (`Scanned`). The step that matters is the end of a row: its last chunk is in the buffer and
  is marked, or the row is `Unmarked` and the scan spoiled (`RowClosed`). A cell reads its
  value over the buffer first (`ScanCellHeld`): unless that spoils the scan, the buffer is as
  it was.

The assumptions are those of the modules' ASSUMEs (`KeyOf` maps records to keys, the
switches are Boolean, `Partial` is no record, `NoCall` is no call, there is a row; in
ReadRows, the cells of a row are that row's and differ in family, qualifier or timestamp,
ranges are finite, and the filter of a request has seen no cell), and the conditions named
above.

Only model-checked are the liveness properties (TLAPS does not handle fairness and
ENABLED). Every invariant that a passing run checks is a theorem as well.

## 5. Not modelled, and the plan

Not modelled, and why:

* `bigtablepb`, three quarters of the repository's lines, is generated from the protocol's
  `.proto` files; only the field numbers and types of the requests matter, and Session has
  them. This is why the map covers a small share of all lines, although it covers most of the
  handwritten packages.
* The commands: flag parsing and start-up, and integration tests under `cmd/`. Metrics:
  counters that nothing reads back.
* SampleRowKeys (file boundaries as Pebble reports them), GetClientConfiguration, the stubs
  of unimplemented methods, `Server.Close` (called when no handler runs any more).
* In filter.go the row sample, which is random, labels, which do not select cells, and
  `process`, which only tests call.
* Puts of a dead process that arrive after the next one has listed the log
  (manager.go:77), torn Puts of the local backend (local.go:49): the models assume neither.
* What Pebble makes of a cold recovery that writes over its open files (engine.go:292): that
  is Pebble's behaviour, not in this repository.
* The bytes of `mergeBatchSegments`: an object holds its records in their order.
* AsyncWAL without batching: `WriteRecord` then stores the object before it returns, and no
  goroutine is started, so the local file stays until the next start, where it is replayed
  again. `Registered` and `AckLocal` have that path; the run batches.

What is left:

1. Late Puts as a variant of WalService, and the local object store with torn Puts.
2. Filters that are not `Plain`: what a cell-by-cell evaluation means for them, as a
   reference of its own.
