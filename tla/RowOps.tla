------------------------------- MODULE RowOps -------------------------------
(***************************************************************************)
(* The calls of the Bigtable server that write rows: MutateRow,            *)
(* MutateRows, CheckAndMutateRow (mutate.go) and ReadModifyWriteRow        *)
(* (readmodifywrite.go), as concurrent gRPC handlers on one table, with    *)
(* the opening of the table's engine (server.go).                          *)
(*                                                                         *)
(* A row has one column: columns meet in nothing but the batch.  A cell is *)
(* a <<row, time>>.  A value is the set of what was written into it: a     *)
(* SetCell puts the value of its call, a rule of ReadModifyWriteRow adds   *)
(* to the value it read (appended bytes or an increment, alike), and the   *)
(* empty set is a cell that does not exist.  What a mutation list or a     *)
(* filter contains is chosen where the handler first looks at it.          *)
(*                                                                         *)
(* The engine is what it holds (cells) and what failed calls left in its   *)
(* log (logged), which it may give back.  A restart as such only ends      *)
(* handlers that no client hears of any more, and is not a step.  The      *)
(* clock is wall time, which can be set back: a handler that looks at it   *)
(* may find any time, the parameter now.                                   *)
(***************************************************************************)
EXTENDS Integers, Sequences, FiniteSetsExt

CONSTANTS Calls,          \* calls of clients
          Rows,
          NoCall,         \* the holder of a free lock
          Kinds,          \* which methods are called
          MaxTime,        \* bound on what the clock shows and on timestamps
          MaxRules,       \* bound on the rules of a ReadModifyWriteRow
          MutationLists,  \* the mutations of a MutateRow or of an entry
          Filters         \* times whose cells a predicate filter lets through

Times == 0 .. MaxTime
Keys == Rows \X Times
Contributions == Calls \X (0 .. MaxRules)
Absent == {}
ServerTime == -1

(* What a mutation of a request can be.  The three deletions without a     *)
(* time range are one, and "Unsupported" is any that is refused.           *)
Mutations ==
    [op : {"SetCell"}, at : Times \cup {ServerTime}]
        \cup [op : {"DeleteAll"}]
        \cup [op : {"DeleteRange"}, from : Times, to : Times]
        \cup [op : {"Unsupported"}]

ASSUME CallAssumption == NoCall \notin Calls
ASSUME RowAssumption == Rows # {}
ASSUME KindAssumption == Kinds \subseteq {"mutate", "rows", "check", "rmw"}
ASSUME BoundAssumption == MaxTime \in Nat /\ MaxRules \in Nat \ {0}
ASSUME RequestAssumption == /\ \A ms \in MutationLists : ms \in Seq(Mutations)
                            /\ Filters \subseteq SUBSET Times

VARIABLES
    table,    \* the engine that s.tables holds for the table, 0 if none
    lock,     \* tableState.rowLocks: the call that holds a row's mutex
    cells,    \* what Pebble holds: the value of each cell
    logged,   \* the batch that a failed eng.Apply left in the log
    pc,       \* how far the handler of a call is
    kind,     \* the method of a call
    row,      \* its row key
    using,    \* the engine that getEngine returned to it
    batch,    \* its batch: the cells it sets or deletes
    ts,       \* the timestamp of a ReadModifyWriteRow
    rules,    \* how many of its rules are done
    filter,   \* the predicate filter of a CheckAndMutateRow
    matched,  \* predicateMatched
    told,     \* what the client was told about each row
    raced,    \* calls that were overtaken: something else wrote their row
              \* after they had begun to read it (history)
    behind,   \* calls whose timestamp was older than a cell of their row when
              \* they took it (history)
    replayed  \* failed calls whose batch the engine gave back (history)

store == <<table, cells, logged, raced, behind, replayed>>
request == <<kind, row>>
readings == <<ts, filter, matched>>

vars == <<store, lock, pc, request, using, batch, readings, rules, told>>

Init == /\ table = 0
        /\ lock = [r \in Rows |-> NoCall]
        /\ cells = [k \in Keys |-> Absent]
        /\ logged = [c \in Calls |-> <<>>]
        /\ pc = [c \in Calls |-> "idle"]
        /\ kind = [c \in Calls |-> "none"]
        /\ row \in [Calls -> Rows]
        /\ using = [c \in Calls |-> 0]
        /\ batch = [c \in Calls |-> <<>>]
        /\ ts = [c \in Calls |-> 0]
        /\ rules = [c \in Calls |-> 0]
        /\ filter = [c \in Calls |-> {}]
        /\ matched = [c \in Calls |-> FALSE]
        /\ told = [c \in Calls |-> [r \in Rows |-> "none"]]
        /\ raced = {}
        /\ behind = {}
        /\ replayed = {}

-----------------------------------------------------------------------------
(* Batches: what a batch holds wins over what is below it.                 *)
Over(top, base) ==
    [k \in DOMAIN top \cup DOMAIN base |->
        IF k \in DOMAIN top THEN top[k] ELSE base[k]]

(* applySetCell replaces the timestamp -1 by the time of the server.       *)
Stamp(t, now) == IF t = ServerTime THEN now ELSE t

(* applyDeleteFromColumn: an end of 0 stands for the time of the server;   *)
(* the range includes its start and excludes its end.                      *)
RangeTimes(from, to, now) ==
    {t \in Times : from <= t /\ t < (IF to = 0 THEN now ELSE to)}

TimesOf(m, now) ==
    CASE m.op = "SetCell" -> {Stamp(m.at, now)}
      [] m.op = "DeleteAll" -> Times
      [] m.op = "DeleteRange" -> RangeTimes(m.from, m.to, now)

ValueOf(c, m) == IF m.op = "SetCell" THEN {<<c, 0>>} ELSE Absent

(* applyMutationsToBatch: of the mutations that touch a cell the last one  *)
(* counts.                                                                 *)
Touching(ms, t, now) == {i \in DOMAIN ms : t \in TimesOf(ms[i], now)}

ApplyMutations(c, r, ms, now) ==
    [k \in {r} \X {t \in Times : Touching(ms, t, now) # {}} |->
        ValueOf(c, ms[Max(Touching(ms, k[2], now))])]

Valid(ms) == \A i \in DOMAIN ms : ms[i].op # "Unsupported"

(* The entries of a MutateRows share a batch and not a key.                *)
ApplyEntries(c, entries, now) ==
    LET batchOf == [r \in Rows |-> ApplyMutations(c, r, entries[r], now)]
    IN  [k \in UNION {DOMAIN batchOf[r] : r \in Rows} |-> batchOf[k[1]][k]]

(* Mutant: the iterator starts at the other end.                           *)
NewestIsOldest(view, r) ==
    LET present == {t \in Times : view[<<r, t>>] # Absent}
    IN  IF present = {} THEN Absent
        ELSE view[<<r, Min(present)>>]

(* readCellValue: the newest cell of the column, seen through the batch.   *)
Newest(view, r) ==
    LET present == {t \in Times : view[<<r, t>>] # Absent}
    IN  IF present = {} THEN Absent
        ELSE view[<<r, Max(present)>>]

(* rowHasCells, when the iterator can be had.                              *)
RowHasCells(r, f) == \E t \in f : cells[<<r, t>>] # Absent

-----------------------------------------------------------------------------
Targets(c) == IF kind[c] = "rows" THEN Rows ELSE {row[c]}

Reply(c, answer) == [r \in Rows |-> IF r \in Targets(c) THEN answer ELSE "none"]

(* defer rowLock.Unlock()                                                  *)
Unlocked(c) == [r \in Rows |-> IF lock[r] = c THEN NoCall ELSE lock[r]]

(* A handler returns: its deferred calls run, its local variables are gone *)
(* and the client has an answer.                                           *)
Returns(c, end, answers) ==
    /\ pc' = [pc EXCEPT ![c] = end]
    /\ told' = [told EXCEPT ![c] = answers]
    /\ batch' = [batch EXCEPT ![c] = <<>>]
    /\ ts' = [ts EXCEPT ![c] = 0]
    /\ filter' = [filter EXCEPT ![c] = {}]
    /\ matched' = [matched EXCEPT ![c] = FALSE]
    /\ lock' = Unlocked(c)
    /\ rules' = [rules EXCEPT ![c] = IF end = "done" THEN 0 ELSE @]
    /\ UNCHANGED <<request, using>>

Fails(c) == Returns(c, "done", Reply(c, "error")) /\ UNCHANGED store

Begin(c, k) ==
    /\ pc[c] = "idle"
    /\ pc' = [pc EXCEPT ![c] = "lookup"]
    /\ kind' = [kind EXCEPT ![c] = k]
    /\ UNCHANGED <<row, store, lock, using, batch, readings, rules, told>>

(* No row key, no mutations, no entries or no rules.                       *)
Refuse(c) == pc[c] = "lookup" /\ Fails(c)

(* getEngine under the read lock ...                                       *)
LookupTable(c) ==
    /\ pc[c] = "lookup"
    /\ pc' = [pc EXCEPT ![c] = IF table # 0 THEN "ready" ELSE "open"]
    /\ using' = [using EXCEPT ![c] = table]
    /\ UNCHANGED <<store, lock, request, batch, readings, rules, told>>

(* ... and under the write lock, where another call may have been faster.  *)
FindTable(c) ==
    /\ pc[c] = "open"
    /\ table # 0
    /\ pc' = [pc EXCEPT ![c] = "ready"]
    /\ using' = [using EXCEPT ![c] = table]
    /\ UNCHANGED <<store, lock, request, batch, readings, rules, told>>

(* engine.Open, and a new tableState with row locks of its own.            *)
NewTable(c) ==
    /\ pc[c] = "open"
    /\ table' = table + 1
    /\ lock' = [r \in Rows |-> NoCall]
    /\ pc' = [pc EXCEPT ![c] = "ready"]
    /\ using' = [using EXCEPT ![c] = table']
    /\ UNCHANGED <<cells, logged, raced, behind, replayed, request, batch,
                   readings, rules, told>>

(* Mutant: no second look at the table under the write lock.               *)
OpenTableUnchecked(c) == NewTable(c)

OpenTable(c) == table = 0 /\ NewTable(c)

OpenFails(c) == pc[c] = "open" /\ table = 0 /\ Fails(c)

-----------------------------------------------------------------------------
Ready(c, k) == pc[c] = "ready" /\ kind[c] = k

(* The batch is complete and goes to eng.Apply.                            *)
Prepared(c, b) ==
    /\ pc' = [pc EXCEPT ![c] = "commit"]
    /\ batch' = [batch EXCEPT ![c] = b]
    /\ UNCHANGED <<store, lock, request, using, rules, told>>

MutateRow(c, ms, now) ==
    /\ Ready(c, "mutate")
    /\ Valid(ms)
    /\ Prepared(c, ApplyMutations(c, row[c], ms, now))
    /\ UNCHANGED readings

MutateRowInvalid(c, ms) == Ready(c, "mutate") /\ ~Valid(ms) /\ Fails(c)

MutateRows(c, entries, now) ==
    /\ Ready(c, "rows")
    /\ \A r \in Rows : Valid(entries[r])
    /\ Prepared(c, ApplyEntries(c, entries, now))
    /\ UNCHANGED readings

EntryStatus(entries) ==
    [r \in Rows |-> IF Valid(entries[r]) THEN "ok" ELSE "error"]

(* Mutant: the entries that can be encoded are committed all the same.     *)
MutateRowsInvalidApplied(c, entries) ==
    LET good == [r \in Rows |-> IF Valid(entries[r]) THEN entries[r] ELSE <<>>]
    IN  /\ Ready(c, "rows")
        /\ \E r \in Rows : ~Valid(entries[r])
        /\ \E now \in Times : cells' = Over(ApplyEntries(c, good, now), cells)
        /\ Returns(c, "done", EntryStatus(entries))
        /\ UNCHANGED <<table, logged, raced, behind, replayed>>

(* One bad entry: the batch is dropped, and the others are reported OK.    *)
MutateRowsInvalid(c, entries) ==
    /\ Ready(c, "rows")
    /\ \E r \in Rows : ~Valid(entries[r])
    /\ Returns(c, "done", EntryStatus(entries))
    /\ UNCHANGED store

-----------------------------------------------------------------------------
Locks(c) ==
    /\ Ready(c, "check")
    /\ lock' = [lock EXCEPT ![row[c]] = c]
    /\ pc' = [pc EXCEPT ![c] = "locked"]
    /\ UNCHANGED <<store, request, using, batch, readings, rules, told>>

(* Mutant: each call locks a mutex of its own.                             *)
LockRowOwn(c) == Locks(c)

LockRow(c) == lock[row[c]] = NoCall /\ Locks(c)

(* The predicate, and the mutations of the branch it selects.              *)
Checks(c, f, m, ms, now) ==
    /\ pc[c] = "locked"
    /\ Valid(ms)
    /\ filter' = [filter EXCEPT ![c] = f]
    /\ matched' = [matched EXCEPT ![c] = m]
    /\ Prepared(c, ApplyMutations(c, row[c], ms, now))
    /\ UNCHANGED ts

CheckRow(c, f, ms, now) == Checks(c, f, RowHasCells(row[c], f), ms, now)

(* NewIter fails: no cell is looked at, and the predicate is false.        *)
CheckRowUnread(c, ms, now) == Checks(c, {}, FALSE, ms, now)

CheckRowInvalid(c, ms) == pc[c] = "locked" /\ ~Valid(ms) /\ Fails(c)

(* Mutant: the early return forgets the row lock.                          *)
CheckRowNothingLocked(c) ==
    /\ pc[c] = "locked"
    /\ pc' = [pc EXCEPT ![c] = "done"]
    /\ told' = [told EXCEPT ![c] = Reply(c, "ok")]
    /\ UNCHANGED <<store, lock, request, using, batch, readings, rules>>

(* The branch has no mutations.                                            *)
CheckRowNothing(c) ==
    /\ pc[c] = "locked"
    /\ Returns(c, "done", Reply(c, "ok"))
    /\ UNCHANGED store

-----------------------------------------------------------------------------
Stamps(c, t) ==
    /\ Ready(c, "rmw")
    /\ pc' = [pc EXCEPT ![c] = "rules"]
    /\ ts' = [ts EXCEPT ![c] = t]
    /\ behind' = IF \E u \in Times : u > t /\ cells[<<row[c], u>>] # Absent
                     THEN behind \cup {c}
                     ELSE behind
    /\ UNCHANGED <<table, cells, logged, raced, replayed, lock, request,
                   using, batch, filter, matched, rules, told>>

(* Mutant: the server's time is not looked up.                             *)
ReadModifyWriteRowUnstamped(c, now) == Stamps(c, ServerTime)

ReadModifyWriteRow(c, now) == Stamps(c, now)

(* A rule reads the database as it is now, below the batch.                *)
NewValue(c) == Newest(Over(batch[c], cells), row[c]) \cup {<<c, rules[c] + 1>>}

Rule(c, last) ==
    /\ pc[c] = "rules"
    /\ rules[c] + 1 = MaxRules => last
    /\ pc' = [pc EXCEPT ![c] = IF last THEN "commit" ELSE "rules"]
    /\ rules' = [rules EXCEPT ![c] = @ + 1]
    /\ batch' = [batch EXCEPT
                    ![c] = Over([k \in {<<row[c], ts[c]>>} |-> NewValue(c)], @)]
    /\ UNCHANGED <<store, lock, request, using, readings, told>>

(* Not 8 bytes, out of range, a negative result, an unknown rule.          *)
RuleFails(c) == pc[c] = "rules" /\ Fails(c)

-----------------------------------------------------------------------------
Reading(d) == \/ kind[d] = "check" /\ pc[d] = "commit"
              \/ kind[d] = "rmw" /\ pc[d] \in {"rules", "commit"}

(* The calls that are reading a row of which a batch writes a cell.        *)
Readers(b) == {d \in Calls : Reading(d) /\ \E k \in DOMAIN b : row[d] = k[1]}

(* Two CheckAndMutateRow calls exclude each other and do not count.        *)
Overtaken(c) ==
    {d \in Readers(batch[c]) \ {c} : ~(kind[c] = "check" /\ kind[d] = "check")}

(* eng.Apply: the batch becomes visible at once ...                        *)
Commit(c) ==
    /\ pc[c] = "commit"
    /\ cells' = Over(batch[c], cells)
    /\ raced' = raced \cup Overtaken(c)
    /\ Returns(c, "applied", Reply(c, "ok"))
    /\ UNCHANGED <<table, logged, behind, replayed>>

(* ... or the call fails, before its batch is in the log or after: the     *)
(* record is stored and not applied, or still on its way to the store.     *)
CommitFails(c) ==
    /\ pc[c] = "commit"
    /\ logged' \in {logged, [logged EXCEPT ![c] = batch[c]]}
    /\ Returns(c, "done", Reply(c, "error"))
    /\ UNCHANGED <<table, cells, raced, behind, replayed>>

(* The engine replays what a failed call left: a node of eventual mode     *)
(* while it serves, any other the next time it opens.  Where later records *)
(* of the log write the same cells, those may win.                         *)
Replay(c) ==
    \E part \in (SUBSET DOMAIN logged[c]) \ {{}} :
        LET given == [k \in part |-> logged[c][k]]
        IN  /\ cells' = Over(given, cells)
            /\ replayed' = replayed \cup {c}
            /\ raced' = raced \cup Readers(given)
            /\ UNCHANGED <<table, logged, behind, lock, pc, request, using,
                           batch, readings, rules, told>>

-----------------------------------------------------------------------------
GetEngine(c) == LookupTable(c) \/ FindTable(c) \/ OpenTable(c) \/ OpenFails(c)

Mutate(c) ==
    \/ \E ms \in MutationLists :
           (\E now \in Times : MutateRow(c, ms, now)) \/ MutateRowInvalid(c, ms)
    \/ \E entries \in [Rows -> MutationLists \cup {<<>>}] :
           \/ \E now \in Times : MutateRows(c, entries, now)
           \/ MutateRowsInvalid(c, entries)

CheckAndMutateRow(c) ==
    \/ LockRow(c)
    \/ \E ms \in MutationLists, now \in Times :
           (\E f \in Filters : CheckRow(c, f, ms, now)) \/ CheckRowUnread(c, ms, now)
    \/ \E ms \in MutationLists : CheckRowInvalid(c, ms)
    \/ CheckRowNothing(c)

ApplyRules(c) ==
    \/ \E now \in Times : ReadModifyWriteRow(c, now)
    \/ \E last \in BOOLEAN : Rule(c, last)
    \/ RuleFails(c)

Next ==
    \E c \in Calls :
        \/ \E k \in Kinds : Begin(c, k)
        \/ Refuse(c)
        \/ GetEngine(c)
        \/ Mutate(c)
        \/ CheckAndMutateRow(c)
        \/ ApplyRules(c)
        \/ Commit(c)
        \/ CommitFails(c)
        \/ Replay(c)

Spec == Init /\ [][Next]_vars

-----------------------------------------------------------------------------
(* Type invariant: the state of the handlers and of the table.             *)
TypeOK ==
    /\ table \in Nat
    /\ lock \in [Rows -> Calls \cup {NoCall}]
    /\ cells \in [Keys -> SUBSET Contributions]
    /\ raced \cup behind \cup replayed \subseteq Calls
    /\ pc \in [Calls -> {"idle", "lookup", "open", "ready", "locked", "rules",
                         "commit", "applied", "done"}]
    /\ kind \in [Calls -> Kinds \cup {"none"}]
    /\ row \in [Calls -> Rows]
    /\ using \in [Calls -> Nat]
    /\ ts \in [Calls -> Times]
    /\ rules \in [Calls -> 0 .. MaxRules]
    /\ filter \in [Calls -> SUBSET Times]
    /\ matched \in [Calls -> BOOLEAN]
    /\ told \in [Calls -> [Rows -> {"none", "ok", "error"}]]
    /\ \A c \in Calls : DOMAIN batch[c] \cup DOMAIN logged[c] \subseteq Keys

(* The calls that found no engine open one between them (getEngine's       *)
(* second look under the write lock): all of them work on the engine, and  *)
(* on the row locks, that the table holds.                                 *)
OneEngine == \A c \in Calls : using[c] # 0 => using[c] = table

(* CheckAndMutateRow against CheckAndMutateRow: when the mutations of a    *)
(* call are about to be applied, its predicate still has the outcome it    *)
(* had, unless a MutateRow, a MutateRows, a ReadModifyWriteRow or a        *)
(* replay, which take no row lock, wrote the row since.  A predicate whose *)
(* iterator failed let no cell through: it is false whatever the row has.  *)
CheckIsolated ==
    \A c \in Calls \ raced :
        kind[c] = "check" /\ pc[c] = "commit" =>
            matched[c] = RowHasCells(row[c], filter[c])

(* A call that reports an error for its row or for one of its entries has  *)
(* written nothing, to any row, unless its batch was complete and          *)
(* eng.Apply failed after it had reached the log, from where the engine    *)
(* gave it back: invalid mutations and rules are found before that, and an *)
(* error before that leaves nothing to be given back.                      *)
ErrorLeavesNothing ==
    \A c \in Calls :
        (\E r \in Rows : told[c][r] = "error") =>
            \A k \in Keys, i \in 0 .. MaxRules :
                <<c, i>> \in cells[k] => c \in replayed /\ DOMAIN logged[c] # {}

(* The rules of the calls that were applied to a row.                      *)
RulesApplied(r) ==
    UNION {{c} \X (1 .. rules[c]) :
              c \in {d \in Calls : pc[d] = "applied" /\ r \in Targets(d)}}

OnlyRules(r) == \A c \in Calls : r \in Targets(c) => kind[c] \in {"none", "rmw"}

(* ReadModifyWriteRow calls on a row that nothing else writes add up: the  *)
(* newest cell has what every rule of every applied call added, as long as *)
(* no call was overtaken, none failed and was given back by the log, and   *)
(* none took a timestamp below the row's newest cell from a clock that had *)
(* been set back.                                                          *)
SequentialRules ==
    \A r \in Rows :
        OnlyRules(r) /\ (\A c \in raced \cup behind \cup replayed : r \notin Targets(c))
            => Newest(cells, r) = RulesApplied(r)

(* Row locks are never left behind: a row's mutex is held by a             *)
(* CheckAndMutateRow of that row which has not returned, whichever way the *)
(* handlers before it ended.  A waiting call therefore gets its turn.      *)
LocksReleased ==
    \A r \in Rows :
        lock[r] # NoCall => /\ kind[lock[r]] = "check"
                            /\ row[lock[r]] = r
                            /\ pc[lock[r]] \in {"locked", "commit"}

-----------------------------------------------------------------------------
(* What the documentation claims and the code does not keep.               *)

(* "Modifies a row atomically on the server": the newest cell has what     *)
(* every ReadModifyWriteRow that returned without an error added.          *)
RulesAtomic == \A r \in Rows : OnlyRules(r) => Newest(cells, r) = RulesApplied(r)

(* "Earlier rules affect the results of later ones": the value a call is   *)
(* about to write has what each of its rules added.                        *)
RulesCompose ==
    \A c \in Calls :
        kind[c] = "rmw" /\ pc[c] = "commit" =>
            {c} \X (1 .. rules[c])
                \subseteq batch[c][<<row[c], ts[c]>>]

(* "CheckAndMutateRow atomically reads a row, evaluates a predicate filter *)
(* and applies mutations": no write of the row comes in between.           *)
CheckAtomic ==
    \A c \in Calls :
        kind[c] = "check" /\ pc[c] = "commit" =>
            matched[c] = RowHasCells(row[c], filter[c])

(* A call that reports an error has written nothing, then or later.        *)
ErrorNeverApplied ==
    \A c \in Calls :
        (\E r \in Rows : told[c][r] = "error") =>
            \A k \in Keys, i \in 0 .. MaxRules : <<c, i>> \notin cells[k]

(* SequentialRules without the exception for the clock.                    *)
RulesWhateverTheClock ==
    \A r \in Rows :
        OnlyRules(r) /\ (\A c \in raced \cup replayed : r \notin Targets(c))
            => Newest(cells, r) = RulesApplied(r)

(* MutateRows: an entry that is reported OK was applied.                   *)
EntryOkApplied ==
    \A c \in Calls, r \in Rows :
        kind[c] = "rows" /\ told[c][r] = "ok" => pc[c] = "applied"
=============================================================================
