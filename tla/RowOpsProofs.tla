---------------------------- MODULE RowOpsProofs ----------------------------
(***************************************************************************)
(* The row lock of CheckAndMutateRow, the opening of a table, the types,   *)
(* and what the calls leave in the cells, for any number of calls, rows,   *)
(* timestamps, rules and mutation lists.                                   *)
(***************************************************************************)
EXTENDS RowOps, WellFoundedInduction, TLAPS

(* The types of what the argument rests on.                                *)
ShapeOK ==
    /\ table \in Nat
    /\ lock \in [Rows -> Calls \cup {NoCall}]
    /\ Keys \subseteq DOMAIN cells
    /\ DOMAIN pc = Calls
    /\ DOMAIN kind = Calls
    /\ row \in [Calls -> Rows]
    /\ using \in [Calls -> Nat]
    /\ DOMAIN batch = Calls
    /\ DOMAIN logged = Calls
    /\ filter \in [Calls -> SUBSET Times]
    /\ DOMAIN matched = Calls

(* A CheckAndMutateRow between the two ends of its critical section.       *)
InSection(c) == pc[c] = "locked" \/ (kind[c] = "check" /\ pc[c] = "commit")

(* Such a call holds the mutex of its row, and its batch stays in the row. *)
SectionLocked ==
    \A c \in Calls : InSection(c) => kind[c] = "check" /\ lock[row[c]] = c

SectionBatch ==
    \A c \in Calls :
        kind[c] = "check" /\ pc[c] = "commit" =>
            DOMAIN batch[c] \subseteq {row[c]} \X Times

(* Only a ReadModifyWriteRow goes through rules.                           *)
RulesKind == \A c \in Calls : pc[c] = "rules" => kind[c] = "rmw"

(* Nobody is past getEngine before the table has an engine.                *)
OpenedFirst ==
    table = 0 => \A c \in Calls : pc[c] \in {"idle", "lookup", "open", "done"}

RowInv ==
    /\ ShapeOK
    /\ SectionLocked
    /\ LocksReleased
    /\ SectionBatch
    /\ RulesKind
    /\ OpenedFirst
    /\ OneEngine
    /\ CheckIsolated

(* The invariant holds before the first call.                              *)
LEMMA RowInit == Init => RowInv
<1> SUFFICES ASSUME Init PROVE RowInv
    OBVIOUS
<1> USE DEF Init
<1>2. ShapeOK
    BY DEF ShapeOK, Keys
<1>3. SectionLocked /\ LocksReleased /\ SectionBatch /\ RulesKind
    BY CallAssumption DEF SectionLocked, InSection, LocksReleased, SectionBatch,
        RulesKind
<1>4. OpenedFirst /\ OneEngine /\ CheckIsolated
    BY DEF OpenedFirst, OneEngine, CheckIsolated
<1> QED
    BY <1>2, <1>3, <1>4 DEF RowInv

-----------------------------------------------------------------------------
(* Every step of every handler keeps it.                                   *)
LEMMA RowStep == RowInv /\ [Next]_vars => RowInv'
<1> SUFFICES ASSUME RowInv, [Next]_vars PROVE RowInv'
    OBVIOUS
<1> USE DEF RowInv, store, request, readings
<1>1. ASSUME NEW c \in Calls, NEW k \in Kinds, Begin(c, k)
      PROVE  RowInv'
  <2> USE <1>1 DEF Begin
  <2>1. ShapeOK'
    BY DEF ShapeOK
  <2>2. SectionLocked' /\ LocksReleased' /\ RulesKind'
    BY CallAssumption DEF ShapeOK, SectionLocked, InSection, LocksReleased,
        RulesKind
  <2>3. SectionBatch' /\ OpenedFirst' /\ OneEngine'
    BY DEF ShapeOK, SectionBatch, OpenedFirst, OneEngine
  <2>4. CheckIsolated'
    BY DEF ShapeOK, CheckIsolated, RowHasCells
  <2> QED
    BY <2>1, <2>2, <2>3, <2>4
<1>2. ASSUME NEW c \in Calls, LookupTable(c)
      PROVE  RowInv'
  <2> USE <1>2 DEF LookupTable
  <2>1. ShapeOK'
    BY DEF ShapeOK
  <2>2. SectionLocked' /\ LocksReleased' /\ RulesKind'
    BY CallAssumption DEF ShapeOK, SectionLocked, InSection, LocksReleased,
        RulesKind
  <2>3. SectionBatch' /\ OpenedFirst' /\ OneEngine'
    BY DEF ShapeOK, SectionBatch, OpenedFirst, OneEngine
  <2>4. CheckIsolated'
    BY DEF ShapeOK, CheckIsolated, RowHasCells
  <2> QED
    BY <2>1, <2>2, <2>3, <2>4
<1>3. ASSUME NEW c \in Calls, FindTable(c)
      PROVE  RowInv'
  <2> USE <1>3 DEF FindTable
  <2>1. ShapeOK'
    BY DEF ShapeOK
  <2>2. SectionLocked' /\ LocksReleased' /\ RulesKind'
    BY CallAssumption DEF ShapeOK, SectionLocked, InSection, LocksReleased,
        RulesKind
  <2>3. SectionBatch' /\ OpenedFirst' /\ OneEngine'
    BY DEF ShapeOK, SectionBatch, OpenedFirst, OneEngine
  <2>4. CheckIsolated'
    BY DEF ShapeOK, CheckIsolated, RowHasCells
  <2> QED
    BY <2>1, <2>2, <2>3, <2>4
<1>4. ASSUME NEW c \in Calls, OpenTable(c)
      PROVE  RowInv'
  <2> USE <1>4 DEF OpenTable, NewTable
  <2>1. ShapeOK'
    BY DEF ShapeOK
  <2>2. SectionLocked' /\ LocksReleased' /\ RulesKind'
    BY CallAssumption DEF ShapeOK, SectionLocked, InSection, LocksReleased,
        OpenedFirst, RulesKind
  <2>3. SectionBatch' /\ OpenedFirst' /\ OneEngine'
    BY DEF ShapeOK, SectionBatch, OpenedFirst, OneEngine
  <2>4. CheckIsolated'
    BY DEF ShapeOK, CheckIsolated, RowHasCells
  <2> QED
    BY <2>1, <2>2, <2>3, <2>4
(* A return that wrote nothing, on whichever path.                         *)
<1>5. ASSUME NEW c \in Calls, NEW a, Returns(c, "done", a),
             logged' \in {logged, [logged EXCEPT ![c] = batch[c]]},
             UNCHANGED <<table, cells, raced>>
      PROVE  RowInv'
  <2> USE <1>5 DEF Returns, Unlocked
  <2>1. ShapeOK'
    BY DEF ShapeOK
  <2>2. SectionLocked' /\ LocksReleased' /\ RulesKind'
    BY CallAssumption DEF ShapeOK, SectionLocked, InSection, LocksReleased,
        RulesKind
  <2>3. SectionBatch' /\ OpenedFirst' /\ OneEngine'
    BY DEF ShapeOK, SectionBatch, OpenedFirst, OneEngine
  <2>4. CheckIsolated'
    BY DEF ShapeOK, CheckIsolated, RowHasCells
  <2> QED
    BY <2>1, <2>2, <2>3, <2>4
<1>6. ASSUME NEW c \in Calls, NEW b, Prepared(c, b), UNCHANGED readings,
             pc[c] = "ready", kind[c] # "check"
      PROVE  RowInv'
  <2> USE <1>6 DEF Prepared
  <2>1. ShapeOK'
    BY DEF ShapeOK
  <2>2. SectionLocked' /\ LocksReleased' /\ RulesKind'
    BY CallAssumption DEF ShapeOK, SectionLocked, InSection, LocksReleased,
        RulesKind
  <2>3. SectionBatch' /\ OpenedFirst' /\ OneEngine'
    BY DEF ShapeOK, SectionBatch, OpenedFirst, OneEngine
  <2>4. CheckIsolated'
    BY DEF ShapeOK, CheckIsolated, RowHasCells
  <2> QED
    BY <2>1, <2>2, <2>3, <2>4
<1>7. ASSUME NEW c \in Calls, LockRow(c)
      PROVE  RowInv'
  <2> USE <1>7 DEF LockRow, Locks, Ready
  <2>1. ShapeOK'
    BY DEF ShapeOK
  <2>2. SectionLocked' /\ LocksReleased' /\ RulesKind'
    BY CallAssumption DEF ShapeOK, SectionLocked, InSection, LocksReleased,
        RulesKind
  <2>3. SectionBatch' /\ OpenedFirst' /\ OneEngine'
    BY DEF ShapeOK, SectionBatch, OpenedFirst, OneEngine
  <2>4. CheckIsolated'
    BY DEF ShapeOK, CheckIsolated, RowHasCells
  <2> QED
    BY <2>1, <2>2, <2>3, <2>4
(* The predicate is evaluated with the lock held.                          *)
<1>8. ASSUME NEW c \in Calls, NEW f \in SUBSET Times, NEW ms, NEW now,
             Checks(c, f, RowHasCells(row[c], f), ms, now)
      PROVE  RowInv'
  <2> USE <1>8 DEF Checks, Prepared
  <2>0. DOMAIN ApplyMutations(c, row[c], ms, now) \subseteq {row[c]} \X Times
    BY DEF ApplyMutations
  <2>1. ShapeOK'
    BY DEF ShapeOK
  <2>2. SectionLocked' /\ LocksReleased' /\ RulesKind'
    BY CallAssumption DEF ShapeOK, SectionLocked, InSection, LocksReleased,
        RulesKind
  <2>3. SectionBatch' /\ OpenedFirst' /\ OneEngine'
    BY <2>0 DEF ShapeOK, SectionBatch, OpenedFirst, OneEngine
  <2>4. CheckIsolated'
    BY DEF ShapeOK, CheckIsolated, RowHasCells
  <2> QED
    BY <2>1, <2>2, <2>3, <2>4
<1>9. ASSUME NEW c \in Calls, NEW now, ReadModifyWriteRow(c, now)
      PROVE  RowInv'
  <2> USE <1>9 DEF ReadModifyWriteRow, Stamps, Ready
  <2>1. ShapeOK'
    BY DEF ShapeOK
  <2>2. SectionLocked' /\ LocksReleased' /\ RulesKind'
    BY CallAssumption DEF ShapeOK, SectionLocked, InSection, LocksReleased,
        RulesKind
  <2>3. SectionBatch' /\ OpenedFirst' /\ OneEngine'
    BY DEF ShapeOK, SectionBatch, OpenedFirst, OneEngine
  <2>4. CheckIsolated'
    BY DEF ShapeOK, CheckIsolated, RowHasCells
  <2> QED
    BY <2>1, <2>2, <2>3, <2>4
<1>10. ASSUME NEW c \in Calls, NEW last \in BOOLEAN, Rule(c, last)
      PROVE  RowInv'
  <2> USE <1>10 DEF Rule
  <2>1. ShapeOK'
    BY DEF ShapeOK
  <2>2. SectionLocked' /\ LocksReleased' /\ RulesKind'
    BY CallAssumption DEF ShapeOK, SectionLocked, InSection, LocksReleased,
        RulesKind
  <2>3. SectionBatch' /\ OpenedFirst' /\ OneEngine'
    BY DEF ShapeOK, SectionBatch, OpenedFirst, OneEngine, RulesKind
  <2>4. CheckIsolated'
    BY DEF ShapeOK, CheckIsolated, RowHasCells, RulesKind
  <2> QED
    BY <2>1, <2>2, <2>3, <2>4
<1>11. ASSUME NEW c \in Calls, Commit(c)
       PROVE  RowInv'
  <2> USE <1>11 DEF Commit, Returns, Unlocked
  <2>1. ShapeOK'
    BY DEF ShapeOK, Over
  <2>2. SectionLocked' /\ LocksReleased' /\ RulesKind' /\ RulesKind'
    BY CallAssumption DEF ShapeOK, SectionLocked, InSection, LocksReleased,
        RulesKind
  <2>3. SectionBatch' /\ OpenedFirst' /\ OneEngine'
    BY DEF ShapeOK, SectionBatch, OpenedFirst, OneEngine
  <2>4. CheckIsolated'
    <3> SUFFICES ASSUME NEW d \in Calls, d \notin raced',
                        kind'[d] = "check", pc'[d] = "commit"
                 PROVE  matched'[d] = RowHasCells(row[d], filter[d])'
        BY DEF CheckIsolated
    <3>1. d # c /\ kind[d] = "check" /\ pc[d] = "commit" /\ d \notin raced
        BY DEF ShapeOK
    <3>2. /\ matched'[d] = matched[d]
          /\ row'[d] = row[d] /\ row[d] \in Rows
          /\ filter'[d] = filter[d] /\ filter[d] \subseteq Times
        BY <3>1 DEF ShapeOK
    <3>3. ASSUME NEW t \in Times
          PROVE  <<row[d], t>> \notin DOMAIN batch[c]
      <4>1. CASE kind[c] = "check"
        (* Both hold the lock of their row, so the rows differ.            *)
        <5>1. row[c] # row[d]
            BY <3>1, <4>1 DEF SectionLocked, InSection
        <5>2. DOMAIN batch[c] \subseteq {row[c]} \X Times
            BY <4>1 DEF SectionBatch
        <5> QED
            BY <5>1, <5>2
      <4>2. CASE kind[c] # "check"
        (* A write of the row would have put d into raced.                 *)
        <5>1. \A k \in DOMAIN batch[c] : row[d] # k[1]
            BY <3>1, <4>2 DEF Overtaken, Readers, Reading
        <5> QED
            BY <5>1
      <4> QED
        BY <4>1, <4>2
    <3>4. ASSUME NEW t \in Times
          PROVE  cells'[<<row[d], t>>] = cells[<<row[d], t>>]
        BY <3>2, <3>3 DEF ShapeOK, Over, Keys
    <3>5. RowHasCells(row[d], filter[d])' = RowHasCells(row[d], filter[d])
        BY <3>2, <3>4 DEF RowHasCells
    <3>6. matched[d] = RowHasCells(row[d], filter[d])
        BY <3>1 DEF CheckIsolated
    <3> QED
        BY <3>2, <3>5, <3>6, Zenon
  <2> QED
    BY <2>1, <2>2, <2>3, <2>4
<1>12. ASSUME NEW c \in Calls, Replay(c)
       PROVE  RowInv'
  <2>1. PICK part \in SUBSET DOMAIN logged[c] :
            LET given == [k \in part |-> logged[c][k]]
            IN  cells' = Over(given, cells) /\ raced' = raced \cup Readers(given)
    BY <1>12 DEF Replay
  <2>2. UNCHANGED <<table, logged, lock, pc, request, using, batch, readings>>
    BY <1>12 DEF Replay
  <2>3. ShapeOK'
    BY <2>1, <2>2 DEF ShapeOK, Over
  <2>4. SectionLocked' /\ LocksReleased' /\ SectionBatch' /\ RulesKind'
    BY <2>2 DEF SectionLocked, InSection, LocksReleased, SectionBatch, RulesKind
  <2>5. OpenedFirst' /\ OneEngine'
    BY <2>2 DEF OpenedFirst, OneEngine
  <2>6. CheckIsolated'
    <3> SUFFICES ASSUME NEW d \in Calls, d \notin raced',
                        kind[d] = "check", pc[d] = "commit"
                 PROVE  matched'[d] = RowHasCells(row[d], filter[d])'
        BY <2>2 DEF CheckIsolated
    <3>1. \A k \in part : row[d] # k[1]
        BY <2>1 DEF Readers, Reading
    <3>2. \A t \in Times : cells'[<<row[d], t>>] = cells[<<row[d], t>>]
        BY <2>1, <3>1 DEF ShapeOK, Over, Keys
    <3>3. RowHasCells(row[d], filter[d])' = RowHasCells(row[d], filter[d])
        BY <2>2, <3>2 DEF RowHasCells, ShapeOK
    <3>4. matched[d] = RowHasCells(row[d], filter[d])
        BY <2>1 DEF CheckIsolated
    <3> QED
        BY <2>2, <3>3, <3>4, Zenon
  <2> QED
    BY <2>3, <2>4, <2>5, <2>6
<1>13. CASE UNCHANGED vars
  <2> USE <1>13 DEF vars
  <2>1. ShapeOK' /\ SectionLocked' /\ LocksReleased' /\ SectionBatch'
    BY DEF ShapeOK, SectionLocked, InSection, LocksReleased, SectionBatch
  <2>2. RulesKind' /\ OpenedFirst' /\ OneEngine' /\ CheckIsolated'
    BY DEF RulesKind, OpenedFirst, OneEngine, CheckIsolated, RowHasCells
  <2> QED
    BY <2>1, <2>2
<1>14. ASSUME NEW c \in Calls, GetEngine(c) PROVE RowInv'
    BY <1>2, <1>3, <1>4, <1>5, <1>14 DEF GetEngine, OpenFails, Fails
<1>15. ASSUME NEW c \in Calls, Mutate(c) PROVE RowInv'
    BY <1>5, <1>6, <1>15 DEF Mutate, MutateRow, MutateRowInvalid, MutateRows,
        MutateRowsInvalid, Fails, Ready
<1>16. ASSUME NEW c \in Calls, CheckAndMutateRow(c) PROVE RowInv'
  <2>1. ASSUME NEW f \in Filters, NEW ms, NEW now, CheckRow(c, f, ms, now)
        PROVE  RowInv'
    BY <1>8, <2>1, RequestAssumption DEF CheckRow
  <2>2. ASSUME NEW ms, NEW now, CheckRowUnread(c, ms, now)
        PROVE  RowInv'
    <3>1. ~RowHasCells(row[c], {}) /\ {} \in SUBSET Times
        BY DEF RowHasCells
    <3>2. Checks(c, {}, RowHasCells(row[c], {}), ms, now)
        BY <2>2, <3>1 DEF CheckRowUnread, RowHasCells
    <3> QED
        BY <1>8, <3>1, <3>2
  <2> QED
    BY <1>5, <1>7, <1>16, <2>1, <2>2 DEF CheckAndMutateRow, CheckRowInvalid,
        CheckRowNothing, Fails
<1>17. ASSUME NEW c \in Calls, ApplyRules(c) PROVE RowInv'
    BY <1>5, <1>9, <1>10, <1>17 DEF ApplyRules, RuleFails, Fails
<1>18. ASSUME NEW c \in Calls, Refuse(c) \/ CommitFails(c) PROVE RowInv'
    BY <1>5, <1>18 DEF Refuse, CommitFails, Fails
<1> QED
    BY <1>1, <1>11, <1>12, <1>13, <1>14, <1>15, <1>16, <1>17, <1>18 DEF Next

-----------------------------------------------------------------------------
(* The invariant of the handlers, for any number of them.                  *)
THEOREM RowInvariant == Spec => []RowInv
<1>1. QED
    BY RowInit, RowStep, PTL DEF Spec

(* Two CheckAndMutateRow calls on a row never act on a predicate that the  *)
(* other one has made stale: only calls that take no row lock can come     *)
(* between the predicate and the mutations.                                *)
THEOREM RowCheckIsolated == Spec => []CheckIsolated
<1>1. RowInv => CheckIsolated
    BY DEF RowInv
<1> QED
    BY <1>1, RowInvariant, PTL

(* A row's mutex is held only by a CheckAndMutateRow that is still at work *)
(* on that row, on every way a handler can end.                            *)
THEOREM RowLocksReleased == Spec => []LocksReleased
<1>1. RowInv => LocksReleased
    BY DEF RowInv
<1> QED
    BY <1>1, RowInvariant, PTL

(* However many calls find the table closed, they end up on one engine.    *)
THEOREM RowOneEngine == Spec => []OneEngine
<1>1. RowInv => OneEngine
    BY DEF RowInv
<1> QED
    BY <1>1, RowInvariant, PTL

-----------------------------------------------------------------------------
(* What the calls put into their batches and into the cells.               *)

(* How far a call is, and what it holds.                                   *)
ProgressOf(c) ==
    /\ pc[c] \in {"idle", "lookup", "open", "ready", "locked"} =>
           rules[c] = 0 /\ DOMAIN batch[c] = {}
    /\ pc[c] = "rules" => rules[c] < MaxRules
    /\ pc[c] = "commit" /\ kind[c] = "rmw" => rules[c] > 0
    /\ (pc[c] = "idle") <=> (kind[c] = "none")
    /\ c \in raced \cup behind \cup replayed => pc[c] # "idle"
    /\ (\E r \in Rows : told[c][r] = "error") => pc[c] = "done"
    /\ DOMAIN logged[c] # {} => pc[c] = "done"
    /\ c \in replayed => DOMAIN logged[c] # {}

(* A call whose writes are in the cells, or were.                          *)
Written(c) == pc[c] = "applied" \/ c \in replayed

(* A batch stays within the rows of its call; its values are made of what  *)
(* the call itself and calls that were written to the cells wrote.         *)
MadeBy(c, b) ==
    \A k \in DOMAIN b :
        /\ k \in Targets(c) \X Times
        /\ b[k] \subseteq Contributions
        /\ \A v \in b[k] : v[1] = c \/ Written(v[1])

BatchOf(c) == MadeBy(c, batch[c])
LoggedOf(c) == MadeBy(c, logged[c])

(* So are the cells, of such calls only.                                   *)
CellsWritten == \A k \in Keys : \A v \in cells[k] : Written(v[1])

(* A ReadModifyWriteRow that is at work on row r.                          *)
AtWork(c, r) == kind[c] = "rmw" /\ row[c] = r /\ pc[c] \in {"rules", "commit"}

(* Its timestamp is the newest of the row, and its batch is one cell with  *)
(* what it read and what its rules added.                                  *)
WorkOK(c, r) ==
    /\ \A t \in Times : cells[<<r, t>>] # Absent => t <= ts[c]
    /\ rules[c] = 0 => DOMAIN batch[c] = {}
    /\ rules[c] > 0 =>
           /\ DOMAIN batch[c] = {<<r, ts[c]>>}
           /\ batch[c][<<r, ts[c]>>] =
                  Newest(cells, r) \cup ({c} \X (1 .. rules[c]))

Undisturbed(r) ==
    OnlyRules(r) /\ (\A c \in raced \cup behind \cup replayed : r \notin Targets(c))

RulesInv ==
    \A r \in Rows : Undisturbed(r) =>
        /\ Newest(cells, r) = RulesApplied(r)
        /\ \A c \in Calls : AtWork(c, r) => WorkOK(c, r)

CallsInv ==
    /\ \A c \in Calls : ProgressOf(c) /\ BatchOf(c) /\ LoggedOf(c)
    /\ CellsWritten
    /\ RulesInv

DataInv == RowInv /\ TypeOK /\ CallsInv

-----------------------------------------------------------------------------
(* The newest cell.                                                        *)

LEMMA MaxOf ==
    ASSUME NEW S \in SUBSET Times, S # {}
    PROVE  Max(S) \in S /\ \A t \in S : t <= Max(S)
<1> DEFINE gaps == {MaxTime - t : t \in S}
<1>1. \A t \in S : t \in Nat /\ t <= MaxTime /\ MaxTime - t \in Nat
    BY BoundAssumption DEF Times
<1>2. gaps \subseteq Nat /\ gaps # {}
    BY <1>1
<1>3. \E x \in gaps : \A y \in gaps : ~(<<y, x>> \in OpToRel(<, Nat))
  <2> HIDE DEF gaps
  <2> QED
    BY <1>2, NatLessThanWellFounded, WFMin
<1>4. PICK x \in gaps : \A y \in gaps : ~(y < x)
    BY <1>2, <1>3 DEF OpToRel
<1>5. PICK m \in S : x = MaxTime - m
    BY <1>4
<1>6. \A t \in S : m >= t
  <2> SUFFICES ASSUME NEW t \in S PROVE m >= t
    OBVIOUS
  <2>1. ~(MaxTime - t < MaxTime - m)
    BY <1>4, <1>5
  <2> QED
    BY <1>1, <2>1, BoundAssumption
<1>7. Max(S) \in S /\ \A t \in S : Max(S) >= t
    BY <1>6 DEF Max
<1> QED
    BY <1>1, <1>7

LEMMA NewestOf ==
    ASSUME NEW view, NEW r \in Rows
    PROVE  \/ /\ Newest(view, r) = Absent
              /\ \A t \in Times : view[<<r, t>>] = Absent
           \/ \E t \in Times :
                  /\ view[<<r, t>>] # Absent /\ Newest(view, r) = view[<<r, t>>]
                  /\ \A u \in Times : view[<<r, u>>] # Absent => u <= t
<1> DEFINE present == {t \in Times : view[<<r, t>>] # Absent}
<1>1. CASE present = {}
    BY <1>1 DEF Newest
<1>2. CASE present # {}
  <2>1. Newest(view, r) = view[<<r, Max(present)>>]
    BY <1>2 DEF Newest
  <2>2. Max(present) \in present /\ \A t \in present : t <= Max(present)
    BY <1>2, MaxOf
  <2> QED
    BY <2>1, <2>2
<1> QED
    BY <1>1, <1>2

LEMMA NewestIs ==
    ASSUME NEW view, NEW r \in Rows, NEW t \in Times, view[<<r, t>>] # Absent,
           \A u \in Times : view[<<r, u>>] # Absent => u <= t
    PROVE  Newest(view, r) = view[<<r, t>>]
<1>1. PICK m \in Times : /\ view[<<r, m>>] # Absent
                         /\ Newest(view, r) = view[<<r, m>>]
                         /\ \A u \in Times : view[<<r, u>>] # Absent => u <= m
    BY NewestOf
<1>2. m = t
    BY <1>1, BoundAssumption DEF Times
<1> QED
    BY <1>1, <1>2

(* Equal cells have an equal newest one.                                   *)
LEMMA NewestSame ==
    ASSUME NEW v, NEW w, NEW r \in Rows, \A t \in Times : v[<<r, t>>] = w[<<r, t>>]
    PROVE  Newest(v, r) = Newest(w, r)
<1>1. CASE \A t \in Times : v[<<r, t>>] = Absent
    BY <1>1, NewestOf
<1>2. CASE \E t \in Times : v[<<r, t>>] # Absent
  <2>1. PICK m \in Times : /\ v[<<r, m>>] # Absent
                           /\ Newest(v, r) = v[<<r, m>>]
                           /\ \A u \in Times : v[<<r, u>>] # Absent => u <= m
    BY <1>2, NewestOf
  <2>2. Newest(w, r) = w[<<r, m>>]
    BY <2>1, NewestIs
  <2> QED
    BY <2>1, <2>2
<1> QED
    BY <1>1, <1>2

-----------------------------------------------------------------------------
(* A step of one call that is not applied by it.                           *)

(* Once undisturbed no longer, a row never is again.                       *)
LEMMA UndisturbedBack ==
    ASSUME CallsInv, NEW r \in Rows, Undisturbed(r)',
           \A d \in Calls : pc[d] # "idle" => kind'[d] = kind[d] /\ row'[d] = row[d],
           raced \subseteq raced', behind \subseteq behind',
           replayed \subseteq replayed', raced \cup behind \cup replayed \subseteq Calls
    PROVE  Undisturbed(r)
<1>1. \A d \in Calls : pc[d] # "idle" => Targets(d)' = Targets(d)
    BY DEF Targets
<1>2. OnlyRules(r)
    BY <1>1 DEF CallsInv, ProgressOf, Undisturbed, OnlyRules
<1> QED
    BY <1>1, <1>2 DEF CallsInv, ProgressOf, Undisturbed

LEMMA AppliedSame ==
    ASSUME CallsInv, NEW r \in Rows,
           \A d \in Calls : (pc'[d] = "applied") <=> (pc[d] = "applied"),
           \A d \in Calls : pc[d] = "applied" =>
               kind'[d] = kind[d] /\ row'[d] = row[d] /\ rules'[d] = rules[d]
    PROVE  RulesApplied(r)' = RulesApplied(r)
<1>1. \A d \in Calls : pc[d] = "applied" => Targets(d)' = Targets(d)
    BY DEF Targets
<1>2. {d \in Calls : pc[d] = "applied" /\ r \in Targets(d)}'
          = {d \in Calls : pc[d] = "applied" /\ r \in Targets(d)}
    BY <1>1
<1> QED
    BY <1>2 DEF RulesApplied

LEMMA CallStep ==
    ASSUME DataInv, NEW c \in Calls,
           \A d \in Calls \ {c} :
               /\ pc'[d] = pc[d] /\ kind'[d] = kind[d] /\ row'[d] = row[d]
               /\ ts'[d] = ts[d] /\ rules'[d] = rules[d] /\ batch'[d] = batch[d]
               /\ told'[d] = told[d] /\ logged'[d] = logged[d],
           pc[c] # "idle" => kind'[c] = kind[c] /\ row'[c] = row[c],
           pc[c] # "applied", pc'[c] # "applied",
           cells' = cells, raced' = raced, replayed' = replayed,
           behind \subseteq behind', behind' \subseteq behind \cup {c},
           ProgressOf(c)', BatchOf(c)', LoggedOf(c)',
           \A r \in Rows : Undisturbed(r) /\ Undisturbed(r)' /\ AtWork(c, r)'
               => WorkOK(c, r)'
    PROVE  CallsInv'
<1> USE DEF DataInv
<1>0. ASSUME NEW d \in Calls, Written(d) PROVE Written(d)'
    BY <1>0 DEF Written
<1>1. ASSUME NEW d \in Calls PROVE ProgressOf(d)' /\ BatchOf(d)' /\ LoggedOf(d)'
  <2>1. CASE d # c
    <3>1. ProgressOf(d)'
        BY <2>1 DEF CallsInv, ProgressOf
    <3>2. Targets(d)' = Targets(d)
        BY <2>1 DEF Targets
    <3>3. BatchOf(d)'
        BY <1>0, <2>1, <3>2 DEF CallsInv, BatchOf, MadeBy, Contributions
    <3>4. LoggedOf(d)'
        BY <1>0, <2>1, <3>2 DEF CallsInv, LoggedOf, MadeBy, Contributions
    <3> QED
        BY <3>1, <3>3, <3>4
  <2> QED
    BY <2>1
<1>2. CellsWritten'
    BY <1>0 DEF CallsInv, CellsWritten, TypeOK, Contributions
<1>3. RulesInv'
  <2> SUFFICES ASSUME NEW r \in Rows, Undisturbed(r)'
               PROVE  /\ Newest(cells, r)' = RulesApplied(r)'
                      /\ \A d \in Calls : AtWork(d, r)' => WorkOK(d, r)'
    BY DEF RulesInv
  <2>1. Undisturbed(r)
    BY UndisturbedBack DEF TypeOK
  <2>2. RulesApplied(r)' = RulesApplied(r)
    BY AppliedSame
  <2>3. Newest(cells, r)' = Newest(cells, r)
    BY DEF Newest
  <2>4. ASSUME NEW d \in Calls, d # c, AtWork(d, r)' PROVE WorkOK(d, r)'
    <3>1. AtWork(d, r)
        BY <2>4 DEF AtWork
    <3>2. WorkOK(d, r)
        BY <2>1, <3>1 DEF CallsInv, RulesInv
    <3> QED
        BY <2>3, <2>4, <3>2 DEF WorkOK
  <2> QED
    BY <2>1, <2>2, <2>3, <2>4 DEF CallsInv, RulesInv
<1> QED
    BY <1>1, <1>2, <1>3 DEF CallsInv

-----------------------------------------------------------------------------
(* The steps of the handlers.                                              *)

(* Only a call that is done has left anything in the log.                  *)
LEMMA NothingLogged ==
    ASSUME NEW c \in Calls, ProgressOf(c), pc[c] # "done", logged' = logged
    PROVE  LoggedOf(c)' /\ DOMAIN logged'[c] = {} /\ c \notin replayed
    BY DEF ProgressOf, LoggedOf, MadeBy

LEMMA BeginData ==
    ASSUME DataInv, NEW c \in Calls, NEW k \in Kinds, Begin(c, k)
    PROVE  TypeOK' /\ CallsInv'
<1> USE DEF Begin, store, request, readings
<1>1. ProgressOf(c)
    BY DEF DataInv, CallsInv
<1>2. TypeOK'
    BY DEF DataInv, TypeOK
<1>3. ProgressOf(c)' /\ BatchOf(c)' /\ LoggedOf(c)'
    BY <1>1, KindAssumption, NothingLogged DEF ProgressOf, BatchOf, MadeBy, DataInv, TypeOK
<1>4. CallsInv'
  <2>1. \A q \in Rows : ~AtWork(c, q)'
    BY DEF AtWork, DataInv, TypeOK
  <2>2. pc[c] # "idle" => kind'[c] = kind[c] /\ row'[c] = row[c]
    OBVIOUS
  <2> QED
    BY <1>3, <2>1, <2>2, CallStep DEF DataInv, TypeOK
<1> QED
    BY <1>2, <1>4

LEMMA LookupTableData ==
    ASSUME DataInv, NEW c \in Calls, LookupTable(c)
    PROVE  TypeOK' /\ CallsInv'
<1> USE DEF LookupTable, store, request, readings
<1>1. ProgressOf(c)
    BY DEF DataInv, CallsInv
<1>2. TypeOK'
    BY DEF DataInv, TypeOK
<1>3. ProgressOf(c)' /\ BatchOf(c)' /\ LoggedOf(c)'
    BY <1>1, KindAssumption, NothingLogged DEF ProgressOf, BatchOf, MadeBy, DataInv, TypeOK
<1>4. CallsInv'
  <2>1. \A r \in Rows : ~AtWork(c, r)'
    BY DEF AtWork, DataInv, TypeOK
  <2>2. pc[c] # "idle" => kind'[c] = kind[c] /\ row'[c] = row[c]
    OBVIOUS
  <2> QED
    BY <1>3, <2>1, <2>2, CallStep DEF DataInv, TypeOK
<1> QED
    BY <1>2, <1>4

LEMMA FindTableData ==
    ASSUME DataInv, NEW c \in Calls, FindTable(c)
    PROVE  TypeOK' /\ CallsInv'
<1> USE DEF FindTable, store, request, readings
<1>1. ProgressOf(c)
    BY DEF DataInv, CallsInv
<1>2. TypeOK'
    BY DEF DataInv, TypeOK
<1>3. ProgressOf(c)' /\ BatchOf(c)' /\ LoggedOf(c)'
    BY <1>1, KindAssumption, NothingLogged DEF ProgressOf, BatchOf, MadeBy, DataInv, TypeOK
<1>4. CallsInv'
  <2>1. \A r \in Rows : ~AtWork(c, r)'
    BY DEF AtWork, DataInv, TypeOK
  <2>2. pc[c] # "idle" => kind'[c] = kind[c] /\ row'[c] = row[c]
    OBVIOUS
  <2> QED
    BY <1>3, <2>1, <2>2, CallStep DEF DataInv, TypeOK
<1> QED
    BY <1>2, <1>4

LEMMA OpenTableData ==
    ASSUME DataInv, NEW c \in Calls, OpenTable(c)
    PROVE  TypeOK' /\ CallsInv'
<1> USE DEF OpenTable, NewTable, store, request, readings
<1>1. ProgressOf(c)
    BY DEF DataInv, CallsInv
<1>2. TypeOK'
    BY DEF DataInv, TypeOK
<1>3. ProgressOf(c)' /\ BatchOf(c)' /\ LoggedOf(c)'
    BY <1>1, KindAssumption, NothingLogged DEF ProgressOf, BatchOf, MadeBy, DataInv, TypeOK
<1>4. CallsInv'
  <2>1. \A r \in Rows : ~AtWork(c, r)'
    BY DEF AtWork, DataInv, TypeOK
  <2>2. pc[c] # "idle" => kind'[c] = kind[c] /\ row'[c] = row[c]
    OBVIOUS
  <2> QED
    BY <1>3, <2>1, <2>2, CallStep DEF DataInv, TypeOK
<1> QED
    BY <1>2, <1>4

LEMMA LockRowData ==
    ASSUME DataInv, NEW c \in Calls, LockRow(c)
    PROVE  TypeOK' /\ CallsInv'
<1> USE DEF LockRow, Locks, Ready, store, request, readings
<1>1. ProgressOf(c)
    BY DEF DataInv, CallsInv
<1>2. TypeOK'
    BY DEF DataInv, TypeOK
<1>3. ProgressOf(c)' /\ BatchOf(c)' /\ LoggedOf(c)'
    BY <1>1, KindAssumption, NothingLogged DEF ProgressOf, BatchOf, MadeBy, DataInv, TypeOK
<1>4. CallsInv'
  <2>1. \A r \in Rows : ~AtWork(c, r)'
    BY DEF AtWork, DataInv, TypeOK
  <2>2. pc[c] # "idle" => kind'[c] = kind[c] /\ row'[c] = row[c]
    OBVIOUS
  <2> QED
    BY <1>3, <2>1, <2>2, CallStep DEF DataInv, TypeOK
<1> QED
    BY <1>2, <1>4

(* A return that wrote nothing, on whichever path.                         *)
LEMMA ReturnsData ==
    ASSUME DataInv, NEW c \in Calls, NEW a \in [Rows -> {"none", "ok", "error"}],
           Returns(c, "done", a), pc[c] \notin {"idle", "applied", "done"},
           logged' \in {logged, [logged EXCEPT ![c] = batch[c]]},
           UNCHANGED <<table, cells, raced, behind, replayed>>
    PROVE  TypeOK' /\ CallsInv'
<1> USE DEF Returns, Unlocked, request
<1>1. ProgressOf(c) /\ BatchOf(c)
    BY DEF DataInv, CallsInv
<1>2. TypeOK'
  <2>1. \A d \in Calls : DOMAIN batch'[d] \cup DOMAIN logged'[d] \subseteq Keys
    BY DEF DataInv, TypeOK, RowInv, ShapeOK
  <2>6. rules' \in [Calls -> 0 .. MaxRules]
    BY BoundAssumption DEF DataInv, TypeOK
  <2>2. lock' \in [Rows -> Calls \cup {NoCall}]
    BY DEF DataInv, TypeOK
  <2>3. filter' \in [Calls -> SUBSET Times] /\ matched' \in [Calls -> BOOLEAN]
    BY DEF DataInv, TypeOK
  <2>4. ts' \in [Calls -> Times]
    BY BoundAssumption DEF DataInv, TypeOK, Times
  <2>5. pc' \in [Calls -> {"idle", "lookup", "open", "ready", "locked", "rules",
                           "commit", "applied", "done"}]
        /\ told' \in [Calls -> [Rows -> {"none", "ok", "error"}]]
    BY DEF DataInv, TypeOK
  <2> QED
    BY <2>1, <2>2, <2>3, <2>4, <2>5, <2>6 DEF DataInv, TypeOK
<1>3. ProgressOf(c)' /\ BatchOf(c)'
  <2>1. DOMAIN batch'[c] = {} /\ pc'[c] = "done"
    BY DEF DataInv, TypeOK, RowInv, ShapeOK
  <2>2. kind[c] # "none" /\ c \notin replayed
    BY <1>1 DEF ProgressOf
  <2> QED
    BY <2>1, <2>2 DEF ProgressOf, BatchOf, MadeBy
<1>4. LoggedOf(c)'
  <2>1. logged'[c] = batch[c] \/ DOMAIN logged'[c] = {}
    BY <1>1 DEF ProgressOf, DataInv, RowInv, ShapeOK
  <2>2. Targets(c)' = Targets(c)
    BY DEF Targets
  <2>3. \A v : v[1] = c \/ Written(v[1]) => v[1] = c \/ Written(v[1])'
    BY DEF Written, DataInv, TypeOK
  <2> QED
    BY <1>1, <2>1, <2>2, <2>3 DEF BatchOf, LoggedOf, MadeBy
<1>5. CallsInv'
  <2>1. \A r \in Rows : ~AtWork(c, r)'
    BY DEF AtWork, DataInv, TypeOK
  <2> QED
    BY <1>3, <1>4, <2>1, CallStep DEF DataInv, TypeOK, RowInv, ShapeOK
<1> QED
    BY <1>2, <1>5

(* The answers a handler can give.                                         *)
LEMMA ReplyType ==
    ASSUME NEW c \in Calls, NEW a \in {"none", "ok", "error"}
    PROVE  Reply(c, a) \in [Rows -> {"none", "ok", "error"}]
    BY DEF Reply

LEMMA FailsData ==
    ASSUME DataInv, NEW c \in Calls, Fails(c), pc[c] \notin {"idle", "applied", "done"}
    PROVE  TypeOK' /\ CallsInv'
    BY ReplyType, ReturnsData DEF Fails, store

LEMMA CommitFailsData ==
    ASSUME DataInv, NEW c \in Calls, CommitFails(c)
    PROVE  TypeOK' /\ CallsInv'
    BY ReplyType, ReturnsData DEF CommitFails

(* The batches of the mutations.                                           *)
LEMMA MutationsBatch ==
    ASSUME NEW c \in Calls, NEW r \in Rows, NEW ms, NEW now
    PROVE  \A k \in DOMAIN ApplyMutations(c, r, ms, now) :
               k \in {r} \X Times /\ ApplyMutations(c, r, ms, now)[k] \subseteq {<<c, 0>>}
    BY DEF ApplyMutations, ValueOf, Absent

LEMMA EntriesBatch ==
    ASSUME NEW c \in Calls, NEW entries, NEW now
    PROVE  \A k \in DOMAIN ApplyEntries(c, entries, now) :
               k \in Rows \X Times /\ ApplyEntries(c, entries, now)[k] \subseteq {<<c, 0>>}
<1> DEFINE batchOf == [r \in Rows |-> ApplyMutations(c, r, entries[r], now)]
<1>1. /\ DOMAIN ApplyEntries(c, entries, now) = UNION {DOMAIN batchOf[r] : r \in Rows}
      /\ \A k \in DOMAIN ApplyEntries(c, entries, now) :
             ApplyEntries(c, entries, now)[k] = batchOf[k[1]][k]
    BY DEF ApplyEntries
<1>2. \A r \in Rows : \A k \in DOMAIN batchOf[r] :
          k \in {r} \X Times /\ batchOf[r][k] \subseteq {<<c, 0>>}
    BY MutationsBatch
<1> HIDE DEF batchOf
<1> QED
    BY <1>1, <1>2

(* The batch of mutations is complete.                                     *)
LEMMA PreparedData ==
    ASSUME DataInv, NEW c \in Calls, NEW b, Prepared(c, b), UNCHANGED ts,
           filter' \in [Calls -> SUBSET Times], matched' \in [Calls -> BOOLEAN],
           pc[c] \in {"ready", "locked"}, kind[c] \in Kinds \ {"rmw"},
           \A k \in DOMAIN b : k \in Targets(c) \X Times /\ b[k] \subseteq {<<c, 0>>}
    PROVE  TypeOK' /\ CallsInv'
<1> USE DEF Prepared, store, request
<1>1. ProgressOf(c)
    BY DEF DataInv, CallsInv
<1>2. Targets(c) \subseteq Rows /\ Targets(c)' = Targets(c)
    BY DEF Targets, DataInv, TypeOK
<1>3. batch'[c] = b /\ \A d \in Calls \ {c} : batch'[d] = batch[d]
    BY DEF DataInv, RowInv, ShapeOK
<1>4. TypeOK'
  <2>1. \A d \in Calls : DOMAIN batch'[d] \cup DOMAIN logged'[d] \subseteq Keys
    BY <1>2, <1>3 DEF DataInv, TypeOK, Keys
  <2> QED
    BY <2>1 DEF DataInv, TypeOK
<1>5. ProgressOf(c)' /\ LoggedOf(c)'
    BY <1>1, NothingLogged DEF ProgressOf, DataInv, TypeOK
<1>6. BatchOf(c)'
    BY <1>2, <1>3, BoundAssumption DEF BatchOf, MadeBy, Contributions
<1>7. CallsInv'
  <2>1. \A r \in Rows : ~AtWork(c, r)'
    BY DEF AtWork
  <2> QED
    BY <1>3, <1>5, <1>6, <2>1, CallStep DEF DataInv, TypeOK
<1> QED
    BY <1>4, <1>7

LEMMA MutateData ==
    ASSUME DataInv, NEW c \in Calls, Mutate(c)
    PROVE  TypeOK' /\ CallsInv'
<1>1. row[c] \in Rows /\ kind[c] \in Kinds \cup {"none"} /\ ProgressOf(c)
    BY DEF DataInv, TypeOK, CallsInv
<1>2. UNCHANGED readings => /\ UNCHANGED ts /\ filter' \in [Calls -> SUBSET Times]
                            /\ matched' \in [Calls -> BOOLEAN]
    BY DEF readings, DataInv, TypeOK
<1>3. ASSUME NEW ms \in MutationLists, NEW now, MutateRow(c, ms, now)
      PROVE  TypeOK' /\ CallsInv'
    BY <1>1, <1>2, <1>3, MutationsBatch, PreparedData
       DEF MutateRow, Ready, Targets, ProgressOf
<1>4. ASSUME NEW entries, NEW now, MutateRows(c, entries, now)
      PROVE  TypeOK' /\ CallsInv'
    BY <1>1, <1>2, <1>4, EntriesBatch, PreparedData
       DEF MutateRows, Ready, Targets, ProgressOf
<1>5. ASSUME NEW ms \in MutationLists, MutateRowInvalid(c, ms)
      PROVE  TypeOK' /\ CallsInv'
    BY <1>5, FailsData DEF MutateRowInvalid, Ready
<1>6. ASSUME NEW entries, MutateRowsInvalid(c, entries)
      PROVE  TypeOK' /\ CallsInv'
    BY <1>6, ReturnsData DEF MutateRowsInvalid, Ready, EntryStatus, store
<1> QED
    BY <1>3, <1>4, <1>5, <1>6 DEF Mutate

LEMMA CheckAndMutateRowData ==
    ASSUME DataInv, NEW c \in Calls, CheckAndMutateRow(c)
    PROVE  TypeOK' /\ CallsInv'
<1>1. row[c] \in Rows /\ (pc[c] = "locked" => kind[c] = "check") /\ kind[c] \in Kinds \cup {"none"}
    BY DEF DataInv, TypeOK, RowInv, SectionLocked, InSection
<1>2. ASSUME NEW f \in SUBSET Times, NEW m \in BOOLEAN, NEW ms \in MutationLists,
             NEW now, Checks(c, f, m, ms, now)
      PROVE  TypeOK' /\ CallsInv'
  <2>1. filter' \in [Calls -> SUBSET Times]
    BY <1>2 DEF Checks, DataInv, TypeOK
  <2>2. matched' \in [Calls -> BOOLEAN]
    BY <1>2 DEF Checks, DataInv, TypeOK
  <2> QED
    BY <1>1, <1>2, <2>1, <2>2, MutationsBatch, PreparedData DEF Checks, Targets
<1>3. ASSUME NEW ms \in MutationLists, CheckRowInvalid(c, ms)
      PROVE  TypeOK' /\ CallsInv'
    BY <1>3, FailsData DEF CheckRowInvalid
<1>4. CASE CheckRowNothing(c)
    BY <1>4, ReplyType, ReturnsData DEF CheckRowNothing, store
<1>5. \A f \in Filters : f \in SUBSET Times /\ RowHasCells(row[c], f) \in BOOLEAN
    BY RequestAssumption DEF RowHasCells
<1>6. \A f \in Filters, ms \in MutationLists : \A now :
          CheckRow(c, f, ms, now) => TypeOK' /\ CallsInv'
    BY <1>2, <1>5 DEF CheckRow
<1>7. \A ms \in MutationLists : \A now : CheckRowUnread(c, ms, now) => TypeOK' /\ CallsInv'
    BY <1>2 DEF CheckRowUnread
<1> QED
    BY <1>3, <1>4, <1>6, <1>7, LockRowData DEF CheckAndMutateRow

(* A ReadModifyWriteRow takes its timestamp: no cell of the row is newer,  *)
(* or the call is behind.                                                  *)
LEMMA ReadModifyWriteRowData ==
    ASSUME DataInv, NEW c \in Calls, NEW now \in Times, ReadModifyWriteRow(c, now)
    PROVE  TypeOK' /\ CallsInv'
<1> USE DEF ReadModifyWriteRow, Stamps, Ready, store, request
<1>1. ProgressOf(c)
    BY DEF DataInv, CallsInv
<1>2. TypeOK'
    BY DEF DataInv, TypeOK
<1>3. ProgressOf(c)' /\ BatchOf(c)' /\ LoggedOf(c)'
  <2>1. pc'[c] = "rules" /\ UNCHANGED <<kind, rules, batch, told, logged, replayed>>
    BY DEF DataInv, TypeOK
  <2>2. DOMAIN batch[c] = {} /\ rules[c] = 0 /\ kind[c] # "none"
        /\ ~(\E r \in Rows : told[c][r] = "error")
    BY <1>1 DEF ProgressOf
  <2>3. LoggedOf(c)' /\ DOMAIN logged'[c] = {} /\ c \notin replayed
    BY <1>1, <2>1, NothingLogged
  <2>4. ProgressOf(c)'
    BY <2>1, <2>2, <2>3, BoundAssumption DEF ProgressOf
  <2> QED
    BY <2>1, <2>2, <2>3, <2>4 DEF BatchOf, MadeBy
<1>4. ASSUME NEW r \in Rows, Undisturbed(r)', AtWork(c, r)' PROVE WorkOK(c, r)'
  <2>1. r = row[c] /\ r \in Targets(c)' /\ ts'[c] = now
    BY <1>4 DEF AtWork, Targets, DataInv, TypeOK
  <2>2. c \notin behind'
    BY <1>4, <2>1 DEF Undisturbed
  <2>3. \A t \in Times : cells[<<r, t>>] # Absent => ~(t > now)
    BY <2>1, <2>2
  <2>4. \A t \in Times : ~(t > now) => t <= now
    BY BoundAssumption DEF Times
  <2>5. rules'[c] = 0 /\ DOMAIN batch'[c] = {}
    BY <1>1 DEF ProgressOf
  <2> QED
    BY <2>1, <2>3, <2>4, <2>5 DEF WorkOK
<1>5. CallsInv'
    BY <1>3, <1>4, CallStep DEF DataInv, TypeOK
<1> QED
    BY <1>2, <1>5

(* A rule adds to the newest value below its timestamp.                    *)
LEMMA RuleData ==
    ASSUME DataInv, NEW c \in Calls, NEW last \in BOOLEAN, Rule(c, last)
    PROVE  TypeOK' /\ CallsInv'
<1> DEFINE K == <<row[c], ts[c]>>
           view == Over(batch[c], cells)
           new == NewValue(c)
<1>1. /\ pc[c] = "rules" /\ kind[c] = "rmw" /\ row[c] \in Rows /\ ts[c] \in Times
      /\ rules[c] \in Nat /\ rules[c] < MaxRules /\ K \in Keys
      /\ ProgressOf(c) /\ BatchOf(c) /\ Targets(c) = {row[c]}
  <2>1. pc[c] = "rules"
    BY DEF Rule
  <2>2. kind[c] = "rmw"
    BY <2>1 DEF DataInv, RowInv, RulesKind
  <2>3. row[c] \in Rows /\ ts[c] \in Times /\ rules[c] \in Nat
    BY DEF DataInv, TypeOK
  <2>4. ProgressOf(c) /\ BatchOf(c)
    BY DEF DataInv, CallsInv
  <2>5. rules[c] < MaxRules
    BY <2>1, <2>4 DEF ProgressOf
  <2>6. K \in Keys
    BY <2>3 DEF Keys
  <2>7. Targets(c) = {row[c]}
    BY <2>2 DEF Targets
  <2> QED
    BY <2>1, <2>2, <2>3, <2>4, <2>5, <2>6, <2>7
<1>2. /\ pc' = [pc EXCEPT ![c] = IF last THEN "commit" ELSE "rules"]
      /\ rules' = [rules EXCEPT ![c] = rules[c] + 1]
      /\ rules[c] + 1 = MaxRules => last
      /\ UNCHANGED <<table, cells, logged, raced, behind, replayed, lock, kind, row,
                     using, ts, filter, matched, told>>
    BY DEF Rule, store, request, readings
<1>3. /\ DOMAIN batch'[c] = {K} \cup DOMAIN batch[c] /\ batch'[c][K] = new
      /\ \A k \in DOMAIN batch[c] \ {K} : batch'[c][k] = batch[c][k]
      /\ \A d \in Calls \ {c} : batch'[d] = batch[d]
    BY DEF Rule, Over, DataInv, RowInv, ShapeOK
<1>4. \A k \in Keys : view[k] = IF k \in DOMAIN batch[c] THEN batch[c][k] ELSE cells[k]
    BY DEF Over, DataInv, TypeOK
<1>5. new = Newest(view, row[c]) \cup {<<c, rules[c] + 1>>}
    BY DEF NewValue
<1> HIDE DEF view, new
<1>6. ASSUME NEW k \in Keys
      PROVE  /\ view[k] \subseteq Contributions
             /\ \A v \in view[k] : v[1] = c \/ Written(v[1])
    BY <1>1, <1>4 DEF BatchOf, MadeBy, DataInv, TypeOK, CallsInv, CellsWritten
<1>7. /\ new \subseteq Contributions
      /\ \A v \in new : v[1] = c \/ Written(v[1])
  <2>1. <<c, rules[c] + 1>> \in Contributions
    BY <1>1, BoundAssumption DEF Contributions
  <2>2. Newest(view, row[c]) = Absent \/ \E k \in Keys : Newest(view, row[c]) = view[k]
    BY <1>1, NewestOf DEF Keys
  <2> QED
    BY <1>5, <1>6, <2>1, <2>2 DEF Absent
<1>8. TypeOK'
  <2>1. \A d \in Calls : DOMAIN batch'[d] \cup DOMAIN logged'[d] \subseteq Keys
    BY <1>1, <1>2, <1>3 DEF DataInv, TypeOK
  <2>2. rules' \in [Calls -> 0 .. MaxRules]
    BY <1>1, <1>2, BoundAssumption DEF DataInv, TypeOK
  <2> QED
    BY <1>2, <2>1, <2>2 DEF DataInv, TypeOK
<1>9. rules'[c] = rules[c] + 1 /\ pc'[c] \in {"rules", "commit"}
      /\ (pc'[c] = "rules" => rules'[c] < MaxRules)
    BY <1>1, <1>2, BoundAssumption DEF DataInv, TypeOK
<1>10. ProgressOf(c)' /\ LoggedOf(c)'
    BY <1>1, <1>2, <1>9, NothingLogged DEF ProgressOf
<1>11. BatchOf(c)'
  <2>1. Targets(c)' = Targets(c)
    BY <1>2 DEF Targets
  <2>2. \A v : v[1] = c \/ Written(v[1]) => v[1] = c \/ Written(v[1])'
    BY <1>1, <1>2 DEF Written, DataInv, TypeOK
  <2> QED
    BY <1>1, <1>3, <1>7, <2>1, <2>2 DEF BatchOf, MadeBy
<1>12. ASSUME NEW r \in Rows, Undisturbed(r), AtWork(c, r)' PROVE WorkOK(c, r)'
  <2>1. r = row[c] /\ WorkOK(c, r)
    BY <1>1, <1>2, <1>12 DEF AtWork, DataInv, CallsInv, RulesInv
  <2>2. new = Newest(cells, r) \cup ({c} \X (1 .. rules[c] + 1))
    <3>1. CASE rules[c] = 0
      <4>1. \A t \in Times : view[<<r, t>>] = cells[<<r, t>>]
        BY <1>4, <2>1, <3>1 DEF WorkOK, Keys
      <4>2. Newest(view, r) = Newest(cells, r)
        BY <4>1, NewestSame
      <4>3. {c} \X (1 .. rules[c] + 1) = {<<c, rules[c] + 1>>}
        BY <3>1
      <4> QED
        BY <1>5, <2>1, <4>2, <4>3
    <3>2. CASE rules[c] > 0
      <4>1. /\ view[<<r, ts[c]>>] = Newest(cells, r) \cup ({c} \X (1 .. rules[c]))
            /\ \A t \in Times \ {ts[c]} : view[<<r, t>>] = cells[<<r, t>>]
        BY <1>1, <1>4, <2>1, <3>2 DEF WorkOK, Keys
      <4>2. view[<<r, ts[c]>>] # Absent
        <5>1. <<c, 1>> \in {c} \X (1 .. rules[c])
            BY <1>1, <3>2
        <5> QED
            BY <4>1, <5>1 DEF Absent
      <4>3. \A t \in Times : view[<<r, t>>] # Absent => t <= ts[c]
        BY <1>1, <2>1, <4>1, BoundAssumption DEF WorkOK, Times
      <4>4. Newest(view, r) = view[<<r, ts[c]>>]
        BY <1>1, <4>2, <4>3, NewestIs
      <4>5. {c} \X (1 .. rules[c] + 1) = ({c} \X (1 .. rules[c])) \cup {<<c, rules[c] + 1>>}
        BY <1>1
      <4> QED
        BY <1>5, <2>1, <4>1, <4>4, <4>5
    <3> QED
        BY <1>1, <3>1, <3>2
  <2>3. DOMAIN batch'[c] = {<<r, ts[c]>>}
    BY <1>1, <1>3, <2>1 DEF WorkOK
  <2>4. Newest(cells, r)' = Newest(cells, r)
    BY <1>2 DEF Newest
  <2> QED
    BY <1>1, <1>2, <1>3, <1>9, <2>1, <2>2, <2>3, <2>4 DEF WorkOK
<1>13. CallsInv'
    BY <1>1, <1>2, <1>3, <1>9, <1>10, <1>11, <1>12, CallStep DEF DataInv, TypeOK
<1> QED
    BY <1>8, <1>13

(* The batch becomes visible: other calls at work on its rows are overtaken. *)
LEMMA CommitData ==
    ASSUME DataInv, NEW c \in Calls, Commit(c)
    PROVE  TypeOK' /\ CallsInv'
<1>1. /\ pc[c] = "commit" /\ row[c] \in Rows /\ ts[c] \in Times /\ rules[c] \in Nat
      /\ ProgressOf(c) /\ BatchOf(c)
    BY DEF Commit, DataInv, TypeOK, CallsInv
<1>2. /\ pc' = [pc EXCEPT ![c] = "applied"]
      /\ told' = [told EXCEPT ![c] = Reply(c, "ok")]
      /\ batch' = [batch EXCEPT ![c] = <<>>]
      /\ ts' = [ts EXCEPT ![c] = 0]
      /\ cells' = Over(batch[c], cells)
      /\ raced' = raced \cup Overtaken(c)
      /\ rules' = rules
      /\ UNCHANGED <<table, logged, behind, replayed, kind, row, using>>
  <2>1. [rules EXCEPT ![c] = rules[c]] = rules
    BY DEF DataInv, TypeOK
  <2> QED
    BY <2>1 DEF Commit, Returns, request
<1>3. /\ DOMAIN cells' = Keys
      /\ \A k \in Keys : cells'[k] = IF k \in DOMAIN batch[c] THEN batch[c][k] ELSE cells[k]
  <2>1. DOMAIN cells = Keys /\ DOMAIN batch[c] \subseteq Keys
    BY DEF DataInv, TypeOK
  <2> QED
    BY <1>2, <2>1 DEF Over
<1>4. TypeOK'
  <2>1. cells' \in [Keys -> SUBSET Contributions]
    <3>1. \A k \in Keys : cells'[k] \in SUBSET Contributions
        BY <1>1, <1>3 DEF BatchOf, MadeBy, DataInv, TypeOK
    <3>2. cells' = [k \in Keys |-> cells'[k]]
        BY <1>2, <1>3 DEF Over
    <3> QED
        BY <3>1, <3>2
  <2>2. lock' \in [Rows -> Calls \cup {NoCall}]
    BY DEF Commit, Returns, Unlocked, DataInv, TypeOK
  <2>3. filter' \in [Calls -> SUBSET Times] /\ matched' \in [Calls -> BOOLEAN]
    BY DEF Commit, Returns, DataInv, TypeOK
  <2>4. ts' \in [Calls -> Times]
    BY <1>2, BoundAssumption DEF DataInv, TypeOK, Times
  <2>5. told' \in [Calls -> [Rows -> {"none", "ok", "error"}]]
    BY <1>2, ReplyType DEF DataInv, TypeOK
  <2>6. \A d \in Calls : DOMAIN batch'[d] \cup DOMAIN logged'[d] \subseteq Keys
    BY <1>2 DEF DataInv, TypeOK, RowInv, ShapeOK
  <2>7. raced' \cup behind' \cup replayed' \subseteq Calls
    BY <1>2 DEF DataInv, TypeOK, Overtaken, Readers
  <2> QED
    BY <1>2, <2>1, <2>2, <2>3, <2>4, <2>5, <2>6, <2>7 DEF DataInv, TypeOK
<1>5. /\ pc'[c] = "applied" /\ \A d \in Calls \ {c} : pc'[d] = pc[d]
      /\ \A d \in Calls : Written(d) => Written(d)'
    BY <1>2 DEF DataInv, TypeOK, Written
<1>6. ASSUME NEW d \in Calls PROVE ProgressOf(d)' /\ BatchOf(d)' /\ LoggedOf(d)'
  <2>1. CASE d = c
    <3>1. DOMAIN batch'[c] = {} /\ told'[c] = Reply(c, "ok")
        BY <1>2 DEF DataInv, TypeOK, RowInv, ShapeOK
    <3>2. \A r \in Rows : told'[c][r] # "error"
        BY <3>1 DEF Reply
    <3>3. ProgressOf(c)' /\ LoggedOf(c)'
        BY <1>1, <1>2, <1>5, <3>2, NothingLogged DEF ProgressOf
    <3> QED
        BY <2>1, <3>1, <3>3 DEF BatchOf, MadeBy
  <2>2. CASE d # c
    <3>1. ProgressOf(d) /\ BatchOf(d) /\ LoggedOf(d)
        BY DEF DataInv, CallsInv
    <3>2. /\ batch'[d] = batch[d] /\ told'[d] = told[d] /\ pc'[d] = pc[d]
          /\ rules'[d] = rules[d] /\ kind'[d] = kind[d] /\ Targets(d)' = Targets(d)
        BY <1>2, <2>2 DEF DataInv, TypeOK, RowInv, ShapeOK, Targets
    <3>3. d \in raced' => d \in raced \/ pc[d] # "idle"
        BY <1>2 DEF Overtaken, Readers, Reading
    <3>4. ProgressOf(d)'
        BY <1>2, <3>1, <3>2, <3>3 DEF ProgressOf
    <3>5. BatchOf(d)' /\ LoggedOf(d)'
        BY <1>2, <1>5, <3>1, <3>2 DEF BatchOf, LoggedOf, MadeBy, Contributions
    <3> QED
        BY <3>4, <3>5
  <2> QED
    BY <2>1, <2>2
<1>7. CellsWritten'
  <2> SUFFICES ASSUME NEW k \in Keys, NEW v \in cells'[k] PROVE Written(v[1])'
    BY DEF CellsWritten
  <2>1. v[1] \in Calls
    BY <1>4 DEF TypeOK, Contributions
  <2>2. v[1] = c \/ Written(v[1])
    BY <1>1, <1>3 DEF BatchOf, MadeBy, DataInv, CallsInv, CellsWritten
  <2>3. Written(c)'
    BY <1>5 DEF Written
  <2> QED
    BY <1>5, <2>1, <2>2, <2>3
<1>8. RulesInv'
  <2> SUFFICES ASSUME NEW r \in Rows, Undisturbed(r)'
               PROVE  /\ Newest(cells, r)' = RulesApplied(r)'
                      /\ \A d \in Calls : AtWork(d, r)' => WorkOK(d, r)'
    BY DEF RulesInv
  <2>1. Undisturbed(r)
    BY <1>2, UndisturbedBack DEF DataInv, TypeOK
  <2>2. /\ Newest(cells, r) = RulesApplied(r)
        /\ \A d \in Calls : AtWork(d, r) => WorkOK(d, r)
    BY <2>1 DEF DataInv, CallsInv, RulesInv
  <2>3. \A d \in Calls : Targets(d)' = Targets(d)
    BY <1>2 DEF Targets
  <2>4. CASE r \notin Targets(c)
    <3>1. \A t \in Times : cells'[<<r, t>>] = cells[<<r, t>>]
        BY <1>1, <1>3, <2>4 DEF BatchOf, MadeBy, Keys
    <3>2. Newest(cells', r) = Newest(cells, r)
        BY <3>1, NewestSame
    <3>3. Newest(cells, r)' = Newest(cells', r)
        BY DEF Newest
    <3>4. {d \in Calls : pc[d] = "applied" /\ r \in Targets(d)}'
              = {d \in Calls : pc[d] = "applied" /\ r \in Targets(d)}
        BY <1>5, <2>3, <2>4
    <3>5. RulesApplied(r)' = RulesApplied(r)
        BY <1>2, <3>4 DEF RulesApplied
    <3>6. ASSUME NEW d \in Calls, AtWork(d, r)' PROVE WorkOK(d, r)'
      <4>1. d # c /\ AtWork(d, r)
        BY <1>2, <1>5, <3>6 DEF AtWork
      <4>2. ts'[d] = ts[d] /\ batch'[d] = batch[d] /\ rules'[d] = rules[d]
        BY <1>2, <4>1 DEF DataInv, TypeOK, RowInv, ShapeOK
      <4>3. WorkOK(d, r)
        BY <2>2, <4>1
      <4> QED
        BY <1>2, <3>1, <3>2, <3>3, <4>2, <4>3 DEF WorkOK
    <3> QED
        BY <1>2, <2>2, <3>1, <3>2, <3>3, <3>5, <3>6
  <2>5. CASE r \in Targets(c)
    <3>1. kind[c] = "rmw" /\ r = row[c]
        BY <1>1, <2>1, <2>5 DEF Undisturbed, OnlyRules, ProgressOf, Targets
    <3>2. WorkOK(c, r) /\ rules[c] > 0
        BY <1>1, <2>2, <3>1 DEF AtWork, ProgressOf
    <3>3. /\ cells'[<<r, ts[c]>>] = Newest(cells, r) \cup ({c} \X (1 .. rules[c]))
          /\ \A t \in Times \ {ts[c]} : cells'[<<r, t>>] = cells[<<r, t>>]
        BY <1>1, <1>3, <3>2 DEF WorkOK, Keys
    <3>4. cells'[<<r, ts[c]>>] # Absent
      <4>1. <<c, 1>> \in {c} \X (1 .. rules[c])
        BY <1>1, <3>2
      <4> QED
        BY <3>3, <4>1 DEF Absent
    <3>5. \A t \in Times : cells'[<<r, t>>] # Absent => t <= ts[c]
        BY <1>1, <3>2, <3>3, BoundAssumption DEF WorkOK, Times
    <3>6. Newest(cells', r) = cells'[<<r, ts[c]>>]
        BY <1>1, <3>4, <3>5, NewestIs
    <3>7. Newest(cells, r)' = Newest(cells', r)
        BY DEF Newest
    <3>8. RulesApplied(r)' = RulesApplied(r) \cup ({c} \X (1 .. rules[c]))
      <4>1. {d \in Calls : pc[d] = "applied" /\ r \in Targets(d)}'
                = {d \in Calls : pc[d] = "applied" /\ r \in Targets(d)} \cup {c}
        BY <1>5, <2>3, <2>5
      <4> QED
        BY <1>2, <4>1 DEF RulesApplied
    <3>10. ASSUME NEW d \in Calls, AtWork(d, r)' PROVE FALSE
      <4>1. d # c /\ AtWork(d, r) /\ r \in Targets(d)
        BY <1>2, <1>5, <3>10 DEF AtWork, Targets
      <4>2. \E k \in DOMAIN batch[c] : row[d] = k[1]
        BY <3>2, <4>1 DEF WorkOK, AtWork
      <4>3. d \in Overtaken(c)
        BY <3>1, <4>1, <4>2 DEF Overtaken, Readers, Reading, AtWork
      <4> QED
        BY <1>2, <2>3, <4>1, <4>3 DEF Undisturbed
    <3> QED
        BY <2>2, <3>3, <3>6, <3>7, <3>8, <3>10
  <2> QED
    BY <2>4, <2>5
<1> QED
    BY <1>4, <1>6, <1>7, <1>8 DEF CallsInv

(* The log gives a batch back: only cells in the rows of its call change.  *)
LEMMA ReplayData ==
    ASSUME DataInv, NEW c \in Calls, Replay(c)
    PROVE  TypeOK' /\ CallsInv'
<1>1. PICK part \in (SUBSET DOMAIN logged[c]) \ {{}} :
          LET given == [k \in part |-> logged[c][k]]
          IN  cells' = Over(given, cells) /\ raced' = raced \cup Readers(given)
    BY DEF Replay
<1>2. /\ replayed' = replayed \cup {c}
      /\ UNCHANGED <<table, logged, behind, lock, pc, kind, row, using, batch, ts, filter,
                     matched, rules, told>>
    BY DEF Replay, request, readings
<1>3. /\ DOMAIN logged[c] # {} /\ LoggedOf(c) /\ DOMAIN logged[c] \subseteq Keys
      /\ pc[c] = "done"
    BY <1>1 DEF DataInv, TypeOK, CallsInv, ProgressOf
<1>4. /\ DOMAIN cells' = Keys
      /\ \A k \in Keys : cells'[k] = IF k \in part THEN logged[c][k] ELSE cells[k]
      /\ cells' = [k \in Keys |-> cells'[k]]
  <2>1. DOMAIN cells = Keys
    BY DEF DataInv, TypeOK
  <2> QED
    BY <1>1, <1>3, <2>1 DEF Over
<1>5. TypeOK'
  <2>1. cells' \in [Keys -> SUBSET Contributions]
    <3>1. \A k \in Keys : cells'[k] \in SUBSET Contributions
        BY <1>3, <1>4 DEF LoggedOf, MadeBy, DataInv, TypeOK
    <3> QED
        BY <1>4, <3>1
  <2>2. raced' \cup behind' \cup replayed' \subseteq Calls
    BY <1>1, <1>2 DEF DataInv, TypeOK, Readers
  <2> QED
    BY <1>2, <2>1, <2>2 DEF DataInv, TypeOK
<1>6. \A v : Written(v) => Written(v)'
    BY <1>2 DEF Written
<1>7. \A d \in Calls : Targets(d)' = Targets(d)
    BY <1>2 DEF Targets
<1>8. ASSUME NEW d \in Calls PROVE ProgressOf(d)' /\ BatchOf(d)' /\ LoggedOf(d)'
  <2>1. ProgressOf(d) /\ BatchOf(d) /\ LoggedOf(d)
    BY DEF DataInv, CallsInv
  <2>2. d \in raced' => d \in raced \/ pc[d] # "idle"
    BY <1>1 DEF Readers, Reading
  <2>3. ProgressOf(d)'
    BY <1>2, <1>3, <2>1, <2>2 DEF ProgressOf
  <2>4. BatchOf(d)' /\ LoggedOf(d)'
    BY <1>2, <1>6, <1>7, <2>1 DEF BatchOf, LoggedOf, MadeBy
  <2> QED
    BY <2>3, <2>4
<1>9. CellsWritten'
  <2> SUFFICES ASSUME NEW k \in Keys, NEW v \in cells'[k] PROVE Written(v[1])'
    BY DEF CellsWritten
  <2>1. v[1] = c \/ Written(v[1])
    BY <1>3, <1>4 DEF LoggedOf, MadeBy, DataInv, CallsInv, CellsWritten
  <2>2. Written(c)'
    BY <1>2 DEF Written
  <2> QED
    BY <1>6, <2>1, <2>2
<1>10. RulesInv'
  <2> SUFFICES ASSUME NEW r \in Rows, Undisturbed(r)'
               PROVE  /\ Newest(cells, r)' = RulesApplied(r)'
                      /\ \A d \in Calls : AtWork(d, r)' => WorkOK(d, r)'
    BY DEF RulesInv
  <2>1. Undisturbed(r)
    BY <1>1, <1>2, UndisturbedBack DEF DataInv, TypeOK
  <2>2. r \notin Targets(c)
    BY <1>2, <1>7 DEF Undisturbed
  <2>3. \A t \in Times : cells'[<<r, t>>] = cells[<<r, t>>]
    BY <1>3, <1>4, <2>2 DEF LoggedOf, MadeBy, Keys
  <2>4. Newest(cells', r) = Newest(cells, r)
    BY <2>3, NewestSame
  <2>5. Newest(cells, r)' = Newest(cells', r)
    BY DEF Newest
  <2>6. RulesApplied(r)' = RulesApplied(r)
    BY <1>2, <1>7 DEF RulesApplied
  <2>7. ASSUME NEW d \in Calls, AtWork(d, r)' PROVE WorkOK(d, r)'
    <3>1. WorkOK(d, r)
        BY <1>2, <2>1, <2>7 DEF AtWork, DataInv, CallsInv, RulesInv
    <3> QED
        BY <1>2, <2>3, <2>4, <2>5, <3>1 DEF WorkOK
  <2> QED
    BY <2>1, <2>4, <2>5, <2>6, <2>7 DEF DataInv, CallsInv, RulesInv
<1> QED
    BY <1>5, <1>8, <1>9, <1>10 DEF CallsInv

LEMMA DataStep == DataInv /\ [Next]_vars => DataInv'
<1> SUFFICES ASSUME DataInv, [Next]_vars PROVE DataInv'
    OBVIOUS
<1>1. RowInv'
    BY RowStep DEF DataInv
<1>2. ASSUME NEW c \in Calls, GetEngine(c) PROVE TypeOK' /\ CallsInv'
    BY <1>2, LookupTableData, FindTableData, OpenTableData, FailsData
       DEF GetEngine, OpenFails
<1>3. ASSUME NEW c \in Calls, ApplyRules(c) PROVE TypeOK' /\ CallsInv'
    BY <1>3, ReadModifyWriteRowData, RuleData, FailsData DEF ApplyRules, RuleFails
<1>4. ASSUME NEW c \in Calls, Refuse(c) \/ CommitFails(c) PROVE TypeOK' /\ CallsInv'
  <2>1. CASE Refuse(c)
    BY <2>1, FailsData DEF Refuse
  <2> QED
    BY <1>4, <2>1, CommitFailsData
<1>5. ASSUME UNCHANGED vars PROVE TypeOK' /\ CallsInv'
  <2> USE <1>5 DEF vars, store, request, readings
  <2>1. TypeOK'
    BY DEF DataInv, TypeOK
  <2>2. \A d \in Calls : ProgressOf(d)' /\ BatchOf(d)' /\ LoggedOf(d)'
    BY DEF DataInv, CallsInv, ProgressOf, BatchOf, LoggedOf, MadeBy, Written, Targets
  <2>5. CellsWritten'
    BY DEF DataInv, CallsInv, CellsWritten, Written
  <2>3. \A r \in Rows : /\ Newest(cells, r)' = Newest(cells, r)
                        /\ RulesApplied(r)' = RulesApplied(r)
                        /\ Undisturbed(r)' = Undisturbed(r)
    BY DEF Newest, RulesApplied, Undisturbed, OnlyRules, Targets
  <2>4. RulesInv'
    BY <2>3 DEF DataInv, CallsInv, RulesInv, AtWork, WorkOK
  <2> QED
    BY <2>1, <2>2, <2>4, <2>5 DEF CallsInv
<1>6. TypeOK' /\ CallsInv'
    BY <1>2, <1>3, <1>4, <1>5, BeginData, MutateData, CheckAndMutateRowData, CommitData,
       ReplayData DEF Next
<1> QED
    BY <1>1, <1>6 DEF DataInv

LEMMA DataInit == Init => DataInv
<1> SUFFICES ASSUME Init PROVE DataInv
    OBVIOUS
<1>1. RowInv
    BY RowInit
<1> USE DEF Init
<1>2. TypeOK
  <2>2. cells \in [Keys -> SUBSET Contributions] /\ \A c \in Calls : DOMAIN batch[c] \cup DOMAIN logged[c] \subseteq Keys
    BY DEF Absent
  <2>3. ts \in [Calls -> Times] /\ rules \in [Calls -> 0 .. MaxRules]
    BY BoundAssumption DEF Times
  <2> QED
    BY <2>2, <2>3 DEF TypeOK
<1>3. \A c \in Calls : ProgressOf(c) /\ BatchOf(c) /\ LoggedOf(c)
    BY DEF ProgressOf, BatchOf, LoggedOf, MadeBy
<1>4. CellsWritten
    BY DEF CellsWritten, Absent
<1>5. RulesInv
  <2> SUFFICES ASSUME NEW r \in Rows
               PROVE  /\ Newest(cells, r) = RulesApplied(r)
                      /\ \A c \in Calls : AtWork(c, r) => WorkOK(c, r)
    BY DEF RulesInv
  <2>1. \A t \in Times : cells[<<r, t>>] = Absent
    BY DEF Keys
  <2>2. Newest(cells, r) = Absent
    BY <2>1, NewestOf
  <2>3. RulesApplied(r) = Absent
    BY DEF RulesApplied, Absent
  <2> QED
    BY <2>1, <2>2, <2>3 DEF AtWork
<1> QED
    BY <1>1, <1>2, <1>3, <1>4, <1>5 DEF DataInv, CallsInv

(* The invariant of what the calls write.                                  *)
THEOREM RowDataInvariant == Spec => []DataInv
<1>1. QED
    BY DataInit, DataStep, PTL DEF Spec

(* The state of the handlers and of the table keeps its type.              *)
THEOREM RowTypeCorrect == Spec => []TypeOK
<1>1. DataInv => TypeOK
    BY DEF DataInv
<1> QED
    BY <1>1, RowDataInvariant, PTL

(* A call that reports an error, for its row or for one entry of a         *)
(* MutateRows, has left nothing in any cell, also not through another call *)
(* that read what it wrote; unless the log had its whole batch when        *)
(* eng.Apply failed, and has given it back.                                *)
THEOREM RowErrorLeavesNothing == Spec => []ErrorLeavesNothing
<1>1. DataInv => ErrorLeavesNothing
  <2> SUFFICES ASSUME DataInv, NEW c \in Calls, NEW r \in Rows, told[c][r] = "error",
                      NEW k \in Keys, NEW i \in 0 .. MaxRules, <<c, i>> \in cells[k]
               PROVE  c \in replayed /\ DOMAIN logged[c] # {}
    BY DEF ErrorLeavesNothing
  <2>1. pc[c] = "done"
    BY DEF DataInv, CallsInv, ProgressOf
  <2>2. Written(c)
    BY DEF DataInv, CallsInv, CellsWritten
  <2> QED
    BY <2>1, <2>2 DEF Written, DataInv, CallsInv, ProgressOf
<1> QED
    BY <1>1, RowDataInvariant, PTL

(* ReadModifyWriteRow calls on a row that nothing else writes add up,      *)
(* however many there are: the newest cell has what every rule of every    *)
(* applied one added, as long as none was overtaken, none was given back   *)
(* by the log after it had failed, and none took a timestamp below the     *)
(* newest cell from a clock that had been set back.                        *)
THEOREM RowSequentialRules == Spec => []SequentialRules
<1>1. DataInv => SequentialRules
    BY DEF DataInv, CallsInv, RulesInv, Undisturbed, SequentialRules
<1> QED
    BY <1>1, RowDataInvariant, PTL
=============================================================================
