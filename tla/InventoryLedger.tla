-------------------------- MODULE InventoryLedger --------------------------
(***************************************************************************)
(* One item of the portfolio: its rows in patrimony_ledger_entries and the *)
(* snapshot patrimony_items keeps of it.  recordMovement replays the rows  *)
(* it has read, applies its own movement LAST, inserts the row, and only   *)
(* then writes the snapshot; rebuildAndPersist replays and writes.  Reads, *)
(* the insert and the snapshot write are separate round trips and nothing  *)
(* locks the item, so requests interleave and may stop in between.         *)
(***************************************************************************)
EXTENDS Valuation, FiniteSets, SequencesExt

CONSTANTS
  Agents,        (* requests that touch the item at the same time          *)
  EntryIds,      (* randomUUID() values, in primary-key order              *)
  ReadLimit,     (* findWhere LIMIT: 500 unless the caller says otherwise  *)
  InDateOrder,   (* bound on the inputs: each later than all rows, or any  *)
  MayDo,         (* bound: operations that occur, among those of MayBeDone *)
  MaxCrashes     (* bound: requests that stop half-way                     *)

MayBeDone == {"record", "void", "drop", "repair"}

\* A movement that is recorded has its transaction_date, too.
ASSUME DateAssumption == \A m \in Movements : m.date \in Int
ASSUME EntryAssumption == EntryIds \subseteq Nat
ASSUME LimitAssumption == ReadLimit \in Nat \ {0}
ASSUME BoundAssumption ==
  /\ InDateOrder \in {"any", "notBefore", "after"}
  /\ MayDo \subseteq MayBeDone
  /\ MaxCrashes \in Nat

VARIABLES
  entries,       (* rows ever inserted                                     *)
  deleted,       (* ids of the rows whose deleted_at is not null           *)
  item,          (* the snapshot: quantity, values and status              *)
  task,          (* per agent: where its request is                        *)
  tidy,          (* since the item was last in order, rows came in by date *)
                 (* and nothing was removed or left half-way behind it     *)
  grown,         (* rows have only been added so far, each one completely  *)
  crashes

vars == <<entries, deleted, item, task, tidy, grown, crashes>>

Entry == [id : EntryIds, move : Movements, seq : Nat]

Snapshot == [quantity : Int, cost : Int, current : Int, status : {"active", "liquidated"}]

Idle == [at |-> "idle"]
Position == [quantity : Int, pm : Int, cost : Int, current : Int]

Task == {Idle}
  \cup [at : {"insert", "persist"}, move : Movements, before : Position]
  \cup [at : {"rebuild"}]
  \cup [at : {"store"}, after : Position]
  \cup [at : {"rebuilt"}]

TypeOK ==
  /\ entries \subseteq Entry /\ deleted \subseteq EntryIds
  /\ item \in Snapshot
  /\ task \in [Agents -> Task]
  /\ tidy \in BOOLEAN /\ grown \in BOOLEAN
  /\ crashes \in 0..MaxCrashes

\* InventoryRegistry.ensure has just created the item.
Init ==
  /\ entries = {} /\ deleted = {}
  /\ item = [quantity |-> 0, cost |-> 0, current |-> 0, status |-> "active"]
  /\ task = [a \in Agents |-> Idle]
  /\ tidy = TRUE /\ grown = TRUE
  /\ crashes = 0

Live == {e \in entries : e.id \notin deleted}

\* loadOrderedLedger.  DATE columns arrive as Date objects, so "!==" never
\* finds two dates equal and created_at is not reached: rows of one day stay
\* in the order of the SELECT, by primary key.
Before(e, f) == \/ e.move.date < f.move.date
                \/ e.move.date = f.move.date /\ e.id < f.id

Latest(rows) == CHOOSE e \in rows : \A f \in rows \ {e} : Before(f, e)

\* The movement of the last row, applied to the replay of those before it.
Replay(rows) ==
  MapThenFoldSet(LAMBDA e, p : Apply(p, e.move), Zero, LAMBDA e : e, Latest, rows)

\* A SELECT without ORDER BY and with a LIMIT returns any rows up to it.
Readable == {rows \in SUBSET Live : Cardinality(rows) = IF Cardinality(Live) < ReadLimit
                                                        THEN Cardinality(Live) ELSE ReadLimit}

IsAt(a, point) == task[a].at = point
Set(a, t) == task' = [task EXCEPT ![a] = t]

Admissible(m) ==
  \A e \in Live : CASE InDateOrder = "any"       -> TRUE
                    [] InDateOrder = "notBefore" -> e.move.date <= m.date
                    [] InDateOrder = "after"     -> e.move.date < m.date

\* Bound of the model: ids for the rows still to be inserted.
Room == Cardinality(entries) + Cardinality({a \in Agents : IsAt(a, "insert")})
          < Cardinality(EntryIds)

LoadLedger(a) ==
  /\ IsAt(a, "idle") /\ "record" \in MayDo /\ Room
  /\ \E m \in Movements, rows \in Readable :
       /\ Admissible(m)
       /\ Set(a, [at |-> "insert", move |-> m, before |-> Replay(rows)])
       /\ tidy' = (tidy /\ \A e \in Live : e.move.date < m.date)
  /\ UNCHANGED <<entries, deleted, item, grown, crashes>>

InsertEntry(a) ==
  /\ IsAt(a, "insert")
  /\ \E id \in EntryIds :
       /\ id \notin {e.id : e \in entries}
       /\ entries' = entries \cup {[id |-> id, move |-> task[a].move,
                                    seq |-> Cardinality(entries)]}
  /\ Set(a, [task[a] EXCEPT !.at = "persist"])
  /\ UNCHANGED <<deleted, item, tidy, grown, crashes>>

\* A status that knows no short positions.
StatusAfter_LongOnly(before, next) == IF next.quantity > 0 THEN "active" ELSE "liquidated"

\* The status is written only when the replay before the movement and the
\* one after it are on different sides of zero quantity.
StatusAfter(before, next) ==
  CASE next.quantity = 0 /\ before.quantity # 0 -> "liquidated"
    [] next.quantity # 0 /\ before.quantity = 0 -> "active"
    [] OTHER -> item.status

Written(p, status) ==
  [quantity |-> p.quantity, cost |-> p.cost, current |-> p.current, status |-> status]

\* The increment added to the stored snapshot instead of the replay.
UpdateSnapshot_Incremental(a) ==
  /\ IsAt(a, "persist")
  /\ LET next == Apply([quantity |-> item.quantity, pm |-> task[a].before.pm,
                        cost |-> item.cost, current |-> item.current], task[a].move)
     IN item' = Written([next EXCEPT !.cost = item.cost], StatusAfter(task[a].before, next))
  /\ Set(a, Idle)
  /\ UNCHANGED <<entries, deleted, tidy, grown, crashes>>

UpdateSnapshot(a) ==
  /\ IsAt(a, "persist")
  /\ LET next == Apply(task[a].before, task[a].move)
     IN item' = Written(next, StatusAfter(task[a].before, next))
  /\ Set(a, Idle)
  /\ UNCHANGED <<entries, deleted, tidy, grown, crashes>>

\* voidEvent / amendEvent of InvestOperations: the leg goes, then its item is
\* rebuilt.
VoidLeg(a) ==
  /\ IsAt(a, "idle") /\ "void" \in MayDo
  /\ \E e \in Live : deleted' = deleted \cup {e.id}
  /\ Set(a, [at |-> "rebuild"])
  /\ grown' = FALSE
  /\ UNCHANGED <<entries, item, tidy, crashes>>

\* resolveDecision("void_ledger") of the reconciliation session: only the row.
DropLeg(a) ==
  /\ IsAt(a, "idle") /\ "drop" \in MayDo
  /\ \E e \in Live : deleted' = deleted \cup {e.id}
  /\ tidy' = FALSE
  /\ grown' = FALSE
  /\ UNCHANGED <<entries, item, task, crashes>>

\* repairExistingTradeFromImportLine: a note imported again with another
\* quantity or price; date and kind of the row stay, then its item is rebuilt.
RepairEntry(a) ==
  /\ IsAt(a, "idle") /\ "repair" \in MayDo
  /\ \E e \in Live, m \in Movements :
       /\ m # e.move /\ m.date = e.move.date /\ m.kind = e.move.kind
       /\ entries' = (entries \ {e}) \cup {[e EXCEPT !.move = m]}
  /\ Set(a, [at |-> "rebuild"])
  /\ grown' = FALSE
  /\ UNCHANGED <<deleted, item, tidy, crashes>>

\* rebuildPosition
Rebuild(a) ==
  /\ IsAt(a, "rebuild")
  /\ \E rows \in Readable : Set(a, [at |-> "store", after |-> Replay(rows)])
  /\ UNCHANGED <<entries, deleted, item, tidy, grown, crashes>>

\* A rebuild that only repairs the quantity.
StoreRebuilt_QuantityOnly(a) ==
  /\ IsAt(a, "store")
  /\ item' = [item EXCEPT !.quantity = task[a].after.quantity]
  /\ Set(a, [at |-> "rebuilt"])
  /\ tidy' = (tidy \/ \A b \in Agents \ {a} : IsAt(b, "idle"))
  /\ UNCHANGED <<entries, deleted, grown, crashes>>

StoreRebuilt(a) ==
  /\ IsAt(a, "store")
  /\ item' = Written(task[a].after, item.status)
  /\ Set(a, [at |-> "rebuilt"])
  /\ tidy' = (tidy \/ \A b \in Agents \ {a} : IsAt(b, "idle"))
  /\ UNCHANGED <<entries, deleted, grown, crashes>>

Respond(a) ==
  /\ IsAt(a, "rebuilt")
  /\ Set(a, Idle)
  /\ UNCHANGED <<entries, deleted, item, tidy, grown, crashes>>

\* An exception or a restart between two awaits.
Crash(a) ==
  /\ task[a].at \in {"insert", "persist", "rebuild", "store"} /\ crashes < MaxCrashes
  /\ crashes' = crashes + 1
  /\ tidy' = (tidy /\ IsAt(a, "insert"))
  /\ Set(a, Idle)
  /\ grown' = FALSE
  /\ UNCHANGED <<entries, deleted, item>>

\* Nobody works on the item.
Quiet == (\A a \in Agents : IsAt(a, "idle")) /\ UNCHANGED vars

Next ==
  \/ \E a \in Agents :
       \/ LoadLedger(a) \/ InsertEntry(a) \/ UpdateSnapshot(a)
       \/ VoidLeg(a) \/ DropLeg(a) \/ RepairEntry(a) \/ Rebuild(a) \/ StoreRebuilt(a) \/ Respond(a)
       \/ Crash(a)
  \/ Quiet

Spec == Init /\ [][Next]_vars

(***************************************************************************)
(* Properties.                                                             *)
(***************************************************************************)

AllIdle == \A a \in Agents : IsAt(a, "idle")

Agrees(p) ==
  item.quantity = p.quantity /\ item.cost = p.cost /\ item.current = p.current

\* Once nobody works on the item, its snapshot is what the book says: the
\* replay of the rows that are alive, in quantity and in value (class comment
\* of InventoryLedger: every entry updates the snapshot), as long as rows come
\* in by date, and again from the first rebuild on.
SnapshotFollowsLedger == tidy /\ AllIdle => Agrees(Replay(Live))

\* The quantity of the snapshot is the sum of the live movements, in whatever
\* order the rows came in.
QuantityIsSum ==
  AllIdle => item.quantity = FoldLeft(LAMBDA n, e : n + e.move.delta, 0, SetToSeq(Live))

\* A position with rows is active exactly when it holds something: it is
\* neither shown when empty nor hidden when held (listByModule filters on it).
StatusTracksQuantity ==
  AllIdle /\ Live # {} => (item.status = "active" <=> item.quantity # 0)

\* In whatever order movements come in, long, short and across zero, as long
\* as none is removed, changed or cut off (recordMovement compares the replay
\* before and after, not the stored snapshot).
StatusTracksMovements == grown => StatusTracksQuantity

\* rebuildAndPersist repairs: when it returns the snapshot is the replay of
\* the live rows, whatever happened to the item before: crashes, rows out of
\* date order, rows removed behind its back.
RebuildRepairs == \A a \in Agents : IsAt(a, "rebuilt") => Agrees(Replay(Live))

\* Comment of loadOrderedLedger: chronological, then order of creation, so
\* that the state can be rebuilt deterministically.  Rows entered in date
\* order therefore replay to what they gave when they were entered.
CreationOrder(e, f) == e.seq < f.seq

ReplayFollowsCreation ==
  LET asCreated == FoldLeft(LAMBDA p, e : Apply(p, e.move), Zero,
                            SetToSortSeq(Live, CreationOrder))
  IN Replay(Live) = asCreated
=============================================================================
