-------------------------- MODULE InvestOperations --------------------------
(***************************************************************************)
(* InvestOperations writes the two books of a portfolio: for every line of *)
(* a broker note a header (business_events), a custody leg                 *)
(* (patrimony_ledger_entries), a cash leg (financial_ledger_entries) and   *)
(* two links between the legs.  Each of them is a transaction of its own,  *)
(* so an import can stop between any two, and several requests interleave. *)
(* The registry is used through EventBook: one step per promise, which     *)
(* BusinessEvents is shown to keep.                                        *)
(*                                                                         *)
(* A line stands for one LedgerImportLine; it is its own broker_note_ref,  *)
(* and its legs carry BROKER_REF:{line} with a tag.  recordOperation is    *)
(* modelled as called without a dedupIndex (portfolio import, openings,    *)
(* amendments).  Snapshots of positions are InventoryLedger's.             *)
(***************************************************************************)
EXTENDS EventBook, FiniteSets, FiniteSetsExt

CONSTANTS
  Agents,      (* requests that import, void or amend at the same time     *)
  Lines,       (* the lines of the notes that may be imported              *)
  SourceRef,   (* per line: event_source_ref, NoRef when it has none       *)
  Deferred,    (* trades with skip_financial_ledger: cash stays pending    *)
  CashOnly,    (* lines that move cash and no asset (dividends, transfers) *)
  LegIds, NoLeg,
  MaxAborts,   (* bound: how many calls may stop half-way                  *)
  MayAbort     (* which operations may ("import", "void", "amend")         *)

ASSUME LineAssumption ==
  /\ SourceRef \in [Lines -> Refs \cup {NoRef}]
  /\ Deferred \subseteq Lines /\ CashOnly \subseteq Lines
  /\ Deferred \cap CashOnly = {}
ASSUME LegAssumption == NoLeg \notin LegIds
ASSUME BoundAssumption == MaxAborts \in Nat /\ MayAbort \subseteq {"import", "void", "amend"}

VARIABLES
  legs,        (* rows of both ledgers                                     *)
  dropped,     (* ids of the legs whose deleted_at is not null             *)
  links,       (* <<leg, other leg>>: the cross-reference column of a leg  *)
  job,         (* per agent: what its request is doing                     *)
  aborts

vars == <<events, voided, answers, legs, dropped, links, job, aborts>>
books == <<legs, dropped, links>>

Leg == [id : LegIds, book : {"patrimony", "financial"},
        tag : {"", "CASH", "PENDING"}, line : Lines, event : EventIds]

Points == {"idle", "lookup", "pendingCheck", "event", "patrimony", "financial",
           "linkPatrimony", "linkFinancial", "returned",
           "mark", "revise", "list", "sweep", "swept"}

Job == [at : Points, op : {"import", "void", "amend"},
        line : Lines \cup {NoLeg},            \* the line being recorded
        event : EventIds \cup {NoEvent},      \* the header its legs go under
        backfill : BOOLEAN,                   \* only the pending leg is missing
        pat : LegIds \cup {NoLeg}, fin : LegIds \cup {NoLeg},
        old : EventIds \cup {NoEvent},        \* the header being voided/amended
        sweep : SUBSET LegIds,                \* legs listLegs returned
        lines : SUBSET Lines]                 \* lines amend still has to apply

Idle == [at |-> "idle", op |-> "import", line |-> NoLeg, event |-> NoEvent,
         backfill |-> FALSE, pat |-> NoLeg, fin |-> NoLeg, old |-> NoEvent,
         sweep |-> {}, lines |-> {}]

TypeOK ==
  /\ BookTypeOK
  /\ legs \subseteq Leg /\ dropped \subseteq LegIds
  /\ links \subseteq LegIds \X LegIds
  /\ job \in [Agents -> Job]
  /\ aborts \in 0..MaxAborts

Init ==
  /\ BookInit
  /\ legs = {} /\ dropped = {} /\ links = {}
  /\ job = [a \in Agents |-> Idle]
  /\ aborts = 0

Set(a, j) == job' = [job EXCEPT ![a] = j]
IsAt(a, point) == job[a].at = point

Live == {l \in legs : l.id \notin dropped}
LiveUnder(e) == {l \in Live : l.event = e}

\* The slots a fully recorded line fills.
Slots(line) ==
  CASE line \in CashOnly -> {<<"financial", "">>}
    [] line \in Deferred -> {<<"patrimony", "">>, <<"financial", "PENDING">>}
    [] OTHER             -> {<<"patrimony", "">>, <<"financial", "CASH">>}

Filled(line) == {<<l.book, l.tag>> : l \in {m \in Live : m.line = line}}
Complete(line) == Slots(line) \subseteq Filled(line)

\* Only the custody book asked: a dividend is never found.
Known_CustodyOnly(line) == <<"patrimony", "">> \in Filled(line)

\* hasExistingByRef: three SELECTs over both ledgers; the PENDING tag is not
\* among the references it asks for.
Known(line) == Filled(line) \cap {<<"patrimony", "">>, <<"financial", "">>, <<"financial", "CASH">>} # {}

\* Bound of the model: a request starts only while there are ids for all the
\* rows that it and the requests under way may still insert.
LegsAhead(j) ==
  2 * Cardinality(j.lines) +
  CASE j.at \in {"lookup", "pendingCheck", "event", "patrimony"} -> 2
    [] j.at = "financial" -> 1
    [] OTHER -> 0

EventsAhead(j) ==
  IF \/ j.at = "revise"
     \/ j.at \in {"lookup", "pendingCheck", "event"} /\ j.event = NoEvent
  THEN 1 ELSE 0

Room(j) ==
  /\ Cardinality(legs) + LegsAhead(j)
       + MapThenSumSet(LAMBDA b : LegsAhead(job[b]), Agents) <= Cardinality(LegIds)
  /\ Cardinality(events) + EventsAhead(j)
       + MapThenSumSet(LAMBDA b : EventsAhead(job[b]), Agents) <= Cardinality(EventIds)

Start(a, j) == IsAt(a, "idle") /\ Room(j) /\ Set(a, j)

(***************************************************************************)
(* recordOperation                                                         *)
(***************************************************************************)

StartImport(a) ==
  /\ \E l \in Lines : Start(a, [Idle EXCEPT !.at = "lookup", !.line = l])
  /\ UNCHANGED <<bookVars, books, aborts>>

\* The reference is known: only a missing pending leg is made up for; a cash
\* leg that is missing is not.
LookupHit(a) ==
  /\ IsAt(a, "lookup") /\ Known(job[a].line)
  /\ Set(a, [job[a] EXCEPT !.at = IF job[a].line \in Deferred THEN "pendingCheck"
                                                             ELSE "returned"])
  /\ UNCHANGED <<bookVars, books, aborts>>

LookupMiss(a) ==
  /\ IsAt(a, "lookup") /\ ~Known(job[a].line)
  /\ Set(a, [job[a] EXCEPT !.at = "event"])
  /\ UNCHANGED <<bookVars, books, aborts>>

\* ensurePendingFinancialLegForImportLine
CheckPending(a) ==
  /\ IsAt(a, "pendingCheck")
  /\ IF <<"financial", "PENDING">> \in Filled(job[a].line)
     THEN Set(a, [job[a] EXCEPT !.at = "returned"])
     ELSE Set(a, [job[a] EXCEPT !.at = "event", !.backfill = TRUE])
  /\ UNCHANGED <<bookVars, books, aborts>>

AfterEvent(j) == IF j.backfill \/ j.line \in CashOnly THEN "financial" ELSE "patrimony"

\* resolveOrCreateEvent: the header that came with the line (amend), else the
\* one ensureByRef gives for its reference, else a header of its own.
ResolveGiven(a) ==
  /\ IsAt(a, "event") /\ job[a].event # NoEvent
  /\ Set(a, [job[a] EXCEPT !.at = AfterEvent(job[a])])
  /\ UNCHANGED <<bookVars, books, aborts>>

ResolveFound(a) ==
  /\ IsAt(a, "event") /\ job[a].event = NoEvent
  /\ \E e \in events :
       /\ e.ref = SourceRef[job[a].line]
       /\ Tell(e)
       /\ Set(a, [job[a] EXCEPT !.at = AfterEvent(job[a]), !.event = e.id])
  /\ UNCHANGED <<books, aborts>>

ResolveOpened_NoReference(a) ==
  /\ IsAt(a, "event") /\ job[a].event = NoEvent
  /\ \E id \in EventIds :
       /\ Open(id, NoRef)
       /\ Set(a, [job[a] EXCEPT !.at = AfterEvent(job[a]), !.event = id])
  /\ UNCHANGED <<books, aborts>>

ResolveOpened(a) ==
  /\ IsAt(a, "event") /\ job[a].event = NoEvent
  /\ \E id \in EventIds :
       /\ Open(id, SourceRef[job[a].line])
       /\ Set(a, [job[a] EXCEPT !.at = AfterEvent(job[a]), !.event = id])
  /\ UNCHANGED <<books, aborts>>

AddLeg(id, book, tag, j) ==
  /\ id \notin {l.id : l \in legs}
  /\ legs' = legs \cup {[id |-> id, book |-> book, tag |-> tag,
                         line |-> j.line, event |-> j.event]}
  /\ UNCHANGED <<bookVars, dropped, links, aborts>>

\* inventoryLedger.recordMovement
RecordPatrimony(a) ==
  /\ IsAt(a, "patrimony")
  /\ \E id \in LegIds :
       /\ AddLeg(id, "patrimony", "", job[a])
       /\ Set(a, [job[a] EXCEPT !.at = "financial", !.pat = id])

\* financialLedger.record: cleared under :CASH, pending under :PENDING.  A
\* backfilled leg is not linked to anything.
FinancialTag_AlwaysCash(line) == IF line \in CashOnly THEN "" ELSE "CASH"

FinancialTag(line) ==
  IF line \in CashOnly THEN "" ELSE IF line \in Deferred THEN "PENDING" ELSE "CASH"

RecordFinancial(a) ==
  /\ IsAt(a, "financial")
  /\ \E id \in LegIds :
       /\ AddLeg(id, "financial", FinancialTag(job[a].line), job[a])
       /\ Set(a, [job[a] EXCEPT !.at = IF job[a].pat = NoLeg THEN "returned"
                                                             ELSE "linkPatrimony",
                                !.fin = id])

LinkPatrimony(a) ==
  /\ IsAt(a, "linkPatrimony")
  /\ links' = links \cup {<<job[a].pat, job[a].fin>>}
  /\ Set(a, [job[a] EXCEPT !.at = "linkFinancial"])
  /\ UNCHANGED <<bookVars, legs, dropped, aborts>>

\* The custody leg looked up again by its reference instead of remembered.
LinkFinancial_ByReference(a) ==
  /\ IsAt(a, "linkFinancial")
  /\ \E l \in legs : /\ l.book = "patrimony" /\ l.line = job[a].line
                     /\ links' = links \cup {<<job[a].fin, l.id>>}
  /\ Set(a, [job[a] EXCEPT !.at = "returned"])
  /\ UNCHANGED <<bookVars, legs, dropped, aborts>>

LinkFinancial(a) ==
  /\ IsAt(a, "linkFinancial")
  /\ links' = links \cup {<<job[a].fin, job[a].pat>>}
  /\ Set(a, [job[a] EXCEPT !.at = "returned"])
  /\ UNCHANGED <<bookVars, legs, dropped, aborts>>

\* recordOperation returned: the request ends, or amend takes its next line.
Return(a) ==
  /\ IsAt(a, "returned")
  /\ Set(a, IF job[a].op = "amend" THEN [job[a] EXCEPT !.at = "swept"] ELSE Idle)
  /\ UNCHANGED <<bookVars, books, aborts>>

(***************************************************************************)
(* voidEvent and amendEvent                                                *)
(***************************************************************************)

NoteLines(e) == {l \in Lines : SourceRef[l] = e.ref}

\* Both refuse a header whose voided_at they see set (409).
StartVoid(a) ==
  /\ \E e \in events :
       e.id \notin voided /\ Start(a, [Idle EXCEPT !.at = "mark", !.op = "void", !.old = e.id])
  /\ UNCHANGED <<bookVars, books, aborts>>

MarkVoided(a) ==
  /\ IsAt(a, "mark")
  /\ \E e \in events : e.id = job[a].old /\ Annul(e)
  /\ Set(a, [job[a] EXCEPT !.at = "list"])
  /\ UNCHANGED <<books, aborts>>

\* The caller of amend hands over the lines it wants from the corrected note.
StartAmend(a) ==
  /\ \E e \in events, ls \in SUBSET Lines :
       /\ e.id \notin voided /\ ls \subseteq NoteLines(e)
       /\ Start(a, [Idle EXCEPT !.at = "revise", !.op = "amend", !.old = e.id, !.lines = ls])
  /\ UNCHANGED <<bookVars, books, aborts>>

OpenRevision(a) ==
  /\ IsAt(a, "revise")
  /\ \E prev \in events, id \in EventIds :
       /\ prev.id = job[a].old
       /\ Revise(id, prev)
       /\ Set(a, [job[a] EXCEPT !.at = "list", !.event = id])
  /\ UNCHANGED <<books, aborts>>

\* Somebody amended the same header before: ER_DUP_ENTRY, the request fails.
RevisionCollides(a) ==
  /\ IsAt(a, "revise")
  /\ \E prev \in events : prev.id = job[a].old /\ Taken(prev.ref, prev.rev + 1)
  /\ Set(a, Idle)
  /\ UNCHANGED <<bookVars, books, aborts>>

\* invalidateLegs: what listLegs returns now is deleted one leg at a time.
ListLegs_PatrimonyOnly(a) ==
  /\ IsAt(a, "list")
  /\ Set(a, [job[a] EXCEPT !.at = "sweep",
             !.sweep = {l.id : l \in {m \in LiveUnder(job[a].old) : m.book = "patrimony"}}])
  /\ UNCHANGED <<bookVars, books, aborts>>

ListLegs(a) ==
  /\ IsAt(a, "list")
  /\ Set(a, [job[a] EXCEPT !.at = "sweep", !.sweep = {l.id : l \in LiveUnder(job[a].old)}])
  /\ UNCHANGED <<bookVars, books, aborts>>

\* Custody legs go first, then cash legs.
NextToDrop(a) ==
  LET todo == {l \in legs : l.id \in job[a].sweep}
      custody == {l \in todo : l.book = "patrimony"}
  IN IF custody # {} THEN custody ELSE todo

SoftDelete(a) ==
  /\ IsAt(a, "sweep")
  /\ \E l \in NextToDrop(a) :
       /\ l.id \notin dropped
       /\ dropped' = dropped \cup {l.id}
       /\ Set(a, [job[a] EXCEPT !.sweep = @ \ {l.id}])
  /\ UNCHANGED <<bookVars, legs, links, aborts>>

\* softDelete of a leg that is already deleted is a 404: the request fails.
SoftDeleteFails(a) ==
  /\ IsAt(a, "sweep")
  /\ \E l \in NextToDrop(a) : l.id \in dropped
  /\ Set(a, Idle)
  /\ UNCHANGED <<bookVars, books, aborts>>

Swept(a) ==
  /\ IsAt(a, "sweep") /\ job[a].sweep = {}
  /\ Set(a, [job[a] EXCEPT !.at = "swept"])
  /\ UNCHANGED <<bookVars, books, aborts>>

ApplyNextLine(a) ==
  /\ IsAt(a, "swept")
  /\ \E l \in job[a].lines :
       Set(a, [job[a] EXCEPT !.at = "lookup", !.line = l, !.lines = @ \ {l},
                             !.backfill = FALSE, !.pat = NoLeg, !.fin = NoLeg])
  /\ UNCHANGED <<bookVars, books, aborts>>

EndOfChange(a) ==
  /\ IsAt(a, "swept") /\ job[a].lines = {}
  /\ Set(a, Idle)
  /\ UNCHANGED <<bookVars, books, aborts>>

\* An exception or a restart: what was written stays written.
Abort(a) ==
  /\ ~IsAt(a, "idle") /\ job[a].op \in MayAbort /\ aborts < MaxAborts
  /\ aborts' = aborts + 1
  /\ Set(a, Idle)
  /\ UNCHANGED <<bookVars, books>>

\* No request is running (and the bounds may allow no further one).
Quiet == (\A a \in Agents : IsAt(a, "idle")) /\ UNCHANGED vars

Next ==
  \/ \E a \in Agents :
       \/ StartImport(a) \/ LookupHit(a) \/ LookupMiss(a) \/ CheckPending(a)
       \/ ResolveGiven(a) \/ ResolveFound(a) \/ ResolveOpened(a)
       \/ RecordPatrimony(a) \/ RecordFinancial(a)
       \/ LinkPatrimony(a) \/ LinkFinancial(a) \/ Return(a)
       \/ StartVoid(a) \/ MarkVoided(a)
       \/ StartAmend(a) \/ OpenRevision(a) \/ RevisionCollides(a)
       \/ ListLegs(a) \/ SoftDelete(a) \/ SoftDeleteFails(a) \/ Swept(a)
       \/ ApplyNextLine(a) \/ EndOfChange(a)
       \/ Abort(a)
  \/ Quiet

Spec == Init /\ [][Next]_vars

(***************************************************************************)
(* Properties.                                                             *)
(***************************************************************************)

\* The live legs of a line that belongs to a note hang from a header of that
\* note, whoever else imports, voids or amends it meanwhile.
GatheredUnderNote ==
  \A l \in Live :
    SourceRef[l.line] # NoRef =>
      \E e \in events : e.id = l.event /\ e.ref = SourceRef[l.line]

\* A link joins a custody leg and a cash leg of the same line under the same
\* header: it never points into another import or an older revision.
LinksMatch ==
  \A k \in links :
    \E p, f \in legs :
      /\ {k[1], k[2]} = {p.id, f.id}
      /\ p.book = "patrimony" /\ f.book = "financial"
      /\ p.line = f.line /\ p.event = f.event

\* broker_note_ref is the idempotency key of the leg: a line fills each of its
\* slots at most once, however often the note is imported again, voided or
\* amended, and wherever a request stopped.  The slot of the pending leg is not
\* among those hasExistingByRef asks for: it is filled once as long as nothing
\* has stopped.
OneLegPerSlot ==
  \A l, m \in Live :
    /\ l.line = m.line /\ l.book = m.book /\ l.tag = m.tag
    /\ l.tag # "PENDING" \/ aborts = 0
    => l = m

\* When recordOperation returns, the deferred trades and the cash-only lines
\* have all their legs, even if an earlier import of them stopped half-way;
\* so has every line as long as no import has stopped.
ReturnedIsComplete ==
  \A a \in Agents :
    /\ IsAt(a, "returned")
    /\ job[a].line \in Deferred \cup CashOnly \/ aborts = 0
    => Complete(job[a].line)

\* When voidEvent or amendEvent has swept the old header, nothing is left
\* under it.
SweepIsComplete ==
  \A a \in Agents :
    IsAt(a, "swept") => LiveUnder(job[a].old) = {}

\* A deferred trade waits for its cash once, whatever stopped before
\* (ensurePendingFinancialLegForImportLine: idempotent, "nao duplica").
PendingOnce ==
  \A l, m \in Live : l.line = m.line /\ l.tag = "PENDING" /\ m.tag = "PENDING" => l = m

\* Trades move cash: when recordOperation returns, the custody leg and the
\* cash leg are both there (comment before the cash leg of a trade).
TradeHasCashLeg ==
  \A a \in Agents : IsAt(a, "returned") => Complete(job[a].line)

\* The legs of a voided header should have been reversed (issue text of
\* BusinessEventReconciler): none is live once nobody is working on it.
VoidedHeaderIsEmpty ==
  (\A a \in Agents : IsAt(a, "idle")) =>
    \A e \in voided : LiveUnder(e) = {}
=============================================================================
