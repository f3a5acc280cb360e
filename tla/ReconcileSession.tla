-------------------------- MODULE ReconcileSession --------------------------
(***************************************************************************)
(* ReconciliationSessionService in the notes phase: a user lays the broker *)
(* notes beside the ledger, settles the differences one by one and closes  *)
(* the days; closing a day materialises it and moves the trusted horizon.  *)
(* The ledger, the daily patrimony, the session row and the log are in the *)
(* database; the parsed files and the settled decisions (runtimeBySession) *)
(* are in the memory of the process.  A request reads, decides and writes  *)
(* in separate round trips, and nothing serialises two requests.           *)
(*                                                                         *)
(* A line is one trade of a ticker of its own, and the ledger holds legs   *)
(* of it: rows of custody, numbered as they are listed, in order of        *)
(* creation.  What an audit reads is one step.                             *)
(***************************************************************************)
EXTENDS Naturals, FiniteSets

CONSTANTS
  Agents,        (* requests under way at the same time                    *)
  Sessions,      (* session ids                                            *)
  LastDay,       (* the calendar of the files is 1..LastDay                *)
  FileLines, BookLines, (* trades in the notes; trades in the ledger       *)
  DayOf,         (* per line: the day of the trade                         *)
  LookAlikes,    (* per line of the notes: other trades that the dedup     *)
                 (* index takes for it (number of the note, cash, print)   *)
  Flaws,         (* [kind, on]: what the audit finds besides the trades    *)
  DatesAsText,   (* TRUE: a stored DATE is read back as text; FALSE: as a  *)
                 (* Date, whose String() does not begin with the ISO day   *)
  MaxAnswers,    (* bound: requests that answer a decision                 *)
  MaxEdits,      (* bound: trades entered or removed behind the session    *)
  MaxFailures,   (* bound: requests that throw after their first reads     *)
  MaxRestarts    (* bound: restarts of the process                         *)

Days == 1..LastDay
Lines == FileLines \cup BookLines
FlawKinds == {"orphan", "orphanCash", "unlinkedCash", "noLegs"}
\* What an insert that broke off leaves: a header without legs, or one whose
\* legs do not add up.
HalfKinds == {"noLegs", "legsDiffer"}

ASSUME LineAssumption ==
  /\ LastDay \in Nat \ {0} /\ DayOf \in [Lines -> Days]
  /\ LookAlikes \in [FileLines -> SUBSET Lines]
ASSUME FlawAssumption == Flaws \subseteq [kind : FlawKinds, on : Days]
ASSUME BoundAssumption ==
  /\ DatesAsText \in BOOLEAN
  /\ MaxAnswers \in Nat /\ MaxEdits \in Nat /\ MaxFailures \in Nat /\ MaxRestarts \in Nat

Leg == Lines \X Nat

Decision == [kind : {"file_only", "custody", "duplicate"} \cup HalfKinds, on : Lines]
       \cup [kind : {"ledger_only"}, on : Lines, leg : Nat]
       \cup [kind : FlawKinds \cup {"gap"}, on : Days]
Actions == {"insert", "void", "pair", "keep", "confirm", "defer"}
Answer == [on : Decision, action : Actions]
LeftOver(k) == [kind |-> "ledger_only", on |-> k[1], leg |-> k[2]]
Inserting(l) == [on |-> [kind |-> "file_only", on |-> l], action |-> "insert"]
Voiding(k) == [on |-> LeftOver(k), action |-> "void"]
Closing(d) == [on |-> [kind |-> "day", on |-> d], action |-> "close"]

\* One Map of answers per session and day, and one per request that found none.
MapIds == 1..(Cardinality(Sessions) * LastDay + Cardinality(Agents))
NoMap == 0

VARIABLES
  book,          (* legs of the ledger                                     *)
  issued,        (* per line: legs it ever had                             *)
  stale,         (* trades whose custody snapshot was left behind          *)
  flaws,         (* what is still wrong elsewhere in the books             *)
  daily,         (* days with a row in invest_portfolio_daily              *)
  row,           (* per session: its row in the database                   *)
  alive,         (* sessions in runtimeBySession                           *)
  mapOf,         (* resolvedByDay, per session and day                     *)
  heap,          (* what the Maps hold                                     *)
  log,           (* invest_reconciliation_day_log                          *)
  req,           (* per agent: where its request is                        *)
  overlapped,    (* history: lines two requests had in hand to insert      *)
  broken,        (* history: answers whose request broke off between the   *)
                 (* change of the books and its entry in the log           *)
  spent          (* answers, edits, failures and restarts so far           *)

books == <<book, issued, stale, flaws>>
memory == <<alive, mapOf, heap>>
history == <<overlapped, broken>>
vars == <<books, daily, row, memory, log, req, history, spent>>

Row == [status : {"none", "in_progress", "notes_complete"},
        horizon : 0..LastDay, closed : SUBSET Days]

Idle == [at |-> "idle"]

Request == {Idle}
  \cup [at : {"materialize", "read", "logClose"}, session : Sessions, day : Days]
  \cup [at : {"write"}, session : Sessions, day : Days, seen : SUBSET Days]
  \cup [at : {"decide"}, session : Sessions, day : Days, map : MapIds]
  \cup [at : {"apply", "book", "expect", "mark"}, session : Sessions, day : Days,
        map : MapIds, answer : Answer]
  \cup [at : {"look"}, session : Sessions, day : Days, map : MapIds, answer : Answer,
        index : SUBSET Lines]
  \cup [at : {"answered"}, session : Sessions, day : Days,
        reply : {"closed", "blocked", "error", "resolved"}]

LogEntry == [session : Sessions, day : Days, action : Answer \cup {Closing(d) : d \in Days}]

TypeOK ==
  /\ book \subseteq Leg /\ issued \in [Lines -> Nat] /\ stale \subseteq Lines
  /\ flaws \subseteq Flaws \cup [kind : HalfKinds, on : Lines]
  /\ daily \subseteq Days
  /\ row \in [Sessions -> Row] /\ alive \subseteq Sessions
  /\ mapOf \in [Sessions \X Days -> MapIds \cup {NoMap}]
  /\ heap \in [MapIds -> SUBSET Answer]
  /\ log \subseteq LogEntry
  /\ req \in [Agents -> Request]
  /\ overlapped \subseteq FileLines /\ broken \subseteq Answer
  /\ spent \in [answers : 0..MaxAnswers, edits : 0..MaxEdits,
                failures : 0..MaxFailures, restarts : 0..MaxRestarts]

Init ==
  /\ book = {<<l, 1>> : l \in BookLines} /\ stale = {} /\ flaws = Flaws /\ daily = {}
  /\ issued = [l \in Lines |-> IF l \in BookLines THEN 1 ELSE 0]
  /\ row = [s \in Sessions |-> [status |-> "none", horizon |-> 0, closed |-> {}]]
  /\ alive = {} /\ log = {}
  /\ mapOf = [k \in Sessions \X Days |-> NoMap]
  /\ heap = [m \in MapIds |-> {}]
  /\ req = [a \in Agents |-> Idle]
  /\ overlapped = {} /\ broken = {}
  /\ spent = [answers |-> 0, edits |-> 0, failures |-> 0, restarts |-> 0]

IsAt(a, point) == req[a].at = point
Set(a, r) == req' = [req EXCEPT ![a] = r]
Reply(a, s, d, r) == Set(a, [at |-> "answered", session |-> s, day |-> d, reply |-> r])
Spend(what, max) == spent[what] < max /\ spent' = [spent EXCEPT ![what] = @ + 1]

(***************************************************************************)
(* What getDay shows of a day.                                             *)
(***************************************************************************)

On(lines, d) == {l \in lines : DayOf[l] = d}

Booked == {k[1] : k \in book}

\* A line of the notes is matched with the first of its legs; every other leg
\* is left over.
Surplus ==
  {k \in book : k[1] \in FileLines => \E j \in book : j[1] = k[1] /\ j[2] < k[2]}

\* buildDayPreview: what is only in the notes and what is only in the ledger.
Preview(d) ==
  [kind : {"file_only"}, on : On(FileLines \ Booked, d)]
  \cup {LeftOver(k) : k \in {j \in Surplus : DayOf[j[1]] = d}}

FlawDay(f) == IF f.on \in Lines THEN DayOf[f.on] ELSE f.on

\* ReconciliationAuditService through day d.  Custody and gaps are looked at
\* once a day is closed; the custody snapshots know of every trade, the events
\* of those through d only.
Audit(s, d) ==
  {f \in flaws : FlawDay(f) <= d}
  \cup [kind : {"duplicate"},
        on : {k[1] : k \in {j \in book : \E k \in book : k[1] = j[1] /\ k # j /\ DayOf[k[1]] <= d}}]
  \cup IF row[s].horizon = 0 THEN {}
       ELSE [kind : {"custody"}, on : stale \cup {l \in Booked : DayOf[l] > d}]
            \cup [kind : {"gap"}, on : (1..row[s].horizon) \ daily]

Answers(s, d) == IF mapOf[s, d] = NoMap THEN {} ELSE heap[mapOf[s, d]]

\* mergePendingDecisions
Pending(s, d) == (Preview(d) \cup Audit(s, d)) \ {x.on : x \in Answers(s, d)}

Allowed(decision) ==
  CASE decision.kind = "file_only"                 -> {"insert", "defer"}
    [] decision.kind \in {"ledger_only", "unlinkedCash"} -> {"void", "pair", "defer"}
    [] decision.kind = "duplicate"                 -> {"keep", "void", "defer"}
    [] decision.kind \in {"orphan", "orphanCash"} \cup HalfKinds -> {"void", "defer"}
    [] decision.kind \in {"custody", "gap"}        -> {"confirm", "defer"}

\* The rows of the preview forgotten: every decision is answered, so close.
CanClose_AnswersOnly(s, d) == Pending(s, d) = {}

\* evaluateCanClose looks at the rows again, whatever was answered to them.
CanClose(s, d) == Pending(s, d) = {} /\ Preview(d) = {}

\* getDay returns: the files are in memory, and the horizon is a date that the
\* walk over the days up to it can reach.
Readable(s) == s \in alive /\ (DatesAsText \/ row[s].horizon = 0)

(***************************************************************************)
(* startSession and completePhase                                          *)
(***************************************************************************)

StartSession(s) ==
  /\ row[s].status = "none"
  /\ row' = [row EXCEPT ![s].status = "in_progress"]
  /\ alive' = alive \cup {s}
  /\ UNCHANGED <<books, daily, mapOf, heap, log, req, history, spent>>

\* Whatever the days of the session; a second call changes nothing more.
CompletePhase(s) ==
  /\ row[s].status = "in_progress"
  /\ row' = [row EXCEPT ![s].status = "notes_complete"]
  /\ UNCHANGED <<books, daily, memory, log, req, history, spent>>

(***************************************************************************)
(* closeDay                                                                *)
(***************************************************************************)

BeginClose(a) ==
  /\ IsAt(a, "idle")
  /\ \E s \in Sessions, d \in Days :
       /\ row[s].status # "none"
       /\ \/ ~Readable(s) /\ Reply(a, s, d, "error")
          \/ Readable(s) /\ ~CanClose(s, d) /\ Reply(a, s, d, "blocked")
          \/ /\ Readable(s) /\ CanClose(s, d)
             /\ Set(a, [at |-> "materialize", session |-> s, day |-> d])
  /\ UNCHANGED <<books, daily, row, memory, log, history, spent>>

\* materializeDay: the day and all later ones are invalidated, the day is
\* recorded again.
Materialize_Nothing(a) ==
  /\ IsAt(a, "materialize")
  /\ daily' = {d \in daily : d < req[a].day}
  /\ Set(a, [req[a] EXCEPT !.at = "read"])
  /\ UNCHANGED <<books, row, memory, log, history, spent>>

Materialize(a) ==
  /\ IsAt(a, "materialize")
  /\ daily' = {d \in daily : d < req[a].day} \cup {req[a].day}
  /\ Set(a, [req[a] EXCEPT !.at = "read"])
  /\ UNCHANGED <<books, row, memory, log, history, spent>>

\* It throws before the invalidation (quotes, conservation of the events),
\* after it (recordDay), or once the day is recorded (patrimony that does not
\* add up, custody, prices).
MaterializeFails(a) ==
  /\ IsAt(a, "materialize") /\ Spend("failures", MaxFailures)
  /\ LET earlier == {d \in daily : d < req[a].day}
     IN daily' \in {daily, earlier, earlier \cup {req[a].day}}
  /\ Reply(a, req[a].session, req[a].day, "error")
  /\ UNCHANGED <<books, row, memory, log, history>>

\* The progress not copied from the row: only this day is kept.
ReadProgress_Empty(a) ==
  /\ IsAt(a, "read")
  /\ Set(a, [at |-> "write", session |-> req[a].session, day |-> req[a].day, seen |-> {}])
  /\ UNCHANGED <<books, daily, row, memory, log, history, spent>>

ReadProgress(a) ==
  /\ IsAt(a, "read")
  /\ Set(a, [at |-> "write", session |-> req[a].session, day |-> req[a].day,
             seen |-> row[req[a].session].closed])
  /\ UNCHANGED <<books, daily, row, memory, log, history, spent>>

\* updateSession: one UPDATE, with no condition on what was read.
WriteProgress(a) ==
  /\ IsAt(a, "write")
  /\ row' = [row EXCEPT ![req[a].session].horizon = req[a].day,
                        ![req[a].session].closed = req[a].seen \cup {req[a].day}]
  /\ Set(a, [at |-> "logClose", session |-> req[a].session, day |-> req[a].day])
  /\ UNCHANGED <<books, daily, memory, log, history, spent>>

LogClose(a) ==
  /\ IsAt(a, "logClose")
  /\ log' = log \cup {[session |-> req[a].session, day |-> req[a].day,
                         action |-> Closing(req[a].day)]}
  /\ Reply(a, req[a].session, req[a].day, "closed")
  /\ UNCHANGED <<books, daily, row, memory, history, spent>>

(***************************************************************************)
(* resolveDecision                                                         *)
(***************************************************************************)

Applying == {"apply", "look", "book", "expect", "mark"}

Held == {mapOf[k] : k \in Sessions \X Days}
        \cup {req[a].map : a \in {b \in Agents : req[b].at \in {"decide"} \cup Applying}}

\* The Map of the day is fetched before the first await, or made anew.
BeginResolve(a) ==
  /\ IsAt(a, "idle") /\ Spend("answers", MaxAnswers)
  /\ \E s \in alive, d \in Days :
       LET new == CHOOSE m \in MapIds \ Held : \A n \in MapIds \ Held : m <= n
           map == IF mapOf[s, d] = NoMap THEN new ELSE mapOf[s, d]
       IN /\ Set(a, [at |-> "decide", session |-> s, day |-> d, map |-> map])
          /\ heap' = IF mapOf[s, d] = NoMap THEN [heap EXCEPT ![new] = {}] ELSE heap
  /\ UNCHANGED <<books, daily, row, alive, mapOf, log, history>>

Mark(r, answer) ==
  /\ heap' = [heap EXCEPT ![r.map] = @ \cup {answer}]
  /\ mapOf' = [mapOf EXCEPT ![<<r.session, r.day>>] = r.map]

\* The lines another request has in hand to insert and has not booked.
InHand(a) == {req[b].answer.on.on : b \in {c \in Agents \ {a} :
                req[c].at \in {"apply", "look", "book"} /\ req[c].answer.action = "insert"}}

\* The day is looked at; an answer that is not pending, or not allowed, is a
\* 400.  "defer" and "confirm" are marked at once and the request returns.
Decide(a) ==
  /\ IsAt(a, "decide")
  /\ LET r == req[a] IN
     IF Readable(r.session) /\ Pending(r.session, r.day) # {}
     THEN \E decision \in Pending(r.session, r.day) :
          \E action \in Allowed(decision) :
            LET answer == [on |-> decision, action |-> action] IN
            IF action \in {"defer", "confirm"}
            THEN /\ Mark(r, answer)
                 /\ Reply(a, r.session, r.day, "resolved")
                 /\ UNCHANGED overlapped
            ELSE /\ Set(a, [at |-> "apply", session |-> r.session, day |-> r.day,
                            map |-> r.map, answer |-> answer])
                 /\ overlapped' = overlapped \cup {l \in InHand(a) : answer = Inserting(l)}
                 /\ UNCHANGED <<mapOf, heap>>
     ELSE Reply(a, r.session, r.day, "error") /\ UNCHANGED <<mapOf, heap, overlapped>>
  /\ UNCHANGED <<books, daily, row, alive, log, broken, spent>>

(***************************************************************************)
(* The answer is applied: importEntriesOnly with the one line ...          *)
(***************************************************************************)

Target(a) == req[a].answer.on.on
NextLeg(l) == <<l, issued[l] + 1>>
At(a, point) == [at |-> point, session |-> req[a].session, day |-> req[a].day,
                 map |-> req[a].map, answer |-> req[a].answer]
SweptFrom(l) == {d \in daily : d < DayOf[l]}

\* buildLedgerDedupIndex.
ReadIndex(a) ==
  /\ IsAt(a, "apply") /\ req[a].answer.action = "insert"
  /\ Set(a, [at |-> "look", session |-> req[a].session, day |-> req[a].day,
             map |-> req[a].map, answer |-> req[a].answer, index |-> Booked])
  /\ UNCHANGED <<books, daily, row, memory, log, history, spent>>

\* recordOperation asks for the reference in the tables, then the index.
Known(a) ==
  \/ Target(a) \in Booked
  \/ ({Target(a)} \cup LookAlikes[Target(a)]) \cap req[a].index # {}

\* A line that was voided may be known by the cash leg it left.
LeftCash(a) == issued[Target(a)] > 0 /\ Target(a) \notin Booked

\* The line is skipped: nothing is booked, and the request goes on as if it
\* were.  What is there may be enriched, which sweeps the days.
Skip(a) ==
  /\ IsAt(a, "look") /\ (Known(a) \/ LeftCash(a))
  /\ daily' \in {daily, SweptFrom(Target(a))}
  /\ Set(a, At(a, "mark"))
  /\ UNCHANGED <<books, row, memory, log, history, spent>>

LookUp(a) ==
  /\ IsAt(a, "look") /\ ~Known(a)
  /\ Set(a, At(a, "book"))
  /\ UNCHANGED <<books, daily, row, memory, log, history, spent>>

\* The header, then the leg of custody: another may be there by now.
Book(a) ==
  /\ IsAt(a, "book")
  /\ book' = book \cup {NextLeg(Target(a))}
  /\ issued' = [issued EXCEPT ![Target(a)] = @ + 1]
  /\ flaws' = flaws \ {[kind |-> "noLegs", on |-> Target(a)]}
  /\ Set(a, At(a, "expect"))
  /\ UNCHANGED <<stale, daily, row, memory, log, history, spent>>

\* The snapshot, the cash leg and the links; then the days are swept.  Of two
\* snapshots written at once one is lost.
FinishInsert(a) ==
  /\ IsAt(a, "expect")
  /\ \E lost \in SUBSET (overlapped \cap {Target(a)}) :
       stale' = (stale \ {Target(a)}) \cup lost
  /\ daily' = SweptFrom(Target(a))
  /\ Set(a, At(a, "mark"))
  /\ UNCHANGED <<book, issued, flaws, row, memory, log, history, spent>>

(***************************************************************************)
(* ... or softDelete of the row the decision names, or nothing.            *)
(***************************************************************************)

\* The custody row the decision names is alive.
CustodyRowOf(x) ==
  \/ x.kind = "ledger_only" /\ <<x.on, x.leg>> \in book
  \/ x.kind = "orphan" /\ x \in flaws

\* void_ledger of a trade: softDelete of the custody row, and nothing more.
VoidTrade(a) ==
  /\ IsAt(a, "apply") /\ req[a].answer.action = "void"
  /\ req[a].answer.on.kind = "ledger_only"
  /\ CustodyRowOf(req[a].answer.on)
  /\ book' = book \ {<<Target(a), req[a].answer.on.leg>>}
  /\ stale' = stale \cup {Target(a)}
  /\ Set(a, At(a, "mark"))
  /\ UNCHANGED <<issued, flaws, daily, row, memory, log, history, spent>>

VoidOrphan(a) ==
  /\ IsAt(a, "apply") /\ req[a].answer.action = "void"
  /\ req[a].answer.on.kind = "orphan"
  /\ CustodyRowOf(req[a].answer.on)
  /\ flaws' = flaws \ {req[a].answer.on}
  /\ Set(a, At(a, "mark"))
  /\ UNCHANGED <<book, issued, stale, daily, row, memory, log, history, spent>>

\* The decisions of the audit that name no row.
WithoutRows == HalfKinds \cup {"duplicate"}

\* 404: the row is already deleted, or its key "fin:..." is no custody row.
VoidFails(a) ==
  /\ IsAt(a, "apply") /\ req[a].answer.action = "void"
  /\ req[a].answer.on.kind \notin WithoutRows
  /\ ~CustodyRowOf(req[a].answer.on)
  /\ Reply(a, req[a].session, req[a].day, "error")
  /\ UNCHANGED <<books, daily, row, memory, log, history, spent>>

\* pair_rows and keep_ledger_row, and void_ledger of a decision without rows,
\* only mark.
NothingToApply(a) ==
  \/ req[a].answer.action \in {"pair", "keep"}
  \/ req[a].answer.action = "void" /\ req[a].answer.on.kind \in WithoutRows

ApplyNothing(a) ==
  /\ IsAt(a, "apply") /\ NothingToApply(a)
  /\ Set(a, At(a, "mark"))
  /\ UNCHANGED <<books, daily, row, memory, log, history, spent>>

\* dayResolved.set, then appendDayLog.
MarkAndLog_Unlogged(a) ==
  /\ IsAt(a, "mark")
  /\ Mark(req[a], req[a].answer)
  /\ Reply(a, req[a].session, req[a].day, "resolved")
  /\ UNCHANGED <<books, daily, row, alive, log, history, spent>>

MarkAndLog(a) ==
  /\ IsAt(a, "mark")
  /\ Mark(req[a], req[a].answer)
  /\ log' = log \cup {[session |-> req[a].session, day |-> req[a].day, action |-> req[a].answer]}
  /\ Reply(a, req[a].session, req[a].day, "resolved")
  /\ UNCHANGED <<books, daily, row, alive, history, spent>>

(***************************************************************************)
(* A request throws.                                                       *)
(***************************************************************************)

\* Its answer has been applied and is not in the log.
Unlogged(a) == req[a].at \in {"expect", "mark"}

\* What an insert may leave when it stops between its writes: in the headers,
\* and a snapshot behind.
Half(a) ==
  CASE IsAt(a, "book")   -> {[kind |-> "noLegs", on |-> Target(a)]}
    [] IsAt(a, "expect") -> {[kind |-> "legsDiffer", on |-> Target(a)]}
    [] OTHER             -> {}
Behind(a) == IF IsAt(a, "expect") THEN {Target(a)} ELSE {}

BreakOff(agents) ==
  /\ \E left \in SUBSET UNION {Half(a) : a \in agents} : flaws' = flaws \cup left
  /\ \E late \in SUBSET UNION {Behind(a) : a \in agents} : stale' = stale \cup late
  /\ broken' = broken \cup {req[a].answer : a \in {b \in agents : Unlogged(b)}}
  /\ UNCHANGED <<book, issued, overlapped>>

\* At any of its awaits.  In front of the log the answer is already marked.
Throws(a) ==
  /\ req[a].at \in {"read", "write", "logClose"} \cup Applying
  /\ ~(IsAt(a, "apply") /\ NothingToApply(a))
  /\ Spend("failures", MaxFailures)
  /\ IF IsAt(a, "mark") THEN Mark(req[a], req[a].answer) ELSE UNCHANGED <<mapOf, heap>>
  /\ BreakOff({a})
  /\ Reply(a, req[a].session, req[a].day, "error")
  /\ UNCHANGED <<daily, row, alive, log>>

Respond(a) ==
  /\ IsAt(a, "answered")
  /\ Set(a, Idle)
  /\ UNCHANGED <<books, daily, row, memory, log, history, spent>>

(***************************************************************************)
(* What happens around the session.                                        *)
(***************************************************************************)

\* A trade is entered on another screen, which sweeps the days from its own on,
\* or voided, which sweeps none.
Edit ==
  /\ Spend("edits", MaxEdits)
  /\ \/ \E l \in Lines \ Booked :
          /\ book' = book \cup {NextLeg(l)} /\ issued' = [issued EXCEPT ![l] = @ + 1]
          /\ stale' = stale \ {l} /\ daily' = SweptFrom(l)
     \/ \E k \in book : book' = book \ {k} /\ UNCHANGED <<issued, stale, daily>>
  /\ UNCHANGED <<flaws, row, memory, log, req, history>>

\* Memory is lost, requests under way with it; the database stays as they left
\* it.
Restart ==
  /\ Spend("restarts", MaxRestarts)
  /\ alive' = {}
  /\ mapOf' = [k \in Sessions \X Days |-> NoMap]
  /\ heap' = [m \in MapIds |-> {}]
  /\ req' = [a \in Agents |-> Idle]
  /\ BreakOff(Agents)
  /\ UNCHANGED <<daily, row, log>>

Next ==
  \/ \E s \in Sessions : StartSession(s) \/ CompletePhase(s)
  \/ \E a \in Agents :
       \/ BeginClose(a) \/ Materialize(a) \/ MaterializeFails(a)
       \/ ReadProgress(a) \/ WriteProgress(a) \/ LogClose(a)
       \/ BeginResolve(a) \/ Decide(a)
       \/ ReadIndex(a) \/ Skip(a) \/ LookUp(a) \/ Book(a) \/ FinishInsert(a)
       \/ VoidTrade(a) \/ VoidOrphan(a) \/ VoidFails(a) \/ ApplyNothing(a)
       \/ MarkAndLog(a) \/ Throws(a) \/ Respond(a)
  \/ Edit \/ Restart

Spec == Init /\ [][Next]_vars

(***************************************************************************)
(* Properties.                                                             *)
(***************************************************************************)

AllIdle == \A a \in Agents : IsAt(a, "idle")

NewlyClosed(s) == row'[s].closed \ row[s].closed

\* What a day may show when it is written down as closed: no line of the notes
\* without a trade, and no trade without a line but a second leg of a line that
\* two requests inserted at once.
Tidy(d) == \A x \in Preview(d) : x.kind = "ledger_only" /\ x.on \in overlapped

\* A day is written down as closed only while its notes and its trades match
\* one to one, whatever was paired, deferred, confirmed or skipped as a
\* duplicate on the way, whichever insert broke off between its legs and
\* whoever else works on the session (document, part H).  Two requests that
\* insert one line at once may book it twice after the day was looked at.
ClosedDayWasClean == [][\A s \in Sessions : \A d \in NewlyClosed(s) : Tidy(d)]_vars

EnteredHere(l) == issued[l] > (IF l \in BookLines THEN 1 ELSE 0)
GoneFrom(l) == {n \in 1..issued[l] : <<l, n>> \notin book}
InLog(answer) == \E e \in log : e.action = answer

\* Every trade the session entered or voided has the answer that asked for it
\* in the log, or that request broke off, by an exception or a restart, after
\* it had changed the books and before it wrote the log (document, part H, but
\* for those that break off): whatever else fails, is skipped or is answered at
\* the same time, a request that returns leaves no change without its decision.
FinishedChangesAreLogged ==
  AllIdle =>
    \A l \in Lines :
      /\ EnteredHere(l) => InLog(Inserting(l)) \/ Inserting(l) \in broken
      /\ \A n \in GoneFrom(l) : InLog(Voiding(<<l, n>>)) \/ Voiding(<<l, n>>) \in broken

\* A day that was closed stays closed: a later close of the session never
\* drops it from progress_by_day (document, part H: two agents on one
\* session).
ClosedStaysClosed == [][\A s \in Sessions : row[s].closed \subseteq row'[s].closed]_vars

\* The horizon moves to a day only when that day has its row of patrimony,
\* whatever failed or restarted before.  A trade entered elsewhere sweeps days
\* and may come between.
CloseFollowsMaterialise ==
  [][\A s \in Sessions :
       row'[s].horizon # row[s].horizon /\ spent.edits = 0 => row'[s].horizon \in daily]_vars

(***************************************************************************)
(* What the documents say of a session and the code does not do: the       *)
(* configurations MCReconcileSession_* show how each of them fails.        *)
(***************************************************************************)

\* No day is written down as closed over a difference (document, part H), nor
\* over a trade that was booked twice.
ClosedDayWasOneToOne ==
  [][\A s \in Sessions : \A d \in NewlyClosed(s) : Preview(d) = {}]_vars

\* No change of the book without a recorded decision (document, part H).
BookChangesAreLogged ==
  AllIdle =>
    \A l \in Lines :
      /\ EnteredHere(l) => InLog(Inserting(l))
      /\ \A n \in GoneFrom(l) : InLog(Voiding(<<l, n>>))

\* closeDay has two answers: closed, or 409 with what is pending (document,
\* part E).
CloseAnswers ==
  \A a \in Agents : ~(IsAt(a, "answered") /\ req[a].reply = "error")

\* A session is stored so that work can be resumed: whoever opens a day of a
\* session that is in progress is shown it (document, part A.2).
SessionCanBeResumed ==
  \A s \in Sessions : row[s].status = "in_progress" => s \in alive

\* 409 comes with the divergences that still have no decision (document,
\* parts F and J.4): a day that cannot be closed has one.
BlockedDayHasWork ==
  \A s \in Sessions, d \in Days :
    Readable(s) /\ ~CanClose(s, d) => Pending(s, d) # {}

\* Deferring an issue never counts as having resolved it (document, part J.3):
\* no day is closed over an issue that was only deferred.
NoCloseOverDeferral ==
  [][\A s \in Sessions : \A d \in NewlyClosed(s) :
       \A x \in Answers(s, d) :
         x.action = "defer" => x.on \notin Preview(d) \cup Audit(s, d)]_vars

\* Every resolved decision is kept in user_decisions of the log (document,
\* part J.5).
AnswersAreLogged ==
  AllIdle =>
    \A s \in Sessions, d \in Days : \A x \in Answers(s, d) :
      [session |-> s, day |-> d, action |-> x] \in log

\* The user chooses one action per divergence (document, part J.1).
OneActionPerDecision ==
  \A e, f \in log :
    /\ e.session = f.session /\ e.day = f.day
    /\ e.action.on = f.action.on
    => e.action = f.action

\* Days are closed in order, so the trusted horizon only advances (document,
\* part A.1).
HorizonOnlyAdvances ==
  [][\A s \in Sessions : row[s].horizon <= row'[s].horizon]_vars

\* Phase 2 opens after all days of the notes are closed (document, part F).
NotesCompleteMeansClosed ==
  \A s \in Sessions : row[s].status = "notes_complete" => row[s].closed = Days

\* Closing a day materialises every day through it (document, part D).
MaterialisesThrough ==
  \A s \in Sessions : AllIdle => 1..row[s].horizon \subseteq daily
=============================================================================
