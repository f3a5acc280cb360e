---------------------------- MODULE PatrimonyDays ----------------------------
(***************************************************************************)
(* The recorded patrimony: one row of invest_portfolio_daily per day, with *)
(* its rows of invest_position_daily.  recordDay values the ledger up to a *)
(* day and chains the return to the row before it; rebuild sweeps the days *)
(* from a date on and records them again; an import adds lines and then    *)
(* sweeps; settlements, expected legs and amendments add and drop entries  *)
(* and sweep nothing.  What a row was valued from is kept as the set of    *)
(* entries it saw, its cumulative return as the sequence of the valuations *)
(* it was compounded over.  Every action is one round trip to the database.*)
(***************************************************************************)
EXTENDS Integers, FiniteSetsExt, SequencesExt

CONSTANTS
  Today,         (* days are 1..Today                                      *)
  Closed,        (* the weekend days and holidays among them               *)
  Entry,         (* entry -> [day, ticker, qty]                            *)
  Exact,         (* tickers whose quote must be of the very day            *)
  Opening,       (* opening date of the book period; 0: no book period     *)
  MaxAgents,     (* bound: jobs, of requests or of the night, at one time  *)
  MaxJobs,       (* bound: jobs in all                                     *)
  MaxTroubles    (* bound: unswept changes, calls that throw and crashes   *)

Days == 1..Today
Agents == 1..MaxAgents
Entries == DOMAIN Entry
Tickers == {Entry[e].ticker : e \in Entries}

ASSUME DayAssumption == Today \in Nat \ {0} /\ Closed \subseteq Days /\ Opening \in 0..Today
ASSUME EntryAssumption ==
  \A e \in Entries : Entry[e].day \in Days /\ Entry[e].qty \in Int \ {0}
ASSUME BoundAssumption == {MaxAgents, MaxJobs, MaxTroubles} \subseteq Nat

VARIABLES
  ledger,        (* the entries that are recorded and not deleted          *)
  loose,         (* those added or dropped by whoever sweeps nothing, since*)
                 (* their day was last swept                               *)
  rows,          (* day -> its rows of invest_portfolio_daily              *)
  positions,     (* day -> ticker -> the holding its position row values   *)
  quotes,        (* <<day, ticker>> with a quote of that day               *)
  rebuilding,    (* inProgress in statusByOrg, memory of the process       *)
  agent,
  apart,         (* no two jobs have run at one time                       *)
  jobs, unswept, troubles

ledgers == <<ledger, loose, quotes>>
store == <<rows, positions>>
bounds == <<jobs, unswept, troubles>>
vars == <<ledger, loose, rows, positions, quotes, rebuilding, agent, apart, jobs, unswept, troubles>>

Idle == [at |-> "idle"]
Ids == 1..(2 * MaxAgents + 1)
NoId == 0
Row == [id : Ids, seen : SUBSET Entries, chain : Seq([day : Days, seen : SUBSET Entries]),
        checked : BOOLEAN]
Points == {"line", "sweep", "sweep_positions", "read", "quotes", "before", "find", "write",
           "positions", "validate", "finish", "prices"}

TypeOK ==
  /\ ledger \subseteq Entries /\ loose \subseteq Entries
  /\ \A d \in Days : Cardinality(rows[d]) <= 1 /\ rows[d] \subseteq Row
  /\ positions \in [Days -> [Tickers -> SUBSET Entries]]
  /\ quotes \subseteq Days \X Tickers
  /\ rebuilding \in BOOLEAN /\ apart \in BOOLEAN
  /\ \A a \in Agents : agent[a] = Idle \/
       /\ agent[a].at \in Points /\ agent[a].job \in {"record", "materialise", "rebuild", "import"}
       /\ agent[a].day \in Days /\ agent[a].to \in Days
       /\ agent[a].seen \subseteq Entries /\ agent[a].id \in Ids \cup {NoId}
  /\ jobs \in 0..MaxJobs /\ unswept + troubles \in 0..MaxTroubles

Init ==
  /\ ledger = {} /\ loose = {} /\ quotes = {}
  /\ rows = [d \in Days |-> {}]
  /\ positions = [d \in Days |-> [t \in Tickers |-> {}]]
  /\ rebuilding = FALSE
  /\ agent = [a \in Agents |-> Idle]
  /\ apart = TRUE
  /\ jobs = 0 /\ unswept = 0 /\ troubles = 0

(***************************************************************************)
(* What a day is worth.                                                    *)
(***************************************************************************)

\* listLedgerEvents: from the opening of the book period up to a day.
UpTo(entries, d) == {e \in entries : Opening <= Entry[e].day /\ Entry[e].day <= d}

\* resolveInvestPeriodBounds: the first day the book can be valued.
PeriodMin(entries) ==
  IF Opening # 0 THEN Opening
  ELSE IF entries = {} THEN Today
  ELSE Min({Entry[e].day : e \in entries})

Holding(entries, t) == {e \in entries : Entry[e].ticker = t}
IsOpen(entries, t) == MapThenSumSet(LAMBDA e : Entry[e].qty, Holding(entries, t)) # 0

\* The rows snapshotOpenPositions yields.
Snapshot(entries) ==
  [t \in Tickers |-> IF IsOpen(entries, t) THEN Holding(entries, t) ELSE {}]

\* assertRequiredQuotesForBusinessDay
QuotesSuffice(entries, d) ==
  d \in Closed \/ \A t \in Exact \cap Tickers : IsOpen(entries, t) => <<d, t>> \in quotes

CanBeValued(entries, d) == QuotesSuffice(entries, d) /\ PeriodMin(entries) <= d

\* loadDayBefore: the last row recorded before a day, if there is one.
RowsBefore(d) == UNION {rows[x] : x \in {y \in Days : y < d /\ rows[y] # {}
                                          /\ \A z \in Days : y < z /\ z < d => rows[z] = {}}}

\* The return is compounded on the row before if that one is worth anything.
Chain(before, d, entries) ==
  LET point == <<[day |-> d, seen |-> entries]>>
  IN  IF \E r \in before : r.seen # {} THEN (CHOOSE r \in before : TRUE).chain \o point ELSE point

(***************************************************************************)
(* Jobs.                                                                   *)
(***************************************************************************)

At(a, p) == agent[a].at = p
Go(a, p) == agent' = [agent EXCEPT ![a].at = p]
Others(a) == {b \in Agents \ {a} : ~At(b, "idle")}

\* A rebuild is the only one at work until a job starts beside it or the
\* ledger or the quotes change under it.
Disturb(work) == IF work = Idle THEN Idle ELSE [work EXCEPT !.sole = FALSE]
Disturbed(except) == [b \in Agents |-> IF b \in except THEN agent[b] ELSE Disturb(agent[b])]

Job(a, name, p, from, to, lines) ==
  [at |-> p, job |-> name, from |-> from, day |-> from, to |-> to, seen |-> {}, before |-> {},
   id |-> NoId, lines |-> lines, inserted |-> FALSE, sole |-> name = "rebuild" /\ Others(a) = {}]

Start(a, job) ==
  /\ At(a, "idle") /\ jobs < MaxJobs
  /\ \A b \in 1..(a - 1) : ~At(b, "idle")
  /\ jobs' = jobs + 1
  /\ agent' = [Disturbed({a}) EXCEPT ![a] = job]
  /\ apart' = (apart /\ Others(a) = {})
  /\ UNCHANGED <<ledgers, store, unswept, troubles>>

\* recordPatrimonyDaily and the nightly runInvestDailyCloseForOrg.
StartRecord(a, d) ==
  Start(a, Job(a, "record", "read", d, d, {})) /\ UNCHANGED rebuilding

\* materializeDay: quotes, then the sweep, then recordDay.
StartMaterialise(a, d) ==
  Start(a, Job(a, "materialise", "sweep", d, d, {})) /\ UNCHANGED rebuilding

\* importPortfolio, importOpeningOnly and importEntriesOnly; the sweep starts
\* at the first day among all the lines.
StartImport(a, lines) ==
  /\ Start(a, Job(a, "import", "line", Min({Entry[e].day : e \in lines}), Today, lines))
  /\ UNCHANGED rebuilding

\* clampDate
Clamp(x, low, high) == IF x < low THEN low ELSE IF x > high THEN high ELSE x

\* rebuild: the range asked for, within the period and the last quote.
LastTrusted == IF quotes = {} THEN Today ELSE Max({q[1] : q \in quotes})

StartRebuild(a, from, to) ==
  LET min == PeriodMin(UpTo(ledger, Today))
      max == Max({LastTrusted, min})
      first == Clamp(from, min, max)
  IN  /\ Start(a, Job(a, "rebuild", "sweep", first, Clamp(to, first, max), {}))
      /\ rebuilding' = TRUE

(***************************************************************************)
(* invalidateFromDate: one DELETE per table.                               *)
(***************************************************************************)

\* The next day rebuild records; when there is none, custody and prices.
\* Mutation: the range without its last day.
Following_ShortOfLast(a) == {d \in Days \ Closed : agent[a].day <= d /\ d < agent[a].to}

Following(a) == {d \in Days \ Closed : agent[a].day <= d /\ d <= agent[a].to}

Visit(a, days) ==
  LET rested == [agent[a] EXCEPT !.seen = {}, !.id = NoId, !.before = {}]
  IN  IF days = {} THEN [rested EXCEPT !.at = "prices"]
      ELSE [rested EXCEPT !.at = "read", !.day = Min(days)]

\* What follows the sweep.
Swept(a) ==
  CASE agent[a].job = "import" -> Idle
    [] agent[a].job = "materialise" -> [agent[a] EXCEPT !.at = "read"]
    [] agent[a].job = "rebuild" -> Visit(a, Following(a))

\* Mutation: the day itself is kept.
Sweep_KeepsDay(a) ==
  /\ At(a, "sweep") /\ Go(a, "sweep_positions")
  /\ rows' = [d \in Days |-> IF d > agent[a].from THEN {} ELSE rows[d]]
  /\ loose' = {e \in loose : Entry[e].day < agent[a].from}
  /\ UNCHANGED <<ledger, quotes, positions, rebuilding, apart, bounds>>

Sweep(a) ==
  /\ At(a, "sweep") /\ Go(a, "sweep_positions")
  /\ rows' = [d \in Days |-> IF d >= agent[a].from THEN {} ELSE rows[d]]
  /\ loose' = {e \in loose : Entry[e].day < agent[a].from}
  /\ UNCHANGED <<ledger, quotes, positions, rebuilding, apart, bounds>>

SweepPositions(a) ==
  /\ At(a, "sweep_positions") /\ agent' = [agent EXCEPT ![a] = Swept(a)]
  /\ positions' = [d \in Days |-> IF d >= agent[a].from THEN [t \in Tickers |-> {}] ELSE positions[d]]
  /\ UNCHANGED <<ledgers, rows, rebuilding, apart, bounds>>

(***************************************************************************)
(* An import: line by line, then the sweep if a line was inserted.         *)
(***************************************************************************)

RecordLine(a, e) ==
  /\ At(a, "line") /\ e \in agent[a].lines
  /\ ledger' = ledger \cup {e}
  /\ agent' = [(IF e \in ledger THEN agent ELSE Disturbed({a})) EXCEPT
                 ![a].lines = @ \ {e}, ![a].inserted = @ \/ e \notin ledger]
  /\ UNCHANGED <<loose, quotes, store, rebuilding, apart, bounds>>

LinesDone(a) ==
  /\ At(a, "line") /\ agent[a].lines = {}
  /\ agent' = [agent EXCEPT ![a] = IF @.inserted THEN [@ EXCEPT !.at = "sweep"] ELSE Idle]
  /\ UNCHANGED <<ledgers, store, rebuilding, apart, bounds>>

(***************************************************************************)
(* recordDay and upsertPortfolioDay.                                       *)
(***************************************************************************)

\* A day that throws is counted as skipped by rebuild and ends other jobs.
Failed(a) ==
  IF agent[a].job = "rebuild" THEN Visit(a, Following(a) \ {agent[a].day}) ELSE Idle
DayFails(a) == agent' = [agent EXCEPT ![a] = Failed(a)]

DayDone(a) ==
  agent' = [agent EXCEPT ![a] =
    CASE @.job = "rebuild" -> Visit(a, Following(a) \ {@.day})
      [] @.job = "materialise" -> [@ EXCEPT !.at = "prices"]
      [] @.job = "record" -> Idle]

ReadLedger(a) ==
  /\ At(a, "read")
  /\ agent' = [agent EXCEPT ![a].seen = UpTo(ledger, agent[a].day), ![a].at = "quotes"]
  /\ UNCHANGED <<ledgers, store, rebuilding, apart, bounds>>

ReadQuotes(a) ==
  /\ At(a, "quotes")
  /\ IF CanBeValued(agent[a].seen, agent[a].day) THEN Go(a, "before") ELSE DayFails(a)
  /\ UNCHANGED <<ledgers, store, rebuilding, apart, bounds>>

LoadDayBefore(a) ==
  /\ At(a, "before")
  /\ agent' = [agent EXCEPT ![a].before = RowsBefore(agent[a].day), ![a].at = "find"]
  /\ UNCHANGED <<ledgers, store, rebuilding, apart, bounds>>

FindRow(a) ==
  /\ At(a, "find")
  /\ agent' = [agent EXCEPT ![a].id = IF rows[agent[a].day] = {} THEN NoId
                                      ELSE (CHOOSE r \in rows[agent[a].day] : TRUE).id,
                            ![a].at = "write"]
  /\ UNCHANGED <<ledgers, store, rebuilding, apart, bounds>>

\* A UUID nobody holds.
FreshId == Min(Ids \ ({r.id : r \in UNION {rows[d] : d \in Days}}
                      \cup {agent[b].id : b \in {c \in Agents : ~At(c, "idle")}}))

Valued(a, id) ==
  [id |-> id, seen |-> agent[a].seen,
   chain |-> Chain(agent[a].before, agent[a].day, agent[a].seen), checked |-> FALSE]

\* The row goes in before its positions, its metadata without the verdict.
\* An insert next to a row of the same day breaks the unique key, an update
\* of a row that is gone is refused by the gateway.
WriteRow(a) ==
  LET d == agent[a].day
      mine == {r \in rows[d] : r.id = agent[a].id}
  IN  /\ At(a, "write")
      /\ \/ /\ agent[a].id = NoId /\ rows[d] = {}
            /\ rows' = [rows EXCEPT ![d] = {Valued(a, FreshId)}]
            /\ agent' = [agent EXCEPT ![a].id = FreshId, ![a].before = {}, ![a].at = "positions"]
         \/ /\ mine # {}
            /\ rows' = [rows EXCEPT ![d] = {Valued(a, agent[a].id)}]
            /\ agent' = [agent EXCEPT ![a].before = {}, ![a].at = "positions"]
         \/ /\ mine = {} /\ (agent[a].id = NoId => rows[d] # {})
            /\ DayFails(a) /\ UNCHANGED rows
      /\ UNCHANGED <<ledgers, positions, rebuilding, apart, bounds>>

\* upsertPositionDailyRows writes the open positions and removes nothing.
WritePositions(a) ==
  LET snapshot == Snapshot(agent[a].seen)
  IN  /\ At(a, "positions") /\ Go(a, "validate")
      /\ positions' = [positions EXCEPT ![agent[a].day] =
                         [t \in Tickers |-> IF snapshot[t] # {} THEN snapshot[t] ELSE @[t]]]
      /\ UNCHANGED <<ledgers, rows, rebuilding, apart, bounds>>

\* validatePositionDailyConsistency: the rows of the day are added up, a
\* position nobody holds any more among them.
AddsUp(d, entries) == positions[d] = Snapshot(entries)

\* Mutation: a divergence is reported and the day goes on.
Validate_Warns(a) ==
  /\ At(a, "validate") /\ Go(a, "finish")
  /\ UNCHANGED <<ledgers, store, rebuilding, apart, bounds>>

Validate(a) ==
  /\ At(a, "validate")
  /\ IF AddsUp(agent[a].day, agent[a].seen) THEN Go(a, "finish") ELSE DayFails(a)
  /\ UNCHANGED <<ledgers, store, rebuilding, apart, bounds>>

\* The verdict goes into the metadata of the row.
Finish(a) ==
  LET mine == {r \in rows[agent[a].day] : r.id = agent[a].id}
  IN  /\ At(a, "finish")
      /\ rows' = [rows EXCEPT ![agent[a].day] =
                    (@ \ mine) \cup {[r EXCEPT !.checked = TRUE] : r \in mine}]
      /\ IF mine = {} THEN DayFails(a) ELSE DayDone(a)
      /\ UNCHANGED <<ledgers, positions, rebuilding, apart, bounds>>

\* Custody and the three prices close a rebuild and a materialised day.
\* Mutation: whoever ends resets nothing.
Prices_StatusStays(a) ==
  /\ At(a, "prices") /\ agent' = [agent EXCEPT ![a] = Idle]
  /\ UNCHANGED <<ledgers, store, rebuilding, apart, bounds>>

Prices(a) ==
  /\ At(a, "prices") /\ agent' = [agent EXCEPT ![a] = Idle]
  /\ rebuilding' = (rebuilding /\ agent[a].job # "rebuild")
  /\ UNCHANGED <<ledgers, store, apart, bounds>>

(***************************************************************************)
(* What else happens.                                                      *)
(***************************************************************************)

\* syncFromBrapi saves a quote.
QuoteArrives(d, t) ==
  /\ <<d, t>> \notin quotes
  /\ quotes' = quotes \cup {<<d, t>>}
  /\ agent' = Disturbed({})
  /\ UNCHANGED <<ledger, loose, store, rebuilding, apart, bounds>>

\* The ledger changes and whoever changes it sweeps no day.
Unswept(e) ==
  /\ unswept + troubles < MaxTroubles
  /\ unswept' = unswept + 1 /\ loose' = loose \cup {e}
  /\ agent' = Disturbed({})
  /\ UNCHANGED <<quotes, store, rebuilding, apart, jobs, troubles>>

\* The cleared row of a LIQ BOLSA settlement, the pending row a backfill or
\* syncAutoPendingSettlements adds, the legs an amendment records again.
Add(e) == e \notin ledger /\ ledger' = ledger \cup {e} /\ Unswept(e)

\* An event is voided or amended and its legs go; a settlement or
\* syncAutoPendingSettlements cancels a pending row.
Drop(e) == e \in ledger /\ ledger' = ledger \ {e} /\ Unswept(e)

\* A call to the database throws.  A failed sweep is only logged; a failed
\* day is skipped by rebuild; anything else ends the job.
Throw(a) ==
  /\ ~At(a, "idle") /\ unswept + troubles < MaxTroubles
  /\ troubles' = troubles + 1
  /\ agent' = [agent EXCEPT ![a] = Disturb(
       CASE @.at \in {"sweep", "sweep_positions"} -> Swept(a)
         [] @.at \in {"line", "prices"} -> Idle
         [] OTHER -> Failed(a))]
  /\ rebuilding' = (rebuilding /\ ~(At(a, "prices") /\ agent[a].job = "rebuild"))
  /\ UNCHANGED <<ledgers, store, apart, jobs, unswept>>

\* The process stops and takes statusByOrg with it.
Crash ==
  /\ \E a \in Agents : ~At(a, "idle")
  /\ unswept + troubles < MaxTroubles
  /\ troubles' = troubles + 1
  /\ agent' = [a \in Agents |-> Idle] /\ rebuilding' = FALSE
  /\ UNCHANGED <<ledgers, store, apart, jobs, unswept>>

Work(a) ==
  \/ (\E e \in Entries : RecordLine(a, e)) \/ LinesDone(a)
  \/ Sweep(a) \/ SweepPositions(a)
  \/ ReadLedger(a) \/ ReadQuotes(a) \/ LoadDayBefore(a) \/ FindRow(a)
  \/ WriteRow(a) \/ WritePositions(a) \/ Validate(a) \/ Finish(a) \/ Prices(a)

Next ==
  \/ \E a \in Agents :
       \/ Work(a) \/ Throw(a)
       \/ \E d \in Days : StartRecord(a, d) \/ StartMaterialise(a, d)
       \/ \E from, to \in Days : from <= to /\ StartRebuild(a, from, to)
       \/ \E lines \in (SUBSET Entries) \ {{}} : StartImport(a, lines)
  \/ \E d \in Days, t \in Exact : QuoteArrives(d, t)
  \/ \E e \in Entries : Add(e) \/ Drop(e)
  \/ Crash

Spec == Init /\ [][Next]_vars

(***************************************************************************)
(* Properties.                                                             *)
(***************************************************************************)

AllIdle == \A a \in Agents : At(a, "idle")

\* What was seen of a day is what the ledger says up to it, but for entries
\* that came or went with no sweep.
Follows(seen, d) == SymDiff(seen, UpTo(ledger, d)) \subseteq UpTo(loose, d)

\* Jobs one after the other, none of which threw: every recorded day is worth
\* what the ledger says up to that day, back-dated imports between two
\* recordings included; it is stale by no entry but those that a settlement,
\* a backfill or an amendment changed since the day was last swept.
RowsFollowLedger ==
  apart /\ troubles = 0 /\ AllIdle =>
    \A d \in Days : \A r \in rows[d] : Follows(r.seen, d)

\* One job at a time, whatever threw, stopped or was dropped before: a row
\* that carries the verdict of the check adds up to its positions.
CheckedRowAddsUp ==
  apart => \A d \in Days : \A r \in rows[d] : r.checked => AddsUp(d, r.seen)

\* A rebuild nobody disturbed repairs its days whatever was stored before:
\* each business day that can be valued follows the ledger, adds up to its
\* positions and compounds on the row before it, and no other row is left
\* from its first day on.
Repaired(a, d) ==
  LET seen == UpTo(ledger, d)
  IN  IF agent[a].to < d \/ d \in Closed \/ ~CanBeValued(seen, d) THEN rows[d] = {}
      ELSE /\ AddsUp(d, seen)
           /\ \E r \in rows[d] :
                r.seen = seen /\ r.checked /\ r.chain = Chain(RowsBefore(d), d, seen)

RebuildRepairs ==
  \A a \in Agents :
    At(a, "prices") /\ agent[a].job = "rebuild" /\ agent[a].sole =>
      \A d \in agent[a].from..Today : Repaired(a, d)

\* Whoever polls getStatus is not left waiting: the status says "in progress"
\* only while a rebuild is at work, though days, sweeps or the last step
\* throw, rebuilds overlap or the process restarts.
NobodyWaitsForNothing ==
  rebuilding => \E a \in Agents : ~At(a, "idle") /\ agent[a].job = "rebuild"

\* The status says that a rebuild is running as long as one is.
StatusTellsOfRebuild ==
  (\E a \in Agents : ~At(a, "idle") /\ agent[a].job = "rebuild") => rebuilding

\* Jobs one after the other leave no day that follows a ledger that is gone.
NoStaleDay ==
  apart /\ troubles = 0 /\ AllIdle =>
    \A d \in Days : \A r \in rows[d] : r.seen = UpTo(ledger, d)

\* Nor do jobs that overlap, as long as every change is swept.
NoStaleDayBeside ==
  troubles = 0 /\ AllIdle => \A d \in Days : \A r \in rows[d] : Follows(r.seen, d)

\* An import that ends leaves no stale day from its first line on.
ImportLeavesNoStaleDay ==
  [][\A a \in Agents :
       LinesDone(a) /\ unswept = 0 /\ apart =>
         At(a, "sweep")' \/ \A d \in agent[a].from..Today : \A r \in rows[d] : r.seen = UpTo(ledger, d)]_vars

\* Each row's return compounds on the row before it.
ChainIsUnbroken ==
  apart /\ troubles = 0 /\ unswept = 0 /\ AllIdle =>
    \A d \in Days : \A r \in rows[d] : r.chain = Chain(RowsBefore(d), d, r.seen)
=============================================================================
