# The books of a portfolio, specified

TLA+ specifications of the part of *co-ceo-platform* that keeps the books of an
investment portfolio: the headers of operations, the custody and cash legs under
them, the positions that follow from the legs, the imports that fill the books and
settle what they expect, the recorded patrimony of each day, and the sessions and
monthly closes in which the books are reconciled with the broker's papers. The repository is a TypeScript
server on MySQL (`src/src/core`, `src/src/modules`) with a frontend
(`src/frontend`), tests (`src/tests`) and documents (`src/docs`). Paths below
are relative to the directory that holds `src/`.

The server never opens a transaction around an operation of the portfolio and
locks nothing: each `await` on the gateway is a statement of its own. Nearly
everything that can go wrong lies between two awaits, in what another request or a
restart does there. The specifications therefore take one step per await.

    tlc -workers 2 -config MCBusinessEvents.cfg MCBusinessEvents
    tlapm BusinessEvents_proofs.tla
    tlapm InvestOperations_proofs.tla
    tlapm NoteImport_proofs.tla
    tlapm MonthlyClose_proofs.tla
    tlapm ReconcileSession_proofs.tla
    tlapm PatrimonyDays_proofs.tla

## 1. Inventory

| Component | State | Operations | Talks to |
|---|---|---|---|
| Business event registry (`core/business-events/BusinessEventRegistry.ts`) | `business_events`: headers with `source_ref`, `revision_no`, `supersedes_event_id`, `voided_at` | `create`, `ensureByRef`, `amend`, `voidEvent`, `findHead`, `listRevisions`, `listLegs` | gateway; called by portfolio operations |
| Portfolio operations (`modules/invest/InvestOperations.ts`) | none of its own; writes both ledgers and the links | `recordOperation`, `voidEvent`, `amendEvent`, backfill of pending cash | registry, both ledgers, inventory |
| Position ledger (`core/inventory/InventoryLedger.ts`, `InventoryRegistry.ts`) | `patrimony_ledger_entries`; `patrimony_items` as the snapshot | `recordMovement`, `rebuildAndPersist`, `ensure` | valuation rules, gateway |
| Valuation rules (`core/inventory/valuation/*`) | none: a function of position and movement | `applyMovement` | called by the ledger for each row |
| Cash ledger (`core/financial/*`) | `financial_ledger_entries`, account balances | `record`, settle, link to custody | called by portfolio operations |
| Reconciliation session (`core/invest/reconcile/ReconciliationSession*.ts`) | `invest_reconciliation_sessions` (horizon, `progress_by_day`), the day log; in memory the parsed files and the answers | `startSession`, `getDay`, `resolveDecision`, `closeDay`, `completePhase` | ledger import, audit, materialisation |
| Reconciliation audit and diagnostics | none | reads the books and lists what does not add up | called by the session |
| Day materialisation (`DailyCloseMaterializeService.ts`, `PatrimonyDaily*.ts`, `investDailyCloseService.ts`) | `invest_portfolio_daily`, `invest_position_daily`; in memory the status of the last rebuild | sweep from a day on, record a day, rebuild a range | ledgers and quotes; called by imports, the nightly job, the session and the monthly close |
| Monthly close, "option C" (`OptionCDailyCloseOrchestrator.ts`, the loop in `ReconcileController.ts`) | a run in memory with a copy in `invest_reconcile_runs` | start, close next day, run all, poll | import, materialisation |
| Ledger import and deduplication (`LedgerImportService.ts`, `ledgerOperationDedup.ts`, `btgUploadImportService.ts`) | an index of the book per import | import lines, skip known ones, make up for expected cash | portfolio operations, materialisation |
| LIQ BOLSA settlement (`LiqBolsaSettlementService.ts`) | pending and cleared rows of `financial_ledger_entries` | pair pending legs with extract lines, confirm, cancel, preview | cash ledger, called by the imports of extracts |
| Data gateway and storage meter (`core/dal/*`, `gateway/*`) | every table; bytes used per organisation | `findWhere`, `insert`, `update`, `softDelete` | MySQL |
| Event bus, scheduled jobs, market data | handlers in memory; quotes; job monitor | publish; synchronise quotes | providers |
| Parsers, controllers, authentication, user interface | - | text extraction, HTTP, look-ups | - |

What is hard here, per component, and what makes it correct:

* **Registry.** `ensureByRef` and `amend` read and then insert; only the UNIQUE key
  stands between two callers. Correct when revisions are unique, chained, without
  rivals, and all who ask for a reference hold one header.
* **Portfolio operations.** A line is a header, two legs and two links in up to five
  transactions. Correct when a line fills each slot once, an import that stopped is
  healed by the next, legs stay within their note, links within one import, and a
  sweep leaves nothing behind.
* **Positions.** Replay, insert and snapshot are three round trips, and the order of
  the rows matters. Correct when the snapshot is the replay of the live rows, a
  rebuild restores it, and the status says whether something is held.
* **Valuation.** Long lives of a position across zero. Correct when the average price
  stays within the prices of the lot, cost is quantity at that price, and no
  movement towards zero moves the price.
* **Imports of notes.** The index of what is known is read before the first line and
  matches by reference, note number, cash and print. Correct when a trade is booked
  once and its cash expected once, and a line of a finished file is never without
  its expected cash, however often the file is sent.
* **Settlement.** One line pays several notes, found by a subset sum; row and
  cancelled legs are two writes. Correct when no expectation is given up before its
  cash is in the books, none is counted beside it once the import is through, and
  the preview shows what the settlement will do.
* **Days.** Five kinds of callers sweep and draw the same rows over many awaits.
  Correct when no day outlives the ledger it was drawn from, a checked row adds up
  with its positions, and a rebuild mends its range.
* **Monthly close.** A Map in memory, a best-effort copy, a loop nobody waits for,
  clients that call the same step. Correct when months are taken in order, a done
  run has written and drawn what it says, and the loop ends with a verdict.
* **Sessions.** State in memory and in the database, long checks before writes, several
  users. Correct when closed days stay closed, a day is closed only while notes and
  trades match, the horizon follows materialisation, and changes are logged.

`PROJECT.json` lists every component with its status and every hazard at its line.

## 2. Modules

| Module | Models | State and actions against the code |
|---|---|---|
| `EventBook` | what the registry promises | `events`, `voided` are the rows; `answers` is what `ensureByRef` has handed out. `Open`, `Revise`, `Tell`, `Annul` are whole operations. |
| `BusinessEvents` | `BusinessEventRegistry`, await by await | `call[c]` is where caller *c* is inside `create`. `EnsureFinds`, `EnsureMisses` and `AmendReads` are the reads, `Insert` and `InsertCollides` the INSERT and its `ER_DUP_ENTRY`, `ReadBack` the `findById` after it. `ImplementsBook`: every step is one of `EventBook` or a stutter. |
| `BusinessEvents_proofs` | - | the theorems of section 5 |
| `InvestOperations` | `recordOperation`, `voidEvent`, `amendEvent` | `legs` holds the rows of both ledgers, `dropped` their `deleted_at`, `links` the two cross-reference columns. `job[a]` is where a request is; `Abort` is an exception or a restart between two writes. Composed with `EventBook`, one step per promise. |
| `InvestOperations_proofs` | - | the theorems of section 5 |
| `Valuation` | `applyMovement` of both strategies | pure operators, one per early return of the code |
| `PositionLife` | a position under any sequence of movements | `position` is the code's; `lot` and `plain` remember its history and are read by properties only |
| `InventoryLedger` | `InventoryLedger` and the callers that remove or change rows | `entries`/`deleted` are rows, `item` the snapshot. `LoadLedger`, `InsertEntry`, `UpdateSnapshot` are the three trips of `recordMovement`; `Rebuild`, `StoreRebuilt` those of `rebuildAndPersist`. Composed with `Valuation`. |
| `Positions_proofs` | - | the theorems of section 5 about `PositionLife` and `InventoryLedger` |
| `ReconcileSession` | `ReconciliationSessionService` in the notes phase, its store, audit, materialisation | `book` (custody legs), `stale`, `flaws` are the books as the session sees them, `row`/`log` its tables, `alive`/`mapOf`/`heap` the Maps of `runtimeBySession`. `req[a]` is where a request is: an insert goes through `ReadIndex`, `Skip` or `LookUp`, `Book`, `FinishInsert`, a void through `VoidTrade` or `VoidOrphan`, both through `MarkAndLog`; `Throws` is an exception at any of these awaits. |
| `ReconcileSession_proofs` | - | the theorems of section 5 |
| `MonthSchedule` | what "month by month" promises | `index`, `kept`, `skipped`, `closed`; `orderly` while one caller at a time drives the run in one process |
| `MonthlyClose` | `OptionCDailyCloseOrchestrator`, the loop of the controller, the saved row | `run` is `runsById`, `row` the table, `late` an upsert nobody waited for, `imports` the extracts that are in the ledger, `noted` the months with all of their notes there. `call[c]` is where `closeNextDay` is: quotes, custody, import, fold, draw, then the final rebuild and report. `StepThrows`, `ImportThrows` are exceptions of what is awaited, `Restart` empties the Map, `Restore` is `getRunWithFallback`. `FollowsSchedule`: it implements `MonthSchedule`. |
| `MonthlyClose_proofs` | - | the theorems of section 5 |
| `NoteImport` | `applyBtgBrokerageUpload`, `importEntriesOnly`, `ledgerOperationDedup`, `recordOperation` with an index, the backfill | `custody`, `expected`, `cash` are rows per line. `job[a]` is an upload: files, lines to come, the index. `ReadCustody`, `ReadCash` are the two queries of the index, `Look` the two look-ups of a line, `Book` and `Expect` its two writes, `CheckExpected` and `Fill` those of a known line. |
| `NoteImport_proofs` | - | the theorems of section 5 |
| `CashSettlement` | `LiqBolsaSettlementService` within `settleLiqBolsaEntries` | `leg` is the status of the pending rows, `cleared` the rows that confirm them. `CheckExisting`, `Fetch`, `CheckRef`, `Insert`, `Cancel` are the round trips of `settle` for one line. |
| `CashSettlement_proofs` | - | the theorems of section 5 |
| `PatrimonyDays` | `recordDay`, `invalidateFromDate`, `upsertPortfolioDay`, the rebuild and its callers | `rows` and `positions` are the two tables; a row remembers the entries it saw and the chain of valuations its return is compounded over. `Sweep` to `Finish` are the round trips of one day, `Prices` the end of a rebuild. `Add` and `Drop` are the changes of the ledger nobody sweeps after, `loose` the entries they concern. |
| `PatrimonyDays_proofs` | - | the theorems of section 5 |
| `MC*` | - | values for the constants, symmetry |

Operators named `Def_Something` or `X_Def` next to a `Def` are the same operation with a
plausible mistake in it. No specification uses them; they exist to show that each
property notices such a mistake.

### Abstractions that matter

* Ids, references, lines and agents are model values; amounts are small integers.
  `Valuation` divides exactly and TLC stops on a division that does not come out
  even, so no result depends on rounding. Rounding of decimals is not modelled.
* `InvestOperations` models `recordOperation` as called without a `dedupIndex`. A line is
  its own `broker_note_ref`; legs carry the code's tags (`:CASH`, `:PENDING`, none).
  Repair of metadata on a known line has no effect on legs and is left out; its
  effect on quantities is `RepairEntry` of `InventoryLedger`. `StartAmend` takes lines of the
  amended note; `amendEvent` itself (`InvestOperations.ts:1652`, `:1710`) re-records whatever
  lines its caller gives and checks none of them, so `GatheredUnderNote` is about callers that
  keep to the note.
* In `BusinessEvents` a revision has the reference of the header it corrects (`AmendedRow`). The
  header patch of `amendEvent` may carry another `sourceRef` (`InvestOperations.ts:1693`,
  `BusinessEventRegistry.ts:123`); such a revision starts a chain under another reference and
  is left out.
* `InventoryLedger` replays rows of one day in primary-key order. `transaction_date` is a
  DATE, the pool (`src/src/config/database.ts`) does not ask for text, so `!==` compares two
  `Date` objects and never reaches `created_at`.
* In `NoteImport` every line of a note defers its cash, as the uploads of notes do. What
  a look-up can tell apart is the line's reference, note, day and cash, and print; the
  order of the look-ups is the code's. Headers and links are those of `InvestOperations`.
* In `CashSettlement` all legs and lines have one settlement date and one account, the
  only ones a look-up puts together. Amounts are in cents, the tolerances are the
  code's. The limit of the search at 26 candidates is not reached.
* In `PatrimonyDays` a valuation is the pair of the ledger and the quotes it saw, and a
  cumulative return the sequence of valuations it was compounded over: two rows are
  equal exactly when the same data went into them, whatever the arithmetic.
  Not every change of the ledger is followed by a sweep of the days. The settlement of an extract
  inserts cleared rows and cancels pending ones (`LiqBolsaSettlementService.ts:451`, called at
  `btgUploadImportService.ts:934`), the backfill of a month adds pending ones
  (`btgMonthImportService.ts:1077`), `syncAutoPendingSettlements` sweeps only if lines changed too
  (`LedgerImportService.ts:239`; `reconcileCustody` does not sweep at all), `amendEvent` records
  anew and `void_ledger` of a session deletes. All of these are `Add` and `Drop`; what they
  touched is `loose` until its day is swept for another reason. The import of an anchor divergence
  that `recordDay` itself may make between its reads (`PatrimonyDailyRecorder.ts:312`) is left
  out with the anchors: it moves no value. A rebuild that counts a failing day as skipped and
  goes on (`PatrimonyDailyRebuildService.ts:180`) does so here too.
* In `MonthlyClose` the import of a month is one step that writes, refuses or throws; what
  happens inside it is `NoteImport`, `CashSettlement` and `PatrimonyDays`. Only the extract
  decides whether a month counts as imported (`applied` is `extractApply.importOk`,
  `btgMonthImportService.ts:1131`); a note file that throws is swallowed
  (`btgUploadImportService.ts:1172`) and leaves the month out of `noted`. `Flaws` says which of
  the checks outside the extract may go wrong, `"notes"` and `"cash"`. No guard reads what they
  leave behind and no property of the run looks at it, so the run has none of them; the
  theorems hold with any, and `MCMonthlyClose_Limits` has both. A drawn month is one whose
  rebuild ran, days counted as skipped included.
* In `ReconcileSession` what `getDay` reads is one step and each line is one trade of its own
  ticker. The ledger holds legs of a trade, numbered in the order they were made. An insert
  (`importEntriesOnly` of one line) is a chain of awaits: the index is read, then the line is
  skipped because its own reference, its left-over cash leg or a trade that looks like it
  (`LookAlikes`) is known, and the request goes on as if it had been booked; or it is looked up
  once more and booked, and two requests that have the same line in hand both book it.
  `overlapped` remembers such lines. Between two awaits the request may throw, or the process
  stop: the header without a leg, legs without their counterpart, a snapshot behind and a change
  without its log entry stay (`BreakOff`; `broken` remembers the answers that were applied and
  not logged). `Edit` stands for the other screens that enter or remove trades.
* `DatesAsText`. The session's horizon is a DATE too. With the present pool it comes back as
  a `Date` and `String(date).slice(0, 10)` is no ISO day: after the first close every look
  at a day fails. That is `DatesAsText = FALSE`. The passing runs use `TRUE`, as if it were
  text: a behaviour under `FALSE` is one under `TRUE` in which, after the first close,
  requests that look at a day are answered with an error, so what holds of every step
  under `TRUE` holds under `FALSE`; the other way round it would show little.

## 3. Runs

Passing runs, with their distinct states. Deadlock is checked in all but those of
`MonthlyClose`, `CashSettlement`, `PatrimonyDays` and `NoteImport`, where the bounded
supply of runs, imports, jobs and uploads ends and the system may rest for good.

| Run | States | Bounds | Shows |
|---|---|---|---|
| `registry` | 2,606 | 2 callers, 2 references, 3 ids | revisions unique, chained, without rivals, everyone agrees on a header; the code implements `EventBook` |
| `one_importer` | 66,285 | 1 request, a trade, a deferred trade and a dividend, 3 headers, 6 legs, 1 stop during an import | imports, voids, amendments and re-imports in any order: each slot filled once, deferred trades and dividends healed by the next import, sweeps complete |
| `concurrent_operations` | 38,400 | 2 requests on a deferred trade, 2 headers, 4 legs, 1 stop anywhere | legs under a header of their note, links within one import |
| `position_life` | 2,522 | 16 movements of six kinds, 3 units long or short, lives of 5 | price within the lot, cost is quantity at price, price fixed towards zero |
| `inventory` | 6,510,632 | 1 request, 3 rows on 3 days in any order, voids, removals, repairs, 1 stop | the snapshot is the replay as long as entries come in order and nothing is changed behind the ledger, a rebuild makes it so again whatever happened, the status follows the quantity as long as rows are only added |
| `session_one_user` | 1,273,352 | 1 request, 2 days, a line only in the notes, two flaws of the audit, 4 answers, one edit, one exception, one restart | closed days stay closed; the horizon moves only to a materialised day |
| `session_two_users` | 3,787,514 | 2 requests, 1 day, two lines only in the notes, a trade only in the ledger that looks like one of them, 4 answers, one exception, one restart | a day is closed only while notes and trades match, but for lines two requests inserted at once; each change of the book is logged, or its request broke off before the log |
| `monthly_close` | 1,424,528 | 2 months, the loop and a client, 1 failure or restart | months in order (`FollowsSchedule`), done means that the extract of each month is in the ledger or the month is named as skipped, done means drawn, the book an import is checked against ends at the last kept month, the loop ends and leaves a verdict |
| `cash_settlement` | 115,375 | 3 notes with 4 legs, of 3000 (in two legs), 3001 and -1000 cents, lines of 3002 and 2000 cents: one cent off a note (as far as the tolerance goes), two off another, and a sum, 2 imports, 1 stop | no expectation lost, cash counted once, the preview foretells an unambiguous settlement, a settled line stays settled, every import ends |
| `patrimony_days` | 2,738,434 | 2 days, a purchase and a sale, 2 jobs at a time, 3 in all, 1 failure, unswept change or crash | days drawn by jobs that do not overlap follow the ledger but for the entries somebody changed with no sweep, a checked row adds up, an undisturbed rebuild repairs, the status ends with the rebuild |
| `note_import` | 3,537,670 | 2 uploads at a time, 3 in all, two notes of five lines, a known history of one, 1 stop | trades booked once and cash expected once while uploads do not overlap; in every interleaving finished files are expected and new notes booked |

Why the bounds are enough: the interesting interleavings need two requests and one
thing they share (one reference, note, item, day, run), a re-import needs one
stop and two headers, an amendment of an amendment three ids, an average of an
average three rows, crossing zero two movements; a month behind and a month ahead
need two months; a sum two notes, the edge of the tolerance two notes one cent apart; a note
cut off, sent again and sent in a larger upload needs three uploads; a day swept
while it is drawn, and then rebuilt, three jobs. One stop, one restart, one failure
and one edit each meet every await of one request. `MaxAborts`, `MaxAnswers`, `MaxCrashes`, `MaxEdits`,
`MaxFailures`, `MaxRestarts`, `MaxTroubles`, `MaxStops`, `MaxUploads`, `MaxJobs`,
`MaxMoves` and `MaxQuantity` bound the environment and never a step the code wants to
take; `Room` starts a request only when there are ids left for the rows it may insert.

History variables (`tidy`, `grown`, `alone`, `apart`, `overlapped`, `broken`, `loose`) say whether
entries came in order, requests overlapped or broke off before their log, or a change was not
swept; no guard reads them. They hold the premises under which the
code keeps a property; what happens without them is in the table below.

One run expects a violation, because a comment says otherwise:

| Run | Says who | What happens |
|---|---|---|
| `cut_off_note` | comment at `LedgerImportService.ts:340` | an upload stops after the first line of a note; sent again, the index finds the note's number (`ledgerOperationDedup.ts:233`) and skips every other line of it for good, while the cash of all of them is expected |

### Counterexamples kept beside the runs

The remaining configurations are not part of the regular runs. Each property they
name is violated, and records a limit of the code that the passing runs respect by
their bounds or premises. Where a file lists several, leave one at a time, or use
`-continue`.

| Configuration | Property | Behaviour |
|---|---|---|
| `MCBusinessEvents_Limits` | `ParallelEnsureNeverRejected` | both miss, both insert; the second gets `ER_DUP_ENTRY`, nobody retries the SELECT |
| | `HeadIsAlive` | `findHead` returns the last revision though it is voided and an older one lives |
| `MCInvestOperations_LostCash` | `TradeHasCashLeg` | a stop after the custody leg; the next import reports the line as known and the cash leg is never made |
| `MCInvestOperations_Duplicate` | `OneLegPerSlot` | two imports of one line both find no leg |
| `MCInvestOperations_PendingTwice` | `PendingOnce` | a deferred trade whose import stopped before its pending leg, healed by an amendment under another header; the custody leg's header is voided, and the next import, which asks for custody and cash only, books a second pending leg. A void that stops after the custody leg (`MayAbort = {"void"}`) leaves the same |
| `MCInvestOperations_ReimportAfterVoid` | `VoidedHeaderIsEmpty` | `ensureByRef` hands out the voided header |
| `MCInventoryLedger_LostUpdate` | `QuantityIsSum` | the second snapshot write does not know the first row |
| `MCInventoryLedger_Limits` | `ReplayFollowsCreation` | two rows of one day replay in another order than they were created (comment at `InventoryLedger.ts:32`) |
| | `StatusTracksQuantity` | voiding the sale that emptied a position leaves it `liquidated` (test `InventoryLedger.statusTransitions`) |
| `MCInventoryLedger_ReadLimit` | `RebuildRepairs` | more rows than `findWhere`'s limit (500, here 1) |
| `MCNoteImport_Limits` | `EachTradeIsBooked` | two notes with one cash on one day: the second counts as known and is never booked |
| | `TradePaidOnce` | the history has paid a trade; its note matches and its cash is expected again |
| `MCCashSettlement_Ambiguous` | `AmbiguousLineBlocked` | `ambiguous` is computed (`LiqBolsaSettlementService.ts:411`) and never read; `invest_reconciliacao_plano_rigido_eventos.md` part 6.4 wants such a line blocked |
| | `NothingLeftOpen` | the extract is through and a note it pays stays expected |
| `MCCashSettlement_PaidTwice` | `EventPaidOnce` | two imports, or a stop before the cancel and a second line of that amount, pay one note twice |
| `MCCashSettlement_Reapply` | `ReapplyIsMatched` | an extract sent again is refused where a test expects a match (`tests/unit/invest/LiqBolsaSettlementService.test.ts:201`) |
| `MCCashSettlement_TurnedSigns` | `RowsAddUpToLine` | the search turns signs, the rows do not: they add up to another amount than the line |
| | `CashCountedOnce` | a leg comes after its note was settled with its sign turned, and is settled with its own: the rows take from each other what the legs add |
| | `SettledLineStays` | the row of the first of three events already adds up to the line, the other two cancel each other out: a stop after it leaves a line that counts as known |
| `MCPatrimonyDays_Limits` | `StatusTellsOfRebuild` | two rebuilds; the first to end says that none is in progress |
| | `NoStaleDay` | a settlement, a backfill or an amendment changes the ledger and sweeps nothing: a recorded day stays as it was, with no overlap and no failure |
| | `NoStaleDayBeside` | a day read before a sweep is written after it |
| | `ChainIsUnbroken` | a day that failed leaves a hole, the day after it compounds over what is before |
| | `ImportLeavesNoStaleDay` | an import that stops after a line sweeps nothing |
| `MCMonthlyClose_Limits` | `DoneMeansNoted` | a note file that throws is swallowed, the month counts as imported and the run as done |
| | `GateBlocksMonth` | a month whose cash does not match is left behind: the orchestrator reads `applied` only (`btgMonthImportService.ts:1135`) |
| | `HorizonIsDrawn` | the horizon covers months that were not drawn |
| | `LoopKeepsVerdict` | the background loop (`ReconcileController.ts:481`) turns the verdict `error` into `done` |
| | `RestoredRunGoesOn` | a run restored from its row answers every step with 409 (`OptionCRunRepository.ts:4` promises more) |
| | `WrittenOnce` | two `next-day` calls import one month twice and skip the next |
| | `DoneRowStays` | the un-awaited save of a month lands on the row of the finished run |
| `MCReconcileSession_Limits` | `SessionCanBeResumed` | the row says in progress, the files are gone |
| | `NotesCompleteMeansClosed` | `completePhase` asks nothing of the days |
| | `MaterialisesThrough` | closing day 2 materialises day 2 only |
| | `AnswersAreLogged` | `defer` and `confirm_skipped` return before the log |
| | `BlockedDayHasWork` | a deferred or paired row blocks the day with nothing pending |
| | `HorizonOnlyAdvances` | an earlier day closed after a later one |
| | `NoCloseOverDeferral` | a deferred issue of the audit leaves the queue and the day closes over it |
| | `ClosedDayWasClean` | a trade entered while the close materialises |
| `MCReconcileSession_TwoUsersLimits` | `OneActionPerDecision` | two users answer one difference differently, both applied |
| | `BookChangesAreLogged` | a request throws, or is lost in a restart, after the change and before its log |
| | `ClosedStaysClosed` | two closes overwrite each other's `progress_by_day` |
| | `ClosedDayWasOneToOne` | two requests insert one line, both book it, and the day closes over the second leg |
| `MCReconcileSession_SecondClose` | `CloseAnswers` | `DatesAsText = FALSE`: nothing can be read after the first close |

`CostIsQuantityAtPrice` is asked of lots that only trades have reached: a bonus changes the
quantity and leaves price and cost alone (`ThreePricesValuation.ts:96`), so it
cannot hold of the others.

## 4. Fairness

Two specifications assume weak fairness, both of code that goes on by itself once it
has begun, because each of its awaits settles or throws:

* `MonthlyClose`: of `Work(Loop) \/ LoopStops`, the loop of `runAll` and its detached form in
  the controller (`for` over the steps of one run, a `catch` around it). Nothing is
  assumed of the clients' requests, of `Restore`, or of the save nobody waits for.
  `LoopSettles` follows only because each turn ends and the turns are bounded
  (`Slack` is the code's 10 beyond the months); a run that waits at a month it cannot
  import uses its turns up.
* `CashSettlement`: of `Work(a)`, an import of an extract that has begun. It does not have to
  succeed: `Crash` may stop it, and `ImportEnds` says that it is answered or stopped.

The other operations are single requests: nothing retries them and nothing schedules
the next, so the code promises no progress, and none is claimed.

## 5. What is proved

`BusinessEvents_proofs` proves, for any number of callers, ids and references, from
`NoRefAssumption` and `NoEventAssumption` only (the two NULLs are not values):

| Theorem | Says |
|---|---|
| `TypeCorrect` | `TypeOK` always holds |
| `RevisionsAreUnique` | `UniqueRevisions` always holds |
| `RevisionsAreChained` | `RevisionChain` always holds |
| `EnsureAgrees` | `EnsureAgreement` always holds |
| `NoRivals` | `NoRivalRevisions` always holds |
| `RegistryImplementsBook` | `Spec => BookSpec`: each step of the registry is one step of the book or none |

None of these is inductive alone. The chain of revisions depends on what callers
carry across an await: a caller about to insert holds a row built on a header it
read earlier. The inductive invariant `IInv` adds to `TypeOK`, `UniqueRevisions` and
`RevisionChain`:

* `UniqueIds`: a committed id names one row;
* `PendingInsertGrounded`: the row about to be inserted supersedes a committed
  header of the same reference with the number right before its own. Headers are
  never deleted and their columns never change, so this survives every other
  caller;
* `AnswersGrounded`, `ReadBackGrounded`, `EnsureShape`: what was handed out, or is about to
  be, is a committed first revision of that reference.

`InitIInv` starts it; one lemma per shape of step (`StartPreserves`, `InsertPreserves`,
`EndPreserves`, ...) preserves it. `EnsureAgrees` follows from `AnswersGrounded` with
`UniqueRevisions`. `NoRivals` follows from the chain: two headers that supersede one
header have one reference and one number, hence are one row. The refinement
maps `Insert` to `Open` or `Revise`, the two ends of `ensureByRef` to `Tell`, `voidEvent` to
`Annul` and the rest to stutters.

`InvestOperations_proofs` proves, for any lines, notes, requests and stops, with the registry
taken as `EventBook`, from `NoEventAssumption`, `LineAssumption`, `LegAssumption` and, for the
last four rows, `BoundAssumption`:

| Theorem | Says |
|---|---|
| `LegsStayWithTheirNote` | `GatheredUnderNote` always holds: a leg of a note hangs from a header of that note in every interleaving of imports, voids and amendments |
| `LinksJoinOneImport` | `LinksMatch` always holds: a cross reference joins two legs of one line under one header |
| `LinesAreRecordedOnce` | with one request at a time (`Alone`), `OneLegPerSlot`: a slot `hasExistingByRef` asks for is filled once |
| `ReturnedLinesAreComplete` | likewise `ReturnedIsComplete`: an import heals what an earlier one left of a deferred trade or a dividend |
| `SweepsAreComplete` | likewise `SweepIsComplete`: nothing is left, and nothing comes back, under a header that was swept |
| `TypeCorrect` | `TypeOK` always holds |

Both properties are about what a request writes long after it chose: the header is looked up or
opened first, or comes with the line from `amendEvent`, and the legs and links follow awaits
later. `IInv` says what the request holds meanwhile: its header is one of its line's note and
one of the lines it has still to apply (`HeaderOf`), and the legs it is about to link are those
it wrote for this line under this header (`LegsOf`). Headers and legs are never removed
(`deleted_at` and `voided_at` are columns of their own), so `NothingLost` carries all of it over
the steps of every other request. `OpenRevision` is where ids must be unique: the lines were
chosen for the header `amendEvent` read, and the revision takes its reference.

For a lone request `AloneInv` goes on: what the look-ups told it still holds when it writes
(`Told`), the ids it is sweeping are exactly the live legs of the old header and no new leg goes
there (`Cleared`), and as long as nothing has stopped every live leg has its pair under the same
header (`Pairs`). It holds wherever requests stop, imports, voids and amendments alike. The pending leg of a deferred trade
is the exception `OneLegPerSlot` makes: `hasExistingByRef` does not ask for it, so it is filled
once only while nothing has stopped. Without that restriction the property is false
(`MCInvestOperations_PendingTwice`, section 3), which the bound on headers in `one_importer`
does not show and the attempt to prove it did.

`NoteImport_proofs` proves, for any lines, notes, files, uploads and requests, from
`OldAssumption` and `UploadAssumption` (what may be sent are files of lines that are
not the history's), the last two also from what the program makes its keys of:

| Theorem | Says |
|---|---|
| `ImportInvariant` | `IInv` always holds |
| `ImportedFileIsExpected` | `FinishedIsExpected` always holds: in every interleaving, with stops anywhere, a line of a finished file has its pending row |
| `NewNotesAreBooked` | `NewNoteIsBooked` always holds: a file that ran to its end has booked its lines of new notes, but for those another line's cash or print stands for |
| `TradesAreBookedOnce` | `TradeBookedOnce` always holds: with one upload at a time, stopped and sent again anywhere, a trade has one custody row |
| `CashIsExpectedOnce` | `CashExpectedOnce` always holds: nor does a line get two pending rows from `recordOperation`, the skip of a known line and the backfill |

The first two properties are about what an import may rely on at the end of a file, and what it did to a line
many awaits ago must still hold then. `IInv` therefore says, of each job, where it is
(`ShapeOf`), that its files and remaining lines are those of the upload (`FilesOf`), that
its index knows no more than the book plus the lines it has passed (`IndexOf`), and that
every passed line of the file is accounted for and has its pending row (`LinesOf`). Rows
are only ever added (`Grows`), so what another request does keeps all of it: `StaysAccountedFor`
and `Undisturbed` say so once for all actions. One lemma per action (`StartUploadIInv` to
`RestartIInv`) preserves it.

`LoneInv` is what holds beside it while one upload is at work. Its part `Lone` says of the index
that it tells (`Told`) of every booked line but the one just booked, and that a line whose cash is
expected though it is not booked is a duplicate to it: the backfill leaves such lines, and it is by
their cash that the next import passes over them instead of expecting it again. That step needs
`RowAssumption`, the pending row of a line has the day and signed cash the line is looked up by
(`applyFeesToLine` gives both the gross of the trade with its sign; were they computed differently,
`CashExpectedOnce` would fail). `TradeAssumption` says that a print is made of facts of the trade
(`buildOperationFingerprint`) and that lines of one fee come from one note, because the custody row
of a fee leaves no print in the index; `HistoryAssumption` that the history tells of a trade once.
`UploadAssumption` matters here too: a line of the history sent again as a note would not be found by
its cash.

`MonthlyClose_proofs` proves, for any number of months, clients, failures and restarts, from
`MonthsAssumption` and `CallersAssumption`, with notes and cash that may go wrong or not (`Flaws`):

| Theorem | Says |
|---|---|
| `Invariance` | `IInv` always holds |
| `CloseFollowsSchedule` | `Spec => FollowsSchedule`: each step of the close is one of `MonthSchedule` or none |
| `RunsLeaveNoMonthOut` | `DoneMeansWritten`: a month whose extract is missing from the ledger of a run that is done is one it skipped, and a saved row that says done has every extract written. Of the notes of a month it says nothing: `DoneMeansNoted` is false (section 3) |
| `DoneRunsAreDrawn` | `DoneMeansDrawn`, after restarts too |
| `BooksEndInOrder` | `BookEndsAtLastKept`: the simulated book an import is checked against |
| `LoopsLeaveAVerdict` | `LoopLeavesVerdict`: the `Slack` turns of the loop suffice |
| `ScheduleLeavesNothingBehind` | whatever follows `MonthSchedule` has decided every month behind its position, and the whole calendar once it is closed |
| `NoMonthLeftBehind` | so has the monthly close, by `CloseFollowsSchedule` |

`IInv` has three layers, each as strong as its premise. `Types` and `InPlace` always hold.
`WhileAlone` holds while no two calls have been inside the run at once: where a call is
then tells where the run is (`PositionOf`: the month under way is the one after the
position), the months behind the position are kept or skipped (`MonthsDecided`), and a run
or row that says done has every day drawn (`DaysDrawn`). `InOneProcess` needs the process
not to have restarted as well: the plan is there, the loop has taken no more turns than
months are behind (`TurnsCount`, which is why the loop does not end early), and what is
about to be saved as done has no month skipped (`SavedIsWritten`). One lemma per action
(`OpenMonthIInv` to `LandProgressIInv`) preserves it; `InsideStep`, `MoveStep`, `LeaveStep`
and `EnterStep` say once what they share. The refinement maps `ImportApplied` to `Keep`,
`ImportBlocked` to `Skip`, `CloseMonth` to `Advance`, `Report` to `Close`, a step that loses
orderliness to `~orderly'` and the rest to stutters.

`ReconcileSession_proofs` proves, for any sessions, days, trades, flaws and requests, in the
notes phase, from the three assumptions of the module:

| Theorem | Under | Says |
|---|---|---|
| `ClosedDaysAreClean` | `MaxEdits = 0` | `ClosedDayWasClean`: a day is written down as closed only while its notes and trades match one to one, but for second legs of lines two requests had in hand at once; for any number of requests, skipped duplicates, exceptions between legs and restarts |
| `FinishedChangesLogged` | `MaxEdits = 0` | `FinishedChangesAreLogged`: what a session entered or voided has its answer in the log, or the request that did it threw or was lost before it could write it |
| `ClosedDaysStay` | `Alone` | `ClosedStaysClosed`: no close drops a day an earlier one wrote down |
| `HorizonIsMaterialised` | `Alone` | `CloseFollowsMaterialise`: as long as nobody entered or removed a trade elsewhere, the horizon moves only to a day that has its row of patrimony |

The hypotheses are those of the runs (`session_two_users` has no edits, `session_one_user` one
request), and each is needed: section 3 lists the counterexample without it. Exceptions and
restarts are not bounded away in any of them. `Forms` says which fields a request carries at each
of its awaits, and always holds; `AgentMoves` says, for each action, from which await to which it goes.
Above it stand three invariants.

* For a clean close: `SoleInv`, a line that no two requests had in hand has one leg at most, and
  none while a request has it in hand; `VoidInv`, a leg of a line of the notes is voided only
  while an earlier one stays, so a void uncovers no line; and on these `CleanInv`, the day of a
  request that has passed the check of `closeDay` stays `Tidy` through its materialisation
  (`TidyStays`), whatever else is booked, voided or broken off meanwhile.
* `LogInv`: a leg that came or went has its answer in the log, among the broken ones, or with the
  request that is on its way to mark it (`Recorded`).
* `CloseInv`: what a lone request read of its session's row before the materialisation is still
  the row, and the day it closes is materialised (`Alone` says that there is one requester).

`PatrimonyDays_proofs` proves, for any entries, days, closed days, jobs, failures and crashes, from
`DayAssumption` and `EntryAssumption`:

| Theorem | Says |
|---|---|
| `NobodyWaits` | `NobodyWaitsForNothing`: the status says in progress only while a rebuild is at work |
| `CheckedRowsAddUp` | `CheckedRowAddsUp`: while jobs do not overlap a checked row adds up to its positions |
| `LedgerIsFollowed` | `RowsFollowLedger`: while jobs do not overlap or throw, a recorded day differs from the ledger at most by entries that were added or dropped with no sweep since their day was last swept |
| `RebuildsRepair` | `RebuildRepairs`: an undisturbed rebuild repairs its range whatever was stored before |

Here too `Forms` says what a job carries at each await (`WorkOk`, `PointsOf`), and `ApartInv` that
one job at most is at work as long as `apart` holds. `CheckInv` adds where the verdict of a row
stands while it is drawn: written without one, then with its positions beside it (`CheckOf`).
`FollowInv` is about the time between the first line of an import and its sweep, and about what is never
swept: a row differs from the ledger beyond the loose entries only if the job at work still has to sweep
its day (`WillSweep`), and what a job has read of the ledger differs by loose entries at most
(`ReadsFollow`). `FollowsOn` carries that over an unswept change, which adds to `loose` what it touches; a
sweep takes out of `loose` what lies in the days whose rows it clears, and `FollowsRead` starts anew. `SoleInv` is the invariant of the loop of the rebuild,
`RepairOf`: the days behind it are repaired, those ahead of it are empty (`Ahead`, left so by its
sweep), the day under way carries the ledger, the quotes and the row before it as they are. A row's
chain is read off the last row before its day, so the lemmas on `Max` and `Min` of a set of days come
first; they rest on `SubsetInduction`, an induction over the subsets of a finite set.

`Positions_proofs` proves, for any movements, quantities and prices and lives of any length of a
position, from `MovementAssumption` and `LifeAssumption` (each `LifeSpec => ...`):

| Theorem | Says |
|---|---|
| `PriceStays` | `PriceStaysTowardsZero`, whatever the divisions give |
| `PriceIsWithinLot` | under `[]Exact`, `PriceWithinLot`: the average lies between the prices paid into the lot |
| `CostFollowsPrice` | under `[]Exact`, `CostIsQuantityAtPrice`, on both sides of zero |

`Exact` says that the divisions `applyMovement` makes of the position and the movement that may come
next leave no rest. It is the limit of `Valuation` (amounts are whole cents, the code's are decimals):
the run meets it in every state, since TLC stops at a division that leaves one. `PriceStays` needs no
such premise, because no division touches the price on the way to zero; `TradeResult` and
`ApplyResult` write out the early returns of `applyMovement` number by number, and the proof reads it off
them. The other two are inductive only together: `Fair` says that the cost of a lot of trades is its
quantity at the price and the price lies between two prices of the lot (`Between`). The
proportional cut of the cost keeps the first because the price stays (`ShrinkingIsFair`); the weighted
average keeps the second because what was spent before is the quantity at a price between the
extremes, on either side of zero (`GrowingAverage`); `Magnitude` around the average is then idle. That
prices paid are not negative (`MovementAssumption`) is needed for this last step.

It also proves, for the rows an item is replayed from (`InventoryLedger`), any requests, movements, voids,
repairs and stops, from the assumptions of that module:

| Theorem | Under | Says |
|---|---|---|
| `LedgerInvariant` | `Alone`, `Fits` | `LedgerInv` always holds |
| `RebuildsRepair` | `Alone`, `Fits` | `RebuildRepairs`: a rebuild leaves the replay of the rows alive, whatever came before |
| `SnapshotIsReplay` | `Alone`, `Fits` | `SnapshotFollowsLedger`: while rows come in by date the snapshot is that replay, in quantity and value |
| `StatusIsTracked` | `Alone`, `Fits`, `Moving` | `StatusTracksMovements`: in any order, the status says whether something is held |

`Alone` is one request at a time; without it an update is lost (`MCInventoryLedger_LostUpdate`).
`Fits` says that the rows of an item are no more than `findWhere` returns; without it a rebuild
replays a part of them (`MCInventoryLedger_ReadLimit`). `Moving` says that every movement changes the
quantity: a `cost_adjustment` as the first row would leave an item active with nothing in it. The last two
also name at least one request, since an invariant about all requests says nothing without any.

`Replay` is a fold over a set of rows that always takes the `Latest` off. `UnfoldsOnce` and `UnfoldsExists`
show, by `SubsetInduction`, that the recursive function of the fold exists and is one; `ReplayStep` is the
equation everything else uses. From it, `ReplayAppends`: a row later than all others is applied last, so
`recordMovement`, which applies its own movement to a replay of what it has read, computes what a replay of all
rows will find. Without the order of dates that is false of the values (a sale between two purchases
takes another price out), but `QuantityAdds` still holds: wherever a row comes, it adds its delta to the
quantity, which is all the status looks at. `LedgerInv` says of the request at work that what it replayed
is still the rows alive (`RebuildOk`, `TidyOk`, `GrownOk`): the three promises need three strengths of it,
because a rebuild repairs also what was left half-way, while the status survives rows in any order but not
a row removed without a rebuild.

`CashSettlement_proofs` proves, for any notes, legs, extracts and imports, from the assumptions of the
module:

| Theorem | Under | Says |
|---|---|---|
| `NoExpectationIsLost` | - | `NoExpectationLost`: in every interleaving, with stops anywhere, a leg is cancelled only behind a row of its event |
| `CashIsCountedOnce` | `[]NotesFirst` | `CashCountedOnce`: imports that come one after the other, none stopped, leave as much cash as they cancelled |
| `PreviewIsKept` | - | `PreviewForetells`: what `consumePoolEntriesForLiqLine` takes for a line, `settle` takes |

`LegAssumption` has finitely many pending rows, `LineAssumption` at least one line to settle. `NotesFirst` says that
the legs of an event are all written before a line settles it. An import that runs to its end leaves its notes so;
one that was cut off and completed after the extract does not, and then the property can fail
(`MCCashSettlement_TurnedSigns`). The instance of `cash_settlement` does not show it; the attempt to prove it did.

The sums of the matching are folds of `MapThenSumSet`; `AddsOnce`, `AddsExists` and `SumIs` unfold them as
`ReplayStep` unfolds a replay, and are what `TotalInt` and `LegSumInt` rest on. `FirstSubset` shows that the order in
which the loop of `findSubset` counts its masks (`Earlier`) always has a first, `SomeAreClosest` that some subset has
the least difference, hence `ChoiceChooses`: settle takes some of the candidates, as they are or with their
signs turned, and no event twice. `LossInv` is the inductive invariant of the first theorem: an
offer holds legs of its own event only (`OfferOk`), and an import that cancels has the row of the event it is at
(`PaidFor`; the first offer stays the first while its legs go, `RestIsFirst`). `CountInv` is that of the
second: while imports do not overlap, an event is untouched (`Fresh`), settled by one row for all of its legs
(`SettledBut` nothing), or in the hands of the one import, with what is left of its legs (`PicksOk`).

Only model-checked: the action property `SettledLineStays`, which holds of lines whose rows do not add up
to them before the last is written (section 3) and is checked on such; the rest of the properties in section 3
that no table here names. Out of the prover's reach and left to TLC in this project: liveness and ENABLED
(`LoopSettles`, `ImportEnds`).

## 6. Not modelled, and what could come next

1. **Composition.** `MonthlyClose` takes the import of a month as one step. A joint model
   with `NoteImport` and `CashSettlement` would show what a month half imported and imported
   again leaves; the state space of the parts makes it a specification of its own.
2. **`AutoPendingSettlementSync`** and the settlement engine, balances per account.
3. **Gateway and storage meter**: the plan limit is read before the write that counts.
4. **The job monitor** and its timer.
5. **Purge options and the cash phase** of a session.
6. **Openings and re-imports** of a whole portfolio (`importPortfolio` replacing its batch).

Proofs worth having next: `RegistryImplementsBook` composed with `InvestOperations`, so that its theorems speak of
the registry's own steps, and `PriceStays` carried over the replay of `InventoryLedger`.

Not modelled on purpose: the text extraction of broker files (`BtgExtractLineParser`, the
note and spreadsheet parsers) and the numeric engines (mark to market, three prices,
diagnostics reports), which are data and decimal arithmetic covered by example tests;
the HTTP controllers beyond the monthly loop, which call what is modelled and translate
errors; authentication, field policy, module registry, telemetry, the catalogue of the
user interface and the frontend, which are outside the books. These make up by far the
greater part of the repository's lines: the frontend's pages and display helpers, seeds,
the parsers and reports. The state that concurrency, failure and order can harm is in
the services specified here, and that is why the mapped share of all lines is small.
