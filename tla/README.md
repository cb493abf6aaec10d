# SenseiTrader: formal models

SenseiTrader turns signal files into bracket orders at Interactive Brokers. This
directory holds TLA+ modules of its parts: what decides whether an order goes out,
once, and as what; what the database, the reports and the spreadsheet say about it
afterwards; and the queues, files, chat and control panel around it. TLC
configurations check them on small instances, and TLAPS proofs of the main results
hold for every instance.

## 1. Inventory

| Part | Code | State | Operations | Talks to |
|---|---|---|---|---|
| Main loop | `app/service.py` `main` | item in hand, timers, mode | start (migrations, ARM check), heartbeat, fills tick, envelope tick, signals tick | everything below, except the queues |
| Signal files | `app/service.py` `_FileSignalSourceV2` | files on disk; queue, `_remaining`, `_worst_outcome` in memory | load (once), poll, ack | main loop |
| Pipeline, domain check | `app/pipeline.py`, `core/validator.py` | none | process_signal_once | risk gate, order manager |
| Risk gate | `app/risk.py`, `core/metrics.py` | none (a snapshot per call) | evaluate_signal | pipeline |
| Order manager | `app/executor.py` | `orders`, `executions` tables | submit_approved_trade | database, adapter |
| Broker adapter | `adapters/ibkr/client.py` | connection | place_bracket_order | broker |
| Fills synchronisation | `app/ibkr_fills_sync.py` | `ib_exec_seen`, `executions`, `orders.status` | sync_ibkr_fills_once | database, broker |
| Telegram commands | `app/commands.py` | offset, kill switch (memory); chat (server) | poll, handle | main loop, through the switch |
| Envelopes | `app/service.py`, `core/schemas.py` | files; `envelopes_v1`, `decisions_v5` | poll, decide, insert, move; never orders | main loop |
| Delivery queues | `app/outbox.py`, `app/notify.py`, `app/sheets.py` | queue tables | enqueue, deliver, retry, give up | Telegram, Google Sheets |
| Database | `app/db.py`, `app/dao.py`, `app/migrations.py` | SQLite file | autocommitted statements, `transaction()`, views | all |
| Fills script | `sync_ibkr_fills.py` | one transaction over `orders`, `executions` | run, adopt | database, broker, beside the service |
| Ledger scripts, reports | `fix_*.py`, `reset_offline_db.py`, `init_views.py`, `show_*.py`, `sensei_*.py`, `daily_*.py` | none | rewrite rows; read and print | database |
| Monthly statistics | `app/stats.py` | none | compute_monthly_stats, compute_last_month_stats | database |
| Control panel | `qt_runner.py` | child process | start, stop, force-kill, close | service |
| Order ingress, LLM adapter, config, logging, health | `app/order_ingress.py`, top level, `app/` | files | read, or write one file | database, inbox |

The main loop is one thread; the Telegram poller is a second one, the outbox worker
would be a third; the operator, the signal producer, the scripts, the broker and
Telegram are outside. The database, the files, the chat and the broker's orders
survive a crash; queues, counts, the kill switch and the call in progress do not.
Every statement of `Database.execute` commits on its own, so a submission, a
notification and an envelope are sequences of separate commits, messages and moves,
and systemd (`Restart=always`) starts the process again whatever ended it. That is
where the hard behaviour is: a crash or failure between row, legs and status, or
between delivery and delete; verdict counts lost with the process; commands
redelivered; a switch and an arm window read at one time and used at another;
overlapping windows of fills; two programs booking the same fill, each knowing its
work by a table of its own; five scripts that
read one ledger, each in its own way.

What makes each part correct: the order manager causes one bracket per signal
id and records what it sent; the adapter sends what the Order says and never an
unprotected entry; the gate approves what the caps and the expected value admit;
files leave the inbox with true verdicts; commands take effect once, in order;
the ledger holds each fill once and the status follows it; a queued message leaves
its table only delivered or given up, and what a table says of it is true; a
decision belongs to its envelope; reports of one ledger agree; what the panel stops
is what was asked to stop.

## 2. Modules

| Module | Models | Used by |
|---|---|---|
| `OnceOnlySubmission` | abstract: a signal id is claimed at most once, then sent or given up | `OrderExecutor` |
| `OrderExecutor` | `submit_approved_trade`, one step per table write and broker message | `SignalService` |
| `RiskGate` | `evaluate_signal` and its arithmetic (operators only) | `IbkrBracket` |
| `IbkrBracket` | approval, Order and the three broker orders, the day's losses | `MCBooks` |
| `TelegramCommands` | the polling thread and the kill switch | `SignalService`, `MCDesk` |
| `SignalFiles` | load, poll, ack, archive (actions only; no next-state relation of its own) | `SignalService` |
| `SignalService` | main loop, signals side: composes `OrderExecutor`, `SignalFiles`, `TelegramCommands` with crashes, restarts, ARM | |
| `FillsSync` | `sync_ibkr_fills_once` with the broker and the operator next to it | |
| `FillsScript` | `sync_ibkr_fills.py` next to executor, broker and the service's own synchronisation | `MCBooks` |
| `LedgerReports` | the scripts that write the ledger and what each report makes of it | `MCBooks` |
| `MonthlyStats` | the statistics of a month and of the last one | `MCBooks` |
| `AtLeastOnce` | abstract: a message accepted stays queued until delivered or given up | `Outbox` |
| `Outbox` | the outbox table and its worker | `MCDesk` |
| `Notifier` | critical and normal notifications | `MCDesk` |
| `SheetsSync` | the Sheets queue, one row per entity, and the month's sheet | `MCDesk` |
| `Envelopes` | the envelope tick | `MCDesk` |
| `QtRunner` | the control panel and the service it starts, kills or leaves behind | `MCDesk` |
| `OrderExecutorProofs`, `IbkrBracketProofs`, `FillsSyncProofs`, `TelegramCommandsProofs` | the theorems of one module each | |
| `SignalServiceProofs` | those of `SignalService` and `SignalFiles`, on those of executor and commands | |
| `QueuesProofs` | those of `Outbox`, `Notifier` and `SheetsSync` | `DeskProofs` |
| `DeskProofs` | those of `QtRunner` and `Envelopes`, and of the six parts of `MCDesk` side by side | |
| `BooksProofs` | those of `FillsScript`, `LedgerReports` and `MonthlyStats`, and the theory of their sums | |
| `MC*` | values of the constants for TLC; `MCDesk` and `MCBooks` put several modules into one run | |

State and actions follow the code:

* **OrderExecutor.** `orders` is the status column, `ibIds` the rows with broker
  ids, `legs` what has been sent per `orderRef` and leg, `step` the statement
  `submit_approved_trade` is at. A signal stands for one content `_make_order_id`
  hashes; `IdOf` gives its `signal_id`, stored as `order_ref`. `SubmitDuplicate`
  and `SubmitNew` are the checks and the INSERT, `PlaceParent/Take/Stop` the three
  `placeOrder` calls, `SaveIds`/`SaveStatus` the UPDATEs whose exceptions are
  only logged, `PlaceFails` the `return None` (before a leg, or after the last one,
  when the bracket is transmitted and only its ids are missing), `SubmitDbError` an
  exception that reaches the pipeline. `mode` is chosen anew at every start because one
  database file serves all modes. `legs` counts orders sent; a rejection by the
  broker arrives later and is not looked at by this code. Left out: the second
  signature of `place_bracket_order` (this adapter never raises TypeError for the
  first), hash collisions of `order_id`, an empty `signal_id`.
* **RiskGate / IbkrBracket.** Percentages and money are integers, so the
  arithmetic is exact where the code's is floating point. An attribute `getattr`
  does not find is a field the record lacks, which is how the quantity gets
  lost. Only long signals pass the pipeline. The kill switch is not here: under it
  there is no approval to speak of (see the run `service_paused`). The refusals for
  the daily loss and for utilization would end the same way (`raises`), if the
  service's snapshot ever led to them.
* **TelegramCommands.** Update `n` is the n-th text of the chat. `confirmed` is
  Telegram's memory, `offset`, `batch`, `killOn` the process's. `/arm` and
  `/disarm` are not configured by `main()` and change nothing. `known` counts the
  updates handled without a gap, so an update that was skipped keeps it back.
* **SignalFiles.** An item is a file and a position; `remaining` and `worst`
  are the two dictionaries. Moves that raise are logged and leave the file.
* **SignalService.** `pc` is the place in the loop. `Die` is the end of the process,
  whoever caused it. `old` says that the signals have passed 60 minutes (all
  together), `armed` that `live_arm_until_utc` is in the future, `armEnv` that the
  environment systemd starts the process with holds `SENSEI_LIVE_ARM=1`: it opens the
  window at every start and stays as it is until an operator edits it
  (`EditEnvironment`). Without it, a live start is refused once the window has closed
  (`MayStart`).
* **FillsSync.** `tx` is what the open transaction has written, invisible until
  `Commit`; `SyncFails` is the rollback, by exception or crash. A stub order is
  registered by another process and can appear between reading the map and the
  transaction; the executor runs on the loop's own thread and cannot. An
  execution is one unit of a leg. Broker ids are taken to be distinct and never
  reused, so that the map leads from an execution to its own order. Fees are left out.
* **FillsScript.** `asRead` and `lookup` are the maps the script builds at its
  start and never reads again, `tx` its one transaction, `unsaved` the executions
  still to be looked at; while it is `storing` it has the database's lock. Any subset
  of the fills may be fetched, as the window has it. `IbParentIfEmpty` writes the
  leg that was filled into an empty `ib_parent`, whichever it is. The script looks
  its work up in a column `executions.exec_id` that no migration adds: the module
  is about a database that has it, as `db/schema/schema_minimal.sql` makes one, where
  it is UNIQUE. `ServiceSyncs` is a whole pass of the service, stored or undone as one:
  a fill that the script has stored is new to `ib_exec_seen`, its second INSERT into
  `executions` raises outside the `try` of the first, and the pass is rolled back.
  Status updates of a pass are left to `FillsSync`.
* **LedgerReports.** `executions` holds rows with a leg, a day, a price, a
  quantity and a fee; `tidy` remembers the orders whose rows all come from the
  program. One action per script that writes rows, one operator per reading: `Pnl*`
  (`show_pnl.py`), `PositionsNet` (`show_positions.py`), `OrderStats` and what is
  built on it (`sensei_offline_review.py`), `ViewRealized` (`v_order_pnl_r`, of
  which two scripts install different versions). Reports that end in an exception
  are modelled up to there (`EquityRaises`, `PositionsRaise`). One symbol, and one
  database: `sensei_offline_review.py` always reads `data/trader.db`, the others the
  file that `SENSEI_DB_PATH` or `--db` names; where these are two files the reports
  speak of two ledgers.
* **MonthlyStats.** A month is a pair; ISO dates compare as strings do. Nothing in
  the repository writes the table of trades, so `Enter`, `Mark` and `Leave` are the
  environment: what the columns can tell. The last month's report is made on the
  first of the next. The rows a report selects are their places in the table; its
  loop over results is a recursive function over those places (`MaxDrawdown`).
* **Outbox.** `inHand`, `okIds`, `failIds`, `deadIds` are the thread's lists, lost
  with it; delete and reschedule are two transactions. Nothing in the loop catches a
  database error, so `WorkerDies` stands for that, too. `received` and `refused` are
  what really happened outside.
* **Notifier.** `sending` is where `send_critical` is; an answer may be lost on its
  way there or back. `Flush` ends in "raised" whenever there is something to send:
  `list_unsent_notifications` calls `.get` on a `sqlite3.Row`.
* **SheetsSync.** `queue` and `waiting` are the rows of `sheets_sync_queue`, one per
  entity; `pass` is what `process_sync_queue` has listed, with the payloads as they
  were. `EnqueueSync` may come from another thread during a pass. A month's sheet may
  be made without its header, and is then left so.
* **Envelopes.** `tick` is the place in the tick; `InsertEnvelope`, `InsertDecision`
  and the move each may fail, which is logged and passed over. An envelope whose
  insert failed is archived as done all the same. Only the first file is looked at:
  `max_files_per_tick` has no effect. The stored action is the text
  "DecisionActionV5.ALLOW", the class name included, and the model keeps it.
* **QtRunner.** `child` is `self.proc` and the program in it: "exited" and "crashed"
  until Qt reports the end. `asked` is what the operator has asked of this
  child, `orphans` the services whose panel is gone. Start and Stop are allowed at
  any time, as the tray menu allows them. That PyQt ends the process on an
  exception in an event handler, and that a Windows program outlives its parent,
  are facts of the platform. The file ends its lines with CR alone, so its
  definitions are referred to by symbol (line 1).

Composition. `SignalService` composes what runs in one process on one database: main
loop, files, order manager, Telegram thread. The other parts share neither tables nor
threads with it or with each other (the main loop calls no queue at this commit, and
the envelope tick touches tables of its own), so their interleavings with it add
nothing. `MCDesk` and `MCBooks` therefore only put them side by side: a variable `focus`
chooses the part a behaviour exercises, the others stay as they begin, and each
part's fairness is restated for the behaviours that exercise it.

Operators introduced with "Mutant:" are plausible mistakes in the definition
that follows them; each is used to see that a property notices it.

## 3. Runs

| Run | Expect | What it shows |
|---|---|---|
| `executor` | pass | any number of submissions of three contents under two ids, offline and paper, failures and restarts between any two steps |
| `executor_duplicate` | violation | a DUPLICATE need not ever have been sent |
| `bracket_order` | violation | quantity 1 and a limit entry whatever the Order says |
| `risk_daily_loss` | violation | the daily loss limit never stops a trade |
| `service` | pass | the composed service with one crash, one command, two files |
| `service_paused` | violation | a paused service trades after its own refusal has killed it |
| `service_arm` | violation | live orders after the arm window |
| `fills` | pass | ledger and status under overlap, failure and rollback |
| `desk` | pass | commands under lost answers and restarts; panel after panel; outbox, notifications, Sheets queue and envelopes under refusals, lost answers, failing writes and crashes between any two steps |
| `books` | pass | gate, sizing, Order and broker orders for every placement of prices; the fills script next to service and executor; the reports over every small ledger; the statistics over the turn of a year |
| `reports_crash` | violation | with one closed order in the ledger, five reports end in an exception and the LLM review with exit code 1 |
| `panel_exit` | violation | closing the panel leaves the service running |

What is behind each property of the newer modules, and what it excepts:

* `OutboxIsAtLeastOnce` is the refinement of `AtLeastOnce`; `OutboxDrains` adds that
  no message is retried for ever and none starves behind those that fail, since a
  batch takes the oldest first.
* `MarksAreTrue`: sent means in the chat, not in the chat means an error once the
  call has returned, and a call cut short leaves no mark.
* `SheetHasTheNewest` excepts a payload that replaced the one a pass was holding: the
  row is deleted by its id and takes the newer payload with it. `SheetsQueueMoves`
  excepts payloads that can never be applied, and assumes that they leave room: rows
  are never given up, and `PassLimit` of them at the head stop the queue.
* `DecisionsNameTheirEnvelope` and `EnvelopesDrain` bear on failing inserts and moves.
* `ScriptBooksTrue` excepts orders the script read before their broker ids were saved
  (their takes become entries) and orders of which a fill was adopted (the adopted
  order takes all later fills). `OneRowPerFill` is about the two programs together,
  which know their work by different tables: a fill has one row, whoever came first,
  and `ib_exec_seen` holds the fills of the service's own rows. It needs the script's
  look-up, its lock and commit, and the rollback of the service's pass; that what the
  script stored first is never seen is what stops the service (see section 4).
* `ReportsAgree` and `ViewAgreesWithoutStops` except adopted orders (side BOT or SLD,
  a purchase for one script and a sale for two others), orders with a row written by
  hand that has not been cleaned, and, for the view, orders with a stop among
  their rows, which it does not count.
* `StatsAreExact`: every trade in one report, the largest fall as drawdown, gross
  results that add up to the net one.

Bounds. *executor*: two contents share an id and one does not, which is every
relation two submissions can have; the counters need no bound because the
properties keep them at 1. *service*: the first file has one signal of each fate
(ordered, refused by the domain check, refused by the gate), the second does not
validate; one crash (`MaxCrashes`) plus the self-inflicted ones; one command
(`MaxCommands`). The violation runs need no crash. *fills*: two orders of one unit, one
of them planned for two as the executor would have it; the theorem covers other
quantities. *desk*: three commands allow a switch, its reversal and one more
redelivered after a restart; one service at a time in a panel, up to four left behind
(`MaxOrphans`); three messages, one without a callback, with two attempts and batches
of two, so that one is given up, one is retried and one waits behind them; three
notifications; two entities and three payloads, so that one payload replaces another
during a pass of two rows; two envelopes of three contents (refused, allowed, to wait).
*books*: six prices reach every refusal that a validated signal can meet
(both caps, both floors, negative expectation), with an equity of 100 so that
quantities from 0 to 4 occur, and `MaxDayLoss` only ends the count of losses; one order
of the executor's and one placed by hand, one fill per leg, which is what reading,
adopting and storing in any order take; three rows over a long, a short and an adopted
order, so that an order can be opened in two fills and closed in one; three trades
in three months across a new year, with a gain, a loss and no result.

Fairness. The main loop and the poller thread run (weak fairness of their steps)
and systemd restarts what ends. A request that is repeated for ever is answered at
some time: `Fetch` strongly fair, `GetUpdates` weakly fair. Failures are never
required to stop, except where a property says so: `CommandsAreHandled` assumes
that restarts end, `FillsReachLedger` that no more synchronisation ends with
fills it could have stored (`WorkIsLost`) and that the execution is still within
the lookback window, `SignalsAreJudged` that no command is sent (a kill switch makes
the process die on every signal), `OutboxDrains`, `SheetsQueueMoves` and
`EnvelopesDrain` that the worker, the process and the tick are not ended for ever. No
property needs a strongly fair broker. The outbox needs no fair callback: a message
that is always refused is given up. The Sheets API takes an entity's payload at some
time if it is offered for ever, and a file that is moved again and again is moved at
some time (strong fairness, per entity and per file), for neither is ever given up.
Starts are fair only while they may get past the ARM check, and nobody has to arm: in
live mode a restart returns 2 again and again once the window has closed and the
environment does not hold `SENSEI_LIVE_ARM=1`. `SignalsAreJudged` therefore says two
things of a signal that was loaded: it is judged or the service is found down and not
allowed to start; and it is judged if from some time on the service is allowed to
start, as when somebody puts the variable into the environment and leaves it there.
The panel's event loop delivers timeouts and the end of a program; nobody presses
Stop again every three seconds for ever.

Deadlock is checked in `executor`, `service` and `fills`. In `desk` and `books` it is
not (`CHECK_DEADLOCK FALSE`): a part whose bounds are used up has nothing left to do
there, as when all trades have been left and the last month has come.

## 4. Findings

1. **A duplicate may never have been sent** (`executor_duplicate`). The row is
   stored before the bracket is sent and never looked at again, so a failed first
   attempt makes the signal a duplicate for ever. Never sending twice is bought
   with sometimes never sending; `OnceOnlySubmission` states exactly that promise.
2. **The order sent is not the Order** (`bracket_order`). `_extract_action_qty` asks
   the leg for a quantity that only the Order has, and `_build_parent_order` knows
   two entry types.
3. **The daily limit is inert** (`risk_daily_loss`). The service's snapshot has
   constant equity; its comment calls it minimal, the configuration does not.
4. **/pause can end in a trade** (`service_paused`).
5. **ARM is checked at the start only** (`service_arm`).
6. **Closing the panel crashes it** (`panel_exit`): `closeEvent` calls a method that
   does not exist, the service is left running, and a second panel can start a
   second service on the same database.
7. **The equity reports work on an empty ledger only** (`reports_crash`):
   `build_equity` calls `signed_qty` of `show_pnl.py` with three arguments, and the
   reports built on it call `.get` on a `sqlite3.Row`.

Seen while modelling, without a run:

* `str(TimeInForce.DAY)` reaches the broker as `TIMEINFORCE.DAY`.
* An approval's `risk_usd` includes commissions that sizing ignores; fees whose report
  arrives late are stored as 0.
* `flush_normal_batch` never sends: it raises whenever there is something to send
  (`app/dao.py:677`).
* `init_views.py`'s positions view cannot be read: its `qty` is ambiguous.
* `fix_executions_cleanup.py:69` deletes every entry row after the first, partial
  fills of one entry included.
* A trade that is left after its month's report was made is in that month's numbers
  as an open one, and no later report tells of its result.
* A signal transmitted before a crash may be judged failed or rejected after it, when
  it has grown too old. And a bracket that was transmitted is reported as failed, its
  row NEW and without ids, when the pause after the last `placeOrder` or the reading of
  the ids raises (`adapters/ibkr/client.py:114`).
* A live service that ends after its ARM window has closed stays down, with the
  signals it had loaded, until somebody arms it.
* A fill that the script was the first to store blocks the service's synchronisation:
  every pass whose window reaches back to it is undone with all its other fills
  (`app/ibkr_fills_sync.py:230`, logged in `app/service.py:697`), until the fill leaves
  the window, and fills that leave it before then are never stored.
  `FillsReachLedger` is about a service without the script.
* A month's report calls its drawdown that of the closed trades (`app/stats.py:254`);
  every result that is not NULL counts for it, an open trade's result so far included.
* A program that cannot be started leaves the panel's Start button disabled; the tray
  menu starts it.

## 5. Proofs

TLAPS checks the eight `*Proofs` modules, for all values of the constants that satisfy
the ASSUMEs of the modules they extend. Every step preserves an inductive invariant
that is stronger than the properties:

* **OrderExecutor.** That a leg is sent once depends on where the call is.
  `ExecInv` adds that the legs of the order in progress are exactly those before its
  step (`LegsFollowStep`), that its row is NEW and has no virtual fill (`CallState`),
  that a call in progress has a signal, and that the rows are one per signal id
  (`OneRowPerId`). From it follow the type invariant and the four safety theorems.
  `ExecutorIsOnceOnly` maps every step to a claim, a send, a give-up or a stutter of
  `OnceOnlySubmission`: the stage of an id is computed from tables, broker and call
  (`StageOf`), and a move needs that no other id's stage changes (`SameStage`,
  `StageMove`).
* **IbkrBracket.** `BracketInv` says that approval and Order follow from the signal,
  and that what has been sent is the beginning of the Order's bracket. Then
  `BracketSays` spells out the three orders, and `ApprovedPasses` that an approval
  passed each check of the gate. `SizedToTheCap` is the whole-number quotient
  (`Quotient`), `ApprovedWinsOnAverage` the distribution of the weights over gain, loss
  and commissions (`Weighed`); both hold for any equity, caps, prices and commissions.
* **FillsSync.** `SyncInv` adds to the invariants what the open transaction has
  written: rows that match its own seen set, and every order that got an execution
  among those to update. `CommitKeepsInv` then needs that a status depends only on
  the rows of its own order (`StatusIsLocal`) and that computing it twice changes
  nothing (`StatusForTwice`).
* **TelegramCommands.** `TgInv` adds that the batch in hand is a gapless run that
  begins at the update the process will handle next (`InStep`): `born + 1` before
  the first update of its life, `offset` afterwards. `LastSwitchOfNext` says how
  one more update moves the last switch; the range of `LastSwitch` is part of
  `InStep`, because a new command must not change what an older one says.
* **Outbox.** `OutboxInv` says that the ids of a batch are in one place (`BatchInOrder`)
  and that what is to be deleted may be (`OnlySettledGo`): counted attempts never
  exceed refusals that happened. Under it every step is an accept, a delivery, a
  failure, a settling or a stutter of `AtLeastOnce`, and `reschedule_ids` never finds a
  message without tries left: the worker has put it among the dead letters before
  (`FailedHaveTriesLeft`).
* **Notifier.** `NotifierInv` adds that the call in progress is about the last
  notification saved, which nobody has marked yet.
* **SheetsSync.** `SheetsInv` adds that the queue has one row per entity with its newest
  payload (`RowsAreNewest`), and that a pass in hand is as new, or else one of its
  payloads was replaced since (`PassIsNewest`). What is left of the queue after a row
  is deleted is the lemma `WhatRemains`.
* **QtRunner.** `RunnerInv` is the three properties and the types, which are
  inductive once the bound leaves room for the service of an open panel.
* **Envelopes.** `EnvelopesInv` adds that `envelope_id` is empty until an accepted
  file's envelope is inserted, and then names the file in hand. `DeskInv` puts the six
  invariants of the desk's parts side by side: each step is one part's own and a stutter
  of the others.
* **SignalService.** Every step of the service is a step or a stutter of the executor and
  of the command thread (`ComponentSteps`), once `SvcInv` says that a call is made with a
  signal of a file and while no other is under way. So `ServiceRunsExecutor` makes all
  theorems of `OrderExecutor` theorems of the service, the refinement of
  `OnceOnlySubmission` included (`ServiceSubmitsOnce`), and `ServiceFollowsChat` those
  of `TelegramCommands`, whose process now dies with the loop. For the files, `SvcInv`
  adds that the signals without a verdict are exactly the last `remaining` ones of their
  file, with the one in hand before all others (`FilesInStep`), so that the count
  reaches 0 with the last verdict; that the loop's place and the call's go together
  (`LoopInStep`); and that an outcome on its way to the acknowledgement is true already
  (`OutcomeIsTrue`). What is recorded or sent stays so (`RecordsStay`), which keeps old
  verdicts true.
* **FillsScript.** `ScriptInv` extends `ScriptBooksTrue` and `OneRowPerFill` to the rows
  and adoptions of the open transaction (`RowsMatchSeen`: while it is open no pass of the
  service is stored, so that what is seen stays as it was), and adds that the maps lead to the order itself or to one adopted in
  its place *in that transaction* (`MapsLeadTrue`): that is where adoption and booking
  meet, and a run that dies takes both with it.
* **LedgerReports.** `LedgerInv` says that the tables are finite and that a tidy order is
  BUY or SELL and has no row CLOSE. Under it the reports take the same rows for entries
  and exits, with the same sign (`TidyOrder`). What is left is about sums over sets of
  any size. `SumFunction` of the community modules is a CHOOSE of a recursive function,
  so that nothing is known of it until such a function is shown to exist (`SumsExist`)
  and to be unique (`SumsAreUnique`). The library's induction theorems cannot be
  instantiated here, but those on well-founded relations take a set: `AllNaturals` and
  `AllSubsets` conclude from the smallest counterexample. From them follow that a sum is any
  element's number and the sum of the rest (`SumOfOneMore`), that zeros may be left
  out (`SumWithoutZeros`: orders without rows), and that the sums of groups add up
  to the sum of all (`SumByGroups`: the days of the review).
* **MonthlyStats.** `StatsInv` says that the reports made so far have counted between
  them exactly the trades entered before this month: a trade that changes keeps its
  month, a new one is of this month, and at the turn of the month those of it join
  the earlier ones, in whichever year (`MonthsFollow`). The rest of `StatsAreExact` is
  about what one report computes. `_compute_max_drawdown` keeps three numbers; its
  recursive function is shown to exist for every length (`CurvesExist`), and after every
  trade its equity is the sum up to there, its peak the highest such sum and its worst
  fall the deepest from an earlier sum to a later one (`CurveInStep`, `CurveFalls`), so
  that its end is the largest fall there is (`DrawdownIsLargestFall`).

The assumptions are those on the constants, each as the code has it: `Content` gives
each file a sequence of signals, `NoMatch` is no row of orders, bounds are natural
numbers, a fill has a quantity of at least 1.

Only model-checked: every liveness property, for liveness under fairness and ENABLED are
beyond the prover. Every invariant a passing run checks is proved. `StatusMatchesLedger` compares statuses and never evaluates the
sums behind them. No module declares a RECURSIVE operator.

## 6. Not modelled, and plan

Left out for good:

* Order ingress (`app/order_ingress.py`): its INSERT names `orders.entry_price`,
  `stop_price` and `take_price`, which no migration adds, so every call raises before
  anything is stored; and nothing imports it.
* The LLM adapter: it writes a file of signals, which is a file that appears in the
  inbox (`DropFile`); `assistant.py` does not import. The LLM and Sheets clients are
  outside services.
* Configuration parsing, logging, health, and the layout of reports: no state.
* Migrations run once, before any other step; what the other modules rest on (keys,
  missing columns, the two versions of the view) is in them.
* Readers and writers of `dao.py` for signals, approvals, orders and snapshots, which
  no code of the service calls.
* In parts modelled in part: connecting to the broker, the heartbeat, an empty signal
  source, the panel's status label and settings, statistics of a report beyond net
  quantity and result.

Next, in this order:

1. The synchronisation as a refinement: an abstract ledger that takes an execution at
   most once and sets a status from its own rows, implemented by `FillsSync` step by
   step, with a run that is undone as a stutter.
2. The cleaning of the ledger: that cleaning an order twice changes nothing, and that
   the rows that stay have one entry and no copies.
