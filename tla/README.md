# A TLA+ model of the OKX trading agent and its central risk authority

The repository is a trading system in two halves. A native Rust agent
(`crates/okx-agent`, `crates/okx-execution`) owns the exchange credentials and a
SQLite ledger per account. A Cloudflare Worker (`cloudflare/okx-mcp`), one
Durable Object per installation, owns the policy of the operator and the *risk
book*: how much may still be lost, and which orders have reserved a share of it.
No order that increases risk may reach the exchange unless the Worker reserved
its worst loss and authorised the one POST; and capacity must come back when
the order never left or is over. The two halves talk over one WebSocket that
may drop at any time, and neither may send an order twice.

This directory models that protocol and the parts around it (the ledger's files
and recovery, money, market and account streams, research jobs, the GitHub
mailbox and the host's updates), checks the models with TLC on small instances
and proves the main safety properties with TLAPS for every size of the instance.

## Inventory

| Component | State it keeps | Operations | What makes it correct |
|---|---|---|---|
| Risk book (`risk_book.ts`, `risk_authority.ts`) | book document with sequence, sums and consumed loss; one entry, or no-reserve fence, per intent; loss, account and strategy rows | RESERVE, BEGIN_POST, RESOLVE, RELEASE_UNSENT, INSPECT, ACCOUNT_SUMMARY | sums equal the entries, losses are charged once, the campaign ceiling holds, one authorisation per intent, tombstones are final |
| Governance (`account_governance.ts`, `account_governance_store.ts`) | policy document with a revision; idempotency receipts | enrol, pause, set limits, revise, stop, lower the campaign limit | revisions revoke what is held, policy and book agree |
| Runtime session (`runtime_session.ts`) | connection generation, waiters, slots | accept a runtime, dispatch a request, challenge, deliver risk commands | no command of an old generation counts, no answer crosses sessions |
| Trade execution (`trade_service/execute.rs`) | none that lasts; the control point of each request | execute: plan, prepare, mark, RESERVE, record, BEGIN_POST, claim, send, record the outcome | an order is sent at most once and only while reserved |
| Reconciliation (`trade_service/reconcile.rs`, `strategies.rs`) | none that lasts | status, release of unsent and of terminal orders, the maintenance turn | capacity is returned, and never that of an order that may be live |
| Intent ledger (`ledger/sql/intents.rs`, `orders.rs`) | intents, reserve markers, risk, terminal and release receipts | one SQL transaction per transition | final states are final, one order of unknown outcome per account |
| Risk transport (`risk_bridge.rs`, `cloudflare_transport.rs`) | channel of 32 commands, table of waiters by command id | request with a 5 s timeout, session loss and reconnect | an answer means what its reader thinks it means |
| Account SQL owner (`account_worker.rs`) | FIFO of jobs with deadlines, a backup under way | call, backup, WAL maintenance | a job runs at most once and in order |
| Finance ledger (`ledger/sql/finance.rs`, `projections.rs`, `finance/`) | fills, bills, FIFO lots, NAV points, coverage | ingest, close lots, project | lots are conserved, coverage has no holes |
| Recovery (`recovery.rs`, `storage_commands`) | backups | verify, restore | a restored ledger never sends what the lost one sent |
| Analytics (`analytics/`) | jobs, memory budget, cache | submit, run, page, cancel | the budget is never exceeded and always returned |
| Streams (`okx-runtime`, `okx-ws`, `okx-observation`) | subscriptions, order books, stream sequence | subscribe, apply, detect gaps, resynchronise | a book that is served is gap-free |
| Exchange client (`okx-api`) | rate budget, clock offset | admit, send | the rate limits hold |
| GitHub mailbox (`github_mailbox.rs`, `okx-github`) | request and response files | poll, answer | one answer per request |
| Host control (`okx-host-control`, `okx-host-launcher`) | desired state, job journal, installed slots | converge, update, roll back | an interrupted update is resumed or undone |
| Numerics, protocol types, front ends | - | computations, parsing, routing | - |

What is hard: every `await` of the executor is a point where a lost session can
drop it for good; commands carry ids that retries reuse, so a late answer may
reach a later question; two requests with one idempotency key run at the same
time; the policy changes between any two steps; the process dies around the
send; losses of old orders are reported long after new ones were admitted. The
`hazards` of `PROJECT.json` list these with their lines.

## Modules

The `map` of `PROJECT.json` gives the lines each definition stands for; a helper that
lies inside the lines of a mapped definition is covered by that entry.

The core is the order protocol:

* `GovernancePolicy` - the policy document, its validity, its revisions and its
  projection to limits (`account_governance.ts`), as operators. Amounts are
  naturals; the decimal strings they come from, the names and the wording of
  replies are left out. The caps a real account needs before it can be enabled
  (notional, leverage, daily loss, drawdown) are one flag.
* `Reservation` - the abstract protocol of one reservation: held at most once,
  authorised at most once, resolved or released, then a tombstone; or fenced
  before it was ever held.
* `RiskBook` - the Durable Object's storage and every command on it. An action is
  one `storage.transaction`, so actions are atomic; the guards are the early
  returns of the code in their order of effect. A command that is denied after
  `applyCensusLoss` still charges the loss (`ChargeOnly`), as in the code.
  Censuses are enumerated: any set of accounts, any not yet reported or stale
  cumulative loss, any read time. `Lose` is the environment: an open order loses
  up to what it reserved.
* `TradeExecution` - executor, reconciler, SQL ledger, risk transport, Worker and
  exchange for the risk-increasing orders of one real account. A control point
  of `proc[p]` is a place between two awaits; a SQL call is one step, and reads
  of a row that only a settled row satisfies are merged with the step before.
  The Worker is `Reservation` with the book sequence; budgets, censuses and
  source proofs appear as the freedom to deny. `queue` is the channel with the
  commands under way; a caller that times out leaves its command in it.
* `ProtectionExit` - what happens to one entry after it was acknowledged: status
  turns read it back, verify the attached stop, record the incident, leave an
  unprotected position (cancel, read back, close) and remove the stop of a
  position that is gone, beside the operator's cancel and replace. Two turns may
  run at once: the mutation capacity is a semaphore of 128, and only the row of
  `begin_operation` keeps a POST from being repeated. The stop counts as read
  after the fills, so a fill in between looks like a stop of the wrong size and
  makes a protected position be left; so does one failed read of the stop. The
  histories `late` and `replaced` remember a fill between the flat snapshot and the
  cleanup, and what readback a replacement was opened on. `Stranded` is a marker
  whose POST nobody is left to send. The instances are turns beside users, turns
  with a stop that holds (`Covered`), turns that remove one (`Removing`) and a dead
  stop.
* `RiskCensus` - the census between HELD and the POST: every account of the
  cohort is read again, concurrently, while the exchange changes. Wall-clock
  limits, digests and quantities are left out. With more than eight managed
  protections a census can never be proved.
* `OrderPlan` - `TradeService::plan`: quote, rules, account, fees, leverage, each
  read at its own time, the admission job with the stops it latches, previews
  that write nothing. `Overtaken` lets a thread be preempted between reading the
  date and queueing its job, so that jobs of two dates run in either order around
  midnight; the history `crossed` is the last day in which one of the day before
  ran. Previews have an instance of their own. Stops of kind drawdown and of an
  instance are never resolved in production, and a stop of an instance blocks the
  whole account.
* `EntrySizing` - price and size of an order as operators on scaled integers, with
  every rounding of the code (`Precision`, `FeeUnit`, `UsdUnit`). Sizing by loss has no
  correction loop, so a quotient rounded up in its last digit may exceed the
  budget by one unit of that digit: hence the run with a precise quotient.
* `StrategyTurn` - operators and the turn of a strategy over closed bars, with the
  decision claimed in SQL. `Prompt` says that orders settle and are captured
  before the next turn; without it an order of unknown outcome, or an update on
  the same bar, gives a second position (total risk stays bounded centrally). A
  refused or partly filled close is not repeated on its bar; an instrument whose
  read always fails starves the ones after it in the list.

The ledger and its files:

* `AccountWorker` - the owner thread of the SQLite file: bounded FIFO, deadlines,
  callers that give up, interruption between the transactions of a job, a panic of
  the owner or of the backup thread, the closing of the queue (`Disconnected`),
  maintenance. A backup thread that panics never calls `finish`: its event stays in
  progress in the history, which `InProgressIsUnderWay` excepts.
* `AccountFiles` - ledger file, rotated and commanded backups, manifests, restore,
  a step per rename, copy and removal.
* `StorageRecovery` - the audit of a restored ledger beside the maintenance turn;
  the venue and the book may be ahead of the ledger. `GateOpens` names what can keep
  the gate shut: a backup that grew too old, or an intent that disagrees with the
  venue or the book for good (`Blocked`).
* `FinanceLedger`, `FinanceCapture`, `CapitalBook` - fills and bills in any order and
  any number of times, lots and funding attribution; the capture of the history
  streams by several tasks over shared cursors; capital, valuation and NAV. A
  window of a capture ends at the host's clock and its facts carry the venue's,
  which may be behind by `Skews`: a fact the venue stamps below a watermark that is
  already committed is never read (the history `overtaken`), and a host clock that
  is set back below a watermark leaves a window that can only regress (`Wedged`)
  until the next connection. The properties except these and nothing else.
* `LedgerFacts` - facts from a snapshot and concurrently read bounded histories.
  The functions have no production caller. The exchange is assumed to list a
  finished order in the recent history at the instant it leaves the pending
  list, and to archive before it forgets.

Sources:

* `RateBudget` - rate domains, admission against all domains of a plan or none,
  answers that block, queued reads. The account limit starts at the default of the
  client and changes when the exchange reports one.
* `ExchangeClock` - clock evidence, mutation timing and the way of one order from
  its clock sample to the venue; the wall clock may be set at any moment.
* `MarketStream` - the public WebSocket coordinator: demands, subscriptions,
  generations, order books. A book is its number of changes. A caller of
  `demand_instrument` sends its command and inserts its market in two steps; a market
  inserted while its demand is not active is in the history `stray`, and is the one
  exception of `FreshIsThisConnection` and `NoMarketLeaks`. A demand made while
  connecting costs one spurious reconnect; evicting an instrument with book data
  under way drops the connection; a refused subscription is not retried within a
  generation, so `DemandIsServed` excepts a connection that refused one and stays
  up. The instances are one instrument, and two that compete for one place (`Rivals`,
  `Strays`). Age limits of reads, and reuse of
  sequence numbers after a reset, are left out.
* `PrivateStream` - two sockets of one generation, the journal of account events,
  readers that combine a REST baseline with it. One object per channel; REST is
  current. The convergence reader has no production caller; while a terminal
  event is under way an older open event can bring back a row that REST no
  longer shows; nothing limits the wait for a login the venue never answers. A
  login or an acknowledgement without a connection id is accepted and leaves the
  one that was there.
* `SourceHealth`, `Diagnostics` - the source loop of an account with its window and
  trace, and the read-only diagnosis. The comment at `accounts.rs:54` speaks of 30
  minutes, the window has ten. The identity may rest on a configuration cached
  up to two seconds before the generation began. The clock may step back:
  `CleanWindowIsClean` holds then too, but for attempts stamped ahead of the clock
  when none was made since.
* `AccountRegistry` - connecting accounts to installations that share identity
  leases, a step per file. An account whose connect lost the race for its alias, or
  crashed after its initialisation, can only be connected under its first operation
  id; one whose connect crashed between the `create_new` of its ledger and the
  commit of the schema (`Torn`) not at all, until the file is removed by hand.

Analytics:

* `ResearchJobs` - catalog, tasks under the heavy and memory permits, artifacts and
  the retention that runs at start. Pinning has no production caller;
  interrupted jobs are not run again under the same request. The task of a market
  query whose answer cannot be published ends and leaves its row running
  (`Abandoned`): that row takes one of the 34 places until the next start, and its
  canceller stays in the map. `ActiveHasTask`, `CancellersAreOfTasks` and
  `EveryJobEnds` except it and are checked with such a query.
* `ResultPages` - signed cursors and pages over stored chunks; selectors of
  batches, the MAC and the SHA are abstract.
* `SourceCache` - loads of ranges with per-key locks and permits, pages read
  backwards. A range read before its last bar is confirmed is cached short under
  its key and served so until it is evicted: `NothingSkipped` asks of a range that
  was read that nothing confirmed is missing, and of a hit, against what is
  confirmed when it is served, that at most the last bar is.
* `MarketQuery` - screens, rankings and walks through the universe. Two fields
  only. A partial screen caused by a transient failure is stored as completed
  and served to every later equal request. A client may name the reference
  generation on a page or not; `WalkIsWhole` says what it meets in either case.

The host:

* `IssueMailbox`, `ControlPoll`, `ReleaseFetch` - the GitHub issue as a queue, the
  loop and its delays, the download and verification of a release. After the
  cursor store is lost, more than 1000 comments are refused for good
  (`HistoryLimitExceeded`, reached in the live instance). A refusal of GitHub inside
  an operation becomes a FAIL that is posted at once, Retry-After or not, and the
  loop counts the poll as a success: what the server asked for in such a call is
  kept in `unheard`, and `HonoursRetryAfter` is about what reached the loop of one
  controller; a restart forgets it. Without
  an ETag on either answer a mixture of two objects is assembled; the manifest's
  hashes then refuse it.
* `ControllerUpdate`, `RootMigration`, `HostAgent`, `ProcessLog` - versions of the
  controller, the entrypoint of the scheduled task, the agent process and its
  log. A candidate writes READY and signals the launcher in two steps; without
  the launcher's event the signal is dropped and the candidate runs on. A healthy
  candidate that polls before its commit is finished shuts itself down and may be
  rolled back. A record left by an install request that later failed blocks every
  later one. After two interrupted deployments in a row (`control.cut`) a third
  truncates the only copy of the binary, which `ABinaryIsOnDisk` excepts. An agent
  whose termination failed is in `control.lost`: STOPPED is answered while it may
  still be in the Job. `RootMigration` has an instance with the older bootstrap
  staged (`Bridge`), which may be interrupted between moving the old controller
  away and installing the new one; and a migrator finds the entrypoint open as
  often as the task started it, so that `AcknowledgedIsInstalled` excepts that
  contention (`Contended`). A torn write leaves bytes in the log that are not
  counted; `FilesWithinLimit` and `CompleteIsTrue` allow for those. A rotation that
  failed half way and is repeated drops one archive more.

`RiskBook` implements `Reservation` (property `ImplementsReservation`, checked and proved),
and the Worker of `TradeExecution` implements it too (`WorkerIsReservation`,
checked and proved): the two models meet in that protocol. The native side sends
RESOLVE only to release, so UNKNOWN and OPEN reservations occur in `RiskBook` and not in
`TradeExecution`. `OrderPlan` uses prices from `EntrySizing` only as success or failure;
`SourceHealth` uses a capture of `FinanceCapture` the same way; `MarketQuery` relies on
`ResearchJobs` for the life of a job and on `ResultPages` for its pages; `ControlPoll`
carries the polls of `IssueMailbox`.

### Modules for TLC

Six modules instantiate the components, one per part of the system: `MCRiskBook`
(the risk book), `MCTradeExecution` (the execution of an order), `MCOrders` (exit,
census, plan, size, strategy), `MCBooks` (files, recovery, ledger, captures,
capital), `MCSources` (clock, rate, streams, registry, health, diagnosis) and
`MCServices` (host, GitHub, research, market queries). Each extends its main
component and has an `INSTANCE` of the others, one for every question that needs
constants of its own, with variables of its own. The variable `part` is chosen
initially from the constant `Parts` of the configuration: a behaviour exercises
that one instance, by steps `Move(part, Next of the instance)`, and the others rest in
their first state. A run therefore explores the sum of the instances' states
and never their product; nothing is lost, because the components meet only
through what their own modules model of the others. A property of such a module
is the conjunction of the properties of its instances, each under the condition
`part = ...` that selects the behaviours it is about; the comment before it says
what it means for the code. Instances of one component under different
constants share their variables, as only one of them moves.

An operator `name_mutant` next to `name` is the same operator with a plausible
slip; replacing one by the other makes TLC find the violation named in
`PROJECT.json`. They are not used otherwise.

## Runs

A run marked *violation* states what a document, a comment or an assertion of the
repository says, and TLC shows a behaviour of the code that breaks it.

| Run | Properties | What it shows |
|---|---|---|
| `risk_book` | `StopRevokesHeld`, `CampaignLossHolds`, `TwoIntentsHold`, `ImplementsReservation` | One intent under every revision of the policy and restart of the session, and two intents that compete for the loss of a campaign, over stale decisions and late reports. |
| `trade` | `AtMostOnePost`, `ExposureIsReserved`, `RevokedNeverSent`, `AckedMeansFinal`, `RivalsSendOne`, `TerminalIsFinal`, `WorkerIsReservation` | An order from its request to the release of its risk, with an executor, a reconciler, revisions of the policy, lost commands and replies and crashes; two intents of an account; two executors that race for one intent. |
| `trade_declined` (violation) | `DeclinedMeansNoReservation` | Two executes of one idempotency key: the one whose RESERVE was denied rejects the intent while the other holds its reservation. |
| `orders` | `OnePostPerKey`, `CloseAfterEntryEnds`, `ReceiptsHold`, `UsersAreSafe`, `EvidenceIsOneGeneration`, `LossLimitsHold`, `StrategyIsOrderly` | The maintenance of an entry and its stop by two of its callers and by users, with fills that come late and stops that are removed, the census of the risk, the plan of an order around midnight and its size, and the turns of a strategy, each with its faults and late answers. |
| `orders_live` | `OrdersAreSettled` | An entry without cover is left and its stop removed, but where a marker was committed and its POST never sent; a dead stop is stopped out, every plan ends, every bar is settled and the risk of an order that was never sent is returned. |
| `exit_clock` (violation) | `UncoveredIsLeft` | The marker of the safety cancel is committed before the clock is read; when that read fails no later turn sends the cancel and the entry stays open. |
| `books` | `ClearedKnowsOrders`, `ClearedHoldsCentral`, `CommitsSurvive`, `LedgerBalances`, `CapitalIsReplay`, `HistoryIsWhole` | The restored ledger, the worker and its files with panics and closed queues, the financial ledger, its captures under one clock and two, the capital book and the facts of a readback, each with its crashes, replays and concurrent callers. |
| `books_live` | `BooksSettle` | Accepted jobs are answered, facts of the venue reach the ledger unless a host clock ahead of it overtook them, a quiet readback is accepted and the gate of a restored ledger opens unless an intent blocks it for good. |
| `sources` | `NoLateAcceptance`, `BudgetIsKept`, `StreamsAreTrue`, `RegistryIsSound`, `DiagnosesAreTrue` | The clock of the exchange, the budget of requests, the two streams with their disconnects and demands in two steps, the registry of accounts with its crashes, the health of the sources and the search of an operation. |
| `sources_live` | `SourcesServe` | The streams recover and serve their demands past evictions, refusals and reconnects, every delta is read back, every account is served again, every cycle recorded and every diagnostic request answered. |
| `services` | `CandidateNeedsAck`, `CommittedWasReady`, `ActiveIsAccepted`, `MarketAnswersAreWhole`, `HostIsSafe`, `ControlIsOrderly`, `ResearchIsOrderly` | The update of the controller, the host agent, the mailbox, the polls, the release, the migration and the older bootstrap, the log, the research and market jobs, their pages and sources and the market queries, each with its crashes and faults. |
| `services_live` | `ServicesGoOn` | The controller returns and a handoff that was answered is decided, the wanted agent runs, requests are answered unless the issue outgrows a poll, polls go on, a migration ends, logs are drained, jobs end and a deferral does. |

Bounds. The amounts are small because only their comparisons matter: with a
ceiling of 2 in the part `campaign` of `risk_book` the plans of 1 and 2 compete for
it, and `MaxTime` 3 is the first at which an order that was posted is released and
another held after it. One fault is enough for each loss to fall
between any two steps; liveness runs take two where the recovery itself may
fail. Two executors, turns, capturers, plans or readers are what a race takes; a
third adds no new pair. Limits of the code (a channel of 32, a queue of 128, pages
of 100 rows, 34 jobs, 512 instruments) are constants set just above the point
where they are reached by the instance, so that both sides of the limit occur.
Clocks are bounded by a constant named `MaxTime` or `MaxDay`, chosen above the sum of
the intervals the instance uses; generations, revisions and faults by constants
of their own. The mailbox of the live instance has pages of one comment and three
pages, so that its history limit is passed; the one of the safety instance three
seconds, so that its overlap window slides. The live instances of the exit, the
market stream, the captures and the jobs have the faults of the safety ones: where a fault
ends a promise for good, the property names the state it leaves behind
(`Stranded`, `Refused`, `Wedged`, `Blocked`, `Abandoned`, `Contended`) in place of a
bound that keeps it out. In `orders_live` the channel of the part `trade` holds 3, more than the stale
commands its fault can leave, because a channel that never has room is not a
state the code can stay in. `Q = 2` in `ProtectionExit` is the smallest entry that can be partly
filled; a third contract adds only a second partial fill. Deadlock checking is
off where a bounded instance stops when its revisions, faults and orders are
used up. Symmetry is used only in `risk_book`, over its two intents, which no
definition tells apart.

Fairness. It is stated only in the specifications named `MCFairSpec`, which the
`_live` runs use (and in the `FairSpec` of the components, for their readers), one
conjunct per loop, task or timer of the code, and assumes: a task that can run does run
(tokio, or the one thread of a worker); timers fire, so deadlines expire and
loops tick; a reconnecting transport reconnects for ever; GitHub and the exchange
eventually carry out what they accepted. Strong fairness is used where the step
competes with others for the same thread or connection: the maintenance turn per
intent (`Trade!maintain`, in `orders_live`) and the venue's data between reconnects
(`Demand!VenueServes` and `Rivals!VenueServes`, in `sources_live`). `exit_clock`, a temporal counterexample, is
checked under the same fairness. Faults, denials, fills and operators are never
fair.

## Findings

1. `trade_declined`, `DeclinedMeansNoReservation` (crates/okx-execution/src/ledger/sql/intents.rs:45): Two concurrent executes with one idempotency key both pass the by_idempotency check and share the prepared intent. One has its RESERVE denied and reads NOT_FOUND back; the other's RESERVE, admitted afterwards, is HELD; then the first commits reject_denied_reserve. The ledger says REJECTED with RISK_RESERVE_DENIED, status_intent reports that no release is required, and the HELD reservation is never given back. src/crates/okx-execution/src/ledger/sql/intents.rs:42 says "An explicit central DENIED plus an authenticated address-specific NOT_FOUND readback proves this attempt minted no reservation" and src/crates/okx-execution/src/ledger/sql/intents.rs:4 "A crash or lost ACK cannot orphan the Worker grant."
2. `exit_clock`, `UncoveredIsLeft` (crates/okx-agent/src/trade_service/reconcile.rs:552): begin_operation commits the marker of the safety cancel before the clock evidence and the rate budget are asked (reconcile.rs:563-575); when one of them refuses, or the request is lost, every later turn finds the marker and answers SAFETY_CANCEL_OUTCOME_UNKNOWN (reconcile.rs:556) without sending a cancel, so a partly filled entry stays open and its position without stop. docs/PRODUCT_ACCEPTANCE.md:48 says "Protection failure records STOP and enters the owned cancellation/compensating-close path." The account's stop is still recorded.

## Observations

Behaviours of the code that the models contain and that are at odds with what a
comment, a document or a test says. No run states these sentences; the passing
runs check what holds beside them, and name them as the exception of a property
where they touch one. A name in brackets is that exception, or the constant of the
module that lets the behaviour occur.

* `cloudflare/okx-mcp/src/risk_book.ts:558`: `beginRiskPost` in the millisecond of
  the reservation stores an entry that `validEntry` (line 148) refuses for ever, so
  INSPECT answers NOT_FOUND for capacity that is still occupied (`RiskBook`).
* `okx-agent/src/storage_commands/backup.rs:163`: `restore_stopped` removes its marker
  before its receipt is written; a retry after a crash in between removes the live
  ledger (`AccountFiles`).
* `okx-execution/src/ledger/sql/projections.rs:711`: a snapshot without its manifest
  stops every later rotation (`AccountFiles`).
* `okx-execution/src/ledger/sql/projections.rs:472`: `latch_stop` does nothing for a
  stop that was resolved once, so its second occasion leaves no open stop
  (`FinanceLedger`, `OrderPlan`).
* `okx-execution/src/ledger/sql/finance.rs:1687`: a fill row that names its bill books
  its fee under two keys (`FinanceLedger`).
* `okx-agent/src/source_capture.rs:439`: a capture whose windows end at different
  clocks is COMPLETE; a deposit may count as profit, a funding event may miss its
  fills (`FinanceCapture`).
* `okx-execution/src/ledger/sql/finance.rs:517` and `:650`: a valuation as of a past
  moment reads the present lots; two periods may have one revision, so a summary
  that is COMPLETE may lack a fill of its period [`SummaryLacksOnlyOvertaken`]
  (`CapitalBook`).
* `okx-agent/src/source_capture.rs:347`: the window of a capture ends at the host's
  clock; with that clock ahead a fact may be stamped below the watermark and is
  never read, and when it is set back the unfinished window fails until the next
  connection [`overtaken`, `Wedged`] (`FinanceCapture`).
* `okx-execution/src/account_worker.rs:228`: a backup thread that panics leaves its
  event in progress for ever (`AccountWorker`).
* `okx-execution/src/ledger/sql/schema.rs:57`: a crash between `create_new` and the
  commit of the schema leaves a file that no later connect accepts [`Torn`]
  (`AccountRegistry`).
* `okx-agent/src/trade_service/reconcile.rs:29`: in a restored ledger an order posted
  after the backup is rejected as unsent although the gate is set
  (`StorageRecovery`).
* `okx-agent/src/trade_service/execute.rs:461`: the order is sent with the timing made
  before the ledger was written; `refreshed_for_send` has no caller (`ExchangeClock`,
  which proves that the expiry still protects).
* `okx-host-launcher/src/lib.rs:859`: a reboot between COMMITTED and the removal of
  `pending.json` records ROLLED_BACK for the same request (`ControllerUpdate`).
* `okx-runtime/src/public/coordinator.rs:92`, `:98` and `state.rs:108`: a market that
  its caller inserts before the demand is taken or after it was evicted stays, keeps
  its values over a reconnect and is Fresh when its subscriptions are confirmed
  [`stray`] (`MarketStream`).
* `okx-agent/src/analytics/market.rs:176` and `jobs.rs:245`: an answer that cannot be
  published leaves its job `running` and its canceller in the map, which `jobs.rs:67`
  says holds those of running requests only; a cancel between the row and the
  canceller signals nobody [`Abandoned`] (`ResearchJobs`).
* `okx-agent/src/analytics/sources.rs:75` and `cache.rs:67`: a range read before its
  last bar was confirmed stays short in the cache (`SourceCache`).
* `okx-agent/src/query.rs:128`: a walk whose requests name no generation may miss
  instruments that were listed, or meet ones that were delisted, on the way
  (`MarketQuery`).
* `okx-agent/src/finance_window.rs:101`: after the clock stepped back, and until the
  next attempt, a failing window is OBSERVED_CLEAN, against the comment at line 84
  (`SourceHealth`).
* `okx-api/src/trade.rs:513`: the census compares a sample of the protective orders
  [`SampleLimit`] (`RiskCensus`, where this is proved to be the only gap).
* `okx-agent/src/trade_service/plan.rs:488`: an admission job that was overtaken by
  midnight resolves the stop of the new day, which is not latched again; no later
  admission passes all the same [`Overtaken`, `crossed`] (`OrderPlan`).
* `okx-agent/src/trade_service/strategies.rs:270`: a running strategy cannot be stopped
  once the campaign limit is below its budget (`StrategyTurn`).
* `okx-host-launcher/src/logging.rs:150`: a torn write is not counted in the size of
  the file (`ProcessLog`).
* `okx-host-control/src/runtime.rs:444` and `:198`: a refusal of GitHub inside an
  operation is answered with FAIL at once and followed by `on_success` [`unheard`]
  (`ControlPoll`).
* `okx-host-control/src/executor.rs:934`: STOPPED is answered without a look at the
  Job when there is no child, also after a termination that failed; and an agent
  spawned but not yet assigned to the Job outlives its controller and works on
  [`lost`] (`HostAgent`).
* `okx-host-control/src/executor.rs:825`: the copy of a third deployment truncates the
  only binary left by two that were cut short [`cut`] (`HostAgent`).
* `okx-kernel/src/query_plan.rs:121`: a ranking of 101 to 512 instruments is admitted
  and always fails (`MarketQuery`).
* `okx-host-control/src/root_migration.rs:84`: a resumed migration waits for the
  process that first prepared it and not for its own parent; a migrator that finds
  the entrypoint open gives up, and the next one may find it open again
  [`Contended`] (`RootMigration`).
* `okx-agent/src/trade_service/reconcile.rs:609`, `:652`, `:862`: a safety close that
  fills partly [`CloseOutcomes`], a fill between the flat snapshot and the cleanup
  [`late`] and a failed readback before a replacement [`replaced`]
  (`ProtectionExit`; the last two are proved to be the only ways to their outcome).
  What finding 2 shows of the safety cancel is true of the cleanup's cancel at `:662`
  as well [`Stranded`].


## Proofs

Six modules prove theorems about six components; `RiskCensus` and `RateBudget` hold
their own. Each theorem holds for every value of the component's constants that
satisfies the component's named ASSUME; TLC evaluates the same assumptions for the
instances of the runs (those of `RiskCensus` and `RateBudget`, hypotheses of their
theorems, for the instances in `MCOrders` and `MCSources`). A theorem
`Spec => []P` rests on an inductive invariant `IInv` with a lemma for the initial
states, one lemma per action (or per group of actions with one effect) and one for
the whole next-state relation. `IInv` was checked with TLC on the runs' instances
before it was proved.

### `TradeExecutionProofs`

Assumed: the bounds are naturals with at least one revision; executors and
reconcilers are different processes.

* `TypeCorrect`: `Spec => []TypeOK`;
* `PostedAtMostOnce`: `Spec => []AtMostOnePost`;
* `ExposureReserved`: `Spec => []ExposureIsReserved`;
* `AcknowledgedIsFinal`: `Spec => []AckedMeansFinal`;
* `RevokedIsNeverSent`: `Spec => []RevokedNeverSent`;
* `AtMostOneUnknown`: `Spec => []OneUnknown`;
* `TerminalStaysFinal`: `Spec => TerminalIsFinal`;
* `WorkerImplementsReservation`: `Spec => WorkerIsReservation`.

None of these is inductive by itself. `ExposureIsReserved`, for one, fails if a
release is on its way for an order that could still be sent: so the invariant
`IInv` (theorem `Invariance`) says what each place *knows*. A row that says
REJECTED_UNSENT was never begun (`Unsent`); one whose order is over left nothing
at the exchange (`Settled`). A release command in the channel, and a reconciler
that waits for one, knows that its intent is `Unsent` or `Settled`; a reservation
is final only for such intents; an executor at the claim knows that the row is
POSTING with nothing sent, and is alone there. `Later` states how a step may
change an intent without taking that knowledge away: both facts are stable, a
grant stays, a final reservation stays final. `ProcKeep` and `QueueKeep` then
carry every other process and command over a step, so that each action only has
to show `Later` and what its own process knows next. Late answers need no case of
their own: an answer is sound for whoever waits under that id for that intent
(`AnswersOK`, `Told`).

`RevokedIsNeverSent` needs a second invariant over `IInv`, because a retry that
arrives late may be authorised again, under a newer revision, after its order was
revoked. `RevInv` orders the revisions: agent, SQL and Worker know them in this
order (`RevOrder`); the account's revision in SQL is at least that of every row,
every process and every command under way (`RowRev`, `ProcRev`, `QueueRev`); a
revoked row is older than the Worker's revision, and once it is authorised all the
same it is older than SQL's too and not begun (`RevokedRev`). So the `begin_post`
that would use the late authorisation finds a newer revision than its row's and
refuses. `AtMostOneUnknown` follows because the
one action that creates an unknown exposure tests that there is none, and every
other one lets the set of them only shrink (`RowsOnward`).

`WorkerImplementsReservation` needs in addition that what is POSTED was granted;
`TerminalStaysFinal` that a terminal row has its terminal receipt.

### `RiskBookProofs`

Assumed: `FiniteAssumption` (finitely many accounts and intents), `PlanAssumption`,
`BoundAssumption` and the policy's `RealAssumption` (an intent has a real account,
plans have positive amounts, the installed ceiling is positive, bounds are naturals,
the enumerated requests are of their types).

* `BookTypeCorrect`: `Spec => []TypeOK`;
* `TotalsAreSums`: `Spec => []OccupancyIsSumOfEntries`;
* `LossesCountedOnce`: `Spec => []ConsumedIsReportedLoss`;
* `CampaignCeilingHolds`: `Spec => []CampaignLossBounded`;
* `CampaignHolds`: `Spec => []CampaignLossHolds`, the conjunction the run checks;
* `OneCampaignCeiling`: `Spec => []CampaignCopiesAgree`;
* `OccupiedIsCovered`: `Spec => []OccupiedAccountsRegistered`;
* `StoppedIsNeverPosted`: `Spec => []StopRevokesHeld`;
* `SequenceNamesOneBook`: `Spec => SequenceIsVersion`;
* `BookImplementsReservation`: `Spec => ImplementsReservation`.

`IInv` has three named parts besides the properties: `Shape`; `Lifecycle` (a fenced
intent has no entry, POSTED is dated, no entry is newer than the policy);
`Revocation` (what a stop found HELD was made under an older revision, which
`beginRiskPost` refuses; or the stop changed nothing because no real account was
enabled, and then nothing is authorised before the next revision). Every command is
reduced to what it does to one entry and to the sequence; the last three theorems
need no sum.

The first five rest on a second invariant, `Sums`. `Counted`: every total is the sum
of the entries it stands for; `saveEntry` moves each by what its entry counts for
more than before (`SavedCounted`). `Losses`: what an account reported lies between
what its released orders lost and what all of them lost; an open order lost no more
than it holds and an intent without entry nothing. `Bounded`: the losses of the
closed orders and `occupied_usd` are within the ceiling. The lower bound in `Losses`
is the point: `campaignRoom` tests what was *charged*, which may lag behind what was
lost, and the ceiling holds only because nothing closes before its loss is charged
(`ClosedIsCharged`): a terminal ledger holds it, and an order that was never sent
lost nothing. The same lemma covers a lowered limit, which is tested against the
charge too.

What a sum does is derived from its definition as a fold over a finite set
(`SumUnfolds`): it does not depend on the order of the elements (`SumRemoves`), it
moves with one element (`SumMoves`), it splits over disjoint sets and by key
(`SumUnion`, `SumByKey`), it is monotone (`SumAtMost`). The induction principle these
need (`NatInductionSet`, `SubsetInduction`) is stated for a *set* of naturals or of
subsets instead of a predicate, and the minimal counterexample comes from the
well-foundedness of the order on naturals, so that no theorem with an operator
parameter has to be instantiated.

### `StorageRecoveryProofs`

Assumed: the age of a backup an audit accepts (`Limit`, 89 days in the code) is less
than the days for which the exchange keeps an order (`Retention`); intents are
finite; there is at least one storage generation.

* `RecoveryTypeCorrect`: `Spec => []TypeOK`;
* `ClearedLedgerKnowsOrders`: `Spec => []ClearedKnowsOrders`;
* `ClearedLedgerHoldsCentral`: `Spec => []ClearedHoldsCentral`.

The pages, the archive, the book and the receipts are read one after the other
while orders move. `Evidence` says what each reading still proves later
(`LostIsReserved`, `ArchiveReaches`, `HistoryHolds`, `BookHolds`, `ReceiptsHold`).
It works because, while the gate is set, every source moves one way only: no new
order is sent, orders go on to their end, reservations are only given back.
`ClearedHoldsCentral` is the delicate one: the audit compares counts, and two sets
of one size are the same set only because one contains the other; the lemma uses
the cardinality theorems of finite sets.

### `ExchangeClockProofs`

Assumed: durations are naturals, skews and jumps integers (`ClockAssumption`).

* `ClockTypeCorrect`: `Spec => []TypeOK`;
* `EstimateIsTight`: `Spec => []EstimateWithinRoundTrip`;
* `NeverAcceptedLate`: `Spec => []NoLateAcceptance`.

The invariant relates the sample to the exchange's clock at its two ends, so the
midpoint is off by at most half the round trip, whatever the wall clock did; and an
expiry computed from it, so a request the exchange takes has not expired.

### `ProtectionExitProofs`

Assumed: `ExitAssumption` (the entry has at least one contract; turns are not
operators; outcomes and faults are among those the model names).

* `ExitTypeCorrect`: `Spec => []TypeOK`;
* `PostedOncePerKey`: `Spec => []OnePostPerKey`;
* `ClosesAfterEntryEnds`: `Spec => []CloseAfterEntryEnds`;
* `ReceiptsStayTrue`: `Spec => []ReceiptsAreTrue`;
* `StopTakenOnlyByLateFill`: `Spec => []KeepsNeededStop`, a fill between the flat
  snapshot and the POST of the cleanup is the only way in which an open position
  loses its stop;
* `ReplacedUnreadOnly`: `Spec => []ReplacementStartsFlat`, a failed readback is the
  only way in which a replacement is opened beside fills of its target.

`KeyInv` makes the owner of a key unique between its row and its POST; `EndInv` and
`StopInv` say what each process has seen of the entry and of the stop and that it
stays true (an ended entry does not fill, a removed stop does not return);
`FlatInv` and `ReplaceInv` carry the position over the window between reading and
sending. The last two theorems state the window of two observations above exactly:
where no fill came late and no readback failed, the stop is kept and the replaced
order left nothing.

### `ControllerUpdateProofs`

Assumed: `UpdateAssumption` (the first version is one; scripts are sequences of the
controller's operations; `None` is no version).

* `UpdateTypeCorrect`: `Spec => []TypeOK`;
* `CandidateWaitsForAck`: `Spec => []CandidateNeedsAck`;
* `CommitsWereReady`: `Spec => []CommittedWasReady`;
* `ActiveWasAccepted`: `Spec => []ActiveIsAccepted`.

The launcher decides from copies of files that controllers rewrite. `AckInv`: an
acknowledged record belongs to a handoff whose PASS was posted; `CopyInv`: no
controller changes an acknowledged record, so the launcher's copy is the record;
`AnsweredInv`: a controller that is about to mark a record acknowledged has posted
the PASS of that very request;
`SideInv`: the version in charge is the record's previous or candidate, and the
previous one until the acknowledgement; `ActiveInv` says which of the two at each
place of the launcher; `ReadyInv`: a proof of readiness on disk was given. Together
they carry the accepted version over a rollback or an abort cut short at any file.

### `RiskCensus`

Assumed: `CensusAssumption` (objects are orders, positions, conditional orders or
conversions; a conditional order has a scope; protections are managed objects).

* `CensusTypeCorrect`: `[]TypeOK`;
* `CensusIsAfterHeld`: `[]EvidenceAfterHeld`;
* `CensusIsOneGeneration`: `[]OneGeneration`;
* `ForeignOnlyBeyondSample`: `[]ForeignIsBeyondSample`.

The accounts are read concurrently and piece by piece while the exchange moves, so
the invariant says what a piece proves once it is old. `GenerationInv`: every answer
came from a generation between the first and the present one, so when these are
equal at the attribution there was no reconnect in between. `SteadyInv`: what has
been at the exchange since HELD was there when its part or its scope was read, so
it is among what was seen; the attribution then leaves it only if it is a
conditional order outside the sample. `NoForeignThroughout`, which the run checks
with a sample that holds all conditional orders, is the case without that gap.

### `RateBudget`

Assumed: `RateAssumption` (limits, windows, the longest deferral and the longest wait
are positive; reported account limits, Retry-After values and the bounds are
naturals; operations are those of the clients).

* `RateTypeCorrect`: `[]TypeOK`;
* `WindowLimitHolds`: `[]WindowLimit`;
* `BudgetExact`: `[]BudgetCountsAdmissions`;
* `ThrottleRespected`: `[]NoneWhileThrottled`;
* `QueueWaitBounded`: `[]WaitIsBounded`.

`admit_at` decides from the stamps it kept, not from what was sent, so the invariant
has to say that the two agree. For the window alone that is not inductive: the next
tick, and the next prune, ask about a later start. `Tracks` says it for every start
inside the window; pruning a prefix then loses only stamps that no such start counts
(`PruneKeeps`, by a bijection between the stamps before and after), an admission adds
one on both sides in every domain of its plan (`AppendCounts`, `Admitting`), and a
deferral, which prunes too, adds none. The limit is then what `admit_at` tested: the
length of the pruned window bounds the number of its stamps. A plan may have been made
under another account limit than the one before it; `WindowLimit` therefore charges
each admission with the limit of its own plan, which is the one the code tests.
`Blocks` says that a throttle that has not lapsed still blocks its domains: another
throttle never shortens it (`Until`), and admission clears only blocks that lapsed.
`CallerOK` keeps the wake-up time of a sleeping read within its caller's wait.

### What is left to TLC

Liveness (fairness and ENABLED are out of the prover's reach). Recursive definitions and
the properties of the modules that use them. The properties of the composite runs
whose components have no proof: `UsersAreSafe`,
the plan in `EvidenceIsOneGeneration`, `LossLimitsHold`, `StrategyIsOrderly`, `CommitsSurvive`,
`LedgerBalances`, `CapitalIsReplay`, `HistoryIsWhole`,
`StreamsAreTrue`, `RegistryIsSound`, `DiagnosesAreTrue`, `MarketAnswersAreWhole`,
`HostIsSafe`, `ControlIsOrderly`, `ResearchIsOrderly`. The composite modules only put
independent components side by side, so a theorem about a component's
specification is about the same actions as the run. `RivalsSendOne`, `TwoIntentsHold`
and `BudgetIsKept` say of particular instances of `TradeExecution`, `RiskBook` and
`RateBudget` what the theorems above state for all of them.

## Not modelled, and abstractions worth knowing

* The exchange is an environment: it accepts, rejects, drops, fills and cancels
  as it likes, and an explicit refusal means that there is no order. An answer
  that accepted the order but lacks its `clOrdId`, or has not exactly one row, is
  recorded as REJECTED by `execute.rs:490`. The model does not have that answer and
  no hazard lists it: whether the exchange can give it is not in the repository.
* Clock skew between Worker and agent: the Worker stamps with its own clock and
  `RiskBook` has only that one; the native read floors in a census are any earlier
  time.
* `TradeExecution` assumes that a ledger call answers. Its deadline, and a job that
  commits after its caller gave up, are in `AccountWorker`.
* `ProtectionExit` has one entry and one position; the release of its capacity is in
  `TradeExecution`. Fees, slippage and the price of the close are left out.
* The Worker's MCP front end, OAuth, tool schemas, request parsing: no protocol
  state of their own. The dispatch of read requests by the Durable Object (waiters,
  slots, freshness challenge) and the idempotency receipts of policy mutations are
  TypeScript code whose actions are not modelled, and no hazard is listed for them.
* Statistics, indicators, kernels and the risk metrics of `okx-analysis`: decimal and
  floating-point computations out of TLC's reach.
* Wire types and their validation: what they carry is in the commands and
  answers of the models. Bridges and the command line forward requests.
* Logging, wording, digests and signatures, except where a property is about them
  (`ProcessLog`, `ResultPages`, `ReleaseFetch`).

## What is left

1. `GovernanceStore`: mutations with idempotency receipts, retries and conflicting
   keys over `GovernancePolicy`.
2. `RuntimeSession`: dispatch, read queue and slots, freshness challenge, generation
   switch at every await, composed with the agent's side of the session.
3. Further proofs, in this order: `AccountFiles` (no committed row is lost by a
   backup or a restore), `HostAgent` (one agent at a time).
