# A TLA+ model of the Wyckoff trading backend

This directory holds the formal model of the stateful core of `backend/src`: what
the program does between two events, in which orders its steps may happen, and what
it may never do. Paths below are relative to `backend/src`.

## 1. The system

Market data comes in through a realtime client; pattern detectors turn bars into
Wyckoff patterns; the intraday campaign detector groups patterns into campaigns and
announces what happens to them; a scanner service runs the analysis of a watchlist in
the background; signals wait in an approval queue or are executed, by the automated
execution service, by the auto-execution engine on the paper account, or by the
broker router. Everything runs as coroutines on one asyncio event loop (with Redis
and PostgreSQL behind some of the services), so steps interleave at every `await`
and nowhere else.

| Component | State it keeps | Operations | Interacts with |
|---|---|---|---|
| Automated execution service (`trading/automated_execution_service.py`) | mode, kill switch, adapter, pending orders, execution log | `execute_signal`, `enable`, `disable`, `activate_kill_switch`, `reset_kill_switch`, `set_adapter` | risk gate (call), platform adapter (awaited calls), campaign events (input) |
| Risk gate (`risk_management/execution_risk_gate.py`) | none | `check_risk_values`, `check_order` | called by the service and by the router |
| Intraday campaign detector (`backtesting/intraday_campaign_detector.py`) | campaigns, state index, time-window index, heat alert state, trend snapshots | `add_pattern`, `add_patterns_batch`, `expire_stale_campaigns`, `mark_campaign_completed`, queries | correlation mapper (call), event publisher (callback) |
| Correlation mapper (`campaign_management/correlation_mapper.py`) | none | symbol to category, sector, group | called by the detector |
| Auto-execution engine and daily counters (`services/auto_execution_engine.py`, `services/daily_counters.py`) | a user's configuration, counters per user and day in Redis | evaluate, execute, reserve, roll back, reset; update, enable, disable, kill switch | configuration repository, Redis, paper account |
| Signal scanner service (`services/signal_scanner_service.py`, `api/routes/scanner.py`, `api/main.py`) | lifecycle state, stop event, task of the scan loop; `is_running` in the database | start, stop, scan cycle, boot, shutdown | database, orchestrator, kill switch and breaker (awaited calls) |
| Loss circuit breaker (`services/circuit_breaker_service.py`) | loss count and state in Redis | record a result, reset | consulted neither by the engine nor by the scanner `main.py` builds |
| Broker router and adapters (`brokers/`) | kill switch, adapters | route, close all | risk gate, brokers |
| Paper trading (`trading/paper_trading_service.py`, `tasks/paper_trading_tasks.py`, `api/routes/paper_trading.py`) | account, positions, trades | execute a signal, update and close positions, enable, disable, reset | repositories, one commit each |
| Signal approval queue (`services/signal_approval_service.py`, `tasks/signal_approval_tasks.py`) | queue rows | submit, approve, reject, list, expire | database, WebSocket |
| Realtime scanner (`pattern_engine/realtime_scanner.py` and its queue and breakers) | bounded priority queue, a breaker per symbol | receive a bar, process, stop | feed client (callback), detectors |
| Feed client (`market_data/realtime/client.py`) | connection, subscriptions | connect, reconnect | provider |
| WebSocket hub (`api/websocket.py`) | connections, sequence numbers, message buffer | broadcast, recover | all services |
| Campaign service (`campaign_management/service.py`, `repositories/campaign_repository.py`) | campaign rows with a version | create, add a position, change status | database |
| Pattern, phase and signal algorithms, backtesting engine, orchestrator, notifications, API, ORM, frontend | no shared state of interest | | |

The hard behaviours: calls that interleave between a check and the act it allows;
answers that are lost after the platform acted on them; an operator who stops the
system in the middle of a call; timestamps that arrive out of order; limits at
their boundary; a failure between a state change and the event that announces it.
`PROJECT.json` lists every such hazard at its line.

What makes each component correct:

* **Execution service**: the kill switch stops retries and new orders; an order at
  the platform risks less than 2% of the platform's balance; the risk sums overshoot
  their limits by a bounded amount however calls interleave; the list of pending
  orders misses no live order; a report disagrees with the platform only after a
  lost answer; every call returns.
* **Campaign detector**: campaigns move only forward in their lifecycle and no more
  than the limit are open; the indexes agree with the campaigns; the phase is what
  the patterns say and never regresses; the correlation limits hold; subscribers are
  told the truth about how a campaign ended.
* **Auto-execution engine**: a user's day exceeds its limits by no more than the calls
  in flight and the failures of Redis explain; the counters never understate the day;
  reservations keep the limit; no evaluation begun under the kill switch trades.
* **Signal scanner**: one scan loop at most, owned by a scanner that runs or stops; only
  the kill switch ends it unasked; the stored flag is what the scanner does, so that a
  crash is recovered from; a stop returns and is obeyed within one symbol.
* **Approval queue**: a signal is decided once, one call is told so, and what clients
  hear is what is stored; the queue is bounded; nothing stale stays pending.
* **Paper trading**: between calls the account is what its positions and trades say, but
  for calls that failed half-way or overlapped; a closed position has its trade, and a
  second one only for a reason that is counted; the heat limit is overshot by one position
  per overlapping or failed call; a reset is final.
* **Realtime pipeline**: a bar accepted is processed or counted as dropped; an open
  breaker is left only through a successful test.
* **Campaign repository**: no update is lost.

## 2. The modules

| Module | Models | Kind |
|---|---|---|
| `AutomatedExecution` | the execution service, the risk gate's `check_risk_values`, the platform | specification |
| `AutomatedExecutionProofs` | theorems about it | proofs |
| `MCAutomatedExecution` | values of its constants | model |
| `CampaignLifecycle` | what a campaign detector promises about campaign states | abstract specification |
| `CampaignLifecycleProofs` | theorems about it | proofs |
| `CampaignDetector` | the intraday detector; implements `CampaignLifecycle` | specification |
| `CampaignDetectorProofs` | theorems about it, the refinement among them | proofs |
| `MCCampaignDetector` | values of its constants | model |
| `AutoExecutionEngine` | the engine, the user's configuration, the daily counters | specification |
| `AutoExecutionEngineProofs` | theorems about it | proofs |
| `MCAutoExecutionEngine` | values of its constants | model |
| `SignalScanner` | the scanner service, its requests, boot, shutdown and crashes | specification |
| `SignalScannerProofs` | theorems about it | proofs |
| `SignalApproval` | the approval queue and its expiry task | specification |
| `SignalApprovalProofs` | theorems about it | proofs |
| `PaperTrading` | the paper account, its background task and the operator's requests | specification |
| `PaperTradingProofs` | theorems about it | proofs |
| `MCPaperTrading` | the symmetry of its calls | model |
| `SumTheorems` | lemmas on sums over finite sets | proofs |

### AutomatedExecution

A coroutine gives up the loop only at an `await`, so one action is the code between
two awaits. `pc[t]` says at which await the call in slot `t` stands:

* `balance` ... `correlated` are the queries of `_run_safety_checks`, `create` what
  follows them: sizing, validation, the entry in `_pending_orders`, and the first
  pass through the head of the retry loop. That is one action, `CreateOrder`,
  because the code has no await between them.
* `gateHeat`, `gateBalance`, `gateCampaign`, `gateCorrelated` are the queries of one
  attempt, `submit` the verdict of `check_risk_values` on what was read, followed at
  once by `place_order`. `cleared[t]` holds the keys found below their limit: it is
  what the local variables of the attempt amount to, and it may be stale by the time
  of `Submit`. `"trade"` is the order's own risk, `"portfolio"` the heat.
* `placing` is the outstanding `place_order`. `PlatformFills` is the platform
  executing it; `PlaceSucceeds` the answer; `AttemptFails` a reported failure, an
  exception or a timeout, whether or not the platform executed the order.
* `sleeping` is the retry delay, `cancelling` the `cancel_order` of a failed order.

The operator's calls are synchronous, hence single steps. The fail-closed defaults are
kept: an adapter without a heat query, or an unreadable balance, counts as 100%; a
campaign or correlation query that is not supported is not checked. Percentages are
compared by cross-multiplication in integers. `fills`, `sentSinceKill` and `lost` are
history variables: no guard reads them.

What the model assumes of the world:

* the balance the platform reports is constant; the caller's may be anything;
* an ENTRY or ADD adds the order's risk to the three sums of its symbol, an EXIT
  closes the symbol's position (exits are sized by the same formula in the code; the
  platform is external and what it does with the surplus is not the service's);
* a platform that executes an order does so before the caller learns that the attempt
  failed, or never: no fill arrives after a timeout was reported;
* a slot is reused only when its last order has left the list of pending orders, which
  keeps one order per slot visible to the properties.

Left out: `set_adapter` while a call is in flight, an event without a campaign id (its
campaign query is skipped like an unsupported one), cancellation of the coroutine
itself, and the execution log.

### CampaignDetector

The detector is synchronous, so each call is one action, with everything it calls:
`AddPattern` is the expiry, the search, then either `Join` or `Open`. A batch is its
single expiry and one action per pattern with nothing in between, so that invariants
are also checked between the patterns. `View` is the store's value at some point
inside a call; the helpers take a view and return the next, which keeps the order of
the code's updates. A campaign is its position in insertion order, which is the order
`_find_active_campaign` searches. `told` is a history variable: the state the last
lifecycle event of a campaign announced.

The data is abstracted to what decisions compare: a pattern is its kind, whether its
quality activates a campaign, its price and its low. The cached validation is not
modelled apart from the validation: the cache's key is the sequence of kinds and so is
everything the result depends on. `DORMANT` is never assigned by the code and is left
out, and so is the `EXCEEDED` alert state, which is published but never stored.
The rate limit of the alerts runs on the wall clock, so it may end at any moment
(`RateLimitEnds`).

Left out: the trend snapshots themselves (their verdict is a choice, `RejectByTrend`),
volume analysis, strength scores, statistics and queries, and
`update_phase_with_bar_index`, an entry point of its own that no modelled call uses.

### AutoExecutionEngine

One user. An action is one statement of the database or one Redis command or pipeline;
`pc[c]` is the command a call waits for. Redis keys carry a date that is computed when a
command is issued, so `Midnight` makes every command in flight `late`: it reads nothing
and writes what nobody reads. A command issued after midnight names the new day, also
when what it undoes was counted on the old one; `counted` tells which reservations are
in today's counters. `ResetCounters` is the admin's reset and the expiry of the keys,
which may come up to a second early because the time to live is truncated.

A failing command (`Fault`) reads as zero or is not applied, as the `except` branches of
`DailyCounters` have it; a failing reservation is applied and its answer lost, the worse
of the two cases. `_check_circuit_breaker` always passes in the code and is left out. The
confidence, pattern and symbol checks are one set of admitted signals, `config.admits`.

`opened`, `openedRisk`, `reserved`, `uncounted`, `stray` and `exposed` are history
variables; all but the last are about the day and start again with it. `uncounted` are
the engine's failed commands, `stray` the decrements no increment of the day answers to,
`exposed` the engine's calls that had read the configuration when the kill switch was
activated. Nothing in `src` calls `reserve_execution`; the caller is
modelled from its docstring, which tells it to roll back when the execution fails.

### SignalScanner

The action is the code between two awaits: `loop[t]` is the await at which the scan loop
run by task `t` stands, `pc[c]` that of a `start()` or `stop()`. The reset of the stop
event, the creation of the task and `RUNNING` are one action, `CreateLoop`, and so are
`STOPPING` and the stop event. The loop checks the stop event in `NextCycle` and
`NextSymbol` and nowhere else. `Cancel` is the forced cancellation after the graceful
timeout. The flag `is_running` outlives `Exit` and `Crash`, everything else is memory.

The service is modelled with its kill switch and breaker, whose answers are choices.
`main.py` builds it without them, and then both checks pass at once.

### SignalApproval

One user's queue; an action is one statement, committed at once, with the event sent
after it. `since` is a pending row's `submitted_at`, its place among the rows created, which
is what an eviction looks at. A decision acts on the row it has read, `dec[c]`; whether it still is
pending, the conditional update tells (`Decidable`). Time is abstracted to `stale`, the
signals whose `expires_at` has passed. A signal is submitted once. The model has a
WebSocket manager; the service that the expiry task constructs has none
(`tasks/signal_approval_tasks.py:99`), so its passes announce nothing.

### PaperTrading

Every call reads the account once and writes its copy back whole; `call[c].copy` and
`task.copy` are those copies. An action is one statement and its commit, except that
`disable` and `reset` commit all they do together. The heat is kept as the risk in money, before its division
by the equity. All signals are alike: one share, bought at `Market` and the slippage, with
the stop and the target of the constants.

`ClosePosition` models what the code does: `_close_position` gives the position the exit
reason as its status (`trading/paper_trading_service.py:448`), `STOP_LOSS`, `TARGET_1` or
`TARGET_2`, the row is committed, and building the result raises because
`PaperPosition.status` (`models/paper_trading.py:112`) allows none of them. The task logs
the error and goes on; the account is never credited.

Any statement may fail, and what a call committed before it stays:

* `ExecuteFails`: `execute_signal` commits the position
  (`trading/paper_trading_service.py:125`) before it reads the heat and writes the account
  (131-133). When one of these raises, the caller reports a failure
  (`services/auto_execution_engine.py:230`), the position stays, and the account has
  neither paid for it nor counted its risk.
* `PositionFails`: a statement of one position fails, the task logs it and goes on
  (`tasks/paper_trading_tasks.py:177-185`). When it is the write of a position whose trade
  was committed (445, 451), the position stays open and the next pass trades it again.
* `PassFails`: a statement of the pass fails, or the session is in error after one that
  did: the pass is over and the account not written (198-205).
* `DisableFails`: the request fails before its one commit, and nothing has happened.

A process that dies is all calls at work failing: nothing else is kept in memory.

The history variables say what may be missing and why: `crowd` is the set of calls that
overlap another; `unseen` counts the positions a heat check may not have seen, `unpaid` those the
account may not have paid for, `repeats` the reasons for a second trade, and `loose` is the set of
trades of disables that overlapped. A call that neither overlapped nor failed adds to none of them.

Left out: `PaperTradingService.update_positions`, the same loop over the stored prices and
without error handling around each position; the position updater and the background
task's registration, which nothing in `src` calls; `_fetch_current_price` returns `None` in
the code, and the model lets it return any price as well; two `enable` requests at once,
which could create two account rows; performance metrics and archives.

## 3. The runs

| Run | Shows | Result |
|---|---|---|
| `AutomatedExecution` | two concurrent calls, six requests, one retry, all properties of the service, that every call returns under `FairSpec` among them | holds, about 364,000 states |
| `KillSwitch` | "stops all execution immediately" | violated: the attempt in progress goes out |
| `HeatLimit` | "Portfolio heat validation (10% max)" | violated: two calls read the heat before either fills |
| `CampaignDetector` | all properties of the detector and the refinement of `CampaignLifecycle` | holds, about 700,000 states |
| `CampaignEvents` | formation and activation of open campaigns are published | violated: the batch publishes neither |
| `CompletionEvents` | a completion is published | violated: a rally's bar is a dict, and the metrics raise |
| `AutoExecutionEngine` | all properties of the engine and its counters | holds, about 1,880,000 states |
| `SignalScanner` | all properties of the scanner, two of them liveness | holds, 1,540 states |
| `ManualStart` | after a failed boot the "scanner can be started manually" | violated: it stays STARTING |
| `SignalApproval` | all properties of the approval queue, one of them liveness | holds, about 1,000,000 states |
| `PaperTrading` | all properties of the paper account | holds, about 3,850,000 states |
| `PaperExits` | "Close position and update account" | violated: an exit at the stop is not credited |

**Bounds of the execution runs.** Two slots are what every property needs at least: the
overshoot and the interleavings with the kill switch are between one call and another
actor. One retry gives a resent order, and with it every way through the retry loop: a
failure that is tried again and one that is not. The account has a balance of 1000 and a
heat of 9.9%, so that one fill of 1.8% closes the gate for what reads it after and every
fill above the limit has read the heat before; in the run `HeatLimit` it is 8.2%, so that
one call alone reaches the limit exactly and only a second one passes it. Of the modes
that can be enabled, `EnabledModes`, the runs have `PAPER`: the code treats all but
`DISABLED` alike. The six requests are a normal trade, one sized with
twice the balance (its risk fails the gate), an exit, a trade of exactly 2% (sized,
then blocked), a stop on the wrong side, and a balance too small for one share. The
limits are the code's: 2, 5, 6, 10 and 20 percent.

**Bounds of the detector runs.** `MaxPatterns = 3` caps the patterns recorded in all
campaigns; the model stops there, so deadlock is not checked. Times are days 0, 2, 4
and 5 in any order, with a window of 1, a gap of 2 and an expiry of 4: a pattern on day 5
joins a campaign of day 4 and expires one of day 0; campaigns of days 0, 2 and 4 are
apart from each other and all alive on day 4, so a third one meets `MaxConcurrent = 2`;
and a campaign of day 4 that an earlier pattern of day 2 joined is beyond the gap on
day 5 while still in its window. Two symbols in different groups, sectors and categories
meet limits of one per group and per sector. The heat limit of 3%
makes one campaign of 2.1% fit and two exceed it, through all alert bands.
`MaxCategoryPct = 100` turns the concentration limit off: with two symbols any lower
value is a group limit of one. Batches have two patterns, the shortest in which the
expiry by the last pattern matters.

**Bounds of the engine run.** Two engine calls are what a check-then-act needs, and one
reserving caller competes with them. Signals risk 1 or 2; one trade a day and a risk of 3
are limits that two calls pass together and a third meets. One failing command
(`MaxFaults`) is enough for each way a counter can be understated; the bounds of the
properties count failures, so that more of them change the sums and not the cases.
`MaxCounter` stops reservations once the risk counter has passed it, since lost answers
raise it without end. Days are unbounded: everything about a day starts again with it.

**Bounds of the scanner run.** Two requests can hold one `start` and one `stop` each while
boot and shutdown have a slot of their own; two tasks are what a second loop needs. Three
symbols give a first, a middle and a last one. Two database errors and one crash.

**Bounds of the approval run.** A queue of one is the smallest that is full, and two
submissions are the smallest number that exceed it; the third signal is evicted or
expires while two decisions race for it.

**Bounds of the paper runs.** Two calls at once (`MaxBusy`), of two signals, the task and
the operator, so that every pair of them overlaps, and any number one after the other; any
number of failures; one reset; two positions and two trades; and four rows of accounts and
positions (`MaxRows`), which is both accounts and both positions. A reset may come before,
between or after the two positions. The prices are chosen so that both limits bind: a position risks 14 of 906, below 2%; one of them fits
the heat limit (2% here, 10% in the code, where seven positions would be needed to reach
it), a second does not, and gets past it only through a call that overlapped or failed.
Two trades are a position's exit and its repetition, or a disable of two positions. The
fetched prices leave a position open or hit its stop; hitting its target takes the same
path with another reason. The model stops when the rows and trades are used up, so deadlock
is not checked.

**Fairness.** In `AutomatedExecution`, `FairSpec` is weak fairness on each call's own steps, the platform's
answer included: the event loop resumes every coroutine whose await is answered, and
asyncio's sleep ends. The service sets no timeout on the adapter's calls, so that the
adapter answers or raises is an assumption the code does not enforce; without it a
call hangs. Nothing is assumed of the operator or of callers.

In `SignalScanner` it is weak fairness on each step of the loop and of `start` and `stop`
(the event loop resumes its coroutines, sleeps end, the database answers or raises), and
on booting and exiting: somebody restarts the application. `Cancel` has no fairness:
`StopReturns` holds without the timeout that forces it, because the loop obeys the stop
event. In `SignalApproval` it is weak fairness on the background task, which wakes after
every sleep, and strong fairness on the pass's update: the database does not fail every
pass for ever. Requests get no fairness in either.

**Mutants.** Each property of a passing run has a mutated definition in its module,
marked `Mutant:`, that changes one mapped definition as a plausible bug would and
breaks that property.

### What the violations say

* The kill switch is read at the head of an attempt. Up to four awaits follow before
  `place_order`, and the order goes out although the switch was activated meanwhile.
  `KillSwitchStopsRetries` states what does hold: at most one order per call.
* Both heat checks compare the heat as it was read, without the order and without what
  other calls are about to add: two calls that read 8.2% take it to 11.8%.
  `OvershootBounded` states what does hold: less than one trade (2%) per concurrent call
  above the limit.
* `add_patterns_batch` opens and activates campaigns silently, except for activations
  by a strong rally. The run looks at open campaigns only, so that it is the batch it
  finds and not the failed completion of the next point.
* `mark_campaign_completed` on a campaign begun by an automatic rally raises after the
  state change and before the event.
* When the database fails while the application boots, `start()` leaves the scanner
  `STARTING`. Every later `start()` returns at once, the stop route does nothing because
  the scanner is not running, and only a restart of the process helps. A failing `stop()`
  leaves it `STOPPING` in the same way. `CrashRecovers` names these states as `Wedged`.
* A pass of the paper trading task closes a position and never credits the account:
  `ClosePosition` above. `ExitsCredited` asks for the proceeds only while nothing has failed
  or overlapped; the run ends with one position opened, stopped out, and an account about
  to be written without its proceeds. The unit test that verifies the capital
  (`backend/tests/unit/test_paper_trading_service.py:1119-1152`) passes because its
  repositories are mocks that never build the model which refuses the status.

Two more observations are part of `LiveOrdersTracked` and not violations of anything
the code says: an order stopped by the kill switch and one rejected by the gate stay in
`get_pending_orders` for good. And `PhaseMatchesPatterns` states the exception that one
out-of-order pattern freezes a campaign's state and phase until it expires.

### What the properties say that hold

The bounds name what the code lets happen:

* `DailyTradesBounded`: the engine checks before a trade and counts after it, so the limit
  is passed by one trade for each other call in flight, for each failed command and for
  each reservation rolled back or used on another day's counters.
  `ReservationsWithinLimit`: counting first, as `reserve_execution` does, leaves only the
  last of these.
* `OneAnalysisAfterStop`: a symbol's analysis may begin after the stop event is set, once.
* `QueueBounded`: `submit_signal` "Handles queue size limits by expiring oldest signal if
  full" (`services/signal_approval_service.py:67`), but submissions that overlap may evict
  the same row, each time leaving the queue one longer, for good.
* `ExpiryAnnouncedLate`: a signal that was approved can be announced as expired, by the
  pass that listed it before or by a second approval that read it too late (161-170).
* `LedgerAgrees`: a call that fails after its position was committed leaves the account
  without its cost, and of two calls that overlap the later write undoes the earlier one.
  Nothing else may be missing: the account is what it is for some choice of such positions
  and trades.
* `RepeatsBounded`: a position is traded twice when its row could not be written after its
  trade, when a stale write of the task opens it again, or when two calls close it at once.
* `HeatBounded`: each overlapping call may add a position above the limit, so may each call
  that fails after its position was committed, and each stale write of the task may open a
  closed one again.

And what was met on the way and is part of the models without being a run:

* `LedgerAgrees` counts only the exits of `disable`: those of the task bring the
  account nothing (run `PaperExits`). The integration test works around it with `"STOPPED"`
  (`backend/tests/integration/test_paper_trading_flow.py:202`).
* A position's slippage is subtracted twice from its unrealized result, once in the entry
  price and once as a cost; and equity leaves out what the open positions are worth, so it
  can fall below zero, after which `get_account` raises for every call.
* `main.py:443` "Auto-restarts scanner if it was running before shutdown" holds after a
  crash only: a graceful shutdown stops the scanner and clears the flag.
* When the kill switch ends the scan loop, the scanner stays `RUNNING` without a loop
  (`LoopSurvivesErrors` excepts this), and the flag stays set.
* A cycle that is skipped or has no symbols is not recorded, though the docstring at
  `services/signal_scanner_service.py:948` says always.
* An approval answers "Signal approved and executed" (`signal_approval_service.py:218`)
  while the execution is a placeholder; an eviction is never announced; nothing in `src`
  calls `submit_signal`.

## 4. The proofs

Every safety invariant and every action property that a passing run checks is also a
theorem, and so is the refinement: TLC shows each on a small instance, TLAPS for every
value of the constants that satisfies the assumption of the module. `PROJECT.json` lists
the theorems with the properties they state.

The assumptions are `ExecutionAssumption`, `DetectorAssumption`, `EngineAssumption`,
`ScannerAssumption`, `ApprovalAssumption` and `PaperAssumption`; TLC evaluates each on its
run. They say what the code's types and configuration give: limits, counts and prices are
naturals, slots and sets that are counted or summed over are finite, names that must
differ do. Three say more:

* `ExecutionAssumption`: every risk sum starts below its limit. A platform handed over
  with more open risk than that is above the bound before the service does anything.
* `DetectorAssumption`: group, sector and category are known for the same symbols, because
  the mapper answers for any symbol; and of the patterns only a spring has a low to set
  the support by.
* `PaperAssumption`: the stop is below the market price and the target above, so that an
  opened position has a risk.

One theorem has a hypothesis of its own: `PhaseAlwaysMatches` assumes `MinPatterns > 1`.
With a minimum of one, a campaign that a single pattern opens has enough patterns and
still forms, since `add_pattern` looks at the minimum when a pattern joins and not when
one opens a campaign. The default is 2 (`backtesting/intraday_campaign_detector.py:603`),
and nothing in the backend asks for less.

A call is a choice among many actions, so each module of proofs first says which steps
leave which variables alone, proves its `TypeOK`, and then an invariant per theorem.
Where a property is not inductive, this is what is missing:

**AutomatedExecution**

* `StageInv` ties the stage of a call to what it has done, and is used by all of these.
* `KillSwitchStopsRetriesAlways`: by `KillInv`. `sentSinceKill[t] <= 1` is not
  inductive; what is missing is that a call standing at a gate query has sent nothing
  since the activation, because it passed the head of the loop before. Only `Submit`
  counts, and it leaves the gate stages; the only way back is through the head, where
  the switch is read.
* `PlacedRiskBoundedAlways`: by `GateInv`. A cleared `"trade"` key means the risk was
  compared with the platform's balance, and the quantity does not change after.
* `OvershootBoundedAlways`: by `ExposureInv`. A call is *armed* for a key when it found
  the sum below its limit and its order has not filled in this attempt. Each armed call
  keeps room for one trade: the sum stays below the limit plus one trade for each call
  that is not armed. Arming is possible only below the limit, where there is room for
  all; a fill uses one armed call's room; a retry disarms and has to read again. So a
  call that fills several times, after lost answers, is still paid for each time by a
  reading below the limit.
* `LiveOrdersTrackedAlways` and `ReportsAlwaysMatchPlatform`: by `ReportInv`, which says
  for each stage of a call what state its order is in and whether it is listed
  (`OrderOf`), and that every execution but the current attempt's is one whose answer was
  lost (`FillOf`): the count of fills never exceeds the attempts, and without a lost
  answer it is what the order's state says.

**CampaignLifecycle and CampaignDetector**

* `ConcurrencyAlwaysBounded` and `EndingsStayFinal` are about the abstract lifecycle.
* A call of the detector changes the store many times. Its helpers take a view of the
  store to the next, so the lemmas are about views: `Sound(v)` is the invariant at any
  point inside a call, one lemma for each thing a call does (`ExpiredSound`, `JoinSound`,
  `OpenSound`, `CompletionSound`) says that it keeps it, and `InvStep` puts them together.
  What each call does to the campaigns alone is summarised as `Changing`: some open
  campaigns expire, then one is joined or opened, or one is completed.
* `IndexesAlwaysConsistent`: every view lists a campaign where its state says
  (`Listed`). `SetState` and `Expired` are all that moves a campaign, and both move it in
  the indexes with it; the expiry finds its candidates in an index, which is right because
  the index was.
* `PhaseAlwaysMatches`: besides the property (`Fits`) each campaign is `Grown`: while its
  patterns are in order, its phase is not ahead of the one they call for. Without it a
  campaign whose phase is only ever raised might stay ahead. An order once broken stays
  broken, and one more pattern in order never calls for an earlier phase
  (`PhaseAdvances`), which is also what `PhaseNeverGoesBack` rests on.
* `EndingsAlwaysAnnounced`: the event is part of the view, and the state changes that
  publish none are the ones the property names.
* `CorrelationAlwaysBounded`: expiring and completing only shrink the set that shares a
  group or a sector, joining keeps it (the symbol of a campaign does not change), and
  opening adds at most one where `_check_correlation_limits` has found room for it, over
  the campaigns the expiry has left.
* `DetectorImplementsLifecycle`: by cases of `Changing`. `AddPattern` expires and then
  joins or opens, which is one step of the lifecycle, and so is each pattern of a batch;
  `DetectorKeepsPromises` composes it with the theorems of the lifecycle: never more than
  `MaxConcurrent` campaigns open, and an ended one never changes.

**AutoExecutionEngine**

* `KillSwitchAlwaysStops`: by `KillInv`. While the switch is on, every call that has its
  configuration and has not traded is in `exposed`.
* `ReservationsAlwaysWithinLimit`: by `ReservedInv`. The trade counter covers what is
  reserved and what is about to be given back, but for stray decrements.
* `DailyTradesAlwaysBounded`: by `CountInv` and `PassedInv`. The first: what was opened is
  counted, about to be counted, lost to a failure, or taken away by a stray decrement. The
  second: the positions and the calls admitted and not yet done are within the bound.
  A call is admitted on a counter below the limit, where by the first what is missing
  from the counter is itself bounded (`Room`).
* `CountersAlwaysCoverPositions`: by `CountInv` and `RiskInv`, the same for the risk,
  where each call adds its signal's and each failure or stray decrement hides one
  signal's at most.

**SignalScanner**

* `LoopAlwaysOwned`: by `CallInv`. No lock keeps `start` and `stop` apart; what does is
  the state each of them sets before its first await, so that one call is at work at a
  time and its stage agrees with the state, the stop event and the task.
  `LoopAlwaysSurvives` follows from it and from what the loop's own steps do.
* `FlagAlwaysMatches`: by `FlagInv`. The flag is behind the state only between a call's
  own two steps.
* `OneAnalysisAfterStopAlways`: by `LateInv`. Once an analysis has begun after the stop
  event, no loop stands before another.

**SignalApproval**

* `SignalsAreDecidedOnce` and `OneWinnerAlways`: every statement that decides settles
  pending rows only (`Settles`); who wins a signal makes it decided, so nobody can again.
* `ExpiryAlwaysAnnouncedLate`: what a decision or a pass has read as expired has expired
  (`ReadInv`), and it announces after the statement that leaves none of it pending.
* `QueueAlwaysBounded`: by `RoomInv`. A submission that overlaps no other finds, when it
  creates its row, the room it has seen; or the row it read as the oldest is still
  pending and its eviction makes room, or somebody else's decision has made it.

**PaperTrading**

* `ClosedAlwaysHaveTrades`: by `TradeInv`. Between the two commits of a close the trade is
  there, or a reset has deleted both. `DeletedAccountsAlwaysStayDeleted`: a write finds
  its row by the id, and ids are not used again.
* `Basis` is what the other three rest on. `AloneInv`: a call outside the crowd is alone;
  `ListedInv`: what a pass or a disable has to do are positions there are; `OwnInv`: a call
  outside the crowd that was to write to a position finds it as it read it.
* `RepeatsAlwaysBounded`: by `RepeatInv`. The open positions that have a trade already and
  are not just being closed (`Left`) are counted in `repeats` before they are traded again;
  what a call that is alone trades is open, and so either in `Left` or without a trade.
* `LedgerAlwaysAgrees`: by `LedgerInv`. `LedgerAgrees` speaks of the account between calls;
  the invariant says of every call's copy what it may lack (`Explains`): positions of failed
  and overlapping calls, those of calls that have yet to write the account (`Pending`,
  `Ahead`), and whole disables that overlapped. A write makes the copy the account. The copy
  of a call that is alone lacks nothing that is pending, since that is its own position.
* `HeatAlwaysBounded`: by `HeatInv`. The account's risk covers the open risk beyond one
  position for each one `unseen` (`RiskInv`), unless a call that has saved its position is
  about to write a copy that does (`WriteInv`); when that call fails, its position is
  `unseen`. A call outside the crowd passed the check with a copy that still covers it
  (`SaveInv`).

`SumTheorems` has the lemmas on sums over a finite set that the engine and the paper
account need (adding and removing an element, two functions that agree or dominate each
other). The sum of the community module is a fold, hence a recursive function; its
induction is by a least counterexample, from the well-foundedness of the naturals.

Only model-checked: the liveness properties `CallsReturn`, `StopReturns`, `CrashRecovers`
and `StaleSettles`, because fairness and ENABLED are out of the prover's reach. The runs
that expect a violation have no theorem: what they check is false.

## 5. The plan

Done: the six detailed specifications and the abstract lifecycle, and a theorem for
every safety invariant, action property and refinement their runs check. None of the
modules uses a RECURSIVE operator, so all can be proved about. Next:

1. An abstract specification for two more components, refined by the detailed one and
   proved: a day's budget of trades that `AutoExecutionEngine` spends, exceeding it by the
   overshoot; a row of the approval queue that leaves `PENDING` once, for
   `SignalApproval`.
2. The lemma that is behind `Wedged` in `SignalScanner`: from a scanner left `STARTING` or
   `STOPPING` by a failed call no request leads back.

Not modelled:

* the realtime pipeline (`pattern_engine/realtime_scanner.py`, its queue and breakers),
  the broker router, the feed client, the WebSocket hub, the campaign repository and the
  loss circuit breaker: components of their own that keep state, with hazards listed in
  `PROJECT.json`; they come next in this order;
* the composition of the engine with the paper account: the engine's model lets a trade
  succeed, fail, or fail after its position is saved, which is all that the engine sees;
* the numerical pattern and phase algorithms, risk arithmetic, scoring and the validation
  chain: real-valued inputs, and no state shared between steps;
* the backtesting engine besides the campaign detector: a sequential replay of bars;
* notifications, the remaining API, persistence mappings, scripts and the frontend: I/O.
