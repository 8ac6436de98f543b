# A verification development for AutoCoinTrading

AutoCoinTrading runs four spot-trading bots (alt coins and BTC, on OKX and
Upbit), two market-data streams, an analysis collector, a Telegram listener and
a watchdog, each as a process of its own, next to a process manager and a set
of reports. This directory models the parts whose correctness depends on order,
failure and restart rather than on arithmetic, checks the models with TLC on
small instances and proves the most important facts with TLAPS for every value
of the constants.

Contents: [Inventory](#inventory), [Plan](#plan), [Modules](#modules),
[Runs](#runs), [Bounds and fairness](#bounds-and-fairness), [Proofs](#proofs),
[Disagreements found](#disagreements-found), [Not modelled](#not-modelled).

## Inventory

| component | state it keeps | operations | talks to |
|---|---|---|---|
| OKX alt bot, `ma_crossover_bot.py` `run_bot` | balances of the pass, per-symbol memory (entry price, entry count, partial-exit flags, cooldown clocks, confirmations, trailing marks), the day's result | start, pass, visit of a symbol, buy path, sell path, bookkeeping, date change | exchange, trade history, notifier, logs |
| alt exit decisions, `core/risk/alt_exit.py` | none | trigger priority, share, promotion to a full sale, orderable test | called by the alt bots |
| alt position lifecycle, `core/positions/` | the alt bots' memory | apply a buy or sell fill, clear a position, hold an unrecoverable one | called by the bots |
| trade history and recovery, `trade_history_logger.py`, `settings/state_recovery.py`, `core/runtime/bootstrap.py` | an append-only file per day | log a fill, replay the fills into positions, sum up a day | bots write, restarts read |
| order execution, `core/execution/` | OKX: none; Upbit: request times in lock files, caches | market orders, amount rounding, rate limits, retries | exchanges |
| strategy, `core/strategy/` | none (thresholds) | entry and exit funnels, signals, timing | called by the bots |
| allocation and risk, `core/risk/`, `settings/portfolio_allocator.py` | cached cost basis and fill quality | size a buy, close a symbol to entries | trade history, exchange |
| Upbit alt bot, `upbit_ma_crossover_bot.py` | as the OKX alt bot, and the arm of a trailing exit; a position is one by value | as above | as above, balance snapshot |
| BTC bots, `okx_btc_ema_trend_bot.py`, `upbit_btc_ema_trend_bot.py` | one position in stages: add-on count, partial take profit, trailing arm, three clocks | enter, add on, halve, close | as above |
| market data, `core/market_data/`, `*_market_data_stream.py` | snapshot and health files, candle buffers | receive, merge, write, reconnect; read if fresh | exchanges, bots |
| regime guard, `settings/market_regime_guard.py` | cached regime | classify, refresh | exchanges |
| process manager, `bot_manager.py` | PID files | start, stop, status | every process |
| watchdog, `tools/auto_recovery_watchdog.py`, `tools/healthcheck.py` | restart times in a state file | health report, gate, restart, record | process manager |
| Telegram listener, `reporting/telegram_command_listener.py`, `listener_runtime.py` | update offset, slots of the scheduled reports | take updates, answer, incident buttons, scheduled reports | every log, process manager, incidents |
| incidents, `tools/incident_manager.py` | one JSON file all programs rewrite | register, group, change the status | every program |
| log retention, `tools/log_archive_manager.py` | - | archive and delete old logs, trade logs included | trade history |
| logs, reports, backtests, maintenance | files | append, aggregate, replay | - |

A bot is one thread. It reads the balances once per pass
(`ma_crossover_bot.py:488`), visits its symbols in order, decides an entry
before an exit, sends at most one market order per visit and books the fill in
memory first (`apply_alt_buy_fill_state`, `apply_alt_sell_fill_state`) and in
the trade history second (`trade_history.log_fill`). Any exception in a visit
goes to one handler (`:2739`) that logs it and moves on. A restart rebuilds the
memory from the history alone; the exchange's balances decide whether there is
a position. What makes the system hard is therefore between two copies of the
same fact: balances in the bot and at the exchange, fills in memory and in the
history, orders sent and orders executed.

What must hold, per component:

* alt bots: never buy into a position, never sell more than they hold, respect
  cooldowns, partial exits and the daily loss limit across restarts, and sell
  a position whose price stays below its stop; what a falling price takes out of
  the Upbit bot's sight is still known to the history;
* BTC bots: add to a position and halve it a bounded number of times, and are
  never bolder after a restart than before it;
* recovery: gives back the entry price, flags and clocks the bot had;
* allocation: the cost replayed from the history differs from that of what is
  held only where a record, a crash or a deletion made it differ, and a buy
  stays within its asset's share but for that, although another process trades;
* streams: a silent session is closed and replaced, one never found silent is
  not, a stop request ends the process;
* Upbit calls: request intervals hold over all processes, and no process keeps
  the others waiting for long;
* process manager and watchdog: one copy of each program, restarts limited, a
  dead program comes back;
* Telegram listener: an update is handled once and lost only by a crash or a
  disk error between its offset and its handler, an ignored error stays silent,
  a report is sent once unless its slot could not be saved.

`PROJECT.json` lists every hazard with its line and the properties aimed at it,
or the reason there is none yet.

## Plan

In this order; a part marked done is in the modules below.

1. done: `AltExit`, `AltLifecycle`, `StateRecovery`, `AltBot`: the OKX alt bot,
   its exits, memory, history and recovery; type correctness and the position
   invariants proved.
2. done: `Watchdog`: process manager, health report and watchdog, with the limit
   on recoveries and the single copy proved.
3. done: `UpbitRest`: shared rate limiter and retried calls, with the interval
   proved for every number of processes.
4. done: `UpbitAltBot`: the same memory and recovery with a position test by
   value, a balance snapshot, calls sent twice and the trailing exit.
5. done: `BtcLifecycle`, `BtcBot`: staged entries and exits of the two BTC bots
   over the shared recovery.
6. done: `SpotPosition`: what a bot promises about one position, implemented by
   `UpbitAltBot` and `BtcBot` through refinement mappings.
7. done: `Portfolio`: two processes sizing orders from one account and from the
   trade history that retention prunes.
8. done: `WsStream`: a stream process with its client, watchdog thread and
   signal handler.
9. done: `Listener`: offsets, buttons, incidents and scheduled reports.
10. done: the proofs of `AltBot` that need its memory, history and observer
    together.
11. done: the same for `UpbitAltBot` and `BtcBot`, and that both implement
    `SpotPosition`; `WsStream` and `Listener`.
12. done: `Portfolio`, with the facts about folds over histories and sums over
    assets it needs.
13. done: `AltBot` and `UpbitAltBot` proved for every share that splits and
    partial exits sell; `Watchdog` proved with operators beside the watchdog;
    recorded estimates in `Portfolio`, the gap between look and close in
    `WsStream`, and errors the loop survives in `Listener`.
14. next: parts of the components listed as partly modelled, such as the re-seed
    thread of the OKX stream and `stop --force`.

## Modules

| module | models | state |
|---|---|---|
| `AltExit` | exit triggers and their priority, shares, promotion, rounding | none |
| `AltLifecycle` | what a bot remembers of a symbol and how fills, visits and time change it | none (records) |
| `StateRecovery` | a symbol's trade history as the accumulator of `restore_program_position_states_as_of`, and the memory rebuilt from it | none (records) |
| `AltBot` | the thread, exchange, history, clock and faults | see below |
| `AltBotMC` | values of constants for TLC | |
| `AltBotProofs` | facts about the pure operators, type correctness, the positions invariant; memory, history and account agree: restarts, cooldowns, partial exits, loss limit | |
| `UpbitAltBot`, `UpbitAltBotMC` | the Upbit alt bot with one symbol, over `StateRecovery` | as `AltBot`, and the price, the balance snapshot and the trailing arm |
| `UpbitAltBotProofs` | belief, history and account agree; the promise of `SpotPosition` | |
| `BtcLifecycle` | memory, exit decisions and recovery of a BTC position | none (records) |
| `BtcBot`, `BtcBotMC` | the BTC bot of either exchange | as `UpbitAltBot`, and the stages of the position |
| `BtcBotProofs` | entry price, restarts, permitted buys, the promise | |
| `SpotPosition` | the abstract promise of a bot about its position | open, add-ons, partial sales, lost knowledge |
| `Portfolio`, `PortfolioMC` | `portfolio_allocator` in two processes, the trade history files and their deletion | account, records, the visit of each process |
| `PortfolioProofs` | facts about replays and sums, types, what the replay can get wrong, budget | |
| `WsStream` | a stream process: `run_forever`, the watchdog thread, SIGTERM | see the module's head |
| `Listener` | the listener's loop and `incident_manager` in every program | offset, batch, incident file, report slot |
| `WsStreamProofs` | types, only silent sessions found | |
| `ListenerProofs` | types, updates and reports once, ignored incidents | |
| `UpbitRest`, `UpbitRestMC` | `call_upbit_with_retry` over `UpbitSharedGroupRateLimiter` in several processes | lock files and their content, flocks, the call of each process |
| `UpbitRestProofs` | types, interval, bounded sleep | |
| `Watchdog` | `start_program`, `handle_stop`, the health report and the watchdog's rounds | processes, PID files, calls, recovery state in memory and on disk |
| `WatchdogProofs` | types, limits on recoveries, one copy, PID files | |

How `AltBot` corresponds to the code:

* `at`, `loaded`, `snap` are the position in the symbol loop,
  `account_balances_loaded` and `account_balances`. `StartPass` is the head of
  the `while` loop with the date check and the balance query; `FetchFails`,
  `HoldUnrecoverable`, `Wait`, `SubmitBuy` and `SubmitSell` are the ways a visit
  can go. Everything the visit does to its memory before it decides is
  `Visited`.
* `mem[m]` is the row of a symbol in the dictionaries of `run_bot`. Prices are
  abstracted to lineage: `price` is the set of buys averaged into
  `entry_price`. Times are ages in ticks.
* `order` is the order in progress: `sent` while the thread is in the request,
  `filled` when the exchange executed it, `acked` when memory has the fill.
  `Record` is `log_fill` and what follows it.
* `held`, `lots` are the exchange's truth, which the code never sees directly.
  `lateBuys` and `lateSells` are orders that execute after the bot stopped
  waiting for them.
* `ledger[m]` is the trade history of a symbol, kept as the fold
  `restore_program_position_states_as_of` computes, so that `Start` reads it
  through `RecoveredMemory`; `today` is the sum over the day's records.
* `recorded`, `missed`, `lates`, `cut` and `misread` are observers: what an ideal
  reader of the records would know, how many fills the history misses, how many
  orders the bot stopped waiting for, which symbols have a sale that left
  something else than its reason says (`LeavesAsTold`: a partial exit leaves a
  position, any other none, as `state_recovery.py:109-129` takes it), and which of
  those the bot restarted with. No action of the code reads them.

Choices that stand for data: a visit's market-only gates (indicators, regime,
allocation, minimum order value, the stop-loss context) are one choice of
`candidate`; the exit triggers that fire are one choice from `SignalSets`. An
exception after the cleanup of a visit has the effect of `Wait`. That the bot
never adds to a held position is not written as a guard anywhere: it follows
from `UpdateEntryTiming`, which resets the confirmations of a held symbol, as in
`core/strategy/timing.py`.

How `UpbitAltBot` corresponds to the code: it shares `AltLifecycle` and
`StateRecovery` with `AltBot`, as the two programs share the code, and has the same
actions. `IsPosition` is a value at the current price
(`upbit_ma_crossover_bot.py:693`), so `PriceMoves` can take a holding out of sight;
`Visited` then forgets it, and when the price brings it back `Unrecoverable` leaves
it alone, as lines 743-770 do. `view` is the balance snapshot of the stream
process: `BaseFree` is `get_private_balances`, which asks the exchange only when
there is no snapshot. `Visiting` waits for a balance change on its way (`coming`), because
the loop sleeps for seconds; a change that a stopped stream misses is never reported.
`ResponseLost` is an executed order whose response is lost, which the
retried call may send again. `armed` and `armedOnRecord` are the trailing arm in memory and
in the replay. `blinded` counts positions lost from sight; `cut` and `misread` are as
in `AltBot`.

How `BtcBot` corresponds to the code: `venue` chooses between the position tests
and balances of the two programs, whose passes are otherwise the same. A pass
sees a set of facts (`FactSets`) that stands for EMA, ATR, regime and committee
arithmetic; what depends on the bot's own state (confirmations, clocks, stage, loss
limit, minimums) is in the guards. The entry funnel comes before the add-on funnel
and the exit; `Evaluate` is `evaluate_btc_open_position`. `AddOnNotRecorded` is the
record of an add-on, which raises (see below), so every add-on is missing from
the history; `unrecorded` counts them until a restart makes them `missed`.

`SpotPosition` allows: opening what is closed, `MaxAddOns` add-ons, `MaxParts`
partial sales, closing. A slip is a fill or a balance the bot or its history lost, a
holding it lost from sight, or a restart misled by a split. Each allows one more set
of add-ons and partial sales, and once there was one, an entry may meet an open
position and start its counts anew: the promise is strict for a bot that knows its
position and weak after that. Partial sales are counted together; that each kind is
taken once is `PartialExitOnce`. The mappings are `open <- held > 0`, the
add-ons and parts of the executed orders, and `slips <- missed` (with `blinded` and `misread` on
Upbit), so the promise is about the account and not about what the bot believes.

How `Portfolio` corresponds to the code: `history` is the sequence of records of
the trade history files in the order of their days, `Logged` the replay of `get_current_cost_basis`. A visit is
`Refresh` (files), `Decide` (balances and `Approved`), `Buy` or `Pass`, and `Record`,
with the other process in between. A buy is recorded with `order_value / last_close`
coins (`ma_crossover_bot.py:2287`, `okx_btc_ema_trend_bot.py:1385`) and fills with what the
order book and the fee leave of it: `BuyFilled` chooses the two prices apart. A sale records
the amount sold out of the real balance. So the two drift, and after a sell-off the replay
keeps a remainder, or forgets one too early. `Prune` is the daily deletion. Observers are
`cost`, what the coins were bought for; `understated` and `overstated`, the assets of which
the files were given too little or too much since they were last right; `excess` and
`missing`, how far the cost that a visit counts is from the true one. Sales are worth their
price: that Upbit takes the fee of a sale from the proceeds moves cash, which the allocator
reads from the exchange.

How `WsStream` corresponds to the code: one step of the main thread for each
statement that the watchdog thread or the handler can fall in between, with the
two critical sections of `_active_app_lock`. Python runs a signal handler in the
main thread, so `SigTerm` inside a section waits for itself (`hung`). `FindIdle` is the
watchdog's look at the time of the last message and `CloseIdle` its close, with the state
file and the log written in between (`upbit_ws_client.py:218-226`): a message that arrives
there does not save the session. `fresh` is the observer of that.
`asked` remembers where the first stop request found the main thread.

How `Listener` corresponds to the code: a change of the incident file is `Load`,
`Truncate` and `Write` of `job[p]`, because `write_text` truncates first and nothing
locks. Updates are numbered as Telegram does and are gone below the highest
offset asked for. The offset is saved before the handler runs
(`TakeUpdate`, `reporting/telegram_command_listener.py:2553`). A restart button stops, then
starts a program; a target that is the listener stops itself. `DiskFails` are the errors of
a log line or a file that the two handlers of the loop survive (`:2585`, `:2594`):
`TakeFails` after the offset advanced in memory (`:2552`), `HandleFails` before the handler,
`UpdateFails` at the incident file, `ReportsFail` before, between and after a report and its
slot. What they lose without a crash is in `dropped` and `unsaved`.

How `UpbitRest` corresponds to the code: `Throttle` is `throttle` of the shared
limiter, one action for each call that another process can see the effect of
(flock, read, sleep, truncate, write, unlock), because a process can die after
any of them and the kernel then drops its flock. `Finish`, `Retry` and `TryAgain`
are the loop of `call_upbit_with_retry`. The clock is the monotonic clock, which
`Reboot` restarts while the files stay. `granted` is an observer. The interval is
kept between the clock readings of the limiter; how long a request takes to reach
Upbit after the lock is given back is outside.

How `Watchdog` corresponds to the code: each caller of `bot_manager.py` has a
program counter in `call`, with one step per process listing, spawn and PID file
operation, because other callers run in between. `Listed` is
`merge_with_pidfile_processes`, which keeps one entry per program. A listing is
atomic, and removes the PID files of ended processes as `list_managed_processes`
does. Before it runs `ps`, Python's `subprocess` waits for the watchdog's ended
children, and only then; until then they are `zombies`, which `os.kill(pid, 0)`
finds alive. `Handlers` are the stream programs, which install a SIGTERM handler
and may outlive it; `Unlogged` is the Telegram listener, whose log the report does
not look at. A round of the watchdog is `BeginRound` (report, `_read_state`,
`now_ts`), `Skip` or `RestartStops`, `RestartStarts`, `Verify` for each target, and
`WriteState`. Observers are `recoveries`, the rounds in which each program was recovered;
`unwritten`, those the watchdog died in; `raced` and `astray`, the programs for which two
callers were between their look at the process list and their act at once. Only recorded recoveries are
limited, because only they are counted (`_record_recovery_attempt`,
`tools/auto_recovery_watchdog.py:192`): a restart that failed is tried again in the
next round.

## Runs

| run | question | shows |
|---|---|---|
| `alt_faults` | OKX alt bot, two faults of any kind, three buys, one symbol | types, one lot per order, no oversell, restart transparency, exact entry prices, one partial exit each, no buy before a cooldown is over |
| `alt_pair` | two symbols and one daily result, midnight, restarts, a falling price, exits that sell half of a position whose half can be too small to sell | no buy past the loss limit; the falling position is sold, also when only a promoted sale can do it |
| `upbit_alt` | prices that hide a position, a stream that stops, a repeated call, crashes | exact entry prices, a history that knows what the bot forgot, buys only when allowed, the promise of `SpotPosition` |
| `btc` | both exchanges, add-ons, halves, restarts, stale balances | exact entry prices, cautious restarts, buys only when allowed, the promise, a stop loss that is sold |
| `portfolio` | two processes, recorded estimates, crashes, deletion of old logs | the replay errs only to the side it was pushed to; the budget is kept but for that error |
| `upbit_rest` | three processes, one group, a retry, a reboot, deaths and failures under the lock | interval kept, sleep bounded, lock given back |
| `stream` | peer silent or hanging up, failing callbacks and health writes, two SIGTERMs | only sessions found silent are closed, silence noticed, a stop ends the client |
| `listener` | crashes, failing calls, disk errors, torn files, bots writing incidents | handled once, dropped only between offset and handler, a report repeated only when its slot was not saved, ignored stays silent, every update reached |
| `watchdog` | the watchdog with programs that die, hang and outlive SIGTERM, and its own death | a program that is down comes back |
| `watchdog_operator` | an operator starting and stopping meanwhile | recorded recoveries stay within cooldown and hourly limit; two copies or a lost PID file take two callers that both looked before either acted |
| `alt_split` | split ratio of `.env.example` | violation of `BasisSurvivesRestart`, see below |
| `btc_pyramid` | an add-on, a restart, another add-on | violation of `AddOnOnce`, see below |

Exceptions are part of the properties and said there. They are the places where the
code has no protection, and `PROJECT.json` names them as hazards:

* `NoOversell`, `RestartTransparent`, `BasisExact` and others of the alt bots except
  symbols with an order the bot stopped waiting for or a fill the history misses, and,
  where they speak of a restart, symbols with a sale that left something else than its
  reason says;
* `BudgetKept` has no case excepted, but a term for the cost counted that is not there
  (`excess`) and the cost not on record (`missing`);
* `OneCopy` and `PidFileKept` except programs two callers worked on at once, and the
  latter the watchdog's death between start and file; `RecoveriesLimited` the one round
  the watchdog dies in;
* `StopEndsSession` excepts stop requests that find the main thread holding the lock or
  about to enter `run_forever`, `SilenceNoticed` sessions whose watchdog died,
  `NoHealthyClose` a message between look and close;
* `IgnoredStaysSilent` excepts lost changes of the incident file, and `HandledOnce` two
  faults.

## Bounds and fairness

`MaxBuys` bounds buy orders, `MaxFaults` faults, `MaxLoss` the daily result and
`AgeCap` ages. Three buys are enough for a lost buy, a buy after it and one after
a restart; two faults for every pair such as a lost response and a crash. Ages
saturate above the longest cooldown, so a larger cap adds nothing. Amounts are
eight units of which a share is one half, a step two units and the minimum order
two, so that a fill below the estimate leaves remainders below and above the
minimum (6.1 million states). In `alt_pair` a position is nine units and the minimum order four: a
partial exit sells four, and half of the five left is below the minimum, so that the stop
loss of the remainder sells only because it is promoted (0.8 million states). One of its two
symbols falls. The fault kinds are the failing calls of the code: balance query
(`:489-496`), any other query (`:2739`), a rejected order, a lost answer, an
answer or a timeout before the execution (`core/execution/okx.py:238-255`), an
exception in bookkeeping, and the death of the process.

`FairSpec` assumes weak fairness of the thread, because every request has a
timeout and the loop catches every exception, and of the exchange, which
executes or refuses a market order. Nothing is assumed of restarts, prices or
faults.

`UpbitAltBot`: two buys, one fault, two price moves; the prices are one at which a
holding is below the minimum value, one just above it at which it is a position
that cannot be ordered at the bid, and a high one. Two buys make a rest and a new position
over it. 4.1 million states. No fairness is stated: its properties are safety.

`BtcBot`: three buys (entry, add-on, next entry), one fault, two price moves, and
fills below the estimate, so that halves fall on both sides of the minimum.
`FairSpec` is that of `AltBot`, with the stream's delivery of a balance it already has.

`Portfolio`: four filled orders (buy, buy, partial sale, sell-off, or a rebuy), a
crash and one midnight, with logs kept one day; six units of cash and two prices, so
that a fill brings more or fewer coins than its record says and proceeds differ from
cost. 2.4 million states.

`WsStream`: an idle limit of three ticks, two faults, two signals and four changes of
the peer, for the silence of a second session after one of the first. Fair are the
main thread, the watchdog thread and the clock; the peer, faults and signals are not.

`Listener`: two updates, two incidents, one listener and one bot, one fault, which is a
crash, a torn file, a failing call, a failing start or a disk error.
Fair are the listener's steps and its file writes, not the restart of a program.

`UpbitRest`: three processes make a holder, a waiter and one that arrives late;
`MaxNow` is long enough for a sleep, a retry with its backoff and a second
interval. A lock is given back unless the holder sleeps past `MaxNow`, which is
said in `LockReleased`. Fair are the steps of `throttle`, whose sleep and file
operations end, and the clock; starting a call, failing and dying are not.

`Watchdog`: `MaxNow` covers the age limit of a log, the hour of the limit and two
rounds, so `DownIsRestarted` is stated for a program that is down at least that
long before the end of time; `MaxPids` is a process for each recovery and fault.
A tick is at least the watchdog's interval, so `Tick` waits for a round of the
running watchdog. In `watchdog_operator` the cooldown is two ticks, so that
rounds fall into it, and three processes are enough for two copies and a restart. Deadlock is not checked in these runs, the clock being
finite. Fair are the rounds of the watchdog and its own calls of the process
manager, which all end (a stop waits three seconds), and the clock; operators,
faults and a new start of the watchdog are not.

## Proofs

`TypeCorrect` proves `TypeOK` from `Init` and one lemma per action.

`NeverDoubled` (`OneLotPerOrder`) and `NeverOversold` (`NoOversell`) follow from the
inductive invariant `ViewsHold` of `AltBotProofs`. Neither property is
inductive: that a buy never meets a position depends on what the bot *believes*.
The invariant relates belief and truth for each symbol: an amount below the
threshold is no lot; what the account shows or will show is at most one lot plus
the late orders (`LotsBounded`); for a symbol the pass has not decided about yet,
balances without a position leave room for a buy, and, without late orders,
promise no coins that are gone (`SnapshotHolds`); a sell order in progress is
covered (`SellCovered`). A buy needs a visit that saw no position, because the
visit resets the confirmations of a held symbol first. The steps are by action,
with the facts about `SellOrder`, `Share` and `ToPrecision` (a sale never asks for
more than the balance it was computed from) as lemmas in `AltBotProofs`.
The assumptions are the named ones of the modules: shares do not vanish by
integer division, a fill is at least a position and at most the estimate.

The second half of `AltBotProofs` shows what restarts, cooldowns and partial exits rest on,
for every share that splits and partial exits may sell. It needs two invariants, because
the code keeps two kinds of promises. `HistoryTold` is about symbols whose fills all
reached the history, whose orders all executed while the bot waited (`Undisturbed`), and
whose sales all left what their reasons say (`m \notin cut`): it ties memory, replay,
observer and account together, which agree between orders and differ by exactly the order
in progress during one (`Told`). `RestartIsTransparent` follows. A split breaks
that agreement, as `alt_split` shows, and not what the running bot does: `RunsWell` keeps,
for undisturbed symbols whatever their sales left, that the memory is right until a restart
reads it from such a history (`MemoryTrue`), that partial exits taken are marked in memory
and in what a replay would give (`PartsKnown`), and what orders in progress rely on
(`BuyRuns`, `SellRuns`). `BasisIsExact`, `NeverTooEarly` and `PartialExitsHappenOnce`
follow. `LossesAreLimited` needs neither:
while no fill was missed, the daily result in memory is at most the gross result of
the day's records and of the order not recorded yet (`LossesKept`).

`UpbitAltBotProofs` is the same argument where the bot can lose a position from
sight, and where belief, history and account come apart in more ways:
a position below the minimum value is forgotten by memory and kept by the
history; a repeated call fills twice; the snapshot of the stream is older than
the account. `HistoryMatches`, `MemoryMatches` and `ClocksMatch` say what each
knows, `SnapshotRight`, `BuyFits`, `SellFits` and `OrderFits` what an order in
progress relies on, and `Sold` when a sale is full. `PromiseIsKept`, that the bot
implements `SpotPosition`, needs a count: every slip of the bot's knowledge frees
two partial sales, one of each kind, so the parts executed stay within a budget
that the flags in memory and in the history, and the slips, bound (`PartsCounted`).
What history and memory know is stated for `HistoryFit` and `MemoryFit`: no fill missed,
and no sale that left something else than its reason says in the one, no restart from such
a history in the other. There is no assumption on shares; such a restart is one more slip
of the promise (`Slips`).

`BtcBotProofs` needs no assumption beyond those of the modules: halves and
full sales are fixed by the stages. Its invariant `Inv` has what the pass saw of
the account (`ViewTrue`), what orders rely on (`OrderFits`, `Sold`, `Flat`), how
many add-ons and halves the position can have had given what memory and history
know of them (`AddsCounted`, `PartsCounted`), and what the two say of the entry
price and clocks (`Basis`, `Recorded`, `ClocksKept`, `LossesKept`). `PromiseIsKept`
is the refinement of `SpotPosition`, one step per action.

`PortfolioProofs`: the replay is a fold over the history and the budget a sum over
the assets. Both are functions defined by recursion over the subsets of a finite
set; `FoldExists` shows that such a function exists and obeys its equation, and what
follows for every history or every set of assets is shown with a smallest
counterexample (`SmallestExists`, `SmallestSet`), because the induction rules of the library
take an operator. The facts that matter: a record appended is replayed last
(`PlayedAppend`); files without their first records never know of more than the
whole ones, and of as much for an asset that has none among them (`PlayedRest`), which
rests on a sale of the same amount from less leaving less cost
(`RemainingMonotone`); a larger summand makes the sum so much larger (`SumAdds`).
The invariant `Inv` then says of each asset what the files would say once its fill
in flight is recorded (`Settled`): no more than the truth unless it was overstated
(`NeverOver`), and no less unless it was understated (`NeverUnder`), which a sale of all coins
ends, since a replay that knows less has nothing left then (`SellReduces`, `SumBelow`).
`VisitsTrue` says what a visit has read, up to `excess` and `missing` (`Reads`), and that the
order it is about to send fits up to both (`Fits`); buys of other
processes move cash into cost and leave the sum as it was, their sales add to `excess`.

`WsStreamProofs`: the time of the last message belongs to the open session, because
`on_open` resets it, and a session being closed was silent when the watchdog looked
(`IdleOfThisSession`).

`ListenerProofs`: `NoUpdatePassedOver` says that what is below the saved offset was
handled or was between its offset and its handler at a crash or a disk error, and `UpdatesHandledOnce` that what was handled
is below the offset, in the file or in memory, whichever comes back after a crash.
The updates of a batch are handled in their order, so a step needs the smallest one left,
which exists because the numbers are well-founded. `SlotReportedOnce` and
`IgnoredIsNotReported` relate the listener's slot and notes to the file they
were read from.

`UpbitRestProofs`: `IntervalAlwaysKept` and `SleepAlwaysBounded` rest on `IInv`: who
works in `throttle` holds the lock; the file holds the time of the last request
let through or a later one, or is empty, and then the interval is over, because
truncating comes after the sleep; who sleeps wakes no earlier than the interval.
For every number of processes and groups and every interval.

`WatchdogProofs`: `RecoveriesAlwaysLimited` rests on `LimitInv`. The limit is
checked against the state in memory, loaded from the file when a round begins and
written when it ends, so the invariant says which recoveries each of the two
knows: the file all but those of the current round, the memory all, except those of
rounds the watchdog died in (`Kept`); a round recovers a
target once; and a restart in progress is of a target the limits let through. The
step that adds a recovery counts the window with the theorems on finite sets.
`OneCopyAlways` and `PidFileAlwaysKept` hold for any operators and rest on `CopyInv` and
`FileInv`: for a program that is not `raced` or `astray`, what a step of a call relies on
(nothing runs before a spawn or before the PID file is removed) still holds when it acts,
whoever else was let in and whatever ends in between.

Only model-checked: `AddOnOnce`, which is false, and all liveness (`StopLossExecutes`, `LockReleased`,
`DownIsRestarted`, `SilenceNoticed`, `StopEndsSession`, `UpdatesHandled`), which is out
of the prover's reach.

## Disagreements found

* `alt_split`: `apply_alt_sell_fill_state` takes one off the entry count per sale
  (`core/positions/lifecycle.py:164`), so the first split take profit is recorded
  with `entry_count_after = 0` although most of the coins are left, and the
  replay (`settings/state_recovery.py:129`) takes it for the end of the position.
  After a restart the coins are held without an entry price and are not traded. For the
  same reason a stop loss of what a split left starts no cooldown in the replay, so that a
  buy can follow a restart early (`NeverTooEarly` excepts it).
* `btc_pyramid`: the record of an add-on names `previous_entry_price`, which
  `run_bot` never assigns (`okx_btc_ema_trend_bot.py:1618`,
  `upbit_btc_ema_trend_bot.py:1710`), so it raises before `log_fill`. The add-on is
  executed and remembered and the history misses it: after a restart the bot adds
  again, although `README.md:134` allows one add-on per position.

Two were met by the proofs, where a first form of a property had no inductive
invariant and TLC then showed why. Two partial sales acknowledged before they are
executed use up the replayed amount: the sale that is recorded next does not
reset the cooldown of a partial take profit, so that after a restart a buy can come before
the cooldown is over; `NoEarlyReentry` is therefore stated for undisturbed symbols.
And an add-on of a BTC bot to a position that was sold without its notice opens one,
which `SpotPosition` allows after a slip.

Smaller observations, without a run of their own: the loss limit is compared with gross results
while running and net ones after a restart (`ma_crossover_bot.py:2527`,
`settings/state_recovery.py:395`). `start_program` looks and then acts without a lock, so an
operator and the watchdog can start two copies (`bot_manager.py:466`). A stream's watchdog
closes a session that spoke again while it wrote its report (`upbit_ws_client.py:222-226`). A
disk error that keeps the slot of a report from its file lets the report be sent in every loop of
its hour, though the docstring says once per slot (`telegram_command_listener.py:2443`). Recorded buys
are estimates, and the allocator carries the difference on after a sell-off
(`portfolio_allocator.py:283-289`). The health
report takes an ended child of the watchdog for alive until its log is old
(`tools/healthcheck.py:115`). A stop that failed is not noticed and the survivor counts
as recovered (`tools/auto_recovery_watchdog.py:309`), and only successful restarts count against
the limits (`:192`). A SIGTERM that meets the main thread of a stream
inside `_active_app_lock` waits for itself, and one just before `run_forever` is lost for
that session (`core/market_data/upbit_ws_client.py:124,229`). Retention deletes the trade logs
that are the only memory of an older position (`tools/log_archive_manager.py:132`).
The exit funnel of the Upbit bot estimates a trailing exit with the split ratio
(`upbit_ma_crossover_bot.py:1865`), so a small position's is refused. A report of several
chunks whose later chunk fails is sent again whole (`reporting/telegram_formatting.py:86`).
`watch` of the history collector announces whatever summary file it finds
(`tools/historical_market_collector.py:1391`).

## Not modelled

Indicator arithmetic, order book and candle processing, the regime guard and the
execution guard classify market data and are part of the choice of candidates and
facts. Position ratios and scores of `core/risk/allocation.py` are left out because
the approved order does not depend on them (`settings/portfolio_allocator.py:353`).
Message and report text is left out, and with it that a report cannot be built.
Backtests, the data collectors, maintenance scripts and `backups/` are offline or
read-only; `analysis_log_collector.py` appends to files of its own.
Also left out: the re-seed thread of the OKX stream, what payloads hold, `stop --force`,
PIDs the system uses again, status output, the limiter inside one process, and order
book and candle caches. `strategy_settings.py` is imported by the bots and not part of
the repository; its values are constants. The large part of the four bots'
lines computes, logs and records such market data around the decisions modelled here,
which is why the modules stand for a smaller share of the lines than of the behaviour.
