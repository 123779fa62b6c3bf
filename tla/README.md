# Strategy backtester: formal model

TLA+ modules for the parts of this repository that keep state, TLC
configurations that check them on small instances, and TLAPS proofs of what
holds for every instance. Each definition is translated from the source; the
comment above it, or its entry in `PROJECT.json` (`map`), names the lines.

## The system

A strategy is a YAML file. `run.py` (local), `run_remote.py` and
`scripts/cloud_sweep.py` (on CeTA cloud compute) expand it into configurations
and, for each one, run a pipeline: fetch prices, scan, generate entry signals,
walk every entry forward to its exit, rank the orders, simulate a portfolio,
compute metrics. A second group of scripts runs the chosen strategy live.

| Part | State it keeps | Operations | Meets |
| --- | --- | --- | --- |
| Portfolio simulator (`engine/simulator.py`, `order_key.py`) | margin, positions, position counter, value at last MTM, next payout date: the *snapshot*; trade and day logs | `process`, `_process_entries`, `_process_exits` | receives ranked orders and statistics, hands its snapshot to the next call |
| Exit walk (`engine/order_generator.py`, `exits.py`) | per entry: running maximum, last good close, fired exit configs; rows merged by exit day | `generate_exit_attributes_for_instrument`, `_record_exit`, `ExitTracker` | produces the simulator's order rows, one worker process per instrument |
| Config index and statistics (`engine/utils.py`) | index from config ids to rows; forward-filled bars | lookups | between ranking and simulator |
| Signal base and generators (`engine/signals/`) | none across calls; inside one, the position a loop is in | `run_scanner`, `generate_orders` of 31 strategies | prices in, order rows out |
| Internal regime (`engine/internal_regime.py`) | in or out of the market | two-threshold hysteresis | gates entries and forces exits, in backtests and live |
| Intraday simulators (`engine/intraday_*.py`) | margin, day counter, payouts | day loop, bar-by-bar exits | own pipeline |
| CeTA client (`lib/cr_client.py`) | tier limits, CSRF token | submit, poll and fetch with retries | the cloud API |
| Cloud orchestrator (`lib/cloud_orchestrator.py`) | `.remote_project.json`, `.remote_hashes.json`; projects and files in the cloud | find or create, sync, upload, submit, poll | shared by every process started in the checkout |
| Cloud sweep (`scripts/cloud_sweep.py`) | active runs, next batch, counters, results | `run_batches` | drives the orchestrator |
| Live trading (`scripts/live_daily_runner.py`, `portfolio_helper.py`) | state file, portfolio file, holdings, entry dates | daily entries and exits | the broker, through a trader |
| Metrics, results, ensembles (`lib/*.py`) | none | batch reports | end of the pipeline |

The parts meet in five ways:

- **calls in one process**: the pipeline hands the rows of the exit walk,
  ranked, to `process`, and its snapshot to the next call of `process`;
- **worker processes without shared state**: one per instrument in the exit
  walk, one per strategy in `run_all_local.py`;
- **two JSON files of a checkout** (`.remote_project.json`,
  `.remote_hashes.json`), read and rewritten without locks by every process
  that uses the orchestrator;
- **the files of a cloud project**, which all processes of one project name
  write and which a run reads when it *starts*, some time after its submit;
- **HTTP calls** that may be refused, or carried out without the answer
  arriving.

### What is hard

| Behaviour | Where |
| --- | --- |
| A day is four loops over shared cash and slots, in two orders; a call ends by closing everything and the next call walks the boundary day again | `simulator.py:320-530` |
| Sums and counters kept by hand next to the data they count | `simulator.py:41`, `cloud_sweep.py:133-134` |
| Several rules, configs and bars decide on the exit of one entry; decisions meet in one row keyed by day | `order_generator.py:288-354` |
| Crash between an upload and the save of its hash; two processes rewriting one file | `cloud_orchestrator.py:198-273` |
| An answer that is lost although the call was carried out | `cloud_orchestrator.py:122`, `cloud_sweep.py:151` |
| A run that reads its files long after they were uploaded | `cloud_sweep.py:101` |
| Retries: bounded for uploads and queries, unbounded in the sweep | `cloud_orchestrator.py:285`, `cr_client.py:229-300`, `cloud_sweep.py:153,172` |
| A number computed from bars that lie after the trade, or from a window that starts elsewhere | `signals/base.py:166-311`, every `generate_orders` |
| Files of yesterday, a window that has moved, a plan carried out in part | `portfolio_helper.py:213-317`, `live_daily_runner.py:603-714` |
| A running high, a stop and a cutoff in one loop over minutes | `intraday_simulator_v2.py:392-437` |

`PROJECT.json` lists every hazard at its line, with the properties that would
catch it, or with the reason why none does.

### What makes each part correct

- *Simulator*: cash is never negative; cash, positions and trade log balance at
  every step; slot limits hold in every order of a day; every position is sold
  on its day; a row is traded once; payouts keep to the calendar; every call
  returns. In one sentence: it is a `PositionLedger`.
- *Exit walk*: every config exits every entry exactly once, on the first bar
  any rule names, at the price of that rule.
- *Orchestrator*: a run executes the code its process read and the config it
  uploaded, whatever was cut short before; one project per name; forced syncs
  heal any state; processes end.
- *Cloud sweep*: the split loses and repeats no combination; every batch is
  submitted once, counted once, and its results are those of its own config;
  never more than the allowed number of runs; the sweep ends.
- *Signal generators*: what a strategy has done by the open of a day does not
  depend on the rest of that day; nor, for strategies that trade every signal,
  on where the window starts; no more is held than there are slots; the order in
  which the orders of a day compete is settled before that day.
- *Query client*: one task answers a call, whatever was sent twice; a call asks
  at its deadline and not only before; it gives up after failures in a row; it
  never asks for more than its tier allows; it comes back.
- *Intraday simulator*: the account is what trades and payouts make it; a day
  buys the best it can pay for, ranked on earlier days; a position leaves on the
  first bar that gives reason to.
- *Live trading*: the date a position is walked from lies between its purchase
  and the first time it was saved; a plan can be paid for; a sale that is due
  stays due.

## The modules

| Module | Code | In it |
| --- | --- | --- |
| `PositionLedger` | – | abstract: a cash account and a set of lots; buy, sell, withdraw |
| `Simulator` | `engine/simulator.py`, `order_key.py`, `charges.py` by a rate | one action per iteration of each loop of `process` |
| `SimulatorProperties` | – | properties that need sums or relate days and calls |
| `Simulator_proofs` | – | TLAPS proofs about `Simulator` and `SimulatorProperties` |
| `SumLemmas` | – | what sums and folds over finite sets come to, for the proofs |
| `MCSimulator` | – | small inputs for TLC |
| `ExitWalk`, `MCExitWalk` | `engine/order_generator.py:248-388`, `exits.py` | the walk over bars and configs, and a reference without loops |
| `Orders_proofs` | – | TLAPS proofs about `ExitWalk` and `Signals` |
| `CloudSync`, `MCCloudSync` | `lib/cloud_orchestrator.py`, `run_remote.py` | client processes, the two cache files, projects, runs, edits |
| `CloudSync_proofs` | – | TLAPS proofs about `CloudSync` |
| `BatchBoard` | – | abstract: batches waiting, in hand, collected, dropped |
| `BatchSweep` | `scripts/cloud_sweep.py:98-200` | the submit and poll loops, and the cloud |
| `BatchSweep_proofs` | – | TLAPS proofs about `BatchSweep` and `BatchSplit` |
| `BatchSplit`, `MCBatchSplit` | `scripts/cloud_sweep.py:35-91` | the recursion that cuts a sweep into batches |
| `QueryClient`, `MCQueryClient` | `lib/cr_client.py` | submit, poll and download of a task, the limits of the tier, and the server |
| `QueryClient_proofs` | – | TLAPS proofs about `QueryClient` |
| `SignalBase` | `signals/base.py` | windows, averages, the scanner, and the two loops strategies are built from |
| `SignalGenerators` | fourteen files of `signals/` | strategies of one instrument: signals, the rule that ends a position, orders |
| `PanelGenerators` | nine files of `signals/`, `internal_regime.py` | strategies over several instruments: rankings, gates of a regime, dips in a pool |
| `FundamentalGenerators` | four files of `signals/`, `signals/base.py` | strategies that read filings or rebalance on them |
| `TechnicalGenerator` | `signals/eod_technical.py`, `engine/scanner.py`, entries of `order_generator.py` | the strategy of the EOD pipeline, with its own scanner |
| `OrderRanking` | `engine/ranking.py` | the order in which the orders of a day compete: by turnover, gain, dip, or earnings so far |
| `Signals`, `MCSignals` | `signals/base.py:32-48` | a course of bars, alone or in a panel, that grows day by day; all strategies computed anew |
| `LiveTrading`, `MCLiveTrading` | `portfolio_helper.py`, `live_daily_runner.py`, `internal_regime.py`, `eod_breakout.py:611-700` | market, helper, runner, trader |
| `LiveTrading_proofs` | – | TLAPS proofs about `LiveTrading` |
| `IntradayV2`, `MCIntradayV2` | `engine/intraday_simulator_v2.py` | the day loop and the loop over the bars of a position |
| `IntradayV2_proofs` | – | TLAPS proofs about `IntradayV2` |

Names of variables and operators are those of the source wherever TLA+ allows.
`pc` is the place in the code; an operator called `<Name>_<What>` is a mutant of
`<Name>`, a plausible bug that one of the properties must catch, and is used by
nothing else. `PROJECT.json` pairs every mutant with its property, and maps
every definition to its lines.

**Simulator.** A behaviour is up to `MaxCalls` calls of `process` on one
configuration, one list of order rows and one table of statistics, from a fresh
or a resumed snapshot. `StartCall` is the set-up of a call, `BeginDay` ...
`EndMark` a day: `PayOut` (the catch-up loop), `SizeOrders`, entry steps
(`SkipEntry`, `Enter`, `RaiseDuplicateKey`), exit steps (`Exit`), the
revaluation after same-day exits (`RevalueOne`), mark to market (`MarkOne`), in
the order `exit_before_entry` gives; `CloseOne` and `Return` end the call.
Loops over dicts whose order no result depends on are left open. Money is an
integer: quantities are floors, as in the code; costs are floors of a
percentage. Left out: `max_account_value` (never read), texts of warnings,
errors for unknown policy names.

**ExitWalk.** One instrument: the bars, an entry at a time, a bar at a time, an
exit config at a time. The last row of the data serves only as the next open of
the one before it. Percentages are cross-multiplied, prices of rows are in
tenths so that the 80% of an anomalous drop is exact. The reference (`ExitOf`)
says in one formula on which bar, day and price a config exits.

**CloudSync.** A client process is `Begin`, the steps of
`find_or_create_project`, `sync_files`, `_save_hash_cache` (read, truncate,
write: three steps, as other processes see them), the upload of its job,
`Submit`, `EndPoll`; it may `Die` anywhere. A content, like its SHA-256, is a
version number. An upload attempt is stored or not, answered or not. The cloud
(`projects`, `runs`, `StartRun`, `DeleteProject`) and the developer (`Edit`) are
external. A process is *disturbed* when another one writes to its project after
it began: nothing in the code protects it from that, and the properties say so.
The config, the entry point and the wrapper are one upload: they are fixed names
that every process overwrites.

**BatchSweep.** `Upload` is both uploads of `submit_batch`, the rest of a submit
is `Accepted`, `AnswerLost` (queued, but to the sweep a failure), `SubmitFails`
or `Refused` (a concurrency limit). A pass over the active runs takes them in
any order. A run reads its config when it starts. **BatchSplit** writes the
recursion with a stack of the calls to be made.

**QueryClient.** One process makes `MaxCalls` calls one after another. A call
is `Begin`, the tier limits (fetched once, cached for good, whether or not the
fetch worked), `_submit` with its attempts, the poll loop of its kind, the
download; time is counted in poll intervals. The server is external: it may
limit, fail, drop an answer it has acted on, and end a task whenever it likes.

**Signals.** A state is a course of bars and what every strategy makes of it;
a step appends a day. Indicators are computed as the frames do: over the whole
data, then cut to the window, the last row dropped for want of a next one.
A null is the number `None`, which comparisons refuse. Averages are compared by
sums; percentages are whole. What is computed elsewhere and only read (RSI,
the squeeze flag) comes with the bar. The course stands alone, for the fourteen
strategies that treat instruments one by one, or in a panel with companions
whose courses are given, for the fourteen that rank instruments, gate entries on
the state of a market, or read filings; filings and earnings are given records
with a date, of which a strategy sees those that are old enough. A strategy's
entry of `EC` and `XC` holds its config. `TechnicalGenerator` stands apart: its
scanner gives every instrument a row for every calendar day, so that its windows
count days, and fills closes backwards. `OrderRanking` gives a sort as the pairs
it orders: the code leaves ties to the sort, and a rank matters only by what it
puts before what. `Foremost` is the head of a sort that keeps n of equals
without saying which; `growth_rank` sorts stably, and takes equals by name.

**LiveTrading.** A day brings bars (not for every symbol) and a regime score.
The helper's run is `HelperReads`, `HelperDumps`, `HelperWrites`, and may die
between them: `save_state` truncates before it writes. The runner reads the
portfolio file whichever day it is from, computes the regime and the exits from
its sliding windows, and plans. The trader places all planned sales or none,
and then all planned buys or none, at the next open, which equals the close;
bars have closes.

**IntradayV2.** The matrix of entries and the config are inputs. `OpenDay`
ranks and sizes, `Trade`, `PassOver` and `StopBuying` are the turns of the loop
over the selected entries, `CloseDay` books the day and pays out. Equal shares
are rounded either way, as quotients of floats are. The sort by rank is the one
order of the entries in which each is ahead of the next, ties by place, and the
loop over bars is a recursive function along them.

## What the runs show

| Run | Configuration | What is checked |
| --- | --- | --- |
| `sim` | `Sim.cfg` | the whole simulator: order of loops, limits, exits on time, rows traded once, books, payouts, caps; refines `PositionLedger`; calls return |
| `exits` | `Exits.cfg` | every course of four bars against the reference |
| `signals` | `Signals.cfg` | fourteen strategies on every course of six bars, fourteen on a panel of three instruments: no look-ahead in orders or ranks, no dependence on the start, slots |
| `intraday` | `Intraday.cfg` | four days of every sizing and payout, rankings, exits over five bars |
| `live` | `Live.cfg` | four days of market, helper, runner and trader |
| `query` | `Query.cfg` | two calls of every kind against a server that fails |
| `cloud_serial` | `CloudSerial.cfg` | one process at a time: crashes, lost answers, edits, late runs |
| `cloud_hostile` | `CloudHostile.cfg` | processes at once, deletions, restored contents: forced syncs heal |
| `sweep` | `Sweep.cfg` | the sweep; refines `BatchBoard`; ends |
| `split` | `Split.cfg` | every combination in one batch |
| `signals_ranking_comment`, `live_hold_comment` | `SignalsRanking.cfg`, `LiveNoTrigger.cfg` | what a docstring says and the code does not do: a counterexample each |

Bounds, and why they are enough:

- *Simulator*: two instruments (a limit per instrument and one over all need
  two), up to three rows out of pools with tiers of one signal, a same-day row,
  a row that outlives the window, and duplicates; windows that end at, before
  and after bars; two calls (the second starts on the boundary day of the
  first). `MCSpec` only picks which inputs go together, so that payouts and
  caps need not be multiplied with every list of rows.
- *ExitWalk*: four bars let a stop be booked on the bar that another config
  exits on, with a bar before and one after; closes on both sides of every
  threshold, one missing, and a gap in the days; three configs (waiting, tight,
  tightened).
- *CloudSync*: two files (one shared by both modes), three contents (an old
  one, the one of a sync cut short, the current one), three starts (cut short,
  repeated, and another's), two attempts of an upload, one more project id than
  a correct history needs.
- *BatchSweep*: three batches, two in parallel: one waits while two run.
- *BatchSplit*: three values per parameter, batch sizes on both sides of every
  product that occurs.
- *QueryClient*: two calls (the second finds the cached limits), waits that
  reach their cap, deadlines a wait can step over, as many failures as each
  limit counts and one more.
- *Signals*: windows of one to three rows, six bars, five shapes of a bar on both
  sides of every threshold, one without a close, one after a weekend; three of
  them in a panel. There the two companions begin, pause and end on days of their own, and their closes
  are primes, so that no ranking hangs on a tie. Every strategy of one
  instrument has orders that are over within six bars; of the others,
  `momentum_cascade`, `momentum_top_gainers`, `momentum_dip_quality`,
  `breakout_pullback` and `eod_technical` have them only for companions. Numbers
  the code writes out (the 5, 30 and 20 rows of `earnings_dip`, the three
  eligible instruments of `trending_value`) are parameters, and smaller in the
  runs. `holp_lohp`, `index_sma_crossover`, `index_dip_buy` and
  `index_green_candle` never have two orders in a run, so that `SlotsHold` is
  about `index_breakout` and the rebalances.
- *LiveTrading*: four days, a window of three and a regime window of two: a
  purchase, the day a stop is hit and the day a regime turns all leave a window
  while the position is held. Two symbols, of which one goes without bars.
- *IntradayV2*: four days let a payout come after a lock-up, on every second
  day and never; days that gain, lose and ruin; three symbols for two slots or
  one; five bars let a high of the minimum hold matter after it, with gaps in
  the minutes and a cutoff before, between and after them.

Sequential code takes steps as long as it can: `WF_vars` of the function
(`Simulator`, `ExitWalk`, `BatchSplit`), of the client (`QueryClient`, where the
server promises nothing: every wait has a limit) or of each process
(`CloudSync`; a crash is such a step too). `BatchSweep` assumes more, because
the code bounds neither of its retries: a run ends (it has a timeout), a batch
that can be submitted again and again is not refused for ever, and the end of a
run that is polled again and again is seen. Without these the sweep may poll for
ever. `sim` checks for deadlock; the other runs do not, since what they model
ends.

### Where documents and code disagree

Shown by a run:

- `ranking.py:347` calls the ranking by performance walk-forward, and
  `strategies/eod_technical/README.md:8` too. Before any day is scored, overlapping
  orders are thinned over the whole backtest (`:229`): one that an earlier order
  of its instrument outlives does not count, so exits in the future decide on the
  score of today. In the counterexample two orders are open on a day; later the
  older one is stopped out and the younger one is not, and two orders of that day
  change places (`signals_ranking_comment`). With only its last bar changed a
  course does not show this, since all open orders end on the last row:
  `NoLookAhead` covers the ranking by performance as well.
- `live_daily_runner.py:308` says no exit is emitted without a trigger; the walk
  ends at the placeholder bar of tomorrow with `end_of_data`, on the day that
  counts as a fresh exit, so every position with a bar today is planned for sale
  (`live_hold_comment`).

Seen while modelling, without a run of their own:

- Simulator: a comment (`simulator.py:117`) scales an order after the cap, the
  code before (`:359`); a comment (`:482`) prices a forced close at the bar it
  is dated, the code at the last close there was; after same-day exits the order
  value is computed afresh without multiplier and order-value rule (`:393`).
- Exit walk: on a shared exit day a comment (`order_generator.py:376`) gives
  price and reason to the first config in order, the code to the one recorded
  first, which may be a stop booked a bar earlier.
- Orchestrator: a project created again under its name stays empty, since the
  hash file is keyed by name (`cloud_orchestrator.py:247`); `order_key.py`,
  `exits.py` and `equity_curve.py` are imported in the cloud and not in the list
  of files (`:22`); `_save_hash_cache` says it clobbers no other project's
  hashes, and does when two processes save at once; a content restored after a
  failed sync is taken for unchanged. `split_config_into_batches` promises
  batches of at most `batch_size`, and does not split the simulation section
  whose parameters it counts.
- Signals: `tests/test_signal_audit.py:14` says that every other generator enters
  at the next open without same-bar bias; `gap_fill` buys at an open what the
  scanner picks by the close of that day. A regime instrument that is never above
  its average gives the empty set, which means no filter (`base.py:473`, and in
  the live runner `bool(bull_epochs)`); `docs/LIVE_TRADING_INTEGRATION.md:78` says no entries
  then. A loop that holds one position forgets it when the last close is
  missing. `bb_mean_reversion` passes over its hold limit on rows without a
  band. `connors_rsi` averages for its exits from the start of the window.
  `eod_breakout` with a regime for exits that is never on sells every position,
  although `base.py:477` says an empty set allows all days.
- Rebalances: `momentum_rebalance` buys at the close it ranks on, as its
  docstring says. `trending_value` skips a rebalance with fewer than three
  eligible instruments, and with it the stops of the period before, since the
  next one looks back only to the last entry of its list; a position that has no
  close when it is dropped leaves no order; an entry without a bar on its day is
  priced at an earlier close. The price `low_pe` and `trending_value` fall back
  to at an exit may be older than the entry. `earnings_dip` asks for thirty rows
  of the whole window, later ones included.
- Scanner: `scanner.py:78` fills a row without a close with the next close there
  is, so that entries, breadth and exits of that day look ahead;
  `order_generator.py:274` expects such rows to have no close. A comment
  (`ranking.py:358`) puts missing scores between positive and negative ones, the
  code last; a close that is null the evening before stops the ranking by
  performance with a `TypeError`.
- Live: a symbol bought again keeps its first entry date; a position older than
  the lookback is overdue for a `regime_flip`, since no day before the window is
  in the set of bull days; symbols are keyed without their exchange when sold
  ones are taken from held ones (`live_daily_runner.py:682`); a torn state file
  stops the helper until it is removed; the docstring of `compute_entries` caps
  before it multiplies, the code multiplies before it caps (`:479,502`).
- Intraday: under `equal_weight` with three positions or more, a share that is
  rounded up does not fit into what the others left, and the last position of
  the day is dropped (`intraday_simulator_v2.py:145`; with random balances on a
  third of the days or more); a test (`test_intraday_simulator_v2.py:892`)
  expects all to fit and uses balances that divide exactly. Slots go to entries
  that are then passed over for want of a price. A stop is filled at its level
  even when the whole bar lies below it. An `interval_days` of 0 without a
  lock-up pays nothing, with one it pays daily. `_date_chunks` loses the last
  day of a range whose last chunk would be that day alone
  (`intraday_pipeline.py:251`), and a chunk whose query fails is skipped.

## What is proved

TLAPS checks the following for every value of the constants that satisfies
their assumptions (each named `...Assumption` in the module that declares them,
and evaluated by TLC in the runs).

`Simulator_proofs` — any set of instruments, configurations, order lists,
prices, snapshots, number of calls; a sale costs at most its notional, no row
exits before it enters (the exit walk starts at the entry), and no snapshot
holds a position whose exit day its own date has passed (`process` closes all
positions before it writes one). The last two are `CalendarAssumption`:

- `IInv` = `TypeOK` ∧ `CountMatches` ∧ `SlotLimits` ∧ `NeverOverdrawn` ∧
  `ExitsAreScheduled`. `SlotLimits` alone is not inductive: the code compares
  its *counter* with the limit, so the counter must equal the number of
  positions, which in turn needs every exit loop to remove a position that is
  there. `NeverOverdrawn` needs the types of quantities, prices and rates.
- One lemma per group of actions (`CallKeepsIInv` ... `CloseKeepsIInv`), over
  two lemmas about the book: `EnterKeepsBook` and `SettleKeepsBook`.
- `TypeCorrect`, `LimitsHold`, `CashHolds`, `ExitsRegistered` follow.
- `Refinement`: a step of the simulator is a `Buy`, a `Sell`, a `Withdraw` or a
  stutter of `PositionLedger`. `ExitsComeFirst` is a second action property.
- `CalendarInv` says where the walk over the days stands: what lies ahead of a
  day, that every date on which something exits is still to be walked, and
  which positions of today the exit loop has left. `ExitsOnTime` follows
  (`NoneOutlivesItsExit`), and with `PayOutInv` (the next payout is the first
  one plus a number of intervals) `PayOutsOnSchedule` (`PayOutsKeepTime`).
- `CapsHold`; `BooksAlwaysBalance`, by the sums of the trade log, which each
  entry and exit moves by what it moves the cash.
- `OrdersSizedFromBook`: `SizingInv` follows the two loops that add up the
  account value while they run (`LoopSums`) and what the value is between them.
- `RowsTradedOnce`: `SoldForGood` says that a row sold after its entry day is
  not open, is in the log no later than there, and that the days have passed its
  entry. The last part is what keeps it from being bought again, and needs the
  calendar: a call starts where the one before ended, which is after the entry of
  whatever that call closed.

`BatchSweep_proofs` — any number of batches, any parallelism of at least one:

- `Inductive` adds to the properties what relates them: a file holds its own
  batch or nothing, a run's batch has been taken up and its file is there
  (`RunsFollowTheirNames`), and a batch with results has no active run
  (`CollectedAreSettled`). Without the first, a late run might read another
  config; without the second, a batch might be collected again.
- `CountsHold`, `BatchesRunOnce`, `ResultsBelong` follow; `BoardKept` is the
  refinement of `BatchBoard`. `RunsArePolled` (`NoRunForgotten`): each run that
  goes on unpolled has been counted as failed.
- `CombosInOneBatch` (`EveryComboOnce`), for configs with any number of parameters
  and values and any batch size. The assumption `SplitAssumption` is that a config
  names a parameter in one section and a value once in its list: a value listed
  twice is run twice, and a parameter in two sections is counted in the later one
  and may be split in the earlier. None of the repository's configs does either.
  `SplitInv` says that the calls still to be made are such configs too. The argument
  is one call of the recursion: `PiecesSplit` says that a combination of the config
  is one of exactly one piece, the one with its value of the widest parameter, and
  one that is not, of none; `OnceKept` and `OnceSplit` carry the count over from the
  calls to the batches, or from one call to its pieces. The product
  `count_sql_combos` only decides when to stop, so that no induction over it is
  needed.

`CloudSync_proofs` — any number of processes, names, files, contents, attempts
and projects:

- `CloudTypeCorrect`: types, and the *stages* of a process: what it has read,
  found and uploaded at each place in the code.
- `ForcedRunsItsCode` (`ForcedSyncHeals`) has no hypothesis: a forced sync has
  forgotten all hashes, so each file is uploaded, and `CodeInProject` grows
  with the list of files unless another process disturbs it.
- `OneProjectEach`, for processes that do not overlap (`~Concurrent`): a
  process looks for its name in the cache and then in the listing before it
  creates a project. Two processes that look at the same time both create
  one; nothing in the code prevents it.
- `SerialRunsItsCode` and `CacheStaysBehind`, for one process at a time on files
  that are edited and never restored, with no project deleted
  (`SerialAccount`: `run_remote.py` by hand): the hash file never claims a
  content that the project does not have. `InOrder` relates the contents in the
  project, the hash file, its copy in the process and the checkout: each is at
  most as new as the next, which is what a restored content breaks.

`Orders_proofs`, for the exit walk — any bars in order of days, any entries, exit
configs and thresholds:

- `WalksBookOnce` (`EachConfigExitsOnce`) by `OnceInv`: the tracker's set of
  fired configs is the set of configs the rows hold for this entry.
- `WalkFindsTheFirst` (`ExitsAreTheFirst`) by `FirstInv`: the running maximum
  and the last good close are those of the bars looked at (`Remembers`), a config
  that has not fired was named no bar yet (`NoneMissed`), and each exit booked so
  far is the reference's (`FirstSoFar`).

and for the generators — any course, companions, periods and thresholds, with
days in order and the companions in the order in which they were listed
(`SignalsAssumption`, as the fetch sorts them); a window starts no earlier than the
data. For the slots, look-backs, lags and numbers of positions are natural numbers,
and every instrument has a list of filings:

- `LaterStartSameOrders` (`WindowDoesNotMatter`), one lemma per strategy
  (`IbsWindow` ... `PullbackWindow`). Each brings the strategy to one form: the
  orders of the rows of the window that are signals, each with its own exit, where
  neither the set of signals nor the exits mention the start. Of that form
  `SignalsOfWindow` says that a later start only drops orders, and just those that
  enter before it: a row is known by the day of its order, because no two
  bars have the same day (`DaysDiffer`). `PanelOfWindow` is the same for
  a panel. What the averages, highs and volumes come to does not matter, only that
  the window is cut after they are computed; so no induction over bars is needed.
  Of instruments with equal returns the model takes the same in both
  windows (one `CHOOSE` over the same set), which the sort of the code does not promise.
- `CourseInv`: the bars are in order of their days, and the orders are those of the
  course as it is, none while it is empty. `PanelInOrder` shows that a companion cut
  at today is in order too.
- `SlotsAreKept` (`SlotsHold`) from the same invariant, in three parts. A loop that
  resumes after an exit (`LoopHoldsOne`): what it gathers from a row on is
  entered there or later, so that the position of a round is over before any other
  begins; `IndexHoldsOne` and `HolpLohpHoldsOne` show that the five loops are of
  this kind. `momentum_rebalance` (`RebalanceSlots`): `ForemostAre` says that whichever of equal
  returns the sort puts first, no more than asked for are kept, and `RoundOver`
  that a round's exits are no later than the next round's entries.
  `trending_value` (`TrendingSlots`), which keeps positions over rebalances: `BookKept`
  is an invariant of its own recursion over rebalance days, that between any two days up
  to now the closed orders and what is held need no more than the slots.
  Stops (`StopsKeep`), rank exits (`ExitsKeep`), entries (`EntriesKeep`) and the
  liquidation at the end (`LiquidatedKeeps`) keep it, and `KeptThroughout`
  takes the first day on which it would not hold.

`LiveTrading_proofs` — finitely many symbols, any natural prices and
quantities, any configs, rankings and starts:

- `PositionsDated` (`DatedFromItsPurchase`) by `DatesInv`: the dates in the
  state file, in the helper's memory and in the portfolio file all lie between
  purchase and first save, also while the state file is cut short.
- `PlansCanBePaid` (`PlanCanBeCarriedOut`) by `PlansInv`: the loop over the
  ranked candidates spends no more than cash and sales bring, and fills no more
  than the free slots (`EntriesAffordable`, along the fold of the loop).
- `SalesNotTakenBack` (`SalesStand`), for thresholds and look-backs that are numbers,
  the look-back within what is fetched, and an exit threshold no higher than the
  entry threshold (`LiveAssumption`). It compares two runs of the exit walk, on
  windows that start on different days. `RunsInv` says of the last plan that it
  is what a run makes of the days up to then. Adding days changes none before them
  (`DaysAdded`); up to the day of the exit both windows then have the same rows of
  the symbol from its purchase on, and the same bull days, unless the later one has
  none at all, which `Comparable` excepts. So the stop or flip that ended the
  first walk ends the second there, or an earlier one does.

`IntradayV2_proofs` — any matrix and any configuration, with numbers, one entry of
a symbol a day and bars in order (`IntradayAssumption`, as `_build_entry_signals`
groups and sorts them). `ChargesAreNumbers`, the hypothesis of each theorem, says
that the charges of an order value are a whole number; it is no assumption of
the module because TLC cannot evaluate it over all of `Nat`.

- `IntradayTypes` by `Typed`, which also says that what is selected are entries of
  the walked day. `OrderExists` shows that a sort of any ranking exists, ties
  by place, and `RankedIs` that `Ranked` is one.
- `SoldOnTime` (`LeavesWhenItMust`) by `Resolved`: a trade in the log left as
  its entry's bars say. `ExitStands` follows the loop down the bars: while
  nothing has ended it, its running high is the highest of the bars so far and
  no bar so far gave reason to leave.
- `AccountAddsUp` (`PaidOnSchedule`) by `PaidInv`. `OnSchedule` relates the next
  payout day to the first one and the interval. `SkippedLast`: once a day cannot
  be sized no later day can, because the account moves only on a day that
  has an order value; without it the counter of days would not number the entries of the log.
- `BestAreBought` (`BuysTheBestItCanAfford`) by `BoughtInv`: past days are good
  ones (`DayIsGood`), and of the day being walked `InDay` says how far down the
  ranking the loop is and what it has bought above. Past days stay good because
  no later trade falls into the window before them (`DateRemains`).

`SumLemmas` holds what these proofs share: the largest and the smallest of a set,
what holds step by step up to a number, quotients, recursive functions, sums and folds. The sums and folds of the community
modules are recursive functions over subsets, and no prover here can apply
induction over them. Each lemma about one of them takes the smallest
counterexample instead (`LeastNumber`), and a sum is turned into the number of
units it counts, so that facts on cardinalities apply.

`QueryClient_proofs` — any retry and failure limits, waits, graces, inputs and
caps that are numbers, any number of calls:

- `IInv` adds to the four safety properties of the client what the code relies
  on without saying it. `OneTaskTold`: no task id is known before the poll
  loop, and the known one is the newest task. `EndedAsTold`: a download is
  entered with a completed task only. `CountsInARow`: the counter in the code is
  the number of failures since the last good answer. `OneWaitAgo`: the clock is
  never more than one wait past the last poll, and the growing wait stays below
  its cap; without it nothing bounds what a call sleeps before it times out.
- One lemma per conjunct (`StepTypes` ... `StepTier`), each by actions, over
  lemmas about the list of tasks (`OneTaskEnds`, `NewTaskIsLast`) and the waits.
- `AnswersItsTask`, `AsksTillDeadline`, `GivesUpOnlyInARow`, `AsksInTier` follow.

Only model-checked:

- liveness (`CallsReturn`, `ProcessesEnd`, `SweepEnds`, `CallsEnd`), which needs
  `ENABLED`;
- `NoLookAhead` of `Signals`: it says of 28 strategies, four rankings and their
  averages, loops over bars and rebalances that each depends on a prefix of the course.
  Averages and loops are recursions over data, and every strategy would
  need an induction of its own.

## What could come next

`ConfigIndex` (`engine/utils.py`) and the ranked orders between the exit walk and
the simulator; the order of the frames among instruments of equal rank.

## Not modelled

Three strategies: `factor_composite` (z-scores over a universe),
`forced_selling_dip` (compounded returns of a sector) and `ml_supertrend` (a
learned model), whose decisions compare floats that integers do not carry. The
loading of configs and the clean-up of data frames; metrics, equity curves and
file formats (floating-point reports); SQL builders (text); the first version of the intraday simulator and the
production runner (which repeat the loop of the second); research scripts, which
hold no state that outlives a call. `PROJECT.json` lists them with their reasons.
In the parts that are modelled: exchange-specific charges are a rate, dates are
day numbers, the text of wrappers and messages is left out, and the account's
project list is never longer than the page the code asks for.
