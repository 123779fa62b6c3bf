----------------------------- MODULE IntradayV2 -----------------------------
(***************************************************************************)
(* simulate_intraday_v2 of engine/intraday_simulator_v2.py: each day the   *)
(* best entries are bought with what the account holds and sold on the     *)
(* same day, bar by bar; profits, and on some days a payout, move the      *)
(* account.                                                                *)
(*                                                                         *)
(* Prices and money are whole numbers and percentages are whole percents;  *)
(* a price level is in hundredths of a price, so that a percentage of a    *)
(* price is exact.  Profits are rounded down.  An equal share of the       *)
(* account is rounded down or up, as a quotient of floats is.              *)
(***************************************************************************)
EXTENDS Integers, Sequences, SequencesExt

CONSTANTS
    Symbols,
    Inputs,       \* [config, matrix]; a matrix maps dates to entries
    Charges(_)    \* charges_fn of an order value

Config == [target_pct : Nat, stop_pct : Nat, trailing_stop_pct : Nat,
           min_hold_bars : Nat, use_bar_hilo : BOOLEAN, eod_buffer_bars : Nat,
           time_stop_bars : Nat, use_atr_stop : BOOLEAN, atr_multiplier : Nat,
           exit_reentry_range : BOOLEAN, initial_capital : Nat,
           max_positions : Nat, max_positions_per_instrument : Nat,
           sizing_type : {"fixed", "equal_weight", "pct_equity"}, sizing_pct : Nat,
           order_value : Nat, max_order_value : Nat,
           ranking_type : {"signal_strength", "top_performer", "rvol"},
           ranking_window_days : Nat, payout : {"none", "fixed", "percentage"},
           payout_value : Nat, interval_days : Nat, lockup_days : Nat]

Bar == [bar_num : Nat, low : Nat, close : Nat, high : Nat]
Entry == [symbol : Symbols, entry_price : Nat, signal_strength : Int, rvol : Nat,
          atr_14 : Nat, or_high : Nat, bars : Seq(Bar)]

\* A day has one entry of a symbol at most, and an entry its bars in order, as
\* _build_entry_signals groups and sorts them.
ASSUME IntradayAssumption ==
    \A i \in Inputs :
        /\ i.config \in Config
        /\ \A date \in DOMAIN i.matrix :
            /\ date \in Nat \ {0}
            /\ i.matrix[date] \in Seq(Entry) /\ i.matrix[date] # <<>>
            /\ \A j, k \in DOMAIN i.matrix[date] :
                    i.matrix[date][j].symbol = i.matrix[date][k].symbol => j = k
            /\ \A entry \in ToSet(i.matrix[date]) :
                /\ entry.bars # <<>>
                /\ \A j, k \in DOMAIN entry.bars :
                        j < k => entry.bars[j].bar_num < entry.bars[k].bar_num

VARIABLES
    config, matrix,
    dates,           \* the dates still to be walked
    d,               \* the date being walked; 0 between days
    selected,        \* the entries of the day still to be looked at
    ov,              \* order value of the day
    margin_used, daily_pnl, instrument_counts,
    margin, days_elapsed, next_payout_day, total_withdrawn,
    trade_log, day_wise_log

vars == <<config, matrix, dates, d, selected, ov, margin_used, daily_pnl,
          instrument_counts, margin, days_elapsed, next_payout_day,
          total_withdrawn, trade_log, day_wise_log>>
input == <<config, matrix>>
account == <<margin, days_elapsed, next_payout_day, total_withdrawn, day_wise_log>>
day == <<margin_used, daily_pnl, instrument_counts>>

NoDay == 0
Level(price) == 100 * price
NoCounts == [s \in {} |-> 0]
Count(symbol) == IF symbol \in DOMAIN instrument_counts
                 THEN instrument_counts[symbol] ELSE 0

----------------------------------------------------------------------------
(* _resolve_exit *)

PriceHigh(bar) == IF config.use_bar_hilo THEN bar.high ELSE bar.close
PriceLow(bar) == IF config.use_bar_hilo THEN bar.low ELSE bar.close

\* Where the stop stands before the price has moved; never below 1 percent.
FixedStop(entry) ==
    LET stop == IF config.use_atr_stop /\ entry.atr_14 # 0
                THEN Level(entry.entry_price) - config.atr_multiplier * Level(entry.atr_14)
                ELSE entry.entry_price * (100 - config.stop_pct)
    IN  Max({stop, entry.entry_price})

StopPrice(entry, highest) ==
    IF config.trailing_stop_pct > 0
    THEN Max({FixedStop(entry), highest * (100 - config.trailing_stop_pct)})
    ELSE FixedStop(entry)

TargetPrice(entry) == entry.entry_price * (100 + config.target_pct)

TargetHit(entry, bar) ==
    config.target_pct > 0 /\ Level(PriceHigh(bar)) >= TargetPrice(entry)

Cutoff(bars) == Last(bars).bar_num - config.eod_buffer_bars

Exit(bar, price, type) == [exit_bar |-> bar.bar_num, exit_price |-> price,
                           exit_type |-> type]

Held(entry, bar) == bar.bar_num - Head(entry.bars).bar_num

\* The highest price so far; the bars of the minimum hold count.
Highest_HoldForgets(entry, highest, bar) ==   \* mutant: they do not
    IF Held(entry, bar) <= config.min_hold_bars THEN highest
    ELSE Max({highest, PriceHigh(bar)})
Highest(entry, highest, bar) == Max({highest, PriceHigh(bar)})

\* One bar of the loop; w carries the highest price, the exit of the last bar
\* looked at and whether it stands.
Checked(entry, w, bar) ==
    LET held == Held(entry, bar)
        highest == Highest(entry, w.highest, bar)
        stop == StopPrice(entry, highest)
        stop_hit == Level(PriceLow(bar)) <= stop
        Leaves(price, type) == [highest |-> highest, left |-> TRUE,
                                exit |-> Exit(bar, price, type)]
        AtClose(type) == Leaves(Level(bar.close), type)
    IN  IF w.left \/ bar.bar_num > Cutoff(entry.bars) THEN w
        ELSE IF config.time_stop_bars > 0 /\ held >= config.time_stop_bars
        THEN AtClose("time_stop")
        ELSE IF held > config.min_hold_bars /\ (stop_hit \/ TargetHit(entry, bar))
        THEN IF ~config.use_bar_hilo THEN AtClose("signal")
             ELSE Leaves(IF stop_hit THEN stop ELSE TargetPrice(entry), "signal")
        ELSE IF held > config.min_hold_bars /\ config.exit_reentry_range
                /\ bar.close < entry.or_high
        THEN AtClose("reentry")
        ELSE [AtClose("eod") EXCEPT !.left = FALSE]

\* The loop after each bar; it starts behind the first one.
Walked(entry) ==
    LET start == [highest |-> entry.entry_price, left |-> FALSE,
                  exit |-> Exit(entry.bars[1], Level(entry.bars[1].close), "eod")]
        walk[i \in DOMAIN entry.bars] ==
            IF i = 1 THEN start ELSE Checked(entry, walk[i - 1], entry.bars[i])
    IN  walk

ResolveExit(entry) == Walked(entry)[Len(entry.bars)].exit

----------------------------------------------------------------------------
(* Ranking and sizing *)

SumOf(trades, Value(_)) == SumFunction([n \in trades |-> Value(trade_log[n])])

\* symbol_scores: what a symbol earned in the window before a date.
Score(symbol, date) ==
    SumOf({n \in DOMAIN trade_log :
               /\ trade_log[n].symbol = symbol
               /\ trade_log[n].trade_date > date - config.ranking_window_days},
          LAMBDA t : t.pnl_pct)

\* What entries are sorted by, largest first.  The code puts symbols with a
\* positive score first, which the score itself does too.
Rank(entry, score) ==
    CASE config.ranking_type = "top_performer" -> <<score, entry.signal_strength>>
      [] config.ranking_type = "rvol" -> <<entry.rvol, 0>>
      [] OTHER -> <<entry.signal_strength, 0>>

Higher(a, b) == a[1] > b[1] \/ (a[1] = b[1] /\ a[2] > b[2])

\* The entries in the order of sorted(), which is stable.
Ranked(date) ==
    LET entries == matrix[date]
        RankOf(i) == Rank(entries[i], Score(entries[i].symbol, date))
        Before(i, j) == Higher(RankOf(i), RankOf(j))
                            \/ (RankOf(i) = RankOf(j) /\ i < j)
        order == CHOOSE o \in [DOMAIN entries -> DOMAIN entries] :
                    \A i, j \in DOMAIN entries : i < j => Before(o[i], o[j])
    IN  [i \in DOMAIN entries |-> entries[order[i]]]

Selected(date) ==
    SubSeq(Ranked(date), 1, Min({config.max_positions, Len(matrix[date])}))

\* A quotient of floats: rounded either way, and 0 only for 0.
Quotients(a, b) == {q \in {a \div b, -((-a) \div b)} : q = 0 => a = 0}

\* What one order may be worth on a day that opens with `balance`.
OrderValues(balance) ==
    LET sizes == CASE config.sizing_type = "equal_weight" ->
                        IF config.max_positions = 0 THEN {0}
                        ELSE Quotients(balance, config.max_positions)
                   [] config.sizing_type = "pct_equity" ->
                        Quotients(balance * config.sizing_pct, 100)
                   [] OTHER -> {config.order_value}
    IN  IF config.max_order_value = 0 THEN sizes   \* 0 is no limit
        ELSE {Min({v, config.max_order_value}) : v \in sizes}

----------------------------------------------------------------------------
(* The day loop *)

\* The first date with a payout; without one, 0.
FirstPayoutDay(c) == IF c.payout = "none" THEN 0
                     ELSE Max({c.lockup_days, c.interval_days})

Init ==
    /\ \E i \in Inputs : config = i.config /\ matrix = i.matrix
    /\ dates = DOMAIN matrix /\ d = NoDay /\ selected = <<>> /\ ov = 0
    /\ margin_used = 0 /\ daily_pnl = 0 /\ instrument_counts = NoCounts
    /\ margin = config.initial_capital /\ days_elapsed = 0
    /\ next_payout_day = FirstPayoutDay(config) /\ total_withdrawn = 0
    /\ trade_log = <<>> /\ day_wise_log = <<>>

Log(date, value) ==
    day_wise_log' = Append(day_wise_log, [date |-> date, margin_available |-> value])

\* Nothing can be sized: the day is logged, and neither it nor a payout counts.
SkipDay ==
    /\ d = NoDay /\ dates # {}
    /\ \E v \in OrderValues(margin) : v <= 0
    /\ dates' = dates \ {Min(dates)}
    /\ Log(Min(dates), margin)
    /\ UNCHANGED <<input, d, selected, ov, day, margin, days_elapsed,
                   next_payout_day, total_withdrawn, trade_log>>

OpenDay ==
    /\ d = NoDay /\ dates # {}
    /\ d' = Min(dates) /\ dates' = dates \ {d'}
    /\ ov' \in {v \in OrderValues(margin) : v > 0}
    /\ selected' = Selected(d')
    /\ margin_used' = 0 /\ daily_pnl' = 0 /\ instrument_counts' = NoCounts
    /\ UNCHANGED <<input, account, trade_log>>

Tradable(entry) ==
    /\ entry.entry_price > 0
    /\ Count(entry.symbol) < config.max_positions_per_instrument

PassOver ==
    /\ selected # <<>> /\ ~Tradable(Head(selected))
    /\ selected' = Tail(selected)
    /\ UNCHANGED <<input, dates, d, ov, day, account, trade_log>>

Affordable_Unspent == margin >= ov   \* mutant: what the day has used is forgotten
Affordable == margin - margin_used >= ov

StopBuying ==
    /\ selected # <<>> /\ Tradable(Head(selected)) /\ ~Affordable
    /\ selected' = <<>>
    /\ UNCHANGED <<input, dates, d, ov, day, account, trade_log>>

Trade ==
    /\ selected # <<>> /\ Tradable(Head(selected)) /\ Affordable
    /\ LET entry == Head(selected)
           exit == ResolveExit(entry)
           gain == exit.exit_price - Level(entry.entry_price)
           pnl == (gain * ov) \div Level(entry.entry_price) - Charges(ov)
       IN  /\ daily_pnl' = daily_pnl + pnl
           /\ instrument_counts' =
                [s \in DOMAIN instrument_counts \cup {entry.symbol} |->
                    Count(s) + IF s = entry.symbol THEN 1 ELSE 0]
           /\ trade_log' = Append(trade_log,
                [symbol |-> entry.symbol, trade_date |-> d,
                 exit_bar |-> exit.exit_bar, exit_price |-> exit.exit_price,
                 exit_type |-> exit.exit_type, pnl |-> pnl,
                 pnl_pct |-> (100 * gain) \div entry.entry_price,
                 order_value |-> ov])
    /\ margin_used' = margin_used + ov
    /\ selected' = Tail(selected)
    /\ UNCHANGED <<input, dates, d, ov, account>>

\* Never more than the account holds.
Payout(balance) ==
    Min({IF config.payout = "percentage" THEN (balance * config.payout_value) \div 100
         ELSE config.payout_value, Max({balance, 0})})

PayoutDue_Late == next_payout_day # 0 /\ days_elapsed' > next_payout_day  \* mutant
PayoutDue == next_payout_day # 0 /\ days_elapsed' >= next_payout_day

CloseDay ==
    /\ d # NoDay /\ selected = <<>>
    /\ d' = NoDay /\ ov' = 0
    /\ days_elapsed' = days_elapsed + 1
    /\ LET balance == margin + daily_pnl
           withdrawal == IF PayoutDue THEN Payout(balance) ELSE 0
       IN  /\ margin' = balance - withdrawal
           /\ total_withdrawn' = total_withdrawn + withdrawal
    /\ next_payout_day' = next_payout_day + IF PayoutDue THEN config.interval_days ELSE 0
    /\ Log(d, margin')
    /\ UNCHANGED <<input, dates, selected, day, trade_log>>

Next == SkipDay \/ OpenDay \/ PassOver \/ StopBuying \/ Trade \/ CloseDay

Spec == Init /\ [][Next]_vars

----------------------------------------------------------------------------
(* Properties *)

TradesOf(date) == {n \in DOMAIN trade_log : trade_log[n].trade_date = date}
Earned(trades) == SumOf(trades, LAMBDA t : t.pnl)

\* The account before the i-th logged day.
OpenedWith(i) == IF i = 1 THEN config.initial_capital
             ELSE day_wise_log[i - 1].margin_available

\* The account is what the trades and the payouts of the days so far make it,
\* and a payout is due on every interval-th day from the first on, counted in
\* days with an order value: none is lost, doubled or moved by what happened on
\* the days before, and none takes more than there is.
PaidOnSchedule ==
    LET first == FirstPayoutDay(config)
        Due(i) == /\ config.payout # "none" /\ first # 0 /\ i >= first
                  /\ config.interval_days = 0 \/ (i - first) % config.interval_days = 0
        Earning(i) == OpenedWith(i) + Earned(TradesOf(day_wise_log[i].date))
    IN  /\ \A i \in 1..days_elapsed :
              day_wise_log[i].margin_available =
                  Earning(i) - IF Due(i) THEN Payout(Earning(i)) ELSE 0
        /\ \A i \in days_elapsed + 1..Len(day_wise_log) :
              day_wise_log[i].margin_available = OpenedWith(i)
        /\ config.initial_capital + Earned(DOMAIN trade_log) - total_withdrawn =
              margin + Earned(TradesOf(d))

\* What a day buys is the best of what it can buy, by what earlier days of the
\* window earned, is paid from the account as it stood at the open, and stops
\* short of the limit only when the next order would not fit.
BuysTheBestItCanAfford ==
    \A i \in 1..days_elapsed :
        LET date == day_wise_log[i].date
            entries == matrix[date]
            trades == TradesOf(date)
            Past(t) == t.trade_date \in date - config.ranking_window_days + 1 .. date - 1
            RankOf(j) == Rank(entries[j],
                SumOf({n \in DOMAIN trade_log : /\ Past(trade_log[n])
                                                /\ trade_log[n].symbol = entries[j].symbol},
                      LAMBDA t : t.pnl_pct))
            Ahead(j) == {k \in DOMAIN entries :
                Higher(RankOf(k), RankOf(j)) \/ (RankOf(k) = RankOf(j) /\ k < j)}
            Bought(j) == \E n \in trades : trade_log[n].symbol = entries[j].symbol
            spent == SumOf(trades, LAMBDA t : t.order_value)
        IN  /\ spent <= Max({OpenedWith(i), 0})
            /\ \A j \in DOMAIN entries : entries[j].entry_price > 0 =>
                  IF Cardinality(Ahead(j)) >= config.max_positions THEN ~Bought(j)
                  ELSE \/ Bought(j)
                       \/ config.max_positions_per_instrument = 0
                       \/ /\ \A k \in DOMAIN entries : Bought(k) => k \in Ahead(j)
                          /\ \E v \in OrderValues(OpenedWith(i)) : OpenedWith(i) - spent < v

\* A position is sold on the first bar that gives reason to: while it is held
\* no bar up to the cutoff reaches the target or the stop, which trails the
\* highest price of the day and is at least 1 percent of the entry price.
LeavesWhenItMust ==
    \A n \in DOMAIN trade_log :
        LET t == trade_log[n]
            entry == CHOOSE e \in ToSet(matrix[t.trade_date]) : e.symbol = t.symbol
            bars == entry.bars
            Minutes(i) == bars[i].bar_num - bars[1].bar_num
            Peak(i) == Max({entry.entry_price} \cup {PriceHigh(bars[j]) : j \in 2..i})
            Quiet(i) ==
                /\ config.time_stop_bars > 0 => Minutes(i) < config.time_stop_bars
                /\ Minutes(i) > config.min_hold_bars =>
                      /\ ~TargetHit(entry, bars[i])
                      /\ Level(PriceLow(bars[i])) > entry.entry_price
                      /\ Level(PriceLow(bars[i])) > StopPrice(entry, Peak(i))
                      /\ config.exit_reentry_range => bars[i].close >= entry.or_high
            last == CHOOSE i \in DOMAIN bars : bars[i].bar_num = t.exit_bar
        IN  /\ \A i \in 2..(last - 1) : Quiet(i)
            /\ last > 1 => t.exit_bar <= Cutoff(bars)
            /\ t.exit_type = "eod" =>
                  /\ last > 1 => Quiet(last)
                  /\ \A i \in last + 1..Len(bars) : bars[i].bar_num > Cutoff(bars)
=============================================================================
