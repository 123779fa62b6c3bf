-------------------------- MODULE SignalGenerators --------------------------
(***************************************************************************)
(* generate_orders of the single-instrument strategies of engine/signals/, *)
(* for one scanner, entry and exit config: for each of them the rows that  *)
(* are signals, the rule that ends a position, and the orders.  EC and XC  *)
(* are the configs, with the keys of the code (a key that two strategies   *)
(* use with different values is in a record of the strategy's name);       *)
(* percentages and fractions are whole percents.                           *)
(***************************************************************************)
EXTENDS SignalBase

CONSTANTS EC, XC

-----------------------------------------------------------------------------
(* overnight_hold: at the close of the signal day, to the next open.       *)

Change(course, k) ==
    IF k = 1 THEN 0
    ELSE IF course[k].close = None \/ course[k - 1].close = None THEN 0
    ELSE course[k].close - course[k - 1].close

\* rsi_14 >= min_rsi, over EC.rsi_period rows; a null RSI passes.
RsiHighEnough(course, i) ==
    LET W == Window(i, EC.rsi_period)
        gain == SumOver(LAMBDA k : Max({Change(course, k), 0}), W)
        loss == SumOver(LAMBDA k : Max({-Change(course, k), 0}), W)
    IN  Full(i, EC.rsi_period) =>
            IF loss > 0 THEN 100 * gain >= EC.min_rsi_14 * (gain + loss)
            ELSE 100 >= EC.min_rsi_14

OvernightHold(course, start) ==
    {Order(course[i].day, course[i].close, course[i + 1].day, course[i + 1].open) :
        i \in {r \in Rows(course, start) :
                 /\ Scanned(course, r)
                 /\ EC.buy_on_down_day => course[r].close < course[r].open
                 /\ EC.min_rsi_14 > 0 => RsiHighEnough(course, r)}}

-----------------------------------------------------------------------------
(* gap_fill: from the open to the close of the same day; the last row of   *)
(* the course is not dropped.                                              *)

GapFill(course, start) ==
    LET gap(i) == course[i].open - course[i - 1].close
        Signal(i) == /\ i > 1 /\ course[i].day >= start
                     /\ course[i - 1].close # None
                     /\ 100 * gap(i) < -EC.min_gap_down_pct * course[i - 1].close
                     /\ 100 * gap(i) > -EC.max_gap_down_pct * course[i - 1].close
                     /\ Scanned(course, i)
    IN  {Order(course[i].day, course[i].open, course[i].day, course[i].close) :
            i \in {r \in DOMAIN course : Signal(r)}}

-----------------------------------------------------------------------------
(* Mean reversion: every signal is an order.                               *)

IbsReversion(course, start) ==
    LET Signal(i) == /\ Scanned(course, i)
                     /\ IbsBelow(course[i], EC.ibs_entry_threshold)
                     /\ AboveSMA(course, i, EC.sma_trend_period)
        Fires(i, j) == \/ IbsAbove(course[j], XC.ibs_exit_threshold)
                       \/ HoldDays(course, i, j) >= XC.max_hold_days
        exit(i) == ExitAtNextOpen(course, {j \in Walked(course, i) : Fires(i, j)})
    IN  EverySignal(course, [i \in {r \in Rows(course, start) : Signal(r)} |-> exit(i)])

\* The deviation of the close of row i from the mean of its w rows, against
\* bb_std (in tenths) sample standard deviations of those rows, both squared.
OutsideBand(course, i, w) ==
    LET W == Window(i, w)
        sum == SumClose(course, W)
        squares == SumOver(LAMBDA k : course[k].close * course[k].close, W)
        dev == w * course[i].close - sum
    IN  100 * dev * dev * (w - 1)
            > EC.bb_std * EC.bb_std * w * (w * squares - sum * sum)
BelowBand(course, i) ==
    BelowSMA(course, i, EC.bb_period) /\ OutsideBand(course, i, EC.bb_period)
AboveBand(course, i) ==
    AboveSMA(course, i, EC.bb_period) /\ OutsideBand(course, i, EC.bb_period)

\* A row without a band is passed over, the hold limit with it.
BbReversion(course, start) ==
    LET Signal(i) == /\ Scanned(course, i) /\ BelowBand(course, i)
                     /\ AboveSMA(course, i, EC.sma_trend_period)
        Fires(i, j) == /\ Known(course, j, EC.bb_period)
                       /\ \/ AboveBand(course, j)
                          \/ HoldDays(course, i, j) >= XC.max_hold_days
        exit(i) == ExitAtClose(course, {j \in Walked(course, i) : Fires(i, j)})
    IN  EverySignal(course, [i \in {r \in Rows(course, start) : Signal(r)} |-> exit(i)])

\* The averages of the exit are taken over the rows from start on: the one of
\* the exit over as many as there are, the trend only over a full window.
ConnorsRsi(course, start) ==
    LET rows == Rows(course, start)
        Changes(i) == {k \in 2..i : Closed(course, {k - 1, k}) = {k - 1, k}}
        AboveExitSMA(j) ==
            LET W == Closed(course, Window(j, XC.exit_sma_period) \cap rows)
            IN  Cardinality(W) * course[j].close > SumClose(course, W)
        Signal(i) == /\ Scanned(course, i)
                     /\ Cardinality(Changes(i)) >= EC.rsi_period
                     /\ course[i].rsi < EC.rsi_entry_threshold
                     /\ AboveSMA(course, i, EC.sma_trend_period)
        Fires(i, j) == \/ AboveExitSMA(j)
                       \/ /\ Window(j, EC.sma_trend_period) \subseteq rows
                          /\ BelowSMA(course, j, EC.sma_trend_period)
                       \/ HoldDays(course, i, j) >= XC.max_hold_days
        exit(i) == ExitAtNextOpen(course, {j \in Walked(course, i) : Fires(i, j)})
    IN  EverySignal(course, [i \in {r \in Rows(course, start) : Signal(r)} |-> exit(i)])

\* The windows of 10 and 25 days, 5 and 20 days of extended_ibs.py are keys of
\* EC here; vei is the short average true range over the long one.
TrueRange(course, k) ==
    LET b == course[k]
        prev == IF k = 1 THEN None ELSE course[k - 1].close
        Abs(x) == Max({x, -x})
    IN  IF prev = None THEN b.high - b.low
        ELSE Max({b.high - b.low, Abs(b.high - prev), Abs(b.low - prev)})

CalmEnough(course, i) ==
    LET total(w) == SumOver(LAMBDA k : TrueRange(course, k), Window(i, w))
    IN  /\ Full(i, EC.atr_long)
        /\ 100 * EC.atr_long * total(EC.atr_short)
              < EC.vei_max * EC.atr_short * total(EC.atr_long)

ExtendedIbs(course, start) ==
    LET Oversold(i) ==
            LET high == Max({course[k].high : k \in Window(i, EC.high_window)})
                range == SumOver(LAMBDA k : course[k].high - course[k].low,
                                 Window(i, EC.range_window))
            IN  /\ Full(i, EC.high_window) /\ Full(i, EC.range_window)
                /\ 2 * EC.range_window * (high - course[i].close) > 5 * range
        Signal(i) == /\ Scanned(course, i) /\ Oversold(i)
                     /\ IbsBelow(course[i], EC.ibs_threshold)
                     /\ EC.extended_ibs.sma_trend_period > 0 =>
                            AboveSMA(course, i, EC.extended_ibs.sma_trend_period)
                     /\ EC.vei_max > 0 => CalmEnough(course, i)
        highest(i, j) == Max({course[i + 1].open} \cup {course[k].close : k \in (i + 1)..j})
        Fires(i, j) ==
            \/ /\ XC.stop_loss_pct > 0
               /\ 100 * course[j].close <= (100 - XC.stop_loss_pct) * course[i + 1].open
            \/ /\ XC.trailing_stop_pct > 0
               /\ 100 * course[j].close <= (100 - XC.trailing_stop_pct) * highest(i, j)
            \/ course[j].close > course[j - 1].high
            \/ HoldDays(course, i, j) >= XC.max_hold_days
        exit(i) == ExitAtClose(course, {j \in Walked(course, i) : Fires(i, j)})
    IN  EverySignal(course, [i \in {r \in Rows(course, start) : Signal(r)} |-> exit(i)])

-----------------------------------------------------------------------------
(* Breakouts: every signal is an order.                                    *)

\* momentum > 0 and falling; it starts anew with each position and skips the
\* rows where it is null.
Momentum(course, i) ==
    IF i > EC.mom_period /\ course[i].close # None
          /\ course[i - EC.mom_period].close # None
    THEN {course[i].close - course[i - EC.mom_period].close} ELSE {}

Squeeze(course, start) ==
    LET Signal(i) == /\ Scanned(course, i)
                     /\ i > 1 /\ course[i - 1].squeeze /\ ~course[i].squeeze
                     /\ \E m \in Momentum(course, i) : m > 0
        Fades(i, j) ==
            LET seen == {k \in (i + 1)..(j - 1) : Momentum(course, k) # {}}
            IN  /\ seen # {}
                /\ \E p \in Momentum(course, Max(seen)), m \in Momentum(course, j) :
                      m < p /\ p > 0
        Fires(i, j) ==
            \/ Fades(i, j)
            \/ 100 * course[j].close <= (100 - XC.stop_loss_pct) * course[i + 1].open
            \/ HoldDays(course, i, j) >= XC.max_hold_days
        exit(i) == ExitAtClose(course, {j \in Walked(course, i) : Fires(i, j)})
    IN  EverySignal(course, [i \in {r \in Rows(course, start) : Signal(r)} |-> exit(i)])

\* The stop is the highest low since the box, or a trail below the highest
\* close, whichever is higher.
DarvasBox(course, start) ==
    LET Box(i) == Window(i - 1, EC.box_min_days)
        volumes(i) == {k \in Window(i, EC.vol_window) : k >= 1}
        Signal(i) == /\ Scanned(course, i) /\ Full(i - 1, EC.box_min_days)
                     /\ course[i].close > Max({course[k].high : k \in Box(i)})
                     /\ Cardinality(volumes(i)) * course[i].volume
                           > EC.volume_breakout_mult
                             * SumOver(LAMBDA k : course[k].volume, volumes(i))
        walked(i, j) == Closed(course, (i + 1)..j)
        floor(i, j) == Max({Min({course[k].low : k \in Box(i)})}
                           \cup {course[k].low : k \in walked(i, j)})
        highest(i, j) == Max({course[i + 1].open} \cup {course[k].close : k \in walked(i, j)})
        Fires(i, j) ==
            \/ course[j].close < floor(i, j)
            \/ 100 * course[j].close < (100 - XC.trailing_stop_pct) * highest(i, j)
            \/ HoldDays(course, i, j) >= XC.max_hold_days
        exit(i) == ExitAtClose(course, {j \in Walked(course, i) : Fires(i, j)})
    IN  EverySignal(course, [i \in {r \in Rows(course, start) : Signal(r)} |-> exit(i)])

-----------------------------------------------------------------------------
(* swing_master: a pullback in an uptrend; every signal is an order.       *)

SwingMaster(course, start) ==
    LET EP == EC.swing_master
        XP == XC.swing_master
        Declines(k) == k > 1 /\ course[k].high < course[k - 1].high
        Signal(i) == /\ Scanned(course, i) /\ course[i].diverges
                     /\ AboveSMA(course, i, EP.sma_short)
                     /\ ShortAbove(course, i, EP.sma_short, EP.sma_long)
                     /\ \A k \in Window(i, EP.pullback_days) : Declines(k)
        \* the stop, in percents of a price: raised by the lows
        stop(i, j) == Max({(100 - XP.stop_loss_pct) * course[i + 1].open}
                          \cup {(100 - XP.trailing_buffer_pct) * course[k].low :
                                   k \in Closed(course, (i + 1)..j)})
        Fires(i, j) ==
            \/ 100 * course[j].close >= (100 + XP.target_pct) * course[i + 1].open
            \/ 100 * course[j].close <= stop(i, j)
            \/ HoldDays(course, i, j) >= XP.max_hold_days
        exit(i) == ExitAtClose(course, {j \in Walked(course, i) : Fires(i, j)})
    IN  EverySignal(course, [i \in {r \in Rows(course, start) : Signal(r)} |-> exit(i)])

-----------------------------------------------------------------------------
(* holp_lohp: a close above the high of the latest low bar.  The loop goes *)
(* on after the exit and has then forgotten the low bars before it.        *)

LowBar(course, k) ==
    /\ Full(k, EC.lookback_period)
    /\ course[k].low = Min({course[m].low : m \in Window(k, EC.lookback_period)})

\* The stop on row j: the low of the low bar, raised by the two lows before
\* each row walked after the first XC.trailing_start_day days.
StopOf(course, start, i, low, j) ==
    LET first == Min(Rows(course, start))
        trailed == {k \in Closed(course, (i + 1)..j) :
                      k >= first + 2 /\ HoldDays(course, i, k) >= XC.trailing_start_day}
    IN  Max({low} \cup {Min({course[k - 1].low, course[k - 2].low}) : k \in trailed})

HolpLohp(course, start) ==
    LET rows == Rows(course, start)
        n == Last(course)
        low_bars(from, i) == {k \in from..i : k \in rows /\ LowBar(course, k)}
        Signal(from, i) ==
            /\ i \in rows /\ Scanned(course, i) /\ low_bars(from, i) # {}
            /\ course[i].close > course[Max(low_bars(from, i))].high
        Fires(low, i, j) == \/ course[j].close <= StopOf(course, start, i, low, j)
                            \/ HoldDays(course, i, j) >= XC.max_hold_days
        exit(from, i) ==
            LET low == course[Max(low_bars(from, i))].low
            IN  ExitRow(course, {j \in Walked(course, i) : Fires(low, i, j)})
        \* the orders of the loop from `from` on
        orders[from \in 1..(n + 1)] ==
            LET signals == {i \in from..(n - 1) : Signal(from, i)}
            IN  IF signals = {} THEN {}
                ELSE LET i == Min(signals)
                         x == exit(from, i)
                     IN  {o \in {Entered(course, i, AtClose(course, x))} :
                              o.exit_price # None} \cup orders[Resume(i, x)]
    IN  IF rows = {} THEN {} ELSE orders[1]

-----------------------------------------------------------------------------
(* Index strategies: one position at a time.                               *)

StoppedOut(course, i, j) ==
    /\ XC.stop_loss_pct > 0
    /\ 100 * course[j].close <= (100 - XC.stop_loss_pct) * course[i + 1].open
TimedOut(course, i, j) ==
    XC.max_hold_days > 0 /\ HoldDays(course, i, j) >= XC.max_hold_days

IndexSmaCrossover(course, start) ==
    LET s == EC.sma_short
        l == EC.sma_long
        Signal(i) == /\ Scanned(course, i) /\ ShortAbove(course, i, s, l)
                     /\ Known(course, i - 1, s) /\ Known(course, i - 1, l)
                     /\ ~ShortAbove(course, i - 1, s, l)
        Fires(i, j) == \/ StoppedOut(course, i, j) \/ TimedOut(course, i, j)
                       \/ ShortBelow(course, j, s, l)
        exit(i) == ExitRow(course, {j \in Walked(course, i) : Fires(i, j)})
    IN  OneAtATime(course, [i \in {r \in Rows(course, start) : Signal(r)} |-> exit(i)])

IndexDipBuy(course, start) ==
    LET Signal(i) == /\ Scanned(course, i)
                     /\ BelowSMA(course, i, EC.index_dip_buy.sma_short)
                     /\ AboveSMA(course, i, EC.index_dip_buy.sma_long)
                     /\ EC.rsi_threshold > 0 =>
                            Full(i, EC.rsi_period) /\ course[i].rsi < EC.rsi_threshold
        Fires(i, j) == \/ StoppedOut(course, i, j) \/ TimedOut(course, i, j)
                       \/ AboveSMA(course, j, EC.index_dip_buy.sma_short)
        exit(i) == ExitRow(course, {j \in Walked(course, i) : Fires(i, j)})
    IN  OneAtATime(course, [i \in {r \in Rows(course, start) : Signal(r)} |-> exit(i)])

\* build_regime_filter: the days on which the regime instrument, here the one
\* that is traded, closes above its average.  No such day means no filter.
BullDays(course) ==
    {i \in DOMAIN course : EC.regime_sma_period > 0
                             /\ AboveSMA(course, i, EC.regime_sma_period)}

IndexBreakout(course, start) ==
    LET Before(i) == Window(i - 1, EC.lookback_days)
        Signal(i) == /\ Scanned(course, i) /\ Known(course, i - 1, EC.lookback_days)
                     /\ BullDays(course) # {} => i \in BullDays(course)
                     /\ course[i].close >= Max({course[k].close : k \in Before(i)})
        trail_high(i, j) == Max({course[i + 1].open} \cup {course[k].close : k \in (i + 1)..j})
        Fires(i, j) == \/ TimedOut(course, i, j)
                       \/ /\ XC.trailing_stop_pct > 0
                          /\ 100 * (trail_high(i, j) - course[j].close)
                                >= XC.trailing_stop_pct * trail_high(i, j)
        exit(i) == ExitRow(course, {j \in Walked(course, i) : Fires(i, j)})
    IN  OneAtATime(course, [i \in {r \in Rows(course, start) : Signal(r)} |-> exit(i)])

\* The day of the entry is not an exit, nor does it count as a red candle.
IndexGreenCandle(course, start) ==
    LET Green(k) == course[k].close > course[k].open
        Red(k) == course[k].close < course[k].open
        Signal(i) == /\ Scanned(course, i) /\ Known(course, i, EC.green_candles)
                     /\ \A k \in Window(i, EC.green_candles) : Green(k)
        \* red candles in a row up to j, rows without a close aside
        RedStreak(i, j) ==
            \E k \in (i + 2)..j : LET run == Closed(course, k..j)
                                  IN  /\ Cardinality(run) = XC.red_candles_exit
                                      /\ \A m \in run : Red(m)
        Fires(i, j) ==
            /\ j > i + 1
            /\ \/ /\ XC.take_profit_pct > 0
                  /\ 100 * course[j].close >= (100 + XC.take_profit_pct) * course[i + 1].open
               \/ StoppedOut(course, i, j)
               \/ RedStreak(i, j)
        exit(i) == ExitRow(course, {j \in Walked(course, i) : Fires(i, j)})
    IN  OneAtATime(course, [i \in {r \in Rows(course, start) : Signal(r)} |-> exit(i)])
=============================================================================
