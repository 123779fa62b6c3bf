-------------------------- MODULE PanelGenerators ---------------------------
(***************************************************************************)
(* generate_orders of the strategies of engine/signals/ that look at more  *)
(* than one instrument: they rank a universe, gate their entries by the    *)
(* breadth of the market, or trade by the regime of another instrument.    *)
(*                                                                         *)
(* A panel is a sequence of courses, one per instrument, in the order of   *)
(* their names; a regime_instrument of 0 is none.  Which of two            *)
(* instruments with the same return comes first is not defined by the      *)
(* code: the runs keep to courses whose returns differ.                    *)
(***************************************************************************)
EXTENDS SignalGenerators

OrderOf(instrument, o) ==
    [instrument |-> instrument, entry_epoch |-> o.entry_epoch, exit_epoch |-> o.exit_epoch,
     entry_price |-> o.entry_price, exit_price |-> o.exit_price]

\* Every signal is an order; `exits` gives each instrument its signal rows and
\* each of them its exit.
EverySignalOf(panel, exits) ==
    UNION {{OrderOf(x, o) : o \in EverySignal(panel[x], exits[x])} : x \in DOMAIN panel}

DaysOf(course, rows) == {course[i].day : i \in rows}
Days(panel, start) == UNION {DaysOf(panel[x], Rows(panel[x], start)) : x \in DOMAIN panel}
RowAt(course, day) == CHOOSE i \in DOMAIN course : course[i].day = day

-----------------------------------------------------------------------------
(* Regimes                                                                 *)

\* build_regime_filter
ExternalBull(panel, EP) ==
    LET x == EP.regime_instrument
    IN  IF x \notin DOMAIN panel \/ EP.regime_sma_period = 0 THEN {}
        ELSE DaysOf(panel[x], {i \in DOMAIN panel[x] :
                                 AboveSMA(panel[x], i, EP.regime_sma_period)})

\* The rows of a window that the scanner has tagged, as pairs of an instrument
\* and a row; the regime averages over these rows, not over days.
ScannedRows(panel, start) ==
    UNION {{<<x, i>> : i \in {r \in DOMAIN panel[x] :
                                panel[x][r].day >= start /\ Scanned(panel[x], r)}} :
              x \in DOMAIN panel}

\* The last `period` of the rows of an instrument up to i, if they are half of
\* that.
RegimeWindow(rows, i, period) ==
    LET W == {k \in rows : k <= i /\ Cardinality({m \in rows : k < m /\ m <= i}) < period}
    IN  IF Cardinality(W) >= Max({1, period \div 2}) THEN W ELSE {}

RegimeWindows(scanned, period) ==
    [r \in scanned |-> RegimeWindow({q[2] : q \in {p \in scanned : p[1] = r[1]}}, r[2], period)]

\* The scores of compute_internal_regime_epochs: of the instruments scanned on
\* a day, those that have an average and those that close above it.
RegimeScores(panel, windows) ==
    LET rated == {r \in DOMAIN windows : windows[r] # {}}
        bar(r) == panel[r[1]][r[2]]
        Above(r) == Cardinality(windows[r]) * bar(r).close > SumClose(panel[r[1]], windows[r])
        on(d) == {r \in rated : bar(r).day = d}
    IN  [d \in {bar(r).day : r \in rated} |->
            [of |-> Cardinality(on(d)), above |-> Cardinality({r \in on(d) : Above(r)})]]

InternalBull(scores, EP) ==
    {d \in DOMAIN scores : 100 * scores[d].above > EP.internal_regime_threshold * scores[d].of}

\* compute_internal_regime_epochs_hysteresis
HystereticBull(scores, EP) ==
    LET Reaches(d, pct) == 100 * scores[d].above >= pct * scores[d].of
        is_bull[d \in DOMAIN scores] ==
            LET before == {e \in DOMAIN scores : e < d}
            IN  IF before # {} /\ is_bull[Max(before)]
                THEN Reaches(d, EP.internal_regime_exit_threshold)
                ELSE 100 * scores[d].above > EP.internal_regime_threshold * scores[d].of
    IN  {d \in DOMAIN scores : is_bull[d]}

\* The bull days of an entry config: those of both regimes if both are on.
\* None at all means no regime.
BothBulls(external, internal, EP) ==
    IF EP.internal_regime_sma_period = 0 THEN external
    ELSE IF external = {} THEN internal ELSE external \cap internal

ScoredBulls(scores, EP) ==
    IF EP.internal_regime_exit_threshold > 0 THEN HystereticBull(scores, EP)
    ELSE InternalBull(scores, EP)

Bulls(panel, start, EP) ==
    LET windows == RegimeWindows(ScannedRows(panel, start), EP.internal_regime_sma_period)
    IN  BothBulls(ExternalBull(panel, EP), ScoredBulls(RegimeScores(panel, windows), EP), EP)

Allowed(bulls, day) == bulls # {} => day \in bulls

-----------------------------------------------------------------------------
(* Breadth and windows with min_samples=1                                  *)

AboveMean(course, i, w) ==
    LET W == Closed(course, Window(i, w))
    IN  i \in W /\ Cardinality(W) * course[i].close > SumClose(course, W)
AtHigh(course, i, w) ==
    LET W == Closed(course, Window(i, w))
    IN  i \in W /\ \A k \in W : course[i].close >= course[k].close

\* The share of the instruments with a row on a day that close above their
\* average exceeds `pct`; rows after `last` are not in the frame.
Breadth(panel, last, day, w, pct) ==
    LET present == {x \in DOMAIN panel : \E i \in 1..last[x] : panel[x][i].day = day}
        up == {x \in present : AboveMean(panel[x], RowAt(panel[x], day), w)}
    IN  100 * Cardinality(up) > pct * Cardinality(present)

AllRows(panel) == [x \in DOMAIN panel |-> Len(panel[x])]
LastRows(panel) == [x \in DOMAIN panel |-> Last(panel[x])]

\* The gate of an entry config, if it has one.
Broad(panel, day, EP) ==
    EP.direction_score_n_day_ma > 0 /\ EP.direction_score_threshold > 0 =>
        Breadth(panel, AllRows(panel), day, EP.direction_score_n_day_ma,
                EP.direction_score_threshold)

-----------------------------------------------------------------------------
(* walk_forward_exit (base.py) and _walk_forward_tsl (eod_breakout.py)     *)

TrailHigh(course, i, j) ==
    Max({course[i + 1].open} \cup {course[k].close : k \in Closed(course, (i + 1)..j)})
Trailed(course, i, j, pct) ==
    100 * course[j].close <= (100 - pct) * TrailHigh(course, i, j)
Recovered(course, i, j, peak) ==
    \E k \in Closed(course, (i + 1)..j) : course[k].close >= peak

\* A position is kept on the days `keep`: every day without a regime.
AnyDay == Nat

\* The rows on which walk_forward_exit fires.  Without a stop it waits for the
\* peak; with `gated` the stop is armed by the peak.
WalkForward(course, i, peak, XP, gated, keep) ==
    {j \in Walked(course, i) :
        \/ XP.max_hold_days > 0 /\ HoldDays(course, i, j) >= XP.max_hold_days
        \/ course[j].day \notin keep
        \/ XP.trailing_stop_pct = 0 /\ course[j].close >= peak
        \/ /\ XP.trailing_stop_pct > 0
           /\ gated => Recovered(course, i, j, peak)
           /\ Trailed(course, i, j, XP.trailing_stop_pct)}

\* _exit_at with opens: the open of the next row, if there is one in the frame.
ExitAtOpenWithin(course, fired) ==
    IF ExitRow(course, fired) = Last(course) THEN AtClose(course, Last(course))
    ELSE AtNextOpen(course, Min(fired))

\* _walk_forward_tsl: a fall of more than 20 percent since the close before is
\* sold at 80 percent of that close (rounded down here), the last row at its
\* close, a flip of the regime or a stop at the next open.
Dropped(course, i, j) ==
    LET before == Closed(course, (i + 1)..(j - 1))
        last_close == course[Max(before)].close
    IN  before # {} /\ 100 * (last_close - course[j].close) > 20 * last_close

\* The rows on which the walk ends.
TslEnds(course, i, XP, keep) ==
    LET entry_price == course[i + 1].open
        max_price(j) == Max({course[k].close : k \in Closed(course, (i + 1)..j)})
        stop_pct(high) ==
            IF /\ XP.tsl_tighten_after_pct < 999 /\ XP.tsl_tight_pct > 0
               /\ 100 * (high - entry_price) > XP.tsl_tighten_after_pct * entry_price
            THEN XP.tsl_tight_pct ELSE XP.trailing_stop_pct
        Stops(j, high) == 100 * (high - course[j].close) > stop_pct(high) * high
    IN  {j \in Walked(course, i) :
            \/ Dropped(course, i, j) \/ j = Last(course)
            \/ /\ HoldDays(course, i, j) >= XP.min_hold_time_days
               /\ course[j].day \notin keep \/ Stops(j, max_price(j))}

TslExitOn(course, i, ends) ==
    LET end == ExitRow(course, ends)
        last_close == course[Max(Closed(course, (i + 1)..(end - 1)))].close
    IN  IF ends # {} /\ Dropped(course, i, end)
        THEN [day |-> course[end].day, price |-> (4 * last_close) \div 5]
        ELSE ExitAtOpenWithin(course, ends)

TslExit(course, i, XP, keep) == TslExitOn(course, i, TslEnds(course, i, XP, keep))

-----------------------------------------------------------------------------
(* Rankings                                                                *)

\* The return over w rows that is known `lag` rows later.
Return(course, i, w, lag) ==
    [now |-> course[i - lag].close, past |-> course[i - lag - w].close]
HasReturn(course, i, w, lag) ==
    i > w + lag /\ course[i - lag].close # None /\ course[i - lag - w].close # None

Beats(r, q) == r.now * q.past > q.now * r.past

\* sort, head(n): n of S, or all, and none of the others ahead of any of them.
\* The sort leaves open which of equals it keeps.
Foremost(S, ahead, n) ==
    CHOOSE T \in SUBSET S :
        /\ Cardinality(T) <= n /\ (T # S => Cardinality(T) = n)
        /\ \A x \in T, y \in S \ T : <<y, x>> \notin ahead

Best(returns, n) ==
    LET S == DOMAIN returns
    IN  Foremost(S, {p \in S \X S : Beats(returns[p[1]], returns[p[2]])}, n)

\* The best share, in percent, and at least one.
BestShare(returns, pct) ==
    Best(returns, Max({1, (Cardinality(DOMAIN returns) * pct) \div 100}))

\* The returns of the instruments scanned on a day; rows after `last` are not
\* in the frame.
Returns(panel, last, day, w, lag) ==
    LET Ranked(x) == \E i \in 1..last[x] :
                        /\ panel[x][i].day = day /\ panel[x][i].close # None
                        /\ Scanned(panel[x], i) /\ HasReturn(panel[x], i, w, lag)
    IN  [x \in {y \in DOMAIN panel : Ranked(y)} |->
            Return(panel[x], RowAt(panel[x], day), w, lag)]

\* Every n-th day of a window, beginning with its first.
EveryNth(days, n) == {d \in days : Cardinality({e \in days : e < d}) % n = 0}

\* The day whose universe is used on a day: the first day of the window, and
\* each day that is `interval` calendar days after the one used before it.
ScreenDay(days, interval) ==
    LET used[d \in days] ==
            LET before == {e \in days : e < d}
            IN  IF before = {} THEN d
                ELSE LET last == used[Max(before)]
                     IN  IF d - last < interval THEN last ELSE d
    IN  used

-----------------------------------------------------------------------------
(* momentum_dip: dips of the instruments with the best returns.            *)

MomentumDip(panel, start) ==
    LET EP == EC.momentum_dip
        XP == XC.momentum_dip
        ranked == ScreenDay(Days(panel, start), EP.rerank_interval_days)
        returns(d) == Returns(panel, LastRows(panel), d, EP.momentum_lookback_days, 0)
        Signal(x, i) == /\ Scanned(panel[x], i) /\ Full(i, EP.rsi_period)
                        /\ panel[x][i].rsi < EP.rsi_threshold
                        /\ x \in Best(returns(ranked[panel[x][i].day]), EP.top_n)
        Fires(c, i, j) ==
            \/ 100 * c[j].close >= (100 + XP.profit_target_pct) * c[i + 1].open
            \/ HoldDays(c, i, j) >= XP.max_hold_days
        exit(c, i) == ExitAtClose(c, {j \in Walked(c, i) : Fires(c, i, j)})
    IN  EverySignalOf(panel, [x \in DOMAIN panel |->
            [i \in {r \in Rows(panel[x], start) : Signal(x, r)} |-> exit(panel[x], i)]])

-----------------------------------------------------------------------------
(* momentum_rebalance: the best at the close of every n-th day, to the     *)
(* close of the next such day; the last row of a course is not dropped.    *)

\* The day on which the positions of a rebalance are closed: the next
\* rebalance or the last day, or the last day within the hold limit before it.
RebalanceExit(days, rebalances, d, max_hold_days) ==
    LET later == {e \in rebalances : e > d}
        next_rb == IF later # {} THEN Min(later) ELSE Max(days)
        held == {e \in days : d < e /\ e <= d + max_hold_days}
    IN  IF max_hold_days > 0 /\ d + max_hold_days < next_rb /\ held # {}
        THEN Max(held) ELSE next_rb

MomentumRebalance(panel, start) ==
    LET EP == EC.momentum_rebalance
        days == UNION {DaysOf(panel[x], {i \in DOMAIN panel[x] : panel[x][i].day >= start}) :
                          x \in DOMAIN panel}
        rebalances == EveryNth(days, EP.rebalance_interval_days)
        bulls == ExternalBull(panel, EP)
        top(d) == Best(Returns(panel, AllRows(panel), d, EP.momentum_lookback_days,
                               EP.moc_signal_lag_days), EP.num_positions)
        close(x, d) == IF d \notin DaysOf(panel[x], DOMAIN panel[x]) THEN None
                       ELSE panel[x][RowAt(panel[x], d)].close
        exit(d) == RebalanceExit(days, rebalances, d, XC.momentum_rebalance.max_hold_days)
        held(d, out) ==
            {OrderOf(x, Order(d, close(x, d), out, close(x, out))) :
                x \in {y \in top(d) : close(y, out) # None}}
    IN  UNION {held(d, exit(d)) : d \in {e \in rebalances : Allowed(bulls, e) /\ exit(e) > e}}

-----------------------------------------------------------------------------
(* momentum_cascade: returns that grow, at a new high.                     *)

MomentumCascade(panel, start) ==
    LET EP == EC.momentum_cascade
        XP == XC.momentum_cascade
        f == EP.fast_lookback_days
        s == EP.slow_lookback_days
        needed == Max({s, 2 * f, EP.breakout_window}) + EP.margin
        bulls == ExternalBull(panel, EP)
        Faster(c, p, q) == 100 * (c * q - p * p) >= EP.accel_threshold_pct * p * q
        Signal(c, i) ==
            /\ Last(c) >= needed + 2 /\ i > needed
            /\ Scanned(c, i) /\ Allowed(bulls, c[i].day)
            /\ Closed(c, {i, i - s, i - f, i - 2 * f}) = {i, i - s, i - f, i - 2 * f}
            /\ 100 * (c[i].close - c[i - s].close) >= EP.min_momentum_pct * c[i - s].close
            /\ Faster(c[i].close, c[i - f].close, c[i - 2 * f].close)
            /\ \A k \in Window(i - 1, EP.breakout_window) : c[k].close < c[i].close
        Fires(c, i, j) ==
            \/ XP.max_hold_days > 0 /\ HoldDays(c, i, j) >= XP.max_hold_days
            \/ /\ XP.trailing_stop_pct > 0 /\ Recovered(c, i, j, c[i].close)
               /\ Trailed(c, i, j, XP.trailing_stop_pct)
        exit(c, i) == ExitAtClose(c, {j \in Walked(c, i) : Fires(c, i, j)})
    IN  EverySignalOf(panel, [x \in DOMAIN panel |->
            [i \in {r \in Rows(panel[x], start) : Signal(panel[x], r)} |-> exit(panel[x], i)]])

-----------------------------------------------------------------------------
(* momentum_top_gainers: the best share of the universe every n-th day, in *)
(* a broad market.                                                         *)

Strong(returns, pct) ==
    LET Enough(r) == pct > 0 => 100 * (r.now - r.past) >= pct * r.past
    IN  [x \in {y \in DOMAIN returns : Enough(returns[y])} |-> returns[x]]

MomentumTopGainers(panel, start) ==
    LET EP == EC.momentum_top_gainers
        days == Days(panel, start)
        bulls == ExternalBull(panel, EP)
        returns(d) == Returns(panel, LastRows(panel), d, EP.momentum_lookback_days, 0)
        Bought(x, d) ==
            /\ d \in EveryNth(days, EP.rebalance_interval_days)
            /\ Allowed(bulls, d) /\ Broad(panel, d, EP)
            /\ x \in BestShare(Strong(returns(d), EP.min_momentum_pct), EP.top_n_pct)
        exit(c, i) == ExitAtOpenWithin(c,
            WalkForward(c, i, c[i + 1].open, XC.momentum_top_gainers, FALSE, AnyDay))
        rows(x) == {i \in Rows(panel[x], start) : Bought(x, panel[x][i].day)}
    IN  EverySignalOf(panel, [x \in DOMAIN panel |-> [i \in rows(x) |-> exit(panel[x], i)]])

-----------------------------------------------------------------------------
(* quality_dip_buy and quality_dip_tiered: dips of instruments that rose   *)
(* in each of the last years.                                              *)

RollingPeak(course, i, w) == Max({course[k].close : k \in Window(i, w)})
Dips(course, i, w, pct) ==
    LET peak == RollingPeak(course, i, w)
    IN  Known(course, i, w) /\ 100 * (peak - course[i].close) >= pct * peak

IsQuality(course, i, EP) ==
    \A yr \in 0..(EP.consecutive_positive_years - 1) :
        LET recent == i - yr * EP.trading_days_per_year
            older == recent - EP.trading_days_per_year
        IN  /\ Closed(course, {recent, older}) = {recent, older}
            /\ 100 * (course[recent].close - course[older].close)
                  > EP.min_yearly_return_pct * course[older].close

QualityPool(panel, start, day, EP) ==
    {x \in DOMAIN panel : \E i \in Rows(panel[x], start) :
        panel[x][i].day = day /\ Scanned(panel[x], i) /\ IsQuality(panel[x], i, EP)}

\* The first few of each sector, in the order of their names; 0: all of them.
PerSector(pool, max_per_sector) ==
    {x \in pool : max_per_sector > 0 =>
        Cardinality({y \in pool : y < x /\ EC.sector[y] = EC.sector[x]}) < max_per_sector}

\* The universe of each day: the pool when it was screened last.
Universe(panel, start, screened, EP) ==
    [d \in DOMAIN screened |-> QualityPool(panel, start, screened[d], EP)]

\* The signal rows of an instrument at a depth of the dip; `universe` gives
\* every day the instruments that were in the pool when it was screened last.
DipRows(panel, start, x, EP, dip_pct, universe, bulls) ==
    LET c == panel[x]
        w == EP.peak_lookback_days
    IN  {i \in Rows(c, start) :
            /\ Scanned(c, i) /\ IsQuality(c, i, EP) /\ Dips(c, i, w, dip_pct)
            /\ Allowed(bulls, c[i].day)
            /\ x \in universe[c[i].day] /\ RollingPeak(c, i, w) > c[i + 1].open}

QualityDipBuy(panel, start) ==
    LET EP == EC.quality_dip_buy
        bulls == ExternalBull(panel, EP)
        days == Days(panel, start)
        pools == Universe(panel, start, ScreenDay(days, EP.rescreen_interval_days), EP)
        universe == [d \in days |-> PerSector(pools[d], EP.max_per_sector)]
        rows(x) == {i \in DipRows(panel, start, x, EP, EP.dip_threshold_pct, universe, bulls) :
                      EP.rsi_threshold > 0 =>
                          Full(i, EP.rsi_period) /\ panel[x][i].rsi < EP.rsi_threshold}
        exit(c, i) == ExitAtClose(c, WalkForward(c, i, RollingPeak(c, i, EP.peak_lookback_days),
                                                 XC.quality_dip_buy, TRUE, AnyDay))
    IN  EverySignalOf(panel, [x \in DOMAIN panel |-> [i \in rows(x) |-> exit(panel[x], i)]])

\* A dip deep enough for several tiers is bought once for each: an instrument
\* is paired with its tier.
QualityDipTiered(panel, start, bulls) ==
    LET EP == EC.quality_dip_tiered
        XP == XC.quality_dip_tiered
        screened == ScreenDay(Days(panel, start), EP.rescreen_interval_days)
        universe == Universe(panel, start, screened, EP)
        tier_dip(t) == EP.base_dip_threshold_pct * EP.tier_multiplier ^ t
        rows(x, t) == DipRows(panel, start, x, EP, tier_dip(t), universe, bulls)
        keep == IF EP.force_exit_on_regime_flip /\ bulls # {} THEN bulls ELSE AnyDay
        exit(c, i) == ExitAtClose(c, WalkForward(c, i, RollingPeak(c, i, EP.peak_lookback_days),
                                                 XP, TRUE, keep))
        tier(x, t) == EverySignal(panel[x], [i \in rows(x, t) |-> exit(panel[x], i)])
    IN  UNION {{OrderOf(<<x, t>>, o) : o \in tier(x, t)} :
                  x \in DOMAIN panel, t \in 0..(EP.n_tiers - 1)}

-----------------------------------------------------------------------------
(* breakout_pullback: a fall from a recent high, above the trend.          *)

BreakoutPullback(panel, start, bulls) ==
    LET EP == EC.breakout_pullback
        XP == XC.breakout_pullback
        Recent(c, i) == Closed(c, Window(i, EP.breakout_lookback))
        recent_high(c, i) == Max({c[k].close : k \in Recent(c, i)})
        Signal(c, i) ==
            /\ Scanned(c, i) /\ AboveMean(c, i, EP.trend_ma_period)
            /\ c[i].close > c[i].open
            /\ \E k \in Recent(c, i) : AtHigh(c, k, EP.breakout_window)
            /\ 100 * (recent_high(c, i) - c[i].close) >= EP.pullback_pct * recent_high(c, i)
            /\ Allowed(bulls, c[i].day)
        keep == IF EP.force_exit_on_regime_flip /\ bulls # {} THEN bulls ELSE AnyDay
        exit(c, i) == TslExit(c, i, XP, keep)
    IN  EverySignalOf(panel, [x \in DOMAIN panel |->
            [i \in {r \in Rows(panel[x], start) : Signal(panel[x], r)} |-> exit(panel[x], i)]])

-----------------------------------------------------------------------------
(* eod_breakout: a new high in a broad market.  The filter by volatility   *)
(* (max_stock_vol_pct) is off, as it is by default.                        *)

\* entry_flip_skip_threshold: too many changes of the regime before the day.
Flips(panel, start, day, bulls, lookback) ==
    LET days == {d \in UNION {DaysOf(panel[x], Closed(panel[x], DOMAIN panel[x])) :
                                x \in DOMAIN panel} : d >= start}
        Turned(d) == LET before == {e \in days : e < d}
                     IN  before # {} /\ (d \in bulls) # (Max(before) \in bulls)
    IN  Cardinality({d \in days : day - lookback < d /\ d < day /\ Turned(d)})

EodBreakout(panel, start, bulls) ==
    LET EP == EC.eod_breakout
        XP == XC.eod_breakout
        exit_bulls == IF EP.exit_regime_instrument # 0 /\ EP.exit_regime_sma_period > 0
                      THEN ExternalBull(panel, [regime_instrument |-> EP.exit_regime_instrument,
                                                regime_sma_period |-> EP.exit_regime_sma_period])
                      ELSE bulls
        first_day == Min({panel[x][1].day : x \in DOMAIN panel})
        OldEnough(c, i) ==
            \/ c[1].day <= first_day + 7
            \/ c[i].day - c[1].day >= EP.min_entry_age_days
        Signal(c, i) ==
            /\ Scanned(c, i) /\ AboveMean(c, i, EP.n_day_ma) /\ AtHigh(c, i, EP.n_day_high)
            /\ c[i].close > c[i].open
            /\ Breadth(panel, LastRows(panel), c[i].day, EP.direction_score.n_day_ma,
                       EP.direction_score.score)
            /\ Allowed(bulls, c[i].day)
            /\ bulls # {} /\ EP.entry_flip_skip_threshold < 999 =>
                   Flips(panel, start, c[i].day, bulls, EP.entry_flip_lookback_days)
                       < EP.entry_flip_skip_threshold
            /\ EP.min_entry_age_days > 0 => OldEnough(c, i)
        keep == IF EP.force_exit_on_regime_flip /\ bulls # {} THEN exit_bulls ELSE AnyDay
        exit(c, i) == TslExit(c, i, XP, keep)
    IN  EverySignalOf(panel, [x \in DOMAIN panel |->
            [i \in {r \in Rows(panel[x], start) : Signal(panel[x], r)} |-> exit(panel[x], i)]])
=============================================================================
