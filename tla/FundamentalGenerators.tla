----------------------- MODULE FundamentalGenerators ------------------------
(***************************************************************************)
(* generate_orders of the strategies of engine/signals/ that read what     *)
(* companies report: dips and breakouts of sound companies, dips after     *)
(* good earnings, and the two that choose their holdings by filings alone. *)
(*                                                                         *)
(* EC.filings gives each instrument of a panel its filings in their order, *)
(*    [epoch, sound, pe, growth]                                           *)
(* where `sound` says that it passes the thresholds on its ratios and      *)
(* `growth` is the score of growth_rank over the filings until then.       *)
(***************************************************************************)
EXTENDS PanelGenerators

\* The filings old enough to be known on a day, and the last of them.
Filed(x, day) ==
    {k \in DOMAIN EC.filings[x] : EC.filings[x][k].epoch <= day - EC.filing_lag_days}
Filing(x, day) == EC.filings[x][Max(Filed(x, day))]

PassesFundamentals(x, day, EP) ==
    EP.uses_fundamentals =>
        IF Filed(x, day) = {} THEN EP.fundamental_missing_mode # "skip"
        ELSE Filing(x, day).sound

-----------------------------------------------------------------------------
(* momentum_dip_quality, enhanced_breakout and earnings_dip.               *)

\* Those in the pool when it was screened last that were also among the best
\* when they were ranked last.
QualityMomentum(panel, start, day, EP) ==
    LET days == Days(panel, start)
        screened == ScreenDay(days, EP.rescreen_interval_days)
        ranked == ScreenDay(days, EP.rerank_interval_days)
        returns == Returns(panel, LastRows(panel), ranked[day], EP.momentum_lookback_days, 0)
    IN  QualityPool(panel, start, screened[day], EP) \cap BestShare(returns, EP.momentum_percentile)

MomentumDipQuality(panel, start) ==
    LET EP == EC.momentum_dip_quality
        XP == XC.momentum_dip_quality
        bulls == ExternalBull(panel, EP)
        Signal(x, i) == LET c == panel[x]
                            day == c[i].day
                        IN  /\ Scanned(c, i) /\ x \in QualityMomentum(panel, start, day, EP)
                            /\ Dips(c, i, EP.peak_lookback_days, EP.dip_threshold_pct)
                            /\ Allowed(bulls, day) /\ Broad(panel, day, EP)
                            /\ PassesFundamentals(x, day, EP)
        exit(c, i) == ExitAtOpenWithin(c,
            WalkForward(c, i, RollingPeak(c, i, EP.peak_lookback_days), XP,
                        XP.require_peak_recovery, AnyDay))
    IN  EverySignalOf(panel, [x \in DOMAIN panel |->
            [i \in {r \in Rows(panel[x], start) : Signal(x, r)} |-> exit(panel[x], i)]])

IsBreakout(course, i, w) ==
    Known(course, i - 1, w) /\ course[i].close >= RollingPeak(course, i - 1, w)
Volume(course, rows) == SumOver(LAMBDA k : course[k].volume, rows)
VolumeConfirms(course, i, EP) ==
    LET w == EP.volume_avg_period
    IN  EP.volume_multiplier > 0 =>
            /\ Full(i - 1, w)
            /\ w * course[i].volume > EP.volume_multiplier * Volume(course, Window(i - 1, w))

EnhancedBreakout(panel, start) ==
    LET EP == EC.enhanced_breakout
        bulls == ExternalBull(panel, EP)
        Signal(x, i) == LET c == panel[x]
                            day == c[i].day
                        IN  /\ Scanned(c, i) /\ IsQuality(c, i, EP)
                            /\ x \in QualityMomentum(panel, start, day, EP)
                            /\ IsBreakout(c, i, EP.breakout_window) /\ VolumeConfirms(c, i, EP)
                            /\ Allowed(bulls, day) /\ Broad(panel, day, EP)
                            /\ PassesFundamentals(x, day, EP)
        exit(c, i) == ExitAtClose(c,
            WalkForward(c, i, c[i + 1].open, XC.enhanced_breakout, FALSE, AnyDay))
    IN  EverySignalOf(panel, [x \in DOMAIN panel |->
            [i \in {r \in Rows(panel[x], start) : Signal(x, r)} |-> exit(panel[x], i)]])

\* The best close of the rows it takes a surprise on row e to settle, and
\* whether that row has more than one and a half times the volume of those
\* before it (settle_rows is 5 in the code; volume_rows 20, min_rows 30).
PostPeak(course, e) ==
    LET settled == Min({e + EC.earnings_dip.settle_rows, Last(course)})
    IN  Max({None} \cup {course[k].close : k \in Closed(course, e..settled)})
Noticed(course, start, e) ==
    LET w == EC.earnings_dip.volume_rows
        before == Volume(course, Window(e - 1, w))
    IN  /\ e - w >= Min(Rows(course, start))
        /\ before > 0 /\ 2 * w * course[e].volume >= 3 * before

\* The first dip after a surprise, below that close; an instrument is paired
\* with its surprise.
EarningsDip(panel, start) ==
    LET EP == EC.earnings_dip
        bulls == ExternalBull(panel, EP)
        screened == ScreenDay(Days(panel, start), EP.rescreen_interval_days)
        universe == Universe(panel, start, screened, EP)
        Exhausted(c, e, i) == c[e].volume > 0 => c[i].volume <= EP.volume_ratio_max * c[e].volume
        Surprises(x, e) == LET c == panel[x]
                           IN  /\ e < Last(c) /\ PostPeak(c, e) # None
                               /\ \E k \in (e - EP.settle_rows)..(e + EP.settle_rows) :
                                      k \in Rows(c, start) /\ x \in universe[c[k].day]
                               /\ EP.volume_ratio_max > 0 => Noticed(c, start, e)
        dips(c, e) ==
            {i \in (e + EP.settle_rows)..(Min({e + EP.post_earnings_window, Last(c)}) - 1) :
                /\ Scanned(c, i) /\ Allowed(bulls, c[i].day)
                /\ 100 * (PostPeak(c, e) - c[i].close) >= EP.dip_threshold_pct * PostPeak(c, e)
                /\ EP.volume_ratio_max > 0 => Exhausted(c, e, i)}
        exit(c, e, i) == ExitAtClose(c,
            WalkForward(c, i, PostPeak(c, e), XC.earnings_dip, TRUE, AnyDay))
        rows(x, event) == {i \in Rows(panel[x], start) : panel[x][i].day >= event.epoch}
        \* the signal rows of a surprise: one or none
        signals(x, e) == LET c == panel[x]
                             found == dips(c, e)
                         IN  {i \in found : /\ i = Min(found)
                                            /\ PassesFundamentals(x, c[i].day, EP)
                                            /\ PostPeak(c, e) > c[i + 1].open}
        Followed(x, event) ==
            /\ event.epoch >= start /\ event.surprise_pct >= EP.surprise_threshold_pct
            /\ Cardinality(Rows(panel[x], start)) >= EP.min_rows
            /\ rows(x, event) # {} /\ Surprises(x, Min(rows(x, event)))
        events == {ev \in UNION {{x} \X (DOMAIN EC.earnings[x]) : x \in DOMAIN panel} :
                     Followed(ev[1], EC.earnings[ev[1]][ev[2]])}
        first(ev) == Min(rows(ev[1], EC.earnings[ev[1]][ev[2]]))
        bought(ev) == EverySignal(panel[ev[1]],
            [i \in signals(ev[1], first(ev)) |-> exit(panel[ev[1]], first(ev), i)])
    IN  UNION {{OrderOf(ev, o) : o \in bought(ev)} : ev \in events}

-----------------------------------------------------------------------------
(* low_pe: the cheapest at the start of each quarter, until the next one.  *)

\* The days with a bar that the scanner has seen, and the first day of each
\* period among those `within` days of its beginning.
AllDates(panel, start) ==
    {d \in UNION {DaysOf(panel[x], Closed(panel[x], DOMAIN panel[x])) : x \in DOMAIN panel} :
        d >= start}
FirstOfEach(days, period, within) ==
    LET open == {d \in days : d % period < within}
    IN  {d \in open : \A e \in open : e < d => e \div period # d \div period}

Eligible(panel, day) ==
    {x \in DOMAIN panel :
        \E i \in DOMAIN panel[x] : panel[x][i].day = day /\ Scanned(panel[x], i)}

\* screen_at_date and quality_screen
Sound(instruments, day) == {x \in instruments : Filed(x, day) # {} /\ Filing(x, day).sound}

\* The best of the sound, by their price for what they earn.
Cheapest(sound, day, n) ==
    Foremost(sound, {p \in sound \X sound : Filing(p[1], day).pe < Filing(p[2], day).pe}, n)

\* None unless enough are eligible and enough of these are chosen.
Selected(eligible, day, EP) ==
    LET cheapest == Cheapest(Sound(eligible, day), day, EP.max_stocks)
    IN  IF Cardinality(eligible) >= EP.min_stocks /\ Cardinality(cheapest) >= EP.min_stocks
        THEN cheapest ELSE {}

\* The end of a position, on the first of the rows it can end on; without any,
\* the last row until the exit date, even if it is before the entry.
EndRow(ends, until) == IF ends # {} THEN Min(ends) ELSE Max(until)

LowPe(panel, start) ==
    LET EP == EC.low_pe
        XP == XC.low_pe
        dates == AllDates(panel, start)
        rebalances == FirstOfEach(dates, EP.quarter_days, EP.month_days)
        Stopped(c, e, j) == XP.stop_loss_pct > 0
                                /\ 100 * c[j].close <= (100 - XP.stop_loss_pct) * c[e].open
        until(c, exit_date) == {j \in Closed(c, DOMAIN c) : c[j].day <= exit_date}
        ends(c, e, exit_date) ==
            {j \in until(c, exit_date) : j > e /\ (Stopped(c, e, j) \/ c[j].day = exit_date)}
        bought(d) == LET entry_date == Min({e \in dates : e > d})
                     IN  {r \in UNION {{x} \X DOMAIN panel[x] :
                                           x \in Selected(Eligible(panel, d), d, EP)} :
                             panel[r[1]][r[2]].day = entry_date}
        order(x, e, exit_date) ==
            LET c == panel[x]
                out == AtClose(c, EndRow(ends(c, e, exit_date), until(c, exit_date)))
            IN  OrderOf(x, Order(c[e].day, c[e].open, out.day, out.price))
        next_rb(d) == Min({e \in rebalances : e > d})
    IN  UNION {{order(b[1], b[2], next_rb(d)) : b \in bought(d)} :
                  d \in rebalances \ {Max({0} \cup rebalances)}}

-----------------------------------------------------------------------------
(* trending_value: positions are kept from one rebalance to the next while *)
(* they rank, and above their stop.                                        *)

\* _get_close: that of the day, of the last day before if it has none.
CloseAt(course, day) ==
    IF day \in DaysOf(course, DOMAIN course) THEN course[RowAt(course, day)].close
    ELSE LET earlier == {k \in Closed(course, DOMAIN course) : course[k].day <= day}
         IN  IF earlier = {} THEN None ELSE course[Max(earlier)].close
EntryPrice(course, day) ==
    IF day \in DaysOf(course, DOMAIN course) THEN course[RowAt(course, day)].open
    ELSE CloseAt(course, day)

\* The rows of a position after one day until another, the highest close as
\* of one of them, and those that close at the stop.
Between(course, after, until) ==
    {k \in Closed(course, DOMAIN course) : after < course[k].day /\ course[k].day <= until}
HighestClose(course, pos, rows) == Max({pos.highest_close} \cup {course[k].close : k \in rows})
StopRows(course, pos, rows) ==
    {k \in rows :
        /\ course[k].day - pos.entry_epoch >= XC.trending_value.min_hold_days
        /\ 100 * course[k].close <= (100 - XC.trending_value.trailing_stop_pct)
                                      * HighestClose(course, pos, {m \in rows : m <= k})}

Sold(pos, out) ==
    OrderOf(pos.instrument, Order(pos.entry_epoch, pos.entry_price, out.day, out.price))

\* growth_rank leaves out those with fewer than two filings.
Ranked(panel, day) == {x \in Sound(Eligible(panel, day), day) : Cardinality(Filed(x, day)) >= 2}
\* Its sort is stable: of equals, the one the frame has first is ahead, here
\* the first by name.
GrowthScore(x, day) == Filing(x, day).growth
GrowsFaster(day, y, x) ==
    GrowthScore(y, day) > GrowthScore(x, day) \/ (GrowthScore(y, day) = GrowthScore(x, day) /\ y < x)
TopRanked(ranked, day, n) ==
    {x \in ranked : Cardinality({y \in ranked : GrowsFaster(day, y, x)}) < n}

\* A book is what is held and the orders so far.  One rebalance: the stops
\* since the one before, ...
WithStops(panel, prev, d, book) ==
    LET rows(pos) == Between(panel[pos.instrument], prev, d)
        stops(pos) == StopRows(panel[pos.instrument], pos, rows(pos))
        stopped == {pos \in book.held : stops(pos) # {}}
        high(pos) == HighestClose(panel[pos.instrument], pos, rows(pos))
    IN  [held |-> {[pos EXCEPT !.highest_close = high(pos)] : pos \in book.held \ stopped},
         orders |-> book.orders
             \cup {Sold(pos, AtClose(panel[pos.instrument], Min(stops(pos)))) : pos \in stopped}]

\* ... the exits of those that do not rank any more, ...
WithExits(panel, d, top, book) ==
    LET out(pos) == [day |-> d, price |-> CloseAt(panel[pos.instrument], d)]
        dropped == {pos \in book.held :
                      /\ pos.instrument \notin top
                      /\ d - pos.entry_epoch >= XC.trending_value.min_hold_days}
    IN  [held |-> book.held \ dropped,
         orders |-> book.orders
             \cup {Sold(pos, out(pos)) : pos \in {p \in dropped : out(p).price # None}}]

\* ... and the entries that fill the book.
WithEntries(panel, d, entry_date, top, book) ==
    LET price(x) == EntryPrice(panel[x], entry_date)
        wanted == {x \in top : /\ \A pos \in book.held : pos.instrument # x
                               /\ price(x) # None}
        ahead(x) == {y \in wanted : GrowsFaster(d, y, x)}
        bought == {x \in wanted : Cardinality(book.held) + Cardinality(ahead(x))
                                      < EC.trending_value.top_n_stocks}
        entry(x) == [instrument |-> x, entry_epoch |-> entry_date,
                     entry_price |-> price(x), highest_close |-> price(x)]
    IN  [book EXCEPT !.held = @ \cup {entry(x) : x \in bought}]

Rebalanced(panel, d, prev, entry_date, top, book) ==
    WithEntries(panel, d, entry_date, top,
                WithExits(panel, d, top, WithStops(panel, prev, d, book)))

\* What is left goes at its stop, or at the last close there is.
Liquidated(panel, last_rb, book) ==
    LET last_row(c, stops) == IF stops # {} THEN Min(stops) ELSE Max(Closed(c, DOMAIN c))
        out(c, pos) ==
            AtClose(c, last_row(c, StopRows(c, pos, Between(c, last_rb, c[Len(c)].day))))
    IN  book.orders \cup {Sold(pos, out(panel[pos.instrument], pos)) : pos \in book.held}

TrendingValue(panel, start) ==
    LET EP == EC.trending_value
        dates == AllDates(panel, start)
        rebalances == FirstOfEach(dates, EP.rebalance_days, EP.rebalance_days)
        top(d) == TopRanked(Ranked(panel, d), d, EP.top_n_stocks)
        \* a rebalance without enough instruments, or on the last day, is passed
        \* over, stops and all
        PassedOver(d) == Cardinality(Eligible(panel, d)) < EP.min_eligible \/ d = Max(dates)
        after[d \in rebalances] ==
            LET before == {e \in rebalances : e < d}
                prev == IF before = {} THEN start ELSE Max(before)
                book == IF before = {} THEN [held |-> {}, orders |-> {}] ELSE after[prev]
            IN  IF PassedOver(d) THEN book
                ELSE Rebalanced(panel, d, prev, Min({e \in dates : e > d}), top(d), book)
    IN  IF Cardinality(rebalances) < 2 THEN {}
        ELSE Liquidated(panel, Max(rebalances), after[Max(rebalances)])
=============================================================================
