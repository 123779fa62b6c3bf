------------------------------ MODULE Signals -------------------------------
(***************************************************************************)
(* A backtest repeated as time goes by: every day appends a bar to the     *)
(* course of an instrument, and every strategy computes its orders anew    *)
(* from the course as it then is.  The instrument is on its own, for the   *)
(* strategies that treat instruments one by one, or in a panel with        *)
(* companions, whose courses are given, for those that compare them.       *)
(* The orders are the state: what one run of the pipeline says is compared *)
(* with what it would have said after another last day, and with what a    *)
(* run over a shorter window says.                                         *)
(***************************************************************************)
EXTENDS OrderRanking

CONSTANTS
    Shapes,     \* what the bars of a day can be; `gap` is the number of days
                \* since the bar before
    Others,     \* bars of Shapes' kind, put in the place of one for comparison
    Firsts,     \* those of Shapes a course begins with
    InPanel,    \* those of Shapes a course in a panel goes on with
    Companions, \* the courses of the other instruments, the first that was listed
                \* first
    MaxBars,    \* bound: bars of a course
    Starts,     \* start_epochs of the windows that are compared
    SimConfigs  \* simulation configs: [order_sorting_type, default_sorting_type,
                \* order_ranking_window_days, ranking_nulls_last]

\* A bar a day.
Dated(bars) == \A i, j \in DOMAIN bars : i < j => bars[i].day < bars[j].day

ASSUME SignalsAssumption ==
    /\ MaxBars \in Nat /\ DataStart \in Nat
    /\ Starts \subseteq {start \in Nat : start >= DataStart}
    /\ Firsts \subseteq Shapes /\ InPanel \subseteq Shapes
    /\ \A b \in Shapes :
        /\ b \in [gap : Nat \ {0}, open : Nat \ {0}, high : Nat, low : Nat, close : Nat, volume : Nat,
                  rsi : 0..100, squeeze : BOOLEAN, diverges : BOOLEAN]
        /\ b.low <= b.open /\ b.open <= b.high
        /\ b.close # None => b.low <= b.close /\ b.close <= b.high
    /\ Companions \in Seq(Seq([day : Nat, open : Nat \ {0}, high : Nat, low : Nat, close : Nat,
                              volume : Nat, rsi : 0..100, squeeze : BOOLEAN, diverges : BOOLEAN]))
    /\ \A k \in DOMAIN Companions : Companions[k] # <<>> /\ Dated(Companions[k])
    /\ \A k \in 2..Len(Companions) : Companions[k - 1][1].day <= Companions[k][1].day
    /\ EC.filings \in Seq(Seq([epoch : Int, sound : BOOLEAN, pe : Nat, growth : Int]))
    /\ Len(EC.filings) > Len(Companions)
    /\ EC.momentum_rebalance.num_positions \in Nat /\ EC.trending_value.top_n_stocks \in Nat
    /\ EC.momentum_rebalance.momentum_lookback_days \in Nat
    /\ EC.momentum_rebalance.moc_signal_lag_days \in Nat
    /\ XC.momentum_rebalance.max_hold_days \in Nat

VARIABLES
    alone,      \* is the instrument the only one?
    course,     \* its bars so far
    orders      \* [Strategies -> orders of generate_orders from DataStart on]

signals_vars == <<alone, course, orders>>

Single ==
    {"overnight_hold", "gap_fill", "ibs_mean_reversion", "bb_mean_reversion",
     "connors_rsi", "extended_ibs", "squeeze", "darvas_box", "swing_master", "holp_lohp",
     "index_sma_crossover", "index_dip_buy", "index_breakout", "index_green_candle"}

OnPanels ==
    {"momentum_dip", "momentum_rebalance", "momentum_cascade", "momentum_top_gainers",
     "quality_dip_buy", "quality_dip_tiered", "momentum_dip_quality", "enhanced_breakout",
     "earnings_dip", "low_pe", "trending_value", "breakout_pullback", "eod_breakout",
     "eod_technical"}

Strategies == IF alone THEN Single ELSE OnPanels

\* Strategies whose loop resumes after the exit of a position.
OneByOne == {"holp_lohp", "index_sma_crossover", "index_dip_buy",
             "index_breakout", "index_green_candle"}

\* The instrument and its companions, each with its bars until the same day.
Until(companion, day) ==
    SubSeq(companion, 1, Cardinality({i \in DOMAIN companion : companion[i].day <= day}))
Panel(c) ==
    LET today == c[Len(c)].day
        listed == {k \in DOMAIN Companions : Until(Companions[k], today) # <<>>}
    IN  <<c>> \o [k \in 1..Cardinality(listed) |-> Until(Companions[k], today)]

\* get_signal_generator(s).generate_orders over the window from start on.
GenerateOrders(s, c, start) ==
    CASE s = "overnight_hold" -> OvernightHold(c, start)
      [] s = "gap_fill" -> GapFill(c, start)
      [] s = "ibs_mean_reversion" -> IbsReversion(c, start)
      [] s = "bb_mean_reversion" -> BbReversion(c, start)
      [] s = "connors_rsi" -> ConnorsRsi(c, start)
      [] s = "extended_ibs" -> ExtendedIbs(c, start)
      [] s = "squeeze" -> Squeeze(c, start)
      [] s = "darvas_box" -> DarvasBox(c, start)
      [] s = "swing_master" -> SwingMaster(c, start)
      [] s = "holp_lohp" -> HolpLohp(c, start)
      [] s = "index_sma_crossover" -> IndexSmaCrossover(c, start)
      [] s = "index_dip_buy" -> IndexDipBuy(c, start)
      [] s = "index_breakout" -> IndexBreakout(c, start)
      [] s = "index_green_candle" -> IndexGreenCandle(c, start)
      [] s = "momentum_dip" -> MomentumDip(Panel(c), start)
      [] s = "momentum_rebalance" -> MomentumRebalance(Panel(c), start)
      [] s = "momentum_cascade" -> MomentumCascade(Panel(c), start)
      [] s = "momentum_top_gainers" -> MomentumTopGainers(Panel(c), start)
      [] s = "quality_dip_buy" -> QualityDipBuy(Panel(c), start)
      [] s = "quality_dip_tiered" -> QualityDipTiered(Panel(c), start, Bulls(Panel(c), start, EC[s]))
      [] s = "momentum_dip_quality" -> MomentumDipQuality(Panel(c), start)
      [] s = "enhanced_breakout" -> EnhancedBreakout(Panel(c), start)
      [] s = "earnings_dip" -> EarningsDip(Panel(c), start)
      [] s = "low_pe" -> LowPe(Panel(c), start)
      [] s = "trending_value" -> TrendingValue(Panel(c), start)
      [] s = "breakout_pullback" -> BreakoutPullback(Panel(c), start, Bulls(Panel(c), start, EC[s]))
      [] s = "eod_breakout" -> EodBreakout(Panel(c), start, Bulls(Panel(c), start, EC[s]))
      [] s = "eod_technical" -> EodTechnical(Panel(c), start, TechnicalBulls(Panel(c), start))

DailyBar(day, b) ==
    [day |-> day, open |-> b.open, high |-> b.high, low |-> b.low,
     close |-> b.close, volume |-> b.volume, rsi |-> b.rsi, squeeze |-> b.squeeze,
     diverges |-> b.diverges]

\* No data, no orders.
SignalsInit ==
    /\ alone \in BOOLEAN
    /\ course = <<>>
    /\ orders = [s \in Strategies |-> {}]

NextBarDay(gap) == IF course = <<>> THEN DataStart ELSE course[Len(course)].day + gap

\* A day later the data has one bar more.
NextDay(b) ==
    /\ Len(course) < MaxBars
    /\ IF course = <<>> THEN b \in Firsts ELSE alone \/ b \in InPanel
    /\ course' = Append(course, DailyBar(NextBarDay(b.gap), b))
    /\ orders' = [s \in Strategies |-> GenerateOrders(s, course', DataStart)]
    /\ UNCHANGED alone

SignalsNext == \E b \in Shapes : NextDay(b)

SignalsSpec == SignalsInit /\ [][SignalsNext]_signals_vars

-----------------------------------------------------------------------------
(* Properties                                                              *)

\* The course with another bar on its last row, after the same open.
Otherwise(b) ==
    LET n == Last(course)
        day == course[n].day
    IN  [course EXCEPT ![n] = [DailyBar(day, b) EXCEPT !.open = course[n].open]]

\* What was certain at the open of that row: the orders that were over before
\* it and, for the strategies that buy at the open after a signal, what they
\* buy at that open.
BuyToday == {"overnight_hold", "gap_fill", "momentum_rebalance"}
Over(os) == {o \in os : o.exit_epoch < course[Last(course)].day}
BoughtAtOpen(s, os) ==
    IF s \in BuyToday THEN {}
    ELSE {[o EXCEPT !.exit_epoch = 0, !.exit_price = 0] :
             o \in {p \in os : p.entry_epoch = course[Last(course)].day}}

\* The bull days of a strategy with a regime filter.
BullDaysOf(s, c) ==
    IF s = "index_breakout" THEN BullDays(c)
    ELSE IF s \in {"quality_dip_tiered", "breakout_pullback", "eod_breakout"}
         THEN Bulls(Panel(c), DataStart, EC[s])
    ELSE IF s = "eod_technical" THEN TechnicalBulls(Panel(c), DataStart)
    ELSE ExternalBull(Panel(c), EC[s])
Regimes == {"index_breakout"} \cup (OnPanels \ {"momentum_dip", "low_pe", "trending_value"})

\* The three ways in which the last row does reach back.  A position that is
\* open on a last row without a close is forgotten, and others take its
\* place; there is no regime filter until the first bull day of the whole
\* course; and the scanner of eod_technical fills a row without a close with
\* the next one.
OneWithoutRegime(bulls) == {} \in bulls /\ bulls # {{}}
ReachesBack(s, other) ==
    \/ course[Last(course)].close = None
    \/ s = "eod_technical" /\ Last(course) > 1 /\ course[Last(course) - 1].close = None
    \/ s \in Regimes /\ OneWithoutRegime({BullDaysOf(s, c) : c \in {course, other}})

\* The tiers of quality_dip_tiered and the events of earnings_dip are rows of
\* one instrument.
Untiered(s, os) ==
    IF s \notin {"quality_dip_tiered", "earnings_dip"} THEN os
    ELSE {[o EXCEPT !.instrument = o.instrument[1]] : o \in os}

\* Which of two instruments that are bought on one day comes first, for the
\* days until the last row.
PlacedPairs(s, c, os, SC) ==
    {<<r[1].entry_epoch, r[1].instrument, r[2].instrument>> :
        r \in {q \in SortOrders(Untiered(s, os), Panel(c), SC) :
                q[1].entry_epoch <= c[Last(c)].day}}

SameUntilOpen(s, other, other_orders) ==
    /\ Over(other_orders) = Over(orders[s])
    /\ BoughtAtOpen(s, other_orders) = BoughtAtOpen(s, orders[s])
    /\ ~ alone => \A SC \in SimConfigs :
            PlacedPairs(s, other, other_orders, SC) = PlacedPairs(s, course, orders[s], SC)

\* With another bar on the last row, every strategy had done the same until
\* the open of that row: no signal, exit, stop or average of a generator looks
\* at bars later than the ones it trades on, and no rank that gives an order
\* of that open its place in the day.
NoLookAhead ==
    Last(course) >= 1 =>
        \A s \in Strategies, b \in Others :
            \/ ReachesBack(s, Otherwise(b))
            \/ SameUntilOpen(s, Otherwise(b), GenerateOrders(s, Otherwise(b), DataStart))

\* Strategies with an order for every signal: a backtest that starts later has
\* the orders of the longer backtest from its start on, since indicators are
\* computed before the window is cut.  connors_rsi is not among them: it
\* averages for its exits over the rows that are left; nor are those that
\* count the days of a rebalance, a screening or an internal regime from the
\* start of the window.
FromTheStart ==
    OnPanels \ ({"momentum_cascade"}
        \cup {s \in {"breakout_pullback"} : EC[s].internal_regime_sma_period = 0})
WindowDoesNotMatter == course # <<>> =>
    \A s \in Strategies \ (OneByOne \cup {"connors_rsi"} \cup FromTheStart), start \in Starts :
        LET course_of(o) == IF alone THEN course ELSE Panel(course)[o.instrument]
            in_window(o) ==
                IF s \in BuyToday THEN o.entry_epoch >= start
                ELSE \E i \in 1..Last(course_of(o)) :
                        /\ course_of(o)[i].day >= start
                        /\ o.entry_epoch = course_of(o)[i + 1].day
        IN  GenerateOrders(s, course, start) = {o \in orders[s] : in_window(o)}

\* No strategy holds more than it has slots for: the loop that resumes after
\* an exit enters later than it left; momentum_rebalance, which closes a round
\* and opens the next one at one close, and trending_value, which keeps
\* positions over rebalances, never have more than their number open between
\* two days, nor one instrument twice.
SlotsHold ==
    /\ \A s \in OneByOne \cap Strategies : \A o, p \in orders[s] :
            o = p \/ o.exit_epoch < p.entry_epoch \/ p.exit_epoch < o.entry_epoch
    /\ \A s \in {"momentum_rebalance", "trending_value"} \cap Strategies : \A o \in orders[s] :
        LET day == o.entry_epoch
            holding == {p \in orders[s] : p.entry_epoch <= day /\ day < p.exit_epoch}
            slots == IF s = "trending_value" THEN EC[s].top_n_stocks ELSE EC[s].num_positions
        IN  /\ Cardinality(holding) <= slots
            /\ \A p, q \in holding : p = q \/ p.instrument # q.instrument

\* "Walk-forward adaptive ranking using realized + unrealized P&L."
\* (engine/ranking.py:347): a day later, no two orders of the days before have
\* changed places in the order in which they compete.
RanksWalkForward ==
    [][~ alone =>
        \A s \in Strategies, SC \in SimConfigs :
            LET known == PlacedPairs(s, course, orders[s], SC)
                later == PlacedPairs(s, course', orders'[s], SC)
            IN  ~ \E r \in known : <<r[1], r[3], r[2]>> \in later]_signals_vars
=============================================================================
