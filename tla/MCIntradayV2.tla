---------------------------- MODULE MCIntradayV2 ----------------------------
(***************************************************************************)
(* Small inputs for TLC: four days that gain, lose or ruin, under every    *)
(* sizing and several payouts; three days of three symbols that change     *)
(* places in the ranking; and one day of one position, with any four bars  *)
(* and every rule of exit.                                                 *)
(***************************************************************************)
EXTENDS IntradayV2

SomeCharges(value) == value \div 20

Defaults ==
    [target_pct |-> 0, stop_pct |-> 99, trailing_stop_pct |-> 0,
     min_hold_bars |-> 0, use_bar_hilo |-> FALSE, eod_buffer_bars |-> 0,
     time_stop_bars |-> 0, use_atr_stop |-> FALSE, atr_multiplier |-> 2,
     exit_reentry_range |-> FALSE,
     initial_capital |-> 100, max_positions |-> 2,
     max_positions_per_instrument |-> 2, sizing_type |-> "equal_weight",
     sizing_pct |-> 60, order_value |-> 40, max_order_value |-> 0,
     ranking_type |-> "signal_strength", ranking_window_days |-> 2,
     payout |-> "none", payout_value |-> 0, interval_days |-> 1, lockup_days |-> 0]

NewBar(num, low, close, high) ==
    [bar_num |-> num, low |-> low, close |-> close, high |-> high]

NewEntry(symbol, strength, rvol, bars) ==
    [symbol |-> symbol, entry_price |-> 100, signal_strength |-> strength,
     rvol |-> rvol, atr_14 |-> 60, or_high |-> 100, bars |-> bars]

\* Sold at `price` at the end of the day.
Closing(symbol, strength, price) ==
    NewEntry(symbol, strength, 0,
          <<NewBar(15, 100, 100, 100), NewBar(16, price, price, price)>>)

Unpriced(entry) == [entry EXCEPT !.entry_price = 0]

----------------------------------------------------------------------------

Dates == {1, 2, 4, 5}

DayKinds ==
    {<<Closing("A", 3, 130), Closing("B", 1, 130), Closing("C", 2, 110)>>,
     <<Closing("A", 3, 60), Closing("B", 2, 100)>>,
     <<Closing("A", 3, 2), Unpriced(Closing("B", 2, 100)), Closing("C", 1, 2)>>}

Sizings ==
    {[Defaults EXCEPT !.max_positions = 3],
     [Defaults EXCEPT !.max_positions_per_instrument = 0],
     [Defaults EXCEPT !.max_order_value = 30],
     [Defaults EXCEPT !.sizing_type = "pct_equity"],
     [Defaults EXCEPT !.sizing_type = "fixed"],
     [Defaults EXCEPT !.sizing_type = "fixed", !.order_value = 0]}

Payouts ==
    {<<"fixed", 30, 1, 0>>, <<"fixed", 30, 2, 3>>, <<"percentage", 50, 1, 2>>,
     <<"percentage", 50, 2, 0>>, <<"fixed", 30, 0, 0>>, <<"none", 0, 1, 0>>}

CalendarConfigs ==
    {[c EXCEPT !.payout = p[1], !.payout_value = p[2], !.interval_days = p[3],
               !.lockup_days = p[4]] : c \in Sizings, p \in Payouts}

Calendars == {[config |-> c, matrix |-> m] :
                c \in CalendarConfigs, m \in [Dates -> DayKinds]}

----------------------------------------------------------------------------

RankedDays ==
    {<<Closing("A", 2, x), Closing("B", 1, y), Closing("C", 2, z)>> :
        x, y, z \in {90, 120}}

Rankings ==
    {[config |-> [Defaults EXCEPT !.ranking_type = "top_performer", !.max_positions = 1],
      matrix |-> m] : m \in [{1, 2, 3, 4} -> {kind \in RankedDays :
                            \E i \in 1..3 : kind[i].bars[2].close = 120}]}
    \cup
    {[config |-> [Defaults EXCEPT !.ranking_type = "rvol"],
      matrix |-> [date \in {1} |-> <<NewEntry("A", 2, x, bars), NewEntry("B", 3, y, bars),
                                     NewEntry("C", 1, z, bars)>>]] :
        x, y, z \in 0..2, bars \in {<<NewBar(15, 100, 100, 100)>>}}

----------------------------------------------------------------------------

Shapes == {<<100, 100, 100>>, <<85, 95, 100>>, <<96, 104, 124>>, <<90, 120, 125>>,
           <<80, 80, 110>>, <<1, 1, 2>>}

BarsOf(shapes, nums) ==
    <<NewBar(15, 99, 101, 102)>> \o
        [i \in 1..Len(shapes) |->
            NewBar(nums[i], shapes[i][1], shapes[i][2], shapes[i][3])]

\* Minutes without trades have no bar.
SomeBars == {BarsOf(Append(shapes, <<85, 95, 100>>), nums) :
                shapes \in [1..3 -> Shapes],
                nums \in {<<16, 17, 18, 19>>, <<17, 18, 20, 22>>}}

ExitConfigs ==
    LET base == [Defaults EXCEPT !.stop_pct = 15, !.target_pct = 20]
    IN  {[base EXCEPT !.use_bar_hilo = hilo, !.trailing_stop_pct = trail,
                      !.min_hold_bars = hold] :
            hilo \in BOOLEAN, trail \in {0, 10}, hold \in {0, 2}}
        \cup
        {[base EXCEPT !.time_stop_bars = 2, !.min_hold_bars = 3],
         [base EXCEPT !.target_pct = 0, !.eod_buffer_bars = 2],
         [base EXCEPT !.eod_buffer_bars = 5],
         [base EXCEPT !.exit_reentry_range = TRUE],
         [base EXCEPT !.use_atr_stop = TRUE]}

Exits ==
    {[config |-> c, matrix |-> [date \in {1} |-> <<NewEntry("A", 1, 0, bars)>>]] :
        c \in ExitConfigs, bars \in SomeBars}

SomeInputs == Calendars \cup Rankings \cup Exits
=============================================================================
