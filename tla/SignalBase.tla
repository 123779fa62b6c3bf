----------------------------- MODULE SignalBase -----------------------------
(***************************************************************************)
(* What the signal generators share (engine/signals/base.py): the rows an  *)
(* instrument has, rolling windows over them, the scanner, and the two     *)
(* ways in which a generator turns signals into orders - every signal of   *)
(* its own, or one position at a time.                                     *)
(*                                                                         *)
(* A course is the sequence of the daily bars of one instrument,           *)
(*    [day, open, high, low, close, volume, rsi, squeeze, diverges]        *)
(* where a close of None is a null (the average price of the bar is null   *)
(* with it), and `rsi`, `squeeze` and `diverges` (fi_ema_3 < 0 < fi_ema_13)*)
(* are what the exponentially weighted indicators say, which no property   *)
(* looks into.  A rolling window with a null in it is null, and so is      *)
(* every comparison with a null.  Percentages are compared by              *)
(* cross-multiplication.                                                   *)
(***************************************************************************)
EXTENDS Integers, Sequences, FiniteSets, FiniteSetsExt

CONSTANTS
    Scan,   \* scanner config: [price_threshold, period, threshold, n_day,
            \* gain, min_real_history_days]; n_day 0: apply_n_day_gain is off
    DataStart \* data_min_epoch, the first day of the loaded window

None == 0

\* add_next_day_values: every row but the last one knows its next row.
Last(course) == Len(course) - 1

Rows_Late(course, start) == {i \in 1..Last(course) : course[i].day > start}

\* The rows generate_orders keeps for signals: date_epoch >= start_epoch.
Rows(course, start) == {i \in 1..Last(course) : course[i].day >= start}

-----------------------------------------------------------------------------
(* Rolling windows: the w rows that end with row i.                        *)

Window_Centred(i, w) == (i - w + 2)..(i + 1)
Window(i, w) == (i - w + 1)..i
Full(i, w) == i >= w
Closed(course, W) == {k \in W \cap DOMAIN course : course[k].close # None}
Known(course, i, w) == Full(i, w) /\ Closed(course, Window(i, w)) = Window(i, w)

SumOver(f(_), W) == MapThenSumSet(f, W)
SumClose(course, W) == SumOver(LAMBDA k : course[k].close, W)
AboveSMA(course, i, w) ==
    Known(course, i, w) /\ w * course[i].close > SumClose(course, Window(i, w))
BelowSMA(course, i, w) ==
    Known(course, i, w) /\ w * course[i].close < SumClose(course, Window(i, w))

\* The short average against the long one.
ShortAbove(course, i, s, l) ==
    /\ Known(course, i, s) /\ Known(course, i, l)
    /\ l * SumClose(course, Window(i, s)) > s * SumClose(course, Window(i, l))
ShortBelow(course, i, s, l) ==
    /\ Known(course, i, s) /\ Known(course, i, l)
    /\ l * SumClose(course, Window(i, s)) < s * SumClose(course, Window(i, l))

\* ibs < t and ibs > t, t in percent; a bar without range has ibs 1/2.
Ibs(bar) == IF bar.high = bar.low THEN [num |-> 1, den |-> 2]
            ELSE [num |-> bar.close - bar.low, den |-> bar.high - bar.low]
IbsBelow(bar, t) == 100 * Ibs(bar).num < t * Ibs(bar).den
IbsAbove(bar, t) == 100 * Ibs(bar).num > t * Ibs(bar).den

-----------------------------------------------------------------------------
(* run_scanner: the rows with a scanner_config_ids, for one scanner config *)
(* whose instruments include this one.                                     *)

\* volume * average_price, times three.
Turnover(bar) == bar.volume * (bar.high + bar.low + bar.close)

Liquid(course, i) ==
    LET seen == Closed(course, Window(i, Scan.period))
    IN  /\ course[i].close # None
        /\ course[i].close > Scan.price_threshold
        /\ SumOver(LAMBDA k : Turnover(course[k]), seen)
              > 3 * Scan.threshold * Cardinality(seen)

\* The close n_day - 1 liquid rows back: the frame is filtered before it is
\* shifted.
Gained(course, i) ==
    \E k \in 1..i :
        /\ Liquid(course, k)
        /\ Cardinality({m \in k..i : Liquid(course, m)}) = Scan.n_day
        /\ 100 * (course[i].close - course[k].close) > Scan.gain * course[k].close

Mature(course, i) ==
    \/ course[1].day <= DataStart + 7
    \/ course[i].day - course[1].day >= Scan.min_real_history_days

Scanned(course, i) ==
    /\ Liquid(course, i)
    /\ Scan.n_day > 0 => Gained(course, i)
    /\ Scan.min_real_history_days > 0 => Mature(course, i)

-----------------------------------------------------------------------------
(* Orders                                                                  *)

Order(entry, entry_price, exit, exit_price) ==
    [entry_epoch |-> entry, exit_epoch |-> exit,
     entry_price |-> entry_price, exit_price |-> exit_price]

HoldDays(course, i, j) == course[j].day - course[i + 1].day

\* Exit at the close of a row, or at the open of the row after it.
AtClose(course, j) == [day |-> course[j].day, price |-> course[j].close]
AtNextOpen(course, j) == [day |-> course[j + 1].day, price |-> course[j + 1].open]

\* Entry at the open after signal row i, exit as `x` says.
Entered(course, i, x) == Order(course[i + 1].day, course[i + 1].open, x.day, x.price)

\* The rows on which a position entered after signal row i can be closed.
Walked(course, i) == Closed(course, (i + 1)..Last(course))

\* The first row on which an exit rule fires, else the last row.
ExitRow(course, fired) == IF fired = {} THEN Last(course) ELSE Min(fired)

ExitAtClose(course, fired) == AtClose(course, ExitRow(course, fired))
ExitAtNextOpen(course, fired) ==
    IF fired = {} THEN AtClose(course, Last(course)) ELSE AtNextOpen(course, Min(fired))

\* Every signal is an order of its own; `exit` gives each signal row its exit.
\* The row of the entry must be one of the rows (index of entry_epoch), and
\* the exit must have a price.
EverySignal(course, exit) ==
    {Entered(course, i, exit[i]) :
        i \in {r \in DOMAIN exit : r < Last(course) /\ exit[r].price # None}}

\* Where the loop goes on after a position entered on the signal of row i and
\* closed on row x.
Resume_NextRow(i, x) == i + 1
Resume(i, x) == x + 1

\* One position at a time: the loop goes on after the exit row.  `exit` gives
\* each signal row the row of its exit.
OneAtATime(course, exit) ==
    LET n == Last(course)
        from[i \in 1..(n + 1)] ==
            IF i > n THEN {}
            ELSE IF i \notin DOMAIN exit \ {n} THEN from[i + 1]
            ELSE IF course[exit[i]].close = None THEN from[i + 1]
            ELSE {Entered(course, i, AtClose(course, exit[i]))}
                 \cup from[Resume(i, exit[i])]
    IN  from[1]
=============================================================================
