------------------------- MODULE TechnicalGenerator -------------------------
(***************************************************************************)
(* eod_technical (engine/signals/eod_technical.py): the scanner of         *)
(* engine/scanner.py, the entries and the exit walk of                     *)
(* engine/order_generator.py, and the exits on a flip of the regime.       *)
(*                                                                         *)
(* This scanner gives every instrument a row for every calendar day, so    *)
(* its windows count days and not rows, and a row without a close takes    *)
(* the next close there is.  ExitWalk checks the walk itself for several   *)
(* exit configs; here there is one, and its reference is TslExit.          *)
(***************************************************************************)
EXTENDS FundamentalGenerators

\* fill_missing_dates and backward_fill
FilledClose(course, day) ==
    LET later == {k \in Closed(course, DOMAIN course) : course[k].day >= day}
    IN  IF later = {} THEN None ELSE course[Min(later)].close

\* scanner.process, as pairs of an instrument and a day: the average turnover
\* of the last calendar days and the gain over them.  Days begin with the first
\* of any instrument.
Shortlist(panel) ==
    LET SP == EC.eod_technical.scan
        first_day == Min({panel[x][1].day : x \in DOMAIN panel})
        Liked(c, i) ==
            LET day == c[i].day
                recent == {k \in Closed(c, 1..i) : day - SP.period < c[k].day}
                shifted == day - (SP.n_day - 1)
                before == FilledClose(c, shifted)
            IN  /\ c[i].close > SP.price_threshold
                /\ SumOver(LAMBDA k : Turnover(c[k]), recent)
                      > 3 * SP.threshold * Cardinality(recent)
                /\ shifted >= first_day
                /\ 100 * (c[i].close - before) > SP.gain * before
    IN  UNION {{<<x, d>> : d \in DaysOf(panel[x], {i \in Closed(panel[x], DOMAIN panel[x]) :
                                                     Liked(panel[x], i)})} : x \in DOMAIN panel}

\* What is left for order generation: the rows of the window, closes filled.
Frame(course, start) ==
    LET filled == [i \in DOMAIN course |->
                     [course[i] EXCEPT !.close = FilledClose(course, course[i].day)]]
    IN  SelectSeq(filled, LAMBDA bar : bar.day >= start)
\* (\o has TLC compute a frame once and not at every use)
Frames(panel, start) == <<>> \o [x \in DOMAIN panel |-> Frame(panel[x], start)]

TaggedRows(frame, tagged) ==
    {r \in UNION {{x} \X DOMAIN frame[x] : x \in DOMAIN frame} :
        <<r[1], frame[r[1]][r[2]].day>> \in tagged}

TechnicalScores(frame, tagged) ==
    RegimeScores(frame, RegimeWindows(TaggedRows(frame, tagged),
                                      EC.eod_technical.internal_regime_sma_period))

TechnicalBulls(panel, start) ==
    LET EP == EC.eod_technical
        scores == TechnicalScores(Frames(panel, start), Shortlist(panel))
    IN  BothBulls(ExternalBull(panel, EP), InternalBull(scores, EP), EP)

\* add_entry_signal_inplace; averages begin with the window.
CanEnter(frame, x, i) ==
    LET EP == EC.eod_technical
        c == frame[x]
    IN  /\ AboveMean(c, i, EP.n_day_ma) /\ AtHigh(c, i, EP.n_day_high)
        /\ c[i].close > c[i].open
        /\ Breadth(frame, LastRows(frame), c[i].day, EP.direction_score.n_day_ma,
                   EP.direction_score.score)

\* _apply_force_exit_on_flip: at the open after the first day without a bull,
\* if that is earlier.
Rerouted(panel, bulls, o) ==
    LET c == panel[o.instrument]
        turns == {j \in DOMAIN c :
                    /\ o.entry_epoch <= c[j].day /\ c[j].day < o.exit_epoch
                    /\ c[j].day - o.entry_epoch >= XC.eod_technical.min_hold_time_days
                    /\ c[j].day \notin bulls}
        flip == AtNextOpen(c, Min(turns))
    IN  IF turns = {} \/ flip.day >= o.exit_epoch THEN o
        ELSE [o EXCEPT !.exit_epoch = flip.day, !.exit_price = flip.price]

EodTechnical(panel, start, bulls) ==
    LET frame == Frames(panel, start)
        tagged == Shortlist(panel)
        Signal(x, i) == LET day == frame[x][i].day
                        IN  /\ <<x, day>> \in tagged /\ Allowed(bulls, day)
                            /\ CanEnter(frame, x, i)
        exit(x, i) == TslExit(frame[x], i, XC.eod_technical, AnyDay)
        walked == EverySignalOf(frame, [x \in DOMAIN frame |->
            [i \in {r \in 1..Last(frame[x]) : Signal(x, r)} |-> exit(x, i)]])
    IN  IF EC.eod_technical.force_exit_on_regime_flip /\ bulls # {}
        THEN {Rerouted(panel, bulls, o) : o \in walked} ELSE walked
=============================================================================
