---------------------------- MODULE OrderRanking ----------------------------
(***************************************************************************)
(* The order in which the orders of a day compete for slots and cash       *)
(* (engine/ranking.py): by turnover, by gain, by depth of a dip, or by     *)
(* what the earlier orders of the same instrument have earned.             *)
(*                                                                         *)
(* A sort is the set of pairs of orders it puts one before the other;      *)
(* orders of one day in no pair are tied.  Ranks are compared by the       *)
(* values they rank, on the instruments that have one; the others have a   *)
(* null rank.  Dips are those of the tick data: the two strategies that    *)
(* hand over dips of their own are sorted by those.                        *)
(***************************************************************************)
EXTENDS TechnicalGenerator

Ratio(num, den) == [num |-> num, den |-> den]
Exceeds(r, q) == r.num * q.den > q.num * r.den

Present(panel, day) == {x \in DOMAIN panel : day \in DaysOf(panel[x], DOMAIN panel[x])}

\* The values of a day end with the row before it: prev_volume, prev_close.
Before(course, day) == RowAt(course, day) - 1

AverageTxn(panel, day, w) ==
    LET seen(x) == Closed(panel[x], Window(Before(panel[x], day), w))
    IN  [x \in {y \in Present(panel, day) : seen(y) # {}} |->
            Ratio(SumOver(LAMBDA k : Turnover(panel[x][k]), seen(x)), Cardinality(seen(x)))]

Gain(panel, day, w) ==
    LET gained == {x \in Present(panel, day) : HasReturn(panel[x], Before(panel[x], day), w, 0)}
        of(x) == Return(panel[x], Before(panel[x], day), w, 0)
    IN  [x \in gained |-> Ratio(of(x).now - of(x).past, of(x).past)]

\* (dip_pct of the row itself is null when its close is)
Dip(panel, day, w) ==
    LET seen(x) == Closed(panel[x], Window(Before(panel[x], day), w))
        peak(x) == Max({panel[x][k].close : k \in seen(x)})
    IN  [x \in {y \in Present(panel, day) : Before(panel[y], day) \in seen(y)} |->
            Ratio(peak(x) - panel[x][Before(panel[x], day)].close, peak(x))]

\* Does x come before y in a sort by rank?
Precedes(values, x, y, nulls_last) ==
    LET ranked == DOMAIN values
    IN  IF {x, y} \subseteq ranked THEN Exceeds(values[x], values[y])
        ELSE IF nulls_last THEN x \in ranked /\ y \notin ranked
                           ELSE y \in ranked /\ x \notin ranked

-----------------------------------------------------------------------------
(* top_performer                                                           *)

\* remove_overlapping_orders: not an order that an earlier one of its
\* instrument outlives.
Kept(os) ==
    {o \in os : ~ \E p \in os : /\ p.instrument = o.instrument
                                /\ p.entry_epoch < o.entry_epoch /\ p.exit_epoch >= o.exit_epoch}

\* create_epoch_wise_instrument_stats: the close of every day between the first
\* bar of an instrument and its last.
FilledForward(course, day) == course[Max({i \in DOMAIN course : course[i].day <= day})].close

\* The orders of a window, those without a price for the evening before apart.
Scored(panel, os, day, window) ==
    {o \in Kept(os) :
        /\ day - window <= o.entry_epoch /\ o.entry_epoch < day
        /\ \/ o.exit_epoch < day
           \/ day - 1 <= panel[o.instrument][Len(panel[o.instrument])].day}

\* A row without a close is not filled: the subtraction raises, the run ends.
Raises(panel, os, day, window) ==
    \E o \in Scored(panel, os, day, window) :
        o.exit_epoch >= day /\ FilledForward(panel[o.instrument], day - 1) = None

\* What they have earned, in hundredths of a percent: a closed order all of
\* it, an open one until the close of the evening before.
Scores(panel, os, day, window) ==
    LET priced == Scored(panel, os, day, window)
        worth(o) == IF o.exit_epoch < day THEN o.exit_price
                    ELSE FilledForward(panel[o.instrument], day - 1)
        pct(o) == (10000 * (worth(o) - o.entry_price)) \div o.entry_price
    IN  [x \in {o.instrument : o \in priced} |->
            Ratio(SumOver(pct, {o \in priced : o.instrument = x}), 1)]

\* Winners, then losers, then the instruments without a score.
Priority(scores, x) == IF x \notin DOMAIN scores THEN 2 ELSE IF scores[x].num > 0 THEN 0 ELSE 1

-----------------------------------------------------------------------------
(* sort_orders                                                             *)

\* Two sorts run when the type is top_performer or top_dipper; the first one
\* drops what has no bar on the day of its entry, and breaks the ties of
\* top_performer.
SortOrders(os, panel, SC) ==
    LET types == {SC.order_sorting_type, SC.default_sorting_type}
        w == SC.order_ranking_window_days
        sorts == types \cap {"top_average_txn", "top_gainer"} # {}
        joined == {o \in os : sorts => o.instrument \in Present(panel, o.entry_epoch)}
        first(day) == IF "top_average_txn" \in types THEN AverageTxn(panel, day, w)
                      ELSE IF sorts THEN Gain(panel, day, w) ELSE <<>>
        Placed(day, x, y) ==
            CASE SC.order_sorting_type = "top_performer" ->
                    LET scores == Scores(panel, joined, day, w)
                        a == Priority(scores, x)
                        b == Priority(scores, y)
                    IN  \/ a < b
                        \/ a = b /\ Precedes(scores, x, y, SC.ranking_nulls_last)
                        \/ /\ a = b /\ ~ Precedes(scores, y, x, SC.ranking_nulls_last)
                           /\ Precedes(first(day), x, y, SC.ranking_nulls_last)
              [] SC.order_sorting_type = "top_dipper" ->
                    Precedes(Dip(panel, day, w), x, y, SC.ranking_nulls_last)
              [] OTHER -> Precedes(first(day), x, y, SC.ranking_nulls_last)
        raised == /\ SC.order_sorting_type = "top_performer"
                  /\ \E o \in joined : Raises(panel, joined, o.entry_epoch, w)
    IN  {r \in joined \X joined :
            /\ ~ raised
            /\ r[1].entry_epoch = r[2].entry_epoch /\ r[1].instrument # r[2].instrument
            /\ Placed(r[1].entry_epoch, r[1].instrument, r[2].instrument)}
=============================================================================
