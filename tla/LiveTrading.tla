---------------------------- MODULE LiveTrading -----------------------------
(***************************************************************************)
(* A strategy traded by hand (scripts/portfolio_helper.py and              *)
(* scripts/live_daily_runner.py).  The helper reads the broker's holdings, *)
(* dates them from its state file and writes the portfolio file; the       *)
(* runner walks every position of that file to its exit and plans the      *)
(* orders of the next open; the trader places some of them.  Days pass     *)
(* between any two of these runs, and the helper can die between its steps *)
(* (a run lasts seconds, so no day passes during one).  The runner runs    *)
(* once a day at most, and last.                                           *)
(*                                                                         *)
(* The runner sees a sliding window: bars of the last Prefetch days, and   *)
(* a market regime computed from the last Lookback days.                   *)
(***************************************************************************)
EXTENDS Integers, Sequences, FiniteSets, FiniteSetsExt, SequencesExt

CONSTANTS
    Symbols,
    Bars,       \* what a day can bring: [gap, score, close], close a function
                \* from the symbols with a bar to prices: days from the last
                \* one, percent of symbols in an uptrend, whole prices
    Rankings,   \* what the signal generator can come up with: sequences of
                \* symbols, best gain first
    Opening,    \* what to begin with: [first, cash, held], the first day of
                \* the market and the account on that day
    EC,         \* [entry_threshold, exit_threshold, force_exit_on_regime_flip]
    XC,         \* [trailing_stop_pct, min_hold_time_days,
                \*  tsl_tighten_after_pct, tsl_tight_pct]
    SC,         \* [max_positions, multiplier, min_order_value, cap]
    Prefetch, Lookback,
    MaxDays     \* bound: days

\* A function of some of the symbols.
OfSymbols(f, Values) == DOMAIN f \subseteq Symbols /\ f \in [DOMAIN f -> Values]

ASSUME LiveAssumption ==
    /\ Lookback \in Nat /\ Prefetch \in Nat /\ Lookback <= Prefetch
    /\ EC.exit_threshold \in Nat /\ EC.entry_threshold \in Nat
    /\ EC.exit_threshold <= EC.entry_threshold
    /\ IsFiniteSet(Symbols) /\ Rankings \subseteq Seq(Symbols)
    /\ SC.max_positions \in Nat \ {0} /\ SC.multiplier \in Nat
    /\ SC.min_order_value \in Nat /\ SC.cap \in [Symbols -> Nat]
    /\ \A b \in Bars \cup {o.first : o \in Opening} :
            b.gap \in Nat \ {0} /\ b.score \in 0..100 /\ OfSymbols(b.close, Nat \ {0})
    /\ \A o \in Opening :
            o.cash \in Nat /\ OfSymbols(o.held, [qty : Nat, avg_price : Nat])

VARIABLES
    days,           \* the market so far: [day, score, close]
    account,        \* at the broker: [cash, held], held a function from symbols
                    \* to [qty, avg_price]
    first_buy,      \* the broker's trade history: the earliest BUY of a symbol
    state_file,     \* [whole, entry_dates]: a file that was truncated and not
                    \* written is not whole
    portfolio,      \* the portfolio file: [cash, positions]
    helper,         \* a run of the helper: [pc, day, dates, portfolio]
    plan,           \* the runner's last output
    first_saved     \* history: the day of the first run whose dates of a symbol
                    \* were saved

vars == <<days, account, first_buy, state_file, portfolio, helper, plan, first_saved>>

NoDates == [s \in {} |-> 0]
Empty == [cash |-> 0, positions |-> [s \in {} |-> {}]]
Idle == [pc |-> "idle", day |-> 0, dates |-> NoDates, portfolio |-> Empty]
NoPlan == [day |-> 0, account |-> Empty, sells |-> {}, buys |-> {}]

today == days[Len(days)].day
SumFor(value(_), S) == SumFunction([x \in S |-> value(x)])

\* The elements of a sequence at some of its places, in order.
At(seq, places) ==
    LET found[i \in 0..Len(seq)] ==
            IF i = 0 THEN <<>>
            ELSE IF i \in places THEN Append(found[i - 1], seq[i]) ELSE found[i - 1]
    IN  found[Len(seq)]

-----------------------------------------------------------------------------
(* portfolio_helper.py                                                     *)

\* bootstrap_entry_dates_from_trades, for the symbols held.
BootstrapDates(bootstrap) ==
    IF bootstrap THEN [s \in DOMAIN account.held |-> first_buy[s]] ELSE NoDates

update_entry_dates_Refreshed(old, held, bootstrap) ==
    [s \in DOMAIN old \cup held |->
        IF s \in DOMAIN bootstrap THEN bootstrap[s]
        ELSE IF s \in held THEN today ELSE old[s]]

\* Nothing in the file is ever changed or dropped; a new symbol gets its date
\* from the trades or, without one, today's.
update_entry_dates(old, held, bootstrap) ==
    [s \in DOMAIN old \cup held |->
        IF s \in DOMAIN old THEN old[s]
        ELSE IF s \in DOMAIN bootstrap THEN bootstrap[s] ELSE today]

Position(s, date) == [qty |-> account.held[s].qty,
                      avg_price |-> account.held[s].avg_price, entry_date |-> date]

\* Holdings, trades and state file are read, then save_state opens the file for
\* writing; a torn file is no JSON and the run ends with an error.
HelperReads(bootstrap, dry_run) ==
    /\ helper = Idle /\ state_file.whole /\ plan.day # today
    /\ LET held == DOMAIN account.held
           dates == update_entry_dates(state_file.entry_dates, held, BootstrapDates(bootstrap))
       IN  /\ helper' = [pc |-> IF dry_run THEN "write" ELSE "dump",
                         dates |-> dates,
                         day |-> today,
                         portfolio |-> [cash |-> account.cash,
                                        positions |-> [s \in held |-> Position(s, dates[s])]]]
    /\ state_file' = IF dry_run THEN state_file ELSE [whole |-> FALSE, entry_dates |-> NoDates]
    /\ UNCHANGED <<days, account, first_buy, portfolio, plan, first_saved>>

HelperDumps ==
    /\ helper.pc = "dump"
    /\ state_file' = [whole |-> TRUE, entry_dates |-> helper.dates]
    /\ helper' = [helper EXCEPT !.pc = "write"]
    /\ first_saved' = [s \in DOMAIN helper.dates |->
                         IF s \in DOMAIN first_saved THEN first_saved[s] ELSE helper.day]
    /\ UNCHANGED <<days, account, first_buy, portfolio, plan>>

HelperWrites ==
    /\ helper.pc = "write"
    /\ portfolio' = helper.portfolio
    /\ helper' = Idle
    /\ UNCHANGED <<days, account, first_buy, state_file, plan, first_saved>>

HelperDies ==
    /\ helper # Idle
    /\ helper' = Idle
    /\ UNCHANGED <<days, account, first_buy, state_file, portfolio, plan, first_saved>>

-----------------------------------------------------------------------------
(* compute_internal_regime_epochs_hysteresis over the days of the window   *)

StartsBull_Yes == TRUE
StartsBull == FALSE

\* The walk begins bearish, turns bullish above one threshold and bearish below
\* the other.
BullDays ==
    LET window == At(days, {i \in DOMAIN days : days[i].day >= today - Lookback})
        is_bull[i \in 0..Len(window)] ==
            IF i = 0 THEN StartsBull
            ELSE IF is_bull[i - 1] THEN window[i].score >= EC.exit_threshold
            ELSE window[i].score > EC.entry_threshold
    IN  {window[i].day : i \in {k \in DOMAIN window : is_bull[k]}}

-----------------------------------------------------------------------------
(* compute_exits                                                           *)

Bar(day, close) == [day |-> day, close |-> close]

\* The rows of a symbol.  One with a bar today has placeholders at today's
\* close for the next two days; the last row is dropped.
RowsOf(s) ==
    LET window == At(days, {i \in DOMAIN days : s \in DOMAIN days[i].close
                                                 /\ days[i].day >= today - Prefetch})
        real == [i \in DOMAIN window |-> Bar(window[i].day, window[i].close[s])]
    IN  IF s \in DOMAIN days[Len(days)].close
        THEN Append(real, Bar(today + 1, days[Len(days)].close[s]))
        ELSE IF real = <<>> THEN <<>> ELSE Front(real)

\* anomalous_drop: more than 20 percent below the close before.
Dropped(rows, first, j) ==
    j > first /\ 100 * (rows[j - 1].close - rows[j].close) > 20 * rows[j - 1].close

StopPct(max_price, avg_price) ==
    IF XC.tsl_tighten_after_pct < 999 /\ XC.tsl_tight_pct > 0
        /\ 100 * (max_price - avg_price) > XC.tsl_tighten_after_pct * avg_price
    THEN XC.tsl_tight_pct ELSE XC.trailing_stop_pct

\* _walk_forward_tsl from row `first` on: the first row on which something
\* ends the position.  A flip or a stop sells at the open of the row after it;
\* an open is taken to be the close here, since no property tells them apart.
Walk(rows, first, avg_price, bulls) ==
    LET Max_price(j) == Max({rows[k].close : k \in first..j})
        Ripe(j) == rows[j].day - rows[first].day >= XC.min_hold_time_days
        Flips(j) == Ripe(j) /\ bulls # {} /\ EC.force_exit_on_regime_flip
                            /\ rows[j].day \notin bulls
        Stops(j) == Ripe(j) /\ 100 * (Max_price(j) - rows[j].close)
                                  > StopPct(Max_price(j), avg_price) * Max_price(j)
        end == Min({j \in first..Len(rows) : \/ j = Len(rows) \/ Dropped(rows, first, j)
                                             \/ Flips(j) \/ Stops(j)})
        Exit(row, price, reason) == [day |-> rows[row].day, price |-> price, reason |-> reason]
    IN  IF Dropped(rows, first, end)
        THEN Exit(end, (80 * rows[end - 1].close) \div 100, "anomalous_drop")
        ELSE IF end = Len(rows) THEN Exit(end, rows[end].close, "end_of_data")
        ELSE Exit(end + 1, rows[end + 1].close,
                  IF Flips(end) THEN "regime_flip" ELSE "trailing_stop")

\* The sale of a position at the next open, estimated at today's close, or at
\* the price of its exit when it has none.
Sale(s, position, exit) ==
    [symbol |-> s, qty |-> position.qty, entry_date |-> position.entry_date,
     price |-> IF s \in DOMAIN days[Len(days)].close THEN days[Len(days)].close[s]
               ELSE exit.price,
     exit_day |-> exit.day, reason |-> exit.reason,
     status |-> IF exit.day = today + 1 THEN "fresh" ELSE "overdue"]

\* The exits up to the next day; a position with no row since its purchase has none.
Sells(positions) ==
    LET bulls == BullDays
        Exits(s) ==
            LET rows == RowsOf(s)
                held == {i \in DOMAIN rows : rows[i].day >= positions[s].entry_date}
            IN  IF held = {} THEN {}
                ELSE {Walk(rows, Min(held), positions[s].avg_price, bulls)}
    IN  UNION {{Sale(s, positions[s], exit) : exit \in {e \in Exits(s) : e.day <= today + 1}} :
                s \in DOMAIN positions}

-----------------------------------------------------------------------------
(* main and compute_entries                                                *)

\* What is left of the cash after a buy.
Spend_Nothing(cash, value) == cash
Spend(cash, value) == cash - value

\* What to buy of a symbol.  `base` is the account over max_positions.
Quantity(s, left, base) ==
    LET target == Min({base, SC.cap[s], left})
    IN  IF target < SC.min_order_value THEN 0 ELSE target \div days[Len(days)].close[s]

Take(buys, s, slots, base) ==
    LET price == days[Len(days)].close[s]
        qty == Quantity(s, buys.cash, base)
    IN  IF Cardinality(buys.orders) >= slots \/ buys.cash < SC.min_order_value \/ qty < 1
        THEN buys
        ELSE [cash |-> Spend(buys.cash, qty * price),
              orders |-> buys.orders \cup {[symbol |-> s, price |-> price, qty |-> qty]}]

\* The ranked candidates one after the other, as long as there are slots and
\* cash for the smallest order.
Entries(ranked, slots, cash, base) ==
    FoldLeft(LAMBDA buys, s : Take(buys, s, slots, base),
             [cash |-> cash, orders |-> {}], ranked).orders

\* A run of the runner for today, on the portfolio file as it is.  `ranked`
\* are the symbols with a signal today, by gain; in a bear regime none has.
Runner(ranked) ==
    /\ helper = Idle /\ plan.day # today
    /\ BullDays # {} /\ today \notin BullDays => ranked = <<>>
    /\ LET held == portfolio.positions
           sells == Sells(held)
           kept == DOMAIN held \ {e.symbol : e \in sells}
           LastClose(s) == IF s \in DOMAIN days[Len(days)].close
                           THEN days[Len(days)].close[s] ELSE held[s].avg_price
           cash == portfolio.cash + SumFor(LAMBDA e : e.price * e.qty, sells)
           account_value == cash + SumFor(LAMBDA s : LastClose(s) * held[s].qty, kept)
           slots == Max({0, SC.max_positions - Cardinality(kept)})
           candidates == At(ranked, {i \in DOMAIN ranked : ranked[i] \notin kept})
       IN  plan' = [day |-> today, account |-> portfolio, sells |-> sells,
                    buys |-> Entries(candidates, slots, cash,
                                (account_value * SC.multiplier) \div SC.max_positions)]
    /\ UNCHANGED <<days, account, first_buy, state_file, portfolio, helper, first_saved>>

-----------------------------------------------------------------------------
(* Outside: the market, and the trader at the broker                       *)

\* The account after the sales and then the buys that were placed are filled
\* at the estimates.
Sold(held, sells) == [s \in DOMAIN held \ {e.symbol : e \in sells} |-> held[s]]
Bought(held, buys) ==
    [s \in DOMAIN held \cup {o.symbol : o \in buys} |->
        IF s \in DOMAIN held THEN held[s]
        ELSE LET o == CHOOSE p \in buys : p.symbol = s
             IN  [qty |-> o.qty, avg_price |-> o.price]]

\* The next day: of the orders of a plan for that morning the trader has placed
\* the sales, the buys, both or none; buys only of what is not held and the
\* broker lets him pay for.
NextDay(b, sells, buys) ==
    /\ helper = Idle /\ Len(days) < MaxDays
    /\ plan.day # today => sells = {} /\ buys = {}
    /\ LET next == today + b.gap
           left == Sold(account.held, sells)
           cash == account.cash
                    + SumFor(LAMBDA e : e.price * account.held[e.symbol].qty, sells)
                    - SumFor(LAMBDA o : o.price * o.qty, buys)
       IN  /\ {e.symbol : e \in sells} \subseteq DOMAIN account.held
           /\ {o.symbol : o \in buys} \cap DOMAIN left = {}
           /\ cash >= 0
           /\ account' = [cash |-> cash, held |-> Bought(left, buys)]
           /\ first_buy' = [s \in DOMAIN first_buy \cup {o.symbol : o \in buys} |->
                                IF s \in DOMAIN first_buy THEN first_buy[s] ELSE next]
           /\ days' = Append(days, [day |-> next, score |-> b.score, close |-> b.close])
    /\ UNCHANGED <<state_file, portfolio, helper, plan, first_saved>>

-----------------------------------------------------------------------------

\* The symbols with a signal need a bar today.
Ranked == {r \in Rankings : ToSet(r) \subseteq DOMAIN days[Len(days)].close}

Init ==
    /\ \E o \in Opening :
          /\ days = <<[day |-> 1, score |-> o.first.score, close |-> o.first.close]>>
          /\ account = [cash |-> o.cash, held |-> o.held]
    /\ first_buy = [s \in DOMAIN account.held |-> 1]
    /\ state_file = [whole |-> TRUE, entry_dates |-> NoDates] /\ portfolio = Empty
    /\ helper = Idle /\ plan = NoPlan /\ first_saved = NoDates

Next ==
    \/ \E bootstrap, dry_run \in BOOLEAN : HelperReads(bootstrap, dry_run)
    \/ HelperDumps
    \/ HelperWrites
    \/ HelperDies
    \/ \E ranked \in Ranked : Runner(ranked)
    \/ \E b \in Bars, sells \in {{}, plan.sells}, buys \in {{}, plan.buys} :
          NextDay(b, sells, buys)

Spec == Init /\ [][Next]_vars

-----------------------------------------------------------------------------
(* Properties                                                              *)

\* The date of a position is not before the first purchase of its symbol, and
\* not after the first run that saved it, whatever was interrupted, dry or
\* bootstrapped.  (A symbol that is sold and bought again keeps its first date.)
DatedFromItsPurchase ==
    \A s \in DOMAIN portfolio.positions :
        LET date == portfolio.positions[s].entry_date
        IN  /\ first_buy[s] <= date
            /\ s \in DOMAIN first_saved => date <= first_saved[s]

\* A plan made from the account as it is can be carried out: the sales pay for
\* all the buys, and no more positions result than the strategy holds.
PlanCanBeCarriedOut ==
    LET held == {s \in DOMAIN account.held : \A e \in plan.sells : e.symbol # s}
        drawn_up == /\ plan.account.cash = account.cash
                    /\ DOMAIN plan.account.positions = DOMAIN account.held
                    /\ \A s \in DOMAIN account.held :
                          plan.account.positions[s].qty = account.held[s].qty
    IN  drawn_up =>
        /\ account.cash + SumFor(LAMBDA e : e.price * e.qty, plan.sells)
              >= SumFor(LAMBDA o : o.price * o.qty, plan.buys)
        /\ plan.buys # {} =>
              Cardinality(held \cup {o.symbol : o \in plan.buys}) <= SC.max_positions

\* An overdue sale whose position the next run finds in its window, unchanged.
Comparable(e) ==
    /\ e.status = "overdue" /\ e.reason # "end_of_data"
    /\ e.reason = "regime_flip" => BullDays # {}
    /\ e.entry_date >= today - Prefetch
    /\ e.symbol \in DOMAIN portfolio.positions
    /\ portfolio.positions[e.symbol] = plan.account.positions[e.symbol]

StillDue(e, sells) == \E f \in sells : f.symbol = e.symbol /\ f.exit_day <= e.exit_day

\* A sale that was overdue stays due, for the same day or an earlier one, in a
\* run on a later day, as long as the window reaches back to the purchase: new
\* bars and a regime that is computed from another day on take no exit back.
\* The exception is a flip after which the window has lost its last bull day,
\* which switches the regime off.
SalesStand ==
    [][plan'.day > plan.day =>
          \A e \in plan.sells : Comparable(e) => StillDue(e, plan'.sells)]_vars

\* "No exit emitted if `_walk_forward_tsl` finds no trigger" (the docstring of
\* compute_exits): a position that has a bar today is sold by a rule.
NoTriggerNoSale ==
    plan.day = today =>
        \A e \in plan.sells : e.symbol \in DOMAIN days[Len(days)].close
                                 => e.reason # "end_of_data"
=============================================================================
