------------------------ MODULE SimulatorProperties ------------------------
(***************************************************************************)
(* Properties of the simulator that need sums over positions and trades,   *)
(* or that relate several days or calls.                                   *)
(***************************************************************************)
EXTENDS Simulator, Functions

\* What some of the positions are worth at their last closes.
ValueOf(positions, keys) ==
    SumFunction([key \in keys |-> positions[key].quantity
                                    * positions[key].last_close_price])

MarkedValue == ValueOf(current_positions, Open)

\* process() writes a snapshot with its positions marked: their value is the sum.
ASSUME MarkedSnapshots ==
    \A s \in Snapshots : s.current_position_value
                = ValueOf(s.current_positions, DOMAIN s.current_positions)

\* What a set of positions cost, charges included.
Outlay(positions) ==
    SumFunction([key \in DOMAIN positions |->
        positions[key].quantity * positions[key].entry_price
            + positions[key].entry_costs])

\* What the trades of a log cost, charges of both legs included, and what they
\* were sold for: their difference is the profit the log reports.
PaidFor(log) ==
    SumFunction([i \in DOMAIN log |->
        log[i].quantity * log[i].entry_price + log[i].costs])

SoldFor(log) ==
    SumFunction([i \in DOMAIN log |-> log[i].quantity * log[i].exit_price])

\* All order days have bars: no day of the call goes without MTM.
OnGrid ==
    /\ \A i \in DOMAIN orders : {orders[i].entry_epoch, orders[i].exit_epoch}
                                    \cap 0..end_epoch \subseteq MtmDays
    /\ \A key \in DOMAIN opening.current_positions : key.exit_epoch \in MtmDays

\* The books balance at every step: cash, withdrawals and the outlay of the open
\* positions are the starting capital and the profit the trade log reports
\* (entry and sell charges and slippage of both legs included).
BooksBalance ==
    margin_available + withdrawn + Outlay(current_positions)
        = opening.margin_available + Outlay(opening.current_positions)
            + SoldFor(trade_log) - PaidFor(trade_log)

\* On days that all have bars, and without payouts, the account value the day's
\* orders are sized from is the cash plus every open position at its last close:
\* no position is missing from it or counted twice.
SizedFromTheBook ==
    pc = "entries" /\ OnGrid /\ cfg.pay_out.type = "none" /\ cursor = 0
        => current_account_value = margin_available + MarkedValue

\* When a day's orders are done, whatever is still open exits on a later day.
\* The exception is a row that enters and exits on one day under
\* exit_before_entry: the exits of that day have run when it is entered.
ExitsOnTime ==
    pc = "mark" =>
        \A key \in Open : \/ key.exit_epoch > today
                          \/ cfg.exit_before_entry
                                /\ key.exit_epoch = key.entry_epoch

\* A row is traded once.  Only a row entered on the end day of one call, and
\* closed there, can be entered again, by the next call, which walks that day a
\* second time.  (The close is dated back when the day has no bars.)
TradedOnce ==
    \A i \in DOMAIN trade_log :
        LET key == trade_log[i].key
            Again == {j \in DOMAIN trade_log : j > i /\ trade_log[j].key = key}
            Rows == {j \in DOMAIN orders : KeyOf(orders[j]) = key}
        IN Cardinality(Again) >= Cardinality(Rows) /\ Rows # {}
            => key.entry_epoch >= trade_log[i].exit_epoch

\* Withdrawals keep to the calendar: when the orders of a day are sized, every
\* payout date up to that day has been paid and none after it.
PayOutsOnSchedule ==
    LET interval == cfg.pay_out.payout_interval_days
    IN pc \in {"entries", "exits", "mark"} /\ cfg.pay_out.type # "none"
            /\ opening.next_payout_epoch # NoEpoch /\ interval > 0 =>
        /\ next_payout_epoch > today
        /\ next_payout_epoch - interval <= today
             \/ next_payout_epoch = opening.next_payout_epoch
        /\ (next_payout_epoch - opening.next_payout_epoch) % interval = 0

\* Under exit_before_entry nothing is entered while a position of an earlier day
\* waits for today's exit: its cash and its slot are free by then.
ExitsSettleFirst ==
    [][cfg.exit_before_entry /\ Open' \ Open # {} =>
        \A key \in Open : key.entry_epoch < today => key.exit_epoch # today]_vars

\* An open position's notional is within max_order_value, or the missing
\* liquidity figure that let it through is in the log callers audit.
CappedOrLogged ==
    \A key \in Open \ DOMAIN opening.current_positions :
        LET rule == cfg.max_order_value
            notional == current_positions[key].quantity
                            * current_positions[key].entry_price
        IN /\ rule.type = "fixed" => notional <= rule.value
           /\ rule.type = "percentage_of_instrument_avg_txn" =>
                \/ <<key.entry_epoch, key.instrument>> \in missing_avg_txn_log
                \/ key.entry_epoch \in MtmDays
                    /\ 100 * notional <=
                        stats[key.entry_epoch][key.instrument].avg_txn * rule.value

\* A call returns or raises: its payout, entry and exit loops all end.
CallsReturn == pc = "day" ~> pc \in {"idle", "raised"}

=============================================================================
