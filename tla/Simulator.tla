----------------------------- MODULE Simulator -----------------------------
(***************************************************************************)
(* The position-level portfolio simulator, engine/simulator.py.  process() *)
(* is called once per chunk of the backtest window and walks the days of   *)
(* the window; a day pays out withdrawals, sizes the orders, enters and    *)
(* exits positions and marks the rest to market.  At the end of the chunk  *)
(* every open position is closed and the snapshot is handed to the next    *)
(* call.  Each loop of the code is a loop here, one iteration per step.    *)
(*                                                                         *)
(* Money and prices are integers (a quantity is the floor of a quotient,   *)
(* as int() makes it); an epoch is a day number; the broker's schedules    *)
(* and the slippage of a leg are one percentage of its notional.           *)
(***************************************************************************)
EXTENDS Integers, FiniteSets, Sequences

CONSTANTS
    Instruments,   \* tradable symbols
    ConfigIds,     \* entry_config_ids of an order row, tier suffix included
    Configs,       \* sim_config: limits, sizing, payout (see Config)
    OrderLists,    \* df_orders: sequences of order rows, already ranked
    StatsChoices,  \* epoch_wise_instrument_stats
    Snapshots,     \* snapshots to resume from (see Snapshot)
    StartMargin,   \* context["start_margin"]
    StartDay,      \* context["start_epoch"] of the first call, floored to a day
    Ends,          \* the end_epoch of a call
    MaxCalls,      \* bound: calls of process() in a behaviour
    BuyRate,       \* percent of the notional charged and slipped on a buy
    SellRate       \* percent of the notional charged and slipped on a sell

NoEpoch == -1      \* a key the snapshot does not hold
Missing == -1      \* None in the stats

Rule == [type : {"none", "fixed", "percentage_of_account_value",
                 "percentage_of_available_margin",
                 "percentage_of_instrument_avg_txn"}, value : Nat]

PayOutRule == [type : {"none", "fixed", "percentage"}, value : Nat,
               withdrawal_lockup_days : Nat, payout_interval_days : Nat]

Config == [max_positions : Nat \ {0}, max_positions_per_instrument : Nat \ {0},
           exit_before_entry : BOOLEAN, order_value : Rule,
           order_value_multiplier : Nat \ {0}, max_order_value : Rule,
           missing_avg_txn_policy : {"no_cap", "skip"}, pay_out : PayOutRule]

Order == [instrument : Instruments, entry_epoch : Nat, exit_epoch : Nat,
          entry_config_ids : ConfigIds,
          entry_price : Nat \ {0}, exit_price : Nat]

OrderKey == [instrument : Instruments, entry_epoch : Nat, exit_epoch : Nat,
             entry_config_ids : ConfigIds]

Position == [quantity : Nat \ {0}, entry_price : Nat \ {0}, exit_price : Nat,
             last_close_price : Nat, entry_costs : Nat]

Positions == UNION {[K -> Position] : K \in SUBSET OrderKey}

Snapshot == [margin_available : Nat, current_position_value : Nat,
             simulation_date : Nat, current_positions : Positions,
             next_payout_epoch : Nat \cup {NoEpoch}]

Bar == [close : Nat \cup {Missing}, avg_txn : Nat \cup {Missing}]

ASSUME ConfigAssumption == Configs \subseteq Config

ASSUME OrderAssumption == OrderLists \subseteq Seq(Order)

ASSUME StatsAssumption ==
    \A s \in StatsChoices :
        /\ DOMAIN s \subseteq Nat
        /\ \A day \in DOMAIN s : s[day] \in [Instruments -> Bar]

ASSUME SnapshotAssumption ==
    \A s \in Snapshots :
        /\ s.margin_available \in Nat /\ s.current_position_value \in Nat
        /\ s.simulation_date \in Nat
        /\ s.next_payout_epoch \in Nat \cup {NoEpoch}
        /\ IsFiniteSet(DOMAIN s.current_positions)
        /\ DOMAIN s.current_positions \subseteq OrderKey
        /\ \A key \in DOMAIN s.current_positions :
                s.current_positions[key] \in Position

\* An order leaves no earlier than it enters (the exit walk starts at the entry),
\* and a snapshot, taken when its last day was done, carries no overdue position.
ASSUME CalendarAssumption ==
    /\ \A list \in OrderLists : \A i \in DOMAIN list :
            list[i].entry_epoch <= list[i].exit_epoch
    /\ \A s \in Snapshots : \A key \in DOMAIN s.current_positions :
            s.simulation_date <= key.exit_epoch

ASSUME NumberAssumption ==
    /\ StartMargin \in Nat /\ StartDay \in Nat /\ Ends \subseteq Nat
    /\ MaxCalls \in Nat /\ BuyRate \in Nat /\ SellRate \in 0..100

VARIABLES
    cfg, orders, stats, opening,      \* the arguments of the calls
    pc, calls, end_epoch, dates_left, today,
    margin_available, current_position_value, current_positions_count,
    current_positions, simulation_date, next_payout_epoch,   \* the snapshot
    current_account_value, order_value, invested_value,      \* of the day
    cursor,           \* the last row of orders the entry loop has reached
    todo,             \* positions the running MTM loop has not reached
    scheduled,        \* date_orders: keys in the "exits" list of their day
    trade_log, day_wise_log, missing_avg_txn_log,
    withdrawn         \* history: what the payouts took out of the margin

inputs == <<cfg, orders, stats, opening>>
clock == <<calls, end_epoch, dates_left, today, simulation_date>>
book == <<current_positions_count, current_positions, scheduled>>
logs == <<trade_log, day_wise_log, missing_avg_txn_log>>
sizing == <<current_account_value, order_value>>
payout == <<next_payout_epoch, withdrawn>>
scan == <<invested_value, todo>>
vars == <<inputs, pc, clock, book, logs, sizing, payout, scan, cursor,
          margin_available, current_position_value>>

----------------------------------------------------------------------------
(* Helpers *)

KeyOf(order) ==
    [instrument |-> order.instrument, entry_epoch |-> order.entry_epoch,
     exit_epoch |-> order.exit_epoch,
     entry_config_ids |-> order.entry_config_ids]

Open == DOMAIN current_positions
OpenIn(instrument) == {key \in Open : key.instrument = instrument}
MtmDays == DOMAIN stats
Least(a, b) == IF a <= b THEN a ELSE b

BuyCosts(notional) == (notional * BuyRate) \div 100
SellCosts(notional) == (notional * SellRate) \div 100

\* Mutant: the sale is credited without its costs.
Proceeds_Gross(position, price) == position.quantity * price

\* What a sale of the position at a price adds to the margin.
Proceeds(position, price) ==
    position.quantity * price - SellCosts(position.quantity * price)

\* The amount a sizing rule stands for, scaled; `default` without a rule.
RuleValue(rule, scale, account, margin, default) ==
    CASE rule.type = "fixed" -> scale * rule.value
      [] rule.type = "percentage_of_account_value" ->
            (scale * account * rule.value) \div 100
      [] rule.type = "percentage_of_available_margin" ->
            (scale * margin * rule.value) \div 100
      [] OTHER -> default

\* The day's order value; the multiplier is applied here, before any cap.
BaseOrderValue(account, margin) ==
    RuleValue(cfg.order_value, cfg.order_value_multiplier, account, margin,
              (cfg.order_value_multiplier * account) \div cfg.max_positions)

AvgTxn(instrument) ==
    IF today \in MtmDays THEN stats[today][instrument].avg_txn ELSE Missing

CapIsUnknown(row) ==
    /\ cfg.max_order_value.type = "percentage_of_instrument_avg_txn"
    /\ AvgTxn(row.instrument) = Missing

\* Mutant: the cap first, then the multiplier.
CappedOrderValue_Scaled(row) ==
    cfg.order_value_multiplier *
        Least(order_value, RuleValue(cfg.max_order_value, 1, current_account_value,
                                     margin_available, order_value))

\* The order value of one row: the day's order value under max_order_value.
CappedOrderValue(row) ==
    IF cfg.max_order_value.type = "percentage_of_instrument_avg_txn"
    THEN IF CapIsUnknown(row) THEN order_value
         ELSE Least(order_value,
                    (AvgTxn(row.instrument) * cfg.max_order_value.value) \div 100)
    ELSE Least(order_value,
               RuleValue(cfg.max_order_value, 1, current_account_value,
                         margin_available, order_value))

Quantity(row) == CappedOrderValue(row) \div row.entry_price
Notional(row) == Quantity(row) * row.entry_price
RequiredMargin(row) == Notional(row) + BuyCosts(Notional(row))

\* Mutant: one position too many.
SlotsFull_OneMore == current_positions_count > cfg.max_positions

SlotsFull == current_positions_count >= cfg.max_positions
InstrumentFull(row) ==
    Cardinality(OpenIn(row.instrument)) >= cfg.max_positions_per_instrument
Refused(row) == CapIsUnknown(row) /\ cfg.missing_avg_txn_policy = "skip"

\* Mutant: the margin is not looked at.
Affordable_OnCredit(row) == Quantity(row) > 0

Affordable(row) == margin_available >= RequiredMargin(row) /\ Quantity(row) > 0

\* Row i is the next of today's entries in rank order.
IsNextEntry(i) ==
    /\ i > cursor /\ orders[i].entry_epoch = today
    /\ \A j \in DOMAIN orders : j > cursor /\ j < i => orders[j].entry_epoch # today

NoEntryLeft ==
    \A i \in DOMAIN orders : i > cursor => orders[i].entry_epoch # today

\* Mutant: a position entered today is not among today's exits.
DueExits_NotToday ==
    {key \in scheduled \cap Open : key.exit_epoch = today /\ key.entry_epoch < today}

DueExits == {key \in scheduled \cap Open : key.exit_epoch = today}

\* The exits a call registers for the positions its snapshot brings in; as a
\* mutant, none of them.
CarriedExits_None == {}
CarriedExits == Open

\* date_orders has an entry for today: a row to enter or an exit in its list.
HasOrdersToday ==
    \/ \E i \in DOMAIN orders : orders[i].entry_epoch = today
    \/ \E key \in scheduled : key.exit_epoch = today

\* The loop of the day that runs first; as a mutant, always the entries.
FirstPhase_Entries == IF ~HasOrdersToday THEN "mark" ELSE "entries"

FirstPhase == IF ~HasOrdersToday THEN "mark"
              ELSE IF cfg.exit_before_entry THEN "exits" ELSE "entries"

\* Mutant: a resumed call walks the days before its snapshot again.
ProcessingDates_FromStart(end) ==
    {day \in MtmDays \cup {orders[i].entry_epoch : i \in DOMAIN orders} : day <= end}

\* Days the call walks: MTM days, entry and exit days of the rows, exit days
\* of carried positions; from the snapshot's date up to and with the end.
ProcessingDates(end) ==
    LET OrderDays == {orders[i].entry_epoch : i \in DOMAIN orders}
                     \cup {orders[i].exit_epoch : i \in DOMAIN orders}
                     \cup {key.exit_epoch : key \in Open}
    IN {day \in MtmDays \cup OrderDays : simulation_date <= day /\ day <= end}

IsEarliest(day) == \A other \in dates_left : day <= other

\* Mutants: the payout of the day itself waits; a zero interval is not caught.
PayOutIsDue_Late ==
    /\ next_payout_epoch # NoEpoch /\ today > next_payout_epoch
    /\ cfg.pay_out.type # "none" /\ cfg.pay_out.payout_interval_days > 0

PayOutIsDue_AnyInterval ==
    /\ next_payout_epoch # NoEpoch /\ today >= next_payout_epoch
    /\ cfg.pay_out.type # "none"

PayOutIsDue ==
    /\ next_payout_epoch # NoEpoch
    /\ today >= next_payout_epoch
    /\ cfg.pay_out.type # "none"
    /\ cfg.pay_out.payout_interval_days > 0

PayOutSum(account) ==
    IF cfg.pay_out.type = "fixed" THEN cfg.pay_out.value
    ELSE (cfg.pay_out.value * account) \div 100

\* Mutant: the payout is not limited to the cash.
Withdrawal_Unlimited(account) == PayOutSum(account)

Withdrawal(account) == Least(margin_available, PayOutSum(account))

\* The day a position left at the end is closed on: the end itself, else the
\* last MTM day before it, else the end.
EffectiveEnd ==
    IF end_epoch \notin MtmDays /\ \E day \in MtmDays : day <= end_epoch
    THEN CHOOSE day \in MtmDays :
            /\ day <= end_epoch
            /\ \A other \in MtmDays : other <= end_epoch => other <= day
    ELSE end_epoch

\* The last close of a position after today's bar.
MarkedPrice(key) ==
    IF stats[today][key.instrument].close = Missing
    THEN current_positions[key].last_close_price
    ELSE stats[today][key.instrument].close

\* Mutant: the row forgets the costs of the entry.
TradeRow_ExitCosts(key, exit, price, reason) ==
    LET position == current_positions[key]
    IN [key |-> key, exit_epoch |-> exit, quantity |-> position.quantity,
        entry_price |-> position.entry_price, exit_price |-> price,
        costs |-> SellCosts(position.quantity * price), exit_reason |-> reason]

TradeRow(key, exit, price, reason) ==
    LET position == current_positions[key]
    IN [key |-> key, exit_epoch |-> exit, quantity |-> position.quantity,
        entry_price |-> position.entry_price, exit_price |-> price,
        costs |-> position.entry_costs + SellCosts(position.quantity * price),
        exit_reason |-> reason]

----------------------------------------------------------------------------
(* The snapshot a run starts from *)

FreshSnapshot ==
    [margin_available |-> StartMargin, current_position_value |-> 0,
     simulation_date |-> StartDay, current_positions |-> [key \in {} |-> {}],
     next_payout_epoch |->
        IF cfg.pay_out.type = "none" THEN NoEpoch
        ELSE StartDay + Least(cfg.pay_out.withdrawal_lockup_days,
                              cfg.pay_out.payout_interval_days)]

\* A snapshot of an earlier call under the same configuration respects its limits.
Fits(snapshot) ==
    LET held == DOMAIN snapshot.current_positions
    IN /\ Cardinality(held) <= cfg.max_positions
       /\ \A i \in Instruments : Cardinality({key \in held : key.instrument = i})
                                    <= cfg.max_positions_per_instrument

Init ==
    /\ cfg \in Configs /\ orders \in OrderLists /\ stats \in StatsChoices
    /\ opening \in {FreshSnapshot} \cup {s \in Snapshots : Fits(s)}
    /\ pc = "idle" /\ calls = 0 /\ end_epoch = StartDay
    /\ dates_left = {} /\ today = StartDay
    /\ margin_available = opening.margin_available
    /\ current_position_value = opening.current_position_value
    /\ current_positions = opening.current_positions
    /\ current_positions_count = Cardinality(DOMAIN opening.current_positions)
    /\ simulation_date = opening.simulation_date
    /\ next_payout_epoch = opening.next_payout_epoch
    /\ current_account_value = 0 /\ order_value = 0 /\ invested_value = 0
    /\ cursor = 0 /\ todo = {} /\ scheduled = {}
    /\ trade_log = <<>> /\ day_wise_log = <<>> /\ missing_avg_txn_log = {}
    /\ withdrawn = 0

----------------------------------------------------------------------------
(* process(): set up a call and walk its days *)

StartCall(end) ==
    /\ pc = "idle" /\ calls < MaxCalls /\ end >= simulation_date
    /\ pc' = "day" /\ calls' = calls + 1 /\ end_epoch' = end
    /\ dates_left' = ProcessingDates(end)
    /\ scheduled' = CarriedExits
    /\ UNCHANGED <<inputs, today, simulation_date, current_positions_count,
                   current_positions, logs, sizing, payout, scan, cursor,
                   margin_available, current_position_value>>

BeginDay(day) ==
    /\ pc = "day" /\ day \in dates_left /\ IsEarliest(day)
    /\ pc' = "payout"
    /\ today' = day /\ dates_left' = dates_left \ {day}
    /\ current_account_value' = current_position_value + margin_available
    /\ UNCHANGED <<inputs, calls, end_epoch, simulation_date, book, logs,
                   order_value, payout, scan, cursor, margin_available,
                   current_position_value>>

\* One turn of the payout loop: account value first, then the withdrawal.
PayOut ==
    /\ pc = "payout" /\ PayOutIsDue
    /\ LET account == current_position_value + margin_available
       IN /\ current_account_value' = account
          /\ margin_available' = margin_available - Withdrawal(account)
          /\ withdrawn' = withdrawn + Withdrawal(account)
    /\ next_payout_epoch' = next_payout_epoch + cfg.pay_out.payout_interval_days
    /\ UNCHANGED <<inputs, pc, clock, book, logs, order_value, scan, cursor,
                   current_position_value>>

\* No payout is due: size the day's orders and branch on the order of the day.
SizeOrders ==
    /\ pc = "payout" /\ ~PayOutIsDue
    /\ order_value' = BaseOrderValue(current_account_value, margin_available)
    /\ cursor' = 0
    /\ invested_value' = 0 /\ todo' = IF HasOrdersToday THEN {} ELSE Open
    /\ pc' = FirstPhase
    /\ UNCHANGED <<inputs, clock, book, logs, current_account_value, payout,
                   margin_available, current_position_value>>

----------------------------------------------------------------------------
(* _process_entries: one row of today's entries per step *)

\* A row that is passed over; a cap that could not be computed is logged.
SkipEntry(i) ==
    LET row == orders[i]
    IN /\ pc = "entries" /\ IsNextEntry(i) /\ ~SlotsFull
       /\ InstrumentFull(row) \/ Refused(row) \/ ~Affordable(row)
       /\ missing_avg_txn_log' =
            missing_avg_txn_log \cup
                (IF ~InstrumentFull(row) /\ CapIsUnknown(row)
                 THEN {<<today, row.instrument>>} ELSE {})
       /\ cursor' = i
       /\ UNCHANGED <<inputs, pc, clock, book, trade_log, day_wise_log, sizing,
                      payout, scan, margin_available, current_position_value>>

Enter(i) ==
    LET row == orders[i]
        position == [quantity |-> Quantity(row), entry_price |-> row.entry_price,
                     exit_price |-> row.exit_price,
                     last_close_price |-> row.entry_price,
                     entry_costs |-> BuyCosts(Notional(row))]
    IN /\ pc = "entries" /\ IsNextEntry(i) /\ ~SlotsFull
       /\ ~InstrumentFull(row) /\ ~Refused(row) /\ Affordable(row)
       /\ KeyOf(row) \notin Open
       /\ current_positions_count' = current_positions_count + 1
       /\ margin_available' = margin_available - RequiredMargin(row)
       /\ current_positions' =
            [key \in Open \cup {KeyOf(row)} |->
                IF key = KeyOf(row) THEN position ELSE current_positions[key]]
       /\ scheduled' = scheduled \cup {KeyOf(row)}
       /\ missing_avg_txn_log' =
            missing_avg_txn_log \cup
                (IF CapIsUnknown(row) THEN {<<today, row.instrument>>} ELSE {})
       /\ cursor' = i
       /\ UNCHANGED <<inputs, pc, clock, trade_log, day_wise_log, sizing, payout,
                      scan, current_position_value>>

\* ValueError: an open position has the row's OrderKey.  The call is abandoned.
RaiseDuplicateKey(i) ==
    LET row == orders[i]
    IN /\ pc = "entries" /\ IsNextEntry(i) /\ ~SlotsFull
       /\ ~InstrumentFull(row) /\ ~Refused(row) /\ Affordable(row)
       /\ KeyOf(row) \in Open
       /\ pc' = "raised"
       /\ UNCHANGED <<inputs, clock, book, logs, sizing, payout, scan, cursor,
                      margin_available, current_position_value>>

EndEntries ==
    /\ pc = "entries" /\ (SlotsFull \/ NoEntryLeft)
    /\ pc' = IF cfg.exit_before_entry THEN "mark" ELSE "exits"
    /\ invested_value' = 0 /\ todo' = IF cfg.exit_before_entry THEN Open ELSE {}
    /\ UNCHANGED <<inputs, clock, book, logs, sizing, payout, cursor,
                   margin_available, current_position_value>>

----------------------------------------------------------------------------
(* _process_exits: one due position per step *)

Without(key) == [other \in Open \ {key} |-> current_positions[other]]

\* Settle one position: slot and cash are freed, a trade row is written.
Settle(key, exit, price, reason) ==
    /\ current_positions_count' = current_positions_count - 1
    /\ margin_available' = margin_available + Proceeds(current_positions[key], price)
    /\ trade_log' = Append(trade_log, TradeRow(key, exit, price, reason))
    /\ current_positions' = Without(key)

Exit(key) ==
    /\ pc = "exits" /\ key \in DueExits
    /\ Settle(key, key.exit_epoch, current_positions[key].exit_price, "natural")
    /\ UNCHANGED <<inputs, pc, clock, scheduled, day_wise_log,
                   missing_avg_txn_log, sizing, payout, scan, cursor,
                   current_position_value>>

EndExits ==
    /\ pc = "exits" /\ DueExits = {}
    /\ pc' = IF cfg.exit_before_entry THEN "revalue" ELSE "mark"
    /\ invested_value' = 0 /\ todo' = Open
    /\ UNCHANGED <<inputs, clock, book, logs, sizing, payout, cursor,
                   margin_available, current_position_value>>

----------------------------------------------------------------------------
(* exit_before_entry: the positions are summed again at their last close *)

RevalueOne(key) ==
    /\ pc = "revalue" /\ key \in todo
    /\ invested_value' = invested_value + current_positions[key].quantity
                            * current_positions[key].last_close_price
    /\ todo' = todo \ {key}
    /\ UNCHANGED <<inputs, pc, clock, book, logs, sizing, payout, cursor,
                   margin_available, current_position_value>>

\* The new order value is the plain share: no order_value rule, no multiplier.
EndRevalue ==
    /\ pc = "revalue" /\ todo = {}
    /\ current_position_value' = invested_value
    /\ current_account_value' = margin_available + invested_value
    /\ order_value' = (margin_available + invested_value) \div cfg.max_positions
    /\ pc' = "entries"
    /\ UNCHANGED <<inputs, clock, book, logs, payout, scan, cursor,
                   margin_available>>

----------------------------------------------------------------------------
(* Mark to market, on MTM days only *)

\* Mutant: the value is summed before the close is updated.
MarkOne_Stale(key) ==
    /\ pc = "mark" /\ today \in MtmDays /\ key \in todo
    /\ current_positions' =
        [current_positions EXCEPT ![key].last_close_price = MarkedPrice(key)]
    /\ invested_value' = invested_value + current_positions[key].quantity
                            * current_positions[key].last_close_price
    /\ todo' = todo \ {key}
    /\ UNCHANGED <<inputs, pc, clock, current_positions_count, scheduled, logs,
                   sizing, payout, cursor, margin_available,
                   current_position_value>>

MarkOne(key) ==
    /\ pc = "mark" /\ today \in MtmDays /\ key \in todo
    /\ current_positions' =
        [current_positions EXCEPT ![key].last_close_price = MarkedPrice(key)]
    /\ invested_value' = invested_value
                            + current_positions[key].quantity * MarkedPrice(key)
    /\ todo' = todo \ {key}
    /\ UNCHANGED <<inputs, pc, clock, current_positions_count, scheduled, logs,
                   sizing, payout, cursor, margin_available,
                   current_position_value>>

EndMark ==
    /\ pc = "mark" /\ today \in MtmDays /\ todo = {}
    /\ current_position_value' = invested_value
    /\ current_account_value' = margin_available + invested_value
    /\ day_wise_log' = Append(day_wise_log,
            [log_date_epoch |-> today, invested_value |-> invested_value,
             margin_available |-> margin_available])
    /\ pc' = "day"
    /\ UNCHANGED <<inputs, clock, book, trade_log, missing_avg_txn_log,
                   order_value, payout, scan, cursor, margin_available>>

SkipMark ==
    /\ pc = "mark" /\ today \notin MtmDays
    /\ pc' = "day" /\ todo' = {}
    /\ UNCHANGED <<inputs, clock, book, logs, sizing, payout, invested_value,
                   cursor, margin_available, current_position_value>>

----------------------------------------------------------------------------
(* End of the window: close what is open, write the snapshot back *)

EndDays ==
    /\ pc = "day" /\ dates_left = {}
    /\ pc' = "close"
    /\ current_position_value' = IF Open = {} THEN current_position_value ELSE 0
    /\ UNCHANGED <<inputs, clock, book, logs, sizing, payout, scan, cursor,
                   margin_available>>

CloseOne(key) ==
    /\ pc = "close" /\ key \in Open
    /\ Settle(key, EffectiveEnd, current_positions[key].last_close_price,
              "end_of_sim")
    /\ UNCHANGED <<inputs, pc, clock, scheduled, day_wise_log,
                   missing_avg_txn_log, sizing, payout, scan, cursor,
                   current_position_value>>

Return ==
    /\ pc = "close" /\ Open = {}
    /\ pc' = "idle" /\ simulation_date' = end_epoch
    /\ UNCHANGED <<inputs, calls, end_epoch, dates_left, today, book, logs,
                   sizing, payout, scan, cursor, margin_available,
                   current_position_value>>

----------------------------------------------------------------------------
Call == \E end \in Ends : StartCall(end)
Day == (\E day \in dates_left : BeginDay(day)) \/ PayOut \/ SizeOrders
Entries == \/ \E i \in DOMAIN orders : SkipEntry(i) \/ Enter(i) \/ RaiseDuplicateKey(i)
           \/ EndEntries
Exits == (\E key \in DueExits : Exit(key)) \/ EndExits
Revalue == (\E key \in todo : RevalueOne(key)) \/ EndRevalue
Mark == (\E key \in todo : MarkOne(key)) \/ EndMark \/ SkipMark
Close == EndDays \/ (\E key \in Open : CloseOne(key)) \/ Return

\* The caller makes no further call, or the last one raised.
Finished ==
    /\ pc = "raised" \/ (pc = "idle" /\ (calls = MaxCalls
                                         \/ \A end \in Ends : end < simulation_date))
    /\ UNCHANGED vars

Process == Day \/ Entries \/ Exits \/ Revalue \/ Mark \/ Close
Next == Call \/ Process \/ Finished

\* process() is plain sequential code: once called it keeps taking steps.
Spec == Init /\ [][Next]_vars /\ WF_vars(Process)
----------------------------------------------------------------------------
(* Type invariant and the invariants the proofs are about *)

\* Type invariant: every variable holds what the code's variable may hold.
TypeOK ==
    /\ cfg \in Config
    /\ orders \in OrderLists /\ stats \in StatsChoices
    /\ pc \in {"idle", "day", "payout", "exits", "revalue", "entries", "mark",
               "close", "raised"}
    /\ calls \in Nat /\ end_epoch \in Nat /\ today \in Nat
    /\ simulation_date \in Nat /\ dates_left \subseteq Nat
    /\ margin_available \in Int /\ current_position_value \in Nat
    /\ current_account_value \in Int /\ order_value \in Int
    /\ invested_value \in Nat /\ withdrawn \in Int
    /\ current_positions_count \in Int
    /\ IsFiniteSet(Open) /\ Open \subseteq OrderKey
    /\ \A key \in Open : current_positions[key] \in Position
    /\ scheduled \subseteq OrderKey /\ todo \subseteq Open
    /\ todo # {} => pc \in {"revalue", "mark"}
    /\ next_payout_epoch \in Nat \cup {NoEpoch}
    /\ cursor \in Nat

\* The counter kept apart from current_positions (decremented in two loops,
\* incremented in a third) always equals the number of open positions.
CountMatches == current_positions_count = Cardinality(Open)

\* No sequence of days opens more positions than max_positions, in all, or than
\* max_positions_per_instrument in one instrument.
SlotLimits ==
    /\ Cardinality(Open) <= cfg.max_positions
    /\ \A i \in Instruments :
            Cardinality(OpenIn(i)) <= cfg.max_positions_per_instrument

\* Entries, payouts and the costs of exits never drive the cash below zero.
NeverOverdrawn == margin_available >= 0

\* Every open position is in the "exits" list of its exit day, in whichever
\* call and loop it was opened.
ExitsAreScheduled == pc # "idle" => Open \subseteq scheduled
----------------------------------------------------------------------------
(* The simulator implements the abstract ledger *)

AllKeys ==
    (UNION {{KeyOf(list[i]) : i \in DOMAIN list} : list \in OrderLists})
    \cup (UNION {DOMAIN s.current_positions : s \in Snapshots})

InstrumentOf(key) == key.instrument

Ledger == INSTANCE PositionLedger
            WITH Lots <- AllKeys, InstrumentOf <- InstrumentOf,
                 cash <- margin_available, held <- Open,
                 slots <- cfg.max_positions,
                 slotsPerInstrument <- cfg.max_positions_per_instrument

\* Whatever the days, prices, sizing rules and payouts are, the run is one of the
\* ledger: it buys with cash it has within its limits, sells what it holds, and
\* withdraws no more than the cash.
ImplementsLedger == Ledger!Spec
=============================================================================
