---------------------------- MODULE MCSimulator ----------------------------
(***************************************************************************)
(* Small instances of the simulator for TLC.                               *)
(***************************************************************************)
EXTENDS SimulatorProperties, TLC

Row(instrument, entry, exit, ids, buy, sell) ==
    [instrument |-> instrument, entry_epoch |-> entry, exit_epoch |-> exit,
     entry_config_ids |-> ids, entry_price |-> buy, exit_price |-> sell]

Lists(pool, n) == UNION {[1..k -> pool] : k \in 0..n}

None == [type |-> "none", value |-> 0]
Fixed(value) == [type |-> "fixed", value |-> value]
Percent(of, value) == [type |-> "percentage_of_" \o of, value |-> value]
NoPayOut == [type |-> "none", value |-> 0, withdrawal_lockup_days |-> 0,
             payout_interval_days |-> 0]

Plain == [max_positions |-> 2, max_positions_per_instrument |-> 1,
          exit_before_entry |-> FALSE, order_value |-> None,
          order_value_multiplier |-> 1, max_order_value |-> None,
          missing_avg_txn_policy |-> "no_cap", pay_out |-> NoPayOut]

ExitFirst(configs) ==
    configs \cup {[c EXCEPT !.exit_before_entry = TRUE] : c \in configs}

\* Closes and average transactions per day for the two instruments.
Bars(x, y, avg) ==
    [i \in {"X", "Y"} |-> [close |-> IF i = "X" THEN x ELSE y, avg_txn |-> avg]]

\* ---- trading: tiers, same-day rows, a straddling row, two calls
TradePool == {Row("X", 0, 2, "1", 13, 15), Row("X", 0, 2, "1_t1", 13, 15),
              Row("X", 2, 3, "1", 14, 11), Row("Y", 1, 1, "1", 7, 7),
              Row("Y", 1, 9, "1", 7, 9)}
TradeLists == Lists(TradePool, 3)
TradeConfigs ==
    ExitFirst({Plain, [Plain EXCEPT !.max_positions_per_instrument = 2,
                                    !.order_value = Fixed(30)]})
TradeStats == {(0 :> Bars(13, 7, 90)) @@ (1 :> Bars(15, 7, 90))
                @@ (2 :> Bars(14, 6, 90)) @@ (3 :> Bars(11, Missing, 90))}

\* A snapshot holding one position, due inside the window.
CarriedSnapshots ==
    {[margin_available |-> 60, current_position_value |-> 39,
      simulation_date |-> 1, next_payout_epoch |-> NoEpoch,
      current_positions |->
        (KeyOf(Row("X", 0, 2, "1", 13, 15)) :>
            [quantity |-> 3, entry_price |-> 13, exit_price |-> 15,
             last_close_price |-> 13, entry_costs |-> 1])]}

\* ---- payouts: due before the start, several in a gap between days, more than
\* the cash there is; a day with orders and no bars
PayPool == {Row("X", 0, 3, "1", 13, 15), Row("Y", 1, 2, "1", 7, 0),
            Row("Y", 3, 9, "1", 7, 9)}
PayLists == Lists(PayPool, 2)
Pays(type, value, lockup, interval) ==
    [type |-> type, value |-> value, withdrawal_lockup_days |-> lockup,
     payout_interval_days |-> interval]
PayConfigs ==
    ExitFirst({[Plain EXCEPT !.pay_out = p] :
        p \in {Pays("fixed", 15, 3, 1), Pays("fixed", 40, 1, 2),
               Pays("percentage", 25, 0, 1), Pays("fixed", 10, 0, 0)}})
PayStats == {(0 :> Bars(13, 7, 90)) @@ (3 :> Bars(11, Missing, 90))
                @@ (5 :> Bars(0, 6, 90))}
PaySnapshots ==
    {[margin_available |-> 100, current_position_value |-> 0,
      simulation_date |-> 3, next_payout_epoch |-> 1,
      current_positions |-> [key \in {} |-> {}]]}

\* ---- sizing rules and caps
CapPool == {Row("X", 0, 2, "1", 5, 15), Row("Y", 0, 2, "1", 3, 0),
            Row("Y", 2, 9, "1", 4, 9), Row("X", 1, 2, "1", 5, 6)}
CapLists == Lists(CapPool, 2)
Rules == {None, Fixed(30), Percent("account_value", 40),
          Percent("available_margin", 30)}
Caps == {[policy |-> "no_cap", rule |-> r] : r \in Rules}
        \cup [policy : {"no_cap", "skip"}, rule : {Percent("instrument_avg_txn", 20)}]
CapConfigs ==
    ExitFirst({[Plain EXCEPT !.order_value = base, !.max_order_value = cap.rule,
                             !.missing_avg_txn_policy = cap.policy,
                             !.order_value_multiplier = scale] :
                    base \in Rules, cap \in Caps, scale \in {1, 2}})
CapStats == {(0 :> Bars(5, 3, 120)) @@ (2 :> Bars(6, 4, Missing))}

\* ---- what goes together: TLC takes each scenario's own choices
Scenario(configs, lists, table, snapshots) ==
    [configs |-> configs, lists |-> lists, table |-> table, snapshots |-> snapshots]

Scenarios == {Scenario(TradeConfigs, TradeLists, TradeStats, CarriedSnapshots),
              Scenario(PayConfigs, PayLists, PayStats, PaySnapshots),
              Scenario(CapConfigs, CapLists, CapStats, {})}

MCConfigs == UNION {s.configs : s \in Scenarios}
MCLists == UNION {s.lists : s \in Scenarios}
MCStats == UNION {s.table : s \in Scenarios}
MCSnapshots == UNION {s.snapshots : s \in Scenarios}

MCInit ==
    \E s \in Scenarios :
        /\ cfg \in s.configs /\ orders \in s.lists /\ stats \in s.table
        /\ Init
        /\ opening \in s.snapshots \/ opening = FreshSnapshot

MCSpec == MCInit /\ [][Next]_vars /\ WF_vars(Process)
=============================================================================
