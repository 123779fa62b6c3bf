--------------------------- MODULE Simulator_proofs ---------------------------
(***************************************************************************)
(* Proofs about the simulator, for every choice of its constants: types,   *)
(* limits, cash and the refinement of the ledger; then the properties that *)
(* relate several days or calls, or that sum over positions and trades.    *)
(***************************************************************************)
EXTENDS SimulatorProperties, SumLemmas

(* Arithmetic *)

\* The quotient int() takes of a money amount is an integer.
LEMMA DivisionType ==
    ASSUME NEW a \in Int, NEW b \in Nat \ {0}
    PROVE  a \div b \in Int
  OBVIOUS

\* The quotient int() takes of a non-negative amount is non-negative.
LEMMA DivisionNat ==
    ASSUME NEW a \in Nat, NEW b \in Nat \ {0}
    PROVE  a \div b \in Nat
  OBVIOUS

\* A price times a quantity is non-negative.
LEMMA ProductNat ==
    ASSUME NEW a \in Nat, NEW b \in Nat
    PROVE  a * b \in Nat
  OBVIOUS

\* A price times a positive quantity is positive: an entry costs cash.
LEMMA ProductPositive ==
    ASSUME NEW a \in Nat, NEW b \in Nat, a > 0, b > 0
    PROVE  a * b > 0
  OBVIOUS

\* A percentage up to 100 of an amount is at most the amount: the charges
\* of a sale never exceed what it yields (SellRate in _process_exits).
LEMMA ShareAtMost ==
    ASSUME NEW n \in Nat, NEW rate \in 0..100
    PROVE  /\ (n * rate) \div 100 \in Nat
           /\ (n * rate) \div 100 <= n
<1>1. n * rate \in Nat /\ n * rate <= n * 100
  OBVIOUS
<1> QED BY <1>1
----------------------------------------------------------------------------
(* What the helper operators return *)

\* A row of df_orders is an Order (the ranked orders process() is given).
LEMMA RowType ==
    ASSUME TypeOK, NEW i \in DOMAIN orders
    PROVE  orders[i] \in Order
  BY OrderAssumption DEF TypeOK

\* What the stats of an MTM day say of an instrument is a Bar.
LEMMA BarType ==
    ASSUME TypeOK, NEW day \in MtmDays, NEW instrument \in Instruments
    PROVE  /\ stats[day][instrument] \in Bar
           /\ day \in Nat
  BY StatsAssumption DEF TypeOK, MtmDays

\* An order_value or max_order_value rule yields an integer.
LEMMA RuleValueType ==
    ASSUME NEW rule \in Rule, NEW scale \in Nat, NEW account \in Int,
           NEW margin \in Int, NEW default \in Int
    PROVE  RuleValue(rule, scale, account, margin, default) \in Int
<1>1. /\ rule.value \in Nat
      /\ scale * rule.value \in Int
      /\ scale * account * rule.value \in Int
      /\ scale * margin * rule.value \in Int
  BY DEF Rule
<1>2. /\ (scale * account * rule.value) \div 100 \in Int
      /\ (scale * margin * rule.value) \div 100 \in Int
  BY <1>1
<1> QED BY <1>1, <1>2 DEF RuleValue

\* The day's order_value is an integer.
LEMMA BaseOrderValueType ==
    ASSUME TypeOK, NEW account \in Int, NEW margin \in Int
    PROVE  BaseOrderValue(account, margin) \in Int
<1>1. /\ cfg.order_value \in Rule /\ cfg.order_value_multiplier \in Nat
      /\ cfg.max_positions \in Nat \ {0}
  BY DEF TypeOK, Config
<1>2. cfg.order_value_multiplier * account \in Int
  BY <1>1
<1>3. (cfg.order_value_multiplier * account) \div cfg.max_positions \in Int
  BY <1>1, <1>2, DivisionType
<1> QED BY <1>1, <1>3, RuleValueType DEF BaseOrderValue

\* The quantity _process_entries orders is an integer.
LEMMA QuantityType ==
    ASSUME TypeOK, NEW i \in DOMAIN orders
    PROVE  Quantity(orders[i]) \in Int
<1> DEFINE row == orders[i]
<1>1. row \in Order
  BY RowType
<1>2. /\ row.entry_price \in Nat \ {0} /\ row.instrument \in Instruments
      /\ cfg.max_order_value \in Rule /\ cfg.max_order_value.value \in Nat
      /\ current_account_value \in Int /\ order_value \in Int
      /\ margin_available \in Int
  BY <1>1 DEF TypeOK, Order, Config, Rule
<1>3. AvgTxn(row.instrument) \in Nat \cup {Missing}
  BY <1>2, BarType DEF AvgTxn, Bar
<1>4. RuleValue(cfg.max_order_value, 1, current_account_value,
                margin_available, order_value) \in Int
  BY <1>2, RuleValueType
<1>5. CappedOrderValue(row) \in Int
  <2>1. CASE cfg.max_order_value.type # "percentage_of_instrument_avg_txn"
    BY <2>1, <1>2, <1>4 DEF CappedOrderValue, Least
  <2>2. CASE CapIsUnknown(row)
    BY <2>2, <1>2 DEF CappedOrderValue, CapIsUnknown
  <2>3. CASE /\ cfg.max_order_value.type = "percentage_of_instrument_avg_txn"
             /\ ~CapIsUnknown(row)
    <3>1. AvgTxn(row.instrument) \in Nat
      BY <2>3, <1>3 DEF CapIsUnknown
    <3>2. AvgTxn(row.instrument) * cfg.max_order_value.value \in Nat
      BY <3>1, <1>2, ProductNat
    <3>3. (AvgTxn(row.instrument) * cfg.max_order_value.value) \div 100 \in Int
      BY <3>2, DivisionType
    <3> QED BY <2>3, <3>3, <1>2 DEF CappedOrderValue, Least
  <2> QED BY <2>1, <2>2, <2>3
<1> QED BY <1>2, <1>5, DivisionType DEF Quantity

\* The notional of an affordable entry is non-negative and its required
\* margin is within the cash (the guards of _process_entries).
LEMMA EntryAmounts ==
    ASSUME TypeOK, NEW i \in DOMAIN orders, Affordable(orders[i])
    PROVE  /\ Quantity(orders[i]) \in Nat \ {0}
           /\ BuyCosts(Notional(orders[i])) \in Nat
           /\ RequiredMargin(orders[i]) \in Nat
           /\ RequiredMargin(orders[i]) > 0
           /\ RequiredMargin(orders[i]) <= margin_available
<1> DEFINE row == orders[i]
<1>1. row.entry_price \in Nat /\ row.entry_price > 0
  BY RowType DEF Order
<1>2. Quantity(row) \in Nat /\ Quantity(row) > 0
  BY QuantityType DEF Affordable
<1>3. Notional(row) \in Nat /\ Notional(row) > 0
  BY <1>1, <1>2, ProductNat, ProductPositive DEF Notional
<1>4. BuyCosts(Notional(row)) \in Nat
  <2>1. Notional(row) * BuyRate \in Nat
    BY <1>3, ProductNat, NumberAssumption
  <2> QED BY <2>1, DivisionNat DEF BuyCosts
<1>5. margin_available \in Int
  BY DEF TypeOK
<1> QED BY <1>2, <1>3, <1>4, <1>5 DEF RequiredMargin, Affordable

\* What a sale adds to the margin in _process_exits is non-negative.
LEMMA ProceedsType ==
    ASSUME NEW position \in Position, NEW price \in Nat
    PROVE  Proceeds(position, price) \in Nat
<1>1. position.quantity * price \in Nat
  BY ProductNat DEF Position
<1>2. /\ SellCosts(position.quantity * price) \in Nat
      /\ SellCosts(position.quantity * price) <= position.quantity * price
  BY <1>1, ShareAtMost, NumberAssumption DEF SellCosts
<1> QED BY <1>1, <1>2 DEF Proceeds

\* The price a position is marked at is non-negative.
LEMMA MarkedPriceType ==
    ASSUME TypeOK, today \in MtmDays, NEW key \in Open
    PROVE  MarkedPrice(key) \in Nat
<1>1. /\ key.instrument \in Instruments
      /\ current_positions[key].last_close_price \in Nat
  BY DEF TypeOK, OrderKey, Position
<1>2. stats[today][key.instrument] \in Bar
  BY <1>1, BarType
<1> QED BY <1>1, <1>2 DEF MarkedPrice, Bar

\* A payout takes between nothing and the margin.
LEMMA WithdrawalType ==
    ASSUME TypeOK, NeverOverdrawn
    PROVE  LET account == current_position_value + margin_available
           IN /\ Withdrawal(account) \in Nat
              /\ Withdrawal(account) <= margin_available
<1> DEFINE account == current_position_value + margin_available
<1>1. account \in Nat /\ margin_available \in Nat
  BY DEF TypeOK, NeverOverdrawn
<1>2. cfg.pay_out.value \in Nat
  BY DEF TypeOK, Config, PayOutRule
<1>3. cfg.pay_out.value * account \in Nat
  BY <1>1, <1>2, ProductNat
<1>4. PayOutSum(account) \in Nat
  BY <1>2, <1>3, DivisionNat DEF PayOutSum
<1> QED BY <1>1, <1>4 DEF Withdrawal, Least
----------------------------------------------------------------------------
(* The inductive invariant *)

IInv == /\ TypeOK
        /\ CountMatches
        /\ SlotLimits
        /\ NeverOverdrawn
        /\ ExitsAreScheduled

\* What IInv says of the positions and the money, without the other variables.
BookInv == /\ IsFiniteSet(Open) /\ Open \subseteq OrderKey
           /\ \A key \in Open : current_positions[key] \in Position
           /\ current_positions_count \in Int
           /\ CountMatches /\ SlotLimits
           /\ margin_available \in Int /\ NeverOverdrawn

\* Selling one open position at any price keeps the book in order.
LEMMA SettleKeepsBook ==
    ASSUME IInv, NEW key \in Open, NEW exit, NEW price \in Nat, NEW reason,
           Settle(key, exit, price, reason), UNCHANGED cfg
    PROVE  BookInv' /\ Open' = Open \ {key}
<1>1. /\ Open' = Open \ {key}
      /\ \A other \in Open' : current_positions'[other] = current_positions[other]
  BY DEF Settle, Without, Open
<1>2. /\ IsFiniteSet(Open) /\ Open \subseteq OrderKey
      /\ \A other \in Open : current_positions[other] \in Position
      /\ current_positions_count = Cardinality(Open)
      /\ cfg.max_positions \in Nat /\ cfg.max_positions_per_instrument \in Nat
      /\ margin_available \in Nat
  BY DEF IInv, TypeOK, CountMatches, NeverOverdrawn, Config
<1>3. /\ IsFiniteSet(Open') /\ Cardinality(Open) \in Nat
      /\ Cardinality(Open') = Cardinality(Open) - 1
  BY <1>1, <1>2, FS_RemoveElement, FS_CardinalityType
<1>4. Proceeds(current_positions[key], price) \in Nat
  BY <1>2, ProceedsType
<1>5. current_positions_count' = current_positions_count - 1
      /\ margin_available' = margin_available + Proceeds(current_positions[key], price)
  BY DEF Settle
<1>6. SlotLimits'
  <2>1. Cardinality(Open') <= cfg.max_positions
    BY <1>2, <1>3 DEF IInv, SlotLimits
  <2>2. ASSUME NEW i \in Instruments
        PROVE  Cardinality(OpenIn(i)') <= cfg.max_positions_per_instrument
    <3>1. OpenIn(i)' \in SUBSET OpenIn(i) /\ OpenIn(i) \in SUBSET Open
      BY <1>1 DEF OpenIn
    <3>2. IsFiniteSet(OpenIn(i)) /\ IsFiniteSet(OpenIn(i)')
      BY <3>1, <1>2, FS_Subset
    <3>3. /\ Cardinality(OpenIn(i)') <= Cardinality(OpenIn(i))
          /\ Cardinality(OpenIn(i)) \in Nat /\ Cardinality(OpenIn(i)') \in Nat
      BY <3>1, <3>2, FS_Subset, FS_CardinalityType
    <3> QED BY <3>3, <1>2 DEF IInv, SlotLimits
  <2> QED BY <2>1, <2>2 DEF SlotLimits
<1> QED BY <1>1, <1>2, <1>3, <1>4, <1>5, <1>6
        DEF BookInv, CountMatches, NeverOverdrawn

\* Entering a row that passed the checks of the entry loop does as well.
LEMMA EnterKeepsBook ==
    ASSUME IInv, NEW i \in DOMAIN orders, Enter(i)
    PROVE  /\ BookInv' /\ Open' = Open \cup {KeyOf(orders[i])}
           /\ KeyOf(orders[i]) \in OrderKey
<1> DEFINE row == orders[i]
           new == KeyOf(orders[i])
<1>1. row \in Order /\ new \in OrderKey /\ row.instrument \in Instruments
      /\ new.instrument = row.instrument
  BY RowType DEF IInv, KeyOf, Order, OrderKey
<1>2. /\ IsFiniteSet(Open) /\ Open \subseteq OrderKey
      /\ \A other \in Open : current_positions[other] \in Position
      /\ current_positions_count = Cardinality(Open)
      /\ cfg.max_positions \in Nat /\ cfg.max_positions_per_instrument \in Nat
      /\ margin_available \in Nat
  BY DEF IInv, TypeOK, CountMatches, NeverOverdrawn, Config
<1>3. Affordable(row) /\ new \notin Open /\ ~SlotsFull /\ ~InstrumentFull(row)
      /\ cfg' = cfg
  BY DEF Enter, inputs
<1>4. /\ Quantity(row) \in Nat \ {0} /\ BuyCosts(Notional(row)) \in Nat
      /\ RequiredMargin(row) \in Nat /\ RequiredMargin(row) <= margin_available
  BY <1>3, EntryAmounts DEF IInv
<1>5. Open' = Open \cup {new}
  BY DEF Enter, Open
<1>6. \A other \in Open' : current_positions'[other] \in Position
  BY <1>1, <1>2, <1>4, <1>5 DEF Enter, Open, Position, Order
<1>7. /\ IsFiniteSet(Open') /\ Cardinality(Open) \in Nat
      /\ Cardinality(Open') = Cardinality(Open) + 1
  BY <1>2, <1>3, <1>5, FS_AddElement, FS_CardinalityType
<1>8. /\ current_positions_count' = current_positions_count + 1
      /\ margin_available' = margin_available - RequiredMargin(row)
  BY DEF Enter
<1>9. SlotLimits'
  <2>1. Cardinality(Open') <= cfg.max_positions
    BY <1>2, <1>3, <1>7 DEF SlotsFull
  <2>2. ASSUME NEW instrument \in Instruments
        PROVE  Cardinality(OpenIn(instrument)') <= cfg.max_positions_per_instrument
    <3>1. IsFiniteSet(OpenIn(instrument)) /\ Cardinality(OpenIn(instrument)) \in Nat
      <4>1. OpenIn(instrument) \in SUBSET Open
        BY DEF OpenIn
      <4> QED BY <4>1, <1>2, FS_Subset, FS_CardinalityType
    <3>2. CASE instrument # row.instrument
      <4>1. OpenIn(instrument)' = OpenIn(instrument)
        BY <3>2, <1>1, <1>5 DEF OpenIn
      <4> QED BY <4>1 DEF IInv, SlotLimits
    <3>3. CASE instrument = row.instrument
      <4>1. OpenIn(instrument)' = OpenIn(instrument) \cup {new}
            /\ new \notin OpenIn(instrument)
        BY <3>3, <1>1, <1>3, <1>5 DEF OpenIn
      <4>2. Cardinality(OpenIn(instrument)') = Cardinality(OpenIn(instrument)) + 1
        BY <4>1, <3>1, FS_AddElement
      <4> QED BY <4>2, <3>1, <3>3, <1>2, <1>3 DEF InstrumentFull
    <3> QED BY <3>2, <3>3
  <2> QED BY <2>1, <2>2, <1>3 DEF SlotLimits
<1> QED BY <1>1, <1>2, <1>4, <1>5, <1>6, <1>7, <1>8, <1>9
        DEF BookInv, CountMatches, NeverOverdrawn
----------------------------------------------------------------------------
(* Init, and one lemma per part of the next-state relation *)

\* The inductive invariant holds of the fresh and of every given snapshot.
LEMMA InitEstablishesIInv == Init => IInv
<1> SUFFICES ASSUME Init PROVE IInv
  OBVIOUS
<1>1. cfg \in Config
  BY ConfigAssumption DEF Init
<1>2. /\ opening.margin_available \in Nat
      /\ opening.current_position_value \in Nat
      /\ opening.simulation_date \in Nat
      /\ opening.next_payout_epoch \in Nat \cup {NoEpoch}
      /\ IsFiniteSet(DOMAIN opening.current_positions)
      /\ DOMAIN opening.current_positions \subseteq OrderKey
      /\ \A key \in DOMAIN opening.current_positions :
            opening.current_positions[key] \in Position
      /\ Fits(opening)
  <2>1. CASE opening = FreshSnapshot
    <3>1. /\ cfg.pay_out.withdrawal_lockup_days \in Nat
          /\ cfg.pay_out.payout_interval_days \in Nat
          /\ cfg.max_positions \in Nat /\ cfg.max_positions_per_instrument \in Nat
      BY <1>1 DEF Config, PayOutRule
    <3>2. DOMAIN opening.current_positions = {}
      BY <2>1 DEF FreshSnapshot
    <3>3. Fits(opening)
      <4>1. \A i \in Instruments :
                {key \in DOMAIN opening.current_positions : key.instrument = i} = {}
        BY <3>2
      <4> QED BY <3>1, <3>2, <4>1, FS_EmptySet DEF Fits
    <3>4. opening.next_payout_epoch \in Nat \cup {NoEpoch}
      BY <2>1, <3>1, NumberAssumption DEF FreshSnapshot, Least, NoEpoch
    <3> QED BY <2>1, <3>2, <3>3, <3>4, FS_EmptySet, NumberAssumption
            DEF FreshSnapshot
  <2>2. CASE opening \in {s \in Snapshots : Fits(s)}
    BY <2>2, SnapshotAssumption
  <2> QED BY <2>1, <2>2 DEF Init
<1>3. Cardinality(DOMAIN opening.current_positions) \in Nat
  BY <1>2, FS_CardinalityType
<1>4. TypeOK
  BY <1>1, <1>2, <1>3, NumberAssumption DEF Init, TypeOK, Open
<1>5. CountMatches /\ NeverOverdrawn
  BY <1>2 DEF Init, CountMatches, NeverOverdrawn, Open
<1>6. SlotLimits
  BY <1>2 DEF Init, SlotLimits, OpenIn, Open, Fits
<1>7. ExitsAreScheduled
  BY DEF Init, ExitsAreScheduled
<1> QED BY <1>4, <1>5, <1>6, <1>7 DEF IInv

\* A step that leaves the positions, the count and the configuration alone, and
\* the margin non-negative, keeps the parts of IInv about them.
LEMMA SameBook ==
    ASSUME IInv, UNCHANGED <<cfg, current_positions, current_positions_count>>
    PROVE  Open' = Open /\ CountMatches' /\ SlotLimits'
  BY DEF IInv, CountMatches, SlotLimits, OpenIn, Open

\* Starting a call (process() unpacking the snapshot) keeps it.
LEMMA CallKeepsIInv ==
    ASSUME IInv, Call PROVE IInv'
<1> PICK end \in Ends : StartCall(end)
  BY DEF Call
<1> USE DEF StartCall, inputs, logs, sizing, payout, scan
<1>1. Open' = Open /\ CountMatches' /\ SlotLimits'
  BY SameBook
<1>2. ProcessingDates(end) \subseteq Nat
  <2>1. \A i \in DOMAIN orders : orders[i].entry_epoch \in Nat /\ orders[i].exit_epoch \in Nat
    BY RowType DEF IInv, Order
  <2>2. \A key \in Open : key.exit_epoch \in Nat
    BY DEF IInv, TypeOK, OrderKey
  <2>3. MtmDays \subseteq Nat
    BY StatsAssumption DEF IInv, TypeOK, MtmDays
  <2> QED BY <2>1, <2>2, <2>3 DEF ProcessingDates
<1>3. end \in Nat
  BY NumberAssumption
<1>4. TypeOK'
  BY <1>1, <1>2, <1>3 DEF IInv, TypeOK, CarriedExits
<1>5. NeverOverdrawn' /\ ExitsAreScheduled'
  BY <1>1 DEF IInv, NeverOverdrawn, ExitsAreScheduled, CarriedExits
<1> QED BY <1>1, <1>4, <1>5 DEF IInv

\* The start of a day, its payouts and the sizing of its orders keep it.
LEMMA DayKeepsIInv ==
    ASSUME IInv, Day PROVE IInv'
<1> USE DEF inputs, clock, book, logs, sizing, payout, scan
<1>1. CASE \E day \in dates_left : BeginDay(day)
  <2>1. PICK day \in dates_left : BeginDay(day)
    BY <1>1
  <2>2. Open' = Open /\ CountMatches' /\ SlotLimits'
    BY <2>1, SameBook DEF BeginDay
  <2>3. TypeOK'
    BY <2>1, <2>2 DEF BeginDay, IInv, TypeOK
  <2> QED BY <2>1, <2>2, <2>3 DEF BeginDay, IInv, NeverOverdrawn, ExitsAreScheduled
<1>2. CASE PayOut
  <2> DEFINE account == current_position_value + margin_available
  <2>1. Open' = Open /\ CountMatches' /\ SlotLimits'
    BY <1>2, SameBook DEF PayOut
  <2>2. Withdrawal(account) \in Nat /\ Withdrawal(account) <= margin_available
    BY WithdrawalType DEF IInv
  <2>3. next_payout_epoch' \in Nat
    <3>1. next_payout_epoch \in Nat
      BY <1>2 DEF PayOut, PayOutIsDue, IInv, TypeOK
    <3>2. cfg.pay_out.payout_interval_days \in Nat
      BY DEF IInv, TypeOK, Config, PayOutRule
    <3> QED BY <1>2, <3>1, <3>2 DEF PayOut
  <2>4. /\ margin_available' = margin_available - Withdrawal(account)
        /\ withdrawn' = withdrawn + Withdrawal(account)
        /\ current_account_value' = account
    BY <1>2 DEF PayOut
  <2>5. TypeOK'
    BY <1>2, <2>1, <2>2, <2>3, <2>4 DEF PayOut, IInv, TypeOK
  <2>6. NeverOverdrawn'
    BY <2>2, <2>4 DEF IInv, TypeOK, NeverOverdrawn
  <2> QED BY <1>2, <2>1, <2>5, <2>6 DEF PayOut, IInv, ExitsAreScheduled
<1>3. CASE SizeOrders
  <2>1. Open' = Open /\ CountMatches' /\ SlotLimits'
    BY <1>3, SameBook DEF SizeOrders
  <2>2. order_value' \in Int
    BY <1>3, BaseOrderValueType DEF SizeOrders, IInv, TypeOK
  <2>3. /\ pc' \in {"mark", "exits", "entries"}
        /\ ~HasOrdersToday => pc' = "mark"
    BY <1>3 DEF SizeOrders, FirstPhase
  <2>4. TypeOK'
    BY <1>3, <2>1, <2>2, <2>3 DEF SizeOrders, IInv, TypeOK
  <2>5. ExitsAreScheduled'
    BY <1>3, <2>1 DEF SizeOrders, IInv, ExitsAreScheduled
  <2> QED BY <1>3, <2>1, <2>4, <2>5 DEF SizeOrders, IInv, NeverOverdrawn
<1> QED BY <1>1, <1>2, <1>3 DEF Day

\* _process_entries keeps it: skipped, entered or refused rows.
LEMMA EntriesKeepIInv ==
    ASSUME IInv, Entries PROVE IInv'
<1> USE DEF inputs, clock, book, logs, sizing, payout, scan
<1>1. CASE \E i \in DOMAIN orders : SkipEntry(i) \/ RaiseDuplicateKey(i)
  <2>1. PICK i \in DOMAIN orders : SkipEntry(i) \/ RaiseDuplicateKey(i)
    BY <1>1
  <2>2. Open' = Open /\ CountMatches' /\ SlotLimits'
    BY <2>1, SameBook DEF SkipEntry, RaiseDuplicateKey
  <2>3. i \in Nat
    BY OrderAssumption DEF IInv, TypeOK
  <2>4. TypeOK'
    BY <2>1, <2>2, <2>3 DEF SkipEntry, RaiseDuplicateKey, IInv, TypeOK
  <2> QED BY <2>1, <2>2, <2>4
          DEF SkipEntry, RaiseDuplicateKey, IInv, NeverOverdrawn, ExitsAreScheduled
<1>2. CASE \E i \in DOMAIN orders : Enter(i)
  <2>1. PICK i \in DOMAIN orders : Enter(i)
    BY <1>2
  <2>2. /\ BookInv' /\ Open' = Open \cup {KeyOf(orders[i])}
        /\ KeyOf(orders[i]) \in OrderKey
    BY <2>1, EnterKeepsBook
  <2>3. i \in Nat
    BY OrderAssumption DEF IInv, TypeOK
  <2>4. TypeOK'
    BY <2>1, <2>2, <2>3 DEF Enter, IInv, TypeOK, BookInv
  <2>5. ExitsAreScheduled'
    BY <2>1, <2>2 DEF Enter, IInv, ExitsAreScheduled
  <2> QED BY <2>2, <2>4, <2>5 DEF IInv, BookInv
<1>3. CASE EndEntries
  <2>1. Open' = Open /\ CountMatches' /\ SlotLimits'
    BY <1>3, SameBook DEF EndEntries
  <2>2. TypeOK'
    BY <1>3, <2>1 DEF EndEntries, IInv, TypeOK
  <2> QED BY <1>3, <2>1, <2>2
          DEF EndEntries, IInv, NeverOverdrawn, ExitsAreScheduled
<1> QED BY <1>1, <1>2, <1>3 DEF Entries
\* _process_exits keeps it.
LEMMA ExitsKeepIInv ==
    ASSUME IInv, Exits PROVE IInv'
<1> USE DEF inputs, clock, book, logs, sizing, payout, scan
<1>1. CASE \E key \in DueExits : Exit(key)
  <2>1. PICK key \in DueExits : Exit(key)
    BY <1>1
  <2>2. key \in Open
    BY DEF DueExits
  <2>3. current_positions[key].exit_price \in Nat
    BY <2>2 DEF IInv, TypeOK, Position
  <2>4. BookInv' /\ Open' = Open \ {key}
    BY <2>1, <2>2, <2>3, SettleKeepsBook DEF Exit
  <2>5. todo = {} /\ todo' = {}
    BY <2>1 DEF Exit, IInv, TypeOK
  <2>6. TypeOK'
    BY <2>1, <2>4, <2>5 DEF Exit, Settle, IInv, TypeOK, BookInv
  <2>7. ExitsAreScheduled'
    BY <2>1, <2>4 DEF Exit, IInv, ExitsAreScheduled
  <2> QED BY <2>4, <2>6, <2>7 DEF IInv, BookInv
<1>2. CASE EndExits
  <2>1. Open' = Open /\ CountMatches' /\ SlotLimits'
    BY <1>2, SameBook DEF EndExits
  <2>2. TypeOK'
    BY <1>2, <2>1 DEF EndExits, IInv, TypeOK
  <2> QED BY <1>2, <2>1, <2>2
          DEF EndExits, IInv, NeverOverdrawn, ExitsAreScheduled
<1> QED BY <1>1, <1>2 DEF Exits

\* The recomputation of the order value under exit_before_entry keeps it.
LEMMA RevalueKeepsIInv ==
    ASSUME IInv, Revalue PROVE IInv'
<1> USE DEF inputs, clock, book, logs, sizing, payout, scan
<1>1. CASE \E key \in todo : RevalueOne(key)
  <2>1. PICK key \in todo : RevalueOne(key)
    BY <1>1
  <2>2. Open' = Open /\ CountMatches' /\ SlotLimits'
    BY <2>1, SameBook DEF RevalueOne
  <2>3. current_positions[key].quantity * current_positions[key].last_close_price \in Nat
    <3>1. current_positions[key] \in Position
      BY <2>1 DEF IInv, TypeOK
    <3> QED BY <3>1, ProductNat DEF Position
  <2>4. invested_value' \in Nat
    BY <2>1, <2>3 DEF RevalueOne, IInv, TypeOK
  <2>5. TypeOK'
    BY <2>1, <2>2, <2>4 DEF RevalueOne, IInv, TypeOK
  <2> QED BY <2>1, <2>2, <2>5
          DEF RevalueOne, IInv, NeverOverdrawn, ExitsAreScheduled
<1>2. CASE EndRevalue
  <2>1. Open' = Open /\ CountMatches' /\ SlotLimits'
    BY <1>2, SameBook DEF EndRevalue
  <2>2. order_value' \in Int
    <3>1. cfg.max_positions \in Nat \ {0} /\ margin_available + invested_value \in Int
      BY DEF IInv, TypeOK, Config
    <3> QED BY <1>2, <3>1, DivisionType DEF EndRevalue
  <2>3. TypeOK'
    BY <1>2, <2>1, <2>2 DEF EndRevalue, IInv, TypeOK
  <2> QED BY <1>2, <2>1, <2>3
          DEF EndRevalue, IInv, NeverOverdrawn, ExitsAreScheduled
<1> QED BY <1>1, <1>2 DEF Revalue

\* The daily MTM loop keeps it.
LEMMA MarkKeepsIInv ==
    ASSUME IInv, Mark PROVE IInv'
<1> USE DEF inputs, clock, book, logs, sizing, payout, scan
<1>1. CASE \E key \in todo : MarkOne(key)
  <2>1. PICK key \in todo : MarkOne(key)
    BY <1>1
  <2>2. key \in Open /\ today \in MtmDays /\ current_positions[key] \in Position
    BY <2>1 DEF MarkOne, IInv, TypeOK
  <2>3. MarkedPrice(key) \in Nat
    BY <2>2, MarkedPriceType DEF IInv
  <2>4. Open' = Open
    BY <2>1 DEF MarkOne, Open
  <2>5. \A other \in Open : current_positions'[other] \in Position
    BY <2>1, <2>2, <2>3 DEF MarkOne, Open, Position, IInv, TypeOK
  <2>6. current_positions[key].quantity * MarkedPrice(key) \in Nat
    BY <2>2, <2>3, ProductNat DEF Position
  <2>7. invested_value' \in Nat
    BY <2>1, <2>6 DEF MarkOne, IInv, TypeOK
  <2>8. TypeOK'
    BY <2>1, <2>4, <2>5, <2>7 DEF MarkOne, IInv, TypeOK
  <2>9. CountMatches' /\ SlotLimits'
    BY <2>1, <2>4 DEF MarkOne, IInv, CountMatches, SlotLimits, OpenIn
  <2> QED BY <2>1, <2>4, <2>8, <2>9
          DEF MarkOne, IInv, NeverOverdrawn, ExitsAreScheduled
<1>2. CASE EndMark
  <2>1. Open' = Open /\ CountMatches' /\ SlotLimits'
    BY <1>2, SameBook DEF EndMark
  <2>2. TypeOK'
    BY <1>2, <2>1 DEF EndMark, IInv, TypeOK
  <2> QED BY <1>2, <2>1, <2>2
          DEF EndMark, IInv, NeverOverdrawn, ExitsAreScheduled
<1>3. CASE SkipMark
  <2>1. Open' = Open /\ CountMatches' /\ SlotLimits'
    BY <1>3, SameBook DEF SkipMark
  <2>2. TypeOK'
    BY <1>3, <2>1 DEF SkipMark, IInv, TypeOK
  <2> QED BY <1>3, <2>1, <2>2
          DEF SkipMark, IInv, NeverOverdrawn, ExitsAreScheduled
<1> QED BY <1>1, <1>2, <1>3 DEF Mark

\* The forced closes at the end of the window and the return keep it.
LEMMA CloseKeepsIInv ==
    ASSUME IInv, Close PROVE IInv'
<1> USE DEF inputs, clock, book, logs, sizing, payout, scan
<1>1. CASE EndDays
  <2>1. Open' = Open /\ CountMatches' /\ SlotLimits'
    BY <1>1, SameBook DEF EndDays
  <2>2. TypeOK'
    BY <1>1, <2>1 DEF EndDays, IInv, TypeOK
  <2> QED BY <1>1, <2>1, <2>2
          DEF EndDays, IInv, NeverOverdrawn, ExitsAreScheduled
<1>3. CASE Return
  <2>1. Open' = Open /\ CountMatches' /\ SlotLimits'
    BY <1>3, SameBook DEF Return
  <2>2. TypeOK'
    BY <1>3, <2>1 DEF Return, IInv, TypeOK
  <2> QED BY <1>3, <2>1, <2>2
          DEF Return, IInv, NeverOverdrawn, ExitsAreScheduled
<1>2. CASE \E key \in Open : CloseOne(key)
  <2>1. PICK key \in Open : CloseOne(key)
    BY <1>2
  <2>2. current_positions[key].last_close_price \in Nat
    BY DEF IInv, TypeOK, Position
  <2>3. BookInv' /\ Open' = Open \ {key}
    BY <2>1, <2>2, SettleKeepsBook DEF CloseOne
  <2>4. todo = {} /\ todo' = {}
    BY <2>1 DEF CloseOne, IInv, TypeOK
  <2>5. TypeOK'
    BY <2>1, <2>3, <2>4 DEF CloseOne, Settle, IInv, TypeOK, BookInv
  <2>6. ExitsAreScheduled'
    BY <2>1, <2>3 DEF CloseOne, IInv, ExitsAreScheduled
  <2> QED BY <2>3, <2>5, <2>6 DEF IInv, BookInv
<1> QED BY <1>1, <1>2, <1>3 DEF Close

\* A stuttering step keeps it.
LEMMA StutterKeepsIInv ==
    ASSUME IInv, UNCHANGED vars PROVE IInv'
<1> USE DEF vars, inputs, clock, book, logs, sizing, payout, scan
<1>1. Open' = Open /\ CountMatches' /\ SlotLimits'
  BY SameBook
<1>2. TypeOK'
  BY <1>1 DEF IInv, TypeOK
<1> QED BY <1>1, <1>2 DEF IInv, NeverOverdrawn, ExitsAreScheduled

\* Every step of process() keeps it.
LEMMA StepKeepsIInv == IInv /\ [Next]_vars => IInv'
  BY CallKeepsIInv, DayKeepsIInv, EntriesKeepIInv, ExitsKeepIInv,
     RevalueKeepsIInv, MarkKeepsIInv, CloseKeepsIInv, StutterKeepsIInv
     DEF Next, Process, Finished

----------------------------------------------------------------------------
(* The theorems *)

\* The inductive invariant holds in every reachable state.
THEOREM Inductive == Spec => []IInv
<1>1. Init => IInv
  BY InitEstablishesIInv
<1>2. IInv /\ [Next]_vars => IInv'
  BY StepKeepsIInv
<1> QED BY <1>1, <1>2, PTL DEF Spec

\* The variables keep their types, whatever the orders, bars and configuration.
THEOREM TypeCorrect == Spec => []TypeOK
  BY Inductive, PTL DEF IInv

\* No sequence of calls, days and orders exceeds the position limits, and the
\* separate counter the entry loop trusts is the number of open positions.
THEOREM LimitsHold == Spec => [](SlotLimits /\ CountMatches)
  BY Inductive, PTL DEF IInv

\* The cash is never negative: entries are paid from cash that is there, payouts
\* stop at zero, and a sale never costs more than it brings (SellRate <= 100).
THEOREM CashHolds == Spec => []NeverOverdrawn
  BY Inductive, PTL DEF IInv

\* Every open position is registered for its exit day.
THEOREM ExitsRegistered == Spec => []ExitsAreScheduled
  BY Inductive, PTL DEF IInv
----------------------------------------------------------------------------
(* Refinement of the ledger *)

\* Every position comes from a row of the order list or from a snapshot.
KeysKnown == Open \subseteq AllKeys

\* What each part of Next does to the ledger's variables.
LedgerSame == /\ Open' = Open /\ cfg' = cfg
              /\ margin_available' = margin_available

\* The instance brings its own copy of the finite-set operators.
LEMMA SameCardinality ==
    ASSUME NEW S
    PROVE  /\ Ledger!Cardinality(S) = Cardinality(S)
           /\ Ledger!IsFiniteSet(S) <=> IsFiniteSet(S)
  BY DEF Ledger!Cardinality, Cardinality, Ledger!IsFiniteSet, IsFiniteSet

\* A step that leaves cash and positions alone is a stutter of the ledger.
LEMMA QuietSteps ==
    ASSUME \/ Call \/ (\E day \in dates_left : BeginDay(day)) \/ SizeOrders
           \/ (\E i \in DOMAIN orders : SkipEntry(i) \/ RaiseDuplicateKey(i))
           \/ EndEntries \/ EndExits \/ Revalue \/ Mark \/ EndDays \/ Return
           \/ UNCHANGED vars
    PROVE  LedgerSame
<1> USE DEF inputs, book, LedgerSame, Open
<1>1. CASE Call BY <1>1 DEF Call, StartCall
<1>2. CASE \E day \in dates_left : BeginDay(day) BY <1>2 DEF BeginDay
<1>3. CASE SizeOrders BY <1>3 DEF SizeOrders
<1>4. CASE \E i \in DOMAIN orders : SkipEntry(i) \/ RaiseDuplicateKey(i)
  BY <1>4 DEF SkipEntry, RaiseDuplicateKey
<1>5. CASE EndEntries BY <1>5 DEF EndEntries
<1>6. CASE EndExits BY <1>6 DEF EndExits
<1>7. CASE Revalue BY <1>7 DEF Revalue, RevalueOne, EndRevalue
<1>8. CASE Mark BY <1>8 DEF Mark, MarkOne, EndMark, SkipMark
<1>9. CASE EndDays BY <1>9 DEF EndDays
<1>10. CASE Return BY <1>10 DEF Return
<1>11. CASE UNCHANGED vars BY <1>11 DEF vars
<1> QED BY <1>1, <1>2, <1>3, <1>4, <1>5, <1>6, <1>7, <1>8, <1>9, <1>10, <1>11

\* An entry of _process_entries is a Buy of the ledger.
LEMMA EnterIsBuy ==
    ASSUME IInv, NEW i \in DOMAIN orders, Enter(i)
    PROVE  KeyOf(orders[i]) \in AllKeys /\ Ledger!Buy(KeyOf(orders[i]))
<1> DEFINE new == KeyOf(orders[i])
<1>1. new \in AllKeys
  <2>1. new \in {KeyOf(orders[j]) : j \in DOMAIN orders}
    OBVIOUS
  <2>2. {KeyOf(orders[j]) : j \in DOMAIN orders}
            \in {{KeyOf(list[j]) : j \in DOMAIN list} : list \in OrderLists}
    BY DEF IInv, TypeOK
  <2> QED BY <2>1, <2>2 DEF AllKeys
<1>2. /\ new \notin Open /\ ~SlotsFull /\ ~InstrumentFull(orders[i])
      /\ Affordable(orders[i]) /\ cfg' = cfg
      /\ margin_available' = margin_available - RequiredMargin(orders[i])
  BY DEF Enter, inputs
<1>3. Open' = Open \cup {new}
  BY EnterKeepsBook
<1>4. 0 <= margin_available' /\ margin_available' < margin_available
  BY <1>2, EntryAmounts DEF IInv, TypeOK
<1>5. IsFiniteSet(Open) /\ current_positions_count = Cardinality(Open)
      /\ Cardinality(Open) \in Nat
      /\ cfg.max_positions \in Nat /\ cfg.max_positions_per_instrument \in Nat
  BY FS_CardinalityType DEF IInv, TypeOK, CountMatches, Config
<1>6. Cardinality(Open) < cfg.max_positions
  BY <1>2, <1>5 DEF SlotsFull
<1>7. Ledger!InSame(new) = OpenIn(orders[i].instrument)
  BY DEF Ledger!InSame, OpenIn, InstrumentOf, KeyOf
<1>8. Cardinality(OpenIn(orders[i].instrument)) \in Nat
  <2>1. OpenIn(orders[i].instrument) \in SUBSET Open
    BY DEF OpenIn
  <2> QED BY <2>1, <1>5, FS_Subset, FS_CardinalityType
<1>9. Cardinality(Ledger!InSame(new)) < cfg.max_positions_per_instrument
  BY <1>2, <1>5, <1>7, <1>8 DEF InstrumentFull
<1>10. UNCHANGED <<cfg.max_positions, cfg.max_positions_per_instrument>>
  BY <1>2
<1> QED BY <1>1, <1>2, <1>3, <1>4, <1>6, <1>9, <1>10, SameCardinality DEF Ledger!Buy

\* A settled exit, natural or forced, is a Sell of the ledger.
LEMMA SettleIsSell ==
    ASSUME IInv, NEW key \in Open, NEW exit, NEW price \in Nat, NEW reason,
           Settle(key, exit, price, reason), UNCHANGED cfg
    PROVE  Ledger!Sell(key)
<1>1. Open' = Open \ {key}
  BY SettleKeepsBook
<1>2. Proceeds(current_positions[key], price) \in Nat
  BY ProceedsType DEF IInv, TypeOK
<1>3. margin_available' >= margin_available
  BY <1>2 DEF Settle, IInv, TypeOK
<1> QED BY <1>1, <1>3 DEF Ledger!Sell

\* A payout of process() is a Withdraw of the ledger.
LEMMA PayOutIsWithdraw ==
    ASSUME IInv, PayOut
    PROVE  Ledger!Withdraw
<1> DEFINE account == current_position_value + margin_available
<1>1. Withdrawal(account) \in Nat /\ Withdrawal(account) <= margin_available
  BY WithdrawalType DEF IInv
<1>2. /\ margin_available' = margin_available - Withdrawal(account)
      /\ Open' = Open /\ cfg' = cfg
  BY DEF PayOut, inputs, book, Open
<1> QED BY <1>1, <1>2 DEF Ledger!Withdraw, IInv, TypeOK

\* One step of the simulator is one step of the ledger, or none.
LEMMA StepIsLedgerStep ==
    ASSUME IInv, KeysKnown, [Next]_vars
    PROVE  [Ledger!Next]_(Ledger!vars) /\ KeysKnown'
<1>1. CASE \E i \in DOMAIN orders : Enter(i)
  <2>1. PICK i \in DOMAIN orders : Enter(i)
    BY <1>1
  <2>2. Open' = Open \cup {KeyOf(orders[i])}
    BY <2>1, EnterKeepsBook
  <2> QED BY <2>1, <2>2, EnterIsBuy DEF Ledger!Next, KeysKnown
<1>2. CASE \E key \in DueExits : Exit(key)
  <2>1. PICK key \in DueExits : Exit(key)
    BY <1>2
  <2>2. key \in Open /\ current_positions[key].exit_price \in Nat
    BY DEF DueExits, IInv, TypeOK, Position
  <2>3. Ledger!Sell(key) /\ Open' = Open \ {key}
    BY <2>1, <2>2, SettleIsSell, SettleKeepsBook DEF Exit, inputs
  <2> QED BY <2>2, <2>3 DEF Ledger!Next, KeysKnown
<1>3. CASE \E key \in Open : CloseOne(key)
  <2>1. PICK key \in Open : CloseOne(key)
    BY <1>3
  <2>2. current_positions[key].last_close_price \in Nat
    BY DEF IInv, TypeOK, Position
  <2>3. Ledger!Sell(key) /\ Open' = Open \ {key}
    BY <2>1, <2>2, SettleIsSell, SettleKeepsBook DEF CloseOne, inputs
  <2> QED BY <2>3 DEF Ledger!Next, KeysKnown
<1>4. CASE PayOut
  <2>1. Open' = Open
    BY <1>4 DEF PayOut, book, Open
  <2> QED BY <1>4, <2>1, PayOutIsWithdraw DEF Ledger!Next, KeysKnown
<1>5. CASE LedgerSame
  BY <1>5 DEF LedgerSame, Ledger!vars, KeysKnown
<1> QED BY <1>1, <1>2, <1>3, <1>4, <1>5, QuietSteps
        DEF Next, Process, Day, Entries, Exits, Close, Finished

\* The snapshot a run starts from is an initial state of the ledger.
LEMMA InitIsLedgerInit == Init => Ledger!Init /\ KeysKnown
<1> SUFFICES ASSUME Init PROVE Ledger!Init /\ KeysKnown
  OBVIOUS
<1>1. IInv
  BY InitEstablishesIInv
<1>2. Open \subseteq AllKeys
  <2>1. Open = DOMAIN opening.current_positions
    BY DEF Init, Open
  <2>2. CASE opening = FreshSnapshot
    BY <2>1, <2>2 DEF FreshSnapshot
  <2>3. CASE opening \in Snapshots
    BY <2>1, <2>3 DEF AllKeys
  <2> QED BY <2>2, <2>3 DEF Init
<1>3. \A lot \in Open : /\ lot.instrument \in Instruments
                        /\ Ledger!InSame(lot) = OpenIn(lot.instrument)
  BY <1>1 DEF IInv, TypeOK, OrderKey, Ledger!InSame, OpenIn, InstrumentOf
<1>4. /\ margin_available \in Nat /\ IsFiniteSet(Open)
      /\ cfg.max_positions \in Nat /\ cfg.max_positions_per_instrument \in Nat
      /\ Cardinality(Open) <= cfg.max_positions
      /\ \A lot \in Open : Cardinality(Ledger!InSame(lot))
                                <= cfg.max_positions_per_instrument
  BY <1>1, <1>3 DEF IInv, TypeOK, NeverOverdrawn, Config, SlotLimits
<1> QED BY <1>2, <1>4, SameCardinality DEF Ledger!Init, KeysKnown

\* The simulator implements the ledger: whatever the configuration, the orders
\* and the bars are, each of its steps buys within the limits with cash it has,
\* sells a lot it holds, withdraws cash it has, or leaves the ledger alone.
THEOREM Refinement == Spec => ImplementsLedger
<1>1. Init => Ledger!Init /\ KeysKnown
  BY InitIsLedgerInit
<1>2. IInv /\ KeysKnown /\ [Next]_vars => [Ledger!Next]_(Ledger!vars) /\ KeysKnown'
  BY StepIsLedgerStep
<1> QED BY <1>1, <1>2, Inductive, PTL DEF Spec, ImplementsLedger, Ledger!Spec
----------------------------------------------------------------------------
(* The order of the loops of a day *)

\* Under exit_before_entry, once the exits of the day have run, a position that
\* exits today was entered today.
SettledFirst ==
    cfg.exit_before_entry /\ pc \in {"revalue", "entries"} =>
        \A key \in Open : key.exit_epoch = today => key.entry_epoch = today

\* Every step of process() keeps it.
LEMMA StepKeepsSettledFirst ==
    ASSUME IInv, SettledFirst, [Next]_vars
    PROVE  SettledFirst'
<1> USE DEF inputs, clock, book
<1>1. CASE Call
  BY <1>1 DEF Call, StartCall, SettledFirst
<1>2. CASE Day
  <2>1. FirstPhase # "revalue" /\ (cfg.exit_before_entry => FirstPhase # "entries")
    BY DEF FirstPhase
  <2> QED BY <1>2, <2>1 DEF Day, BeginDay, PayOut, SizeOrders, SettledFirst
<1>3. CASE Entries
  <2>1. CASE \E i \in DOMAIN orders : Enter(i)
    <3>1. PICK i \in DOMAIN orders : Enter(i)
      BY <2>1
    <3>2. Open' = Open \cup {KeyOf(orders[i])}
      BY <3>1, EnterKeepsBook
    <3>3. KeyOf(orders[i]).entry_epoch = today
      BY <3>1 DEF Enter, IsNextEntry, KeyOf
    <3> QED BY <3>1, <3>2, <3>3 DEF Enter, SettledFirst
  <2>2. CASE \E i \in DOMAIN orders : SkipEntry(i) \/ RaiseDuplicateKey(i)
    BY <2>2 DEF SkipEntry, RaiseDuplicateKey, SettledFirst, Open
  <2>3. CASE EndEntries
    BY <2>3 DEF EndEntries, SettledFirst
  <2> QED BY <1>3, <2>1, <2>2, <2>3 DEF Entries
<1>4. CASE Exits
  <2>1. CASE EndExits
    <3>1. Open \subseteq scheduled /\ Open' = Open
      BY <2>1 DEF EndExits, IInv, ExitsAreScheduled, Open
    <3> QED BY <2>1, <3>1 DEF EndExits, DueExits, SettledFirst
  <2>2. CASE \E key \in DueExits : Exit(key)
    BY <2>2 DEF Exit, SettledFirst
  <2> QED BY <1>4, <2>1, <2>2 DEF Exits
<1>5. CASE Revalue
  BY <1>5 DEF Revalue, RevalueOne, EndRevalue, SettledFirst, Open
<1>6. CASE Mark
  BY <1>6 DEF Mark, MarkOne, EndMark, SkipMark, SettledFirst
<1>7. CASE Close
  BY <1>7 DEF Close, EndDays, CloseOne, Return, SettledFirst
<1>8. CASE UNCHANGED vars
  BY <1>8 DEF vars, SettledFirst, Open
<1> QED BY <1>1, <1>2, <1>3, <1>4, <1>5, <1>6, <1>7, <1>8
        DEF Next, Process, Finished

\* It holds in every reachable state.
LEMMA AlwaysSettledFirst == Spec => [](IInv /\ SettledFirst)
<1>1. Init => SettledFirst
  BY DEF Init, SettledFirst
<1>2. IInv /\ SettledFirst /\ [Next]_vars => SettledFirst'
  BY StepKeepsSettledFirst
<1> QED BY <1>1, <1>2, Inductive, PTL DEF Spec

\* The only step that opens a position is an entry.
LEMMA OnlyEntriesOpen ==
    ASSUME IInv, [Next]_vars, Open' \ Open # {}
    PROVE  \E i \in DOMAIN orders : Enter(i)
<1>1. CASE LedgerSame
  BY <1>1 DEF LedgerSame
<1>2. CASE \/ \E key \in DueExits : Exit(key)
           \/ \E key \in Open : CloseOne(key)
  BY <1>2 DEF Exit, CloseOne, Settle, Without, Open
<1>3. CASE PayOut
  BY <1>3 DEF PayOut, book, Open
<1> QED BY <1>1, <1>2, <1>3, QuietSteps
        DEF Next, Process, Day, Entries, Exits, Close, Finished

\* With exit_before_entry no position is entered while one of an earlier day still
\* waits for today's exit: its slot and its cash are free when the entries run.
THEOREM ExitsComeFirst == Spec => ExitsSettleFirst
<1>1. ASSUME IInv, SettledFirst, [Next]_vars
      PROVE  [cfg.exit_before_entry /\ Open' \ Open # {} =>
                \A key \in Open : key.entry_epoch < today => key.exit_epoch # today]_vars
  <2> SUFFICES ASSUME cfg.exit_before_entry, Open' \ Open # {},
                      NEW key \in Open, key.entry_epoch < today
               PROVE  key.exit_epoch # today
    OBVIOUS
  <2>1. pc = "entries"
    BY <1>1, OnlyEntriesOpen DEF Enter
  <2>2. key.entry_epoch # today
    BY <1>1 DEF IInv, TypeOK, OrderKey
  <2> QED BY <1>1, <2>1, <2>2 DEF SettledFirst
<1> QED BY <1>1, AlwaysSettledFirst, PTL DEF Spec, ExitsSettleFirst
----------------------------------------------------------------------------
(* The calendar of a call *)

InDay == {"payout", "entries", "exits", "revalue", "mark"}
Walking == InDay \cup {"day"}

\* The days still to walk lie after the running one and up to the end.
DaysInOrder ==
    /\ pc \in Walking => \A day \in dates_left : day <= end_epoch
    /\ pc \in InDay => today <= end_epoch /\ \A day \in dates_left : today < day

\* A day the call has passed.
Behind(e) ==
    IF pc = "day" THEN \A day \in dates_left : e < day ELSE e <= today

\* The exit day of every row is walked unless it is out of the window.
ExitDaysWalked ==
    pc \in Walking =>
        \A i \in DOMAIN orders : LET e == orders[i].exit_epoch
                                IN e <= end_epoch => e \in dates_left \/ Behind(e)

\* The exits of the running day are still to come.
ExitsToRun ==
    pc \in {"payout", "exits"} \/ (pc = "entries" /\ ~cfg.exit_before_entry)

\* An open position leaves on a later day, today if the exits are still to run, or,
\* entered and due on one day under exit_before_entry, at the end of the call.
LeavesLater(key) ==
    \/ key.exit_epoch > end_epoch
    \/ key.exit_epoch \in dates_left
    \/ key.exit_epoch = today /\ ExitsToRun
    \/ cfg.exit_before_entry /\ key.exit_epoch = key.entry_epoch

\* Between two calls no open position is overdue.
NoneOverdue ==
    pc = "idle" => \A key \in Open : simulation_date <= key.exit_epoch

CalendarInv == /\ DaysInOrder
               /\ ExitDaysWalked
               /\ pc \in Walking => \A key \in Open : LeavesLater(key)
               /\ NoneOverdue

\* The snapshot of a run has no overdue position.
LEMMA InitEstablishesCalendar == Init => CalendarInv
<1> SUFFICES ASSUME Init PROVE CalendarInv
  OBVIOUS
<1>1. pc = "idle" /\ Open = DOMAIN opening.current_positions
      /\ simulation_date = opening.simulation_date
  BY DEF Init, Open
<1>2. \A key \in Open : simulation_date <= key.exit_epoch
  <2>1. CASE opening = FreshSnapshot
    BY <1>1, <2>1 DEF FreshSnapshot
  <2>2. CASE opening \in Snapshots
    BY <1>1, <2>2, CalendarAssumption
  <2> QED BY <2>1, <2>2 DEF Init
<1> QED BY <1>1, <1>2
        DEF CalendarInv, DaysInOrder, ExitDaysWalked, NoneOverdue, Walking, InDay

\* What the calendar is about are day numbers.
LEMMA DayTypes ==
    ASSUME IInv
    PROVE  /\ today \in Nat /\ end_epoch \in Nat /\ simulation_date \in Nat
           /\ dates_left \subseteq Nat
           /\ \A i \in DOMAIN orders : /\ orders[i].entry_epoch \in Nat
                                       /\ orders[i].exit_epoch \in Nat
           /\ \A key \in Open : key.entry_epoch \in Nat /\ key.exit_epoch \in Nat
<1>1. \A i \in DOMAIN orders : orders[i] \in Order
  BY RowType DEF IInv
<1> QED BY <1>1 DEF IInv, TypeOK, Order, OrderKey

\* A call starts with every exit day of the window ahead of it.
LEMMA CallKeepsCalendar ==
    ASSUME IInv, CalendarInv, Call PROVE CalendarInv'
<1> PICK end \in Ends : StartCall(end)
  BY DEF Call
<1>1. /\ pc = "idle" /\ pc' = "day" /\ end_epoch' = end /\ orders' = orders
      /\ dates_left' = ProcessingDates(end) /\ Open' = Open /\ end \in Nat
  BY NumberAssumption DEF StartCall, inputs, Open
<1>2. \A day \in dates_left' : simulation_date <= day /\ day <= end_epoch'
  BY <1>1 DEF ProcessingDates
<1>3. ASSUME NEW i \in DOMAIN orders, orders[i].exit_epoch <= end
      PROVE  \/ orders[i].exit_epoch \in dates_left'
             \/ \A day \in dates_left' : orders[i].exit_epoch < day
  <2>1. CASE simulation_date <= orders[i].exit_epoch
    BY <1>1, <1>3, <2>1 DEF ProcessingDates
  <2>2. CASE ~(simulation_date <= orders[i].exit_epoch)
    <3>1. dates_left' \subseteq Nat
      BY CallKeepsIInv DEF IInv, TypeOK
    <3>2. orders[i].exit_epoch \in Nat /\ simulation_date \in Nat
      BY DayTypes
    <3>3. ASSUME NEW day \in dates_left' PROVE orders[i].exit_epoch < day
      <4>1. day \in Nat /\ simulation_date <= day
        BY <1>2, <3>1
      <4> QED BY <2>2, <3>2, <4>1
    <3> QED BY <3>3
  <2> QED BY <2>1, <2>2
<1>4. ASSUME NEW key \in Open, key.exit_epoch <= end
      PROVE  key.exit_epoch \in dates_left'
  BY <1>1, <1>4 DEF ProcessingDates, CalendarInv, NoneOverdue
<1>5. ASSUME NEW key \in Open PROVE LeavesLater(key)'
  BY <1>1, <1>4, DayTypes DEF LeavesLater
<1> QED BY <1>1, <1>2, <1>3, <1>5
        DEF CalendarInv, DaysInOrder, ExitDaysWalked, Behind, NoneOverdue,
            Walking, InDay

\* The next day is the earliest: what it passes had no business after it.
LEMMA DayKeepsCalendar ==
    ASSUME IInv, CalendarInv, Day PROVE CalendarInv'
<1> USE DEF inputs, clock, book, CalendarInv, Walking, InDay
<1>1. CASE \E day \in dates_left : BeginDay(day)
  <2> PICK day \in dates_left : BeginDay(day)
    BY <1>1
  <2>1. /\ pc = "day" /\ pc' = "payout" /\ today' = day /\ Open' = Open
        /\ dates_left' = dates_left \ {day} /\ end_epoch' = end_epoch
        /\ orders' = orders /\ cfg' = cfg
    BY DEF BeginDay, Open
  <2>2. \A other \in dates_left : day <= other
    BY DEF BeginDay, IsEarliest
  <2>3. DaysInOrder'
    BY <2>1, <2>2, DayTypes DEF DaysInOrder
  <2>4. ExitDaysWalked'
    BY <2>1, <2>2, DayTypes DEF ExitDaysWalked, Behind
  <2>5. \A key \in Open : LeavesLater(key)'
    BY <2>1, DayTypes DEF LeavesLater, ExitsToRun
  <2> QED BY <2>1, <2>3, <2>4, <2>5 DEF NoneOverdue
<1>2. CASE PayOut
  BY <1>2 DEF PayOut, Open, DaysInOrder, ExitDaysWalked, Behind, LeavesLater,
              ExitsToRun, NoneOverdue
<1>3. CASE SizeOrders
  <2>1. /\ pc = "payout" /\ pc' = FirstPhase /\ Open' = Open /\ today' = today
        /\ dates_left' = dates_left /\ end_epoch' = end_epoch
        /\ orders' = orders /\ cfg' = cfg
    BY <1>3 DEF SizeOrders, Open
  <2>2. FirstPhase \in {"mark", "exits", "entries"}
    BY DEF FirstPhase
  <2>3. ASSUME NEW key \in Open PROVE LeavesLater(key)'
    <3>1. CASE HasOrdersToday
      BY <2>1, <3>1 DEF LeavesLater, ExitsToRun, FirstPhase
    <3>2. CASE ~HasOrdersToday
      <4>1. key \in scheduled
        BY <2>1 DEF IInv, ExitsAreScheduled
      <4> QED BY <2>1, <3>2, <4>1 DEF LeavesLater, HasOrdersToday
    <3> QED BY <3>1, <3>2
  <2> QED BY <2>1, <2>2, <2>3 DEF DaysInOrder, ExitDaysWalked, Behind, NoneOverdue
<1> QED BY <1>1, <1>2, <1>3 DEF Day

\* An entered position leaves on a day that is still to be walked, or today.
LEMMA EntriesKeepCalendar ==
    ASSUME IInv, CalendarInv, Entries PROVE CalendarInv'
<1> USE DEF inputs, clock, book, CalendarInv, Walking, InDay
<1>1. CASE \E i \in DOMAIN orders : Enter(i)
  <2> PICK i \in DOMAIN orders : Enter(i)
    BY <1>1
  <2> DEFINE new == KeyOf(orders[i])
  <2>1. /\ pc = "entries" /\ UNCHANGED <<pc, today, dates_left, end_epoch, orders, cfg>>
        /\ Open' = Open \cup {new}
    BY EnterKeepsBook DEF Enter
  <2>2. /\ new.entry_epoch = today /\ new.exit_epoch = orders[i].exit_epoch
        /\ orders[i].entry_epoch = today
    BY DEF Enter, IsNextEntry, KeyOf
  <2>3. today <= orders[i].exit_epoch
    BY <2>2, CalendarAssumption DEF IInv, TypeOK
  <2>4. LeavesLater(new)
    <3>1. \/ orders[i].exit_epoch > end_epoch \/ orders[i].exit_epoch \in dates_left
          \/ orders[i].exit_epoch = today
      BY <2>1, <2>3, DayTypes DEF ExitDaysWalked, Behind
    <3> QED BY <2>1, <2>2, <3>1 DEF LeavesLater, ExitsToRun
  <2>5. \A key \in Open \cup {new} : LeavesLater(key)'
    BY <2>1, <2>4 DEF LeavesLater, ExitsToRun
  <2> QED BY <2>1, <2>5 DEF DaysInOrder, ExitDaysWalked, Behind, NoneOverdue
<1>2. CASE \E i \in DOMAIN orders : SkipEntry(i) \/ RaiseDuplicateKey(i)
  BY <1>2 DEF SkipEntry, RaiseDuplicateKey, Open, DaysInOrder, ExitDaysWalked,
              Behind, LeavesLater, ExitsToRun, NoneOverdue
<1>3. CASE EndEntries
  BY <1>3 DEF EndEntries, Open, DaysInOrder, ExitDaysWalked,
              Behind, LeavesLater, ExitsToRun, NoneOverdue
<1> QED BY <1>1, <1>2, <1>3 DEF Entries

\* When the exits are done, none that was due is open.
LEMMA ExitsKeepCalendar ==
    ASSUME IInv, CalendarInv, Exits PROVE CalendarInv'
<1> USE DEF inputs, clock, book, CalendarInv, Walking, InDay
<1>1. CASE \E key \in DueExits : Exit(key)
  <2>1. Open' \subseteq Open
    BY <1>1 DEF Exit, Settle, Without, Open
  <2> QED BY <1>1, <2>1 DEF Exit, DaysInOrder, ExitDaysWalked, Behind,
                            LeavesLater, ExitsToRun, NoneOverdue
<1>2. CASE EndExits
  <2>1. /\ pc = "exits" /\ pc' \in {"revalue", "mark"} /\ Open' = Open
        /\ UNCHANGED <<today, dates_left, end_epoch, orders, cfg>>
    BY <1>2 DEF EndExits, Open
  <2>2. \A key \in Open : key.exit_epoch # today
    BY <1>2 DEF EndExits, DueExits, IInv, ExitsAreScheduled
  <2>3. \A key \in Open : LeavesLater(key)'
    BY <2>1, <2>2 DEF LeavesLater
  <2> QED BY <2>1, <2>3 DEF DaysInOrder, ExitDaysWalked, Behind, NoneOverdue
<1> QED BY <1>1, <1>2 DEF Exits

\* The loops over the open positions leave the calendar alone.
LEMMA LoopsKeepCalendar ==
    ASSUME IInv, CalendarInv, Revalue \/ Mark PROVE CalendarInv'
<1> USE DEF inputs, clock, book, CalendarInv, Walking, InDay
<1>1. Open' = Open /\ UNCHANGED <<today, dates_left, end_epoch, orders, cfg>>
  BY DEF Revalue, RevalueOne, EndRevalue, Mark, MarkOne, EndMark, SkipMark, Open
<1>2. CASE Revalue
  <2>1. pc = "revalue" /\ pc' \in {"revalue", "entries"}
    BY <1>2 DEF Revalue, RevalueOne, EndRevalue
  <2> QED BY <1>1, <2>1 DEF DaysInOrder, ExitDaysWalked, Behind, LeavesLater,
                            ExitsToRun, NoneOverdue
<1>3. CASE Mark
  <2>1. pc = "mark" /\ pc' \in {"mark", "day"}
    BY <1>3 DEF Mark, MarkOne, EndMark, SkipMark
  <2>2. ExitDaysWalked'
    BY <1>1, <2>1, DayTypes DEF DaysInOrder, ExitDaysWalked, Behind
  <2> QED BY <1>1, <2>1, <2>2 DEF DaysInOrder, LeavesLater, ExitsToRun, NoneOverdue
<1> QED BY <1>2, <1>3

\* The end of a call leaves nothing open.
LEMMA CloseKeepsCalendar ==
    ASSUME IInv, CalendarInv, Close PROVE CalendarInv'
<1> USE DEF CalendarInv, Walking, InDay
<1>1. CASE EndDays \/ (\E key \in Open : CloseOne(key))
  BY <1>1 DEF EndDays, CloseOne, DaysInOrder, ExitDaysWalked, NoneOverdue
<1>2. CASE Return
  BY <1>2 DEF Return, book, Open, DaysInOrder, ExitDaysWalked, NoneOverdue
<1> QED BY <1>1, <1>2 DEF Close

\* Every step of process() keeps the calendar.
LEMMA StepKeepsCalendar ==
    ASSUME IInv, CalendarInv, [Next]_vars PROVE CalendarInv'
<1>1. CASE UNCHANGED vars
  BY <1>1 DEF vars, inputs, clock, book, CalendarInv, Walking, InDay, Open,
              DaysInOrder, ExitDaysWalked, Behind, LeavesLater, ExitsToRun, NoneOverdue
<1> QED BY <1>1, CallKeepsCalendar, DayKeepsCalendar, EntriesKeepCalendar,
           ExitsKeepCalendar, LoopsKeepCalendar, CloseKeepsCalendar
           DEF Next, Process, Finished

\* It holds in every reachable state.
LEMMA AlwaysOnCalendar == Spec => [](IInv /\ CalendarInv)
<1>1. Init => CalendarInv
  BY InitEstablishesCalendar
<1>2. IInv /\ CalendarInv /\ [Next]_vars => CalendarInv'
  BY StepKeepsCalendar
<1> QED BY <1>1, <1>2, Inductive, PTL DEF Spec

\* No position outlives its exit day: whichever days the bars, the rows and the
\* calls give, once the orders of a day are done whatever is open exits later (or
\* was entered and due on one day, after the exits of that day).
THEOREM NoneOutlivesItsExit == Spec => []ExitsOnTime
<1>1. ASSUME IInv, CalendarInv PROVE ExitsOnTime
  <2> SUFFICES ASSUME pc = "mark", NEW key \in Open
               PROVE  \/ key.exit_epoch > today
                      \/ cfg.exit_before_entry /\ key.exit_epoch = key.entry_epoch
    BY DEF ExitsOnTime
  <2>1. LeavesLater(key) /\ DaysInOrder
    BY <1>1 DEF CalendarInv, Walking, InDay
  <2> QED BY <1>1, <2>1, DayTypes
          DEF LeavesLater, ExitsToRun, DaysInOrder, Walking, InDay
<1> QED BY <1>1, AlwaysOnCalendar, PTL
----------------------------------------------------------------------------
(* The calendar of the payouts *)

\* A run starts fresh or from one of the snapshots.
OpeningKnown == opening \in {FreshSnapshot} \cup Snapshots

PaysOut ==
    /\ cfg.pay_out.type # "none" /\ cfg.pay_out.payout_interval_days > 0
    /\ opening.next_payout_epoch # NoEpoch

\* The run has come as far as a day.
HasReached(day) ==
    /\ pc \in InDay => day <= today
    /\ pc \in Walking => \A other \in dates_left : day <= other
    /\ IF pc = "idle" THEN day <= simulation_date ELSE day <= end_epoch

\* The next payout is a multiple of the interval after the first; it lies ahead
\* of a day whose payouts are done, and the one before it does not.
PayOutInv ==
    LET interval == cfg.pay_out.payout_interval_days
        first == opening.next_payout_epoch
    IN PaysOut =>
        /\ next_payout_epoch \in Nat /\ first \in Nat /\ first <= next_payout_epoch
        /\ (next_payout_epoch - first) % interval = 0
        /\ next_payout_epoch = first \/ HasReached(next_payout_epoch - interval)
        /\ pc \in {"entries", "exits", "revalue", "mark"} => today < next_payout_epoch

\* The first payout date is a day number or missing.
LEMMA OpeningDates ==
    ASSUME IInv, OpeningKnown
    PROVE  opening.next_payout_epoch \in Nat \cup {NoEpoch}
<1>1. CASE opening = FreshSnapshot
  <2>1. cfg.pay_out.withdrawal_lockup_days \in Nat
        /\ cfg.pay_out.payout_interval_days \in Nat
    BY DEF IInv, TypeOK, Config, PayOutRule
  <2>2. Least(cfg.pay_out.withdrawal_lockup_days, cfg.pay_out.payout_interval_days) \in Nat
    BY <2>1 DEF Least
  <2> QED BY <1>1, <2>2, NumberAssumption DEF FreshSnapshot
<1>2. CASE opening \in Snapshots
  BY <1>2, SnapshotAssumption
<1> QED BY <1>1, <1>2 DEF OpeningKnown

\* A payout is due on a day the run has reached, and moves the date on by one interval.
LEMMA PayOutKeepsSchedule ==
    ASSUME IInv, CalendarInv, PayOutInv, PayOut
    PROVE  PayOutInv'
<1> SUFFICES ASSUME PaysOut' PROVE PayOutInv'
  BY DEF PayOutInv
<1> DEFINE interval == cfg.pay_out.payout_interval_days
           first == opening.next_payout_epoch
<1>1. /\ UNCHANGED <<cfg, opening, pc, today, dates_left, end_epoch, simulation_date>>
      /\ pc = "payout" /\ next_payout_epoch <= today
      /\ next_payout_epoch' = next_payout_epoch + interval
  BY DEF PayOut, PayOutIsDue, inputs, clock, IInv, TypeOK
<1>2. PaysOut /\ interval \in Nat \ {0}
  BY <1>1 DEF PaysOut, IInv, TypeOK, Config, PayOutRule
<1>3. /\ next_payout_epoch \in Nat /\ first \in Nat /\ first <= next_payout_epoch
      /\ (next_payout_epoch - first) % interval = 0
  BY <1>2 DEF PayOutInv
<1>4. next_payout_epoch - first \in Nat
      /\ next_payout_epoch' - first = (next_payout_epoch - first) + interval
  BY <1>1, <1>2, <1>3
<1>5. (next_payout_epoch' - first) % interval = 0
  BY <1>2, <1>3, <1>4, OneMore
<1>6. today <= end_epoch /\ \A day \in dates_left : next_payout_epoch <= day
  BY <1>1, <1>3, DayTypes DEF CalendarInv, DaysInOrder, InDay, Walking
<1>7. (next_payout_epoch - interval)' = next_payout_epoch
  BY <1>1, <1>2, <1>3
<1>8. HasReached(next_payout_epoch - interval)'
  BY <1>1, <1>3, <1>6, <1>7, DayTypes DEF HasReached, InDay
<1>9. interval' = interval /\ first' = first /\ pc' = "payout"
  BY <1>1
<1>10. first' <= next_payout_epoch' /\ next_payout_epoch' \in Nat
  BY <1>1, <1>2, <1>3
<1> QED BY <1>3, <1>5, <1>8, <1>9, <1>10 DEF PayOutInv

\* A day the run has reached stays reached.
LEMMA ReachedStays ==
    ASSUME IInv, CalendarInv, [Next]_vars, NEW day \in Int, HasReached(day)
    PROVE  HasReached(day)'
<1> USE DEF HasReached, InDay, Walking, inputs, clock
<1>1. CASE Call
  <2>1. PICK end \in Ends : StartCall(end)
    BY <1>1 DEF Call
  <2>2. /\ pc = "idle" /\ pc' = "day" /\ end_epoch' = end /\ day <= simulation_date
        /\ simulation_date <= end /\ end \in Nat /\ simulation_date \in Nat
    BY <2>1, NumberAssumption DEF StartCall, IInv, TypeOK
  <2>3. ASSUME NEW other \in dates_left' PROVE day <= other
    <3>1. other \in Nat
      BY <1>1, CallKeepsIInv DEF IInv, TypeOK
    <3>2. simulation_date <= other
      BY <2>1 DEF StartCall, ProcessingDates
    <3> QED BY <2>2, <3>1, <3>2
  <2> QED BY <2>2, <2>3
<1>2. CASE Day
  BY <1>2 DEF Day, BeginDay, PayOut, SizeOrders, FirstPhase
<1>3. CASE Entries
  BY <1>3 DEF Entries, SkipEntry, Enter, RaiseDuplicateKey, EndEntries
<1>4. CASE Exits
  BY <1>4 DEF Exits, Exit, EndExits
<1>5. CASE Revalue
  BY <1>5 DEF Revalue, RevalueOne, EndRevalue
<1>6. CASE Mark
  BY <1>6 DEF Mark, MarkOne, EndMark, SkipMark
<1>7. CASE Close
  BY <1>7 DEF Close, EndDays, CloseOne, Return
<1>8. CASE UNCHANGED vars
  BY <1>8 DEF vars
<1> QED BY <1>1, <1>2, <1>3, <1>4, <1>5, <1>6, <1>7, <1>8
        DEF Next, Process, Finished

\* Every other step leaves the date of the next payout where it is.
LEMMA OthersKeepSchedule ==
    ASSUME IInv, CalendarInv, PayOutInv, [Next]_vars, ~PayOut
    PROVE  PayOutInv'
<1> SUFFICES ASSUME PaysOut' PROVE PayOutInv'
  BY DEF PayOutInv
<1> USE DEF inputs, clock, payout
<1>1. UNCHANGED <<cfg, opening, next_payout_epoch>>
  BY DEF Next, Process, Finished, Call, StartCall, Day, BeginDay, SizeOrders,
         Entries, SkipEntry, Enter, RaiseDuplicateKey, EndEntries, Exits, Exit,
         EndExits, Revalue, RevalueOne, EndRevalue, Mark, MarkOne, EndMark, SkipMark,
         Close, EndDays, CloseOne, Return, vars
<1>2. PaysOut /\ next_payout_epoch \in Nat /\ cfg.pay_out.payout_interval_days \in Nat
  BY <1>1 DEF PaysOut, PayOutInv, IInv, TypeOK, Config, PayOutRule
<1>3. ASSUME HasReached(next_payout_epoch - cfg.pay_out.payout_interval_days)
      PROVE  HasReached(next_payout_epoch - cfg.pay_out.payout_interval_days)'
  <2>1. PICK day \in Int : day = next_payout_epoch - cfg.pay_out.payout_interval_days
    BY <1>2
  <2>2. HasReached(day)'
    BY <1>3, <2>1, ReachedStays
  <2>3. day = (next_payout_epoch - cfg.pay_out.payout_interval_days)'
    BY <1>1, <2>1
  <2> QED BY <2>2, <2>3
<1>4. pc' \in {"entries", "exits", "revalue", "mark"} => today' < next_payout_epoch'
  <2>1. CASE SizeOrders
    BY <1>1, <1>2, <2>1, DayTypes DEF SizeOrders, PayOutIsDue, PaysOut, NoEpoch
  <2>2. CASE Call \/ (\E day \in dates_left : BeginDay(day))
    BY <2>2 DEF Call, StartCall, BeginDay
  <2>3. CASE Entries \/ Exits \/ Revalue \/ Mark
    BY <1>1, <1>2, <2>3 DEF PayOutInv, Entries, SkipEntry, Enter, RaiseDuplicateKey,
         EndEntries, Exits, Exit, EndExits, Revalue, RevalueOne, EndRevalue, Mark,
         MarkOne, EndMark, SkipMark
  <2>4. CASE Close
    BY <2>4 DEF Close, EndDays, CloseOne, Return
  <2>5. CASE UNCHANGED vars
    BY <1>1, <1>2, <2>5 DEF PayOutInv, vars
  <2> QED BY <2>1, <2>2, <2>3, <2>4, <2>5 DEF Next, Process, Finished, Day
<1> QED BY <1>1, <1>2, <1>3, <1>4 DEF PayOutInv

\* The schedule holds in every reachable state.
LEMMA AlwaysOnSchedule == Spec => [](IInv /\ OpeningKnown /\ PayOutInv)
<1>1. Init => OpeningKnown
  BY DEF Init, OpeningKnown
<1>2. Init => PayOutInv
  <2> SUFFICES ASSUME Init, PaysOut PROVE PayOutInv
    BY DEF PayOutInv
  <2>1. IInv /\ opening.next_payout_epoch \in Nat
    BY InitEstablishesIInv, OpeningDates, <1>1 DEF PaysOut
  <2>2. cfg.pay_out.payout_interval_days \in Nat \ {0}
    BY <2>1 DEF PaysOut, IInv, TypeOK, Config, PayOutRule
  <2>3. 0 % cfg.pay_out.payout_interval_days = 0
    BY <2>2
  <2> QED BY <2>1, <2>3 DEF Init, PayOutInv
<1>3. OpeningKnown /\ [Next]_vars => OpeningKnown'
  <2> SUFFICES ASSUME OpeningKnown, [Next]_vars PROVE OpeningKnown'
    OBVIOUS
  <2>1. UNCHANGED <<cfg, opening>>
    BY DEF Next, Process, Finished, Call, StartCall, Day, BeginDay, PayOut,
         SizeOrders, Entries, SkipEntry, Enter, RaiseDuplicateKey, EndEntries, Exits,
         Exit, EndExits, Revalue, RevalueOne, EndRevalue, Mark, MarkOne, EndMark,
         SkipMark, Close, EndDays, CloseOne, Return, vars, inputs
  <2> QED BY <2>1 DEF OpeningKnown, FreshSnapshot
<1>4. IInv /\ CalendarInv /\ PayOutInv /\ [Next]_vars => PayOutInv'
  BY PayOutKeepsSchedule, OthersKeepSchedule
<1> QED BY <1>1, <1>2, <1>3, <1>4, AlwaysOnCalendar, PTL DEF Spec

\* Payouts keep to the calendar over every gap between days and between calls: once
\* the payouts of a day are done the next one lies ahead of that day, the last one
\* does not, and the dates are whole intervals apart.
THEOREM PayOutsKeepTime == Spec => []PayOutsOnSchedule
<1>1. ASSUME IInv, OpeningKnown, PayOutInv PROVE PayOutsOnSchedule
  <2> DEFINE interval == cfg.pay_out.payout_interval_days
             first == opening.next_payout_epoch
  <2> SUFFICES ASSUME pc \in {"entries", "exits", "mark"}, PaysOut
               PROVE  /\ next_payout_epoch > today
                      /\ next_payout_epoch - interval <= today \/ next_payout_epoch = first
                      /\ (next_payout_epoch - first) % interval = 0
    BY DEF PayOutsOnSchedule, PaysOut
  <2> QED BY <1>1, DayTypes DEF PayOutInv, HasReached, InDay
<1> QED BY <1>1, AlwaysOnSchedule, PTL
----------------------------------------------------------------------------
(* The caps on an order *)

\* What CappedOrLogged says of one position.
WithinCap(key) ==
    LET rule == cfg.max_order_value
        notional == current_positions[key].quantity * current_positions[key].entry_price
    IN /\ rule.type = "fixed" => notional <= rule.value
       /\ rule.type = "percentage_of_instrument_avg_txn" =>
            \/ <<key.entry_epoch, key.instrument>> \in missing_avg_txn_log
            \/ key.entry_epoch \in MtmDays
                /\ 100 * notional <= stats[key.entry_epoch][key.instrument].avg_txn * rule.value

\* The shares that are bought cost no more than the amount they were cut from.
LEMMA CutDown ==
    ASSUME NEW a \in Int, NEW b \in Nat \ {0}, a \div b > 0
    PROVE  (a \div b) * b <= a
  OBVIOUS

\* A hundred times a percentage is at most the amount times the rate.
LEMMA PercentAtMost ==
    ASSUME NEW a \in Nat
    PROVE  100 * (a \div 100) <= a
  OBVIOUS

\* An entered position is within the cap, or the log says why it was not computed.
LEMMA EntryWithinCap ==
    ASSUME IInv, NEW i \in DOMAIN orders, Enter(i)
    PROVE  WithinCap(KeyOf(orders[i]))'
<1> DEFINE row == orders[i]
           rule == cfg.max_order_value
<1>1. /\ row \in Order /\ row.entry_price \in Nat \ {0} /\ row.instrument \in Instruments
      /\ rule \in Rule /\ rule.value \in Nat /\ order_value \in Int
  BY RowType DEF IInv, TypeOK, Config, Rule, Order
<1>2. /\ KeyOf(row).entry_epoch = today /\ KeyOf(row).instrument = row.instrument
      /\ UNCHANGED <<cfg, stats, today, orders>>
  BY DEF Enter, IsNextEntry, KeyOf, inputs, clock
<1>3. /\ current_positions'[KeyOf(row)].quantity = Quantity(row)
      /\ current_positions'[KeyOf(row)].entry_price = row.entry_price
  BY DEF Enter
<1>4. Quantity(row) \in Int /\ Quantity(row) > 0
  BY QuantityType DEF Enter, Affordable, IInv
<1>5. CappedOrderValue(row) \in Int => Quantity(row) * row.entry_price <= CappedOrderValue(row)
  BY <1>1, <1>4, CutDown DEF Quantity
<1>6. CASE rule.type = "fixed"
  <2>1. CappedOrderValue(row) \in Int /\ CappedOrderValue(row) <= rule.value
    BY <1>1, <1>6 DEF CappedOrderValue, RuleValue, Least
  <2>2. Quantity(row) * row.entry_price \in Int
    BY <1>1, <1>4
  <2>3. Quantity(row) * row.entry_price <= rule.value
    BY <1>1, <1>5, <2>1, <2>2
  <2> QED BY <1>2, <1>3, <1>6, <2>3 DEF WithinCap
<1>7. CASE rule.type = "percentage_of_instrument_avg_txn"
  <2>1. CASE CapIsUnknown(row)
    <3>1. <<today, row.instrument>> \in missing_avg_txn_log'
      BY <2>1 DEF Enter
    <3> QED BY <1>2, <1>7, <3>1 DEF WithinCap
  <2>2. CASE ~CapIsUnknown(row)
    <3> DEFINE avg == stats[today][row.instrument].avg_txn
    <3>1. today \in MtmDays /\ AvgTxn(row.instrument) = avg /\ avg # Missing
      BY <1>7, <2>2 DEF CapIsUnknown, AvgTxn
    <3>2. avg \in Nat
      BY <1>1, <3>1, BarType DEF IInv, Bar
    <3>3. avg * rule.value \in Nat
      BY <1>1, <3>2, ProductNat
    <3>4. (avg * rule.value) \div 100 \in Nat
      BY <3>3, DivisionNat
    <3>5. CappedOrderValue(row) \in Int
          /\ CappedOrderValue(row) <= (avg * rule.value) \div 100
      BY <1>1, <1>7, <2>2, <3>1, <3>4 DEF CappedOrderValue, Least
    <3>6. Quantity(row) * row.entry_price \in Int
      BY <1>1, <1>4
    <3>7. 100 * (Quantity(row) * row.entry_price) <= avg * rule.value
      <4>1. Quantity(row) * row.entry_price <= (avg * rule.value) \div 100
        BY <1>5, <3>4, <3>5, <3>6
      <4>2. 100 * ((avg * rule.value) \div 100) <= avg * rule.value
        BY <3>3, PercentAtMost
      <4> HIDE DEF avg
      <4> QED BY <3>3, <3>4, <3>6, <4>1, <4>2
    <3> QED BY <1>2, <1>3, <1>7, <3>1, <3>7 DEF WithinCap, MtmDays
  <2> QED BY <2>1, <2>2
<1>8. CASE rule.type \notin {"fixed", "percentage_of_instrument_avg_txn"}
  BY <1>2, <1>8 DEF WithinCap
<1> QED BY <1>6, <1>7, <1>8

\* A position stays within its cap: its quantity and entry price are final.
LEMMA CapStays ==
    ASSUME IInv, [Next]_vars, NEW key \in Open, key \in Open', WithinCap(key)
    PROVE  WithinCap(key)'
<1> USE DEF inputs, logs, book
<1>1. UNCHANGED <<cfg, stats>> /\ missing_avg_txn_log \subseteq missing_avg_txn_log'
  BY DEF Next, Process, Finished, Call, StartCall, Day, BeginDay, PayOut,
         SizeOrders, Entries, SkipEntry, Enter, RaiseDuplicateKey, EndEntries, Exits,
         Exit, EndExits, Revalue, RevalueOne, EndRevalue, Mark, MarkOne, EndMark,
         SkipMark, Close, EndDays, CloseOne, Return, vars
<1>2. /\ current_positions'[key].quantity = current_positions[key].quantity
      /\ current_positions'[key].entry_price = current_positions[key].entry_price
  <2>1. CASE \E other \in todo : MarkOne(other)
    <3>1. PICK other \in todo : MarkOne(other)
      BY <2>1
    <3>2. current_positions[key] \in Position /\ current_positions[other] \in Position
      BY DEF IInv, TypeOK
    <3> QED BY <3>1, <3>2 DEF MarkOne, Position, Open
  <2>2. CASE \E i \in DOMAIN orders : Enter(i)
    BY <2>2 DEF Enter
  <2>3. CASE (\E other \in DueExits : Exit(other)) \/ (\E other \in Open : CloseOne(other))
    BY <2>3 DEF Exit, CloseOne, Settle, Without, Open
  <2>4. CASE UNCHANGED current_positions
    BY <2>4
  <2> QED BY <2>1, <2>2, <2>3, <2>4
          DEF Next, Process, Finished, Call, StartCall, Day, BeginDay, PayOut,
              SizeOrders, Entries, SkipEntry, RaiseDuplicateKey, EndEntries, Exits,
              EndExits, Revalue, RevalueOne, EndRevalue, Mark, EndMark,
              SkipMark, Close, EndDays, Return, vars
<1> QED BY <1>1, <1>2 DEF WithinCap, MtmDays

\* Every open position the run itself entered is within max_order_value as it was
\* when it was entered, or its missing liquidity figure is in the log.
THEOREM CapsHold == Spec => []CappedOrLogged
<1>1. CappedOrLogged <=> \A key \in Open \ DOMAIN opening.current_positions : WithinCap(key)
  BY DEF CappedOrLogged, WithinCap
<1>2. Init => CappedOrLogged
  BY <1>1 DEF Init, Open
<1>3. ASSUME IInv, CappedOrLogged, [Next]_vars PROVE CappedOrLogged'
  <2>1. UNCHANGED opening
    BY <1>3 DEF Next, Process, Finished, Call, StartCall, Day, BeginDay, PayOut,
         SizeOrders, Entries, SkipEntry, Enter, RaiseDuplicateKey, EndEntries, Exits,
         Exit, EndExits, Revalue, RevalueOne, EndRevalue, Mark, MarkOne, EndMark,
         SkipMark, Close, EndDays, CloseOne, Return, vars, inputs
  <2>2. ASSUME NEW key \in Open' \ DOMAIN opening.current_positions
        PROVE  WithinCap(key)'
    <3>1. CASE key \in Open
      BY <1>1, <1>3, <2>2, <3>1, CapStays
    <3>2. CASE key \notin Open
      <4>1. PICK i \in DOMAIN orders : Enter(i)
        BY <1>3, <2>2, <3>2, OnlyEntriesOpen
      <4>2. key = KeyOf(orders[i])
        BY <1>3, <2>2, <3>2, <4>1, EnterKeepsBook
      <4>3. KeyOf(orders[i])' = KeyOf(orders[i])
        BY <4>1 DEF Enter, inputs, KeyOf
      <4> QED BY <1>3, <4>1, <4>2, <4>3, EntryWithinCap
    <3> QED BY <3>1, <3>2
  <2> QED BY <2>1, <2>2 DEF CappedOrLogged, WithinCap
<1> QED BY <1>2, <1>3, Inductive, PTL DEF Spec
----------------------------------------------------------------------------
(* The books balance *)

\* What the book of open positions cost, position by position.
Outlays(positions) ==
    [key \in DOMAIN positions |->
        positions[key].quantity * positions[key].entry_price
            + positions[key].entry_costs]

Paid(log) == [i \in DOMAIN log |-> log[i].quantity * log[i].entry_price + log[i].costs]
Sold(log) == [i \in DOMAIN log |-> log[i].quantity * log[i].exit_price]

\* A row of the trade log.
Trade == [key : OrderKey, exit_epoch : Nat, quantity : Nat, entry_price : Nat,
          exit_price : Nat, costs : Nat, exit_reason : {"natural", "end_of_sim"}]

LogTyped == trade_log \in Seq(Trade)

\* The day forced closes are booked on is a day number.
LEMMA EffectiveEndType ==
    ASSUME IInv PROVE EffectiveEnd \in Nat
<1>1. MtmDays \subseteq Nat /\ end_epoch \in Nat
  BY StatsAssumption DEF IInv, TypeOK, MtmDays
<1> QED BY <1>1, LastDay DEF EffectiveEnd

\* The outlay of the open positions is a natural number.
LEMMA OutlaysType ==
    ASSUME IInv
    PROVE  /\ Outlays(current_positions) \in [Open -> Nat]
           /\ Outlay(current_positions) = SumFunction(Outlays(current_positions))
           /\ Outlay(current_positions) \in Nat
<1>1. ASSUME NEW key \in Open
      PROVE  current_positions[key].quantity * current_positions[key].entry_price
                + current_positions[key].entry_costs \in Nat
  <2>1. current_positions[key] \in Position
    BY DEF IInv, TypeOK
  <2>2. /\ current_positions[key].quantity \in Nat
        /\ current_positions[key].entry_price \in Nat
        /\ current_positions[key].entry_costs \in Nat
    BY <2>1 DEF Position
  <2>3. current_positions[key].quantity * current_positions[key].entry_price \in Nat
    BY <2>2, ProductNat
  <2> QED BY <2>2, <2>3
<1>2. Outlays(current_positions) \in [Open -> Nat]
  BY <1>1 DEF Outlays, Open
<1>3. IsFiniteSet(Open)
  BY DEF IInv, TypeOK
<1> QED BY <1>2, <1>3, SumType DEF Outlay, Outlays

\* So are the sums over the trade log.
LEMMA LogSumsType ==
    ASSUME NEW log \in Seq(Trade)
    PROVE  /\ Paid(log) \in [1..Len(log) -> Nat] /\ Sold(log) \in [1..Len(log) -> Nat]
           /\ PaidFor(log) = SumFunction(Paid(log)) /\ PaidFor(log) \in Nat
           /\ SoldFor(log) = SumFunction(Sold(log)) /\ SoldFor(log) \in Nat
<1>1. ASSUME NEW i \in DOMAIN log
      PROVE  /\ log[i].quantity * log[i].entry_price + log[i].costs \in Nat
             /\ log[i].quantity * log[i].exit_price \in Nat
  <2>1. log[i] \in Trade
    OBVIOUS
  <2>2. /\ log[i].quantity \in Nat /\ log[i].entry_price \in Nat
        /\ log[i].exit_price \in Nat /\ log[i].costs \in Nat
    BY <2>1 DEF Trade
  <2>3. /\ log[i].quantity * log[i].entry_price \in Nat
        /\ log[i].quantity * log[i].exit_price \in Nat
    BY <2>2, ProductNat
  <2> QED BY <2>2, <2>3
<1>2. DOMAIN log = 1..Len(log) /\ Len(log) \in Nat
  OBVIOUS
<1>3. IsFiniteSet(1..Len(log))
  BY <1>2, FS_Interval
<1>4. Paid(log) \in [1..Len(log) -> Nat] /\ Sold(log) \in [1..Len(log) -> Nat]
  BY <1>1, <1>2 DEF Paid, Sold
<1> QED BY <1>3, <1>4, SumType DEF PaidFor, SoldFor, Paid, Sold

\* A trade row adds its own amounts to the sums.
LEMMA LogSumsAppend ==
    ASSUME NEW log \in Seq(Trade), NEW row \in Trade
    PROVE  /\ Append(log, row) \in Seq(Trade)
           /\ PaidFor(Append(log, row))
                = PaidFor(log) + (row.quantity * row.entry_price + row.costs)
           /\ SoldFor(Append(log, row)) = SoldFor(log) + row.quantity * row.exit_price
<1> DEFINE n == Len(log) + 1
           longer == Append(log, row)
<1>1. /\ longer \in Seq(Trade) /\ DOMAIN longer = 1..n /\ Len(longer) = n
      /\ DOMAIN log = 1..Len(log) /\ Len(log) \in Nat
      /\ longer[n] = row /\ \A i \in 1..Len(log) : longer[i] = log[i]
  OBVIOUS
<1> HIDE DEF longer
<1> DEFINE D == 1..n
<1>2. IsFiniteSet(D) /\ n \in D /\ D \ {n} = 1..Len(log)
  <2>1. IsFiniteSet(1..n)
    BY <1>1, FS_Interval
  <2>2. (1..n) \ {n} = 1..Len(log) /\ n \in 1..n
    BY <1>1
  <2> QED BY <2>1, <2>2
<1>3. /\ Paid(longer) \in [D -> Nat] /\ Sold(longer) \in [D -> Nat]
      /\ Paid(log) \in [D \ {n} -> Nat] /\ Sold(log) \in [D \ {n} -> Nat]
  BY <1>1, <1>2, LogSumsType
<1>4. \A i \in D \ {n} : Paid(log)[i] = Paid(longer)[i] /\ Sold(log)[i] = Sold(longer)[i]
  BY <1>1, <1>2 DEF Paid, Sold
<1>5. /\ Paid(longer)[n] = row.quantity * row.entry_price + row.costs
      /\ Sold(longer)[n] = row.quantity * row.exit_price
  BY <1>1, <1>2 DEF Paid, Sold
<1> HIDE DEF n, D
<1>6. SumFunction(Paid(longer)) = Paid(longer)[n] + SumFunction(Paid(log))
  <2>1. \A i \in D \ {n} : Paid(log)[i] = Paid(longer)[i]
    BY <1>4
  <2> QED BY <1>2, <1>3, <2>1, SumWithout
<1>7. SumFunction(Sold(longer)) = Sold(longer)[n] + SumFunction(Sold(log))
  <2>1. \A i \in D \ {n} : Sold(log)[i] = Sold(longer)[i]
    BY <1>4
  <2> QED BY <1>2, <1>3, <2>1, SumWithout
<1>8. /\ PaidFor(longer) = Paid(longer)[n] + PaidFor(log)
      /\ SoldFor(longer) = Sold(longer)[n] + SoldFor(log)
      /\ Paid(longer)[n] \in Nat /\ Sold(longer)[n] \in Nat
      /\ PaidFor(log) \in Nat /\ SoldFor(log) \in Nat
  BY <1>1, <1>2, <1>3, <1>6, <1>7, LogSumsType DEF D
<1> QED BY <1>1, <1>5, <1>8 DEF longer, n

\* A position more or less changes the outlay by what it cost.
LEMMA OutlayWithout ==
    ASSUME NEW p, NEW q, NEW key, IsFiniteSet(DOMAIN p), key \in DOMAIN p,
           Outlays(p) \in [DOMAIN p -> Nat], DOMAIN q = DOMAIN p \ {key},
           \A other \in DOMAIN q : q[other] = p[other]
    PROVE  Outlay(p) = (p[key].quantity * p[key].entry_price + p[key].entry_costs)
                        + Outlay(q)
<1>1. Outlays(q) \in [DOMAIN p \ {key} -> Nat]
      /\ \A other \in DOMAIN p \ {key} : Outlays(q)[other] = Outlays(p)[other]
  BY DEF Outlays
<1>2. SumFunction(Outlays(p)) = Outlays(p)[key] + SumFunction(Outlays(q))
  BY <1>1, SumWithout
<1>3. Outlays(p)[key] = p[key].quantity * p[key].entry_price + p[key].entry_costs
  BY DEF Outlays
<1>4. Outlay(p) = SumFunction(Outlays(p)) /\ Outlay(q) = SumFunction(Outlays(q))
  BY DEF Outlay, Outlays
<1> QED BY <1>2, <1>3, <1>4

\* The capital a run starts with is a natural number.
LEMMA OpeningCapital ==
    ASSUME OpeningKnown
    PROVE  /\ opening.margin_available \in Nat
           /\ Outlay(opening.current_positions) \in Nat
<1> DEFINE p == opening.current_positions
<1>1. /\ opening.margin_available \in Nat /\ IsFiniteSet(DOMAIN p)
      /\ \A key \in DOMAIN p : p[key] \in Position
  <2>1. CASE opening = FreshSnapshot
    BY <2>1, FS_EmptySet, NumberAssumption DEF FreshSnapshot
  <2>2. CASE opening \in Snapshots
    BY <2>2, SnapshotAssumption
  <2> QED BY <2>1, <2>2 DEF OpeningKnown
<1> HIDE DEF p
<1>2. ASSUME NEW key \in DOMAIN p
      PROVE  p[key].quantity * p[key].entry_price + p[key].entry_costs \in Nat
  <2>1. /\ p[key].quantity \in Nat /\ p[key].entry_price \in Nat
        /\ p[key].entry_costs \in Nat
    BY <1>1 DEF Position
  <2>2. p[key].quantity * p[key].entry_price \in Nat
    BY <2>1, ProductNat
  <2> QED BY <2>1, <2>2
<1>3. Outlays(p) \in [DOMAIN p -> Nat]
  BY <1>2 DEF Outlays
<1>4. Outlay(p) \in Nat
  BY <1>1, <1>3, SumType DEF Outlay, Outlays
<1> QED BY <1>1, <1>4 DEF p

\* What leaves the outlay and what the sale brings add up in the log.
LEMMA SaleAddsUp ==
    ASSUME NEW m \in Int, NEW w \in Int, NEW o \in Int, NEW capital \in Int,
           NEW s \in Int, NEW p \in Int, NEW cost \in Int, NEW costs \in Int,
           NEW value \in Int, NEW fee \in Int,
           m + w + ((cost + costs) + o) = capital + s - p
    PROVE  (m + (value - fee)) + w + o
                = capital + (s + value) - (p + (cost + (costs + fee)))
  OBVIOUS

\* A sale moves the position's outlay and its proceeds to the trade log.
LEMMA SettleBalances ==
    ASSUME IInv, OpeningKnown, LogTyped, BooksBalance, NEW key \in Open, NEW exit \in Nat,
           NEW price \in Nat, NEW reason \in {"natural", "end_of_sim"},
           Settle(key, exit, price, reason), UNCHANGED <<opening, withdrawn>>
    PROVE  LogTyped' /\ BooksBalance'
<1> DEFINE position == current_positions[key]
           value == position.quantity * price
           row == TradeRow(key, exit, price, reason)
<1>1. /\ position.quantity \in Nat /\ position.entry_price \in Nat
      /\ position.entry_costs \in Nat /\ key \in OrderKey
  BY DEF IInv, TypeOK, Position
<1>2. value \in Nat /\ SellCosts(value) \in Nat
  <2>1. value \in Nat
    BY <1>1, ProductNat
  <2> QED BY <2>1, ShareAtMost, NumberAssumption DEF SellCosts
<1>3. /\ row \in Trade /\ row.quantity = position.quantity /\ row.exit_price = price
      /\ row.entry_price = position.entry_price
      /\ row.costs = position.entry_costs + SellCosts(value)
  BY <1>1, <1>2 DEF TradeRow, Trade
<1>4. /\ trade_log' = Append(trade_log, row) /\ trade_log \in Seq(Trade)
      /\ margin_available' = margin_available + (value - SellCosts(value))
  BY DEF Settle, Proceeds, LogTyped
<1> DEFINE cost == position.quantity * position.entry_price
<1>5. cost \in Nat
  BY <1>1, ProductNat
<1>6. Outlay(current_positions) = (cost + position.entry_costs) + Outlay(current_positions')
  <2>1. /\ DOMAIN current_positions' = DOMAIN current_positions \ {key}
        /\ \A other \in DOMAIN current_positions' :
                current_positions'[other] = current_positions[other]
    BY DEF Settle, Without, Open
  <2>2. IsFiniteSet(DOMAIN current_positions)
        /\ Outlays(current_positions) \in [DOMAIN current_positions -> Nat]
    BY OutlaysType DEF IInv, TypeOK, Open
  <2>3. key \in DOMAIN current_positions
    BY DEF Open
  <2> QED BY <2>1, <2>2, <2>3, OutlayWithout
<1>7. /\ trade_log' \in Seq(Trade)
      /\ PaidFor(trade_log') = PaidFor(trade_log) + (cost + (position.entry_costs + SellCosts(value)))
      /\ SoldFor(trade_log') = SoldFor(trade_log) + value
  BY <1>3, <1>4, LogSumsAppend
<1>8. /\ PaidFor(trade_log) \in Nat /\ SoldFor(trade_log) \in Nat
      /\ Outlay(current_positions) \in Nat /\ margin_available \in Int /\ withdrawn \in Int
  BY LogSumsType, OutlaysType DEF LogTyped, IInv, TypeOK
<1>9. Outlay(current_positions') \in Int
  <2>1. Outlay(current_positions') \in Nat
    <3>1. Outlays(current_positions') \in [DOMAIN current_positions \ {key} -> Nat]
      BY OutlaysType DEF Outlays, Settle, Without, Open
    <3>2. IsFiniteSet(DOMAIN current_positions \ {key})
      BY FS_RemoveElement DEF IInv, TypeOK, Open
    <3>3. Outlay(current_positions') = SumFunction(Outlays(current_positions'))
      BY DEF Outlay, Outlays
    <3> QED BY <3>1, <3>2, <3>3, SumType
  <2> QED BY <2>1
<1> HIDE DEF cost, value, position
<1>10. opening.margin_available \in Nat /\ Outlay(opening.current_positions) \in Nat
  BY OpeningCapital
<1>11. margin_available + withdrawn + Outlay(current_positions)
            = opening.margin_available + Outlay(opening.current_positions)
                + SoldFor(trade_log) - PaidFor(trade_log)
  BY DEF BooksBalance
<1>12. position.entry_costs \in Nat /\ value \in Nat /\ SellCosts(value) \in Nat /\ cost \in Nat
  BY <1>1, <1>2, <1>5 DEF position
<1>13. margin_available' + withdrawn + Outlay(current_positions')
            = opening.margin_available + Outlay(opening.current_positions)
                + SoldFor(trade_log') - PaidFor(trade_log')
  <2>1. margin_available + withdrawn + ((cost + position.entry_costs) + Outlay(current_positions'))
            = (opening.margin_available + Outlay(opening.current_positions))
                + SoldFor(trade_log) - PaidFor(trade_log)
    BY <1>6, <1>11
  <2>2. opening.margin_available + Outlay(opening.current_positions) \in Int
    BY <1>10
  <2>3. (margin_available + (value - SellCosts(value))) + withdrawn + Outlay(current_positions')
            = (opening.margin_available + Outlay(opening.current_positions))
                + (SoldFor(trade_log) + value)
                - (PaidFor(trade_log) + (cost + (position.entry_costs + SellCosts(value))))
    BY <1>8, <1>9, <1>12, <2>1, <2>2, SaleAddsUp
  <2> QED BY <1>4, <1>7, <2>3
<1> QED BY <1>7, <1>13 DEF BooksBalance, LogTyped

\* A purchase moves cash to the outlay of the open positions.
LEMMA EnterBalances ==
    ASSUME IInv, OpeningKnown, BooksBalance, NEW i \in DOMAIN orders, Enter(i)
    PROVE  BooksBalance'
<1> DEFINE new == KeyOf(orders[i])
           cost == Quantity(orders[i]) * orders[i].entry_price
           costs == BuyCosts(Notional(orders[i]))
<1>1. /\ margin_available' = margin_available - (cost + costs)
      /\ UNCHANGED <<opening, withdrawn, trade_log>>
  BY DEF Enter, RequiredMargin, Notional, inputs, payout
<1>2. /\ new \in DOMAIN current_positions' /\ new \notin DOMAIN current_positions
      /\ DOMAIN current_positions = DOMAIN current_positions' \ {new}
      /\ \A other \in DOMAIN current_positions :
            current_positions[other] = current_positions'[other]
      /\ current_positions'[new].quantity = Quantity(orders[i])
      /\ current_positions'[new].entry_price = orders[i].entry_price
      /\ current_positions'[new].entry_costs = costs
  BY DEF Enter, Open
<1>3. /\ IsFiniteSet(DOMAIN current_positions')
      /\ Outlays(current_positions') \in [DOMAIN current_positions' -> Nat]
  <2>1. IInv'
    BY EntriesKeepIInv DEF Entries
  <2>2. Outlays(current_positions') \in [DOMAIN current_positions' -> Nat]
    <3>1. \A key \in DOMAIN current_positions' : current_positions'[key] \in Position
      BY <2>1 DEF IInv, TypeOK, Open
    <3>2. ASSUME NEW key \in DOMAIN current_positions'
          PROVE  current_positions'[key].quantity * current_positions'[key].entry_price
                    + current_positions'[key].entry_costs \in Nat
      <4>1. /\ current_positions'[key].quantity \in Nat
            /\ current_positions'[key].entry_price \in Nat
            /\ current_positions'[key].entry_costs \in Nat
        BY <3>1 DEF Position
      <4>2. current_positions'[key].quantity * current_positions'[key].entry_price \in Nat
        BY <4>1, ProductNat
      <4> QED BY <4>1, <4>2
    <3> QED BY <3>2 DEF Outlays
  <2> QED BY <2>1, <2>2 DEF IInv, TypeOK, Open
<1>4. Outlay(current_positions') = (cost + costs) + Outlay(current_positions)
  <2>1. Outlay(current_positions')
            = (current_positions'[new].quantity * current_positions'[new].entry_price
                + current_positions'[new].entry_costs) + Outlay(current_positions)
    BY <1>2, <1>3, OutlayWithout
  <2> QED BY <1>2, <2>1
<1>5. cost + costs \in Nat
  BY EntryAmounts DEF Enter, IInv, RequiredMargin, Notional
<1>6. /\ Outlay(current_positions) \in Nat /\ margin_available \in Int /\ withdrawn \in Int
  BY OutlaysType DEF IInv, TypeOK
<1> HIDE DEF cost, costs
<1>7. margin_available' + withdrawn + Outlay(current_positions')
        = margin_available + withdrawn + Outlay(current_positions)
  BY <1>1, <1>4, <1>5, <1>6
<1> QED BY <1>1, <1>7 DEF BooksBalance

\* Marking a position to market moves no money.
LEMMA OthersBalance ==
    ASSUME IInv, OpeningKnown, BooksBalance, [Next]_vars,
           ~(\E i \in DOMAIN orders : Enter(i)), ~(\E key \in DueExits : Exit(key)),
           ~(\E key \in Open : CloseOne(key))
    PROVE  BooksBalance' /\ trade_log' = trade_log
<1> USE DEF inputs, logs, book, payout
<1>1. UNCHANGED <<opening, trade_log>>
  BY DEF Next, Process, Finished, Call, StartCall, Day, BeginDay, PayOut,
         SizeOrders, Entries, SkipEntry, RaiseDuplicateKey, EndEntries, Exits,
         EndExits, Revalue, RevalueOne, EndRevalue, Mark, MarkOne, EndMark,
         SkipMark, Close, EndDays, Return, vars
<1>2. margin_available' + withdrawn' = margin_available + withdrawn
  <2>1. CASE PayOut
    <3> DEFINE account == current_position_value + margin_available
    <3>1. Withdrawal(account) \in Nat /\ margin_available \in Int /\ withdrawn \in Int
      BY WithdrawalType DEF IInv, TypeOK
    <3> QED BY <2>1, <3>1 DEF PayOut
  <2>2. CASE UNCHANGED <<margin_available, withdrawn>>
    BY <2>2
  <2> QED BY <2>1, <2>2
    DEF Next, Process, Finished, Call, StartCall, Day, BeginDay,
         SizeOrders, Entries, SkipEntry, RaiseDuplicateKey, EndEntries, Exits,
         EndExits, Revalue, RevalueOne, EndRevalue, Mark, MarkOne, EndMark,
         SkipMark, Close, EndDays, Return, vars
<1>3. Outlay(current_positions') = Outlay(current_positions)
  <2>1. CASE \E key \in todo : MarkOne(key)
    <3>1. PICK key \in todo : MarkOne(key)
      BY <2>1
    <3>2. DOMAIN current_positions' = DOMAIN current_positions
      BY <3>1 DEF MarkOne
    <3>3. ASSUME NEW other \in DOMAIN current_positions
          PROVE  /\ current_positions'[other].quantity = current_positions[other].quantity
                 /\ current_positions'[other].entry_price
                        = current_positions[other].entry_price
                 /\ current_positions'[other].entry_costs
                        = current_positions[other].entry_costs
      <4>1. current_positions[other] \in Position
        BY DEF IInv, TypeOK, Open
      <4> QED BY <3>1, <4>1 DEF MarkOne, Position
    <3>4. Outlays(current_positions') = Outlays(current_positions)
      BY <3>2, <3>3 DEF Outlays
    <3> QED BY <3>4 DEF Outlay, Outlays
  <2>2. CASE UNCHANGED current_positions
    BY <2>2
  <2> QED BY <2>1, <2>2
    DEF Next, Process, Finished, Call, StartCall, Day, BeginDay, PayOut,
         SizeOrders, Entries, SkipEntry, RaiseDuplicateKey, EndEntries, Exits,
         EndExits, Revalue, RevalueOne, EndRevalue, Mark, EndMark,
         SkipMark, Close, EndDays, Return, vars
<1> QED BY <1>1, <1>2, <1>3 DEF BooksBalance

\* Every step keeps the books.
LEMMA StepBalances ==
    ASSUME IInv, OpeningKnown, LogTyped, BooksBalance, [Next]_vars
    PROVE  LogTyped' /\ BooksBalance'
<1>1. CASE \E i \in DOMAIN orders : Enter(i)
  <2>1. trade_log' = trade_log
    BY <1>1 DEF Enter
  <2> QED BY <1>1, <2>1, EnterBalances DEF LogTyped
<1>2. CASE \E key \in DueExits : Exit(key)
  <2>1. PICK key \in DueExits : Exit(key)
    BY <1>2
  <2>2. key \in Open /\ key.exit_epoch \in Nat /\ current_positions[key].exit_price \in Nat
    BY DEF DueExits, IInv, TypeOK, Position, OrderKey
  <2> QED BY <2>1, <2>2, SettleBalances DEF Exit, inputs, payout
<1>3. CASE \E key \in Open : CloseOne(key)
  <2>1. PICK key \in Open : CloseOne(key)
    BY <1>3
  <2>2. EffectiveEnd \in Nat /\ current_positions[key].last_close_price \in Nat
    BY EffectiveEndType DEF IInv, TypeOK, Position
  <2> QED BY <2>1, <2>2, SettleBalances DEF CloseOne, inputs, payout
<1> QED BY <1>1, <1>2, <1>3, OthersBalance DEF LogTyped

\* The log and the books in every reachable state.
LEMMA AlwaysBalanced == Spec => [](LogTyped /\ BooksBalance)
<1>1. Init => LogTyped /\ BooksBalance
  <2> SUFFICES ASSUME Init PROVE LogTyped /\ BooksBalance
    OBVIOUS
  <2>1. trade_log = <<>> /\ withdrawn = 0 /\ margin_available = opening.margin_available
        /\ current_positions = opening.current_positions
    BY DEF Init
  <2>2. trade_log \in Seq(Trade)
    BY <2>1
  <2>3. PaidFor(trade_log) = 0 /\ SoldFor(trade_log) = 0
    <3>1. Paid(trade_log) \in [{} -> Nat] /\ Sold(trade_log) \in [{} -> Nat]
      BY <2>1 DEF Paid, Sold
    <3> QED BY <2>2, <3>1, SumEmpty, LogSumsType
  <2>4. OpeningKnown
    BY DEF Init, OpeningKnown
  <2> QED BY <2>1, <2>2, <2>3, <2>4, OpeningCapital DEF LogTyped, BooksBalance
<1>2. IInv /\ OpeningKnown /\ LogTyped /\ BooksBalance /\ [Next]_vars
        => LogTyped' /\ BooksBalance'
  BY StepBalances
<1> QED BY <1>1, <1>2, AlwaysOnSchedule, PTL DEF Spec

\* The books balance at every step, whatever the prices, the charges, the payouts and
\* the calls: no cash appears or disappears but through the trades the log reports.
THEOREM BooksAlwaysBalance == Spec => []BooksBalance
BY AlwaysBalanced, PTL
----------------------------------------------------------------------------
(* The account value the orders are sized from *)

Values(positions, keys) ==
    [key \in keys |-> positions[key].quantity * positions[key].last_close_price]

\* On days that all have bars and without payouts nothing comes between the marks.
Undisturbed == OnGrid /\ cfg.pay_out.type = "none"

\* The loops that sum positions have summed those they are through with.
LoopSums ==
    pc \in {"revalue", "mark"} =>
        invested_value = ValueOf(current_positions, Open \ todo)

\* Before the first call the positions are the snapshot's, marked; afterwards none
\* is left between calls.
BetweenCalls ==
    /\ calls = 0 => pc = "idle"
    /\ pc = "idle" => IF calls = 0
                      THEN /\ current_positions = opening.current_positions
                           /\ current_position_value = MarkedValue
                      ELSE Open = {} /\ end_epoch = simulation_date

\* On the grid every day that is walked has bars.
DaysHaveBars ==
    OnGrid => /\ pc \in Walking => dates_left \subseteq MtmDays
              /\ pc \in InDay => today \in MtmDays

\* The value of the last mark is the value of the book until the next orders.
MarkedBook ==
    Undisturbed =>
        /\ pc \in {"day", "payout"} \/ (pc = "idle" /\ calls > 0) =>
                current_position_value = MarkedValue
        /\ pc = "close" => current_position_value = 0
        /\ pc = "payout" => current_account_value
                                = current_position_value + margin_available
        /\ pc = "entries" /\ cursor = 0 =>
                current_account_value = margin_available + MarkedValue

SizingInv == LoopSums /\ BetweenCalls /\ DaysHaveBars /\ MarkedBook

\* Nothing is worth nothing.
LEMMA NoValue == \A positions : ValueOf(positions, {}) = 0
<1> TAKE positions
<1>1. Values(positions, {}) \in [{} -> Nat]
  BY DEF Values
<1> QED BY <1>1, SumEmpty DEF ValueOf, Values

\* One position more adds its value, whatever else is known of the others.
LEMMA ValueOfOneMore ==
    ASSUME NEW p, NEW q, NEW K, NEW x, IsFiniteSet(K), x \notin K,
           \A y \in K \cup {x} : p[y] \in Position,
           \A y \in K : /\ q[y].quantity = p[y].quantity
                        /\ q[y].last_close_price = p[y].last_close_price
    PROVE  /\ ValueOf(p, K \cup {x})
                = p[x].quantity * p[x].last_close_price + ValueOf(q, K)
           /\ ValueOf(q, K) \in Nat
<1> DEFINE D == K \cup {x}
<1>1. IsFiniteSet(D) /\ x \in D /\ D \ {x} = K
  BY FS_AddElement
<1>2. ASSUME NEW y \in D PROVE p[y].quantity * p[y].last_close_price \in Nat
  <2>1. p[y].quantity \in Nat /\ p[y].last_close_price \in Nat
    BY DEF Position
  <2> QED BY <2>1, ProductNat
<1>3. Values(p, D) \in [D -> Nat]
  BY <1>2 DEF Values
<1>4. Values(q, K) \in [D \ {x} -> Nat]
  BY <1>1, <1>2 DEF Values
<1>5. \A y \in D \ {x} : Values(q, K)[y] = Values(p, D)[y]
  BY <1>1 DEF Values
<1>6. Values(p, D)[x] = p[x].quantity * p[x].last_close_price
  BY <1>1 DEF Values
<1> HIDE DEF D
<1>7. SumFunction(Values(p, D)) = Values(p, D)[x] + SumFunction(Values(q, K))
  BY <1>1, <1>3, <1>4, <1>5, SumWithout
<1>8. SumFunction(Values(q, K)) \in Nat
  BY <1>1, <1>4, SumType
<1> QED BY <1>6, <1>7, <1>8 DEF ValueOf, Values, D

\* The snapshot of a run is marked.
LEMMA InitIsSized == Init => SizingInv
<1> SUFFICES ASSUME Init PROVE SizingInv
  OBVIOUS
<1>1. /\ pc = "idle" /\ calls = 0 /\ current_positions = opening.current_positions
      /\ current_position_value = opening.current_position_value
  BY DEF Init
<1>2. current_position_value = MarkedValue
  <2>1. CASE opening = FreshSnapshot
    BY <1>1, <2>1, NoValue DEF FreshSnapshot, MarkedValue, Open
  <2>2. CASE opening \in Snapshots
    BY <1>1, <2>2, MarkedSnapshots DEF MarkedValue, Open
  <2> QED BY <2>1, <2>2 DEF Init
<1> QED BY <1>1, <1>2 DEF SizingInv, LoopSums, BetweenCalls, DaysHaveBars,
                          MarkedBook, Walking, InDay

\* A loop over the positions adds the one it is at to those it is through with.
LEMMA LoopsKeepSums ==
    ASSUME IInv, LoopSums, [Next]_vars PROVE LoopSums'
<1> USE DEF LoopSums, inputs, book, scan
<1>1. IsFiniteSet(Open) /\ todo \subseteq Open /\ \A key \in Open : current_positions[key] \in Position
  BY DEF IInv, TypeOK
<1>2. CASE \E key \in todo : RevalueOne(key)
  <2>1. PICK key \in todo : RevalueOne(key)
    BY <1>2
  <2> DEFINE K == Open \ todo
  <2>2. IsFiniteSet(K) /\ key \notin K /\ K \cup {key} \subseteq Open
    BY <1>1, FS_Subset
  <2>3. /\ ValueOf(current_positions, K \cup {key})
              = current_positions[key].quantity * current_positions[key].last_close_price
                    + ValueOf(current_positions, K)
        /\ ValueOf(current_positions, K) \in Nat
    <3> HIDE DEF K
    <3> QED BY <1>1, <2>2, ValueOfOneMore
  <2>4. Open' \ todo' = K \cup {key} /\ current_positions' = current_positions
    BY <1>1, <2>1 DEF RevalueOne, Open
  <2>5. invested_value' = ValueOf(current_positions, K)
            + current_positions[key].quantity * current_positions[key].last_close_price
    BY <2>1 DEF RevalueOne
  <2>6. current_positions[key].quantity * current_positions[key].last_close_price \in Nat
    <3>1. current_positions[key] \in Position
      BY <1>1
    <3> QED BY <3>1, ProductNat DEF Position
  <2> HIDE DEF K
  <2>7. ValueOf(current_positions', Open' \ todo') = ValueOf(current_positions, K \cup {key})
    BY <2>4
  <2>8. invested_value' = ValueOf(current_positions, K \cup {key})
    BY <2>3, <2>5, <2>6
  <2> QED BY <2>7, <2>8
<1>3. CASE \E key \in todo : MarkOne(key)
  <2>1. PICK key \in todo : MarkOne(key)
    BY <1>3
  <2> DEFINE K == Open \ todo
             p == current_positions'
  <2>2. IsFiniteSet(K) /\ key \notin K /\ K \cup {key} \subseteq Open
    BY <1>1, FS_Subset
  <2>3. /\ Open' = Open /\ p[key].quantity = current_positions[key].quantity
        /\ p[key].last_close_price = MarkedPrice(key)
        /\ \A other \in Open \ {key} : p[other] = current_positions[other]
    BY <1>1, <2>1 DEF MarkOne, Open, Position
  <2>4. \A other \in K \cup {key} : p[other] \in Position
    <3>1. IInv'
      BY <1>3, MarkKeepsIInv DEF Mark
    <3> QED BY <2>2, <2>3, <3>1 DEF IInv, TypeOK
  <2>5. \A other \in K : /\ current_positions[other].quantity = p[other].quantity
                         /\ current_positions[other].last_close_price
                                = p[other].last_close_price
    BY <2>2, <2>3
  <2>6. /\ ValueOf(p, K \cup {key})
              = p[key].quantity * p[key].last_close_price + ValueOf(current_positions, K)
        /\ ValueOf(current_positions, K) \in Nat
    <3> HIDE DEF K, p
    <3> QED BY <2>2, <2>4, <2>5, ValueOfOneMore
  <2>7. Open' \ todo' = K \cup {key}
    BY <1>1, <2>1, <2>3 DEF MarkOne
  <2>8. invested_value' = ValueOf(current_positions, K)
            + p[key].quantity * p[key].last_close_price
    BY <2>1, <2>3 DEF MarkOne
  <2>9. p[key].quantity * p[key].last_close_price \in Nat
    <3>1. p[key] \in Position
      BY <2>4
    <3> QED BY <3>1, ProductNat DEF Position
  <2>10. ValueOf(current_positions', Open' \ todo') = ValueOf(p, K \cup {key})
    <3> HIDE DEF K
    <3> QED BY <2>7
  <2> HIDE DEF K, p
  <2>11. invested_value' = ValueOf(p, K \cup {key})
    BY <2>6, <2>8, <2>9
  <2> QED BY <2>10, <2>11
<1>4. CASE SizeOrders \/ EndEntries \/ EndExits
  <2>1. /\ pc' \in {"revalue", "mark"} => todo' = Open
        /\ invested_value' = 0 /\ Open' = Open
    BY <1>4 DEF SizeOrders, FirstPhase, EndEntries, EndExits, Open
  <2>2. Open \ Open = {}
    OBVIOUS
  <2>3. ValueOf(current_positions', {}) = 0
    BY NoValue
  <2> QED BY <2>1, <2>2, <2>3
<1> QED BY <1>2, <1>3, <1>4
  DEF Next, Process, Finished, Call, StartCall, Day, BeginDay, PayOut, Entries,
      SkipEntry, Enter, RaiseDuplicateKey, Exits, Exit, Revalue, EndRevalue, Mark,
      EndMark, SkipMark, Close, EndDays, CloseOne, Return, vars, Open

\* A call that returns has closed everything.
LEMMA CallsEndEmpty ==
    ASSUME IInv, BetweenCalls, [Next]_vars PROVE BetweenCalls'
<1>1. CASE Return
  BY <1>1 DEF Return, BetweenCalls, book, Open
<1>2. CASE Finished \/ UNCHANGED vars
  BY <1>2 DEF Finished, vars, inputs, clock, book, BetweenCalls, MarkedValue, Open
<1>3. CASE Call
  BY <1>3 DEF Call, StartCall, IInv, TypeOK, BetweenCalls
<1>4. CASE Process /\ ~Return
  BY <1>4 DEF clock, BetweenCalls, Process, Day, BeginDay, PayOut, SizeOrders,
      FirstPhase, Entries, SkipEntry, Enter, RaiseDuplicateKey, EndEntries, Exits,
      Exit, EndExits, Revalue, RevalueOne, EndRevalue, Mark, MarkOne, EndMark,
      SkipMark, Close, EndDays, CloseOne
<1> QED BY <1>1, <1>2, <1>3, <1>4 DEF Next

\* Whether the days have bars is the same before and after a call, and a call that
\* starts on the grid was on it before.
LEMMA GridKept ==
    ASSUME IInv, BetweenCalls, [Next]_vars
    PROVE  /\ ~Call => (OnGrid' <=> OnGrid) /\ (Undisturbed' <=> Undisturbed)
           /\ Call /\ calls > 0 => (OnGrid' => OnGrid) /\ (Undisturbed' => Undisturbed)
<1>1. UNCHANGED <<orders, stats, opening, cfg>>
  BY DEF Next, Process, Finished, Call, StartCall, Day, BeginDay, PayOut, SizeOrders,
      Entries, SkipEntry, Enter, RaiseDuplicateKey, EndEntries, Exits,
      Exit, EndExits, Revalue, RevalueOne, EndRevalue, Mark, MarkOne, EndMark,
      SkipMark, Close, EndDays, CloseOne, Return, vars, inputs
<1>2. ASSUME ~Call PROVE end_epoch' = end_epoch
  BY <1>2 DEF Next, Process, Finished, Day, BeginDay, PayOut, SizeOrders,
      Entries, SkipEntry, Enter, RaiseDuplicateKey, EndEntries, Exits,
      Exit, EndExits, Revalue, RevalueOne, EndRevalue, Mark, MarkOne, EndMark,
      SkipMark, Close, EndDays, CloseOne, Return, vars, clock
<1>3. ASSUME Call, calls > 0 PROVE end_epoch \in Nat /\ end_epoch' \in Nat /\ end_epoch <= end_epoch'
  <2>1. PICK end \in Ends : StartCall(end)
    BY <1>3 DEF Call
  <2>2. end_epoch = simulation_date /\ end_epoch' = end /\ end >= simulation_date
    BY <1>3, <2>1 DEF StartCall, BetweenCalls, IInv, TypeOK
  <2> QED BY <2>2, NumberAssumption DEF IInv, TypeOK
<1>4. ASSUME ~Call PROVE (OnGrid' <=> OnGrid) /\ (Undisturbed' <=> Undisturbed)
  BY <1>1, <1>2, <1>4 DEF OnGrid, MtmDays, Undisturbed
<1>5. ASSUME Call, calls > 0, OnGrid' PROVE OnGrid
  <2>1. 0..end_epoch \subseteq 0..end_epoch'
    BY <1>3, <1>5
  <2> QED BY <1>1, <1>5, <2>1 DEF OnGrid, MtmDays
<1> QED BY <1>1, <1>4, <1>5 DEF Undisturbed

\* On the grid a call walks only days that have bars.
LEMMA WalkedDaysHaveBars ==
    ASSUME IInv, BetweenCalls, DaysHaveBars, [Next]_vars PROVE DaysHaveBars'
<1> USE DEF DaysHaveBars, Walking, InDay
<1>1. CASE Call
  <2>1. PICK end \in Ends : StartCall(end)
    BY <1>1 DEF Call
  <2> SUFFICES ASSUME OnGrid' PROVE ProcessingDates(end) \subseteq MtmDays
    BY <2>1 DEF StartCall, inputs, MtmDays
  <2>2. /\ \A i \in DOMAIN orders : {orders[i].entry_epoch, orders[i].exit_epoch}
                                        \cap 0..end \subseteq MtmDays
        /\ \A key \in DOMAIN opening.current_positions : key.exit_epoch \in MtmDays
    BY <2>1 DEF OnGrid, MtmDays, StartCall, inputs
  <2>3. Open = {} \/ Open = DOMAIN opening.current_positions
    BY <2>1 DEF StartCall, BetweenCalls, Open
  <2>4. end \in Nat /\ simulation_date \in Nat
    BY NumberAssumption DEF IInv, TypeOK
  <2>5. ASSUME NEW i \in DOMAIN orders
        PROVE  orders[i].entry_epoch \in Nat /\ orders[i].exit_epoch \in Nat
    BY RowType DEF IInv, Order
  <2>6. ASSUME NEW i \in DOMAIN orders, NEW day \in {orders[i].entry_epoch, orders[i].exit_epoch},
               day <= end
        PROVE  day \in MtmDays
    <3>1. day \in Nat
      BY <2>5
    <3>2. day \in 0..end
      BY <2>4, <2>6, <3>1
    <3> QED BY <2>2, <3>2
  <2>7. ASSUME NEW day \in ProcessingDates(end) PROVE day \in MtmDays
    BY <2>2, <2>3, <2>6 DEF ProcessingDates
  <2> QED BY <2>7
<1>2. CASE ~Call
  <2>1. OnGrid' <=> OnGrid
    BY <1>2, GridKept
  <2>2. MtmDays' = MtmDays
    BY <1>2 DEF Next, Process, Finished, Day, BeginDay, PayOut, SizeOrders,
      Entries, SkipEntry, Enter, RaiseDuplicateKey, EndEntries, Exits,
      Exit, EndExits, Revalue, RevalueOne, EndRevalue, Mark, MarkOne, EndMark,
      SkipMark, Close, EndDays, CloseOne, Return, vars, inputs, MtmDays
  <2> QED BY <1>2, <2>1, <2>2
   DEF Next, Process, Finished, Day, BeginDay, PayOut, SizeOrders, FirstPhase,
      Entries, SkipEntry, Enter, RaiseDuplicateKey, EndEntries, Exits,
      Exit, EndExits, Revalue, RevalueOne, EndRevalue, Mark, MarkOne, EndMark,
      SkipMark, Close, EndDays, CloseOne, Return, vars, clock
<1> QED BY <1>1, <1>2

\* Nothing that happens between two marks changes what the book is worth.
LEMMA BookStaysMarked ==
    ASSUME IInv, SizingInv, [Next]_vars PROVE MarkedBook'
<1> USE DEF SizingInv, MarkedBook
<1> SUFFICES ASSUME Undisturbed'
             PROVE  /\ pc' \in {"day", "payout"} \/ (pc' = "idle" /\ calls' > 0) =>
                            current_position_value' = MarkedValue'
                    /\ pc' = "close" => current_position_value' = 0
                    /\ pc' = "payout" => current_account_value'
                                            = current_position_value' + margin_available'
                    /\ pc' = "entries" /\ cursor' = 0 =>
                            current_account_value' = margin_available' + MarkedValue'
  OBVIOUS
<1>1. CASE Call
  <2>1. PICK end \in Ends : StartCall(end)
    BY <1>1 DEF Call
  <2>2. /\ pc = "idle" /\ pc' = "day" /\ current_position_value' = current_position_value
        /\ MarkedValue' = MarkedValue
    BY <2>1 DEF StartCall, MarkedValue, Open
  <2>3. current_position_value = MarkedValue
    <3>1. CASE calls = 0
      BY <2>2, <3>1 DEF BetweenCalls
    <3>2. CASE calls > 0
      BY <1>1, <2>2, <3>2, GridKept
    <3> QED BY <3>1, <3>2 DEF IInv, TypeOK
  <2> QED BY <2>2, <2>3
<1>2. CASE ~Call
  <2>1. Undisturbed /\ cfg.pay_out.type = "none"
    BY <1>2, GridKept DEF Undisturbed
  <2>2. CASE UNCHANGED <<pc, current_position_value, current_positions, calls, cursor,
                         current_account_value, margin_available>>
    BY <2>1, <2>2 DEF MarkedValue, Open
  <2>3. CASE Day
    <3>1. CASE PayOut
      BY <2>1, <3>1 DEF PayOut, PayOutIsDue
    <3>2. CASE \E day \in dates_left : BeginDay(day)
      BY <2>1, <3>2 DEF BeginDay, MarkedValue, Open, book
    <3>3. CASE SizeOrders
      BY <2>1, <3>3 DEF SizeOrders, FirstPhase, MarkedValue, Open, book, IInv, TypeOK
    <3> QED BY <2>3, <3>1, <3>2, <3>3 DEF Day
  <2>4. CASE Entries
    <3>1. \A i \in DOMAIN orders : i # 0
      BY OrderAssumption DEF IInv, TypeOK
    <3> QED BY <2>4, <3>1 DEF Entries, SkipEntry, Enter, RaiseDuplicateKey, EndEntries
  <2>5. CASE Exits
    BY <2>5 DEF Exits, Exit, EndExits
  <2>6. CASE Revalue \/ Mark
    <3>1. CASE (\E key \in todo : RevalueOne(key) \/ MarkOne(key))
      BY <3>1 DEF RevalueOne, MarkOne
    <3>2. Open \ {} = Open
      OBVIOUS
    <3>3. CASE EndRevalue
      BY <3>2, <3>3 DEF EndRevalue, LoopSums, MarkedValue, Open, book
    <3>4. CASE EndMark
      BY <3>2, <3>4 DEF EndMark, LoopSums, MarkedValue, Open, book
    <3>5. CASE SkipMark
      BY <2>1, <3>5 DEF SkipMark, DaysHaveBars, InDay, Undisturbed
    <3> QED BY <2>6, <3>1, <3>3, <3>4, <3>5 DEF Revalue, Mark
  <2>7. CASE Close
    <3>1. Open = {} => MarkedValue = 0
      BY NoValue DEF MarkedValue
    <3>2. CASE EndDays
      BY <2>1, <3>1, <3>2 DEF EndDays
    <3>3. CASE \E key \in Open : CloseOne(key)
      BY <2>1, <3>3 DEF CloseOne
    <3>4. CASE Return
      BY <2>1, <3>1, <3>4 DEF Return, MarkedValue, Open, book
    <3> QED BY <2>7, <3>2, <3>3, <3>4 DEF Close
  <2> QED BY <1>2, <2>2, <2>3, <2>4, <2>5, <2>6, <2>7
    DEF Next, Process, Finished, vars, book, clock, sizing
<1> QED BY <1>1, <1>2

\* On days that all have bars, and without payouts, the account value the orders of a
\* day are sized from is the cash plus every open position at its last close, over any
\* sequence of days and calls.
THEOREM OrdersSizedFromBook == Spec => []SizedFromTheBook
<1>1. Init => SizingInv
  BY InitIsSized
<1>2. IInv /\ SizingInv /\ [Next]_vars => SizingInv'
  BY LoopsKeepSums, CallsEndEmpty, WalkedDaysHaveBars, BookStaysMarked DEF SizingInv
<1>3. SizingInv => SizedFromTheBook
  BY DEF SizingInv, MarkedBook, Undisturbed, SizedFromTheBook
<1> QED BY <1>1, <1>2, <1>3, Inductive, PTL DEF Spec
----------------------------------------------------------------------------
(* Rows that are traded again *)

\* A row that was sold after its entry day is behind the run: it is not open and
\* the day it could be entered on has passed, in this call and in later ones.
ForGood(i) ==
    LET key == trade_log[i].key
    IN  key.entry_epoch < trade_log[i].exit_epoch =>
            /\ key \notin Open
            /\ \A j \in DOMAIN trade_log : j > i => trade_log[j].key # key
            /\ HasReached(key.entry_epoch + 1)
SoldForGood == \A i \in DOMAIN trade_log : ForGood(i)

\* A forced close is booked on the last day of the call at the latest.
LEMMA EffectiveEndInCall ==
    ASSUME IInv PROVE EffectiveEnd <= end_epoch
<1>1. MtmDays \subseteq Nat /\ end_epoch \in Nat
  BY StatsAssumption DEF IInv, TypeOK, MtmDays
<1>2. CASE end_epoch \notin MtmDays /\ \E day \in MtmDays : day <= end_epoch
  <2> DEFINE last == CHOOSE day \in MtmDays :
                        /\ day <= end_epoch
                        /\ \A other \in MtmDays : other <= end_epoch => other <= day
  <2>1. last <= end_epoch
    BY <1>1, <1>2, LastDay
  <2> QED BY <1>2, <2>1 DEF EffectiveEnd
<1>3. CASE ~(end_epoch \notin MtmDays /\ \E day \in MtmDays : day <= end_epoch)
  BY <1>1, <1>3 DEF EffectiveEnd
<1> QED BY <1>2, <1>3

\* The day after an entry, once reached, stays reached.
LEMMA DayAfterReached ==
    ASSUME IInv, CalendarInv, [Next]_vars, NEW e \in Nat, HasReached(e + 1)
    PROVE  HasReached(e + 1)'
<1>1. PICK day \in Int : day = e + 1
  OBVIOUS
<1>2. HasReached(day)'
  BY <1>1, ReachedStays
<1> QED BY <1>1, <1>2

\* A step that neither sells nor enters a row of the log.
LEMMA StaysForGood ==
    ASSUME IInv, CalendarInv, LogTyped, [Next]_vars, NEW i \in DOMAIN trade_log, ForGood(i),
           trade_log'[i] = trade_log[i],
           \A j \in DOMAIN trade_log' \ DOMAIN trade_log : trade_log'[j].key \in Open,
           \A j \in DOMAIN trade_log : trade_log'[j] = trade_log[j],
           \A key \in Open' \ Open : ~HasReached(key.entry_epoch + 1)
    PROVE  ForGood(i)'
<1> DEFINE key == trade_log[i].key
<1> SUFFICES ASSUME key.entry_epoch < trade_log[i].exit_epoch
             PROVE  /\ key \notin Open'
                    /\ \A j \in DOMAIN trade_log' : j > i => trade_log'[j].key # key
                    /\ HasReached(trade_log[i].key.entry_epoch + 1)'
  BY DEF ForGood
<1>1. /\ key \notin Open /\ HasReached(key.entry_epoch + 1)
      /\ \A j \in DOMAIN trade_log : j > i => trade_log[j].key # key
  BY DEF ForGood
<1>2. PICK e \in Nat : e = key.entry_epoch
  <2>1. trade_log[i] \in Trade
    BY DEF LogTyped
  <2> QED BY <2>1 DEF Trade, OrderKey
<1>3. HasReached(e + 1)'
  BY <1>1, <1>2, DayAfterReached
<1>4. e = trade_log'[i].key.entry_epoch
  BY <1>2
<1>5. HasReached(trade_log[i].key.entry_epoch + 1)'
  BY <1>3, <1>4
<1>6. key \notin Open'
  BY <1>1
<1> QED BY <1>1, <1>5, <1>6

\* A sale after the entry day is for good.
LEMMA SaleIsForGood ==
    ASSUME IInv, CalendarInv, LogTyped, SoldForGood, [Next]_vars,
           NEW key \in Open, NEW exit \in Nat, NEW price, NEW reason,
           Settle(key, exit, price, reason),
           key.entry_epoch < exit => HasReached(key.entry_epoch + 1)
    PROVE  SoldForGood'
<1> DEFINE sale == TradeRow(key, exit, price, reason)
<1>1. /\ trade_log' = Append(trade_log, sale) /\ Open' = Open \ {key}
      /\ sale.key = key /\ sale.exit_epoch = exit
  BY DEF Settle, Without, Open, TradeRow
<1> HIDE DEF sale
<1>2. trade_log \in Seq(Trade)
  BY DEF LogTyped
<1>3. PICK n \in Nat : n = Len(trade_log)
  BY <1>2
<1>4. /\ DOMAIN trade_log = 1..n /\ DOMAIN trade_log' = 1..(n + 1)
      /\ trade_log'[n + 1] = sale
      /\ \A i \in 1..n : trade_log'[i] = trade_log[i]
  BY <1>1, <1>2, <1>3
<1>5. ASSUME NEW i \in 1..n PROVE ForGood(i)'
  BY <1>1, <1>4, StaysForGood DEF SoldForGood
<1>6. ForGood(n + 1)'
  <2>1. PICK e \in Nat : e = key.entry_epoch
    BY DayTypes
  <2> SUFFICES ASSUME e < exit PROVE ForGood(n + 1)'
    BY <1>1, <1>4, <2>1 DEF ForGood
  <2>2. HasReached(e + 1)'
    BY <2>1, DayAfterReached
  <2>3. e = trade_log'[n + 1].key.entry_epoch
    BY <1>1, <1>4, <2>1
  <2>4. HasReached(trade_log[n + 1].key.entry_epoch + 1)'
    BY <2>2, <2>3
  <2>5. trade_log'[n + 1].key \notin Open'
    BY <1>1, <1>4
  <2>6. \A j \in DOMAIN trade_log' : ~(j > n + 1)
    BY <1>4
  <2> QED BY <2>4, <2>5, <2>6 DEF ForGood
<1> QED BY <1>4, <1>5, <1>6 DEF SoldForGood

\* Every step keeps what was sold away.
LEMMA StepKeepsSold ==
    ASSUME IInv, CalendarInv, LogTyped, SoldForGood, [Next]_vars
    PROVE  SoldForGood'
<1>1. CASE \E i \in DOMAIN orders : Enter(i)
  <2>1. PICK i \in DOMAIN orders : Enter(i)
    BY <1>1
  <2>2. trade_log' = trade_log /\ Open' = Open \cup {KeyOf(orders[i])}
    BY <2>1, EnterKeepsBook DEF Enter
  <2>3. KeyOf(orders[i]).entry_epoch = today /\ pc = "entries"
    BY <2>1 DEF Enter, IsNextEntry, KeyOf
  <2>4. ~HasReached(today + 1)
    BY <2>3, DayTypes DEF HasReached, InDay
  <2>5. ASSUME NEW k \in DOMAIN trade_log PROVE ForGood(k)'
    BY <2>2, <2>3, <2>4, StaysForGood DEF SoldForGood
  <2> QED BY <2>2, <2>5 DEF SoldForGood
<1>2. CASE \E key \in DueExits : Exit(key)
  <2>1. PICK key \in DueExits : Exit(key)
    BY <1>2
  <2>2. /\ key \in Open /\ key.exit_epoch = today /\ pc = "exits"
        /\ Settle(key, key.exit_epoch, current_positions[key].exit_price, "natural")
    BY <2>1 DEF DueExits, Exit
  <2>3. key.entry_epoch \in Nat /\ today \in Nat /\ end_epoch \in Nat /\ dates_left \subseteq Nat
    BY <2>2, DayTypes
  <2>4. key.entry_epoch < today => HasReached(key.entry_epoch + 1)
    <3>1. today <= end_epoch /\ \A day \in dates_left : today < day
      BY <2>2 DEF CalendarInv, DaysInOrder, InDay, Walking
    <3> QED BY <2>2, <2>3, <3>1 DEF HasReached, InDay, Walking
  <2> QED BY <2>2, <2>3, <2>4, SaleIsForGood
<1>3. CASE \E key \in Open : CloseOne(key)
  <2>1. PICK key \in Open : CloseOne(key)
    BY <1>3
  <2>2. /\ pc = "close"
        /\ Settle(key, EffectiveEnd, current_positions[key].last_close_price, "end_of_sim")
    BY <2>1 DEF CloseOne
  <2>3. PICK end \in Nat : end = EffectiveEnd
    BY EffectiveEndType
  <2>4. key.entry_epoch \in Nat /\ end_epoch \in Nat /\ end <= end_epoch
    BY <2>3, DayTypes, EffectiveEndInCall
  <2>5. key.entry_epoch < end => HasReached(key.entry_epoch + 1)
    BY <2>2, <2>4 DEF HasReached, InDay, Walking
  <2> QED BY <2>2, <2>3, <2>5, SaleIsForGood
<1>4. CASE Open' = Open /\ trade_log' = trade_log
  BY <1>4, StaysForGood DEF SoldForGood
<1> QED BY <1>1, <1>2, <1>3, <1>4
    DEF Next, Process, Finished, Call, StartCall, Day, BeginDay, PayOut,
         SizeOrders, Entries, SkipEntry, RaiseDuplicateKey, EndEntries, Exits,
         EndExits, Revalue, RevalueOne, EndRevalue, Mark, MarkOne, EndMark,
         SkipMark, Close, EndDays, Return, vars, inputs, logs, book, Open

\* A row is traded once: over all days and calls, a key sold after its entry day is
\* never traded again, so that only a row sold on the day of its entry can come
\* up in the log more often than in the orders.
THEOREM RowsTradedOnce == Spec => []TradedOnce
<1>1. Init => SoldForGood
  BY DEF Init, SoldForGood
<1>2. IInv /\ CalendarInv /\ LogTyped /\ SoldForGood /\ [Next]_vars => SoldForGood'
  BY StepKeepsSold
<1>3. ASSUME IInv, LogTyped, SoldForGood PROVE TradedOnce
  <2> SUFFICES ASSUME NEW i \in DOMAIN trade_log
               PROVE  LET key == trade_log[i].key
                          Again == {j \in DOMAIN trade_log : j > i /\ trade_log[j].key = key}
                          Rows == {j \in DOMAIN orders : KeyOf(orders[j]) = key}
                      IN  Cardinality(Again) >= Cardinality(Rows) /\ Rows # {}
                            => key.entry_epoch >= trade_log[i].exit_epoch
    BY DEF TradedOnce
  <2> DEFINE key == trade_log[i].key
             Again == {j \in DOMAIN trade_log : j > i /\ trade_log[j].key = key}
             Rows == {j \in DOMAIN orders : KeyOf(orders[j]) = key}
  <2> HIDE DEF Again, Rows
  <2>1. key.entry_epoch \in Nat /\ trade_log[i].exit_epoch \in Nat
    <3>1. trade_log[i] \in Trade
      BY <1>3 DEF LogTyped
    <3> QED BY <3>1 DEF Trade, OrderKey
  <2> SUFFICES ASSUME Cardinality(Again) >= Cardinality(Rows), Rows # {},
                      key.entry_epoch < trade_log[i].exit_epoch
               PROVE  FALSE
    BY <2>1 DEF Again, Rows
  <2>2. Again = {}
    BY <1>3 DEF SoldForGood, ForGood, Again
  <2>3. IsFiniteSet(Rows)
    <3>1. DOMAIN orders = 1..Len(orders) /\ Len(orders) \in Nat
      BY <1>3, OrderAssumption DEF IInv, TypeOK
    <3>2. IsFiniteSet(1..Len(orders))
      BY <3>1, FS_Interval
    <3> QED BY <3>1, <3>2, FS_Subset DEF Rows
  <2>4. Cardinality(Again) = 0 /\ Cardinality(Rows) \in Nat /\ Cardinality(Rows) # 0
    BY <2>2, <2>3, FS_EmptySet, FS_CardinalityType
  <2> QED BY <2>4
<1> QED BY <1>1, <1>2, <1>3, AlwaysOnCalendar, AlwaysBalanced, PTL DEF Spec
=============================================================================
