---------------------------- MODULE Orders_proofs ----------------------------
(***************************************************************************)
(* Proofs about where orders come from. First the exit walk, for bars,     *)
(* entries and exit configs of any number: what a walk remembers, and that *)
(* each finished entry has one row of each config. Then the generators,    *)
(* for bars, companions and signals of any number: the orders of the later *)
(* window are those of the earlier one that lie in it, and the strategies  *)
(* with a number of slots never hold more than that.                       *)
(***************************************************************************)
EXTENDS ExitWalk, Signals, SumLemmas, FiniteSetTheorems, TLAPS

InWalk == pc \in {"bar", "config"}

\* The walk is of an entry with a close, from its bar on.
WalksAnEntry == InWalk => /\ bars[idx].close > 0 /\ entry_epoch \in Entries
                          /\ idx <= j

Started(e) == e < idx \/ (e = idx /\ pc # "entry")

\* Rows are of entries that were walked.
RowsOfStarted ==
    \A key \in DOMAIN rows, e \in 1..LastBar : key[1] = bars[e].epoch => Started(e)

\* The tracker knows the configs that have a row for the entry.
TrackerRight ==
    InWalk => \A c \in ConfigIds : c \in tracker <=> Fired(idx, c) # {}

Once ==
    \A e \in 1..LastBar, c \in ConfigIds : \A x, y \in Fired(e, c) : x = y

\* On the last bar every config has fired before the next one is looked at.
FiresAtEnd ==
    pc = "config" /\ j = LastBar => \A c \in ConfigIds : c < k => c \in tracker

FinishedFired ==
    bars[LastBar].close > 0 => \A e \in Finished, c \in ConfigIds : Fired(e, c) # {}

OnceInv == /\ TypeOK /\ bars \in Bars /\ WalksAnEntry /\ RowsOfStarted /\ TrackerRight
           /\ Once /\ FiresAtEnd /\ FinishedFired

\* The bars with a close that the walk of an entry has looked at.
Seen == {b \in Priced : idx <= b /\ (b < j \/ b = idx \/ (pc = "config" /\ b = j))}

\* last_close and max_price are what the reference reads off the bars.
Remembers ==
    InWalk =>
        /\ pc = "config" => bars[j].close > 0
        /\ \E b \in Priced : /\ idx <= b /\ (b < j \/ (b = j /\ j = idx))
                             /\ last_close = bars[b].close
                             /\ \A other \in Priced : other < j => other <= b
        /\ \E b \in Seen : max_price = bars[b].close
        /\ \A b \in Seen : bars[b].close <= max_price

\* A config that has not fired has seen no bar it would exit at.
NoneMissed ==
    InWalk => \A c \in ConfigIds \ tracker : \A i \in ExitBars(idx, ExitConfigs[c]) :
                j <= i /\ (pc = "config" /\ c < k => j < i)

\* One exit of ExitsAreTheFirst, of an entry whose walk may still go on.
IsFirst(e, c, fired) ==
    /\ ExitBars(e, ExitConfigs[c]) # {}
    /\ fired[1][2] = ExitOf(e, ExitConfigs[c]).exit_epoch
    /\ fired[2] = 1 => /\ rows[fired[1]].exit_price = ExitOf(e, ExitConfigs[c]).exit_price
                       /\ rows[fired[1]].exit_reason = ExitOf(e, ExitConfigs[c]).reason

FirstSoFar ==
    \A e \in 1..LastBar, c \in ConfigIds : \A fired \in Fired(e, c) : IsFirst(e, c, fired)

\* A row is of some exit.
RowsOfExits == \A key \in DOMAIN rows : Len(rows[key].exit_config_ids) >= 1

FirstInv == Remembers /\ NoneMissed /\ FirstSoFar /\ RowsOfExits

----------------------------------------------------------------------------
(* Types *)

Bar == [epoch : Nat, open : Nat, close : Nat]
Config == [trailing_stop_pct : Nat, min_hold_time_days : Nat,
           tsl_tighten_after_pct : Nat, tsl_tight_pct : Nat]

\* Bars are in the order of their days, and there is one to walk.
LEMMA BarsInOrder ==
    ASSUME bars \in Bars
    PROVE  /\ Len(bars) \in Nat /\ Len(bars) >= 2 /\ DOMAIN bars = 1..Len(bars)
           /\ LastBar \in Nat \ {0} /\ LastBar + 1 = Len(bars)
           /\ \A i \in 1..Len(bars) : /\ bars[i] \in Bar /\ bars[i].epoch \in Epochs
                                      /\ bars[i].epoch \in Nat /\ bars[i].open \in Nat
                                      /\ bars[i].close \in Nat
           /\ \A i, e \in 1..Len(bars) : bars[i].epoch = bars[e].epoch => i = e
<1>1. /\ bars \in Seq(Bar) /\ Len(bars) >= 2
      /\ \A i, e \in DOMAIN bars : i < e => bars[i].epoch < bars[e].epoch
  BY WalkAssumption DEF Bar
<1>2. Len(bars) \in Nat /\ DOMAIN bars = 1..Len(bars)
  BY <1>1
<1>3. \A i \in 1..Len(bars) : bars[i] \in Bar /\ bars[i].epoch \in Epochs
  BY <1>1, <1>2 DEF Epochs
<1>4. \A i \in 1..Len(bars) : /\ bars[i].epoch \in Nat /\ bars[i].open \in Nat
                              /\ bars[i].close \in Nat
  BY <1>3 DEF Bar
<1>5. \A i, e \in 1..Len(bars) : bars[i].epoch = bars[e].epoch => i = e
  <2> TAKE i, e \in 1..Len(bars)
  <2>1. i < e \/ e < i \/ i = e
    BY <1>2
  <2>2. bars[i].epoch \in Nat /\ bars[e].epoch \in Nat
    BY <1>4
  <2> QED BY <1>1, <1>2, <2>1, <2>2
<1> QED BY <1>1, <1>2, <1>3, <1>4, <1>5 DEF LastBar

\* Configs are of their type.
LEMMA ConfigsAreSome ==
    /\ Len(ExitConfigs) \in Nat /\ ConfigIds = 1..Len(ExitConfigs) /\ Len(ExitConfigs) >= 1
    /\ \A c \in ConfigIds : ExitConfigs[c] \in Config
<1>1. ExitConfigs \in Seq(Config) /\ ExitConfigs # <<>>
  BY WalkAssumption DEF Config
<1> QED BY <1>1 DEF ConfigIds

\* What a decision says when it is taken.
Decides(decision) ==
    /\ decision.exit_price \in Nat /\ decision.exit_epoch \in Epochs
    /\ decision.reason \in {"anomalous_drop", "end_of_data", "trailing_stop"}

LEMMA DecisionsType ==
    ASSUME TypeOK, bars \in Bars
    PROVE  /\ Decides(DropDecision) /\ Decides(EndDecision)
           /\ ~AtEnd => Decides(StopDecision)
<1>1. j \in 1..LastBar /\ last_close \in Nat /\ LastBar + 1 = Len(bars) /\ LastBar \in Nat
  BY BarsInOrder DEF TypeOK
<1>2. j \in 1..Len(bars) /\ j + 1 \in 1..Len(bars)
  BY <1>1, BarsInOrder
<1>3. /\ bars[j].epoch \in Epochs /\ bars[j].close \in Nat
      /\ bars[j + 1].epoch \in Epochs /\ bars[j + 1].open \in Nat
  BY <1>2, BarsInOrder
<1>4. 8 * last_close \in Nat /\ 10 * bars[j].close \in Nat /\ 10 * bars[j + 1].open \in Nat
  BY <1>1, <1>3
<1> QED BY <1>3, <1>4 DEF DropDecision, EndDecision, StopDecision, Decision, Decides,
           this_epoch, close_price, next_open

Booked(decision) == <<entry_epoch, decision.exit_epoch>>

\* Where config k lands in the row of its exit day.
Place(decision) ==
    IF Booked(decision) \in DOMAIN rows THEN Len(rows[Booked(decision)].exit_config_ids) + 1
    ELSE 1

\* An exit is added to the row of its day, or makes one; the other rows stay.
LEMMA MergedDoes ==
    ASSUME TypeOK, bars \in Bars, k \in ConfigIds, NEW decision, Decides(decision)
    PROVE  /\ DOMAIN Merged(decision) = DOMAIN rows \cup {Booked(decision)}
           /\ \A key \in DOMAIN rows :
                /\ Merged(decision)[key].exit_price = rows[key].exit_price
                /\ Merged(decision)[key].exit_reason = rows[key].exit_reason
                /\ key # Booked(decision) => Merged(decision)[key] = rows[key]
           /\ Booked(decision) \in DOMAIN rows =>
                Merged(decision)[Booked(decision)].exit_config_ids =
                    Append(rows[Booked(decision)].exit_config_ids, k)
           /\ Booked(decision) \notin DOMAIN rows =>
                Merged(decision)[Booked(decision)] =
                    [exit_price |-> decision.exit_price,
                     exit_reason |-> decision.reason, exit_config_ids |-> <<k>>]
<1> DEFINE key == Booked(decision)
<1>1. CASE key \in DOMAIN rows
  <2> DEFINE row == [rows[key] EXCEPT !.exit_config_ids =
                                            Append(rows[key].exit_config_ids, k)]
  <2>1. Merged(decision) = [rows EXCEPT ![key] = row]
    BY <1>1 DEF Merged, Booked
  <2>2. rows[key] \in Row
    BY <1>1 DEF TypeOK
  <2>3. /\ row.exit_price = rows[key].exit_price /\ row.exit_reason = rows[key].exit_reason
        /\ row.exit_config_ids = Append(rows[key].exit_config_ids, k)
    BY <2>2 DEF Row
  <2> HIDE DEF row, key
  <2>5. /\ DOMAIN Merged(decision) = DOMAIN rows /\ Merged(decision)[key] = row
        /\ \A other \in DOMAIN rows : other # key => Merged(decision)[other] = rows[other]
    BY <1>1, <2>1
  <2>6. \A other \in DOMAIN rows :
            /\ Merged(decision)[other].exit_price = rows[other].exit_price
            /\ Merged(decision)[other].exit_reason = rows[other].exit_reason
    BY <2>3, <2>5
  <2> QED BY <1>1, <2>3, <2>5, <2>6 DEF key
<1>2. CASE key \notin DOMAIN rows
  <2>1. Merged(decision) = [other \in DOMAIN rows \cup {key} |->
                IF other \in DOMAIN rows THEN rows[other]
                ELSE [exit_price |-> decision.exit_price,
                      exit_reason |-> decision.reason, exit_config_ids |-> <<k>>]]
    BY <1>2 DEF Merged, Booked
  <2> HIDE DEF key
  <2> QED BY <1>2, <2>1 DEF key
<1> QED BY <1>1, <1>2

LEMMA MergedType ==
    ASSUME TypeOK, bars \in Bars, k \in ConfigIds, NEW decision, Decides(decision)
    PROVE  /\ DOMAIN Merged(decision) \subseteq Epochs \X Epochs
           /\ \A key \in DOMAIN Merged(decision) : Merged(decision)[key] \in Row
<1> DEFINE key == Booked(decision)
<1>1. key \in Epochs \X Epochs
  <2>1. entry_epoch \in Epochs
    BY BarsInOrder DEF TypeOK, entry_epoch
  <2> QED BY <2>1 DEF Booked, Decides
<1>2. DOMAIN Merged(decision) \subseteq Epochs \X Epochs
  <2>1. DOMAIN Merged(decision) = DOMAIN rows \cup {key}
    BY MergedDoes
  <2> HIDE DEF key
  <2> QED BY <1>1, <2>1 DEF TypeOK
<1>3. ASSUME NEW other \in DOMAIN rows, other # key PROVE Merged(decision)[other] \in Row
  BY <1>3, MergedDoes DEF TypeOK
<1>4. Merged(decision)[key] \in Row
  <2>1. CASE key \in DOMAIN rows
    <3>1. rows[key] \in Row
      BY <2>1 DEF TypeOK
    <3>2. Append(rows[key].exit_config_ids, k) \in Seq(ConfigIds)
      BY <3>1 DEF Row
    <3>3. Merged(decision) = [rows EXCEPT ![key] =
                [rows[key] EXCEPT !.exit_config_ids = Append(rows[key].exit_config_ids, k)]]
      BY <2>1 DEF Merged, Booked
    <3>4. [rows[key] EXCEPT !.exit_config_ids = Append(rows[key].exit_config_ids, k)] \in Row
      BY <3>1, <3>2 DEF Row
    <3> HIDE DEF key
    <3> QED BY <2>1, <3>3, <3>4
  <2>2. CASE key \notin DOMAIN rows
    <3>1. Merged(decision)[key] = [exit_price |-> decision.exit_price,
                     exit_reason |-> decision.reason, exit_config_ids |-> <<k>>]
      BY <2>2, MergedDoes
    <3>2. <<k>> \in Seq(ConfigIds)
      OBVIOUS
    <3> QED BY <3>1, <3>2 DEF Row, Decides
  <2> QED BY <2>1, <2>2
<1>5. DOMAIN Merged(decision) = DOMAIN rows \cup {key}
  BY MergedDoes
<1> QED BY <1>2, <1>3, <1>4, <1>5

\* A rule fires at a config of the list.
Fires(decision) == AtConfig /\ k \notin tracker /\ Decides(decision) /\ Fire(decision)

LEMMA FiringActions ==
    ASSUME TypeOK, bars \in Bars, AnomalousDrop \/ EndOfData \/ TrailingStop
    PROVE  /\ k \in ConfigIds
           /\ AnomalousDrop => Fires(DropDecision)
           /\ EndOfData => Fires(EndDecision)
           /\ TrailingStop => Fires(StopDecision)
<1>1. k \in ConfigIds
  BY ConfigsAreSome DEF AnomalousDrop, EndOfData, TrailingStop, Undecided, AtConfig, TypeOK
<1> QED BY <1>1, DecisionsType DEF AnomalousDrop, EndOfData, TrailingStop, Undecided, Fires

\* Every step of the walk keeps the types.
LEMMA WalkKeepsType ==
    ASSUME TypeOK, bars \in Bars, [Next]_vars PROVE TypeOK' /\ bars' = bars
<1>1. /\ LastBar \in Nat \ {0} /\ LastBar <= Len(bars)
      /\ \A i \in 1..LastBar : bars[i].close \in Nat
      /\ 1 \in 1..(Len(ExitConfigs) + 1)
  BY BarsInOrder, ConfigsAreSome
<1>2. ASSUME bars' = bars,
             pc' \in {"entry", "bar", "config", "done"},
             idx' \in 1..LastBar, j' \in 1..LastBar, k' \in 1..(Len(ExitConfigs) + 1),
             last_close' \in Nat, max_price' \in Nat, tracker' \subseteq ConfigIds,
             DOMAIN rows' \subseteq Epochs \X Epochs,
             \A key \in DOMAIN rows' : rows'[key] \in Row
      PROVE  TypeOK'
  BY <1>2 DEF TypeOK, LastBar, Epochs
<1>3. /\ pc \in {"entry", "bar", "config", "done"}
      /\ idx \in 1..LastBar /\ j \in 1..LastBar /\ k \in 1..(Len(ExitConfigs) + 1)
      /\ last_close \in Nat /\ max_price \in Nat /\ tracker \subseteq ConfigIds
      /\ DOMAIN rows \subseteq Epochs \X Epochs
      /\ \A key \in DOMAIN rows : rows[key] \in Row
  BY DEF TypeOK
<1>4. /\ idx < LastBar => idx + 1 \in 1..LastBar
      /\ j < LastBar => j + 1 \in 1..LastBar
      /\ k <= Len(ExitConfigs) => k + 1 \in 1..(Len(ExitConfigs) + 1)
  BY <1>1, <1>3, ConfigsAreSome
<1>5. NextEntry => pc' \in {"entry", "done"} /\ idx' \in 1..LastBar
  BY <1>3, <1>4 DEF NextEntry
<1>6. NextBar => /\ pc' \in {"bar", "entry", "done"}
                 /\ idx' \in 1..LastBar /\ j' \in 1..LastBar
  BY <1>3, <1>4, <1>5 DEF NextBar
<1>7. bars[idx].close \in Nat /\ close_price \in Nat
  BY <1>1, <1>3 DEF close_price
<1>8. CASE SkipEntry
  BY <1>2, <1>3, <1>5, <1>8 DEF SkipEntry
<1>9. CASE StartEntry
  BY <1>2, <1>3, <1>7, <1>9 DEF StartEntry
<1>10. CASE SkipBar
  BY <1>2, <1>3, <1>6, <1>10 DEF SkipBar, AfterSkip
<1>11. CASE BeginBar
  BY <1>1, <1>2, <1>3, <1>7, <1>11 DEF BeginBar, Peak, walk
<1>12. CASE AnomalousDrop \/ EndOfData \/ TrailingStop
  <2>1. k \in ConfigIds
    BY <1>12, FiringActions
  <2>2. PICK decision \in {DropDecision, EndDecision, StopDecision} : Fires(decision)
    BY <1>12, FiringActions
  <2>3. /\ DOMAIN rows' \subseteq Epochs \X Epochs
        /\ \A key \in DOMAIN rows' : rows'[key] \in Row
    BY <2>1, <2>2, MergedType DEF Fires, Fire
  <2> QED BY <1>2, <1>3, <1>4, <2>1, <2>2, <2>3 DEF Fires, Fire, walk, Recorded, AtConfig
<1>13. CASE NoDecision
  BY <1>2, <1>3, <1>4, <1>13 DEF NoDecision, AtConfig, walk
<1>14. CASE EndBar
  <2>1. /\ bars' = bars /\ k' = k /\ max_price' = max_price /\ tracker' = tracker
        /\ rows' = rows /\ last_close' \in Nat
    BY <1>7, <1>14 DEF EndBar
  <2>2. pc' \in {"bar", "entry", "done"} /\ idx' \in 1..LastBar /\ j' \in 1..LastBar
    BY <1>3, <1>5, <1>6, <1>14 DEF EndBar
  <2> QED BY <1>2, <1>3, <2>1, <2>2
<1>15. CASE UNCHANGED vars
  BY <1>2, <1>3, <1>15 DEF vars
<1> QED BY <1>8, <1>9, <1>10, <1>11, <1>12, <1>13, <1>14, <1>15
        DEF Next, SkipEntry, StartEntry, SkipBar, BeginBar, NoDecision, EndBar, walk, vars

LEMMA InitType == Init => TypeOK /\ bars \in Bars
<1> SUFFICES ASSUME Init PROVE TypeOK /\ bars \in Bars
  OBVIOUS
<1>1. bars \in Bars
  BY DEF Init
<1>2. bars \in Seq(Bar) /\ LastBar \in Nat \ {0}
  BY <1>1, BarsInOrder, WalkAssumption DEF Bar
<1>3. 1 \in 1..LastBar /\ 1 \in 1..(Len(ExitConfigs) + 1)
  BY <1>2, ConfigsAreSome
<1> QED BY <1>1, <1>2, <1>3 DEF Init, TypeOK, Bar

\* The bars are those it began with and every variable is of its type.
THEOREM WalkTypeCorrect == Spec => [](TypeOK /\ bars \in Bars)
<1>1. TypeOK /\ bars \in Bars /\ [Next]_vars => TypeOK' /\ (bars \in Bars)'
  BY WalkKeepsType
<1> QED BY <1>1, InitType, PTL DEF Spec

----------------------------------------------------------------------------
(* Each config fires once *)

\* Where the configs of an entry are booked.
LEMMA FiredIsPlaced ==
    ASSUME NEW e, NEW c, NEW x
    PROVE  x \in Fired(e, c) <=>
             \E key \in DOMAIN rows : /\ key[1] = bars[e].epoch
                                      /\ \E n \in Placed(key, c) : x = <<key, n>>
  BY DEF Fired

\* An exit that fires is one more place of its config in the rows of its entry.
LEMMA FireAddsOne ==
    ASSUME TypeOK, bars \in Bars, k \in ConfigIds, NEW decision, Decides(decision),
           rows' = Merged(decision), bars' = bars,
           NEW e \in 1..LastBar, NEW c \in ConfigIds
    PROVE  Fired(e, c)' = Fired(e, c) \cup
                (IF e = idx /\ c = k THEN {<<Booked(decision), Place(decision)>>} ELSE {})
<1>0. PICK key : key = Booked(decision)
  OBVIOUS
<1> DEFINE more == IF c = k THEN {Place(decision)} ELSE {}
<1>1. /\ DOMAIN rows' = DOMAIN rows \cup {key}
      /\ \A other \in DOMAIN rows : other # key => rows'[other] = rows[other]
      /\ key \in DOMAIN rows =>
            rows'[key].exit_config_ids = Append(rows[key].exit_config_ids, k)
      /\ key \notin DOMAIN rows => rows'[key].exit_config_ids = <<k>>
  <2>1. /\ DOMAIN Merged(decision) = DOMAIN rows \cup {key}
        /\ \A other \in DOMAIN rows : other # key => Merged(decision)[other] = rows[other]
        /\ key \in DOMAIN rows =>
            Merged(decision)[key].exit_config_ids = Append(rows[key].exit_config_ids, k)
    BY <1>0, MergedDoes
  <2>2. key \notin DOMAIN rows =>
            Merged(decision)[key] = [exit_price |-> decision.exit_price,
                     exit_reason |-> decision.reason, exit_config_ids |-> <<k>>]
    BY <1>0, MergedDoes
  <2>3. key \notin DOMAIN rows => Merged(decision)[key].exit_config_ids = <<k>>
    BY <2>2
  <2> QED BY <2>1, <2>3
<1>2. \A other \in DOMAIN rows : other # key => Placed(other, c)' = Placed(other, c)
  BY <1>1 DEF Placed
<1>3. key \in DOMAIN rows => Placed(key, c)' = Placed(key, c) \cup more
  <2> SUFFICES ASSUME key \in DOMAIN rows PROVE Placed(key, c)' = Placed(key, c) \cup more
    OBVIOUS
  <2> DEFINE ids == rows[key].exit_config_ids
  <2>1. ids \in Seq(ConfigIds)
    BY DEF TypeOK, Row
  <2>2. rows'[key].exit_config_ids = Append(ids, k) /\ Place(decision) = Len(ids) + 1
    BY <1>0, <1>1 DEF Place
  <2> HIDE DEF ids
  <2>3. {n \in DOMAIN Append(ids, k) : Append(ids, k)[n] = c}
            = {n \in DOMAIN ids : ids[n] = c} \cup (IF c = k THEN {Len(ids) + 1} ELSE {})
    <3>1. /\ Len(ids) \in Nat /\ DOMAIN ids = 1..Len(ids)
          /\ DOMAIN Append(ids, k) = 1..(Len(ids) + 1)
          /\ \A n \in 1..Len(ids) : Append(ids, k)[n] = ids[n]
          /\ Append(ids, k)[Len(ids) + 1] = k
      BY <2>1
    <3>2. 1..(Len(ids) + 1) = 1..Len(ids) \cup {Len(ids) + 1}
      BY <3>1
    <3> QED BY <3>1, <3>2
  <2>4. Placed(key, c) = {n \in DOMAIN ids : ids[n] = c}
    BY DEF Placed, ids
  <2>5. Placed(key, c)' = {n \in DOMAIN Append(ids, k) : Append(ids, k)[n] = c}
    <3>1. Placed(key, c)' = {n \in DOMAIN rows'[key].exit_config_ids :
                                rows'[key].exit_config_ids[n] = c}
      BY DEF Placed
    <3> QED BY <2>2, <3>1
  <2> QED BY <2>2, <2>3, <2>4, <2>5
<1>4. key \notin DOMAIN rows => Placed(key, c)' = more
  <2> SUFFICES ASSUME key \notin DOMAIN rows PROVE Placed(key, c)' = more
    OBVIOUS
  <2>1. rows'[key].exit_config_ids = <<k>> /\ Place(decision) = 1
    BY <1>0, <1>1 DEF Place
  <2>2. Placed(key, c)' = {n \in DOMAIN <<k>> : <<k>>[n] = c}
    BY <2>1 DEF Placed
  <2> QED BY <2>1, <2>2
<1>5. key[1] = bars[e].epoch <=> e = idx
  <2>1. key[1] = bars[idx].epoch
    BY <1>0 DEF Booked, entry_epoch
  <2>2. e \in 1..Len(bars) /\ idx \in 1..Len(bars)
    <3>1. idx \in 1..LastBar
      BY DEF TypeOK
    <3> QED BY <3>1, BarsInOrder
  <2> QED BY <2>1, <2>2, BarsInOrder
<1> DEFINE new == IF e = idx /\ c = k THEN {<<key, Place(decision)>>} ELSE {}
<1>6. ASSUME NEW x PROVE x \in Fired(e, c)' <=> x \in Fired(e, c) \cup new
  <2>1. x \in Fired(e, c)' <=>
             \E other \in DOMAIN rows' : /\ other[1] = bars[e].epoch
                                         /\ \E n \in Placed(other, c)' : x = <<other, n>>
    BY DEF Fired, Placed
  <2>2. x \in Fired(e, c) <=>
             \E other \in DOMAIN rows : /\ other[1] = bars[e].epoch
                                        /\ \E n \in Placed(other, c) : x = <<other, n>>
    BY FiredIsPlaced
  <2>3. x \in new <=> key[1] = bars[e].epoch /\ \E n \in more : x = <<key, n>>
    BY <1>5
  <2> HIDE DEF new, more
  <2> QED BY <1>1, <1>2, <1>3, <1>4, <2>1, <2>2, <2>3
<1> QED BY <1>0, <1>6

\* Nothing is booked by a step that leaves the rows alone.
LEMMA SameRows ==
    ASSUME rows' = rows, bars' = bars
    PROVE  \A e, c : Fired(e, c)' = Fired(e, c)
  BY DEF Fired, Placed

\* When the walk of an entry is over all its configs have fired, or the last close is not
\* known; then the next bar may be an entry.
LEMMA NextEntryKeepsOnce ==
    ASSUME OnceInv, NextEntry, rows' = rows, bars' = bars, pc # "done",
           bars[idx].close > 0 /\ entry_epoch \in Entries /\ bars[LastBar].close > 0 =>
                \A c \in ConfigIds : Fired(idx, c) # {}
    PROVE  /\ WalksAnEntry' /\ RowsOfStarted' /\ TrackerRight' /\ Once'
           /\ FiresAtEnd' /\ FinishedFired'
<1>1. /\ idx \in 1..LastBar /\ LastBar \in Nat /\ LastBar' = LastBar
      /\ \A e, c : Fired(e, c)' = Fired(e, c)
  BY BarsInOrder, SameRows DEF OnceInv, TypeOK, LastBar
<1>2. /\ pc' \in {"entry", "done"}
      /\ \/ idx' = idx + 1 /\ pc' = "entry"
         \/ idx' = idx /\ idx = LastBar /\ pc' = "done"
  BY <1>1 DEF NextEntry
<1>3. WalksAnEntry' /\ TrackerRight' /\ FiresAtEnd' /\ Once'
  BY <1>1, <1>2 DEF WalksAnEntry, TrackerRight, FiresAtEnd, Once, InWalk, OnceInv
<1>4. \A e \in 1..LastBar : Started(e) => Started(e)'
  BY <1>1, <1>2 DEF Started
<1>5. RowsOfStarted'
  BY <1>1, <1>4 DEF RowsOfStarted, OnceInv
<1>6. ASSUME NEW e \in Priced, bars[e].epoch \in Entries,
             e < idx' \/ pc' = "done", bars[LastBar].close > 0, NEW c \in ConfigIds
      PROVE  Fired(e, c) # {}
  <2>1. e \in 1..LastBar /\ bars[e].close > 0
    BY DEF Priced
  <2>2. e < idx \/ e = idx
    BY <1>1, <1>2, <1>6, <2>1
  <2>3. CASE e < idx
    BY <1>6, <2>3 DEF OnceInv, FinishedFired, Finished
  <2>4. CASE e = idx
    BY <1>6, <2>1, <2>4 DEF entry_epoch
  <2> QED BY <2>2, <2>3, <2>4
<1>7. FinishedFired'
  BY <1>1, <1>6 DEF FinishedFired, Finished, Priced
<1> QED BY <1>3, <1>5, <1>7

\* A set of configs that is as large as the list of them is all of them.
LEMMA AllFired ==
    ASSUME tracker \subseteq ConfigIds, all_fired PROVE tracker = ConfigIds
<1>1. /\ IsFiniteSet(ConfigIds) /\ Cardinality(ConfigIds) = Len(ExitConfigs)
      /\ Len(ExitConfigs) \in Nat
  BY ConfigsAreSome, FS_Interval
<1>2. IsFiniteSet(tracker) /\ Cardinality(tracker) <= Cardinality(ConfigIds)
  BY <1>1, FS_Subset
<1>3. Cardinality(tracker) \in Nat
  BY <1>2, FS_CardinalityType
<1>4. Cardinality(tracker) = Cardinality(ConfigIds)
  BY <1>1, <1>2, <1>3 DEF all_fired
<1> QED BY <1>1, <1>4, FS_Subset

\* The walk goes on to the next bar of the entry, or is over.
LEMMA NextBarKeepsOnce ==
    ASSUME OnceInv, NextBar, rows' = rows, bars' = bars, tracker' = tracker,
           InWalk, j = LastBar /\ bars[LastBar].close > 0 =>
                        \A c \in ConfigIds : Fired(idx, c) # {}
    PROVE  /\ WalksAnEntry' /\ RowsOfStarted' /\ TrackerRight' /\ Once'
           /\ FiresAtEnd' /\ FinishedFired'
<1>1. /\ idx \in 1..LastBar /\ j \in 1..LastBar /\ LastBar \in Nat /\ LastBar' = LastBar
      /\ \A e, c : Fired(e, c)' = Fired(e, c)
  BY BarsInOrder, SameRows DEF OnceInv, TypeOK, LastBar
<1>2. CASE j < LastBar
  <2>1. j' = j + 1 /\ pc' = "bar" /\ idx' = idx /\ pc # "done" /\ pc # "entry"
    BY <1>2 DEF NextBar, InWalk
  <2>2. entry_epoch' = entry_epoch
    BY <2>1 DEF entry_epoch
  <2>3. WalksAnEntry' /\ TrackerRight' /\ FiresAtEnd' /\ Once'
    BY <1>1, <2>1, <2>2 DEF WalksAnEntry, TrackerRight, FiresAtEnd, Once, InWalk, OnceInv
  <2>4. RowsOfStarted' /\ FinishedFired'
    BY <1>1, <2>1 DEF RowsOfStarted, FinishedFired, Finished, Priced, Started, OnceInv
  <2> QED BY <2>3, <2>4
<1>3. CASE j = LastBar
  <2>1. NextEntry /\ pc # "done"
    BY <1>1, <1>3 DEF NextBar, InWalk
  <2> QED BY <1>3, <2>1, NextEntryKeepsOnce
<1> QED BY <1>1, <1>2, <1>3

\* A config that fires is not booked yet, and then is once.
LEMMA FireKeepsOnce ==
    ASSUME OnceInv, TypeOK', k \in ConfigIds, NEW decision, Fires(decision)
    PROVE  /\ WalksAnEntry' /\ RowsOfStarted' /\ TrackerRight' /\ Once'
           /\ FiresAtEnd' /\ FinishedFired'
<1>1. /\ TypeOK /\ bars \in Bars /\ Decides(decision) /\ rows' = Merged(decision)
      /\ bars' = bars /\ idx' = idx /\ j' = j /\ pc' = pc /\ pc = "config"
      /\ k' = k + 1 /\ tracker' = tracker \cup {k} /\ k \notin tracker
  BY DEF Fires, Fire, OnceInv, Recorded, AtConfig, walk
<1>2. idx \in 1..LastBar /\ LastBar' = LastBar /\ k \in Nat /\ ConfigIds \subseteq Nat
  BY <1>1, ConfigsAreSome DEF TypeOK, LastBar
<1>3. \A e \in 1..LastBar, c \in ConfigIds :
        Fired(e, c)' = Fired(e, c) \cup
                (IF e = idx /\ c = k THEN {<<Booked(decision), Place(decision)>>} ELSE {})
  BY <1>1, FireAddsOne
<1>4. Fired(idx, k) = {}
  BY <1>1 DEF OnceInv, TrackerRight, InWalk
<1>5. WalksAnEntry'
  BY <1>1 DEF OnceInv, WalksAnEntry, InWalk, entry_epoch
<1>6. TrackerRight'
  BY <1>1, <1>2, <1>3 DEF OnceInv, TrackerRight, InWalk
<1>7. Once'
  BY <1>2, <1>3, <1>4 DEF OnceInv, Once
<1>8. FiresAtEnd'
  <2> SUFFICES ASSUME j = LastBar, NEW c \in ConfigIds, c < k + 1 PROVE c \in tracker \cup {k}
    BY <1>1, <1>2 DEF FiresAtEnd
  <2>1. c < k \/ c = k
    BY <1>2
  <2> QED BY <1>1, <2>1 DEF OnceInv, FiresAtEnd
<1>9. RowsOfStarted'
  <2> SUFFICES ASSUME NEW key \in DOMAIN rows', NEW e \in 1..LastBar,
                      key[1] = bars[e].epoch
               PROVE  Started(e)'
    BY <1>1, <1>2 DEF RowsOfStarted
  <2>1. Started(e) => Started(e)'
    BY <1>1 DEF Started
  <2>2. CASE key \in DOMAIN rows
    BY <2>1, <2>2 DEF OnceInv, RowsOfStarted
  <2>3. CASE key = Booked(decision)
    <3>1. bars[e].epoch = bars[idx].epoch
      BY <2>3 DEF Booked, entry_epoch
    <3>2. e \in 1..Len(bars) /\ idx \in 1..Len(bars)
      BY <1>1, <1>2, BarsInOrder
    <3>3. e = idx
      BY <1>1, <3>1, <3>2, BarsInOrder
    <3> QED BY <1>1, <3>3 DEF Started
  <2> QED BY <1>1, <2>2, <2>3, MergedDoes
<1>10. FinishedFired'
  <2>1. \A e \in Finished' : e \in Finished /\ e \in 1..LastBar
    BY <1>1, <1>2 DEF Finished, Priced
  <2> QED BY <1>1, <1>2, <1>3, <2>1 DEF OnceInv, FinishedFired
<1> QED BY <1>5, <1>6, <1>7, <1>8, <1>9, <1>10

LEMMA StepKeepsOnce ==
    ASSUME OnceInv, [Next]_vars PROVE OnceInv'
<1>1. TypeOK' /\ bars' = bars /\ bars' \in Bars
  BY WalkKeepsType DEF OnceInv
<1> DEFINE Rest == /\ WalksAnEntry /\ RowsOfStarted /\ TrackerRight /\ Once
                   /\ FiresAtEnd /\ FinishedFired
<1> SUFFICES Rest'
  BY <1>1 DEF OnceInv
<1>2. /\ TypeOK /\ LastBar' = LastBar /\ LastBar \in Nat /\ idx \in 1..LastBar
      /\ j \in 1..LastBar /\ k \in Nat /\ ConfigIds \subseteq Nat
  <2>1. TypeOK /\ bars \in Bars
    BY DEF OnceInv
  <2>2. LastBar' = LastBar /\ LastBar \in Nat
    BY <1>1, <2>1, BarsInOrder DEF LastBar
  <2>3. idx \in 1..LastBar /\ j \in 1..LastBar /\ k \in 1..(Len(ExitConfigs) + 1)
    BY <2>1 DEF TypeOK
  <2>4. k \in Nat /\ ConfigIds \subseteq Nat
    BY <2>3, ConfigsAreSome
  <2> QED BY <2>1, <2>2, <2>3, <2>4
<1>3. CASE SkipEntry
  <2>1. /\ NextEntry /\ rows' = rows /\ pc # "done"
        /\ ~(bars[idx].close > 0 /\ entry_epoch \in Entries)
    <3>1. bars[idx].close \in Nat
      BY <1>2, BarsInOrder DEF OnceInv
    <3> QED BY <1>3, <3>1 DEF SkipEntry
  <2> QED BY <1>1, <2>1, NextEntryKeepsOnce
<1>4. CASE StartEntry
  <2>1. /\ pc = "entry" /\ pc' = "bar" /\ idx' = idx /\ j' = idx /\ rows' = rows
        /\ tracker' = {} /\ bars[idx].close > 0 /\ entry_epoch \in Entries
    BY <1>4 DEF StartEntry
  <2>2. \A e, c : Fired(e, c)' = Fired(e, c)
    BY <1>1, <2>1, SameRows
  <2>3. \A c \in ConfigIds : Fired(idx, c) = {}
    <3>1. \A key \in DOMAIN rows : key[1] # bars[idx].epoch
      BY <1>2, <2>1 DEF OnceInv, RowsOfStarted, Started
    <3> QED BY <3>1 DEF Fired
  <2>4. WalksAnEntry' /\ TrackerRight' /\ Once' /\ FiresAtEnd'
    BY <1>1, <1>2, <2>1, <2>2, <2>3
       DEF WalksAnEntry, TrackerRight, FiresAtEnd, Once, InWalk, OnceInv, entry_epoch
  <2>5. RowsOfStarted' /\ FinishedFired'
    BY <1>1, <1>2, <2>1, <2>2
       DEF RowsOfStarted, FinishedFired, Finished, Priced, Started, OnceInv
  <2> QED BY <2>4, <2>5
<1>5. CASE SkipBar
  <2>1. /\ NextBar /\ rows' = rows /\ tracker' = tracker /\ InWalk /\ ~(close_price > 0)
    BY <1>5 DEF SkipBar, AfterSkip, HasClose, InWalk
  <2> QED BY <1>1, <2>1, NextBarKeepsOnce DEF close_price
<1>6. CASE BeginBar
  <2>1. /\ pc = "bar" /\ pc' = "config" /\ idx' = idx /\ j' = j /\ rows' = rows
        /\ tracker' = tracker /\ k' = 1
    BY <1>6 DEF BeginBar, walk
  <2>2. \A e, c : Fired(e, c)' = Fired(e, c)
    BY <1>1, <2>1, SameRows
  <2>3. \A c \in ConfigIds : ~(c < 1)
    BY <1>2, ConfigsAreSome
  <2>4. WalksAnEntry' /\ TrackerRight' /\ Once' /\ FiresAtEnd'
    BY <1>1, <1>2, <2>1, <2>2, <2>3
       DEF WalksAnEntry, TrackerRight, FiresAtEnd, Once, InWalk, OnceInv, entry_epoch
  <2>5. RowsOfStarted' /\ FinishedFired'
    BY <1>1, <1>2, <2>1, <2>2
       DEF RowsOfStarted, FinishedFired, Finished, Priced, Started, OnceInv
  <2> QED BY <2>4, <2>5
<1>7. CASE AnomalousDrop \/ EndOfData \/ TrailingStop
  <2>1. k \in ConfigIds
    BY <1>7, FiringActions DEF OnceInv
  <2>2. PICK decision \in {DropDecision, EndDecision, StopDecision} : Fires(decision)
    BY <1>7, FiringActions DEF OnceInv
  <2> QED BY <1>1, <2>1, <2>2, FireKeepsOnce
<1>8. CASE NoDecision
  <2>1. /\ pc = "config" /\ pc' = pc /\ idx' = idx /\ j' = j /\ rows' = rows
        /\ tracker' = tracker /\ k' = k + 1 /\ (k \in tracker \/ j # LastBar)
    BY <1>8 DEF NoDecision, AtConfig, walk, AtEnd
  <2>2. \A e, c : Fired(e, c)' = Fired(e, c)
    BY <1>1, <2>1, SameRows
  <2>3. FiresAtEnd'
    <3> SUFFICES ASSUME j = LastBar, NEW c \in ConfigIds, c < k + 1 PROVE c \in tracker
      BY <1>1, <1>2, <2>1 DEF FiresAtEnd
    <3>1. c < k \/ c = k
      BY <1>2
    <3> QED BY <2>1, <3>1 DEF OnceInv, FiresAtEnd
  <2>4. WalksAnEntry' /\ TrackerRight' /\ Once'
    BY <1>1, <1>2, <2>1, <2>2 DEF WalksAnEntry, TrackerRight, Once, InWalk, OnceInv, entry_epoch
  <2>5. RowsOfStarted' /\ FinishedFired'
    BY <1>1, <1>2, <2>1, <2>2
       DEF RowsOfStarted, FinishedFired, Finished, Priced, Started, OnceInv
  <2> QED BY <2>3, <2>4, <2>5
<1>9. CASE EndBar
  <2>1. /\ pc = "config" /\ k > Len(ExitConfigs) /\ rows' = rows /\ tracker' = tracker
        /\ InWalk /\ tracker \subseteq ConfigIds
    BY <1>2, <1>9 DEF EndBar, InWalk, TypeOK
  <2>2. all_fired \/ j = LastBar => \A c \in ConfigIds : Fired(idx, c) # {}
    <3>1. all_fired \/ j = LastBar => \A c \in ConfigIds : c \in tracker
      <4>1. \A c \in ConfigIds : c < k
        BY <1>2, <2>1, ConfigsAreSome
      <4> QED BY <2>1, <4>1, AllFired DEF OnceInv, FiresAtEnd
    <3> QED BY <2>1, <3>1 DEF OnceInv, TrackerRight
  <2>3. CASE all_fired
    <3>1. NextEntry /\ pc # "done"
      BY <1>9, <2>1, <2>3 DEF EndBar
    <3> QED BY <1>1, <2>1, <2>2, <2>3, <3>1, NextEntryKeepsOnce
  <2>4. CASE ~all_fired
    <3>1. NextBar
      BY <1>9, <2>4 DEF EndBar
    <3> QED BY <1>1, <2>1, <2>2, <3>1, NextBarKeepsOnce
  <2> QED BY <2>3, <2>4
<1>10. CASE UNCHANGED vars
  <2>1. UNCHANGED <<pc, idx, j, k, tracker, rows>>
    BY <1>10 DEF vars
  <2>2. \A e, c : Fired(e, c)' = Fired(e, c)
    BY <1>1, <2>1, SameRows
  <2>3. WalksAnEntry' /\ TrackerRight' /\ Once' /\ FiresAtEnd'
    BY <1>1, <1>2, <2>1, <2>2
       DEF WalksAnEntry, TrackerRight, FiresAtEnd, Once, InWalk, OnceInv, entry_epoch
  <2>4. RowsOfStarted' /\ FinishedFired'
    BY <1>1, <1>2, <2>1, <2>2
       DEF RowsOfStarted, FinishedFired, Finished, Priced, Started, OnceInv
  <2> QED BY <2>3, <2>4
<1> QED BY <1>3, <1>4, <1>5, <1>6, <1>7, <1>8, <1>9, <1>10 DEF Next

\* The books of the walk hold in every reachable state.
LEMMA AlwaysOnce == Spec => []OnceInv
<1>1. Init => OnceInv
  <2> SUFFICES ASSUME Init PROVE OnceInv
    OBVIOUS
  <2>1. /\ TypeOK /\ bars \in Bars /\ pc = "entry" /\ idx = 1 /\ DOMAIN rows = {}
        /\ LastBar \in Nat \ {0}
    BY InitType, BarsInOrder DEF Init
  <2>2. \A e, c : Fired(e, c) = {}
    BY <2>1 DEF Fired
  <2>3. Finished = {}
    <3>1. \A e \in 1..LastBar : ~(e < 1)
      BY <2>1
    <3> QED BY <2>1, <3>1 DEF Finished, Priced
  <2> QED BY <2>1, <2>2, <2>3 DEF OnceInv, WalksAnEntry, RowsOfStarted, TrackerRight, Once,
                                  FiresAtEnd, FinishedFired, InWalk
<1>2. OnceInv /\ [Next]_vars => OnceInv'
  BY StepKeepsOnce
<1> QED BY <1>1, <1>2, PTL DEF Spec

\* Each exit config fires at most once per entry, whatever rules it meets on later bars, and
\* has fired when the walk of the entry is over, if the last close is known.
THEOREM WalksBookOnce == Spec => []EachConfigExitsOnce
<1>1. OnceInv => EachConfigExitsOnce
  <2> SUFFICES ASSUME OnceInv, NEW e \in 1..LastBar, NEW c \in ConfigIds
               PROVE  Cardinality(Fired(e, c)) <= 1
    BY DEF EachConfigExitsOnce, OnceInv, FinishedFired
  <2>1. CASE Fired(e, c) = {}
    <3>1. Cardinality({}) = 0
      BY FS_EmptySet
    <3> QED BY <2>1, <3>1
  <2>2. CASE Fired(e, c) # {}
    <3>1. PICK x : x \in Fired(e, c)
      BY <2>2
    <3>2. Fired(e, c) = {x}
      BY <3>1 DEF OnceInv, Once
    <3>3. Cardinality({x}) = 1
      BY FS_Singleton
    <3> QED BY <3>2, <3>3
  <2> QED BY <2>1, <2>2
<1> QED BY <1>1, AlwaysOnce, PTL

----------------------------------------------------------------------------
(* The exits are those of the reference *)

\* The reference depends on the bars alone.
LEMMA SameReference ==
    ASSUME bars' = bars
    PROVE  /\ Priced' = Priced /\ LastBar' = LastBar
           /\ \A e, config : ExitBars(e, config)' = ExitBars(e, config)
           /\ \A e, config : ExitOf(e, config)' = ExitOf(e, config)
<1>1. LastBar' = LastBar
  BY DEF LastBar
<1>2. Priced' = Priced
  BY <1>1 DEF Priced
<1>3. ASSUME NEW e, NEW i
      PROVE  ClosesTo(e, i)' = ClosesTo(e, i) /\ CloseBefore(e, i)' = CloseBefore(e, i)
  BY <1>2 DEF ClosesTo, CloseBefore
<1>4. ASSUME NEW e, NEW i, NEW config
      PROVE  Drops(e, i)' = Drops(e, i) /\ Stops(e, i, config)' = Stops(e, i, config)
  BY <1>3 DEF Drops, Stops, Tightened
<1>5. ASSUME NEW e, NEW config PROVE ExitBars(e, config)' = ExitBars(e, config)
  BY <1>1, <1>2, <1>4 DEF ExitBars
<1>6. ASSUME NEW e, NEW config PROVE ExitOf(e, config)' = ExitOf(e, config)
  BY <1>1, <1>3, <1>4, <1>5 DEF ExitOf
<1> QED BY <1>1, <1>2, <1>5, <1>6

\* The close before the bar of the walk is the last one remembered.
LEMMA RemembersLast ==
    ASSUME OnceInv, Remembers, InWalk
    PROVE  CloseBefore(idx, j) = last_close /\ last_close \in Nat /\ last_close > 0
<1>1. PICK b \in Priced : /\ idx <= b /\ (b < j \/ (b = j /\ j = idx))
                          /\ last_close = bars[b].close
                          /\ \A other \in Priced : other < j => other <= b
  BY DEF Remembers
<1>2. /\ \A i \in Priced : i \in Nat
      /\ idx \in Nat /\ j \in Nat /\ bars[b].close > 0 /\ last_close \in Nat
  BY BarsInOrder DEF OnceInv, TypeOK, Priced
<1>3. CASE j = idx
  <2>1. b = idx
    BY <1>1, <1>2, <1>3
  <2> QED BY <1>1, <1>2, <1>3, <2>1 DEF CloseBefore
<1>4. CASE j # idx
  <2> DEFINE S == {i \in Priced : idx <= i /\ i < j}
  <2>1. b \in S /\ \A other \in S : other <= b
    BY <1>1, <1>4
  <2>2. Latest(S) \in S /\ \A other \in S : other <= Latest(S)
    BY <2>1 DEF Latest
  <2>3. Latest(S) = b
    <3>1. Latest(S) <= b /\ b <= Latest(S)
      BY <2>1, <2>2
    <3>2. Latest(S) \in Nat /\ b \in Nat
      BY <1>2, <2>2
    <3> QED BY <3>1, <3>2
  <2> QED BY <1>1, <1>2, <1>4, <2>3 DEF CloseBefore
<1> QED BY <1>3, <1>4

\* The highest close so far is the one remembered.
LEMMA RemembersPeak ==
    ASSUME OnceInv, Remembers, pc = "config"
    PROVE  Highest(ClosesTo(idx, j)) = max_price /\ max_price \in Nat /\ max_price > 0
<1>1. /\ \A i \in Priced : i \in Nat /\ bars[i].close \in Nat /\ bars[i].close > 0
      /\ idx \in Nat /\ j \in Nat /\ max_price \in Nat /\ idx <= j /\ InWalk
  <2>1. TypeOK /\ bars \in Bars /\ InWalk /\ idx <= j
    BY DEF OnceInv, WalksAnEntry, InWalk
  <2>2. LastBar \in Nat /\ LastBar + 1 = Len(bars) /\ Len(bars) \in Nat
    BY <2>1, BarsInOrder
  <2>3. \A i \in 1..LastBar : i \in Nat /\ bars[i].close \in Nat
    <3>1. \A i \in 1..LastBar : i \in 1..Len(bars)
      BY <2>2
    <3> QED BY <2>1, <3>1, BarsInOrder
  <2>4. \A i \in Priced : i \in Nat /\ bars[i].close \in Nat /\ bars[i].close > 0
    BY <2>3 DEF Priced
  <2>5. idx \in Nat /\ j \in Nat /\ max_price \in Nat
    BY <2>1, <2>2 DEF TypeOK
  <2> QED BY <2>1, <2>4, <2>5
<1>2. /\ \E b \in Seen : max_price = bars[b].close
      /\ \A b \in Seen : bars[b].close <= max_price
  BY <1>1 DEF Remembers
<1>3. ClosesTo(idx, j) = {bars[b].close : b \in Seen}
  <2>1. Seen = {b \in Priced : idx <= b /\ b <= j}
    BY <1>1 DEF Seen
  <2> QED BY <2>1 DEF ClosesTo
<1> DEFINE S == ClosesTo(idx, j)
<1>4. max_price \in S /\ \A p \in S : p <= max_price /\ p \in Nat
  BY <1>1, <1>2, <1>3 DEF Seen
<1>5. Highest(S) \in S /\ \A p \in S : p <= Highest(S)
  BY <1>4 DEF Highest
<1>6. Highest(S) = max_price
  <2>1. Highest(S) <= max_price /\ max_price <= Highest(S) /\ Highest(S) \in Nat
    BY <1>4, <1>5
  <2> QED BY <1>1, <2>1
<1>7. max_price > 0
  BY <1>1, <1>2 DEF Seen
<1> QED BY <1>1, <1>6, <1>7

\* At a config the rules of the reference and of the code agree.
LEMMA RulesAgree ==
    ASSUME OnceInv, Remembers, pc = "config", k \in ConfigIds
    PROVE  /\ Drops(idx, j) <=> IsAnomalousDrop
           /\ Stops(idx, j, ExitConfigs[k]) <=> ~below_min_hold /\ IsStopped
           /\ j \in ExitBars(idx, ExitConfigs[k]) <=>
                IsAnomalousDrop \/ AtEnd \/ (~below_min_hold /\ IsStopped)
<1>1. /\ CloseBefore(idx, j) = last_close /\ last_close \in Nat /\ last_close > 0
      /\ Highest(ClosesTo(idx, j)) = max_price /\ max_price \in Nat /\ max_price > 0
  BY RemembersLast, RemembersPeak DEF InWalk
<1>2. /\ idx \in 1..LastBar /\ j \in 1..LastBar /\ LastBar + 1 = Len(bars)
      /\ LastBar \in Nat /\ idx <= j
  BY BarsInOrder DEF OnceInv, TypeOK, WalksAnEntry, InWalk
<1>3. /\ bars[j].close \in Nat /\ bars[j].epoch \in Nat
      /\ bars[idx].open \in Nat /\ bars[idx].epoch \in Nat
  <2>1. idx \in 1..Len(bars) /\ j \in 1..Len(bars)
    BY <1>2
  <2> QED BY <2>1, BarsInOrder DEF OnceInv
<1>4. j \in Priced
  BY <1>2 DEF Priced, Remembers, InWalk
<1>5. /\ exit_config = ExitConfigs[k] /\ exit_config.min_hold_time_days \in Nat
      /\ exit_config.trailing_stop_pct \in Nat
  BY ConfigsAreSome DEF exit_config, Config
<1>6. Drops(idx, j) <=> IsAnomalousDrop
  <2> DEFINE limit == DropThreshold * last_close
  <2>1. limit \in Nat
    BY <1>1, WalkAssumption
  <2>2. Drops(idx, j) <=> (last_close - bars[j].close) * 100 > limit
    BY <1>1 DEF Drops
  <2>3. IsAnomalousDrop <=> (bars[j].close - last_close) * 100 < -limit
    BY <1>1 DEF IsAnomalousDrop, close_price
  <2> HIDE DEF limit
  <2>4. ASSUME NEW a \in Nat, NEW d \in Nat
        PROVE  (a - d) * 100 > limit <=> (d - a) * 100 < -limit
    BY <2>1
  <2> QED BY <1>1, <1>3, <2>2, <2>3, <2>4
<1>7. Stops(idx, j, ExitConfigs[k]) <=> ~below_min_hold /\ IsStopped
  <2> DEFINE config == ExitConfigs[k]
             tsl == IF Tightened(idx, j, config) THEN config.tsl_tight_pct
                    ELSE config.trailing_stop_pct
  <2>1. effective_tsl = tsl
    BY <1>1, <1>5 DEF effective_tsl, Tightened
  <2>2. IsStopped <=> /\ config.trailing_stop_pct > 0
                      /\ (max_price - bars[j].close) * 100 > tsl * max_price
    BY <1>1, <1>5, <2>1 DEF IsStopped, close_price
  <2>3. below_min_hold <=>
            ~(bars[j].epoch - bars[idx].epoch >= config.min_hold_time_days)
    BY <1>3, <1>5 DEF below_min_hold, this_epoch, entry_epoch
  <2>4. Stops(idx, j, config) <=>
            /\ config.trailing_stop_pct > 0
            /\ bars[j].epoch - bars[idx].epoch >= config.min_hold_time_days
            /\ (max_price - bars[j].close) * 100 > tsl * max_price
    BY <1>1 DEF Stops
  <2> HIDE DEF tsl
  <2> QED BY <2>2, <2>3, <2>4
<1>8. j \in ExitBars(idx, ExitConfigs[k]) <=>
        Drops(idx, j) \/ AtEnd \/ Stops(idx, j, ExitConfigs[k])
  BY <1>2, <1>4 DEF ExitBars, AtEnd
<1> QED BY <1>6, <1>7, <1>8

\* The bar of the walk is the first one at which an unfired config exits.
LEMMA EarliestIsHere ==
    ASSUME OnceInv, NoneMissed, InWalk, k \in ConfigIds, k \notin tracker,
           j \in ExitBars(idx, ExitConfigs[k])
    PROVE  Earliest(ExitBars(idx, ExitConfigs[k])) = j
<1> DEFINE S == ExitBars(idx, ExitConfigs[k])
<1>1. \A i \in S : j <= i
  BY DEF NoneMissed
<1>2. Earliest(S) \in S /\ \A other \in S : Earliest(S) <= other
  BY <1>1 DEF Earliest
<1>3. \A i \in S : i \in Nat
  <2>1. LastBar \in Nat
    BY BarsInOrder DEF OnceInv
  <2> QED BY <2>1 DEF ExitBars, Priced
<1>4. Earliest(S) <= j /\ j <= Earliest(S) /\ Earliest(S) \in Nat /\ j \in Nat
  BY <1>1, <1>2, <1>3
<1> QED BY <1>4

\* A config that fires does what the reference says.
LEMMA FiresTheExit ==
    ASSUME OnceInv, Remembers, NoneMissed, k \in ConfigIds,
           AnomalousDrop \/ EndOfData \/ TrailingStop
    PROVE  /\ ExitBars(idx, ExitConfigs[k]) # {}
           /\ AnomalousDrop => ExitOf(idx, ExitConfigs[k]) = DropDecision
           /\ EndOfData => ExitOf(idx, ExitConfigs[k]) = EndDecision
           /\ TrailingStop => ExitOf(idx, ExitConfigs[k]) = StopDecision
<1>1. pc = "config" /\ k \notin tracker /\ InWalk
  BY DEF AnomalousDrop, EndOfData, TrailingStop, Undecided, AtConfig, InWalk
<1>2. j \in ExitBars(idx, ExitConfigs[k])
  BY <1>1, RulesAgree DEF AnomalousDrop, EndOfData, TrailingStop
<1>3. Earliest(ExitBars(idx, ExitConfigs[k])) = j
  BY <1>1, <1>2, EarliestIsHere
<1>4. (Drops(idx, j) <=> IsAnomalousDrop) /\ CloseBefore(idx, j) = last_close
  BY <1>1, RulesAgree, RemembersLast
<1>5. j \in 1..LastBar /\ LastBar \in Nat
  BY BarsInOrder DEF OnceInv, TypeOK
<1>6. ASSUME AnomalousDrop PROVE ExitOf(idx, ExitConfigs[k]) = DropDecision
  BY <1>3, <1>4, <1>6 DEF ExitOf, DropDecision, this_epoch, AnomalousDrop
<1>7. ASSUME EndOfData PROVE ExitOf(idx, ExitConfigs[k]) = EndDecision
  <2>1. j = LastBar /\ ~(j < LastBar) /\ ~Drops(idx, j)
    BY <1>4, <1>5, <1>7 DEF EndOfData, AtEnd
  <2> QED BY <1>3, <2>1 DEF ExitOf, EndDecision, this_epoch, close_price
<1>8. ASSUME TrailingStop PROVE ExitOf(idx, ExitConfigs[k]) = StopDecision
  <2>1. j # LastBar /\ j < LastBar /\ ~Drops(idx, j)
    BY <1>4, <1>5, <1>8 DEF TrailingStop, AtEnd
  <2> QED BY <1>3, <2>1 DEF ExitOf, StopDecision, this_epoch, close_price, next_open
<1> QED BY <1>2, <1>6, <1>7, <1>8

\* The exit booked is the first, and those booked before it keep their price and reason.
LEMMA FireKeepsFirst ==
    ASSUME OnceInv, FirstInv, k \in ConfigIds, NEW decision, Decides(decision),
           rows' = Merged(decision), bars' = bars,
           ExitBars(idx, ExitConfigs[k]) # {}, ExitOf(idx, ExitConfigs[k]) = decision
    PROVE  FirstSoFar' /\ RowsOfExits'
<1>0. TypeOK /\ bars \in Bars /\ LastBar' = LastBar
  BY DEF OnceInv, LastBar
<1>1. PICK key : key = Booked(decision)
  OBVIOUS
<1>2. /\ DOMAIN rows' = DOMAIN rows \cup {key}
      /\ \A other \in DOMAIN rows : /\ rows'[other].exit_price = rows[other].exit_price
                                    /\ rows'[other].exit_reason = rows[other].exit_reason
                                    /\ other # key => rows'[other] = rows[other]
  BY <1>0, <1>1, MergedDoes
<1>3. key \in DOMAIN rows =>
        rows'[key].exit_config_ids = Append(rows[key].exit_config_ids, k)
  BY <1>0, <1>1, MergedDoes
<1>4. key \notin DOMAIN rows =>
        rows'[key] = [exit_price |-> decision.exit_price,
                      exit_reason |-> decision.reason, exit_config_ids |-> <<k>>]
  BY <1>0, <1>1, MergedDoes
<1>5. \A other \in DOMAIN rows : /\ Len(rows[other].exit_config_ids) \in Nat
                                 /\ Len(rows[other].exit_config_ids) >= 1
                                 /\ rows[other].exit_config_ids \in Seq(ConfigIds)
  BY <1>0 DEF TypeOK, Row, FirstInv, RowsOfExits
<1>6. RowsOfExits'
  <2>1. key \in DOMAIN rows => Len(rows'[key].exit_config_ids) >= 1
    BY <1>3, <1>5
  <2>2. key \notin DOMAIN rows => Len(rows'[key].exit_config_ids) >= 1
    <3>1. key \notin DOMAIN rows => rows'[key].exit_config_ids = <<k>>
      BY <1>4
    <3>2. Len(<<k>>) = 1
      OBVIOUS
    <3> DEFINE ids == rows'[key].exit_config_ids
    <3>3. key \notin DOMAIN rows => ids = <<k>>
      BY <3>1
    <3> HIDE DEF ids
    <3>4. key \notin DOMAIN rows => Len(ids) = 1
      BY <3>2, <3>3
    <3>5. key \notin DOMAIN rows => Len(ids) >= 1
      BY <3>4
    <3> QED BY ONLY <3>5, Zenon DEF ids
  <2> QED BY <1>2, <1>5, <2>1, <2>2 DEF RowsOfExits
<1>7. ASSUME NEW e \in 1..LastBar, NEW c \in ConfigIds, NEW fired \in Fired(e, c)'
      PROVE  IsFirst(e, c, fired)'
  <2>1. /\ ExitBars(e, ExitConfigs[c])' = ExitBars(e, ExitConfigs[c])
        /\ ExitOf(e, ExitConfigs[c])' = ExitOf(e, ExitConfigs[c])
    BY SameReference
  <2>2. Fired(e, c)' = Fired(e, c) \cup
                (IF e = idx /\ c = k THEN {<<key, Place(decision)>>} ELSE {})
    BY <1>0, <1>1, FireAddsOne
  <2>3. CASE fired \in Fired(e, c)
    <3>1. fired[1] \in DOMAIN rows
      BY <2>3 DEF Fired
    <3>2. IsFirst(e, c, fired)
      BY <2>3 DEF FirstInv, FirstSoFar
    <3> QED BY <1>2, <2>1, <3>1, <3>2 DEF IsFirst
  <2>4. CASE e = idx /\ c = k /\ fired = <<key, Place(decision)>>
    <3>1. /\ ExitBars(e, ExitConfigs[c])' # {}
          /\ ExitOf(e, ExitConfigs[c])' = decision
      BY <2>1, <2>4
    <3>2. fired[1] = key /\ fired[2] = Place(decision) /\ fired[1][2] = decision.exit_epoch
      BY <1>1, <2>4 DEF Booked
    <3>3. fired[2] = 1 => key \notin DOMAIN rows
      BY <1>1, <1>5, <3>2 DEF Place
    <3>4. fired[2] = 1 => /\ rows'[fired[1]].exit_price = decision.exit_price
                          /\ rows'[fired[1]].exit_reason = decision.reason
      BY <1>4, <3>2, <3>3
    <3> QED BY <3>1, <3>2, <3>4 DEF IsFirst
  <2> QED BY <2>2, <2>3, <2>4
<1> QED BY <1>0, <1>6, <1>7 DEF FirstSoFar

\* Without an exit the rows stay right.
LEMMA RowsStayFirst ==
    ASSUME FirstInv, rows' = rows, bars' = bars PROVE FirstSoFar' /\ RowsOfExits'
<1>1. LastBar' = LastBar /\ \A e, c : Fired(e, c)' = Fired(e, c)
  BY SameRows DEF LastBar
<1>2. ASSUME NEW e, NEW c, NEW fired, IsFirst(e, c, fired) PROVE IsFirst(e, c, fired)'
  <2>1. /\ ExitBars(e, ExitConfigs[c])' = ExitBars(e, ExitConfigs[c])
        /\ ExitOf(e, ExitConfigs[c])' = ExitOf(e, ExitConfigs[c])
    BY SameReference
  <2> QED BY <1>2, <2>1 DEF IsFirst
<1> QED BY <1>1, <1>2 DEF FirstInv, FirstSoFar, RowsOfExits

\* The same for the entry of the walk, which a step leaves alone.
LEMMA SameExits ==
    ASSUME bars' = bars, idx' = idx
    PROVE  \A c \in ConfigIds : ExitBars(idx, ExitConfigs[c])' = ExitBars(idx, ExitConfigs[c])
<1>1. LastBar' = LastBar
  BY DEF LastBar
<1>2. Priced' = Priced
  BY <1>1 DEF Priced
<1>3. ASSUME NEW i
      PROVE  ClosesTo(idx, i)' = ClosesTo(idx, i) /\ CloseBefore(idx, i)' = CloseBefore(idx, i)
  BY <1>2 DEF ClosesTo, CloseBefore
<1>4. ASSUME NEW i, NEW config
      PROVE  Drops(idx, i)' = Drops(idx, i) /\ Stops(idx, i, config)' = Stops(idx, i, config)
  BY <1>3 DEF Drops, Stops, Tightened
<1> QED BY <1>1, <1>2, <1>4 DEF ExitBars

\* What the steps of a walk know of its place.
LEMMA PlaceFacts ==
    ASSUME OnceInv
    PROVE  /\ LastBar \in Nat /\ idx \in 1..LastBar /\ j \in 1..LastBar /\ k \in Nat
           /\ \A c \in ConfigIds : c \in Nat /\ c <= Len(ExitConfigs)
           /\ Len(ExitConfigs) \in Nat
           /\ last_close \in Nat /\ max_price \in Nat
           /\ \A i \in 1..LastBar : bars[i].close \in Nat
           /\ \A i \in Priced : i \in 1..LastBar /\ i \in Nat
<1>1. TypeOK /\ bars \in Bars
  BY DEF OnceInv
<1>2. LastBar \in Nat /\ LastBar + 1 = Len(bars)
  BY <1>1, BarsInOrder
<1>3. idx \in 1..LastBar /\ j \in 1..LastBar /\ last_close \in Nat /\ max_price \in Nat
  BY <1>1 DEF TypeOK
<1>4. k \in Nat /\ Len(ExitConfigs) \in Nat
      /\ \A c \in ConfigIds : c \in Nat /\ c <= Len(ExitConfigs)
  BY <1>1, ConfigsAreSome DEF TypeOK
<1>5. \A i \in 1..LastBar : bars[i].close \in Nat
  <2>1. \A i \in 1..LastBar : i \in 1..Len(bars)
    BY <1>2
  <2> QED BY <1>1, <2>1, BarsInOrder
<1>6. \A i \in Priced : i \in 1..LastBar /\ i \in Nat
  BY <1>2 DEF Priced
<1> QED BY <1>2, <1>3, <1>4, <1>5, <1>6

\* A walk that starts remembers the bar of its entry.
LEMMA StartRemembers ==
    ASSUME OnceInv, StartEntry, bars' = bars PROVE Remembers' /\ NoneMissed'
<1>1. /\ pc' = "bar" /\ idx' = idx /\ j' = idx /\ bars[idx].close > 0
      /\ last_close' = bars[idx].close /\ max_price' = bars[idx].close
  BY DEF StartEntry
<1>2. /\ idx \in Priced /\ Priced' = Priced /\ LastBar' = LastBar
      /\ \A i \in Priced : i \in Nat
      /\ \A i \in 1..LastBar : bars[i].close \in Nat
  BY <1>1, PlaceFacts, SameReference DEF Priced
<1>3. \A b \in Seen' : b = idx
  BY <1>1, <1>2 DEF Seen
<1>4. idx \in Seen'
  BY <1>1, <1>2 DEF Seen
<1>5. bars[idx].close \in Nat /\ \A other \in Priced : other < idx => other <= idx
  BY <1>2 DEF Priced
<1>6. Remembers'
  BY <1>1, <1>2, <1>3, <1>4, <1>5 DEF Remembers, InWalk
<1>7. NoneMissed'
  <2>1. \A c \in ConfigIds : ExitBars(idx, ExitConfigs[c])' = ExitBars(idx, ExitConfigs[c])
    BY <1>1, SameExits
  <2>2. \A config : \A i \in ExitBars(idx, config) : idx <= i
    BY <1>2 DEF ExitBars
  <2> QED BY <1>1, <2>1, <2>2 DEF NoneMissed
<1> QED BY <1>6, <1>7

\* A bar without a close changes nothing.
LEMMA SkipRemembers ==
    ASSUME OnceInv, FirstInv, SkipBar, bars' = bars PROVE Remembers' /\ NoneMissed'
<1>0. UNCHANGED <<last_close, max_price, tracker>> /\ NextBar
      /\ pc = "bar" /\ ~(bars[j].close > 0)
  BY DEF SkipBar, AfterSkip, HasClose, close_price
<1>1. CASE pc' \notin {"bar", "config"}
  BY <1>1 DEF Remembers, NoneMissed, InWalk
<1>2. CASE pc' \in {"bar", "config"}
  <2>1. /\ pc' = "bar" /\ idx' = idx /\ j' = j + 1
    BY <1>0, <1>2 DEF NextBar, NextEntry
  <2>2. /\ Priced' = Priced /\ LastBar' = LastBar
        /\ \A c \in ConfigIds : ExitBars(idx, ExitConfigs[c])' = ExitBars(idx, ExitConfigs[c])
    BY <2>1, SameReference, SameExits
  <2>3. /\ j \in Nat /\ idx \in Nat /\ idx <= j /\ j # idx /\ j \notin Priced
        /\ \A i \in Priced : i \in Nat
    BY <1>0, PlaceFacts DEF OnceInv, WalksAnEntry, InWalk, Priced
  <2>4. \A i \in Priced : (i < j + 1 <=> i < j) /\ (j <= i => j + 1 <= i)
    <3>1. \A i \in Nat : i # j => (i < j + 1 <=> i < j) /\ (j <= i => j + 1 <= i)
      BY <2>3
    <3> QED BY <2>3, <3>1
  <2>5. Seen' = Seen
    BY <1>0, <2>1, <2>2, <2>3, <2>4 DEF Seen
  <2>6. InWalk /\ Remembers /\ NoneMissed
    BY <1>0 DEF InWalk, FirstInv
  <2>7. Remembers'
    <3>1. PICK b \in Priced : /\ idx <= b /\ (b < j \/ (b = j /\ j = idx))
                              /\ last_close = bars[b].close
                              /\ \A other \in Priced : other < j => other <= b
      BY <2>6 DEF Remembers
    <3>2. b < j' /\ \A other \in Priced : other < j' => other <= b
      BY <2>1, <2>3, <2>4, <3>1
    <3>3. /\ \E p \in Seen' : max_price' = bars'[p].close
          /\ \A p \in Seen' : bars'[p].close <= max_price'
      BY <1>0, <2>5, <2>6 DEF Remembers
    <3> QED BY <1>0, <2>1, <2>2, <3>1, <3>2, <3>3 DEF Remembers
  <2>8. NoneMissed'
    <3>1. \A c \in ConfigIds : \A i \in ExitBars(idx, ExitConfigs[c]) : i \in Priced
      BY DEF ExitBars
    <3> QED BY <1>0, <2>1, <2>2, <2>4, <2>6, <3>1 DEF NoneMissed
  <2> QED BY <2>7, <2>8
<1> QED BY <1>1, <1>2

\* A bar that begins raises the peak to its close.
LEMMA BeginRemembers ==
    ASSUME OnceInv, FirstInv, BeginBar, bars' = bars PROVE Remembers' /\ NoneMissed'
<1>1. /\ pc = "bar" /\ pc' = "config" /\ idx' = idx /\ j' = j /\ k' = 1
      /\ last_close' = last_close /\ tracker' = tracker /\ max_price' = Peak
      /\ bars[j].close > 0
  BY DEF BeginBar, walk, HasClose, close_price
<1>2. /\ Priced' = Priced /\ LastBar' = LastBar /\ Remembers /\ NoneMissed /\ InWalk
      /\ \A c \in ConfigIds : ExitBars(idx, ExitConfigs[c])' = ExitBars(idx, ExitConfigs[c])
  BY <1>1, SameReference, SameExits DEF InWalk, FirstInv
<1>3. /\ j \in Priced /\ idx <= j /\ max_price \in Nat
      /\ \A b \in Priced : bars[b].close \in Nat
  BY <1>1, <1>2, PlaceFacts DEF OnceInv, WalksAnEntry, Priced
<1>4. Seen' = Seen \cup {j}
  BY <1>1, <1>2, <1>3 DEF Seen
<1>5. /\ Seen \subseteq Priced
      /\ \E b \in Seen : max_price = bars[b].close
      /\ \A b \in Seen : bars[b].close <= max_price
  BY <1>2 DEF Remembers, Seen
<1>6. Peak = IF bars[j].close > max_price THEN bars[j].close ELSE max_price
  BY DEF Peak, close_price
<1>7. /\ \E b \in Seen \cup {j} : Peak = bars[b].close
      /\ \A b \in Seen \cup {j} : bars[b].close <= Peak
  <2>1. \E b \in Seen \cup {j} : Peak = bars[b].close
    BY <1>5, <1>6
  <2>2. bars[j].close \in Nat /\ bars[j].close <= Peak /\ max_price <= Peak /\ Peak \in Nat
    BY <1>3, <1>6
  <2>3. \A b \in Seen : bars[b].close <= Peak
    BY <1>3, <1>5, <2>2
  <2> QED BY <2>1, <2>2, <2>3
<1>8. Remembers'
  <2>1. \E b \in Priced : /\ idx <= b /\ (b < j \/ (b = j /\ j = idx))
                          /\ last_close = bars[b].close
                          /\ \A other \in Priced : other < j => other <= b
    BY <1>2 DEF Remembers
  <2>2. /\ \E b \in Seen' : max_price' = bars[b].close
        /\ \A b \in Seen' : bars[b].close <= max_price'
    BY <1>1, <1>4, <1>7
  <2> QED BY <1>1, <1>2, <2>1, <2>2 DEF Remembers
<1>9. NoneMissed'
  <2>1. \A c \in ConfigIds : ~(c < 1)
    BY ConfigsAreSome
  <2> QED BY <1>1, <1>2, <2>1 DEF NoneMissed
<1> QED BY <1>8, <1>9

\* A config that is done with its bar is not one that has yet to look at it.
LEMMA ConfigRemembers ==
    ASSUME OnceInv, FirstInv, k \in ConfigIds, pc = "config", bars' = bars,
           UNCHANGED <<pc, idx, j, last_close, max_price>>, k' = k + 1,
           \/ tracker' = tracker \cup {k}
           \/ tracker' = tracker /\ (k \in tracker \/ j \notin ExitBars(idx, ExitConfigs[k]))
    PROVE  Remembers' /\ NoneMissed'
<1>1. /\ Priced' = Priced /\ LastBar' = LastBar /\ Remembers /\ NoneMissed /\ InWalk
      /\ \A c \in ConfigIds : ExitBars(idx, ExitConfigs[c])' = ExitBars(idx, ExitConfigs[c])
  BY SameReference, SameExits DEF InWalk, FirstInv
<1>2. Seen' = Seen
  BY <1>1 DEF Seen
<1>3. Remembers'
  <2>1. \E b \in Priced : /\ idx <= b /\ (b < j \/ (b = j /\ j = idx))
                          /\ last_close = bars[b].close
                          /\ \A other \in Priced : other < j => other <= b
    BY <1>1 DEF Remembers
  <2>2. /\ \E b \in Seen : max_price = bars[b].close
        /\ \A b \in Seen : bars[b].close <= max_price
        /\ bars[j].close > 0
    BY <1>1 DEF Remembers
  <2> QED BY <1>1, <1>2, <2>1, <2>2 DEF Remembers
<1>4. ASSUME NEW c \in ConfigIds \ tracker', NEW i \in ExitBars(idx, ExitConfigs[c])
      PROVE  j <= i /\ (c < k + 1 => j < i)
  <2>1. c \notin tracker /\ (c = k => j \notin ExitBars(idx, ExitConfigs[k]))
    OBVIOUS
  <2>2. j <= i /\ (c < k => j < i)
    BY <1>1, <2>1 DEF NoneMissed
  <2>3. c = k => i # j
    BY <2>1
  <2>4. c \in Nat /\ k \in Nat /\ i \in Nat /\ j \in Nat
    BY PlaceFacts DEF ExitBars
  <2> QED BY <2>2, <2>3, <2>4
<1>5. NoneMissed'
  BY <1>1, <1>4 DEF NoneMissed
<1> QED BY <1>3, <1>5

\* A bar that ends is the last one with a close.
LEMMA EndRemembers ==
    ASSUME OnceInv, FirstInv, EndBar, bars' = bars PROVE Remembers' /\ NoneMissed'
<1>0. /\ pc = "config" /\ k > Len(ExitConfigs) /\ last_close' = bars[j].close
      /\ max_price' = max_price /\ tracker' = tracker
      /\ IF all_fired THEN NextEntry ELSE NextBar
  BY DEF EndBar, close_price
<1>1. CASE pc' \notin {"bar", "config"}
  BY <1>1 DEF Remembers, NoneMissed, InWalk
<1>2. CASE pc' \in {"bar", "config"}
  <2>1. /\ pc' = "bar" /\ idx' = idx /\ j' = j + 1
    BY <1>0, <1>2 DEF NextBar, NextEntry
  <2>2. /\ Priced' = Priced /\ LastBar' = LastBar /\ InWalk /\ Remembers /\ NoneMissed
        /\ \A c \in ConfigIds : ExitBars(idx, ExitConfigs[c])' = ExitBars(idx, ExitConfigs[c])
    BY <1>0, <2>1, SameReference, SameExits DEF InWalk, FirstInv
  <2>3. /\ j \in Nat /\ idx \in Nat /\ idx <= j /\ j \in Priced
        /\ \A i \in Priced : i \in Nat
    BY <1>0, <2>2, PlaceFacts DEF OnceInv, WalksAnEntry, Priced, Remembers
  <2>4. \A i \in Priced : (i < j + 1 <=> i < j \/ i = j) /\ (j < i => j + 1 <= i)
                          /\ (i < j + 1 => i <= j)
    BY <2>3
  <2>5. Seen' = Seen
    BY <1>0, <2>1, <2>2, <2>3, <2>4 DEF Seen
  <2>6. Remembers'
    <3>1. j < j' /\ \A other \in Priced : other < j' => other <= j
      BY <2>1, <2>3, <2>4
    <3>2. /\ \E p \in Seen' : max_price' = bars[p].close
          /\ \A p \in Seen' : bars[p].close <= max_price'
      BY <1>0, <2>2, <2>5 DEF Remembers
    <3> QED BY <1>0, <2>1, <2>2, <2>3, <3>1, <3>2 DEF Remembers
  <2>7. NoneMissed'
    <3>1. \A c \in ConfigIds : \A i \in ExitBars(idx, ExitConfigs[c]) : i \in Priced
      BY DEF ExitBars
    <3>2. \A c \in ConfigIds : c < k
      BY <1>0, PlaceFacts
    <3> QED BY <1>0, <2>1, <2>2, <2>4, <3>1, <3>2 DEF NoneMissed
  <2> QED BY <2>6, <2>7
<1> QED BY <1>1, <1>2

LEMMA StepKeepsFirst ==
    ASSUME OnceInv, FirstInv, [Next]_vars PROVE FirstInv'
<1>1. bars' = bars /\ TypeOK /\ bars \in Bars
  BY WalkKeepsType DEF OnceInv
<1>2. CASE SkipEntry
  <2>1. rows' = rows /\ pc' \notin {"bar", "config"}
    BY <1>2 DEF SkipEntry, NextEntry
  <2>2. Remembers' /\ NoneMissed'
    BY <2>1 DEF Remembers, NoneMissed, InWalk
  <2> QED BY <1>1, <2>1, <2>2, RowsStayFirst DEF FirstInv
<1>3. CASE StartEntry
  <2>1. rows' = rows
    BY <1>3 DEF StartEntry
  <2> QED BY <1>1, <1>3, <2>1, StartRemembers, RowsStayFirst DEF FirstInv
<1>4. CASE SkipBar
  <2>1. rows' = rows
    BY <1>4 DEF SkipBar
  <2> QED BY <1>1, <1>4, <2>1, SkipRemembers, RowsStayFirst DEF FirstInv
<1>5. CASE BeginBar
  <2>1. rows' = rows
    BY <1>5 DEF BeginBar
  <2> QED BY <1>1, <1>5, <2>1, BeginRemembers, RowsStayFirst DEF FirstInv
<1>6. CASE AnomalousDrop \/ EndOfData \/ TrailingStop
  <2>1. k \in ConfigIds
    BY <1>1, <1>6, FiringActions
  <2>2. PICK decision : Fires(decision) /\ ExitOf(idx, ExitConfigs[k]) = decision
    BY <1>1, <1>6, <2>1, FiringActions, FiresTheExit DEF FirstInv
  <2>3. /\ pc = "config" /\ Decides(decision) /\ rows' = Merged(decision)
        /\ UNCHANGED <<pc, idx, j, last_close, max_price>> /\ k' = k + 1
        /\ tracker' = tracker \cup {k}
    BY <2>2 DEF Fires, Fire, AtConfig, Recorded, walk
  <2>4. ExitBars(idx, ExitConfigs[k]) # {}
    BY <1>6, <2>1, FiresTheExit DEF FirstInv
  <2>5. FirstSoFar' /\ RowsOfExits'
    BY <1>1, <2>1, <2>2, <2>3, <2>4, FireKeepsFirst
  <2>6. Remembers' /\ NoneMissed'
    BY <1>1, <2>1, <2>3, ConfigRemembers
  <2> QED BY <2>5, <2>6 DEF FirstInv
<1>7. CASE NoDecision
  <2>1. /\ pc = "config" /\ k <= Len(ExitConfigs) /\ rows' = rows
        /\ UNCHANGED <<pc, idx, j, last_close, max_price>> /\ k' = k + 1
        /\ tracker' = tracker
        /\ k \in tracker \/ ~(IsAnomalousDrop \/ AtEnd \/ (~below_min_hold /\ IsStopped))
    BY <1>7 DEF NoDecision, AtConfig, walk
  <2>2. k \in ConfigIds
    BY <1>1, <2>1, ConfigsAreSome DEF TypeOK
  <2>3. k \in tracker \/ j \notin ExitBars(idx, ExitConfigs[k])
    BY <2>1, <2>2, RulesAgree DEF FirstInv
  <2>4. Remembers' /\ NoneMissed'
    BY <1>1, <2>1, <2>2, <2>3, ConfigRemembers
  <2> QED BY <1>1, <2>1, <2>4, RowsStayFirst DEF FirstInv
<1>8. CASE EndBar
  <2>1. rows' = rows
    BY <1>8 DEF EndBar
  <2> QED BY <1>1, <1>8, <2>1, EndRemembers, RowsStayFirst DEF FirstInv
<1>9. CASE UNCHANGED vars
  <2>1. UNCHANGED <<pc, idx, j, k, last_close, max_price, tracker, rows>>
    BY <1>9 DEF vars
  <2>2. Remembers' /\ NoneMissed'
    BY <1>1, <2>1, SameReference, SameExits
       DEF FirstInv, Remembers, NoneMissed, InWalk, Seen
  <2> QED BY <1>1, <2>1, <2>2, RowsStayFirst DEF FirstInv
<1> QED BY <1>2, <1>3, <1>4, <1>5, <1>6, <1>7, <1>8, <1>9 DEF Next

\* The walk finds, for every entry and config, the first bar the rules name, and books the
\* exit on the day and at the price they give.
THEOREM WalkFindsTheFirst == Spec => []ExitsAreTheFirst
<1>1. Init => FirstInv
  <2> SUFFICES ASSUME Init PROVE FirstInv
    OBVIOUS
  <2>1. pc = "entry" /\ DOMAIN rows = {}
    BY DEF Init
  <2>2. \A e, c : Fired(e, c) = {}
    BY <2>1 DEF Fired
  <2> QED BY <2>1, <2>2 DEF FirstInv, Remembers, NoneMissed, FirstSoFar, RowsOfExits, InWalk
<1>2. OnceInv /\ FirstInv /\ [Next]_vars => FirstInv'
  BY StepKeepsFirst
<1>3. FirstInv => ExitsAreTheFirst
  <2>1. \A e \in Finished : e \in 1..LastBar
    BY DEF Finished, Priced
  <2> QED BY <2>1 DEF FirstInv, FirstSoFar, IsFirst, ExitsAreTheFirst
<1> QED BY <1>1, <1>2, <1>3, AlwaysOnce, PTL DEF Spec

----------------------------------------------------------------------------
(* The rows of a window. The j and k of the generators are w and z here, as the exit walk has
   variables of those names. *)

\* A course has its bars in the order of their days.
InOrder(c) ==
    /\ Len(c) \in Nat /\ DOMAIN c = 1..Len(c) /\ Dated(c)
    /\ \A i \in 1..Len(c) : c[i].day \in Nat

LEMMA DaysDiffer ==
    ASSUME NEW c, InOrder(c), NEW i \in 1..Len(c), NEW w \in 1..Len(c), c[i].day = c[w].day
    PROVE  i = w
<1>1. Len(c) \in Nat /\ i \in Int /\ w \in Int
  BY DEF InOrder
<1>2. i < w \/ w < i \/ i = w
  BY <1>1
<1>3. i < w => c[i].day < c[w].day
  BY DEF InOrder, Dated
<1>4. w < i => c[w].day < c[i].day
  BY DEF InOrder, Dated
<1>5. c[i].day \in Nat /\ c[w].day \in Nat
  BY DEF InOrder
<1> QED BY <1>2, <1>3, <1>4, <1>5

\* The entries of the signals from a day on.
EntersFrom(c, start, o) ==
    \E i \in 1..Last(c) : c[i].day >= start /\ o.entry_epoch = c[i + 1].day

LEMMA RowsOfWindow ==
    ASSUME NEW c, InOrder(c), NEW start \in Nat, start >= DataStart
    PROVE  /\ Rows(c, start) = {i \in Rows(c, DataStart) : c[i].day >= start}
           /\ Rows(c, start) \subseteq 1..Last(c)
           /\ \A r, i \in 1..Last(c) : c[r + 1].day = c[i + 1].day => r = i
<1>0. DataStart \in Nat
  BY SignalsAssumption
<1>1. Last(c) = Len(c) - 1 /\ Len(c) \in Nat
  BY DEF Last, InOrder
<1>2. \A i \in 1..Last(c) : i \in 1..Len(c) /\ i + 1 \in 1..Len(c) /\ i \in Int
  BY <1>1
<1>3. \A i \in 1..Last(c) : c[i].day \in Nat
  BY <1>2 DEF InOrder
<1>4. \A d \in Nat : d >= start => d >= DataStart
  BY <1>0
<1>5. ASSUME NEW r \in 1..Last(c), NEW i \in 1..Last(c), c[r + 1].day = c[i + 1].day
      PROVE  r = i
  <2>1. r + 1 = i + 1
    BY <1>2, <1>5, DaysDiffer
  <2> QED BY <1>2, <2>1
<1> QED BY <1>3, <1>4, <1>5 DEF Rows

\* A window that starts later has the orders of the later signals.
LEMMA SignalsOfWindow ==
    ASSUME NEW c, InOrder(c), NEW start \in Nat, start >= DataStart, NEW S, NEW e
    PROVE  EverySignal(c, [i \in Rows(c, start) \cap S |-> e[i]])
             = {o \in EverySignal(c, [i \in Rows(c, DataStart) \cap S |-> e[i]]) :
                   EntersFrom(c, start, o)}
<1> DEFINE early == Rows(c, DataStart)
           late == Rows(c, start)
<1>1. /\ late = {i \in early : c[i].day >= start} /\ late \subseteq 1..Last(c)
      /\ early \subseteq 1..Last(c)
      /\ \A r, i \in 1..Last(c) : c[r + 1].day = c[i + 1].day => r = i
  BY RowsOfWindow DEF Rows
<1> HIDE DEF early, late
<1>2. ASSUME NEW W
      PROVE  \A o : o \in EverySignal(c, [i \in W \cap S |-> e[i]]) <=>
                \E i \in W : /\ i \in S /\ i < Last(c) /\ e[i].price # None
                             /\ o = Entered(c, i, e[i])
  BY DEF EverySignal
<1>3. \A i : Entered(c, i, e[i]).entry_epoch = c[i + 1].day
  BY DEF Entered, Order
<1>4. \A i \in late : EntersFrom(c, start, Entered(c, i, e[i]))
  BY <1>1, <1>3 DEF EntersFrom
<1>5. \A i \in early : EntersFrom(c, start, Entered(c, i, e[i])) => i \in late
  BY <1>1, <1>3 DEF EntersFrom
<1>6. ASSUME NEW o PROVE o \in EverySignal(c, [i \in late \cap S |-> e[i]])
             <=> o \in EverySignal(c, [i \in early \cap S |-> e[i]]) /\ EntersFrom(c, start, o)
  <2>1. o \in EverySignal(c, [i \in late \cap S |-> e[i]]) <=>
                \E i \in late : /\ i \in S /\ i < Last(c) /\ e[i].price # None
                                /\ o = Entered(c, i, e[i])
    BY <1>2
  <2>2. o \in EverySignal(c, [i \in early \cap S |-> e[i]]) <=>
                \E i \in early : /\ i \in S /\ i < Last(c) /\ e[i].price # None
                                 /\ o = Entered(c, i, e[i])
    BY <1>2
  <2> QED BY <1>1, <1>4, <1>5, <2>1, <2>2
<1> QED BY <1>6 DEF early, late

----------------------------------------------------------------------------
(* Strategies of one instrument *)

LEMMA IbsWindow ==
    ASSUME NEW c, InOrder(c), NEW start \in Nat, start >= DataStart
    PROVE  IbsReversion(c, start) = {o \in IbsReversion(c, DataStart) : EntersFrom(c, start, o)}
<1> DEFINE Signal(i) == /\ Scanned(c, i)
                        /\ IbsBelow(c[i], EC.ibs_entry_threshold)
                        /\ AboveSMA(c, i, EC.sma_trend_period)
           Quits(i, w) == \/ IbsAbove(c[w], XC.ibs_exit_threshold)
                          \/ HoldDays(c, i, w) >= XC.max_hold_days
           exit(i) == ExitAtNextOpen(c, {w \in Walked(c, i) : Quits(i, w)})
           S == {i \in 1..Last(c) : Signal(i)}
           e == [i \in 1..Last(c) |-> exit(i)]
<1>1. ASSUME NEW from \in Nat
      PROVE  IbsReversion(c, from) = EverySignal(c, [i \in Rows(c, from) \cap S |-> e[i]])
  <2>1. IbsReversion(c, from)
          = EverySignal(c, [i \in {r \in Rows(c, from) : Signal(r)} |-> exit(i)])
    BY DEF IbsReversion
  <2> HIDE DEF Signal, exit
  <2>2. {r \in Rows(c, from) : Signal(r)} = Rows(c, from) \cap S
    BY DEF Rows
  <2>3. \A i \in Rows(c, from) \cap S : exit(i) = e[i]
    BY DEF Rows
  <2> QED BY <2>1, <2>2, <2>3
<1> HIDE DEF S, e
<1>2. IbsReversion(c, start) = EverySignal(c, [i \in Rows(c, start) \cap S |-> e[i]])
  BY <1>1
<1>3. IbsReversion(c, DataStart) = EverySignal(c, [i \in Rows(c, DataStart) \cap S |-> e[i]])
  BY <1>1, SignalsAssumption
<1> QED BY <1>2, <1>3, SignalsOfWindow

LEMMA BbWindow ==
    ASSUME NEW c, InOrder(c), NEW start \in Nat, start >= DataStart
    PROVE  BbReversion(c, start) = {o \in BbReversion(c, DataStart) : EntersFrom(c, start, o)}
<1> DEFINE Signal(i) == /\ Scanned(c, i) /\ BelowBand(c, i)
                        /\ AboveSMA(c, i, EC.sma_trend_period)
           Quits(i, w) == /\ Known(c, w, EC.bb_period)
                          /\ \/ AboveBand(c, w)
                             \/ HoldDays(c, i, w) >= XC.max_hold_days
           exit(i) == ExitAtClose(c, {w \in Walked(c, i) : Quits(i, w)})
           S == {i \in 1..Last(c) : Signal(i)}
           e == [i \in 1..Last(c) |-> exit(i)]
<1>1. ASSUME NEW from \in Nat
      PROVE  BbReversion(c, from) = EverySignal(c, [i \in Rows(c, from) \cap S |-> e[i]])
  <2>1. BbReversion(c, from)
          = EverySignal(c, [i \in {r \in Rows(c, from) : Signal(r)} |-> exit(i)])
    BY DEF BbReversion
  <2> HIDE DEF Signal, exit
  <2>2. {r \in Rows(c, from) : Signal(r)} = Rows(c, from) \cap S
    BY DEF Rows
  <2>3. \A i \in Rows(c, from) \cap S : exit(i) = e[i]
    BY DEF Rows
  <2> QED BY <2>1, <2>2, <2>3
<1> HIDE DEF S, e
<1>2. BbReversion(c, start) = EverySignal(c, [i \in Rows(c, start) \cap S |-> e[i]])
  BY <1>1
<1>3. BbReversion(c, DataStart) = EverySignal(c, [i \in Rows(c, DataStart) \cap S |-> e[i]])
  BY <1>1, SignalsAssumption
<1> QED BY <1>2, <1>3, SignalsOfWindow

LEMMA ExtendedIbsWindow ==
    ASSUME NEW c, InOrder(c), NEW start \in Nat, start >= DataStart
    PROVE  ExtendedIbs(c, start) = {o \in ExtendedIbs(c, DataStart) : EntersFrom(c, start, o)}
<1> DEFINE Oversold(i) ==
               LET high == Max({c[z].high : z \in Window(i, EC.high_window)})
                   range == SumOver(LAMBDA z : c[z].high - c[z].low,
                                    Window(i, EC.range_window))
               IN  /\ Full(i, EC.high_window) /\ Full(i, EC.range_window)
                   /\ 2 * EC.range_window * (high - c[i].close) > 5 * range
           Signal(i) == /\ Scanned(c, i) /\ Oversold(i)
                        /\ IbsBelow(c[i], EC.ibs_threshold)
                        /\ EC.extended_ibs.sma_trend_period > 0 =>
                               AboveSMA(c, i, EC.extended_ibs.sma_trend_period)
                        /\ EC.vei_max > 0 => CalmEnough(c, i)
           highest(i, w) == Max({c[i + 1].open} \cup {c[z].close : z \in (i + 1)..w})
           Quits(i, w) ==
               \/ /\ XC.stop_loss_pct > 0
                  /\ 100 * c[w].close <= (100 - XC.stop_loss_pct) * c[i + 1].open
               \/ /\ XC.trailing_stop_pct > 0
                  /\ 100 * c[w].close <= (100 - XC.trailing_stop_pct) * highest(i, w)
               \/ c[w].close > c[w - 1].high
               \/ HoldDays(c, i, w) >= XC.max_hold_days
           exit(i) == ExitAtClose(c, {w \in Walked(c, i) : Quits(i, w)})
           S == {i \in 1..Last(c) : Signal(i)}
           e == [i \in 1..Last(c) |-> exit(i)]
<1>1. ASSUME NEW from \in Nat
      PROVE  ExtendedIbs(c, from) = EverySignal(c, [i \in Rows(c, from) \cap S |-> e[i]])
  <2>1. ExtendedIbs(c, from)
          = EverySignal(c, [i \in {r \in Rows(c, from) : Signal(r)} |-> exit(i)])
    BY DEF ExtendedIbs
  <2> HIDE DEF Signal, exit
  <2>2. {r \in Rows(c, from) : Signal(r)} = Rows(c, from) \cap S
    BY DEF Rows
  <2>3. \A i \in Rows(c, from) \cap S : exit(i) = e[i]
    BY DEF Rows
  <2> QED BY <2>1, <2>2, <2>3
<1> HIDE DEF S, e
<1>2. ExtendedIbs(c, start) = EverySignal(c, [i \in Rows(c, start) \cap S |-> e[i]])
  BY <1>1
<1>3. ExtendedIbs(c, DataStart) = EverySignal(c, [i \in Rows(c, DataStart) \cap S |-> e[i]])
  BY <1>1, SignalsAssumption
<1> QED BY <1>2, <1>3, SignalsOfWindow

LEMMA SqueezeWindow ==
    ASSUME NEW c, InOrder(c), NEW start \in Nat, start >= DataStart
    PROVE  Squeeze(c, start) = {o \in Squeeze(c, DataStart) : EntersFrom(c, start, o)}
<1> DEFINE Signal(i) == /\ Scanned(c, i)
                        /\ i > 1 /\ c[i - 1].squeeze /\ ~c[i].squeeze
                        /\ \E m \in Momentum(c, i) : m > 0
           Fades(i, w) ==
               LET seen == {z \in (i + 1)..(w - 1) : Momentum(c, z) # {}}
               IN  /\ seen # {}
                   /\ \E p \in Momentum(c, Max(seen)), m \in Momentum(c, w) :
                         m < p /\ p > 0
           Quits(i, w) ==
               \/ Fades(i, w)
               \/ 100 * c[w].close <= (100 - XC.stop_loss_pct) * c[i + 1].open
               \/ HoldDays(c, i, w) >= XC.max_hold_days
           exit(i) == ExitAtClose(c, {w \in Walked(c, i) : Quits(i, w)})
           S == {i \in 1..Last(c) : Signal(i)}
           e == [i \in 1..Last(c) |-> exit(i)]
<1>1. ASSUME NEW from \in Nat
      PROVE  Squeeze(c, from) = EverySignal(c, [i \in Rows(c, from) \cap S |-> e[i]])
  <2>1. Squeeze(c, from)
          = EverySignal(c, [i \in {r \in Rows(c, from) : Signal(r)} |-> exit(i)])
    BY DEF Squeeze
  <2> HIDE DEF Signal, exit
  <2>2. {r \in Rows(c, from) : Signal(r)} = Rows(c, from) \cap S
    BY DEF Rows
  <2>3. \A i \in Rows(c, from) \cap S : exit(i) = e[i]
    BY DEF Rows
  <2> QED BY <2>1, <2>2, <2>3
<1> HIDE DEF S, e
<1>2. Squeeze(c, start) = EverySignal(c, [i \in Rows(c, start) \cap S |-> e[i]])
  BY <1>1
<1>3. Squeeze(c, DataStart) = EverySignal(c, [i \in Rows(c, DataStart) \cap S |-> e[i]])
  BY <1>1, SignalsAssumption
<1> QED BY <1>2, <1>3, SignalsOfWindow

LEMMA DarvasWindow ==
    ASSUME NEW c, InOrder(c), NEW start \in Nat, start >= DataStart
    PROVE  DarvasBox(c, start) = {o \in DarvasBox(c, DataStart) : EntersFrom(c, start, o)}
<1> DEFINE Box(i) == Window(i - 1, EC.box_min_days)
           volumes(i) == {z \in Window(i, EC.vol_window) : z >= 1}
           Signal(i) == /\ Scanned(c, i) /\ Full(i - 1, EC.box_min_days)
                        /\ c[i].close > Max({c[z].high : z \in Box(i)})
                        /\ Cardinality(volumes(i)) * c[i].volume
                              > EC.volume_breakout_mult
                                * SumOver(LAMBDA z : c[z].volume, volumes(i))
           walked(i, w) == Closed(c, (i + 1)..w)
           floor(i, w) == Max({Min({c[z].low : z \in Box(i)})}
                              \cup {c[z].low : z \in walked(i, w)})
           highest(i, w) == Max({c[i + 1].open} \cup {c[z].close : z \in walked(i, w)})
           Quits(i, w) ==
               \/ c[w].close < floor(i, w)
               \/ 100 * c[w].close < (100 - XC.trailing_stop_pct) * highest(i, w)
               \/ HoldDays(c, i, w) >= XC.max_hold_days
           exit(i) == ExitAtClose(c, {w \in Walked(c, i) : Quits(i, w)})
           S == {i \in 1..Last(c) : Signal(i)}
           e == [i \in 1..Last(c) |-> exit(i)]
<1>1. ASSUME NEW from \in Nat
      PROVE  DarvasBox(c, from) = EverySignal(c, [i \in Rows(c, from) \cap S |-> e[i]])
  <2>1. DarvasBox(c, from)
          = EverySignal(c, [i \in {r \in Rows(c, from) : Signal(r)} |-> exit(i)])
    BY DEF DarvasBox
  <2> HIDE DEF Signal, exit
  <2>2. {r \in Rows(c, from) : Signal(r)} = Rows(c, from) \cap S
    BY DEF Rows
  <2>3. \A i \in Rows(c, from) \cap S : exit(i) = e[i]
    BY DEF Rows
  <2> QED BY <2>1, <2>2, <2>3
<1> HIDE DEF S, e
<1>2. DarvasBox(c, start) = EverySignal(c, [i \in Rows(c, start) \cap S |-> e[i]])
  BY <1>1
<1>3. DarvasBox(c, DataStart) = EverySignal(c, [i \in Rows(c, DataStart) \cap S |-> e[i]])
  BY <1>1, SignalsAssumption
<1> QED BY <1>2, <1>3, SignalsOfWindow

LEMMA SwingWindow ==
    ASSUME NEW c, InOrder(c), NEW start \in Nat, start >= DataStart
    PROVE  SwingMaster(c, start) = {o \in SwingMaster(c, DataStart) : EntersFrom(c, start, o)}
<1> DEFINE EP == EC.swing_master
           XP == XC.swing_master
           Declines(z) == z > 1 /\ c[z].high < c[z - 1].high
           Signal(i) == /\ Scanned(c, i) /\ c[i].diverges
                        /\ AboveSMA(c, i, EP.sma_short)
                        /\ ShortAbove(c, i, EP.sma_short, EP.sma_long)
                        /\ \A z \in Window(i, EP.pullback_days) : Declines(z)
           \* the stop, in percents of a price: raised by the lows
           stop(i, w) == Max({(100 - XP.stop_loss_pct) * c[i + 1].open}
                             \cup {(100 - XP.trailing_buffer_pct) * c[z].low :
                                      z \in Closed(c, (i + 1)..w)})
           Quits(i, w) ==
               \/ 100 * c[w].close >= (100 + XP.target_pct) * c[i + 1].open
               \/ 100 * c[w].close <= stop(i, w)
               \/ HoldDays(c, i, w) >= XP.max_hold_days
           exit(i) == ExitAtClose(c, {w \in Walked(c, i) : Quits(i, w)})
           S == {i \in 1..Last(c) : Signal(i)}
           e == [i \in 1..Last(c) |-> exit(i)]
<1>1. ASSUME NEW from \in Nat
      PROVE  SwingMaster(c, from) = EverySignal(c, [i \in Rows(c, from) \cap S |-> e[i]])
  <2>1. SwingMaster(c, from)
          = EverySignal(c, [i \in {r \in Rows(c, from) : Signal(r)} |-> exit(i)])
    BY DEF SwingMaster
  <2> HIDE DEF Signal, exit
  <2>2. {r \in Rows(c, from) : Signal(r)} = Rows(c, from) \cap S
    BY DEF Rows
  <2>3. \A i \in Rows(c, from) \cap S : exit(i) = e[i]
    BY DEF Rows
  <2> QED BY <2>1, <2>2, <2>3
<1> HIDE DEF S, e
<1>2. SwingMaster(c, start) = EverySignal(c, [i \in Rows(c, start) \cap S |-> e[i]])
  BY <1>1
<1>3. SwingMaster(c, DataStart) = EverySignal(c, [i \in Rows(c, DataStart) \cap S |-> e[i]])
  BY <1>1, SignalsAssumption
<1> QED BY <1>2, <1>3, SignalsOfWindow

LEMMA OvernightWindow ==
    ASSUME NEW c, InOrder(c), NEW start \in Nat, start >= DataStart
    PROVE  OvernightHold(c, start) = {o \in OvernightHold(c, DataStart) : o.entry_epoch >= start}
<1> DEFINE Signal(r) == /\ Scanned(c, r)
                        /\ EC.buy_on_down_day => c[r].close < c[r].open
                        /\ EC.min_rsi_14 > 0 => RsiHighEnough(c, r)
           O(i) == Order(c[i].day, c[i].close, c[i + 1].day, c[i + 1].open)
<1>1. \A from \in Nat :
        OvernightHold(c, from) = {O(i) : i \in {r \in Rows(c, from) : Signal(r)}}
  BY DEF OvernightHold
<1>2. \A i : O(i).entry_epoch = c[i].day
  BY DEF Order
<1> HIDE DEF Signal, O
<1>3. Rows(c, start) = {i \in Rows(c, DataStart) : c[i].day >= start}
  BY RowsOfWindow
<1>4. /\ OvernightHold(c, start) = {O(i) : i \in {r \in Rows(c, start) : Signal(r)}}
      /\ OvernightHold(c, DataStart) = {O(i) : i \in {r \in Rows(c, DataStart) : Signal(r)}}
  BY <1>1, SignalsAssumption
<1>5. ASSUME NEW o
      PROVE  o \in OvernightHold(c, start)
               <=> o \in OvernightHold(c, DataStart) /\ o.entry_epoch >= start
  BY <1>2, <1>3, <1>4
<1> QED BY <1>5

LEMMA GapWindow ==
    ASSUME NEW c, InOrder(c), NEW start \in Nat, start >= DataStart
    PROVE  GapFill(c, start) = {o \in GapFill(c, DataStart) : o.entry_epoch >= start}
<1> DEFINE gap(i) == c[i].open - c[i - 1].close
           Gap(i) == /\ c[i - 1].close # None
                     /\ 100 * gap(i) < -EC.min_gap_down_pct * c[i - 1].close
                     /\ 100 * gap(i) > -EC.max_gap_down_pct * c[i - 1].close
                     /\ Scanned(c, i)
           O(i) == Order(c[i].day, c[i].open, c[i].day, c[i].close)
<1>1. \A from \in Nat :
        GapFill(c, from) = {O(i) : i \in {r \in DOMAIN c : r > 1 /\ c[r].day >= from /\ Gap(r)}}
  BY DEF GapFill
<1>2. \A i : O(i).entry_epoch = c[i].day
  BY DEF Order
<1> HIDE DEF Gap, O
<1>3. \A i \in DOMAIN c : c[i].day \in Nat
  BY DEF InOrder
<1>4. DataStart \in Nat /\ \A d \in Nat : d >= start => d >= DataStart
  <2>1. DataStart \in Nat
    BY SignalsAssumption
  <2> QED BY <2>1
<1>5. /\ GapFill(c, start)
            = {O(i) : i \in {r \in DOMAIN c : r > 1 /\ c[r].day >= start /\ Gap(r)}}
      /\ GapFill(c, DataStart)
            = {O(i) : i \in {r \in DOMAIN c : r > 1 /\ c[r].day >= DataStart /\ Gap(r)}}
  BY <1>1, <1>4
<1>6. ASSUME NEW o
      PROVE  o \in GapFill(c, start) <=> o \in GapFill(c, DataStart) /\ o.entry_epoch >= start
  BY <1>2, <1>3, <1>4, <1>5
<1> QED BY <1>6

----------------------------------------------------------------------------
(* Strategies on a panel *)

\* The orders of the signal rows S[x] of the instruments, with their exits e[x].
WindowOrders(p, from, S, e) ==
    EverySignalOf(p, [x \in DOMAIN p |-> [i \in Rows(p[x], from) \cap S[x] |-> e[x][i]]])

LEMMA PanelOfWindow ==
    ASSUME NEW p, \A x \in DOMAIN p : InOrder(p[x]),
           NEW start \in Nat, start >= DataStart, NEW S, NEW e
    PROVE  WindowOrders(p, start, S, e)
             = {o \in WindowOrders(p, DataStart, S, e) : EntersFrom(p[o.instrument], start, o)}
<1> DEFINE signals(x, from) == [i \in Rows(p[x], from) \cap S[x] |-> e[x][i]]
           Of(x, from) == EverySignal(p[x], signals(x, from))
<1>1. ASSUME NEW from, NEW o
      PROVE  o \in WindowOrders(p, from, S, e)
               <=> \E x \in DOMAIN p : \E q \in Of(x, from) : o = OrderOf(x, q)
  <2>1. WindowOrders(p, from, S, e) = EverySignalOf(p, [x \in DOMAIN p |-> signals(x, from)])
    BY DEF WindowOrders
  <2> HIDE DEF signals
  <2> QED BY <2>1 DEF EverySignalOf
<1>2. ASSUME NEW x \in DOMAIN p
      PROVE  Of(x, start) = {o \in Of(x, DataStart) : EntersFrom(p[x], start, o)}
  <2>1. PICK c, T, f : c = p[x] /\ T = S[x] /\ f = e[x]
    OBVIOUS
  <2>2. InOrder(c) /\ start \in Nat /\ start >= DataStart
    BY <2>1
  <2> HIDE DEF Of, signals
  <2>3. EverySignal(c, [i \in Rows(c, start) \cap T |-> f[i]])
          = {o \in EverySignal(c, [i \in Rows(c, DataStart) \cap T |-> f[i]]) :
                EntersFrom(c, start, o)}
    BY ONLY <2>2, SignalsOfWindow
  <2> QED BY <2>1, <2>3 DEF Of, signals
<1> HIDE DEF Of
<1>3. ASSUME NEW x, NEW q
      PROVE  /\ OrderOf(x, q).instrument = x
             /\ EntersFrom(p[x], start, OrderOf(x, q)) <=> EntersFrom(p[x], start, q)
  BY DEF OrderOf, EntersFrom
<1>4. ASSUME NEW o
      PROVE  o \in WindowOrders(p, start, S, e)
               <=> o \in WindowOrders(p, DataStart, S, e) /\ EntersFrom(p[o.instrument], start, o)
  BY <1>1, <1>2, <1>3
<1> QED BY <1>4

LEMMA CascadeWindow ==
    ASSUME NEW panel, \A x \in DOMAIN panel : InOrder(panel[x]),
           NEW start \in Nat, start >= DataStart
    PROVE  MomentumCascade(panel, start)
             = {o \in MomentumCascade(panel, DataStart) :
                  EntersFrom(panel[o.instrument], start, o)}
<1> DEFINE EP == EC.momentum_cascade
           XP == XC.momentum_cascade
           f == EP.fast_lookback_days
           s == EP.slow_lookback_days
           needed == Max({s, 2 * f, EP.breakout_window}) + EP.margin
           bulls == ExternalBull(panel, EP)
           Faster(c, p, q) == 100 * (c * q - p * p) >= EP.accel_threshold_pct * p * q
           Signal(c, i) ==
               /\ Last(c) >= needed + 2 /\ i > needed
               /\ Scanned(c, i) /\ Allowed(bulls, c[i].day)
               /\ Closed(c, {i, i - s, i - f, i - 2 * f}) = {i, i - s, i - f, i - 2 * f}
               /\ 100 * (c[i].close - c[i - s].close) >= EP.min_momentum_pct * c[i - s].close
               /\ Faster(c[i].close, c[i - f].close, c[i - 2 * f].close)
               /\ \A z \in Window(i - 1, EP.breakout_window) : c[z].close < c[i].close
           Quits(c, i, w) ==
               \/ XP.max_hold_days > 0 /\ HoldDays(c, i, w) >= XP.max_hold_days
               \/ /\ XP.trailing_stop_pct > 0 /\ Recovered(c, i, w, c[i].close)
                  /\ Trailed(c, i, w, XP.trailing_stop_pct)
           exit(c, i) == ExitAtClose(c, {w \in Walked(c, i) : Quits(c, i, w)})
           S == [x \in DOMAIN panel |-> {i \in 1..Last(panel[x]) : Signal(panel[x], i)}]
           e == [x \in DOMAIN panel |-> [i \in 1..Last(panel[x]) |-> exit(panel[x], i)]]
<1>1. ASSUME NEW from \in Nat
      PROVE  MomentumCascade(panel, from) = WindowOrders(panel, from, S, e)
  <2>1. MomentumCascade(panel, from) = EverySignalOf(panel, [x \in DOMAIN panel |->
          [i \in {r \in Rows(panel[x], from) : Signal(panel[x], r)} |-> exit(panel[x], i)]])
    BY DEF MomentumCascade
  <2> HIDE DEF Signal, exit
  <2>2. \A x \in DOMAIN panel :
          {r \in Rows(panel[x], from) : Signal(panel[x], r)} = Rows(panel[x], from) \cap S[x]
    BY DEF Rows
  <2>3. \A x \in DOMAIN panel : \A i \in Rows(panel[x], from) \cap S[x] :
          exit(panel[x], i) = e[x][i]
    BY DEF Rows
  <2> HIDE DEF S, e
  <2>4. ASSUME NEW x \in DOMAIN panel
        PROVE  [i \in {r \in Rows(panel[x], from) : Signal(panel[x], r)} |-> exit(panel[x], i)]
                 = [i \in Rows(panel[x], from) \cap S[x] |-> e[x][i]]
    BY <2>2, <2>3
  <2> QED BY <2>1, <2>4 DEF WindowOrders
<1> HIDE DEF S, e
<1>2. MomentumCascade(panel, start) = WindowOrders(panel, start, S, e)
  BY <1>1
<1>3. MomentumCascade(panel, DataStart) = WindowOrders(panel, DataStart, S, e)
  BY <1>1, SignalsAssumption
<1> QED BY <1>2, <1>3, PanelOfWindow

LEMMA PullbackWindow ==
    ASSUME NEW panel, \A x \in DOMAIN panel : InOrder(panel[x]),
           NEW start \in Nat, start >= DataStart, NEW bulls
    PROVE  BreakoutPullback(panel, start, bulls)
             = {o \in BreakoutPullback(panel, DataStart, bulls) :
                  EntersFrom(panel[o.instrument], start, o)}
<1> DEFINE EP == EC.breakout_pullback
           XP == XC.breakout_pullback
           Recent(c, i) == Closed(c, Window(i, EP.breakout_lookback))
           recent_high(c, i) == Max({c[z].close : z \in Recent(c, i)})
           Signal(c, i) ==
               /\ Scanned(c, i) /\ AboveMean(c, i, EP.trend_ma_period)
               /\ c[i].close > c[i].open
               /\ \E z \in Recent(c, i) : AtHigh(c, z, EP.breakout_window)
               /\ 100 * (recent_high(c, i) - c[i].close) >= EP.pullback_pct * recent_high(c, i)
               /\ Allowed(bulls, c[i].day)
           keep == IF EP.force_exit_on_regime_flip /\ bulls # {} THEN bulls ELSE AnyDay
           exit(c, i) == TslExit(c, i, XP, keep)
           S == [x \in DOMAIN panel |-> {i \in 1..Last(panel[x]) : Signal(panel[x], i)}]
           e == [x \in DOMAIN panel |-> [i \in 1..Last(panel[x]) |-> exit(panel[x], i)]]
<1>1. ASSUME NEW from \in Nat
      PROVE  BreakoutPullback(panel, from, bulls) = WindowOrders(panel, from, S, e)
  <2>1. BreakoutPullback(panel, from, bulls) = EverySignalOf(panel, [x \in DOMAIN panel |->
          [i \in {r \in Rows(panel[x], from) : Signal(panel[x], r)} |-> exit(panel[x], i)]])
    BY DEF BreakoutPullback
  <2> HIDE DEF Signal, exit
  <2>2. \A x \in DOMAIN panel :
          {r \in Rows(panel[x], from) : Signal(panel[x], r)} = Rows(panel[x], from) \cap S[x]
    BY DEF Rows
  <2>3. \A x \in DOMAIN panel : \A i \in Rows(panel[x], from) \cap S[x] :
          exit(panel[x], i) = e[x][i]
    BY DEF Rows
  <2> HIDE DEF S, e
  <2>4. ASSUME NEW x \in DOMAIN panel
        PROVE  [i \in {r \in Rows(panel[x], from) : Signal(panel[x], r)} |-> exit(panel[x], i)]
                 = [i \in Rows(panel[x], from) \cap S[x] |-> e[x][i]]
    BY <2>2, <2>3
  <2> QED BY <2>1, <2>4 DEF WindowOrders
<1> HIDE DEF S, e
<1>2. BreakoutPullback(panel, start, bulls) = WindowOrders(panel, start, S, e)
  BY <1>1
<1>3. BreakoutPullback(panel, DataStart, bulls) = WindowOrders(panel, DataStart, S, e)
  BY <1>1, SignalsAssumption
<1> QED BY <1>2, <1>3, PanelOfWindow

----------------------------------------------------------------------------
(* Courses and panels *)

DayBar == [day : Nat, open : Nat \ {0}, high : Nat, low : Nat, close : Nat,
           volume : Nat, rsi : 0..100, squeeze : BOOLEAN, diverges : BOOLEAN]

LEMMA CourseInOrder ==
    ASSUME NEW c \in Seq(DayBar), Dated(c)
    PROVE  InOrder(c)
<1>1. Len(c) \in Nat /\ DOMAIN c = 1..Len(c) /\ \A i \in 1..Len(c) : c[i] \in DayBar
  OBVIOUS
<1>2. \A b \in DayBar : b.day \in Nat
  BY DEF DayBar
<1> QED BY <1>1, <1>2 DEF InOrder

\* A companion is cut after a bar.
LEMMA UntilInOrder ==
    ASSUME NEW c \in Seq(DayBar), Dated(c), NEW day
    PROVE  Until(c, day) \in Seq(DayBar) /\ Dated(Until(c, day))
<1> DEFINE past == {i \in DOMAIN c : c[i].day <= day}
           n == Cardinality(past)
<1>1. DOMAIN c = 1..Len(c) /\ Len(c) \in Nat
  OBVIOUS
<1>2. n \in Nat /\ n <= Len(c)
  <2>1. IsFiniteSet(1..Len(c)) /\ Cardinality(1..Len(c)) = Len(c)
    BY <1>1, FS_Interval
  <2>2. past \subseteq 1..Len(c)
    BY <1>1
  <2> HIDE DEF past
  <2> QED BY <2>1, <2>2, FS_Subset, FS_CardinalityType
<1>3. Until(c, day) = SubSeq(c, 1, n)
  BY DEF Until
<1> HIDE DEF n
<1>4. SubSeq(c, 1, n) \in Seq(DayBar) /\ DOMAIN SubSeq(c, 1, n) = 1..n
      /\ \A i \in 1..n : SubSeq(c, 1, n)[i] = c[i] /\ i \in 1..Len(c)
  BY <1>2
<1>5. Dated(SubSeq(c, 1, n))
  BY <1>1, <1>4 DEF Dated
<1> QED BY <1>3, <1>4, <1>5

LEMMA PanelInOrder ==
    ASSUME NEW c \in Seq(DayBar), Dated(c)
    PROVE  /\ \E n \in Nat : DOMAIN Panel(c) = 1..n /\ n <= Len(Companions) + 1
           /\ \A x \in DOMAIN Panel(c) : Panel(c)[x] \in Seq(DayBar) /\ InOrder(Panel(c)[x])
<1> DEFINE today == c[Len(c)].day
           listed == {z \in DOMAIN Companions : Until(Companions[z], today) # <<>>}
           N == Cardinality(listed)
           others == [z \in 1..N |-> Until(Companions[z], today)]
<1>0. \A m \in Nat : IsFiniteSet(1..m) /\ Cardinality(1..m) = m
  BY FS_Interval
<1>1. /\ Companions \in Seq(Seq(DayBar))
      /\ \A z \in DOMAIN Companions : Dated(Companions[z])
  BY SignalsAssumption DEF DayBar
<1>2. N \in Nat /\ N <= Len(Companions)
  <2>1. PICK L \in Nat : L = Len(Companions) /\ DOMAIN Companions = 1..L
    BY <1>1
  <2>2. IsFiniteSet(1..L) /\ Cardinality(1..L) = L
    BY <1>0
  <2>3. listed \subseteq 1..L
    BY <2>1
  <2> HIDE DEF listed
  <2>4. N \in Nat /\ N <= L
    BY <2>2, <2>3, FS_Subset, FS_CardinalityType
  <2> QED BY <2>1, <2>4
<1>3. Panel(c) = <<c>> \o others
  BY DEF Panel
<1> HIDE DEF N
<1>4. \A z \in 1..N : Companions[z] \in Seq(DayBar) /\ Dated(Companions[z])
  BY <1>1, <1>2
<1>5. \A z \in 1..N : others[z] \in Seq(DayBar) /\ Dated(others[z])
  BY <1>4, UntilInOrder
<1>6. others \in Seq(Seq(DayBar)) /\ DOMAIN others = 1..N /\ Len(others) = N
  <2> DEFINE T == Seq(DayBar)
             u(z) == Until(Companions[z], today)
  <2>1. \A z \in 1..N : u(z) \in T
    BY <1>5
  <2> HIDE DEF T, u
  <2>2. [z \in 1..N |-> u(z)] \in Seq(T) /\ Len([z \in 1..N |-> u(z)]) = N
    BY <1>2, <2>1
  <2> QED BY <2>2 DEF T, u
<1> HIDE DEF others
<1>7. <<c>> \in Seq(Seq(DayBar)) /\ Len(<<c>>) = 1
  OBVIOUS
<1>8. DOMAIN Panel(c) = 1..(1 + N)
  <2> DEFINE T == Seq(DayBar)
  <2>1. others \in Seq(T) /\ <<c>> \in Seq(T)
    BY <1>6, <1>7
  <2> HIDE DEF T
  <2> QED BY <1>2, <1>3, <1>6, <1>7, <2>1
<1>9. ASSUME NEW x \in DOMAIN Panel(c)
      PROVE  Panel(c)[x] \in Seq(DayBar) /\ InOrder(Panel(c)[x])
  <2> DEFINE T == Seq(DayBar)
  <2>1. others \in Seq(T) /\ <<c>> \in Seq(T) /\ Len(<<c>>) = 1
    BY <1>6, <1>7
  <2> HIDE DEF T
  <2>2. x \in 1..(1 + N) /\ (x = 1 \/ x - 1 \in 1..N)
    BY <1>2, <1>3, <1>6, <2>1
  <2>3. x = 1 => Panel(c)[x] = c
    BY <1>2, <1>3, <1>6, <2>1
  <2>4. x - 1 \in 1..N => Panel(c)[x] = others[x - 1]
    BY <1>2, <1>3, <1>6, <2>1
  <2>5. x # 1 => others[x - 1] \in Seq(DayBar) /\ Dated(others[x - 1])
    BY <1>5, <2>2
  <2> QED BY <2>2, <2>3, <2>4, <2>5, CourseInOrder
<1>10. \E n \in Nat : 1..(1 + N) = 1..n /\ n <= Len(Companions) + 1
  <2>1. 1 + N \in Nat /\ 1 + N <= Len(Companions) + 1
    <3>1. Len(Companions) \in Nat
      BY <1>1
    <3> QED BY <1>2, <3>1
  <2> QED BY <2>1
<1> QED BY <1>8, <1>9, <1>10

----------------------------------------------------------------------------
(* One position at a time *)

OneHeld(os) ==
    \A o, p \in os : o = p \/ o.exit_epoch < p.entry_epoch \/ p.exit_epoch < o.entry_epoch

\* A loop over rows that goes on at a later one, and what it gathers from a row on.
GoesOn(n, Bottom, next) ==
    /\ n \in Nat /\ next \in [(1..(n + 1)) \ Bottom -> 1..(n + 1)]
    /\ \A i \in (1..(n + 1)) \ Bottom : i < next[i]
Gathered(i, Bottom, next, own, f) == IF i \in Bottom THEN {} ELSE own[i] \cup f[next[i]]
Gathers(g, n, Bottom, next, own) == g = [i \in 1..(n + 1) |-> Gathered(i, Bottom, next, own, g)]

LEMMA LoopDescends ==
    ASSUME NEW n, NEW Bottom, NEW next, GoesOn(n, Bottom, next)
    PROVE  Descends(1..(n + 1), Bottom, [i \in 1..(n + 1) |-> n + 1 - i], next)
<1> DEFINE D == 1..(n + 1)
           rank == [i \in D |-> n + 1 - i]
<1>1. n \in Nat /\ next \in [D \ Bottom -> D] /\ \A i \in D \ Bottom : i < next[i]
  BY DEF GoesOn
<1>2. \A i \in D : i \in Nat /\ n + 1 - i \in Nat
  BY <1>1
<1>3. rank \in [D -> Nat]
  BY <1>2
<1>4. ASSUME NEW i \in D \ Bottom PROVE rank[next[i]] < rank[i]
  <2>1. PICK m \in D : m = next[i]
    BY <1>1
  <2>2. n + 1 - m < n + 1 - i
    BY <1>1, <1>2, <2>1
  <2> QED BY <2>1, <2>2
<1> QED BY <1>1, <1>3, <1>4 DEF Descends

LEMMA LoopExists ==
    ASSUME NEW n, NEW Bottom, NEW next, NEW own, GoesOn(n, Bottom, next)
    PROVE  \E g : Gathers(g, n, Bottom, next, own)
<1> DEFINE D == 1..(n + 1)
           rank == [i \in D |-> n + 1 - i]
           Own == UNION {own[i] : i \in D \ Bottom}
           V == SUBSET Own
           step == [p \in D \X V |-> IF p[1] \in Bottom THEN {} ELSE own[p[1]] \cup p[2]]
<1>1. next \in [D \ Bottom -> D]
  BY DEF GoesOn
<1>2. Descends(D, Bottom, rank, next)
  BY LoopDescends
<1>3. {} \in V /\ \A i \in D \ Bottom, v \in V : own[i] \cup v \in V
  OBVIOUS
<1>4. step \in [D \X V -> V]
  <2>1. \A p \in D \X V : p[1] \in D /\ p[2] \in V
    OBVIOUS
  <2> HIDE DEF D, V
  <2> QED BY <1>3, <2>1
<1>5. \A i \in D \ Bottom, v \in V : step[<<i, v>>] = own[i] \cup v
  <2> HIDE DEF D, V
  <2> QED OBVIOUS
<1> HIDE DEF D, V, Own, rank, step
<1>6. \E g \in [D -> V] : Solution(g, D, Bottom, next, {}, step)
  BY <1>2, <1>3, <1>4, Recursion
<1>7. PICK g \in [D -> V] :
        \A i \in D : g[i] = IF i \in Bottom THEN {} ELSE step[<<i, g[next[i]]>>]
  BY <1>6 DEF Solution
<1>8. \A i \in D : g[i] = Gathered(i, Bottom, next, own, g)
  <2> SUFFICES ASSUME NEW i \in D, i \notin Bottom
               PROVE  g[i] = Gathered(i, Bottom, next, own, g)
    BY <1>7 DEF Gathered
  <2>1. next[i] \in D /\ g[next[i]] \in V
    BY <1>1
  <2> QED BY <1>5, <1>7, <2>1 DEF Gathered
<1>9. g = [i \in D |-> Gathered(i, Bottom, next, own, g)]
  BY <1>8
<1> QED BY <1>9 DEF D, Gathers

\* A position that is entered on a row after i and left before row `until`.
Trade(c, i, until, o) ==
    \E e, x \in 1..Len(c) : /\ i < e /\ e <= x /\ x < until
                            /\ o.entry_epoch = c[e].day /\ o.exit_epoch = c[x].day

\* If each round has one position, and is over before the next one begins, no two are held.
LEMMA LoopHoldsOne ==
    ASSUME NEW c, InOrder(c), NEW n, NEW Bottom, NEW next, NEW own, NEW h,
           GoesOn(n, Bottom, next),
           \A i \in (1..(n + 1)) \ Bottom :
              /\ \A o \in own[i] : Trade(c, i, next[i], o)
              /\ \A o, p \in own[i] : o = p,
           \A i \in 1..(n + 1) : h[i] = Gathered(i, Bottom, next, own, h)
    PROVE  \A i \in 1..(n + 1) : OneHeld(h[i])
<1> DEFINE D == 1..(n + 1)
           After(i, o) == \E e \in 1..Len(c) : i < e /\ o.entry_epoch = c[e].day
           Good == {i \in D : OneHeld(h[i]) /\ \A o \in h[i] : After(i, o)}
<1>1. n \in Nat /\ next \in [D \ Bottom -> D] /\ \A i \in D \ Bottom : i < next[i]
  BY DEF GoesOn
<1>2. ASSUME NEW i \in D, i \in Bottom \/ next[i] \in Good
      PROVE  i \in Good
  <2>1. CASE i \in Bottom
    <3>1. h[i] = {}
      BY <2>1 DEF Gathered
    <3> QED BY <3>1 DEF OneHeld
  <2>2. CASE i \notin Bottom
    <3>1. PICK m \in D : m = next[i] /\ i < m /\ m \in Good
      BY <1>1, <1>2, <2>2
    <3>2. PICK rest, mine : rest = h[m] /\ mine = own[i]
      OBVIOUS
    <3>3. h[i] = mine \cup rest
      BY <2>2, <3>1, <3>2 DEF Gathered
    <3>4. /\ \A o \in mine : Trade(c, i, m, o)
          /\ \A o, p \in mine : o = p
          /\ OneHeld(rest) /\ \A p \in rest : After(m, p)
      BY <2>2, <3>1, <3>2
    <3>5. \A o \in mine : After(i, o)
      BY <3>4 DEF Trade
    <3>6. Len(c) \in Nat /\ \A e \in 1..Len(c) : c[e].day \in Nat /\ e \in Nat
      BY DEF InOrder
    <3>7. \A p \in rest : After(i, p)
      <4> SUFFICES ASSUME NEW p \in rest PROVE After(i, p)
        OBVIOUS
      <4>1. PICK e \in 1..Len(c) : m < e /\ p.entry_epoch = c[e].day
        BY <3>4
      <4>2. i < e
        BY <1>1, <3>1, <3>6, <4>1
      <4> QED BY <4>1, <4>2
    <3>8. ASSUME NEW o \in mine, NEW p \in rest PROVE o.exit_epoch < p.entry_epoch
      <4>1. PICK e, x \in 1..Len(c) : /\ i < e /\ e <= x /\ x < m
                                      /\ o.entry_epoch = c[e].day /\ o.exit_epoch = c[x].day
        BY <3>4 DEF Trade
      <4>2. PICK w \in 1..Len(c) : m < w /\ p.entry_epoch = c[w].day
        BY <3>4
      <4>3. x < w
        BY <1>1, <3>1, <3>6, <4>1, <4>2
      <4>4. c[x].day < c[w].day
        BY <4>3 DEF InOrder, Dated
      <4> QED BY <4>1, <4>2, <4>4
    <3> HIDE DEF After
    <3>9. \A o \in h[i] : After(i, o)
      BY <3>3, <3>5, <3>7
    <3>10. OneHeld(h[i])
      BY <3>3, <3>4, <3>8 DEF OneHeld
    <3> QED BY <3>9, <3>10
  <2> QED BY <2>1, <2>2
<1> HIDE DEF After
<1>3. PassedUp(D, Bottom, next, Good)
  <2> HIDE DEF D, Good
  <2> QED BY <1>2 DEF PassedUp
<1>4. PICK rank : Descends(D, Bottom, rank, next)
  BY LoopDescends
<1>5. D \subseteq Good
  <2> HIDE DEF D, Good
  <2> QED BY <1>3, <1>4, Descent
<1> QED BY <1>5

LEMMA ExitRowIn ==
    ASSUME NEW c, InOrder(c), NEW i \in 1..Last(c), i < Last(c), NEW fired \in SUBSET Walked(c, i)
    PROVE  ExitRow(c, fired) \in (i + 1)..Last(c)
<1>1. Len(c) \in Nat /\ Last(c) = Len(c) - 1 /\ Last(c) \in Nat /\ i \in Nat
  BY DEF InOrder, Last
<1>2. fired \in SUBSET ((i + 1)..Last(c))
  BY DEF Walked, Closed
<1>3. fired \in SUBSET Nat
  BY <1>1, <1>2
<1>4. fired # {} => Min(fired) \in (i + 1)..Last(c)
  BY <1>2, <1>3, MinIs
<1>5. Last(c) \in (i + 1)..Last(c)
  BY <1>1
<1> QED BY <1>4, <1>5 DEF ExitRow

LEMMA OneAtATimeHoldsOne ==
    ASSUME NEW c, InOrder(c), Last(c) \in Nat, NEW exit, DOMAIN exit \subseteq 1..Last(c),
           \A i \in DOMAIN exit : i < Last(c) => exit[i] \in (i + 1)..Last(c)
    PROVE  OneHeld(OneAtATime(c, exit))
<1>0. PICK n \in Nat : n = Last(c) /\ Len(c) = n + 1
  <2>1. Len(c) \in Nat /\ Last(c) = Len(c) - 1
    BY DEF Last, InOrder
  <2> QED BY <2>1
<1> DEFINE D == 1..(n + 1)
           trades(i) == i \in DOMAIN exit \ {n} /\ c[exit[i]].close # None
           body(i, f) ==
               IF i > n THEN {}
               ELSE IF i \notin DOMAIN exit \ {n} THEN f[i + 1]
               ELSE IF c[exit[i]].close = None THEN f[i + 1]
               ELSE {Entered(c, i, AtClose(c, exit[i]))} \cup f[Resume(i, exit[i])]
           next == [i \in 1..n |-> IF trades(i) THEN exit[i] + 1 ELSE i + 1]
           own == [i \in 1..n |-> IF trades(i) THEN {Entered(c, i, AtClose(c, exit[i]))} ELSE {}]
<1>1. D \ {n + 1} = 1..n
  BY <1>0
<1>2. \A i \in 1..n : trades(i) => exit[i] \in (i + 1)..n
  BY <1>0
<1>3. \A i \in 1..n : next[i] \in D /\ i < next[i]
  <2> SUFFICES ASSUME NEW i \in 1..n PROVE next[i] \in D /\ i < next[i]
    OBVIOUS
  <2>1. CASE trades(i)
    <3>1. PICK x \in (i + 1)..n : x = exit[i]
      BY <1>2, <2>1
    <3>2. next[i] = x + 1
      BY <2>1, <3>1
    <3> QED BY <1>0, <3>1, <3>2
  <2>2. CASE ~ trades(i)
    <3>1. next[i] = i + 1
      BY <2>2
    <3> QED BY <1>0, <3>1
  <2> QED BY <2>1, <2>2
<1>4. GoesOn(n, {n + 1}, next)
  <2>1. next \in [1..n -> D]
    BY <1>3
  <2> HIDE DEF next
  <2> QED BY <1>0, <1>1, <1>3, <2>1 DEF GoesOn
<1>5. ASSUME NEW f, NEW i \in D
      PROVE  body(i, f) = Gathered(i, {n + 1}, next, own, f)
  <2>1. CASE i = n + 1
    BY <1>0, <2>1 DEF Gathered
  <2>2. CASE i # n + 1
    <3>1. i \in 1..n /\ ~(i > n) /\ i \notin {n + 1}
      BY <1>0, <2>2
    <3>2. CASE trades(i)
      <4>1. own[i] = {Entered(c, i, AtClose(c, exit[i]))} /\ next[i] = Resume(i, exit[i])
        BY <3>1, <3>2 DEF Resume
      <4>2. body(i, f) = {Entered(c, i, AtClose(c, exit[i]))} \cup f[Resume(i, exit[i])]
        BY <3>1, <3>2
      <4> HIDE DEF own, next, body
      <4> QED BY <3>1, <4>1, <4>2 DEF Gathered
    <3>3. CASE ~ trades(i)
      <4>1. own[i] = {} /\ next[i] = i + 1
        BY <3>1, <3>3
      <4>2. body(i, f) = f[i + 1]
        BY <3>1, <3>3
      <4> HIDE DEF own, next, body
      <4> QED BY <3>1, <4>1, <4>2 DEF Gathered
    <3> QED BY <3>2, <3>3
  <2> QED BY <2>1, <2>2
<1> DEFINE h == CHOOSE f : f = [i \in D |-> body(i, f)]
<1>6. OneAtATime(c, exit) = h[1]
  BY <1>0 DEF OneAtATime
<1>7. h = [i \in D |-> body(i, h)]
  <2> HIDE DEF body, own, next, trades
  <2>1. PICK g : g = [i \in D |-> Gathered(i, {n + 1}, next, own, g)]
    <3>1. PICK g : Gathers(g, n, {n + 1}, next, own)
      BY <1>4, LoopExists
    <3> QED BY <3>1 DEF Gathers
  <2> HIDE DEF D
  <2>2. g = [i \in D |-> body(i, g)]
    BY <1>5, <2>1
  <2> QED BY <2>2
<1> HIDE DEF h
<1>8. \A i \in D : h[i] = Gathered(i, {n + 1}, next, own, h)
  <2> HIDE DEF body, own, next, trades, D
  <2> QED BY <1>5, <1>7
<1>9. ASSUME NEW i \in 1..n
      PROVE  /\ \A o \in own[i] : Trade(c, i, next[i], o)
             /\ \A o, p \in own[i] : o = p
  <2>1. CASE ~ trades(i)
    BY <2>1
  <2>2. CASE trades(i)
    <3>1. PICK x \in (i + 1)..n : x = exit[i]
      BY <1>2, <2>2
    <3>2. next[i] = x + 1 /\ own[i] = {Entered(c, i, AtClose(c, x))}
      BY <2>2, <3>1
    <3>3. /\ i + 1 \in 1..Len(c) /\ x \in 1..Len(c) /\ i < i + 1 /\ i + 1 <= x /\ x < x + 1
      BY <1>0, <3>1
    <3>4. /\ Entered(c, i, AtClose(c, x)).entry_epoch = c[i + 1].day
          /\ Entered(c, i, AtClose(c, x)).exit_epoch = c[x].day
      BY DEF Entered, AtClose, Order
    <3> HIDE DEF next, own
    <3>5. \A o \in own[i] : Trade(c, i, next[i], o)
      BY <3>2, <3>3, <3>4 DEF Trade
    <3> QED BY <3>2, <3>5
  <2> QED BY <2>1, <2>2
<1>10. OneHeld(h[1])
  <2>1. 1 \in D
    BY <1>0
  <2>2. \A i \in D \ {n + 1} : /\ \A o \in own[i] : Trade(c, i, next[i], o)
                               /\ \A o, p \in own[i] : o = p
    BY <1>1, <1>9
  <2>3. PICK B, m, o : B = {n + 1} /\ m = next /\ o = own
    OBVIOUS
  <2>4. /\ GoesOn(n, B, m)
        /\ \A i \in (1..(n + 1)) \ B : /\ \A q \in o[i] : Trade(c, i, m[i], q)
                                       /\ \A q, r \in o[i] : q = r
        /\ \A i \in 1..(n + 1) : h[i] = Gathered(i, B, m, o, h)
    <3> HIDE DEF next, own
    <3> QED BY <1>4, <1>8, <2>2, <2>3
  <2> HIDE DEF next, own
  <2>5. \A i \in 1..(n + 1) : OneHeld(h[i])
    BY <2>4, LoopHoldsOne
  <2> QED BY <2>1, <2>5
<1> QED BY <1>6, <1>10

\* Each signal row of a window has an exit row of its own, if it is not the last.
ExitsLater(c, exit) ==
    /\ DOMAIN exit \subseteq 1..Last(c)
    /\ \A i \in DOMAIN exit : i < Last(c) => exit[i] \in (i + 1)..Last(c)

LEMMA ExitsOfRules ==
    ASSUME NEW c, InOrder(c), NEW start, NEW exit, DOMAIN exit \subseteq Rows(c, start),
           \A i \in DOMAIN exit : \E fired \in SUBSET Walked(c, i) : exit[i] = ExitRow(c, fired)
    PROVE  ExitsLater(c, exit)
<1>1. Rows(c, start) \subseteq 1..Last(c)
  BY DEF Rows
<1>2. ASSUME NEW i \in DOMAIN exit, i < Last(c)
      PROVE  exit[i] \in (i + 1)..Last(c)
  BY <1>1, <1>2, ExitRowIn
<1> QED BY <1>1, <1>2 DEF ExitsLater

LEMMA IndexHoldsOne ==
    ASSUME NEW c, InOrder(c), Last(c) \in Nat, NEW start
    PROVE  /\ OneHeld(IndexSmaCrossover(c, start))
           /\ OneHeld(IndexDipBuy(c, start))
           /\ OneHeld(IndexBreakout(c, start))
           /\ OneHeld(IndexGreenCandle(c, start))
<1>1. ASSUME NEW exit, DOMAIN exit \subseteq Rows(c, start),
             \A i \in DOMAIN exit : \E fired \in SUBSET Walked(c, i) : exit[i] = ExitRow(c, fired)
      PROVE  OneHeld(OneAtATime(c, exit))
  <2>1. ExitsLater(c, exit)
    BY <1>1, ExitsOfRules
  <2> QED BY <2>1, OneAtATimeHoldsOne DEF ExitsLater
<1>2. OneHeld(IndexSmaCrossover(c, start))
  BY <1>1 DEF IndexSmaCrossover
<1>3. OneHeld(IndexDipBuy(c, start))
  BY <1>1 DEF IndexDipBuy
<1>4. OneHeld(IndexBreakout(c, start))
  BY <1>1 DEF IndexBreakout
<1>5. OneHeld(IndexGreenCandle(c, start))
  BY <1>1 DEF IndexGreenCandle
<1> QED BY <1>2, <1>3, <1>4, <1>5

LEMMA HolpLohpHoldsOne ==
    ASSUME NEW c, InOrder(c), Last(c) \in Nat, NEW start
    PROVE  OneHeld(HolpLohp(c, start))
<1>0. PICK n \in Nat : n = Last(c) /\ Len(c) = n + 1
  <2>1. Len(c) \in Nat /\ Last(c) = Len(c) - 1
    BY DEF Last, InOrder
  <2> QED BY <2>1
<1> DEFINE kept == Rows(c, start)
           low_bars(from, i) == {z \in from..i : z \in kept /\ LowBar(c, z)}
           Signal(from, i) ==
               /\ i \in kept /\ Scanned(c, i) /\ low_bars(from, i) # {}
               /\ c[i].close > c[Max(low_bars(from, i))].high
           Quits(low, i, w) == \/ c[w].close <= StopOf(c, start, i, low, w)
                               \/ HoldDays(c, i, w) >= XC.max_hold_days
           exit(from, i) ==
               LET low == c[Max(low_bars(from, i))].low
               IN  ExitRow(c, {w \in Walked(c, i) : Quits(low, i, w)})
           signals(from) == {i \in from..(n - 1) : Signal(from, i)}
           bought(i, x) == {o \in {Entered(c, i, AtClose(c, x))} : o.exit_price # None}
           body(from, f) ==
               IF signals(from) = {} THEN {}
               ELSE LET i == Min(signals(from))
                        x == exit(from, i)
                    IN  bought(i, x) \cup f[Resume(i, x)]
           D == 1..(n + 1)
           Bottom == {from \in D : signals(from) = {}}
           first(from) == Min(signals(from))
           out(from) == exit(from, first(from))
           next == [from \in D \ Bottom |-> out(from) + 1]
           own == [from \in D \ Bottom |-> bought(first(from), out(from))]
           h == CHOOSE f : f = [from \in D |-> body(from, f)]
<1>1. HolpLohp(c, start) = IF kept = {} THEN {} ELSE h[1]
  BY <1>0 DEF HolpLohp
<1>2. \A from, i : i \in 1..n /\ i < n => exit(from, i) \in (i + 1)..n
  <2> SUFFICES ASSUME NEW from, NEW i \in 1..n, i < n PROVE exit(from, i) \in (i + 1)..n
    OBVIOUS
  <2>1. PICK fired \in SUBSET Walked(c, i) : exit(from, i) = ExitRow(c, fired)
    OBVIOUS
  <2> HIDE DEF exit
  <2> QED BY <1>0, <2>1, ExitRowIn
<1>3. \A from \in D : signals(from) \subseteq from..(n - 1)
  OBVIOUS
<1> HIDE DEF signals, exit
<1>4. ASSUME NEW from \in D \ Bottom
      PROVE  /\ first(from) \in from..(n - 1) /\ first(from) \in 1..n /\ first(from) < n
             /\ out(from) \in (first(from) + 1)..n
  <2>1. signals(from) \in SUBSET Nat /\ signals(from) # {}
    BY <1>0, <1>3
  <2>2. first(from) \in from..(n - 1)
    BY <1>3, <2>1, MinIs
  <2>3. first(from) \in 1..n /\ first(from) < n
    BY <1>0, <2>2
  <2> HIDE DEF first
  <2> QED BY <1>2, <2>2, <2>3
<1> HIDE DEF first, out
<1>5. \A from \in D \ Bottom : next[from] \in D /\ from < next[from]
  <2> SUFFICES ASSUME NEW from \in D \ Bottom PROVE next[from] \in D /\ from < next[from]
    OBVIOUS
  <2>1. PICK i, x : i = first(from) /\ x = out(from)
    OBVIOUS
  <2>2. i \in from..(n - 1) /\ x \in (i + 1)..n
    BY <1>4, <2>1
  <2>3. next[from] = x + 1
    BY <2>1
  <2> HIDE DEF next, Bottom
  <2> QED BY <1>0, <2>2, <2>3
<1>6. GoesOn(n, Bottom, next)
  <2>1. next \in [D \ Bottom -> D]
    BY <1>5
  <2> HIDE DEF next
  <2> QED BY <1>0, <1>5, <2>1 DEF GoesOn
<1>7. ASSUME NEW f, NEW from \in D
      PROVE  body(from, f) = Gathered(from, Bottom, next, own, f)
  <2>1. CASE signals(from) = {}
    <3>1. from \in Bottom /\ body(from, f) = {}
      BY <2>1
    <3> QED BY <3>1 DEF Gathered
  <2>2. CASE signals(from) # {}
    <3>1. from \in D \ Bottom
      BY <2>2
    <3>2. next[from] = out(from) + 1 /\ own[from] = bought(first(from), out(from))
      BY <3>1
    <3>3. body(from, f) = bought(first(from), out(from)) \cup f[out(from) + 1]
      BY <2>2 DEF first, out, Resume
    <3> HIDE DEF body, own, next, bought, Bottom
    <3> QED BY <3>1, <3>2, <3>3 DEF Gathered
  <2> QED BY <2>1, <2>2
<1>8. h = [from \in D |-> body(from, h)]
  <2> HIDE DEF body, own, next, Bottom
  <2>1. PICK g : g = [from \in D |-> Gathered(from, Bottom, next, own, g)]
    <3>1. PICK g : Gathers(g, n, Bottom, next, own)
      BY <1>6, LoopExists
    <3> QED BY <3>1 DEF Gathers
  <2> HIDE DEF D
  <2>2. g = [from \in D |-> body(from, g)]
    BY <1>7, <2>1
  <2> QED BY <2>2
<1> HIDE DEF h
<1>9. \A from \in D : h[from] = Gathered(from, Bottom, next, own, h)
  <2> HIDE DEF body, own, next, Bottom, D
  <2> QED BY <1>7, <1>8
<1>10. ASSUME NEW from \in D \ Bottom
       PROVE  /\ \A o \in own[from] : Trade(c, from, next[from], o)
              /\ \A o, p \in own[from] : o = p
  <2>1. PICK i, x : i = first(from) /\ x = out(from)
    OBVIOUS
  <2>2. i \in from..(n - 1) /\ x \in (i + 1)..n
    BY <1>4, <2>1
  <2>3. next[from] = x + 1 /\ \A o \in own[from] : o = Entered(c, i, AtClose(c, x))
    BY <2>1
  <2>4. /\ i + 1 \in 1..Len(c) /\ x \in 1..Len(c) /\ from < i + 1 /\ i + 1 <= x /\ x < x + 1
    <3> HIDE DEF Bottom
    <3> QED BY <1>0, <2>2
  <2>5. /\ Entered(c, i, AtClose(c, x)).entry_epoch = c[i + 1].day
        /\ Entered(c, i, AtClose(c, x)).exit_epoch = c[x].day
    BY DEF Entered, AtClose, Order
  <2> HIDE DEF next, own, Bottom
  <2>6. \A o \in own[from] : Trade(c, from, next[from], o)
    BY <2>3, <2>4, <2>5 DEF Trade
  <2> QED BY <2>3, <2>6
<1>11. OneHeld(h[1])
  <2>1. 1 \in D
    BY <1>0
  <2>3. PICK B, m, o : B = Bottom /\ m = next /\ o = own
    OBVIOUS
  <2>4. /\ GoesOn(n, B, m)
        /\ \A i \in (1..(n + 1)) \ B : /\ \A q \in o[i] : Trade(c, i, m[i], q)
                                       /\ \A q, r \in o[i] : q = r
        /\ \A i \in 1..(n + 1) : h[i] = Gathered(i, B, m, o, h)
    <3> HIDE DEF next, own, Bottom
    <3> QED BY <1>6, <1>9, <1>10, <2>3
  <2> HIDE DEF next, own, Bottom
  <2>5. \A i \in 1..(n + 1) : OneHeld(h[i])
    BY <2>4, LoopHoldsOne
  <2> QED BY <2>1, <2>5
<1> QED BY <1>1, <1>11 DEF OneHeld

----------------------------------------------------------------------------
(* The first few of an order *)

InStrictOrder(S, R) ==
    /\ \A x, y \in S : /\ <<x, y>> \in R => <<y, x>> \notin R
                       /\ x # y => <<x, y>> \in R \/ <<y, x>> \in R
    /\ \A x, y, z \in S : <<x, y>> \in R /\ <<y, z>> \in R => <<x, z>> \in R
Ahead(S, R, y) == {x \in S : <<x, y>> \in R}
FirstFew(S, R, n) == {y \in S : Cardinality(Ahead(S, R, y)) < n}

LEMMA RanksDiffer ==
    ASSUME NEW S, IsFiniteSet(S), NEW R, InStrictOrder(S, R)
    PROVE  /\ \A x \in S : Cardinality(Ahead(S, R, x)) \in Nat
           /\ \A x, y \in S : <<x, y>> \in R
                 => Cardinality(Ahead(S, R, x)) < Cardinality(Ahead(S, R, y))
<1>1. \A x \in S : IsFiniteSet(Ahead(S, R, x))
  <2>1. \A x \in S : Ahead(S, R, x) \subseteq S
    BY DEF Ahead
  <2> QED BY <2>1, FS_Subset
<1>2. \A x \in S : Cardinality(Ahead(S, R, x)) \in Nat
  BY <1>1, FS_CardinalityType
<1>3. ASSUME NEW x \in S, NEW y \in S, <<x, y>> \in R
      PROVE  Cardinality(Ahead(S, R, x)) < Cardinality(Ahead(S, R, y))
  <2> DEFINE A == Ahead(S, R, x)
             B == Ahead(S, R, y)
  <2>1. x \notin A /\ A \cup {x} \subseteq B
    BY <1>3 DEF Ahead, InStrictOrder
  <2>2. Cardinality(A \cup {x}) = Cardinality(A) + 1
    BY <1>1, <2>1, FS_AddElement
  <2>3. Cardinality(A \cup {x}) <= Cardinality(B)
    BY <1>1, <2>1, FS_Subset
  <2>4. Cardinality(A) \in Nat /\ Cardinality(B) \in Nat
    BY <1>2
  <2> HIDE DEF A, B
  <2>5. Cardinality(A) < Cardinality(B)
    BY <2>2, <2>3, <2>4
  <2> QED BY <2>5 DEF A, B
<1> QED BY <1>2, <1>3

\* There are n of them, or they are all.
LEMMA FirstFewAre ==
    ASSUME NEW S, IsFiniteSet(S), NEW R, InStrictOrder(S, R), NEW n \in Nat
    PROVE  /\ Cardinality(FirstFew(S, R, n)) <= n
           /\ FirstFew(S, R, n) # S => Cardinality(FirstFew(S, R, n)) = n
           /\ \A x \in FirstFew(S, R, n), y \in S \ FirstFew(S, R, n) : <<y, x>> \notin R
<1> DEFINE rank(x) == Cardinality(Ahead(S, R, x))
           T == FirstFew(S, R, n)
<1>1. /\ \A x \in S : rank(x) \in Nat
      /\ \A x, y \in S : <<x, y>> \in R => rank(x) < rank(y)
  BY RanksDiffer
<1>2. T = {x \in S : rank(x) < n}
  BY DEF FirstFew
<1>3. IsFiniteSet(T) /\ Cardinality(T) \in Nat
  BY <1>2, FS_Subset, FS_CardinalityType
<1>4. ASSUME NEW x \in S, NEW y \in S, x # y PROVE rank(x) # rank(y)
  <2>1. <<x, y>> \in R \/ <<y, x>> \in R
    BY <1>4 DEF InStrictOrder
  <2>2. rank(x) \in Nat /\ rank(y) \in Nat /\ (rank(x) < rank(y) \/ rank(y) < rank(x))
    BY <1>1, <2>1
  <2> HIDE DEF rank
  <2> QED BY <2>2
<1>5. Cardinality(T) <= n
  <2> DEFINE f == [x \in T |-> rank(x)]
  <2>1. f \in [T -> 0..(n - 1)]
    <3> HIDE DEF rank, T
    <3>1. \A x \in T : rank(x) \in 0..(n - 1)
      BY <1>1, <1>2
    <3> QED BY <3>1
  <2>2. \A x, y \in T : f[x] = f[y] => x = y
    <3> HIDE DEF rank, T
    <3> QED BY <1>2, <1>4
  <2>3. f \in Injection(T, 0..(n - 1))
    <3> HIDE DEF f, T
    <3> QED BY <2>1, <2>2 DEF Injection, IsInjective
  <2>4. IsFiniteSet(0..(n - 1)) /\ Cardinality(0..(n - 1)) = n
    <3>1. 0 \in Int /\ n - 1 \in Int
      OBVIOUS
    <3>2. /\ IsFiniteSet(0..(n - 1))
          /\ Cardinality(0..(n - 1)) = IF 0 > n - 1 THEN 0 ELSE (n - 1) - 0 + 1
      BY <3>1, FS_Interval
    <3> QED BY <3>2
  <2> HIDE DEF f, T
  <2>5. Cardinality(T) <= Cardinality(0..(n - 1))
    BY <2>3, <2>4, FS_Injection
  <2> QED BY <2>4, <2>5
<1>6. ASSUME T # S PROVE Cardinality(T) = n
  <2> DEFINE left == {rank(x) : x \in S \ T}
  <2>1. left \in SUBSET Nat /\ left # {}
    <3> HIDE DEF rank
    <3> QED BY <1>1, <1>2, <1>6
  <2>2. PICK least \in left : \A m \in left : least <= m
    <3> HIDE DEF left
    <3> QED BY <2>1, LeastNumber
  <2>3. PICK z \in S \ T : rank(z) = least
    OBVIOUS
  <2>4. rank(z) >= n
    <3> HIDE DEF rank
    <3> QED BY <1>1, <1>2, <2>3
  <2>5. Ahead(S, R, z) \subseteq T
    <3> SUFFICES ASSUME NEW x \in Ahead(S, R, z), x \notin T PROVE FALSE
      OBVIOUS
    <3>1. x \in S \ T /\ <<x, z>> \in R
      BY DEF Ahead
    <3>2. rank(x) < rank(z) /\ rank(x) \in left
      BY <1>1, <2>3, <3>1
    <3>3. rank(x) \in Nat /\ rank(z) \in Nat
      BY <1>1, <2>3, <3>1
    <3> HIDE DEF rank, left
    <3> QED BY <2>2, <2>3, <3>2, <3>3
  <2>6. rank(z) <= Cardinality(T)
    BY <1>3, <2>5, FS_Subset
  <2>7. rank(z) \in Nat
    BY <1>1, <2>3
  <2> HIDE DEF rank, T
  <2> QED BY <1>3, <1>5, <2>4, <2>6, <2>7
<1>7. ASSUME NEW x \in T, NEW y \in S \ T PROVE <<y, x>> \notin R
  <2>1. x \in S /\ rank(x) < n /\ rank(x) \in Nat /\ rank(y) \in Nat /\ ~ (rank(y) < n)
    BY <1>1, <1>2
  <2> HIDE DEF rank
  <2> QED BY <1>1, <2>1
<1> QED BY <1>5, <1>6, <1>7

\* What is ahead of what, by a rank that may be shared.
InWeakOrder(S, ahead) ==
    /\ \A x, y \in S : <<x, y>> \in ahead => <<y, x>> \notin ahead
    /\ \A x, y, z \in S : <<y, x>> \notin ahead /\ <<z, y>> \notin ahead => <<z, x>> \notin ahead

\* A sort keeps n at most, whichever of equals it takes.
LEMMA ForemostAre ==
    ASSUME NEW S \in SUBSET Int, IsFiniteSet(S), NEW ahead, InWeakOrder(S, ahead), NEW n \in Nat
    PROVE  /\ Foremost(S, ahead, n) \subseteq S
           /\ IsFiniteSet(Foremost(S, ahead, n))
           /\ Cardinality(Foremost(S, ahead, n)) <= n
<1> DEFINE R == {p \in S \X S : \/ p \in ahead
                                \/ <<p[2], p[1]>> \notin ahead /\ p[1] < p[2]}
           T == FirstFew(S, R, n)
<1>1. \A x, y \in S : <<x, y>> \in R <=> \/ <<x, y>> \in ahead
                                         \/ <<y, x>> \notin ahead /\ x < y
  OBVIOUS
<1> HIDE DEF R
<1>2. InStrictOrder(S, R)
  <2>1. ASSUME NEW x \in S, NEW y \in S
        PROVE  /\ <<x, y>> \in R => <<y, x>> \notin R
               /\ x # y => <<x, y>> \in R \/ <<y, x>> \in R
    BY <1>1 DEF InWeakOrder
  <2>2. ASSUME NEW x \in S, NEW y \in S, NEW z \in S, <<x, y>> \in R, <<y, z>> \in R
        PROVE  <<x, z>> \in R
    <3>1. <<y, x>> \notin ahead /\ <<z, y>> \notin ahead
      BY <1>1, <2>2 DEF InWeakOrder
    <3>2. <<z, x>> \notin ahead
      BY <3>1 DEF InWeakOrder
    <3>3. CASE <<x, z>> \in ahead
      BY <1>1, <3>3
    <3>4. CASE <<x, z>> \notin ahead
      <4>1. <<x, y>> \notin ahead /\ <<y, z>> \notin ahead
        BY <3>1, <3>4 DEF InWeakOrder
      <4>2. x < y /\ y < z
        BY <1>1, <2>2, <4>1
      <4> QED BY <1>1, <3>2, <4>2
    <3> QED BY <3>3, <3>4
  <2> QED BY <2>1, <2>2 DEF InStrictOrder
<1>3. /\ Cardinality(T) <= n /\ (T # S => Cardinality(T) = n)
      /\ \A x \in T, y \in S \ T : <<y, x>> \notin R
  BY <1>2, FirstFewAre
<1>4. T \in SUBSET S
  BY DEF FirstFew
<1>5. \A x \in T, y \in S \ T : <<y, x>> \notin ahead
  <2> HIDE DEF T
  <2> QED BY <1>1, <1>3, <1>4
<1> HIDE DEF T
<1>6. \E F \in SUBSET S : /\ Cardinality(F) <= n /\ (F # S => Cardinality(F) = n)
                          /\ \A x \in F, y \in S \ F : <<y, x>> \notin ahead
  BY <1>3, <1>4, <1>5
<1>7. Foremost(S, ahead, n) \in SUBSET S /\ Cardinality(Foremost(S, ahead, n)) <= n
  BY <1>6 DEF Foremost
<1> QED BY <1>7, FS_Subset

\* Some days have a last one.
LEMMA LatestIs ==
    ASSUME NEW T \in SUBSET Nat, IsFiniteSet(T), T # {}
    PROVE  Max(T) \in T /\ \A x \in T : x <= Max(T)
<1> DEFINE R == {p \in T \X T : p[1] > p[2]}
           F == FirstFew(T, R, 1)
<1>1. \A x, y \in T : <<x, y>> \in R <=> x > y
  OBVIOUS
<1>2. InStrictOrder(T, R)
  <2> HIDE DEF R
  <2> QED BY <1>1 DEF InStrictOrder
<1>3. /\ Cardinality(F) <= 1 /\ (F # T => Cardinality(F) = 1)
      /\ \A x \in F, y \in T \ F : <<y, x>> \notin R
  BY <1>2, FirstFewAre
<1>4. F \in SUBSET T
  BY DEF FirstFew
<1> HIDE DEF F, R
<1>5. IsFiniteSet(F) /\ Cardinality(F) \in Nat
  BY <1>4, FS_Subset, FS_CardinalityType
<1>6. F # {}
  BY <1>3, FS_EmptySet
<1>7. Cardinality(F) # 0
  BY <1>5, <1>6, FS_EmptySet
<1>8. Cardinality(F) = 1
  BY <1>3, <1>5, <1>7
<1>9. PICK x : F = {x}
  BY <1>5, <1>8, FS_Singleton
<1>10. x \in T /\ x \in Nat /\ \A y \in T : y <= x
  <2>1. x \in T
    BY <1>4, <1>9
  <2>2. ASSUME NEW y \in T PROVE y <= x
    <3>1. CASE y = x
      BY <2>1, <3>1
    <3>2. CASE y # x
      <4>1. <<y, x>> \notin R
        BY <1>3, <1>9, <3>2
      <4>2. x \in Nat /\ y \in Nat /\ ~ (y > x)
        BY <1>1, <2>1, <4>1
      <4> QED BY <4>2
    <3> QED BY <3>1, <3>2
  <2> QED BY <2>1, <2>2
<1>11. T \in SUBSET (0..x)
  BY <1>10
<1> QED BY <1>10, <1>11, MaxIs

LEMMA FirstNumbers ==
    ASSUME NEW n \in Nat
    PROVE  IsFiniteSet(1..n) /\ Cardinality(1..n) = n
<1>1. 1 \in Int /\ n \in Int
  OBVIOUS
<1>2. IsFiniteSet(1..n) /\ Cardinality(1..n) = IF 1 > n THEN 0 ELSE n - 1 + 1
  BY <1>1, FS_Interval
<1> QED BY <1>2

\* The days of some rows of a panel.
KeptDays(panel, kept) == UNION {DaysOf(panel[x], kept[x]) : x \in DOMAIN panel}

LEMMA DaysFinite ==
    ASSUME NEW panel, NEW n \in Nat, DOMAIN panel = 1..n,
           \A x \in DOMAIN panel : InOrder(panel[x]),
           NEW kept, \A x \in DOMAIN panel : kept[x] \subseteq DOMAIN panel[x]
    PROVE  IsFiniteSet(KeptDays(panel, kept)) /\ KeptDays(panel, kept) \subseteq Nat
<1> DEFINE Each == {DaysOf(panel[x], kept[x]) : x \in DOMAIN panel}
<1>1. IsFiniteSet(Each)
  <2> DEFINE f == [x \in DOMAIN panel |-> DaysOf(panel[x], kept[x])]
  <2>1. f \in Surjection(DOMAIN panel, Each)
    BY DEF Surjection
  <2>2. IsFiniteSet(DOMAIN panel)
    BY FirstNumbers
  <2> HIDE DEF f
  <2> QED BY <2>1, <2>2, FS_Surjection
<1>2. ASSUME NEW x \in DOMAIN panel
      PROVE  IsFiniteSet(DaysOf(panel[x], kept[x])) /\ DaysOf(panel[x], kept[x]) \subseteq Nat
  <2> DEFINE c == panel[x]
             f == [i \in kept[x] |-> c[i].day]
  <2>1. Len(c) \in Nat /\ kept[x] \subseteq 1..Len(c) /\ \A i \in 1..Len(c) : c[i].day \in Nat
    BY DEF InOrder
  <2>2. IsFiniteSet(kept[x])
    <3>1. IsFiniteSet(1..Len(c))
      BY <2>1, FirstNumbers
    <3> QED BY <2>1, <3>1, FS_Subset
  <2>3. f \in Surjection(kept[x], DaysOf(c, kept[x]))
    BY DEF Surjection, DaysOf
  <2>4. DaysOf(c, kept[x]) \subseteq Nat
    BY <2>1 DEF DaysOf
  <2> HIDE DEF f, c
  <2>5. IsFiniteSet(DaysOf(c, kept[x]))
    BY <2>2, <2>3, FS_Surjection
  <2> QED BY <2>4, <2>5 DEF c
<1>3. \A d \in Each : IsFiniteSet(d) /\ d \subseteq Nat
  BY <1>2
<1> HIDE DEF Each
<1>4. IsFiniteSet(UNION Each) /\ UNION Each \subseteq Nat
  BY <1>1, <1>3, FS_UNION
<1> QED BY <1>4 DEF Each, KeptDays

----------------------------------------------------------------------------
(* Rounds *)

\* Fractions of positive denominators are ranked by their size.
LEMMA FractionsChain ==
    ASSUME NEW a \in Nat, NEW b \in Nat \ {0}, NEW u \in Nat, NEW v \in Nat \ {0},
           NEW y \in Nat, NEW z \in Nat \ {0}, a * v >= u * b, u * z >= y * v
    PROVE  a * z >= y * b
<1>1. (a * v) * z >= (u * b) * z
  OBVIOUS
<1>2. (u * z) * b >= (y * v) * b
  OBVIOUS
<1>3. (u * b) * z = (u * z) * b /\ (a * v) * z = (a * z) * v /\ (y * v) * b = (y * b) * v
  OBVIOUS
<1>4. PICK p, q \in Nat : p = a * z /\ q = y * b
  OBVIOUS
<1>5. p * v >= q * v
  BY <1>1, <1>2, <1>3, <1>4
<1>6. p >= q
  BY <1>5
<1> QED BY <1>4, <1>6

Earned(returns) == \A x \in DOMAIN returns : returns[x].now \in Nat /\ returns[x].past \in Nat \ {0}

\* The best of some returns are no more than asked for.
LEMMA BestAre ==
    ASSUME NEW returns, DOMAIN returns \subseteq Int, IsFiniteSet(DOMAIN returns),
           Earned(returns), NEW n \in Nat
    PROVE  /\ Best(returns, n) \subseteq DOMAIN returns /\ IsFiniteSet(Best(returns, n))
           /\ Cardinality(Best(returns, n)) <= n
<1> DEFINE S == DOMAIN returns
           ahead == {p \in S \X S : Beats(returns[p[1]], returns[p[2]])}
<1>1. \A x, y \in S : <<x, y>> \in ahead
                         <=> returns[x].now * returns[y].past > returns[y].now * returns[x].past
  BY DEF Beats
<1>2. \A x \in S : returns[x].now \in Nat /\ returns[x].past \in Nat \ {0}
  BY DEF Earned
<1> HIDE DEF ahead
<1>3. ASSUME NEW x \in S, NEW y \in S, <<x, y>> \in ahead PROVE <<y, x>> \notin ahead
  <2>1. PICK p, q \in Nat : /\ p = returns[x].now * returns[y].past
                            /\ q = returns[y].now * returns[x].past
    BY <1>2
  <2> QED BY <1>1, <1>3, <2>1
<1>4. ASSUME NEW x \in S, NEW y \in S, NEW z \in S, <<y, x>> \notin ahead, <<z, y>> \notin ahead
      PROVE  <<z, x>> \notin ahead
  <2>1. PICK a, u, v \in Nat : a = returns[x].now /\ u = returns[y].now /\ v = returns[z].now
    BY <1>2
  <2>2. PICK b, e, f \in Nat \ {0} :
           b = returns[x].past /\ e = returns[y].past /\ f = returns[z].past
    BY <1>2
  <2>3. ~ (u * b > a * e) /\ ~ (v * e > u * f)
    BY <1>1, <1>4, <2>1, <2>2
  <2>4. u * b \in Nat /\ a * e \in Nat /\ v * e \in Nat /\ u * f \in Nat
    OBVIOUS
  <2>5. a * e >= u * b /\ u * f >= v * e
    BY <2>3, <2>4
  <2>6. a * f >= v * b
    BY <2>5, FractionsChain
  <2>7. a * f \in Nat /\ v * b \in Nat
    OBVIOUS
  <2>8. ~ (v * b > a * f)
    BY <2>6, <2>7
  <2> QED BY <1>1, <2>1, <2>2, <2>8
<1>5. InWeakOrder(S, ahead)
  BY <1>3, <1>4 DEF InWeakOrder
<1>6. Best(returns, n) = Foremost(S, ahead, n)
  BY DEF Best, ahead
<1> QED BY <1>5, <1>6, ForemostAre

\* The courses of a panel.
Courses(panel) ==
    /\ \E n \in Nat : DOMAIN panel = 1..n
    /\ \A x \in DOMAIN panel : panel[x] \in Seq(DayBar) /\ InOrder(panel[x])

LEMMA ReturnsEarned ==
    ASSUME NEW panel, Courses(panel), NEW day, NEW w \in Nat, NEW lag \in Nat
    PROVE  /\ DOMAIN Returns(panel, AllRows(panel), day, w, lag) \subseteq DOMAIN panel
           /\ Earned(Returns(panel, AllRows(panel), day, w, lag))
<1> DEFINE Ranking(x) == \E i \in 1..AllRows(panel)[x] :
                            /\ panel[x][i].day = day /\ panel[x][i].close # None
                            /\ Scanned(panel[x], i) /\ HasReturn(panel[x], i, w, lag)
           S == {x \in DOMAIN panel : Ranking(x)}
           r == [x \in S |-> Return(panel[x], RowAt(panel[x], day), w, lag)]
<1>1. Returns(panel, AllRows(panel), day, w, lag) = r
  BY DEF Returns
<1>2. ASSUME NEW x \in S PROVE r[x].now \in Nat /\ r[x].past \in Nat \ {0}
  <2>1. PICK c : c = panel[x]
    OBVIOUS
  <2>2. c \in Seq(DayBar) /\ InOrder(c) /\ AllRows(panel)[x] = Len(c)
    BY <2>1 DEF Courses, AllRows
  <2>3. PICK i \in 1..Len(c) : c[i].day = day /\ HasReturn(c, i, w, lag)
    BY <2>1, <2>2
  <2>4. DOMAIN c = 1..Len(c) /\ Len(c) \in Nat
    BY <2>2 DEF InOrder
  <2>5. RowAt(c, day) \in 1..Len(c) /\ c[RowAt(c, day)].day = day
    BY <2>3, <2>4 DEF RowAt
  <2>6. RowAt(c, day) = i
    BY <2>2, <2>3, <2>5, DaysDiffer
  <2>7. r[x] = Return(c, i, w, lag)
    BY <2>1, <2>6
  <2>8. i > w + lag /\ c[i - lag].close # None /\ c[i - lag - w].close # None
    BY <2>3 DEF HasReturn
  <2>9. i - lag \in 1..Len(c) /\ i - lag - w \in 1..Len(c)
    BY <2>4, <2>8
  <2>10. PICK a, b \in 1..Len(c) : a = i - lag /\ b = i - lag - w
    BY <2>9
  <2>11. c[a] \in DayBar /\ c[b] \in DayBar
    BY <2>2, <2>4
  <2>12. c[a].close \in Nat /\ c[b].close \in Nat
    BY <2>11 DEF DayBar
  <2>13. r[x].now = c[a].close /\ r[x].past = c[b].close
    BY <2>7, <2>10 DEF Return
  <2> HIDE DEF r, S
  <2> QED BY <2>8, <2>10, <2>12, <2>13 DEF None
<1>3. DOMAIN r = S /\ S \subseteq DOMAIN panel
  OBVIOUS
<1> HIDE DEF r, S
<1> QED BY <1>1, <1>2, <1>3 DEF Earned

\* A round is over by the next one.
LEMMA RoundOver ==
    ASSUME NEW days \in SUBSET Nat, IsFiniteSet(days), NEW rebalances \in SUBSET days,
           NEW d \in rebalances, NEW limit \in Nat
    PROVE  /\ RebalanceExit(days, rebalances, d, limit) \in Nat
           /\ \A e \in rebalances : e > d => RebalanceExit(days, rebalances, d, limit) <= e
<1> DEFINE later == {e \in rebalances : e > d}
           next_rb == IF later # {} THEN Min(later) ELSE Max(days)
           held == {e \in days : d < e /\ e <= d + limit}
<1>1. next_rb \in Nat /\ \A e \in later : next_rb <= e
  <2>1. CASE later = {}
    <3>1. Max(days) \in days
      BY LatestIs
    <3> QED BY <2>1, <3>1
  <2>2. CASE later # {}
    <3>1. later \in SUBSET Nat
      OBVIOUS
    <3>2. Min(later) \in later /\ \A e \in later : Min(later) <= e
      BY <2>2, <3>1, MinIs
    <3> QED BY <2>2, <3>1, <3>2
  <2> QED BY <2>1, <2>2
<1>2. held # {} => Max(held) \in Nat /\ Max(held) <= d + limit
  <2>1. held \in SUBSET Nat /\ held \in SUBSET days
    OBVIOUS
  <2>2. IsFiniteSet(held)
    BY <2>1, FS_Subset
  <2>3. held # {} => Max(held) \in held
    BY <2>1, <2>2, LatestIs
  <2> QED BY <2>1, <2>3
<1>3. RebalanceExit(days, rebalances, d, limit)
        = IF limit > 0 /\ d + limit < next_rb /\ held # {} THEN Max(held) ELSE next_rb
  BY DEF RebalanceExit
<1>4. d \in Nat /\ \A e \in rebalances : e > d <=> e \in later
  OBVIOUS
<1> HIDE DEF later, next_rb, held
<1>5. CASE limit > 0 /\ d + limit < next_rb /\ held # {}
  <2>1. PICK m \in Nat : m = Max(held) /\ m <= d + limit
    BY <1>2, <1>5
  <2>2. m < next_rb
    BY <1>1, <1>4, <1>5, <2>1
  <2>3. \A e \in later : e \in Nat => m <= e
    BY <1>1, <2>2
  <2> QED BY <1>3, <1>4, <1>5, <2>1, <2>3
<1>6. CASE ~ (limit > 0 /\ d + limit < next_rb /\ held # {})
  BY <1>1, <1>3, <1>4, <1>6
<1> QED BY <1>5, <1>6

\* What is held between two days.
OpenAt(os, e) == {o \in os : o.entry_epoch <= e /\ e < o.exit_epoch}
SlotsKept(os, n) ==
    /\ \A o \in os : o.entry_epoch \in Nat
    /\ \A e \in Nat : /\ Cardinality(OpenAt(os, e)) <= n
                      /\ \A p, q \in OpenAt(os, e) : p = q \/ p.instrument # q.instrument

LEMMA RebalanceSlots ==
    ASSUME NEW panel, Courses(panel), NEW start
    PROVE  SlotsKept(MomentumRebalance(panel, start), EC.momentum_rebalance.num_positions)
<1> DEFINE EP == EC.momentum_rebalance
           kept == [x \in DOMAIN panel |-> {i \in DOMAIN panel[x] : panel[x][i].day >= start}]
           days == UNION {DaysOf(panel[x], {i \in DOMAIN panel[x] : panel[x][i].day >= start}) :
                             x \in DOMAIN panel}
           rebalances == EveryNth(days, EP.rebalance_interval_days)
           bulls == ExternalBull(panel, EP)
           returns(d) == Returns(panel, AllRows(panel), d, EP.momentum_lookback_days,
                                 EP.moc_signal_lag_days)
           top(d) == Best(returns(d), EP.num_positions)
           close(x, d) == IF d \notin DaysOf(panel[x], DOMAIN panel[x]) THEN None
                          ELSE panel[x][RowAt(panel[x], d)].close
           exit(d) == RebalanceExit(days, rebalances, d, XC.momentum_rebalance.max_hold_days)
           held(d, out) ==
               {OrderOf(x, Order(d, close(x, d), out, close(x, out))) :
                   x \in {y \in top(d) : close(y, out) # None}}
           rounds == {e \in rebalances : Allowed(bulls, e) /\ exit(e) > e}
           os == UNION {held(d, exit(d)) : d \in rounds}
<1>1. MomentumRebalance(panel, start) = os
  BY DEF MomentumRebalance
<1>2. /\ EP.num_positions \in Nat /\ EP.momentum_lookback_days \in Nat
      /\ EP.moc_signal_lag_days \in Nat /\ XC.momentum_rebalance.max_hold_days \in Nat
  BY SignalsAssumption
<1>3. PICK n \in Nat : DOMAIN panel = 1..n
  BY DEF Courses
<1>4. IsFiniteSet(days) /\ days \in SUBSET Nat
  <2>1. PICK K : K = kept
    OBVIOUS
  <2>2. days = KeptDays(panel, K)
    BY <2>1 DEF KeptDays
  <2>3. \A x \in DOMAIN panel : K[x] \subseteq DOMAIN panel[x]
    BY <2>1
  <2>4. \A x \in DOMAIN panel : InOrder(panel[x])
    BY DEF Courses
  <2> HIDE DEF kept, days
  <2>5. IsFiniteSet(KeptDays(panel, K)) /\ KeptDays(panel, K) \subseteq Nat
    BY <1>3, <2>3, <2>4, DaysFinite
  <2> QED BY <2>2, <2>5
<1> HIDE DEF days
<1>5. rebalances \in SUBSET days
  BY DEF EveryNth
<1> HIDE DEF rebalances
<1>6. ASSUME NEW d \in rebalances
      PROVE  /\ exit(d) \in Nat /\ \A e \in rebalances : e > d => exit(d) <= e
  BY <1>2, <1>4, <1>5, RoundOver
<1>7. ASSUME NEW d PROVE IsFiniteSet(top(d)) /\ Cardinality(top(d)) <= EP.num_positions
  <2>1. DOMAIN returns(d) \subseteq DOMAIN panel /\ Earned(returns(d))
    BY <1>2, ReturnsEarned
  <2> HIDE DEF returns
  <2>2. IsFiniteSet(1..n)
    BY <1>3, FirstNumbers
  <2>3. DOMAIN returns(d) \subseteq Int /\ IsFiniteSet(DOMAIN returns(d))
    BY <1>3, <2>1, <2>2, FS_Subset
  <2> QED BY <1>2, <2>1, <2>3, BestAre
<1> HIDE DEF top, exit, close
<1>8. ASSUME NEW o \in os
      PROVE  \E d \in rounds : /\ o.entry_epoch = d /\ o.exit_epoch = exit(d)
                               /\ o \in held(d, exit(d)) /\ o.instrument \in top(d)
  <2>1. PICK d \in rounds : o \in held(d, exit(d))
    OBVIOUS
  <2>2. PICK x \in top(d) : o = OrderOf(x, Order(d, close(x, d), exit(d), close(x, exit(d))))
    BY <2>1
  <2> QED BY <2>1, <2>2 DEF OrderOf, Order
<1>9. ASSUME NEW d, NEW p \in held(d, exit(d)), NEW q \in held(d, exit(d)),
             p.instrument = q.instrument
      PROVE  p = q
  <2>1. PICK x \in top(d) : p = OrderOf(x, Order(d, close(x, d), exit(d), close(x, exit(d))))
    OBVIOUS
  <2>2. PICK y \in top(d) : q = OrderOf(y, Order(d, close(y, d), exit(d), close(y, exit(d))))
    OBVIOUS
  <2>3. x = y
    BY <1>9, <2>1, <2>2 DEF OrderOf
  <2> QED BY <2>1, <2>2, <2>3
<1>10. \A d \in rounds : d \in rebalances /\ d \in Nat
  BY <1>4, <1>5
<1> HIDE DEF held, rounds
<1>11. \A o \in os : o.entry_epoch \in Nat
  BY <1>8, <1>10
<1>12. ASSUME NEW e \in Nat
       PROVE  /\ Cardinality(OpenAt(os, e)) <= EP.num_positions
              /\ \A p, q \in OpenAt(os, e) : p = q \/ p.instrument # q.instrument
  <2>1. PICK H : H = OpenAt(os, e)
    OBVIOUS
  <2>2. \A o \in H : \E d \in rounds : /\ d <= e /\ e < exit(d)
                                       /\ o \in held(d, exit(d)) /\ o.instrument \in top(d)
    <3> SUFFICES ASSUME NEW o \in H
                 PROVE  \E d \in rounds : /\ d <= e /\ e < exit(d)
                                          /\ o \in held(d, exit(d)) /\ o.instrument \in top(d)
      OBVIOUS
    <3>1. o \in os /\ o.entry_epoch <= e /\ e < o.exit_epoch
      BY <2>1 DEF OpenAt
    <3> HIDE DEF os
    <3> QED BY <1>8, <3>1
  <2> HIDE DEF os
  <2>3. CASE H = {}
    BY <1>2, <2>1, <2>3, FS_EmptySet
  <2>4. CASE H # {}
    <3>1. PICK o \in H : TRUE
      BY <2>4
    <3>2. PICK d \in rounds : d <= e /\ e < exit(d)
      BY <2>2, <3>1
    <3>3. ASSUME NEW b \in rounds, b <= e, e < exit(b) PROVE b = d
      <4>1. exit(b) \in Nat /\ exit(d) \in Nat /\ b \in Nat /\ d \in Nat
        BY <1>6, <1>10
      <4>2. d > b => exit(b) <= d
        BY <1>6, <1>10
      <4>3. b > d => exit(d) <= b
        BY <1>6, <1>10
      <4> QED BY <3>2, <3>3, <4>1, <4>2, <4>3
    <3>4. \A q \in H : q \in held(d, exit(d)) /\ q.instrument \in top(d)
      BY <2>2, <3>3
    <3>5. \A p, q \in H : p = q \/ p.instrument # q.instrument
      BY <1>9, <3>4
    <3>6. Cardinality(H) <= Cardinality(top(d)) /\ IsFiniteSet(H)
      <4> DEFINE f == [q \in H |-> q.instrument]
      <4>1. f \in [H -> top(d)] /\ \A p, q \in H : f[p] = f[q] => p = q
        BY <3>4, <3>5
      <4> HIDE DEF f
      <4>2. f \in Injection(H, top(d))
        BY <4>1 DEF Injection, IsInjective
      <4> QED BY <1>7, <4>2, FS_Injection
    <3>7. Cardinality(H) \in Nat /\ Cardinality(top(d)) \in Nat
      BY <1>7, <3>6, FS_CardinalityType
    <3>8. Cardinality(top(d)) <= EP.num_positions
      BY <1>7
    <3>9. PICK h, t, m \in Nat : /\ h = Cardinality(H) /\ t = Cardinality(top(d))
                                 /\ m = EP.num_positions
      BY <1>2, <3>7
    <3>10. h <= m
      BY <3>6, <3>8, <3>9
    <3> QED BY <2>1, <3>5, <3>9, <3>10
  <2> QED BY <2>3, <2>4
<1> HIDE DEF os
<1> QED BY <1>1, <1>11, <1>12 DEF SlotsKept

----------------------------------------------------------------------------
(* Books *)

Positions(panel) ==
    [instrument : DOMAIN panel, entry_epoch : Nat, entry_price : Nat, highest_close : Nat]
PanelOrders(panel) ==
    [instrument : DOMAIN panel, entry_epoch : Nat, exit_epoch : Nat, entry_price : Nat,
     exit_price : Nat]
Books(panel) == [held : SUBSET Positions(panel), orders : SUBSET PanelOrders(panel)]

\* What is held between two days by the orders of a book and by what is still held.
HeldAt(book, e) == {p \in book.held : p.entry_epoch <= e}
Taken(book, e) ==
    {o.instrument : o \in OpenAt(book.orders, e)} \cup {p.instrument : p \in HeldAt(book, e)}
SlotsAt(book, e, n) ==
    /\ \A p, q \in OpenAt(book.orders, e) : p = q \/ p.instrument # q.instrument
    /\ \A p \in OpenAt(book.orders, e), q \in HeldAt(book, e) : p.instrument # q.instrument
    /\ Cardinality(Taken(book, e)) <= n

\* One position of an instrument, no more than n, and never more between two days until then.
HeldOnce(book) == \A p, q \in book.held : p.instrument = q.instrument => p = q
BookKept(panel, book, d, n) ==
    /\ book \in Books(panel) /\ HeldOnce(book)
    /\ IsFiniteSet(book.held) /\ Cardinality(book.held) <= n
    /\ \A o \in book.orders : o.exit_epoch <= d
    /\ \A e \in Nat : SlotsAt(book, e, n)

LEMMA TakenType ==
    ASSUME NEW panel, Courses(panel), NEW book \in Books(panel), NEW e
    PROVE  /\ Taken(book, e) \subseteq DOMAIN panel
           /\ IsFiniteSet(DOMAIN panel) /\ IsFiniteSet(Taken(book, e))
<1>1. PICK n \in Nat : DOMAIN panel = 1..n
  BY DEF Courses
<1>2. IsFiniteSet(DOMAIN panel)
  BY <1>1, FirstNumbers
<1>3. book.held \subseteq Positions(panel) /\ book.orders \subseteq PanelOrders(panel)
  BY DEF Books
<1>4. \A p \in book.held : p.instrument \in DOMAIN panel
  BY <1>3 DEF Positions
<1>5. \A o \in book.orders : o.instrument \in DOMAIN panel
  BY <1>3 DEF PanelOrders
<1>6. Taken(book, e) \subseteq DOMAIN panel
  BY <1>4, <1>5 DEF Taken, OpenAt, HeldAt
<1> QED BY <1>2, <1>6, FS_Subset

\* Positions that are closed, whenever, leave no more than there was.
LEMMA PositionsLeave ==
    ASSUME NEW panel, Courses(panel), NEW book \in Books(panel), HeldOnce(book), NEW n \in Nat,
           \A e \in Nat : SlotsAt(book, e, n),
           NEW gone \in SUBSET book.held, NEW later,
           \A q \in later.held : \E p \in book.held \ gone :
               q.instrument = p.instrument /\ q.entry_epoch = p.entry_epoch,
           \A o \in later.orders : \/ o \in book.orders
                                   \/ \E p \in gone : /\ o.instrument = p.instrument
                                                      /\ o.entry_epoch = p.entry_epoch,
           \A o, p \in later.orders :
               \/ o \in book.orders \/ p \in book.orders
               \/ o.instrument # p.instrument \/ o = p
    PROVE  \A e \in Nat : SlotsAt(later, e, n)
<1> SUFFICES ASSUME NEW e \in Nat PROVE SlotsAt(later, e, n)
  OBVIOUS
<1>0. SlotsAt(book, e, n)
  OBVIOUS
<1>1. ASSUME NEW o \in OpenAt(later.orders, e)
      PROVE  \/ o \in OpenAt(book.orders, e)
             \/ \E p \in gone : p \in HeldAt(book, e) /\ o.instrument = p.instrument
  <2>1. o \in later.orders /\ o.entry_epoch <= e /\ e < o.exit_epoch
    BY DEF OpenAt
  <2> QED BY <2>1 DEF OpenAt, HeldAt
<1>2. ASSUME NEW q \in HeldAt(later, e)
      PROVE  \E p \in HeldAt(book, e) : p \notin gone /\ q.instrument = p.instrument
  BY DEF HeldAt
<1>3. ASSUME NEW o \in OpenAt(later.orders, e), NEW q \in OpenAt(later.orders, e),
             o.instrument = q.instrument
      PROVE  o = q
  <2>1. CASE o \in OpenAt(book.orders, e) /\ q \in OpenAt(book.orders, e)
    BY <1>0, <1>3, <2>1 DEF SlotsAt
  <2>2. CASE o \in OpenAt(book.orders, e) /\ q \notin OpenAt(book.orders, e)
    BY <1>0, <1>1, <1>3, <2>2 DEF SlotsAt
  <2>3. CASE o \notin OpenAt(book.orders, e) /\ q \in OpenAt(book.orders, e)
    BY <1>0, <1>1, <1>3, <2>3 DEF SlotsAt
  <2>4. CASE o \notin OpenAt(book.orders, e) /\ q \notin OpenAt(book.orders, e)
    BY <1>3, <2>4 DEF OpenAt
  <2> QED BY <2>1, <2>2, <2>3, <2>4
<1>4. ASSUME NEW o \in OpenAt(later.orders, e), NEW q \in HeldAt(later, e)
      PROVE  o.instrument # q.instrument
  <2>1. PICK p \in HeldAt(book, e) : p \notin gone /\ q.instrument = p.instrument
    BY <1>2
  <2>2. CASE o \in OpenAt(book.orders, e)
    BY <1>0, <2>1, <2>2 DEF SlotsAt
  <2>3. CASE \E r \in gone : r \in HeldAt(book, e) /\ o.instrument = r.instrument
    BY <2>1, <2>3 DEF HeldOnce, HeldAt
  <2> QED BY <1>1, <2>2, <2>3
<1>5. Taken(later, e) \subseteq Taken(book, e)
  BY <1>1, <1>2 DEF Taken
<1>6. IsFiniteSet(Taken(book, e))
  BY TakenType
<1>7. /\ Cardinality(Taken(later, e)) <= Cardinality(Taken(book, e))
      /\ IsFiniteSet(Taken(later, e))
  BY <1>5, <1>6, FS_Subset
<1>8. Cardinality(Taken(later, e)) \in Nat /\ Cardinality(Taken(book, e)) \in Nat
  BY <1>6, <1>7, FS_CardinalityType
<1>9. Cardinality(Taken(later, e)) <= n
  BY <1>0, <1>7, <1>8 DEF SlotsAt
<1> QED BY <1>3, <1>4, <1>9 DEF SlotsAt

LEMMA HighestType ==
    ASSUME NEW c \in Seq(DayBar), NEW pos, pos.highest_close \in Nat,
           NEW R \in SUBSET DOMAIN c
    PROVE  HighestClose(c, pos, R) \in Nat
<1> DEFINE f == [z \in R |-> c[z].close]
           closes == {c[z].close : z \in R}
<1>1. DOMAIN c = 1..Len(c) /\ Len(c) \in Nat /\ \A z \in DOMAIN c : c[z] \in DayBar
  OBVIOUS
<1>2. IsFiniteSet(R)
  BY <1>1, FirstNumbers, FS_Subset
<1>3. f \in Surjection(R, closes)
  BY DEF Surjection
<1>4. closes \subseteq Nat
  BY <1>1 DEF DayBar
<1>5. HighestClose(c, pos, R) = Max({pos.highest_close} \cup closes)
  BY DEF HighestClose
<1> HIDE DEF f, closes
<1>6. IsFiniteSet(closes)
  BY <1>2, <1>3, FS_Surjection
<1>7. IsFiniteSet({pos.highest_close} \cup closes)
  BY <1>6, FS_Singleton, FS_Union
<1>8. Max({pos.highest_close} \cup closes) \in {pos.highest_close} \cup closes
  BY <1>4, <1>7, LatestIs
<1> QED BY <1>4, <1>5, <1>8

LEMMA CloseAtType ==
    ASSUME NEW c \in Seq(DayBar), NEW day
    PROVE  CloseAt(c, day) \in Nat /\ EntryPrice(c, day) \in Nat
<1>1. DOMAIN c = 1..Len(c) /\ Len(c) \in Nat /\ \A z \in DOMAIN c : c[z] \in DayBar
  OBVIOUS
<1>2. \A z \in DOMAIN c : c[z].close \in Nat /\ c[z].open \in Nat
  BY <1>1 DEF DayBar
<1>3. day \in DaysOf(c, DOMAIN c) => RowAt(c, day) \in DOMAIN c
  BY DEF DaysOf, RowAt
<1> DEFINE earlier == {z \in Closed(c, DOMAIN c) : c[z].day <= day}
<1>4. earlier # {} => Max(earlier) \in DOMAIN c
  <2>1. earlier \in SUBSET DOMAIN c
    BY DEF Closed
  <2>2. IsFiniteSet(DOMAIN c) /\ DOMAIN c \in SUBSET Nat
    BY <1>1, FirstNumbers
  <2> HIDE DEF earlier
  <2>3. IsFiniteSet(earlier) /\ earlier \in SUBSET Nat
    BY <2>1, <2>2, FS_Subset
  <2> QED BY <2>1, <2>3, LatestIs
<1>5. CloseAt(c, day) = IF day \in DaysOf(c, DOMAIN c) THEN c[RowAt(c, day)].close
                        ELSE IF earlier = {} THEN None ELSE c[Max(earlier)].close
  BY DEF CloseAt
<1> HIDE DEF earlier
<1>6. CloseAt(c, day) \in Nat
  BY <1>2, <1>3, <1>4, <1>5 DEF None
<1> QED BY <1>2, <1>3, <1>6 DEF EntryPrice

LEMMA SoldType ==
    ASSUME NEW panel, NEW pos \in Positions(panel), NEW out, out.day \in Nat, out.price \in Nat
    PROVE  /\ Sold(pos, out) \in PanelOrders(panel)
           /\ Sold(pos, out).instrument = pos.instrument
           /\ Sold(pos, out).entry_epoch = pos.entry_epoch
           /\ Sold(pos, out).exit_epoch = out.day
  BY DEF Sold, OrderOf, Order, Positions, PanelOrders

SoldFor(sold, out) == {Sold(p, out[p]) : p \in sold}

\* Fewer positions, and orders that were over: a book is kept.
LEMMA BookLeft ==
    ASSUME NEW panel, Courses(panel), NEW n \in Nat, NEW d \in Nat, NEW book,
           BookKept(panel, book, d, n), NEW gone \in SUBSET book.held,
           NEW out, \A p \in gone : out[p].day \in Nat /\ out[p].day <= d /\ out[p].price \in Nat,
           NEW sold \in SUBSET gone, NEW later, later \in Books(panel), HeldOnce(later),
           IsFiniteSet(later.held), Cardinality(later.held) <= Cardinality(book.held),
           \A q \in later.held : \E p \in book.held \ gone :
               q.instrument = p.instrument /\ q.entry_epoch = p.entry_epoch,
           later.orders = book.orders \cup SoldFor(sold, out)
    PROVE  BookKept(panel, later, d, n)
<1>1. /\ book \in Books(panel) /\ HeldOnce(book) /\ IsFiniteSet(book.held)
      /\ Cardinality(book.held) <= n /\ \A o \in book.orders : o.exit_epoch <= d
      /\ \A e \in Nat : SlotsAt(book, e, n)
  BY DEF BookKept
<1>2. ASSUME NEW p \in sold
      PROVE  /\ p \in gone /\ Sold(p, out[p]).instrument = p.instrument
             /\ Sold(p, out[p]).entry_epoch = p.entry_epoch
             /\ Sold(p, out[p]).exit_epoch <= d
  <2>1. p \in Positions(panel)
    BY <1>1 DEF Books
  <2> QED BY <2>1, SoldType
<1>3. \A o \in later.orders : o \in book.orders \/ \E p \in sold : o = Sold(p, out[p])
  BY DEF SoldFor
<1>4. \A o \in later.orders : o.exit_epoch <= d
  BY <1>1, <1>2, <1>3
<1>5. \A o \in later.orders : \/ o \in book.orders
                              \/ \E p \in gone : /\ o.instrument = p.instrument
                                                 /\ o.entry_epoch = p.entry_epoch
  BY <1>2, <1>3
<1>6. ASSUME NEW o \in later.orders, NEW q \in later.orders, o \notin book.orders,
             q \notin book.orders, o.instrument = q.instrument
      PROVE  o = q
  <2>1. PICK p \in sold : o = Sold(p, out[p])
    BY <1>3, <1>6
  <2>2. PICK r \in sold : q = Sold(r, out[r])
    BY <1>3, <1>6
  <2>3. p.instrument = r.instrument
    BY <1>2, <1>6, <2>1, <2>2
  <2>4. p = r
    BY <1>1, <2>3 DEF HeldOnce
  <2> QED BY <2>1, <2>2, <2>4
<1>7. \A o, p \in later.orders : \/ o \in book.orders \/ p \in book.orders
                                 \/ o.instrument # p.instrument \/ o = p
  BY <1>6
<1>8. \A e \in Nat : SlotsAt(later, e, n)
  BY <1>1, <1>5, <1>7, PositionsLeave
<1>9. Cardinality(later.held) <= n
  <2>1. PICK a, b \in Nat : a = Cardinality(later.held) /\ b = Cardinality(book.held)
    BY <1>1, FS_CardinalityType
  <2>2. a <= b /\ b <= n
    BY <1>1, <2>1
  <2>3. a <= n
    BY <2>2
  <2> QED BY <2>1, <2>3
<1> QED BY <1>4, <1>8, <1>9 DEF BookKept

LEMMA StopsKeep ==
    ASSUME NEW panel, Courses(panel), NEW n \in Nat, NEW d \in Nat, NEW prev, NEW book,
           BookKept(panel, book, d, n)
    PROVE  BookKept(panel, WithStops(panel, prev, d, book), d, n)
<1> DEFINE R(pos) == Between(panel[pos.instrument], prev, d)
           stops(pos) == StopRows(panel[pos.instrument], pos, R(pos))
           stopped == {pos \in book.held : stops(pos) # {}}
           high(pos) == HighestClose(panel[pos.instrument], pos, R(pos))
           at(pos) == AtClose(panel[pos.instrument], Min(stops(pos)))
           out == [pos \in book.held |-> at(pos)]
           left(pos) == [pos EXCEPT !.highest_close = high(pos)]
           later == WithStops(panel, prev, d, book)
<1>1. /\ book \in Books(panel) /\ HeldOnce(book) /\ IsFiniteSet(book.held)
      /\ book.held \subseteq Positions(panel) /\ book.orders \subseteq PanelOrders(panel)
  BY DEF BookKept, Books
<1>2. later = [held |-> {left(pos) : pos \in book.held \ stopped},
               orders |-> book.orders \cup {Sold(pos, at(pos)) : pos \in stopped}]
  BY DEF WithStops
<1>3. ASSUME NEW pos \in book.held
      PROVE  /\ panel[pos.instrument] \in Seq(DayBar) /\ pos \in Positions(panel)
             /\ R(pos) \in SUBSET DOMAIN panel[pos.instrument]
             /\ \A z \in R(pos) : panel[pos.instrument][z].day <= d
             /\ stops(pos) \in SUBSET R(pos)
  BY <1>1 DEF Positions, Courses, Between, Closed, StopRows
<1> HIDE DEF R, stops
<1>4. ASSUME NEW pos \in stopped
      PROVE  at(pos).day \in Nat /\ at(pos).day <= d /\ at(pos).price \in Nat
  <2>1. PICK c : c = panel[pos.instrument]
    OBVIOUS
  <2>2. c \in Seq(DayBar) /\ DOMAIN c \in SUBSET Nat /\ stops(pos) # {}
        /\ stops(pos) \in SUBSET DOMAIN c /\ \A z \in stops(pos) : c[z].day <= d
    BY <1>3, <2>1
  <2>3. PICK m : m = Min(stops(pos)) /\ m \in stops(pos)
    BY <2>2, MinIs
  <2>4. c[m] \in DayBar
    BY <2>2, <2>3
  <2> QED BY <2>1, <2>2, <2>3, <2>4 DEF AtClose, DayBar
<1>5. ASSUME NEW pos \in book.held
      PROVE  /\ left(pos) \in Positions(panel) /\ left(pos).instrument = pos.instrument
             /\ left(pos).entry_epoch = pos.entry_epoch
  <2>1. high(pos) \in Nat
    BY <1>3, HighestType DEF Positions
  <2> HIDE DEF high
  <2> QED BY <1>3, <2>1 DEF Positions
<1> HIDE DEF at, left
<1>6. \A q \in later.held : \E p \in book.held \ stopped :
          /\ q = left(p) /\ q.instrument = p.instrument /\ q.entry_epoch = p.entry_epoch
  BY <1>2, <1>5
<1>7. later.orders = book.orders \cup SoldFor(stopped, out)
  <2>1. \A p \in stopped : out[p] = at(p)
    OBVIOUS
  <2> HIDE DEF out, stopped
  <2>2. {Sold(p, at(p)) : p \in stopped} = SoldFor(stopped, out)
    BY <2>1 DEF SoldFor
  <2> QED BY <1>2, <2>2
<1>8. later \in Books(panel)
  <2>1. \A q \in later.held : q \in Positions(panel)
    BY <1>5, <1>6
  <2>2. \A p \in stopped : Sold(p, at(p)) \in PanelOrders(panel)
    BY <1>3, <1>4, SoldType
  <2>3. \A o \in later.orders : o \in PanelOrders(panel)
    BY <1>1, <1>2, <2>2
  <2> HIDE DEF later
  <2>4. later.held \subseteq Positions(panel) /\ later.orders \subseteq PanelOrders(panel)
    BY <2>1, <2>3
  <2> QED BY <1>2, <2>4 DEF Books
<1>9. HeldOnce(later)
  BY <1>1, <1>6 DEF HeldOnce
<1>10. IsFiniteSet(later.held) /\ Cardinality(later.held) <= Cardinality(book.held)
  <2> DEFINE f == [p \in book.held \ stopped |-> left(p)]
  <2>1. f \in Surjection(book.held \ stopped, later.held)
    BY <1>2 DEF Surjection
  <2> HIDE DEF f, later, stopped
  <2>2. /\ IsFiniteSet(book.held \ stopped)
        /\ Cardinality(book.held \ stopped) <= Cardinality(book.held)
    BY <1>1, FS_Subset
  <2>3. IsFiniteSet(later.held) /\ Cardinality(later.held) <= Cardinality(book.held \ stopped)
    BY <2>1, <2>2, FS_Surjection
  <2>4. PICK a, b, e \in Nat : /\ a = Cardinality(later.held) /\ e = Cardinality(book.held)
                               /\ b = Cardinality(book.held \ stopped)
    BY <1>1, <2>2, <2>3, FS_CardinalityType
  <2>5. a <= e
    BY <2>2, <2>3, <2>4
  <2> QED BY <2>3, <2>4, <2>5
<1>11. stopped \in SUBSET book.held
  OBVIOUS
<1>12. \A p \in stopped : out[p].day \in Nat /\ out[p].day <= d /\ out[p].price \in Nat
  BY <1>4
<1>13. \A q \in later.held : \E p \in book.held \ stopped :
           q.instrument = p.instrument /\ q.entry_epoch = p.entry_epoch
  BY <1>6
<1>14. PICK G, O, L : G = stopped /\ O = out /\ L = later
  OBVIOUS
<1> HIDE DEF out, stopped, later
<1>15. BookKept(panel, L, d, n)
  BY <1>7, <1>8, <1>9, <1>10, <1>11, <1>12, <1>13, <1>14, BookLeft
<1> QED BY <1>14, <1>15 DEF later

LEMMA ExitsKeep ==
    ASSUME NEW panel, Courses(panel), NEW n \in Nat, NEW d \in Nat, NEW top, NEW book,
           BookKept(panel, book, d, n)
    PROVE  BookKept(panel, WithExits(panel, d, top, book), d, n)
<1> DEFINE at(pos) == [day |-> d, price |-> CloseAt(panel[pos.instrument], d)]
           dropped == {pos \in book.held :
                         /\ pos.instrument \notin top
                         /\ d - pos.entry_epoch >= XC.trending_value.min_hold_days}
           sold == {p \in dropped : at(p).price # None}
           out == [pos \in book.held |-> at(pos)]
           later == WithExits(panel, d, top, book)
<1>1. /\ book \in Books(panel) /\ HeldOnce(book) /\ IsFiniteSet(book.held)
      /\ book.held \subseteq Positions(panel) /\ book.orders \subseteq PanelOrders(panel)
  BY DEF BookKept, Books
<1>2. later = [held |-> book.held \ dropped,
               orders |-> book.orders \cup {Sold(pos, at(pos)) : pos \in sold}]
  BY DEF WithExits
<1>3. ASSUME NEW pos \in book.held
      PROVE  /\ pos \in Positions(panel)
             /\ at(pos).day \in Nat /\ at(pos).day <= d /\ at(pos).price \in Nat
  <2>1. pos \in Positions(panel) /\ panel[pos.instrument] \in Seq(DayBar)
    BY <1>1 DEF Positions, Courses
  <2> QED BY <2>1, CloseAtType
<1>4. dropped \in SUBSET book.held /\ sold \in SUBSET dropped
  OBVIOUS
<1> HIDE DEF at, dropped, sold
<1>5. later.orders = book.orders \cup SoldFor(sold, out)
  <2>1. \A p \in sold : out[p] = at(p)
    BY <1>4
  <2> HIDE DEF out
  <2>2. {Sold(p, at(p)) : p \in sold} = SoldFor(sold, out)
    BY <2>1 DEF SoldFor
  <2> QED BY <1>2, <2>2
<1>6. later.held = book.held \ dropped
  BY <1>2
<1>7. later \in Books(panel)
  <2>1. \A p \in sold : Sold(p, at(p)) \in PanelOrders(panel)
    BY <1>3, <1>4, SoldType
  <2>2. \A o \in later.orders : o \in PanelOrders(panel)
    BY <1>1, <1>2, <2>1
  <2> HIDE DEF later
  <2>3. later.held \subseteq Positions(panel) /\ later.orders \subseteq PanelOrders(panel)
    BY <1>1, <1>6, <2>2
  <2> QED BY <1>2, <2>3 DEF Books
<1>8. HeldOnce(later)
  BY <1>1, <1>6 DEF HeldOnce
<1>9. IsFiniteSet(later.held) /\ Cardinality(later.held) <= Cardinality(book.held)
  BY <1>1, <1>6, FS_Subset
<1>10. \A p \in dropped : out[p].day \in Nat /\ out[p].day <= d /\ out[p].price \in Nat
  BY <1>3, <1>4
<1>11. \A q \in later.held : \E p \in book.held \ dropped :
           q.instrument = p.instrument /\ q.entry_epoch = p.entry_epoch
  BY <1>6
<1>12. PICK O, L : O = out /\ L = later
  OBVIOUS
<1> HIDE DEF out, later
<1>13. BookKept(panel, L, d, n)
  BY <1>4, <1>5, <1>7, <1>8, <1>9, <1>10, <1>11, <1>12, BookLeft
<1> QED BY <1>12, <1>13 DEF later

\* What the companies of a panel report.
Reports(panel) ==
    \A x \in DOMAIN panel :
        EC.filings[x] \in Seq([epoch : Int, sound : BOOLEAN, pe : Nat, growth : Int])

LEMMA GrowthInOrder ==
    ASSUME NEW panel, Courses(panel), Reports(panel), NEW day,
           NEW S \in SUBSET Ranked(panel, day)
    PROVE  /\ S \subseteq DOMAIN panel /\ IsFiniteSet(S)
           /\ InStrictOrder(S, {p \in S \X S : GrowsFaster(day, p[1], p[2])})
<1> DEFINE R == {p \in S \X S : GrowsFaster(day, p[1], p[2])}
<1>1. S \subseteq DOMAIN panel
  BY DEF Ranked, Sound, Eligible
<1>2. PICK n \in Nat : DOMAIN panel = 1..n
  BY DEF Courses
<1>3. IsFiniteSet(S)
  BY <1>1, <1>2, FirstNumbers, FS_Subset
<1>4. ASSUME NEW x \in S PROVE GrowthScore(x, day) \in Int
  <2>1. PICK c : c = EC.filings[x]
    OBVIOUS
  <2>2. c \in Seq([epoch : Int, sound : BOOLEAN, pe : Nat, growth : Int])
    BY <1>1, <2>1 DEF Reports
  <2>3. /\ DOMAIN c = 1..Len(c) /\ Len(c) \in Nat
        /\ \A z \in DOMAIN c : c[z].growth \in Int
    <3> DEFINE T == [epoch : Int, sound : BOOLEAN, pe : Nat, growth : Int]
    <3>1. \A t \in T : t.growth \in Int
      OBVIOUS
    <3>0. c \in Seq(T)
      BY <2>2
    <3> HIDE DEF T
    <3>2. DOMAIN c = 1..Len(c) /\ Len(c) \in Nat /\ \A z \in DOMAIN c : c[z] \in T
      BY <3>0
    <3> QED BY <3>1, <3>2
  <2>4. PICK known : known = Filed(x, day)
    OBVIOUS
  <2>5. known \in SUBSET DOMAIN c /\ Cardinality(known) >= 2
    BY <2>1, <2>4 DEF Filed, Ranked
  <2>6. IsFiniteSet(DOMAIN c) /\ DOMAIN c \in SUBSET Nat
    BY <2>3, FirstNumbers
  <2>7. IsFiniteSet(known) /\ known \in SUBSET Nat
    BY <2>5, <2>6, FS_Subset
  <2>8. known # {}
    BY <2>5, FS_EmptySet
  <2>9. Max(known) \in DOMAIN c
    BY <2>5, <2>7, <2>8, LatestIs
  <2> QED BY <2>1, <2>3, <2>4, <2>9 DEF GrowthScore, Filing
<1>5. \A x, y \in S : <<y, x>> \in R <=> \/ GrowthScore(y, day) > GrowthScore(x, day)
                                         \/ /\ GrowthScore(y, day) = GrowthScore(x, day)
                                            /\ y < x
  BY DEF GrowsFaster
<1> HIDE DEF R
<1>6. \A x \in S : x \in Int
  BY <1>1, <1>2
<1>7. ASSUME NEW x \in S, NEW y \in S
      PROVE  /\ <<x, y>> \in R => <<y, x>> \notin R
             /\ x # y => <<x, y>> \in R \/ <<y, x>> \in R
  <2>1. PICK a, b \in Int : a = GrowthScore(x, day) /\ b = GrowthScore(y, day)
    BY <1>4
  <2>2. /\ <<y, x>> \in R <=> b > a \/ (b = a /\ y < x)
        /\ <<x, y>> \in R <=> a > b \/ (a = b /\ x < y)
    BY <1>5, <2>1
  <2> QED BY <1>6, <2>2
<1>8. ASSUME NEW x \in S, NEW y \in S, NEW z \in S, <<x, y>> \in R, <<y, z>> \in R
      PROVE  <<x, z>> \in R
  <2>1. PICK a, b, e \in Int : /\ a = GrowthScore(x, day) /\ b = GrowthScore(y, day)
                               /\ e = GrowthScore(z, day)
    BY <1>4
  <2>2. /\ a > b \/ (a = b /\ x < y)
        /\ b > e \/ (b = e /\ y < z)
        /\ <<x, z>> \in R <=> a > e \/ (a = e /\ x < z)
    BY <1>5, <1>8, <2>1
  <2>3. x \in Int /\ y \in Int /\ z \in Int
    BY <1>6
  <2> QED BY <2>2, <2>3
<1>9. InStrictOrder(S, R)
  BY <1>7, <1>8 DEF InStrictOrder
<1> QED BY <1>1, <1>3, <1>9 DEF R

\* Positions that are opened on a later day fill a book, at most.
LEMMA PositionsOpened ==
    ASSUME NEW panel, Courses(panel), NEW n \in Nat, NEW d \in Nat, NEW date \in Nat, date > d,
           NEW book, BookKept(panel, book, d, n), NEW new \in SUBSET Positions(panel),
           IsFiniteSet(new), Cardinality(book.held) + Cardinality(new) <= n,
           \A q \in new : /\ q.entry_epoch = date
                          /\ \A p \in book.held : p.instrument # q.instrument
                          /\ \A r \in new : r.instrument = q.instrument => r = q,
           NEW later, later = [book EXCEPT !.held = @ \cup new]
    PROVE  BookKept(panel, later, d, n)
<1>1. /\ book \in Books(panel) /\ HeldOnce(book) /\ IsFiniteSet(book.held)
      /\ book.held \subseteq Positions(panel) /\ book.orders \subseteq PanelOrders(panel)
      /\ \A o \in book.orders : o.exit_epoch <= d
      /\ \A e \in Nat : SlotsAt(book, e, n)
  BY DEF BookKept, Books
<1>2. later.held = book.held \cup new /\ later.orders = book.orders /\ later \in Books(panel)
  BY <1>1 DEF Books
<1>0. \A q, r \in new : r.instrument = q.instrument => r = q
  OBVIOUS
<1>3. HeldOnce(later)
  <2> SUFFICES ASSUME NEW p \in later.held, NEW q \in later.held, p.instrument = q.instrument
               PROVE  p = q
    BY DEF HeldOnce
  <2>1. CASE p \in book.held /\ q \in book.held
    BY <1>1, <2>1 DEF HeldOnce
  <2>0. p \in book.held \cup new /\ q \in book.held \cup new
    BY <1>2
  <2>2. CASE p \in new
    <3>1. \A r \in book.held : r.instrument # p.instrument
      BY <2>2
    <3>2. q \in new
      BY <2>0, <3>1
    <3> QED BY <1>0, <2>2, <3>2
  <2>3. CASE q \in new
    <3>1. \A r \in book.held : r.instrument # q.instrument
      BY <2>3
    <3>2. p \in new
      BY <2>0, <3>1
    <3> QED BY <1>0, <2>3, <3>2
  <2> QED BY <1>2, <2>1, <2>2, <2>3
<1>4. IsFiniteSet(later.held) /\ Cardinality(later.held) <= n
  <2>1. /\ IsFiniteSet(later.held)
        /\ Cardinality(later.held) = Cardinality(book.held) + Cardinality(new)
                                       - Cardinality(book.held \cap new)
    BY <1>1, <1>2, FS_Union
  <2>2. IsFiniteSet(book.held \cap new)
    BY <1>1, FS_Intersection
  <2>3. PICK a, b, e \in Nat : /\ a = Cardinality(book.held) /\ b = Cardinality(new)
                               /\ e = Cardinality(book.held \cap new)
    BY <1>1, <2>2, FS_CardinalityType
  <2>4. a + b - e <= n
    BY <2>3
  <2> QED BY <2>1, <2>3, <2>4
<1>5. ASSUME NEW e \in Nat PROVE SlotsAt(later, e, n)
  <2>1. CASE e < date
    <3>1. \A q \in new : ~ (q.entry_epoch <= e)
      BY <2>1
    <3>2. HeldAt(later, e) = HeldAt(book, e)
      BY <1>2, <3>1 DEF HeldAt
    <3>3. SlotsAt(book, e, n)
      BY <1>1
    <3> QED BY <1>2, <3>2, <3>3 DEF SlotsAt, Taken
  <2>2. CASE ~ (e < date)
    <3>1. \A o \in book.orders : o.exit_epoch \in Nat /\ ~ (e < o.exit_epoch)
      <4> SUFFICES ASSUME NEW o \in book.orders
                   PROVE  o.exit_epoch \in Nat /\ ~ (e < o.exit_epoch)
        OBVIOUS
      <4>1. o.exit_epoch \in Nat /\ o.exit_epoch <= d
        BY <1>1 DEF PanelOrders
      <4> QED BY <2>2, <4>1
    <3>2. OpenAt(later.orders, e) = {}
      BY <1>2, <3>1 DEF OpenAt
    <3> DEFINE named == {p.instrument : p \in HeldAt(later, e)}
               f == [p \in HeldAt(later, e) |-> p.instrument]
    <3>3. Taken(later, e) = named
      BY <3>2 DEF Taken
    <3>4. f \in Surjection(HeldAt(later, e), named)
      BY DEF Surjection
    <3>5. HeldAt(later, e) \subseteq later.held
      BY DEF HeldAt
    <3> HIDE DEF named, f
    <3>6. IsFiniteSet(HeldAt(later, e)) /\ Cardinality(HeldAt(later, e)) <= Cardinality(later.held)
      BY <1>4, <3>5, FS_Subset
    <3>7. IsFiniteSet(named) /\ Cardinality(named) <= Cardinality(HeldAt(later, e))
      BY <3>4, <3>6, FS_Surjection
    <3>8. PICK a, b, m \in Nat : /\ a = Cardinality(named) /\ m = Cardinality(later.held)
                                 /\ b = Cardinality(HeldAt(later, e))
      BY <1>4, <3>6, <3>7, FS_CardinalityType
    <3>9. a <= n
      BY <1>4, <3>6, <3>7, <3>8
    <3> QED BY <3>2, <3>3, <3>8, <3>9 DEF SlotsAt
  <2> QED BY <2>1, <2>2
<1> QED BY <1>1, <1>2, <1>3, <1>4, <1>5 DEF BookKept

LEMMA EntriesKeep ==
    ASSUME NEW panel, Courses(panel), Reports(panel), NEW n \in Nat,
           n = EC.trending_value.top_n_stocks, NEW d \in Nat, NEW date \in Nat, date > d,
           NEW top \in SUBSET Ranked(panel, d), NEW book, BookKept(panel, book, d, n)
    PROVE  BookKept(panel, WithEntries(panel, d, date, top, book), d, n)
<1> DEFINE price(x) == EntryPrice(panel[x], date)
           wanted == {x \in top : /\ \A pos \in book.held : pos.instrument # x
                                  /\ price(x) # None}
           ahead(x) == {y \in wanted : GrowsFaster(d, y, x)}
           bought == {x \in wanted : Cardinality(book.held) + Cardinality(ahead(x))
                                         < EC.trending_value.top_n_stocks}
           entry(x) == [instrument |-> x, entry_epoch |-> date,
                        entry_price |-> price(x), highest_close |-> price(x)]
           new == {entry(x) : x \in bought}
           R == {p \in wanted \X wanted : GrowsFaster(d, p[1], p[2])}
<1>1. WithEntries(panel, d, date, top, book) = [book EXCEPT !.held = @ \cup new]
  BY DEF WithEntries
<1>2. wanted \in SUBSET Ranked(panel, d)
  OBVIOUS
<1>3. wanted \subseteq DOMAIN panel /\ IsFiniteSet(wanted) /\ InStrictOrder(wanted, R)
  <2> HIDE DEF wanted
  <2> QED BY <1>2, GrowthInOrder
<1>4. PICK h \in Nat : h = Cardinality(book.held) /\ h <= n
  BY FS_CardinalityType DEF BookKept
<1>5. bought \subseteq wanted
  OBVIOUS
<1>6. IsFiniteSet(bought) /\ Cardinality(bought) <= n - h
  <2>1. \A x \in wanted : ahead(x) = Ahead(wanted, R, x)
    BY DEF Ahead
  <2> HIDE DEF ahead, R, wanted
  <2>2. \A x \in wanted : Cardinality(Ahead(wanted, R, x)) \in Nat
    BY <1>3, RanksDiffer
  <2>3. \A x \in wanted : h + Cardinality(Ahead(wanted, R, x)) < n
                             <=> Cardinality(Ahead(wanted, R, x)) < n - h
    BY <2>2
  <2>4. bought = FirstFew(wanted, R, n - h)
    BY <1>4, <2>1, <2>3 DEF FirstFew
  <2>5. n - h \in Nat
    BY <1>4
  <2>6. Cardinality(FirstFew(wanted, R, n - h)) <= n - h
    BY <1>3, <2>5, FirstFewAre
  <2> QED BY <1>3, <1>5, <2>4, <2>6, FS_Subset
<1>7. ASSUME NEW x \in bought
      PROVE  /\ entry(x) \in Positions(panel) /\ entry(x).entry_epoch = date
             /\ entry(x).instrument = x /\ \A p \in book.held : p.instrument # x
  <2>1. x \in DOMAIN panel
    BY <1>3, <1>5
  <2>2. panel[x] \in Seq(DayBar)
    BY <2>1 DEF Courses
  <2>3. price(x) \in Nat
    BY <2>2, CloseAtType
  <2>4. \A p \in book.held : p.instrument # x
    BY <1>5
  <2> HIDE DEF price, bought
  <2> QED BY <2>1, <2>3, <2>4 DEF Positions
<1> DEFINE f == [x \in bought |-> entry(x)]
<1>8. f \in Surjection(bought, new)
  BY DEF Surjection
<1> HIDE DEF bought, entry, f
<1>9. IsFiniteSet(new) /\ Cardinality(new) <= Cardinality(bought)
  BY <1>6, <1>8, FS_Surjection
<1>10. h + Cardinality(new) <= n
  <2>1. PICK a, b \in Nat : a = Cardinality(new) /\ b = Cardinality(bought)
    BY <1>6, <1>9, FS_CardinalityType
  <2>2. h + a <= n
    BY <1>4, <1>6, <1>9, <2>1
  <2> QED BY <2>1, <2>2
<1>11. new \in SUBSET Positions(panel)
  BY <1>7
<1>12. ASSUME NEW q \in new
       PROVE  /\ q.entry_epoch = date
              /\ \A p \in book.held : p.instrument # q.instrument
              /\ \A r \in new : r.instrument = q.instrument => r = q
  BY <1>7
<1>13. PICK N, L : N = new /\ L = [book EXCEPT !.held = @ \cup new]
  OBVIOUS
<1> HIDE DEF new
<1>14. BookKept(panel, L, d, n)
  <2>1. Cardinality(book.held) + Cardinality(N) <= n
    BY <1>4, <1>10, <1>13
  <2>2. L = [book EXCEPT !.held = @ \cup N]
    BY <1>13
  <2>3. N \in SUBSET Positions(panel) /\ IsFiniteSet(N)
    BY <1>9, <1>11, <1>13
  <2>4. \A q \in N : /\ q.entry_epoch = date
                     /\ \A p \in book.held : p.instrument # q.instrument
                     /\ \A r \in N : r.instrument = q.instrument => r = q
    BY <1>12, <1>13
  <2> QED BY <2>1, <2>2, <2>3, <2>4, PositionsOpened
<1> QED BY <1>1, <1>13, <1>14

\* When what is left is closed, whenever, the slots were kept.
LEMMA LiquidatedKeeps ==
    ASSUME NEW panel, Courses(panel), NEW n \in Nat, NEW d, NEW last_rb, NEW book,
           BookKept(panel, book, d, n)
    PROVE  SlotsKept(Liquidated(panel, last_rb, book), n)
<1> DEFINE last_row(c, stops) == IF stops # {} THEN Min(stops) ELSE Max(Closed(c, DOMAIN c))
           out(c, pos) ==
               AtClose(c, last_row(c, StopRows(c, pos, Between(c, last_rb, c[Len(c)].day))))
           sale(pos) == Sold(pos, out(panel[pos.instrument], pos))
           os == book.orders \cup {sale(pos) : pos \in book.held}
           later == [held |-> {}, orders |-> os]
<1>1. Liquidated(panel, last_rb, book) = os
  BY DEF Liquidated
<1>2. /\ book \in Books(panel) /\ HeldOnce(book) /\ \A e \in Nat : SlotsAt(book, e, n)
      /\ book.held \subseteq Positions(panel) /\ book.orders \subseteq PanelOrders(panel)
  BY DEF BookKept, Books
<1>3. \A pos : sale(pos).instrument = pos.instrument /\ sale(pos).entry_epoch = pos.entry_epoch
  BY DEF Sold, OrderOf, Order
<1> HIDE DEF sale
<1>4. \A o \in os : o \in book.orders \/ \E p \in book.held : o = sale(p)
  OBVIOUS
<1>5. \A o \in os : o.entry_epoch \in Nat
  BY <1>2, <1>3, <1>4 DEF Positions, PanelOrders
<1>6. later.held = {} /\ later.orders = os
  OBVIOUS
<1>7. \A e \in Nat : SlotsAt(later, e, n)
  <2>1. \A o \in os : \/ o \in book.orders
                      \/ \E p \in book.held : /\ o.instrument = p.instrument
                                              /\ o.entry_epoch = p.entry_epoch
    BY <1>3, <1>4
  <2>2. ASSUME NEW o \in os, NEW q \in os, o \notin book.orders, q \notin book.orders,
               o.instrument = q.instrument
        PROVE  o = q
    <3>1. PICK p, r \in book.held : o = sale(p) /\ q = sale(r)
      BY <1>4, <2>2
    <3>2. p = r
      BY <1>2, <1>3, <2>2, <3>1 DEF HeldOnce
    <3> QED BY <3>1, <3>2
  <2>3. \A o, p \in os : \/ o \in book.orders \/ p \in book.orders
                         \/ o.instrument # p.instrument \/ o = p
    BY <2>2
  <2>4. PICK L : L = later
    OBVIOUS
  <2> HIDE DEF os, later
  <2>5. /\ \A q \in L.held : \E p \in book.held \ book.held :
               q.instrument = p.instrument /\ q.entry_epoch = p.entry_epoch
        /\ \A o \in L.orders : \/ o \in book.orders
                               \/ \E p \in book.held : /\ o.instrument = p.instrument
                                                       /\ o.entry_epoch = p.entry_epoch
        /\ \A o, p \in L.orders : \/ o \in book.orders \/ p \in book.orders
                                  \/ o.instrument # p.instrument \/ o = p
    BY <1>6, <2>1, <2>3, <2>4
  <2>6. \A e \in Nat : SlotsAt(L, e, n)
    BY <1>2, <2>5, PositionsLeave
  <2> QED BY <2>4, <2>6
<1>8. ASSUME NEW e \in Nat
      PROVE  /\ Cardinality(OpenAt(os, e)) <= n
             /\ \A p, q \in OpenAt(os, e) : p = q \/ p.instrument # q.instrument
  <2> DEFINE named == {o.instrument : o \in OpenAt(os, e)}
             f == [o \in OpenAt(os, e) |-> o.instrument]
  <2>1. SlotsAt(later, e, n)
    BY <1>7
  <2> HIDE DEF os, later
  <2>2. HeldAt(later, e) = {}
    BY <1>6 DEF HeldAt
  <2>3. Taken(later, e) = named
    BY <1>6, <2>2 DEF Taken
  <2>4. /\ \A p, q \in OpenAt(os, e) : p = q \/ p.instrument # q.instrument
        /\ Cardinality(named) <= n
    BY <1>6, <2>1, <2>3 DEF SlotsAt
  <2>5. f \in Injection(OpenAt(os, e), named)
    BY <2>4 DEF Injection, IsInjective
  <2>6. IsFiniteSet(named)
    <3>1. named \subseteq DOMAIN panel
      <4>1. \A o \in os : o.instrument \in DOMAIN panel
        BY <1>2, <1>3, <1>4 DEF Positions, PanelOrders
      <4> QED BY <4>1 DEF OpenAt
    <3>2. IsFiniteSet(DOMAIN panel)
      BY <1>2, TakenType
    <3> QED BY <3>1, <3>2, FS_Subset
  <2> HIDE DEF named, f
  <2>7. IsFiniteSet(OpenAt(os, e)) /\ Cardinality(OpenAt(os, e)) <= Cardinality(named)
    BY <2>5, <2>6, FS_Injection
  <2>8. PICK a, b \in Nat : a = Cardinality(OpenAt(os, e)) /\ b = Cardinality(named)
    BY <2>6, <2>7, FS_CardinalityType
  <2>9. a <= n
    BY <2>4, <2>7, <2>8
  <2> QED BY <2>4, <2>8, <2>9
<1> HIDE DEF os
<1> QED BY <1>1, <1>5, <1>8 DEF SlotsKept

NoBook == [held |-> {}, orders |-> {}]

LEMMA NothingHeld ==
    ASSUME NEW panel, NEW n \in Nat, NEW d
    PROVE  BookKept(panel, NoBook, d, n)
<1>1. NoBook \in Books(panel) /\ HeldOnce(NoBook) /\ NoBook.held = {} /\ NoBook.orders = {}
  BY DEF NoBook, Books, HeldOnce
<1>2. IsFiniteSet({}) /\ Cardinality({}) = 0
  BY FS_EmptySet
<1>3. ASSUME NEW e PROVE SlotsAt(NoBook, e, n)
  <2>1. OpenAt(NoBook.orders, e) = {} /\ HeldAt(NoBook, e) = {}
    BY <1>1 DEF OpenAt, HeldAt
  <2>2. Taken(NoBook, e) = {}
    BY <2>1 DEF Taken
  <2>3. Cardinality(Taken(NoBook, e)) <= n
    BY <1>2, <2>2
  <2> QED BY <2>1, <2>3 DEF SlotsAt
<1>4. IsFiniteSet(NoBook.held) /\ Cardinality(NoBook.held) <= n
  BY <1>1, <1>2
<1> QED BY <1>1, <1>3, <1>4 DEF BookKept

LEMMA StillKept ==
    ASSUME NEW panel, NEW n, NEW d \in Nat, NEW e \in Nat, d <= e, NEW book,
           BookKept(panel, book, d, n)
    PROVE  BookKept(panel, book, e, n)
<1>1. ASSUME NEW o \in book.orders PROVE o.exit_epoch <= e
  <2>1. o.exit_epoch \in Nat /\ o.exit_epoch <= d
    BY DEF BookKept, Books, PanelOrders
  <2> QED BY <2>1
<1> QED BY <1>1 DEF BookKept

\* A recursion that keeps what it is given, from nothing, keeps it on every day.
Given(f, first, prev, d) == IF d = first THEN NoBook ELSE f[prev[d]]
KeepsOn(of, panel, n, D) ==
    \A d \in D, b \in Books(panel) :
        BookKept(panel, b, d, n) => BookKept(panel, of[<<d, b>>], d, n)
Follows(f, of, panel, n, D, first, prev) ==
    \A d \in D : BookKept(panel, Given(f, first, prev, d), d, n)
                   => f[d] = of[<<d, Given(f, first, prev, d)>>]

LEMMA KeptThroughout ==
    ASSUME NEW panel, NEW n \in Nat, NEW D \in SUBSET Nat, NEW prev, NEW first \in D,
           prev \in [D \ {first} -> D], \A d \in D \ {first} : prev[d] < d,
           NEW of, KeepsOn(of, panel, n, D), NEW f, Follows(f, of, panel, n, D, first, prev)
    PROVE  \A d \in D : BookKept(panel, f[d], d, n)
<1> DEFINE Good == {d \in D : BookKept(panel, f[d], d, n)}
           rank == [d \in D |-> d]
<1>1. Descends(D, {first}, rank, prev)
  <2>1. rank \in [D -> Nat] /\ \A d \in D \ {first} : prev[d] \in D /\ rank[prev[d]] < rank[d]
    OBVIOUS
  <2> QED BY <2>1 DEF Descends
<1>2. ASSUME NEW d \in D, d \in {first} \/ prev[d] \in Good
      PROVE  d \in Good
  <2>1. PICK b : b = Given(f, first, prev, d)
    OBVIOUS
  <2>2. BookKept(panel, b, d, n)
    <3>1. CASE d = first
      BY <2>1, <3>1, NothingHeld DEF Given
    <3>2. CASE d # first
      <4>1. PICK e \in D : e = prev[d] /\ e < d /\ BookKept(panel, f[e], e, n)
        BY <1>2, <3>2
      <4>2. d \in Nat /\ e \in Nat /\ e <= d
        BY <4>1
      <4>3. BookKept(panel, f[e], d, n)
        BY <4>1, <4>2, StillKept
      <4> QED BY <2>1, <3>2, <4>1, <4>3 DEF Given
    <3> QED BY <3>1, <3>2
  <2>3. f[d] = of[<<d, b>>]
    BY <2>1, <2>2 DEF Follows
  <2>4. b \in Books(panel)
    BY <2>2 DEF BookKept
  <2> QED BY <2>2, <2>3, <2>4 DEF KeepsOn
<1> HIDE DEF Good, rank
<1>3. PassedUp(D, {first}, prev, Good)
  BY <1>2 DEF PassedUp
<1>4. D \subseteq Good
  BY <1>1, <1>3, Descent
<1> QED BY <1>4 DEF Good

LEMMA TrendingSlots ==
    ASSUME NEW panel, Courses(panel), Reports(panel), NEW start
    PROVE  SlotsKept(TrendingValue(panel, start), EC.trending_value.top_n_stocks)
<1> DEFINE EP == EC.trending_value
           n == EP.top_n_stocks
           dates == AllDates(panel, start)
           D == FirstOfEach(dates, EP.rebalance_days, EP.rebalance_days)
           top(d) == TopRanked(Ranked(panel, d), d, EP.top_n_stocks)
           PassedOver(d) == Cardinality(Eligible(panel, d)) < EP.min_eligible \/ d = Max(dates)
           before(d) == {e \in D : e < d}
           from(d) == IF before(d) = {} THEN start ELSE Max(before(d))
           given(d, f) == IF before(d) = {} THEN NoBook ELSE f[from(d)]
           after(d, book) ==
               IF PassedOver(d) THEN book
               ELSE Rebalanced(panel, d, from(d), Min({e \in dates : e > d}), top(d), book)
           h == CHOOSE f : f = [d \in D |-> after(d, given(d, f))]
<1>1. TrendingValue(panel, start) = IF Cardinality(D) < 2 THEN {}
                                    ELSE Liquidated(panel, Max(D), h[Max(D)])
  BY DEF TrendingValue, NoBook
<1>2. n \in Nat
  BY SignalsAssumption
<1>3. IsFiniteSet(dates) /\ dates \in SUBSET Nat
  <2>1. PICK K : K = [x \in DOMAIN panel |-> Closed(panel[x], DOMAIN panel[x])]
    OBVIOUS
  <2>2. dates \subseteq KeptDays(panel, K)
    BY <2>1 DEF KeptDays, AllDates
  <2>3. \A x \in DOMAIN panel : InOrder(panel[x]) /\ K[x] \subseteq DOMAIN panel[x]
    BY <2>1 DEF Courses, Closed
  <2>4. PICK m \in Nat : DOMAIN panel = 1..m
    BY DEF Courses
  <2> HIDE DEF dates
  <2>5. IsFiniteSet(KeptDays(panel, K)) /\ KeptDays(panel, K) \subseteq Nat
    BY <2>3, <2>4, DaysFinite
  <2> QED BY <2>2, <2>5, FS_Subset
<1>4. D \in SUBSET dates
  BY DEF FirstOfEach
<1> HIDE DEF dates, D
<1>5. D \in SUBSET Nat /\ IsFiniteSet(D)
  BY <1>3, <1>4, FS_Subset
<1>6. CASE D = {}
  <2>1. Cardinality(D) = 0
    BY <1>6, FS_EmptySet
  <2>2. \A e : OpenAt({}, e) = {}
    BY DEF OpenAt
  <2>3. Cardinality({}) <= n
    BY <1>2, FS_EmptySet
  <2>4. SlotsKept({}, n)
    BY <2>2, <2>3 DEF SlotsKept
  <2> QED BY <1>1, <2>1, <2>4
<1>7. CASE D # {}
  <2> DEFINE first == Min(D)
             prev == [d \in D \ {first} |-> from(d)]
  <2>1. first \in D /\ \A d \in D : first <= d
    BY <1>5, <1>7, MinIs
  <2>2. ASSUME NEW d \in D PROVE before(d) = {} <=> d = first
    <3>1. first \in Nat /\ d \in Nat /\ first <= d /\ \A e \in D : e \in Nat /\ first <= e
      BY <1>5, <2>1
    <3> HIDE DEF first
    <3>2. d = first => before(d) = {}
      <4>1. \A e \in D : d = first => ~ (e < d)
        BY <3>1
      <4> QED BY <4>1
    <3>3. d # first => first \in before(d)
      BY <2>1, <3>1
    <3> QED BY <3>2, <3>3
  <2>3. ASSUME NEW d \in D \ {first} PROVE from(d) \in D /\ from(d) < d
    <3>1. before(d) # {} /\ before(d) \in SUBSET D
      BY <2>2
    <3> HIDE DEF before
    <3>2. IsFiniteSet(before(d)) /\ before(d) \in SUBSET Nat
      BY <1>5, <3>1, FS_Subset
    <3>3. Max(before(d)) \in before(d)
      BY <3>1, <3>2, LatestIs
    <3> QED BY <3>1, <3>3 DEF before
  <2>4. prev \in [D \ {first} -> D] /\ \A d \in D \ {first} : prev[d] < d
    BY <2>3
  <2>5. ASSUME NEW d \in D, NEW b, BookKept(panel, b, d, n)
        PROVE  BookKept(panel, after(d, b), d, n)
    <3>1. CASE PassedOver(d)
      BY <2>5, <3>1
    <3>2. CASE ~ PassedOver(d)
      <4> DEFINE next == {e \in dates : e > d}
      <4>1. d \in dates /\ d # Max(dates) /\ dates # {}
        BY <1>4, <3>2
      <4>2. Max(dates) \in dates /\ d <= Max(dates)
        BY <1>3, <4>1, LatestIs
      <4>3. next # {} /\ next \in SUBSET Nat
        <5>1. PICK m \in dates : m = Max(dates)
          BY <4>2
        <5>2. m \in Nat /\ d \in Nat /\ d <= m /\ d # m
          BY <1>3, <4>1, <4>2, <5>1
        <5>3. m \in next
          BY <5>2
        <5> QED BY <1>3, <5>3
      <4>4. PICK date : date = Min(next) /\ date \in next
        BY <4>3, MinIs
      <4>5. date \in Nat /\ date > d /\ d \in Nat
        BY <1>3, <4>1, <4>4
      <4>6. PICK T : T = top(d) /\ T \in SUBSET Ranked(panel, d)
        BY DEF TopRanked
      <4>7. after(d, b) = Rebalanced(panel, d, from(d), date, T, b)
        BY <3>2, <4>4, <4>6
      <4>8. PICK p : p = from(d)
        OBVIOUS
      <4> HIDE DEF PassedOver, top, from, after, next
      <4>9. BookKept(panel, WithStops(panel, p, d, b), d, n)
        BY <1>2, <2>5, <4>5, StopsKeep
      <4>10. BookKept(panel, WithExits(panel, d, T, WithStops(panel, p, d, b)), d, n)
        BY <1>2, <4>5, <4>9, ExitsKeep
      <4>11. BookKept(panel, WithEntries(panel, d, date, T,
                                 WithExits(panel, d, T, WithStops(panel, p, d, b))), d, n)
        BY <1>2, <4>5, <4>6, <4>10, EntriesKeep
      <4> QED BY <4>7, <4>8, <4>11 DEF Rebalanced
    <3> QED BY <3>1, <3>2
  <2> HIDE DEF first, prev, after
  \* That there is such a recursion.
  <2> DEFINE V == Books(panel)
             of == [p \in D \X V |-> after(p[1], p[2])]
             step == [p \in D \X V |-> IF BookKept(panel, p[2], p[1], n) THEN of[p] ELSE p[2]]
  <2>6. ASSUME NEW d \in D, NEW b \in V
        PROVE  of[<<d, b>>] = after(d, b)
    OBVIOUS
  <2>7. \A d \in D, b \in V : BookKept(panel, b, d, n) => BookKept(panel, of[<<d, b>>], d, n)
    BY <2>5, <2>6
  <2>0. PICK F, N : F = of /\ N = n /\ N \in Nat /\ KeepsOn(F, panel, N, D)
    BY <1>2, <2>7 DEF KeepsOn
  <2>8. \A d \in D, b \in V :
            step[<<d, b>>] = IF BookKept(panel, b, d, n) THEN of[<<d, b>>] ELSE b
    OBVIOUS
  <2>9. \A d \in D, b \in V : step[<<d, b>>] \in V
    BY <2>7, <2>8 DEF BookKept
  <2>10. step \in [D \X V -> V]
    <3>1. \A p \in D \X V : \E d \in D, b \in V : p = <<d, b>>
      OBVIOUS
    <3>2. \A p \in D \X V : step[p] \in V
      BY <2>9, <3>1
    <3> HIDE DEF of, V
    <3> QED BY <3>2
  <2> HIDE DEF of, step
  <2>11. NoBook \in V /\ \A d : BookKept(panel, NoBook, d, n)
    BY <1>2, NothingHeld DEF BookKept
  <2>12. ASSUME NEW f, Follows(f, F, panel, N, D, first, prev)
         PROVE  \A d \in D : BookKept(panel, f[d], d, N)
    <3>1. PICK a, p : /\ a = first /\ p = prev /\ a \in D /\ p \in [D \ {a} -> D]
                      /\ \A d \in D \ {a} : p[d] < d
      BY <2>1, <2>4
    <3>2. Follows(f, F, panel, N, D, a, p)
      BY <2>12, <3>1
    <3> QED BY <1>5, <2>0, <3>1, <3>2, KeptThroughout
  <2>13. ASSUME NEW f, NEW d \in D
         PROVE  given(d, f) = Given(f, first, prev, d)
    BY <2>2 DEF prev, Given
  <2> HIDE DEF given
  <2>14. PICK g \in [D -> V] : Solution(g, D, {first}, prev, step[<<first, NoBook>>], step)
    <3>1. Descends(D, {first}, [d \in D |-> d], prev)
      <4>1. [d \in D |-> d] \in [D -> Nat]
        BY <1>5
      <4>2. \A d \in D \ {first} : [e \in D |-> e][prev[d]] < [e \in D |-> e][d]
        BY <2>4
      <4> QED BY <2>4, <4>1, <4>2 DEF Descends
    <3>2. step[<<first, NoBook>>] \in V
      BY <2>1, <2>9, <2>11
    <3> HIDE DEF V
    <3> QED BY <2>10, <3>1, <3>2, Recursion
  <2>15. ASSUME NEW d \in D
         PROVE  /\ given(d, g) \in V /\ g[d] = step[<<d, given(d, g)>>]
    <3>1. CASE d = first
      BY <2>11, <2>13, <2>14, <3>1 DEF Solution, Given
    <3>2. CASE d # first
      <4>1. prev[d] \in D /\ g[prev[d]] \in V
        BY <2>4, <2>14, <3>2
      <4> QED BY <2>13, <2>14, <3>2, <4>1 DEF Solution, Given
    <3> QED BY <3>1, <3>2
  <2> HIDE DEF V
  <2>16. \A d \in D : BookKept(panel, given(d, g), d, n) => g[d] = of[<<d, given(d, g)>>]
    BY <2>8, <2>15
  <2>17. Follows(g, F, panel, N, D, first, prev)
    BY <2>0, <2>13, <2>16 DEF Follows
  <2>18. ASSUME NEW d \in D
         PROVE  g[d] = after(d, given(d, g))
    <3>1. PICK b : b = given(d, g) /\ b = Given(g, first, prev, d)
      BY <2>13
    <3>2. BookKept(panel, b, d, n)
      <4>1. CASE d = first
        BY <2>11, <3>1, <4>1 DEF Given
      <4>2. CASE d # first
        <5>1. PICK e \in D : e = prev[d] /\ e < d
          BY <2>4, <4>2
        <5>2. e \in Nat /\ d \in Nat /\ e <= d
          BY <1>5, <5>1
        <5>3. BookKept(panel, g[e], e, n)
          BY <2>0, <2>12, <2>17
        <5>4. BookKept(panel, g[e], d, n)
          BY <5>2, <5>3, StillKept
        <5> QED BY <3>1, <4>2, <5>1, <5>4 DEF Given
      <4> QED BY <4>1, <4>2
    <3>3. b \in V
      BY <2>15, <3>1
    <3> QED BY <2>6, <2>16, <3>1, <3>2, <3>3
  <2>19. h = [d \in D |-> after(d, given(d, h))]
    <3>1. g = [d \in D |-> after(d, given(d, g))]
      BY <2>14, <2>18
    <3> QED BY <3>1
  <2> HIDE DEF h
  <2>20. \A d \in D : BookKept(panel, h[d], d, n)
    <3>1. ASSUME NEW d \in D, BookKept(panel, Given(h, first, prev, d), d, N)
          PROVE  h[d] = F[<<d, Given(h, first, prev, d)>>]
      <4>1. PICK b : b = given(d, h) /\ b = Given(h, first, prev, d)
        BY <2>13
      <4>2. h[d] = after(d, b)
        BY <2>19, <4>1
      <4>3. b \in V
        BY <3>1, <4>1 DEF BookKept, V
      <4> QED BY <2>0, <2>6, <4>1, <4>2, <4>3
    <3>2. Follows(h, F, panel, N, D, first, prev)
      BY <3>1 DEF Follows
    <3> QED BY <2>0, <2>12, <3>2
  <2>21. Max(D) \in D
    BY <1>5, <1>7, LatestIs
  <2>22. SlotsKept(Liquidated(panel, Max(D), h[Max(D)]), n)
    BY <1>2, <2>20, <2>21, LiquidatedKeeps
  <2>23. Cardinality(D) < 2 => SlotsKept({}, n)
    <3>1. \A e : OpenAt({}, e) = {}
      BY DEF OpenAt
    <3>2. Cardinality({}) <= n
      BY <1>2, FS_EmptySet
    <3> QED BY <3>1, <3>2 DEF SlotsKept
  <2> QED BY <1>1, <2>22, <2>23
<1> QED BY <1>6, <1>7

----------------------------------------------------------------------------
(* The growth of the course *)

CourseInv ==
    /\ course \in Seq(DayBar) /\ Dated(course)
    /\ course = <<>> => orders = [s \in Strategies |-> {}]
    /\ course # <<>> => orders = [s \in Strategies |-> GenerateOrders(s, course, DataStart)]

LEMMA CourseGrows ==
    ASSUME course \in Seq(DayBar), Dated(course), NEW b \in Shapes, NextDay(b)
    PROVE  course' \in Seq(DayBar) /\ Dated(course')
<1> DEFINE day == NextBarDay(b.gap)
           bar == DailyBar(day, b)
<1>1. course' = Append(course, bar)
  BY DEF NextDay
<1>2. b.gap \in Nat \ {0} /\ DataStart \in Nat
  BY SignalsAssumption
<1>3. PICK n \in Nat : n = Len(course) /\ DOMAIN course = 1..n
  OBVIOUS
<1>4. day \in Nat /\ (n # 0 => day > course[n].day)
  <2>1. CASE n = 0
    <3>1. course = <<>>
      BY <1>3, <2>1
    <3> QED BY <1>2, <2>1, <3>1 DEF NextBarDay
  <2>2. CASE n # 0
    <3>1. course # <<>> /\ course[n] \in DayBar
      BY <1>3, <2>2
    <3>2. day = course[n].day + b.gap
      BY <1>3, <3>1 DEF NextBarDay
    <3>3. course[n].day \in Nat
      BY <3>1 DEF DayBar
    <3> QED BY <1>2, <3>2, <3>3
  <2> QED BY <2>1, <2>2
<1> HIDE DEF day
<1>5. bar \in DayBar /\ bar.day = day
  BY <1>4, SignalsAssumption DEF DailyBar, DayBar
<1> HIDE DEF bar
<1>6. course' \in Seq(DayBar) /\ DOMAIN course' = 1..(n + 1) /\ course'[n + 1] = bar
      /\ \A i \in 1..n : course'[i] = course[i] /\ course[i] \in DayBar
  BY <1>1, <1>3, <1>5
<1>7. \A i \in 1..n : course[i].day < day
  <2> SUFFICES ASSUME NEW i \in 1..n PROVE course[i].day < day
    OBVIOUS
  <2>0. n \in 1..n /\ n # 0
    OBVIOUS
  <2>1. course[i].day \in Nat /\ course[n].day \in Nat /\ n \in 1..n /\ n # 0
    BY <1>6, <2>0 DEF DayBar
  <2>2. i = n \/ i < n
    OBVIOUS
  <2>3. i < n => course[i].day < course[n].day
    BY <1>3, <2>1 DEF Dated
  <2> QED BY <1>4, <2>1, <2>2, <2>3
<1>8. Dated(course')
  <2> SUFFICES ASSUME NEW i \in 1..(n + 1), NEW w \in 1..(n + 1), i < w
               PROVE  course'[i].day < course'[w].day
    BY <1>6 DEF Dated
  <2>1. i \in 1..n /\ (w \in 1..n \/ w = n + 1)
    OBVIOUS
  <2>2. CASE w \in 1..n
    BY <1>3, <1>6, <2>1, <2>2 DEF Dated
  <2>3. CASE w = n + 1
    BY <1>5, <1>6, <1>7, <2>1, <2>3
  <2> QED BY <2>1, <2>2, <2>3
<1> QED BY <1>6, <1>8

LEMMA CourseStays == CourseInv /\ [SignalsNext]_signals_vars => CourseInv'
<1> SUFFICES ASSUME CourseInv, [SignalsNext]_signals_vars PROVE CourseInv'
  OBVIOUS
<1>1. ASSUME NEW b \in Shapes, NextDay(b) PROVE CourseInv'
  <2>1. course' \in Seq(DayBar) /\ Dated(course')
    BY <1>1, CourseGrows DEF CourseInv
  <2>2. orders' = [s \in Strategies' |-> GenerateOrders(s, course', DataStart)]
    BY <1>1 DEF NextDay, Strategies
  <2>3. course' # <<>>
    <3> DEFINE bar == DailyBar(NextBarDay(b.gap), b)
    <3>1. course' = Append(course, bar)
      BY <1>1 DEF NextDay
    <3> HIDE DEF bar
    <3>2. Len(Append(course, bar)) = Len(course) + 1 /\ Len(course) \in Nat
      BY DEF CourseInv
    <3>3. Len(<<>>) = 0
      OBVIOUS
    <3> QED BY <3>1, <3>2, <3>3
  <2> QED BY <2>1, <2>2, <2>3 DEF CourseInv
<1>2. CASE UNCHANGED signals_vars
  BY <1>2 DEF CourseInv, signals_vars, Strategies
<1> QED BY <1>1, <1>2 DEF SignalsNext

LEMMA WindowHolds == CourseInv => WindowDoesNotMatter
<1> SUFFICES ASSUME CourseInv, course # <<>>,
                    NEW s \in Strategies \ (OneByOne \cup {"connors_rsi"} \cup FromTheStart),
                    NEW start \in Starts
             PROVE  LET course_of(o) == IF alone THEN course ELSE Panel(course)[o.instrument]
                        in_window(o) ==
                            IF s \in BuyToday THEN o.entry_epoch >= start
                            ELSE \E i \in 1..Last(course_of(o)) :
                                    /\ course_of(o)[i].day >= start
                                    /\ o.entry_epoch = course_of(o)[i + 1].day
                    IN  GenerateOrders(s, course, start) = {o \in orders[s] : in_window(o)}
  BY DEF WindowDoesNotMatter
<1>1. start \in Nat /\ start >= DataStart
  BY SignalsAssumption
<1>2. InOrder(course) /\ \A x \in DOMAIN Panel(course) : InOrder(Panel(course)[x])
  BY CourseInOrder, PanelInOrder DEF CourseInv
<1>3. orders[s] = GenerateOrders(s, course, DataStart)
  BY DEF CourseInv
<1>4. CASE alone
  <2>1. s \in {"overnight_hold", "gap_fill", "ibs_mean_reversion", "bb_mean_reversion",
               "extended_ibs", "squeeze", "darvas_box", "swing_master"}
    BY <1>4 DEF Strategies, Single, OneByOne
  <2>2. CASE s \in BuyToday
    <3>1. s = "overnight_hold" \/ s = "gap_fill"
      BY <2>1, <2>2 DEF BuyToday
    <3>2. GenerateOrders(s, course, start)
            = {o \in GenerateOrders(s, course, DataStart) : o.entry_epoch >= start}
      BY <1>1, <1>2, <3>1, OvernightWindow, GapWindow DEF GenerateOrders
    <3> QED BY <1>3, <2>2, <3>2
  <2>3. CASE s \notin BuyToday
    <3>1. s \in {"ibs_mean_reversion", "bb_mean_reversion", "extended_ibs", "squeeze",
                 "darvas_box", "swing_master"}
      BY <2>1, <2>3 DEF BuyToday
    <3>2. GenerateOrders(s, course, start)
            = {o \in GenerateOrders(s, course, DataStart) : EntersFrom(course, start, o)}
      BY <1>1, <1>2, <3>1, IbsWindow, BbWindow, ExtendedIbsWindow, SqueezeWindow,
         DarvasWindow, SwingWindow DEF GenerateOrders
    <3> QED BY <1>3, <1>4, <2>3, <3>2 DEF EntersFrom
  <2> QED BY <2>2, <2>3
<1>5. CASE ~ alone
  <2> DEFINE panel == Panel(course)
  <2>1. s \in {"momentum_cascade", "breakout_pullback"} /\ s \notin BuyToday
    BY <1>5 DEF Strategies, FromTheStart, BuyToday
  <2>2. GenerateOrders(s, course, start)
          = {o \in GenerateOrders(s, course, DataStart) :
                EntersFrom(panel[o.instrument], start, o)}
    <3>1. CASE s = "momentum_cascade"
      <4>1. \A from : GenerateOrders(s, course, from) = MomentumCascade(panel, from)
        BY <3>1 DEF GenerateOrders
      <4> HIDE DEF panel
      <4> QED BY <1>1, <1>2, <4>1, CascadeWindow DEF panel
    <3>2. CASE s = "breakout_pullback"
      <4>1. EC[s].internal_regime_sma_period = 0
        BY <1>5, <3>2 DEF Strategies, FromTheStart
      <4>2. PICK bulls : bulls = ExternalBull(panel, EC[s])
        OBVIOUS
      <4>3. \A from : Bulls(panel, from, EC[s]) = bulls
        BY <4>1, <4>2 DEF Bulls, BothBulls
      <4>4. \A from : GenerateOrders(s, course, from) = BreakoutPullback(panel, from, bulls)
        BY <3>2, <4>3 DEF GenerateOrders
      <4> QED BY <1>1, <1>2, <4>4, PullbackWindow
    <3> QED BY <2>1, <3>1, <3>2
  <2> QED BY <1>3, <1>5, <2>1, <2>2 DEF EntersFrom
<1> QED BY <1>4, <1>5

\* WindowDoesNotMatter: of the strategies with an order for every signal that count
\* nothing from the start of the window, a backtest that starts later makes the orders
\* of the longer one from its start on: for any bars, scanner and configuration.
THEOREM LaterStartSameOrders == SignalsSpec => []WindowDoesNotMatter
<1>1. SignalsInit => CourseInv
  BY DEF SignalsInit, CourseInv, Dated
<1> QED BY <1>1, CourseStays, WindowHolds, PTL DEF SignalsSpec

\* The panel is one the slots are kept on: in order, and with filings for everyone.
LEMMA PanelReported ==
    ASSUME course \in Seq(DayBar), Dated(course)
    PROVE  Courses(Panel(course)) /\ Reports(Panel(course))
<1> DEFINE T == [epoch : Int, sound : BOOLEAN, pe : Nat, growth : Int]
<1>1. EC.filings \in Seq(Seq(T)) /\ Len(EC.filings) > Len(Companions)
      /\ Len(Companions) \in Nat
  BY SignalsAssumption
<1>2. PICK n \in Nat : DOMAIN Panel(course) = 1..n /\ n <= Len(Companions) + 1
  BY PanelInOrder
<1>3. Courses(Panel(course))
  BY <1>2, PanelInOrder DEF Courses
<1>4. ASSUME NEW x \in DOMAIN Panel(course) PROVE EC.filings[x] \in Seq(T)
  <2> HIDE DEF T
  <2>1. DOMAIN EC.filings = 1..Len(EC.filings) /\ Len(EC.filings) \in Nat
        /\ \A y \in 1..Len(EC.filings) : EC.filings[y] \in Seq(T)
    BY <1>1
  <2>2. x \in 1..n
    BY <1>2, <1>4
  <2>3. x \in 1..Len(EC.filings)
    BY <1>1, <1>2, <2>1, <2>2
  <2> QED BY <2>1, <2>3
<1>5. Reports(Panel(course))
  BY <1>4 DEF Reports
<1> QED BY <1>3, <1>5

\* Orders that keep to their slots at any day keep to them at each entry.
LEMMA SlotsAtEntry ==
    ASSUME NEW os, NEW n, SlotsKept(os, n), NEW o \in os
    PROVE  LET day == o.entry_epoch
               holding == {p \in os : p.entry_epoch <= day /\ day < p.exit_epoch}
           IN  /\ Cardinality(holding) <= n
               /\ \A p, q \in holding : p = q \/ p.instrument # q.instrument
<1>1. o.entry_epoch \in Nat
  BY DEF SlotsKept
<1>2. /\ Cardinality(OpenAt(os, o.entry_epoch)) <= n
      /\ \A p, q \in OpenAt(os, o.entry_epoch) : p = q \/ p.instrument # q.instrument
  BY <1>1 DEF SlotsKept
<1> QED BY <1>2 DEF OpenAt

LEMMA SlotsFollow == CourseInv => SlotsHold
<1> SUFFICES ASSUME CourseInv PROVE SlotsHold
  OBVIOUS
<1>1. ASSUME NEW s \in OneByOne \cap Strategies PROVE OneHeld(orders[s])
  <2>1. CASE course = <<>>
    <3>1. orders[s] = {}
      BY <1>1, <2>1 DEF CourseInv
    <3> QED BY <3>1 DEF OneHeld
  <2>2. CASE course # <<>>
    <3>1. orders[s] = GenerateOrders(s, course, DataStart)
      BY <1>1, <2>2 DEF CourseInv
    <3>2. InOrder(course)
      BY CourseInOrder DEF CourseInv
    <3>3. Last(course) \in Nat
      <4>1. Len(course) \in Nat /\ Len(course) # 0
        <5>1. \A c \in Seq(DayBar) : Len(c) \in Nat /\ (Len(c) = 0 => c = <<>>)
          OBVIOUS
        <5> QED BY <2>2, <5>1 DEF CourseInv
      <4> QED BY <4>1 DEF Last
    <3>4. CASE s = "holp_lohp"
      BY <3>1, <3>2, <3>3, <3>4, HolpLohpHoldsOne DEF GenerateOrders
    <3>5. CASE s = "index_sma_crossover"
      BY <3>1, <3>2, <3>3, <3>5, IndexHoldsOne DEF GenerateOrders
    <3>6. CASE s = "index_dip_buy"
      BY <3>1, <3>2, <3>3, <3>6, IndexHoldsOne DEF GenerateOrders
    <3>7. CASE s = "index_breakout"
      BY <3>1, <3>2, <3>3, <3>7, IndexHoldsOne DEF GenerateOrders
    <3>8. CASE s = "index_green_candle"
      BY <3>1, <3>2, <3>3, <3>8, IndexHoldsOne DEF GenerateOrders
    <3> QED BY <1>1, <3>4, <3>5, <3>6, <3>7, <3>8 DEF OneByOne
  <2> QED BY <2>1, <2>2
<1>2. ASSUME NEW s \in {"momentum_rebalance", "trending_value"} \cap Strategies
      PROVE  SlotsKept(orders[s], IF s = "trending_value" THEN EC[s].top_n_stocks
                                  ELSE EC[s].num_positions)
  <2>1. CASE course = <<>>
    <3>1. orders[s] = {}
      BY <1>2, <2>1 DEF CourseInv
    <3>2. \A e : OpenAt({}, e) = {}
      BY DEF OpenAt
    <3>3. EC.momentum_rebalance.num_positions \in Nat /\ EC.trending_value.top_n_stocks \in Nat
      BY SignalsAssumption
    <3>4. Cardinality({}) = 0
      BY FS_EmptySet
    <3> QED BY <1>2, <3>1, <3>2, <3>3, <3>4 DEF SlotsKept
  <2>2. CASE course # <<>>
    <3>1. orders[s] = GenerateOrders(s, course, DataStart)
      BY <1>2, <2>2 DEF CourseInv
    <3>2. Courses(Panel(course)) /\ Reports(Panel(course))
      BY PanelReported DEF CourseInv
    <3>3. CASE s = "momentum_rebalance"
      BY <3>1, <3>2, <3>3, RebalanceSlots DEF GenerateOrders
    <3>4. CASE s = "trending_value"
      BY <3>1, <3>2, <3>4, TrendingSlots DEF GenerateOrders
    <3> QED BY <1>2, <3>3, <3>4
  <2> QED BY <2>1, <2>2
<1>3. \A s \in OneByOne \cap Strategies : \A o, p \in orders[s] :
          o = p \/ o.exit_epoch < p.entry_epoch \/ p.exit_epoch < o.entry_epoch
  BY <1>1 DEF OneHeld
<1>4. ASSUME NEW s \in {"momentum_rebalance", "trending_value"} \cap Strategies, NEW o \in orders[s]
      PROVE  LET day == o.entry_epoch
                 holding == {p \in orders[s] : p.entry_epoch <= day /\ day < p.exit_epoch}
                 slots == IF s = "trending_value" THEN EC[s].top_n_stocks ELSE EC[s].num_positions
             IN  /\ Cardinality(holding) <= slots
                 /\ \A p, q \in holding : p = q \/ p.instrument # q.instrument
  BY <1>2, <1>4, SlotsAtEntry
<1> QED BY <1>3, <1>4 DEF SlotsHold

\* The strategies that keep a fixed number of slots keep to it, whatever the
\* course and the companions: those whose loop resumes after an exit
\* (holp_lohp and the index strategies) never have two orders that overlap,
\* and momentum_rebalance and trending_value never hold more instruments at
\* an entry than their slots, nor one instrument twice.
THEOREM SlotsAreKept == SignalsSpec => []SlotsHold
<1>1. SignalsInit => CourseInv
  BY DEF SignalsInit, CourseInv, Dated
<1> QED BY <1>1, CourseStays, SlotsFollow, PTL DEF SignalsSpec
==============================================================================
