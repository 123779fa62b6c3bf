------------------------------ MODULE ExitWalk ------------------------------
(***************************************************************************)
(* generate_exit_attributes_for_instrument (engine/order_generator.py)     *)
(* with the exit rules of engine/exits.py: walk every entry of one         *)
(* instrument forward through its bars until each exit config has fired,   *)
(* and merge the exits of one day into one order row.  Instruments are     *)
(* independent: each is walked by a worker process of its own, on copies.  *)
(*                                                                         *)
(* Percentages are compared by cross-multiplication; the prices of rows    *)
(* are in tenths, so that 80% of a price is exact.                         *)
(***************************************************************************)
EXTENDS Integers, Sequences, FiniteSets

CONSTANTS
    Bars,           \* bars of an instrument: sequences of [epoch, open, close];
                    \* a close of 0 is missing, an open of 0 is not positive
    Entries,        \* epochs the instrument is entered at
    ExitConfigs,    \* get_exit_config_iterator(context), in its order
    DropThreshold,  \* drop_threshold
    Disabled        \* the tsl_tighten_after_pct that switches tightening off

\* Epochs are days.  The last bar of an instrument gives the one before its
\* next_open and is dropped.
ASSUME WalkAssumption ==
    /\ \A b \in Bars :
        /\ b \in Seq([epoch : Nat, open : Nat, close : Nat]) /\ Len(b) >= 2
        /\ \A i, j \in DOMAIN b : i < j => b[i].epoch < b[j].epoch
    /\ Entries \subseteq Nat
    /\ ExitConfigs \in Seq([trailing_stop_pct : Nat, min_hold_time_days : Nat,
                            tsl_tighten_after_pct : Nat, tsl_tight_pct : Nat])
    /\ ExitConfigs # <<>> /\ DropThreshold \in Nat /\ Disabled \in Nat

VARIABLES
    pc,          \* at an entry, at a bar, at a config, or done
    bars,
    idx,         \* the bar of the entry
    j,           \* the bar the walk has come to
    k,           \* the exit config at that bar
    last_close, max_price,
    tracker,     \* ExitTracker: the configs that have fired
    rows         \* instrument_order_config: <<entry_epoch, exit_epoch>> -> row

vars == <<pc, bars, idx, j, k, last_close, max_price, tracker, rows>>
walk == <<bars, idx, j>>

ConfigIds == DOMAIN ExitConfigs
LastBar == Len(bars) - 1
entry_epoch == bars[idx].epoch
this_epoch == bars[j].epoch
close_price == bars[j].close
next_open == bars[j + 1].open
exit_config == ExitConfigs[k]

Init ==
    /\ pc = "entry" /\ bars \in Bars /\ idx = 1 /\ j = 1 /\ k = 1
    /\ last_close = 0 /\ max_price = 0 /\ tracker = {}
    /\ rows = [key \in {} |-> 0]

----------------------------------------------------------------------------
(* engine/exits.py *)

\* Mutant: a gap of either sign, as before P0 #8.
IsAnomalousDrop_Unsigned ==
    /\ last_close > 0
    /\ \/ (close_price - last_close) * 100 < -(DropThreshold * last_close)
       \/ (close_price - last_close) * 100 > DropThreshold * last_close
IsAnomalousDrop ==
    /\ last_close > 0
    /\ (close_price - last_close) * 100 < -(DropThreshold * last_close)

below_min_hold == this_epoch - entry_epoch < exit_config.min_hold_time_days

\* tsl_tight_pct once the best close is far enough above the entry price.
effective_tsl ==
    IF /\ bars[idx].open > 0 /\ exit_config.tsl_tighten_after_pct < Disabled
       /\ (max_price - bars[idx].open) * 100
              > exit_config.tsl_tighten_after_pct * bars[idx].open
       /\ exit_config.tsl_tight_pct > 0
    THEN exit_config.tsl_tight_pct ELSE exit_config.trailing_stop_pct

IsStopped ==
    /\ exit_config.trailing_stop_pct > 0 /\ max_price > 0
    /\ (max_price - close_price) * 100 > effective_tsl * max_price

Decision(reason, price, epoch) ==
    [reason |-> reason, exit_price |-> price, exit_epoch |-> epoch]

DropDecision == Decision("anomalous_drop", 8 * last_close, this_epoch)
EndDecision == Decision("end_of_data", 10 * close_price, this_epoch)

StopDecision ==
    IF next_open > 0 THEN Decision("trailing_stop", 10 * next_open, bars[j + 1].epoch)
                     ELSE Decision("trailing_stop", 10 * close_price, this_epoch)

\* _record_exit: the first decision of a day keeps its price and its reason.
Merged(decision) ==
    LET key == <<entry_epoch, decision.exit_epoch>>
    IN  IF key \in DOMAIN rows
        THEN [rows EXCEPT ![key].exit_config_ids = Append(@, k)]
        ELSE [other \in DOMAIN rows \cup {key} |->
                IF other \in DOMAIN rows THEN rows[other]
                ELSE [exit_price |-> decision.exit_price,
                      exit_reason |-> decision.reason, exit_config_ids |-> <<k>>]]

----------------------------------------------------------------------------
(* The three loops *)

NextEntry ==
    /\ pc' = IF idx < LastBar THEN "entry" ELSE "done"
    /\ idx' = IF idx < LastBar THEN idx + 1 ELSE idx

SkipEntry ==
    /\ pc = "entry"
    /\ entry_epoch \notin Entries \/ bars[idx].close = 0
    /\ NextEntry
    /\ UNCHANGED <<bars, j, k, last_close, max_price, tracker, rows>>

StartEntry ==
    /\ pc = "entry" /\ entry_epoch \in Entries /\ bars[idx].close > 0
    /\ last_close' = bars[idx].close /\ max_price' = bars[idx].close
    /\ tracker' = {} /\ j' = idx /\ pc' = "bar"
    /\ UNCHANGED <<bars, idx, k, rows>>

NextBar ==
    IF j < LastBar THEN j' = j + 1 /\ pc' = "bar" /\ UNCHANGED idx
                   ELSE UNCHANGED j /\ NextEntry

HasClose == close_price > 0

AfterSkip == NextBar

SkipBar ==
    /\ pc = "bar" /\ ~HasClose
    /\ AfterSkip
    /\ UNCHANGED <<bars, k, last_close, max_price, tracker, rows>>

Peak == IF close_price > max_price THEN close_price ELSE max_price

BeginBar ==
    /\ pc = "bar" /\ HasClose
    /\ max_price' = Peak
    /\ k' = 1 /\ pc' = "config"
    /\ UNCHANGED <<walk, last_close, tracker, rows>>

AtConfig == pc = "config" /\ k <= Len(ExitConfigs)
Undecided == AtConfig /\ k \notin tracker

\* Mutant: a decision that is not recorded in the tracker, as before P0 #9.
Recorded_Not == tracker
Recorded == tracker \cup {k}

Fire(decision) ==
    /\ rows' = Merged(decision)
    /\ tracker' = Recorded
    /\ k' = k + 1
    /\ UNCHANGED <<pc, walk, last_close, max_price>>

AnomalousDrop == Undecided /\ IsAnomalousDrop /\ Fire(DropDecision)

AtEnd == j = LastBar

EndOfData == Undecided /\ ~IsAnomalousDrop /\ AtEnd /\ Fire(EndDecision)

TrailingStop ==
    /\ Undecided /\ ~IsAnomalousDrop /\ ~AtEnd
    /\ ~below_min_hold /\ IsStopped
    /\ Fire(StopDecision)

\* The config has fired, holds for its minimum, or sees no reason to exit.
NoDecision ==
    /\ AtConfig
    /\ \/ k \in tracker
       \/ ~IsAnomalousDrop /\ ~AtEnd /\ (below_min_hold \/ ~IsStopped)
    /\ k' = k + 1
    /\ UNCHANGED <<pc, walk, last_close, max_price, tracker, rows>>

all_fired == Cardinality(tracker) >= Len(ExitConfigs)

EndBar ==
    /\ pc = "config" /\ k > Len(ExitConfigs)
    /\ last_close' = close_price
    /\ IF all_fired THEN UNCHANGED j /\ NextEntry ELSE NextBar
    /\ UNCHANGED <<bars, k, max_price, tracker, rows>>

Next ==
    \/ SkipEntry \/ StartEntry \/ SkipBar \/ BeginBar
    \/ AnomalousDrop \/ EndOfData \/ TrailingStop \/ NoDecision \/ EndBar

\* A sequential function.
Spec == Init /\ [][Next]_vars /\ WF_vars(Next)

----------------------------------------------------------------------------
(* The reference: what an exit config does to an entry, without loops *)

Epochs == {bars[i].epoch : i \in DOMAIN bars}
Priced == {i \in 1..LastBar : bars[i].close > 0}
Highest(S) == CHOOSE p \in S : \A q \in S : q <= p
Earliest(S) == CHOOSE i \in S : \A other \in S : i <= other
Latest(S) == CHOOSE i \in S : \A other \in S : other <= i

\* The closes an entry at bar e has seen by bar i.
ClosesTo(e, i) == {bars[b].close : b \in {b \in Priced : e <= b /\ b <= i}}
CloseBefore(e, i) ==
    IF i = e THEN bars[e].close
    ELSE bars[Latest({b \in Priced : e <= b /\ b < i})].close

Drops(e, i) ==
    LET before == CloseBefore(e, i)
    IN  (before - bars[i].close) * 100 > DropThreshold * before

Tightened(e, i, config) ==
    /\ bars[e].open > 0 /\ config.tsl_tighten_after_pct < Disabled
    /\ config.tsl_tight_pct > 0
    /\ (Highest(ClosesTo(e, i)) - bars[e].open) * 100
            > config.tsl_tighten_after_pct * bars[e].open

Stops(e, i, config) ==
    LET peak == Highest(ClosesTo(e, i))
        tsl == IF Tightened(e, i, config) THEN config.tsl_tight_pct
               ELSE config.trailing_stop_pct
    IN  /\ config.trailing_stop_pct > 0
        /\ bars[i].epoch - bars[e].epoch >= config.min_hold_time_days
        /\ (peak - bars[i].close) * 100 > tsl * peak

\* The bars at which an entry at bar e would be sold.
ExitBars(e, config) ==
    {i \in Priced : i >= e /\ (Drops(e, i) \/ i = LastBar \/ Stops(e, i, config))}

ExitOf(e, config) ==
    LET i == Earliest(ExitBars(e, config))
    IN  IF Drops(e, i)
        THEN Decision("anomalous_drop", 8 * CloseBefore(e, i), bars[i].epoch)
        ELSE IF i < LastBar /\ bars[i + 1].open > 0
        THEN Decision("trailing_stop", 10 * bars[i + 1].open, bars[i + 1].epoch)
        ELSE Decision(IF i = LastBar THEN "end_of_data" ELSE "trailing_stop",
                      10 * bars[i].close, bars[i].epoch)

----------------------------------------------------------------------------

Row == [exit_price : Nat, exit_config_ids : Seq(ConfigIds),
        exit_reason : {"anomalous_drop", "end_of_data", "trailing_stop"}]

TypeOK ==
    /\ pc \in {"entry", "bar", "config", "done"}
    /\ bars \in Seq([epoch : Nat, open : Nat, close : Nat])
    /\ idx \in 1..LastBar /\ j \in 1..LastBar /\ k \in 1..(Len(ExitConfigs) + 1)
    /\ last_close \in Nat /\ max_price \in Nat
    /\ tracker \subseteq ConfigIds
    /\ DOMAIN rows \subseteq Epochs \X Epochs
    /\ \A key \in DOMAIN rows : rows[key] \in Row

\* The bars whose walk is over.
Finished == {e \in Priced : /\ bars[e].epoch \in Entries
                            /\ e < idx \/ pc = "done"}

\* Where a config is in the rows of an entry: the row and the place in it.
Placed(key, c) == {n \in DOMAIN rows[key].exit_config_ids : rows[key].exit_config_ids[n] = c}

Fired(e, c) == UNION {{key} \X Placed(key, c) :
                        key \in {key \in DOMAIN rows : key[1] = bars[e].epoch}}

\* "Each exit_config fires at most once per entry" (ExitTracker), whatever
\* rules it meets on later bars; and every one has fired when the walk of the
\* entry is over, if the last close is known: no entry is left without a row.
EachConfigExitsOnce ==
    /\ \A e \in 1..LastBar, c \in ConfigIds : Cardinality(Fired(e, c)) <= 1
    /\ bars[LastBar].close > 0 =>
            \A e \in Finished, c \in ConfigIds : Fired(e, c) # {}

\* The walk finds, for every entry and config, the first bar the rules name,
\* and books the exit on the day and at the price they give.
ExitsAreTheFirst ==
    \A e \in Finished, c \in ConfigIds :
        \A fired \in Fired(e, c) :
            /\ ExitBars(e, ExitConfigs[c]) # {}
            /\ LET exit == ExitOf(e, ExitConfigs[c])
                   row == rows[fired[1]]
               IN  /\ fired[1][2] = exit.exit_epoch
                   /\ fired[2] = 1 => /\ row.exit_price = exit.exit_price
                                      /\ row.exit_reason = exit.reason

=============================================================================
