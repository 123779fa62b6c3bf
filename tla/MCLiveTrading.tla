--------------------------- MODULE MCLiveTrading ----------------------------
(***************************************************************************)
(* Two symbols: X rises, falls by less and by more than the stops and the  *)
(* drop, and has days without a bar; Y always trades at one price.  Scores *)
(* below, between and above the thresholds of the regime.                  *)
(***************************************************************************)
EXTENDS LiveTrading, TLC

X == "X"
Y == "Y"

Day(score, x) == [gap |-> 1, score |-> score, close |-> X :> x @@ Y :> 10]

MCBars == {Day(50, 12), Day(40, 10), Day(30, 8),
           [gap |-> 2, score |-> 40, close |-> Y :> 10]}
MCRankings == {<<>>, <<X, Y>>}

MCOpening == {[first |-> Day(30, 10), cash |-> 15, held |-> X :> [qty |-> 2, avg_price |-> 10]]}

MCEC == [entry_threshold |-> 45, exit_threshold |-> 35, force_exit_on_regime_flip |-> TRUE]
MCXC == [trailing_stop_pct |-> 18, min_hold_time_days |-> 1,
         tsl_tighten_after_pct |-> 15, tsl_tight_pct |-> 15]
MCSC == [max_positions |-> 2, multiplier |-> 2, min_order_value |-> 8,
         cap |-> X :> 30 @@ Y :> 20]
=============================================================================
