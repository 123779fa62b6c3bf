----------------------------- MODULE MCExitWalk -----------------------------
(***************************************************************************)
(* Small walks for TLC: four bars and the one that is dropped, a gap of a  *)
(* day among them, entries on the first two bars, on the last one and on   *)
(* a day without a bar.                                                    *)
(***************************************************************************)
EXTENDS ExitWalk

Days == <<1, 2, 4, 5, 6>>
SomeEntries == {1, 2, 3, 5}

\* 80 is a drop from 110 and not from 100, and 70 is one from both.
Closes == {0, 70, 80, 100, 110}
Opens == {0, 90}

SomeBars ==
    {[i \in 1..5 |-> [epoch |-> Days[i],
                      open |-> IF i \in 2..4 THEN opens[i] ELSE 95,
                      close |-> IF i < 5 THEN closes[i] ELSE 100]] :
        opens \in [2..4 -> Opens], closes \in [1..4 -> Closes]}

Config(tsl, hold, after, tight) ==
    [trailing_stop_pct |-> tsl, min_hold_time_days |-> hold,
     tsl_tighten_after_pct |-> after, tsl_tight_pct |-> tight]

\* A plain stop that waits, a tight one, and one that is tightened.
SomeConfigs == <<Config(15, 3, 999, 0), Config(5, 0, 999, 0), Config(28, 0, 5, 8)>>
=============================================================================
