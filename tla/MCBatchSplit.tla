---------------------------- MODULE MCBatchSplit ----------------------------
(***************************************************************************)
(* Small sweeps for TLC: four parameters, one of them in the simulation    *)
(* section, each with up to three values.                                  *)
(***************************************************************************)
EXTENDS BatchSplit

\* Of SQL_KEYS_V2; max_positions and target_pct are keys of the simulation.
SomeSqlKeys == {"min_volume", "or_window", "dip_pct"}
Sizes == 0..7

Param(section, key, vals) == [section |-> section, key |-> key, vals |-> vals]

Lists == {<<1>>, <<1, 2>>, <<3, 1, 2>>}

ConfigsWith(exitkey, simulationkey) ==
    {<<Param("scanner", "min_volume", a), Param("entry", "or_window", b),
       Param("exit", exitkey, c), Param("simulation", simulationkey, d)>> :
            a \in Lists, b \in Lists, c \in Lists, d \in Lists}

\* count_sql_combos counts an SQL parameter of the simulation section too.
SomeConfigs == ConfigsWith("dip_pct", "max_positions")
                \cup ConfigsWith("target_pct", "dip_pct")
=============================================================================
