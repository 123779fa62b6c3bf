----------------------------- MODULE BatchSplit -----------------------------
(***************************************************************************)
(* split_config_into_batches of scripts/cloud_sweep.py: cut a sweep's      *)
(* config into batches of at most batch_size SQL combinations, by giving   *)
(* each batch one value of the parameter that has most.  The recursion is  *)
(* written with the stack of the calls still to be made.                   *)
(*                                                                         *)
(* A config is the sequence of its parameters, in the order of the file,   *)
(* each with the list of its values.                                       *)
(***************************************************************************)
EXTENDS Integers, Sequences, SequencesExt

CONSTANTS
    SqlKeys,      \* _get_sql_keys(raw_config)
    RawConfigs,   \* configs to split
    BatchSizes

\* A config names a parameter in one section and a value once in its list, as all
\* configs of the repository do.
Named(config) ==
    /\ config \in Seq(ToSet(config))
    /\ \A i \in DOMAIN config :
          /\ DOMAIN config[i] = {"section", "key", "vals"}
          /\ config[i].vals \in Seq(ToSet(config[i].vals)) /\ IsInjective(config[i].vals)
    /\ \A i, j \in DOMAIN config : config[i].key = config[j].key => i = j

ASSUME SplitAssumption == \A config \in RawConfigs : Named(config)

VARIABLES raw_config, batch_size, calls, batches

split_vars == <<raw_config, batch_size, calls, batches>>

SplitInit ==
    /\ raw_config \in RawConfigs /\ batch_size \in BatchSizes
    /\ calls = <<raw_config>> /\ batches = <<>>

SqlKeysOf(config) == {config[i].key : i \in DOMAIN config} \cap SqlKeys

\* A later section overrides an earlier one.
Values(config, key) ==
    config[Max({i \in DOMAIN config : config[i].key = key})].vals

count_sql_combos(config) ==
    MapThenFoldSet(LAMBDA n, m : n * m, 1, LAMBDA key : Len(Values(config, key)),
                   LAMBDA keys : CHOOSE key \in keys : TRUE, SqlKeysOf(config))

IsSmall(config) == count_sql_combos(config) <= batch_size

\* The simulation section is counted above, but never split.
Splittable(config) ==
    {i \in DOMAIN config : /\ config[i].section # "simulation"
                           /\ config[i].key \in SqlKeys
                           /\ Len(config[i].vals) > 1}

\* sort(reverse=True) is stable: the first of the longest lists.
Widest(config) ==
    Min({i \in Splittable(config) : \A j \in Splittable(config) :
            Len(config[j].vals) <= Len(config[i].vals)})

Only(value) == <<value>>

\* Mutant: the last value gets no batch.
Pieces_ButLast(config) ==
    LET i == Widest(config)
    IN  [n \in 1..(Len(config[i].vals) - 1) |->
            [config EXCEPT ![i].vals = Only(config[i].vals[n])]]
Pieces(config) ==
    LET i == Widest(config)
    IN  [n \in DOMAIN config[i].vals |->
            [config EXCEPT ![i].vals = Only(config[i].vals[n])]]

Keep ==
    /\ calls # <<>>
    /\ IsSmall(Head(calls)) \/ Splittable(Head(calls)) = {}
    /\ batches' = Append(batches, Head(calls)) /\ calls' = Tail(calls)
    /\ UNCHANGED <<raw_config, batch_size>>

Split ==
    /\ calls # <<>>
    /\ ~IsSmall(Head(calls)) /\ Splittable(Head(calls)) # {}
    /\ calls' = Pieces(Head(calls)) \o Tail(calls)
    /\ UNCHANGED <<raw_config, batch_size, batches>>

SplitNext == Keep \/ Split

\* A sequential function.
SplitSpec == SplitInit /\ [][SplitNext]_split_vars /\ WF_split_vars(SplitNext)

----------------------------------------------------------------------------

\* What the pipeline makes of the SQL parameters of a config
\* (engine/intraday_pipeline.py): every choice of a value for every key.
SqlCombos(config) ==
    {combo \in [SqlKeysOf(config) ->
                    UNION {ToSet(config[i].vals) : i \in DOMAIN config}] :
        \A key \in SqlKeysOf(config) : combo[key] \in ToSet(Values(config, key))}

\* Every SQL combination of the sweep is in one batch, and in no two: at any
\* time in one that is made or in one that is still to be split.
EveryComboOnce ==
    \A combo \in SqlCombos(raw_config) :
        Cardinality({i \in DOMAIN calls : combo \in SqlCombos(calls[i])})
      + Cardinality({i \in DOMAIN batches : combo \in SqlCombos(batches[i])}) = 1

=============================================================================
