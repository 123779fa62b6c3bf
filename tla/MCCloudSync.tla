---------------------------- MODULE MCCloudSync ----------------------------
(***************************************************************************)
(* Small instances of the cloud orchestrator for TLC.                      *)
(***************************************************************************)
EXTENDS CloudSync

\* run_remote.py on an EOD and on an intraday config, and cloud_sweep.py.
ProjectOf == [c \in Clients |-> IF c \in {"sweep", "sweep2"} THEN "sb-orb-sweep"
                                                         ELSE "sb-remote"]
Modes == [c \in Clients |-> CASE c = "eod" -> <<1, 2>> [] OTHER -> <<2>>]
ModeImports == [c \in Clients |-> {Modes[c][i] : i \in DOMAIN Modes[c]}]
TwoVersions == 1..2
ThreeVersions == 1..3
=============================================================================
