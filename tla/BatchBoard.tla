----------------------------- MODULE BatchBoard -----------------------------
(***************************************************************************)
(* What a sweep promises about its batches, without runs, polls or a       *)
(* server: they are taken up in order, at most MaxParallel are in hand,    *)
(* and each one is settled once, as collected or as dropped.               *)
(***************************************************************************)
EXTENDS Integers, FiniteSets

CONSTANTS Total, MaxParallel

VARIABLES waiting, running, collected, dropped

vars == <<waiting, running, collected, dropped>>

Init ==
    /\ waiting = 1..Total
    /\ running = {} /\ collected = {} /\ dropped = {}

IsNext(b) == b \in waiting /\ \A later \in waiting : b <= later

Start(b) ==
    /\ IsNext(b) /\ Cardinality(running) < MaxParallel
    /\ waiting' = waiting \ {b} /\ running' = running \cup {b}
    /\ UNCHANGED <<collected, dropped>>

Skip(b) ==
    /\ IsNext(b)
    /\ waiting' = waiting \ {b} /\ dropped' = dropped \cup {b}
    /\ UNCHANGED <<running, collected>>

Collect(b) ==
    /\ b \in running
    /\ running' = running \ {b} /\ collected' = collected \cup {b}
    /\ UNCHANGED <<waiting, dropped>>

Drop(b) ==
    /\ b \in running
    /\ running' = running \ {b} /\ dropped' = dropped \cup {b}
    /\ UNCHANGED <<waiting, collected>>

Next == \E b \in 1..Total : Start(b) \/ Skip(b) \/ Collect(b) \/ Drop(b)

Spec == Init /\ [][Next]_vars
=============================================================================
