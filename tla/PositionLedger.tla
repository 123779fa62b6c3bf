--------------------------- MODULE PositionLedger ---------------------------
(***************************************************************************)
(* What the simulator promises about money and positions, without days,    *)
(* sizing or prices: a cash account that is never overdrawn and a set of   *)
(* lots that never outgrows its limits.  A lot is bought with cash that is *)
(* there, and sold whole; a withdrawal takes no more than the cash.        *)
(***************************************************************************)
EXTENDS Integers, FiniteSets

CONSTANTS
    Lots,              \* identities of positions
    InstrumentOf(_)    \* the instrument a lot is in

VARIABLES
    cash,
    held,              \* the open lots
    slots,             \* how many lots may be open
    slotsPerInstrument

vars == <<cash, held, slots, slotsPerInstrument>>

InSame(lot) == {other \in held : InstrumentOf(other) = InstrumentOf(lot)}

Init ==
    /\ cash \in Nat /\ held \subseteq Lots /\ IsFiniteSet(held)
    /\ slots \in Nat /\ slotsPerInstrument \in Nat
    /\ Cardinality(held) <= slots
    /\ \A lot \in held : Cardinality(InSame(lot)) <= slotsPerInstrument

Buy(lot) ==
    /\ lot \notin held
    /\ Cardinality(held) < slots
    /\ Cardinality(InSame(lot)) < slotsPerInstrument
    /\ held' = held \cup {lot}
    /\ 0 <= cash' /\ cash' < cash
    /\ UNCHANGED <<slots, slotsPerInstrument>>

Sell(lot) ==
    /\ lot \in held
    /\ held' = held \ {lot}
    /\ cash' >= cash
    /\ UNCHANGED <<slots, slotsPerInstrument>>

Withdraw ==
    /\ 0 <= cash' /\ cash' <= cash
    /\ UNCHANGED <<held, slots, slotsPerInstrument>>

Next == (\E lot \in Lots : Buy(lot) \/ Sell(lot)) \/ Withdraw

Spec == Init /\ [][Next]_vars
=============================================================================
