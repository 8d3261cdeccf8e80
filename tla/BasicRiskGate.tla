--------------------------- MODULE BasicRiskGate ----------------------------
(***************************************************************************)
(* risk/basic/basic_risk_gate.hpp: sizes an intent into an order against   *)
(* the current position and an exposure cap, and once per tick compares    *)
(* equity with its peak; the first breach of the drawdown limit trips the  *)
(* gate for good and flattens the tracked instruments.                     *)
(***************************************************************************)
EXTENDS Portfolio, FiniteSets

CONSTANTS MaxPositionQty,  \* max_position_qty
          MaxDrawdown,     \* max_drawdown, in money units
          Tracked          \* config_.tracked, in order

ASSUME GateAssumption == /\ MaxPositionQty \in Nat /\ MaxDrawdown \in Int
                         /\ Tracked \in Seq(Legs)

VARIABLES next_id, tripped, peak_equity

gateVars == <<next_id, tripped, peak_equity>>

Orders == [id : Nat, leg : Legs, side : Sides, qty : Nat]

GateInit == next_id = 1 /\ tripped = FALSE /\ peak_equity = 0

Abs(n) == IF n >= 0 THEN n ELSE -n
Clamp(n, lo, hi) == IF n < lo THEN lo ELSE IF n > hi THEN hi ELSE n

\* Mutant: the cap is applied to the change instead of to the target.
Sized_CapOnDelta(intent) ==
    LET delta == Clamp(intent.target - positions[intent.leg], -MaxPositionQty, MaxPositionQty)
    IN  [id |-> next_id, leg |-> intent.leg,
         side |-> IF delta >= 0 THEN "Buy" ELSE "Sell", qty |-> Abs(delta)]

\* The order check() builds for an intent it does not reject.
Sized(intent) ==
    LET delta == Clamp(intent.target, -MaxPositionQty, MaxPositionQty) - positions[intent.leg]
    IN  [id |-> next_id, leg |-> intent.leg,
         side |-> IF delta >= 0 THEN "Buy" ELSE "Sell", qty |-> Abs(delta)]

\* check(): a tripped gate rejects, any other sizes the intent and spends an id.
CheckRejects == tripped
CheckApproves == ~tripped /\ next_id' = next_id + 1

\* Where in the config the tracked instruments that hold a position stand.
Held == {i \in DOMAIN Tracked : positions[Tracked[i]] # 0}

\* The order that flattens the i-th; the ids follow the order of the config.
FlattenOrder(i) == [id |-> next_id + Cardinality({j \in Held : j < i}), leg |-> Tracked[i],
                    side |-> IF positions[Tracked[i]] > 0 THEN "Sell" ELSE "Buy",
                    qty |-> Abs(positions[Tracked[i]])]

Peak == MaxInt(peak_equity, Equity)
Breached == ~tripped /\ Peak - Equity >= MaxDrawdown

\* Mutant: the gate is re-armed by the next tick.
OnTick_Rearms == /\ peak_equity' = Peak
                 /\ tripped' = (Peak - Equity >= MaxDrawdown)
                 /\ next_id' = IF Breached THEN next_id + Cardinality(Held) ELSE next_id

\* on_tick(): raise the peak, then trip or do nothing more.
OnTick == /\ peak_equity' = Peak
          /\ tripped' = (tripped \/ Breached)
          /\ next_id' = IF Breached THEN next_id + Cardinality(Held) ELSE next_id

\* The orders on_tick() returns, by increasing id.
TickOrders == IF Breached THEN {FlattenOrder(i) : i \in Held} ELSE {}

GateTypeOK == next_id \in Nat \ {0} /\ tripped \in BOOLEAN /\ peak_equity \in Nat
=============================================================================
