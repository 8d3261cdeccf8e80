---------------------------- MODULE SimExecution ----------------------------
(***************************************************************************)
(* execution/sim/sim_execution.hpp with either of its matchers: an order   *)
(* fills at once and whole, or is rejected.  The last trade matcher fills  *)
(* at the leg's last price and rejects while there is none; the cost aware *)
(* one adds what the cost table says for the week, and rejects where it    *)
(* has no row.  Outcomes accumulate until the next market event clears     *)
(* them.                                                                   *)
(***************************************************************************)
EXTENDS CostModel

CONSTANTS CostFiles   \* the csv files to look at, each a set of lines

ASSUME CostFilesAssumption == \A f \in CostFiles : f \subseteq CostLines

VARIABLES matcher,               \* "last_trade" or "cost_aware"
          costs,                 \* the cost aware matcher's table
          last_price, fills, rejects

execVars == <<matcher, costs, last_price, fills, rejects>>

\* No matcher is built from a file with a malformed line.
ExecInit == /\ \/ matcher = "last_trade" /\ costs = {}
               \/ /\ matcher = "cost_aware"
                  /\ \E f \in CostFiles : (\A line \in f : ~Malformed(line)) /\ costs = RowsOf(f)
            /\ last_price = Zero /\ fills = << >> /\ rejects = << >>

\* The matchers' on_market_event: a trade's price or a kline's close.
LastPriceAfter(ev) == IF ev.kind = "price" THEN [last_price EXCEPT ![ev.leg] = ev.value]
                      ELSE last_price

\* SimExecution::on_market_event: reset_outcomes, then the matcher's update.
ExecOnMarketEvent(ev) ==
    /\ fills' = << >>
    /\ rejects' = << >>
    /\ last_price' = LastPriceAfter(ev)
    /\ UNCHANGED <<matcher, costs>>

\* LastTradeMatcher::try_fill, the filling branch.
FillOf(o) == [id |-> o.id, leg |-> o.leg, side |-> o.side, qty |-> o.qty,
              price |-> last_price[o.leg] * Scale, fee |-> last_price[o.leg] * o.qty * FeeRate]

\* try_fill of the matcher in use: the fills it may answer, none for a Reject.
\* A last price of 0 stands for no price yet.
TryFill(o, ts) ==
    IF last_price[o.leg] = 0 THEN {}
    ELSE IF matcher = "last_trade" THEN {FillOf(o)}
    ELSE {CostedFill(o, r, last_price[o.leg]) : r \in RowsInForce(costs, o.leg, ts)}

Submit(o, ts) ==
    /\ \/ \E f \in TryFill(o, ts) : fills' = Append(fills, f) /\ UNCHANGED rejects
       \/ TryFill(o, ts) = {} /\ rejects' = Append(rejects, o.id) /\ UNCHANGED fills
    /\ UNCHANGED <<matcher, costs, last_price>>

\* An order for the leg would not be rejected.
Tradable(l, ts) == /\ last_price[l] # 0
                   /\ matcher = "cost_aware" => RowsInForce(costs, l, ts) # {}

ExecTypeOK == /\ matcher \in {"last_trade", "cost_aware"} /\ costs \subseteq CostLines
              /\ last_price \in [Legs -> Nat]
              /\ fills \in Seq(Fills)
              /\ rejects \in Seq(Nat)
=============================================================================
