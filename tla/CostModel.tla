----------------------------- MODULE CostModel ------------------------------
(***************************************************************************)
(* The weekly cost table of the cost aware matcher: cost_row_reader.hpp    *)
(* reads it from a csv, half_spread_linear.hpp prices an order from the    *)
(* instrument's latest row.  A line of the csv is                          *)
(*   [leg, week, half_spread, impact, taker_fee]                           *)
(* with Bad for a field that does not parse, and a leg that is Other for a *)
(* symbol the subscription does not have, Broken for a line too short to   *)
(* tell or with a bad market.  Basis points are in 1/Scale.                *)
(***************************************************************************)
EXTENDS Portfolio

Bad == -1
Empty == -2
Other == "other"
Broken == "broken"

CostLines == [leg : Legs \cup {Other, Broken}, week : Int,
              half_spread : Int, impact : Int, taker_fee : Int]

\* A line that makes read_cost_rows_csv throw: too short or with a bad market,
\* or, once its symbol resolves, with a bad number or date.
Malformed(line) == \/ line.leg = Broken
                   \/ /\ line.leg \in Legs
                      /\ \/ line.week = Bad
                         \/ line.half_spread \in {Bad, Empty} \/ line.taker_fee \in {Bad, Empty}
                         \/ line.impact = Bad

\* read_cost_rows_csv(): an empty impact is 0, an unknown symbol is skipped.
RowsOf(lines) ==
    {[leg |-> line.leg, week |-> line.week, half_spread |-> line.half_spread,
      impact |-> IF line.impact = Empty THEN 0 ELSE line.impact, taker_fee |-> line.taker_fee]
        : line \in {ln \in lines : ln.leg \in Legs}}

\* price(): the rows upper_bound stops at.  Several of one week are sorted in no
\* particular order.
RowsInForce(rows, leg, ts) ==
    LET begun == {r \in rows : r.leg = leg /\ r.week <= ts}
    IN  {r \in begun : \A q \in begun : q.week <= r.week}

\* The fill of an order from row r at the reference price; the fee is rounded
\* down to a whole money unit.
CostedFill(o, r, ref) ==
    LET bps == r.half_spread + r.impact * o.qty
        fill_price == ref * (Scale + (IF o.side = "Buy" THEN bps ELSE -bps))
    IN  [id |-> o.id, leg |-> o.leg, side |-> o.side, qty |-> o.qty, price |-> fill_price,
         fee |-> (fill_price * o.qty * r.taker_fee) \div Scale]
=============================================================================
