----------------------------- MODULE Portfolio ------------------------------
(***************************************************************************)
(* core/portfolio.hpp: positions, cash and marks, changed by fills,        *)
(* funding settlements and price events.                                   *)
(*                                                                         *)
(* The book is that of the funding carry composition: a spot leg and a     *)
(* futures leg; every other slot of the Portfolio's vectors stays 0.       *)
(* Prices and quantities are integers, and money is counted in units of    *)
(* 1/Scale, in which a taker fee and a funding flow are whole: floating    *)
(* point rounding is not modelled.                                         *)
(***************************************************************************)
EXTENDS Integers, Sequences

CONSTANTS Spot, Futures,  \* the two instruments of the book
          Scale,          \* money units in one unit of price * quantity
          FeeRate,        \* kTakerFeeRate, in money units
          Prices,         \* prices an event may carry
          Rates           \* funding rates an event may carry, times Scale

ASSUME LegsAssumption == Spot # Futures
ASSUME MoneyAssumption == Scale \in Nat \ {0} /\ FeeRate \in Nat
ASSUME PricesAssumption == Prices \subseteq Nat \ {0}
ASSUME RatesAssumption == Rates \subseteq Int

VARIABLES positions, mark_price, funding_mark_price,
          fees, funding_paid, funding_received, cash

portfolioVars == <<positions, mark_price, funding_mark_price,
                   fees, funding_paid, funding_received, cash>>

Legs == {Spot, Futures}

\* A market event by what its payload means to the engine: "price" is a trade
\* or a kline close, "mark" a mark price kline close, "funding" a settlement,
\* and "other" a premium index, open interest or depth sample.
MarketEvents == [kind : {"price", "mark"}, leg : Legs, value : Prices]
           \cup [kind : {"funding"}, leg : {Futures}, value : Rates]
           \cup [kind : {"other"}, leg : {Spot}, value : {0}]

Sides == {"Buy", "Sell"}
\* A fill's price is in money units; costs beyond the price turn it negative.
Fills == [id : Nat, leg : Legs, side : Sides, qty : Nat, price : Int, fee : Int]

Zero == [l \in Legs |-> 0]
MaxInt(a, b) == IF a >= b THEN a ELSE b
MinInt(a, b) == IF a <= b THEN a ELSE b

PortfolioInit == /\ positions = Zero /\ mark_price = Zero /\ funding_mark_price = Zero
                 /\ fees = Zero /\ funding_paid = Zero /\ funding_received = Zero
                 /\ cash = 0

SignedQty(side, qty) == IF side = "Buy" THEN qty ELSE -qty
Notional(qty, price) == qty * price * Scale

\* The money the trade itself costs, fee aside.
Cost(f) == SignedQty(f.side, f.qty) * f.price

\* Mutant: the fee is booked but not paid.
ApplyFill_FeeNotPaid(f) ==
    /\ positions' = [positions EXCEPT ![f.leg] = @ + SignedQty(f.side, f.qty)]
    /\ cash' = cash - Cost(f)
    /\ fees' = [fees EXCEPT ![f.leg] = @ + f.fee]
    /\ UNCHANGED <<mark_price, funding_mark_price, funding_paid, funding_received>>

ApplyFill(f) ==
    /\ positions' = [positions EXCEPT ![f.leg] = @ + SignedQty(f.side, f.qty)]
    /\ cash' = cash - (Cost(f) + f.fee)
    /\ fees' = [fees EXCEPT ![f.leg] = @ + f.fee]
    /\ UNCHANGED <<mark_price, funding_mark_price, funding_paid, funding_received>>

\* What a funding settlement takes from cash: the position held now, at the
\* last mark price kline seen.
Flow(ev) == positions[ev.leg] * funding_mark_price[ev.leg] * ev.value

ApplyFunding(ev) ==
    /\ IF ev.kind = "funding"
       THEN /\ cash' = cash - Flow(ev)
            /\ funding_paid' = [funding_paid EXCEPT ![ev.leg] = @ + MaxInt(Flow(ev), 0)]
            /\ funding_received' = [funding_received EXCEPT ![ev.leg] = @ - MinInt(Flow(ev), 0)]
       ELSE UNCHANGED <<cash, funding_paid, funding_received>>
    /\ UNCHANGED <<positions, fees>>

\* Mutant: only mark price klines mark the book.
ApplyMarkPrice_KlinesOnly(ev) ==
    /\ mark_price' = IF ev.kind = "mark" THEN [mark_price EXCEPT ![ev.leg] = ev.value]
                     ELSE mark_price
    /\ funding_mark_price' = IF ev.kind = "mark"
                             THEN [funding_mark_price EXCEPT ![ev.leg] = ev.value]
                             ELSE funding_mark_price

ApplyMarkPrice(ev) ==
    /\ mark_price' = IF ev.kind \in {"price", "mark"}
                     THEN [mark_price EXCEPT ![ev.leg] = ev.value]
                     ELSE mark_price
    /\ funding_mark_price' = IF ev.kind = "mark"
                             THEN [funding_mark_price EXCEPT ![ev.leg] = ev.value]
                             ELSE funding_mark_price

Total(f) == f[Spot] + f[Futures]

Equity == cash + Notional(positions[Spot], mark_price[Spot])
               + Notional(positions[Futures], mark_price[Futures])

PortfolioTypeOK == /\ positions \in [Legs -> Int]
                   /\ mark_price \in [Legs -> Nat]
                   /\ funding_mark_price \in [Legs -> Nat]
                   /\ fees \in [Legs -> Int]
                   /\ funding_paid \in [Legs -> Nat]
                   /\ funding_received \in [Legs -> Nat]
                   /\ cash \in Int
=============================================================================
