---------------------------- MODULE EngineProofs ----------------------------
(***************************************************************************)
(* The engine's step proved correct for every book, gate configuration,    *)
(* cost table and strategy threshold: the types, and the five properties   *)
(* the engine run checks.  The inductive invariant speaks of Book(l), the  *)
(* position of a leg once the fills not yet drained are applied to it.     *)
(***************************************************************************)
EXTENDS Engine, FiniteSetTheorems, SequenceTheorems, WellFoundedInduction, TLAPS

-----------------------------------------------------------------------------
(* Facts about the data.                                                   *)

LEMMA LegFacts == /\ Spot \in Legs /\ Futures \in Legs /\ Spot # Futures
                  /\ Zero \in [Legs -> Int] /\ Zero \in [Legs -> Nat]
                  /\ \A l \in Legs : Zero[l] = 0
  BY LegsAssumption DEF Legs, Zero

\* An event's leg is one of the book's, and its value is a number; the price
\* of a trade, a kline or a mark is positive.
LEMMA EventFacts ==
  ASSUME NEW ev \in MarketEvents
  PROVE  /\ ev.leg \in Legs /\ ev.value \in Int
         /\ ev.kind \in {"price", "mark"} => ev.value \in Nat \ {0}
         /\ ev.kind = "funding" => ev.leg = Futures
<1>1. CASE ev \in [kind : {"price", "mark"}, leg : Legs, value : Prices]
  <2>1. /\ ev.kind \in {"price", "mark"} /\ ev.leg \in Legs /\ ev.value \in Prices
    BY <1>1
  <2>2. ev.value \in Nat \ {0} /\ ev.kind # "funding"
    BY <2>1, PricesAssumption
  <2> QED
    BY <2>1, <2>2
<1>2. CASE ev \in [kind : {"funding"}, leg : {Futures}, value : Rates]
  BY <1>2, RatesAssumption, LegFacts
<1>3. CASE ev \in [kind : {"other"}, leg : {Spot}, value : {0}]
  BY <1>3, LegFacts
<1> QED
  BY <1>1, <1>2, <1>3 DEF MarketEvents

\* Among rows that have begun, one is the latest: the one whose age is least.
LEMMA LatestRow ==
  ASSUME NEW rows, rows \subseteq CostLines, NEW leg, NEW ts \in Int,
         NEW r \in rows, r.leg = leg, r.week <= ts
  PROVE  RowsInForce(rows, leg, ts) # {}
<1> DEFINE begun == {q \in rows : q.leg = leg /\ q.week <= ts}
           T == {ts - q.week : q \in begun}
<1>1. \A q \in begun : q.week \in Int
  BY DEF CostLines
<1>2. T \subseteq Nat
  BY <1>1
<1>3. T # {}
  OBVIOUS
<1> HIDE DEF T
<1>4. PICK x \in T : \A y \in T : ~(<<y, x>> \in OpToRel(<, Nat))
  BY <1>2, <1>3, NatLessThanWellFounded, WFMin
<1>5. \A y \in T : x <= y
  <2> SUFFICES ASSUME NEW y \in T, y < x
               PROVE  FALSE
    BY <1>2
  <2>1. <<y, x>> \in {ss \in Nat \X Nat : ss[1] < ss[2]}
    BY <1>2
  <2> QED
    BY <1>4, <2>1 DEF OpToRel
<1>6. PICK m \in begun : x = ts - m.week
  BY <1>4 DEF T
<1>7. \A q \in begun : q.week <= m.week
  <2> TAKE q \in begun
  <2>1. ts - q.week \in T
    BY DEF T
  <2>2. m.week \in Int /\ q.week \in Int /\ x <= ts - q.week
    BY <1>1, <1>5, <2>1
  <2> QED
    BY <1>6, <2>2
<1> QED
  BY <1>6, <1>7 DEF RowsInForce

\* A leg that can be traded stays so as time goes by.
LEMMA TradableLater ==
  ASSUME costs \subseteq CostLines, NEW l \in Legs, NEW a \in Int, NEW b \in Int, a <= b,
         Tradable(l, a)
  PROVE  Tradable(l, b)
<1>1. ASSUME matcher = "cost_aware"
      PROVE  RowsInForce(costs, l, b) # {}
  <2>1. PICK r \in costs : r.leg = l /\ r.week <= a
    BY <1>1 DEF Tradable, RowsInForce
  <2>2. r.week <= b
    BY <2>1 DEF CostLines
  <2> QED
    BY <2>1, <2>2, LatestRow
<1> QED
  BY <1>1 DEF Tradable

LEMMA RowsAreCostLines ==
  ASSUME NEW f \in CostFiles
  PROVE  RowsOf(f) \subseteq CostLines
  BY CostFilesAssumption DEF RowsOf, CostLines, Legs
-----------------------------------------------------------------------------
(* The inductive invariant.                                                *)

\* The position of a leg once every fill is applied.
Book(l) == positions[l] + Unsettled(l)

\* An intent's target under the exposure cap.
Capped(t) == Clamp(t, -MaxPositionQty, MaxPositionQty)

\* Intents live while they are checked, orders while they are submitted, and a
\* step ends with nothing left to drain.
Control == /\ pc # "check" => intents = << >>
           /\ pc # "settle" => orders = {}
           /\ pc = "pull" => drained = Len(fills)

\* The history net is the running sum of the fills.
NetIsRunningSum ==
    \A i \in 1 .. Len(fills) :
        net[i] = [Net(i - 1) EXCEPT ![fills[i].leg] = @ + SignedQty(fills[i].side, fills[i].qty)]

\* What was bought or sold could be traded, and time takes no price and no
\* cost row away.
HeldIsTradable == /\ \A l \in Legs : positions[l] # 0 => Tradable(l, now)
                  /\ \A i \in 1 .. Len(fills) : Tradable(fills[i].leg, now)

PricedIsMarked == \A l \in Legs : last_price[l] # 0 => mark_price[l] # 0

\* The carry strategy's two intents, before and after the first is dealt with:
\* nothing was filled on a leg that still waits, and when the settlement
\* found both legs priced the spot leg is where the intent wanted it.
CarryIntents ==
    Carry => \/ intents = << >>
             \/ /\ Len(intents) = 2 /\ intents[1].leg = Spot /\ intents[2].leg = Futures
                /\ intents[2].target = -intents[1].target
                /\ Unsettled(Spot) = 0 /\ Unsettled(Futures) = 0
                /\ due => \A l \in Legs : Tradable(l, now)
             \/ /\ Len(intents) = 1 /\ intents[1].leg = Futures
                /\ Unsettled(Futures) = 0
                /\ due => Tradable(Futures, now)
                /\ (due /\ ~tripped) => Book(Spot) = -Capped(intents[1].target)

\* Before a trip the book with its fills applied is capped, and hedged once a
\* priced settlement's intents are through.
CapInv == (Carry /\ ~tripped) => orders = {} /\ \A l \in Legs : Abs(Book(l)) <= MaxPositionQty
HedgeInv == (Carry /\ ~tripped /\ due /\ intents = << >>) => Book(Spot) = -Book(Futures)

\* A trip's orders each undo the position of their leg, and stay accepted.
FlattenOrders ==
    Carry => \A o \in orders : /\ SignedQty(o.side, o.qty) = -positions[o.leg]
                               /\ positions[o.leg] # 0

\* What the trip's orders still waiting will do to a leg.
Pending(l) == IF \E o \in orders : o.leg = l THEN -positions[l] ELSE 0

HaltInv == haltedAt # NotHalted => /\ Carry /\ tripped
                                   /\ \A l \in Legs : Book(l) + Pending(l) = haltedAt[l]
                                   /\ \A o, q \in orders : o.leg = q.leg => o = q

StepInv == /\ TypeOK /\ Control /\ NetIsRunningSum /\ HeldIsTradable /\ PricedIsMarked
           /\ CashReconciles /\ CarryIntents /\ CapInv /\ HedgeInv /\ FlattenOrders
-----------------------------------------------------------------------------
(* What submitting one order does to the fills.                            *)

\* try_fill() answers a fill of the whole order, and answers one exactly when
\* the leg can be traded.
LEMMA TryFillFacts ==
  ASSUME ExecTypeOK, NEW o \in Orders, NEW ts
  PROVE  /\ TryFill(o, ts) = {} <=> ~Tradable(o.leg, ts)
         /\ \A f \in TryFill(o, ts) : /\ f \in Fills
                                      /\ f.leg = o.leg /\ f.side = o.side /\ f.qty = o.qty
<1>0. /\ o.id \in Nat /\ o.leg \in Legs /\ o.side \in Sides /\ o.qty \in Nat
      /\ last_price[o.leg] \in Nat /\ Scale \in Nat \ {0} /\ FeeRate \in Nat
      /\ matcher \in {"last_trade", "cost_aware"} /\ costs \subseteq CostLines
  BY MoneyAssumption DEF ExecTypeOK, Orders
<1>1. TryFill(o, ts) = {} <=> ~Tradable(o.leg, ts)
  BY <1>0 DEF TryFill, Tradable
<1>2. FillOf(o) \in Fills
  <2>1. /\ last_price[o.leg] * Scale \in Int
        /\ last_price[o.leg] * o.qty * FeeRate \in Int
    BY <1>0
  <2> QED
    BY <1>0, <2>1 DEF FillOf, Fills
<1>3. ASSUME NEW r \in costs
      PROVE  CostedFill(o, r, last_price[o.leg]) \in Fills
  <2> DEFINE ref == last_price[o.leg]
             bps == r.half_spread + r.impact * o.qty
             signed == IF o.side = "Buy" THEN bps ELSE -bps
             fill_price == ref * (Scale + signed)
             fee == (fill_price * o.qty * r.taker_fee) \div Scale
  <2>1. r.half_spread \in Int /\ r.impact \in Int /\ r.taker_fee \in Int
    BY <1>0 DEF CostLines
  <2>2. bps \in Int
    BY <1>0, <2>1
  <2>3. signed \in Int
    BY <2>2
  <2> HIDE DEF signed
  <2>4. fill_price \in Int
    BY <1>0, <2>3
  <2> HIDE DEF fill_price
  <2>5. fill_price * o.qty * r.taker_fee \in Int
    BY <1>0, <2>1, <2>4
  <2>6. fee \in Int
    BY <1>0, <2>5
  <2> HIDE DEF fee
  <2>7. CostedFill(o, r, ref) = [id |-> o.id, leg |-> o.leg, side |-> o.side, qty |-> o.qty,
                                 price |-> fill_price, fee |-> fee]
    BY DEF CostedFill, fee, fill_price, signed
  <2> QED
    BY <1>0, <2>4, <2>6, <2>7 DEF Fills
<1>4. ASSUME NEW f \in TryFill(o, ts)
      PROVE  /\ f \in Fills
             /\ f.leg = o.leg /\ f.side = o.side /\ f.qty = o.qty
  <2>1. CASE f = FillOf(o)
    BY <2>1, <1>2 DEF FillOf
  <2>2. ASSUME NEW r \in costs, f = CostedFill(o, r, last_price[o.leg])
        PROVE  <1>4!2
    BY <2>2, <1>3 DEF CostedFill
  <2> QED
    BY <1>4, <2>1, <2>2 DEF TryFill, RowsInForce
<1> QED
  BY <1>1, <1>4

LEMMA NetType ==
  ASSUME TypeOK, NEW n \in 0 .. Len(fills)
  PROVE  Net(n) \in [Legs -> Int]
  BY LegFacts DEF TypeOK, Net

LEMMA SignedQtyType ==
  ASSUME NEW side \in Sides, NEW qty \in Nat
  PROVE  SignedQty(side, qty) \in Int
  BY DEF SignedQty

\* submit() and its record: an order for a leg that can be traded adds one fill
\* of its signed quantity, any other leaves the fills alone.
LEMMA SubmitFacts ==
  ASSUME TypeOK, NetIsRunningSum, NEW o \in Orders, NEW ts, Submit(o, ts), RecordFill,
         UNCHANGED drained
  PROVE  /\ UNCHANGED <<matcher, costs, last_price>>
         /\ ExecTypeOK'
         /\ net' \in Seq([Legs -> Int]) /\ Len(net') = Len(fills') /\ drained' \in 0 .. Len(fills')
         /\ NetIsRunningSum'
         /\ \A i \in 1 .. Len(fills') : \/ i \in 1 .. Len(fills) /\ fills'[i] = fills[i]
                                        \/ fills'[i].leg = o.leg /\ Tradable(o.leg, ts)
         /\ \A l \in Legs : Unsettled(l)' = Unsettled(l) + (IF l = o.leg /\ Tradable(l, ts)
                                                            THEN SignedQty(o.side, o.qty) ELSE 0)
<1>0. /\ ExecTypeOK /\ fills \in Seq(Fills) /\ rejects \in Seq(Nat) /\ Len(fills) \in Nat
      /\ net \in Seq([Legs -> Int]) /\ Len(net) = Len(fills)
      /\ drained \in 0 .. Len(fills) /\ drained' = drained
      /\ o.leg \in Legs /\ o.side \in Sides /\ o.qty \in Nat /\ o.id \in Nat
      /\ SignedQty(o.side, o.qty) \in Int
  <2>1. /\ ExecTypeOK /\ net \in Seq([Legs -> Int]) /\ Len(net) = Len(fills)
        /\ drained \in 0 .. Len(fills)
    BY DEF TypeOK
  <2>2. fills \in Seq(Fills) /\ rejects \in Seq(Nat) /\ Len(fills) \in Nat
    BY <2>1 DEF ExecTypeOK
  <2>3. o.leg \in Legs /\ o.side \in Sides /\ o.qty \in Nat /\ o.id \in Nat
    BY DEF Orders
  <2>4. SignedQty(o.side, o.qty) \in Int
    BY <2>3, SignedQtyType
  <2> QED
    BY <2>1, <2>2, <2>3, <2>4
<1>1. UNCHANGED <<matcher, costs, last_price>>
  BY DEF Submit
<1>2. Net(Len(fills)) \in [Legs -> Int] /\ Net(drained) \in [Legs -> Int]
  BY <1>0, NetType
<1>3. CASE Tradable(o.leg, ts)
  <2>1. PICK f \in TryFill(o, ts) : fills' = Append(fills, f) /\ rejects' = rejects
    BY <1>0, <1>3, TryFillFacts DEF Submit
  <2>2. f \in Fills /\ f.leg = o.leg /\ f.side = o.side /\ f.qty = o.qty
    BY <1>0, <2>1, TryFillFacts
  <2> DEFINE sum == [Net(Len(fills)) EXCEPT ![o.leg] = @ + SignedQty(o.side, o.qty)]
  <2>3. sum \in [Legs -> Int]
    BY <1>0, <1>2
  <2>4. /\ fills' \in Seq(Fills) /\ Len(fills') = Len(fills) + 1
        /\ fills'[Len(fills) + 1] = f
        /\ \A i \in 1 .. Len(fills) : fills'[i] = fills[i]
    BY <1>0, <2>1, <2>2, AppendProperties
  <2>5. net' = Append(net, sum)
    <3>1. Len(fills') # Len(fills)
      BY <1>0, <2>4
    <3>2. net' = LET g == fills'[Len(fills) + 1]
                 IN  Append(net, [Net(Len(fills)) EXCEPT ![g.leg] = @ + SignedQty(g.side, g.qty)])
      BY <3>1, Zenon DEF RecordFill
    <3> QED
      BY <2>2, <2>4, <3>2
  <2>6. /\ net' \in Seq([Legs -> Int]) /\ Len(net') = Len(fills) + 1
        /\ net'[Len(fills) + 1] = sum
        /\ \A i \in 1 .. Len(fills) : net'[i] = net[i]
    <3> HIDE DEF sum
    <3> QED
      BY <1>0, <2>3, <2>5, AppendProperties
  <2>7. ExecTypeOK'
    BY <1>0, <1>1, <2>1, <2>4 DEF ExecTypeOK
  <2>8. \A i \in 0 .. Len(fills) : (IF i = 0 THEN Zero ELSE net'[i]) = Net(i)
    BY <2>6 DEF Net
  <2>9. NetIsRunningSum'
    <3> SUFFICES ASSUME NEW i \in 1 .. Len(fills')
                 PROVE  net'[i] = [(IF i - 1 = 0 THEN Zero ELSE net'[i - 1])
                                       EXCEPT ![fills'[i].leg] = @ + SignedQty(fills'[i].side, fills'[i].qty)]
      BY DEF NetIsRunningSum, Net
    <3>1. CASE i = Len(fills) + 1
      <4>1. (IF i - 1 = 0 THEN Zero ELSE net'[i - 1]) = Net(Len(fills))
        BY <1>0, <2>8, <3>1
      <4> QED
        BY <1>0, <2>2, <2>4, <2>6, <3>1, <4>1
    <3>2. CASE i \in 1 .. Len(fills)
      <4>1. (IF i - 1 = 0 THEN Zero ELSE net'[i - 1]) = Net(i - 1)
        BY <1>0, <2>8, <3>2
      <4>2. net'[i] = net[i] /\ fills'[i] = fills[i]
        BY <2>4, <2>6, <3>2
      <4> QED
        BY <3>2, <4>1, <4>2 DEF NetIsRunningSum
    <3> QED
      BY <1>0, <2>4, <3>1, <3>2
  <2>10. ASSUME NEW l \in Legs
         PROVE  Unsettled(l)' = Unsettled(l) + (IF l = o.leg /\ Tradable(l, ts)
                                                THEN SignedQty(o.side, o.qty) ELSE 0)
    <3>1. Unsettled(l)' = sum[l] - Net(drained)[l]
      BY <1>0, <2>4, <2>6, <2>8 DEF Unsettled, Net
    <3> QED
      BY <1>0, <1>2, <1>3, <3>1 DEF Unsettled
  <2> QED
    BY <1>0, <1>1, <1>3, <2>2, <2>4, <2>6, <2>7, <2>9, <2>10
<1>4. CASE ~Tradable(o.leg, ts)
  <2>1. fills' = fills /\ rejects' = Append(rejects, o.id)
    BY <1>0, <1>4, TryFillFacts DEF Submit
  <2>2. net' = net
    BY <2>1 DEF RecordFill
  <2>3. rejects' \in Seq(Nat)
    BY <1>0, <2>1, AppendProperties
  <2>4. ExecTypeOK'
    BY <1>0, <1>1, <2>1, <2>3 DEF ExecTypeOK
  <2>5. NetIsRunningSum'
    BY <2>1, <2>2 DEF NetIsRunningSum, Net
  <2>6. \A l \in Legs : Unsettled(l)' = Unsettled(l) /\ Unsettled(l) \in Int
    BY <1>0, <1>2, <2>1, <2>2, SMTT(30) DEF Unsettled, Net
  <2> QED
    BY <1>0, <1>1, <1>4, <2>1, <2>2, <2>4, <2>5, <2>6
<1> QED
  BY <1>3, <1>4
-----------------------------------------------------------------------------
(* Each action preserves the invariant.                                    *)

LEMMA UnsettledType ==
  ASSUME TypeOK, NEW l \in Legs
  PROVE  Unsettled(l) \in Int /\ Book(l) \in Int
<1>0. Len(fills) \in Nat /\ drained \in 0 .. Len(fills) /\ positions[l] \in Int
  BY DEF TypeOK, ExecTypeOK, PortfolioTypeOK
<1>1. Net(Len(fills)) \in [Legs -> Int] /\ Net(drained) \in [Legs -> Int]
  BY <1>0, NetType
<1> QED
  BY <1>0, <1>1 DEF Unsettled, Book

LEMMA CarryTargetType ==
  ASSUME TypeOK, NEW rate \in Int
  PROVE  CarryTarget(rate) \in Int
  BY CarryAssumption, LegFacts DEF TypeOK, PortfolioTypeOK, CarryTarget

\* A settlement books what it takes from cash, on one side or the other.
LEMMA FundingBooked ==
  ASSUME TypeOK, CashReconciles, NEW ev \in MarketEvents, ApplyFunding(ev), spent' = spent
  PROVE  /\ funding_paid' \in [Legs -> Nat] /\ funding_received' \in [Legs -> Nat] /\ cash' \in Int
         /\ positions' = positions /\ fees' = fees
         /\ CashReconciles'
<1>0. /\ funding_paid \in [Legs -> Nat] /\ funding_received \in [Legs -> Nat] /\ cash \in Int
      /\ fees \in [Legs -> Int] /\ positions \in [Legs -> Int]
      /\ funding_mark_price \in [Legs -> Nat] /\ spent \in Int
  BY DEF TypeOK, PortfolioTypeOK
<1>1. positions' = positions /\ fees' = fees
  BY DEF ApplyFunding
<1>2. CASE ev.kind = "funding"
  <2>1. ev.leg = Futures /\ ev.value \in Int
    BY <1>2, EventFacts
  <2>2. Flow(ev) \in Int
    BY <1>0, <2>1, LegFacts DEF Flow
  <2> DEFINE paid == MaxInt(Flow(ev), 0)
             got == -MinInt(Flow(ev), 0)
  <2>3. paid \in Nat /\ got \in Nat /\ paid - got = Flow(ev)
    BY <2>2 DEF MaxInt, MinInt
  <2>4. /\ cash' = cash - Flow(ev)
        /\ funding_paid' = [funding_paid EXCEPT ![Futures] = @ + paid]
        /\ funding_received' = [funding_received EXCEPT ![Futures] = @ - MinInt(Flow(ev), 0)]
    BY <1>2, <2>1 DEF ApplyFunding
  <2>5. funding_received' = [funding_received EXCEPT ![Futures] = @ + got]
    BY <1>0, <2>2, <2>4, LegFacts DEF MinInt
  <2> HIDE DEF paid, got
  <2>6. funding_paid' \in [Legs -> Nat] /\ funding_received' \in [Legs -> Nat] /\ cash' \in Int
    BY <1>0, <2>2, <2>3, <2>4, <2>5, LegFacts
  <2>7. /\ funding_paid'[Futures] = funding_paid[Futures] + paid
        /\ funding_paid'[Spot] = funding_paid[Spot]
        /\ funding_received'[Futures] = funding_received[Futures] + got
        /\ funding_received'[Spot] = funding_received[Spot]
    BY <1>0, <2>3, <2>4, <2>5, LegFacts
  <2>8. /\ funding_paid[Spot] \in Int /\ funding_paid[Futures] \in Int
        /\ funding_received[Spot] \in Int /\ funding_received[Futures] \in Int
        /\ fees[Spot] \in Int /\ fees[Futures] \in Int
    BY <1>0, LegFacts
  <2>9. CashReconciles'
    BY <1>0, <1>1, <2>2, <2>3, <2>4, <2>7, <2>8 DEF CashReconciles, Total
  <2> QED
    BY <1>1, <2>6, <2>9
<1>3. CASE ev.kind # "funding"
  <2>1. UNCHANGED <<cash, funding_paid, funding_received>>
    BY <1>3 DEF ApplyFunding
  <2> QED
    BY <1>0, <1>1, <2>1 DEF CashReconciles, Total
<1> QED
  BY <1>2, <1>3

\* A priced leg is a marked one: the event that prices it also marks it.
LEMMA EventMarks ==
  ASSUME TypeOK, PricedIsMarked, NEW ev \in MarketEvents, ApplyMarkPrice(ev),
         last_price' = LastPriceAfter(ev)
  PROVE  /\ mark_price' \in [Legs -> Nat] /\ funding_mark_price' \in [Legs -> Nat]
         /\ last_price' \in [Legs -> Nat]
         /\ PricedIsMarked'
         /\ \A l \in Legs : last_price[l] # 0 => last_price'[l] # 0
         /\ ev.kind # "price" => last_price' = last_price
<1>0. /\ mark_price \in [Legs -> Nat] /\ funding_mark_price \in [Legs -> Nat]
      /\ last_price \in [Legs -> Nat]
  BY DEF TypeOK, PortfolioTypeOK, ExecTypeOK
<1>1. /\ ev.leg \in Legs
      /\ ev.kind \in {"price", "mark"} => ev.value \in Nat \ {0}
  BY EventFacts
<1>2. CASE ev.kind = "price"
  BY <1>0, <1>1, <1>2 DEF ApplyMarkPrice, LastPriceAfter, PricedIsMarked
<1>3. CASE ev.kind = "mark"
  BY <1>0, <1>1, <1>3 DEF ApplyMarkPrice, LastPriceAfter, PricedIsMarked
<1>4. CASE ev.kind \notin {"price", "mark"}
  BY <1>0, <1>1, <1>4 DEF ApplyMarkPrice, LastPriceAfter, PricedIsMarked
<1> QED
  BY <1>2, <1>3, <1>4

LEMMA PythonIntentsType ==
  ASSUME NEW s \in PythonIntents
  PROVE  s \in Seq(Intents)
<1>1. CASE s = << >>
  BY <1>1, EmptySeq
<1>2. ASSUME NEW l \in Legs, NEW q \in PythonQtys, s = <<[leg |-> l, target |-> q]>>
      PROVE  s \in Seq(Intents)
  <2>1. [leg |-> l, target |-> q] \in Intents
    BY EngineAssumption DEF Intents
  <2> QED
    BY <1>2, <2>1
<1> QED
  BY <1>1, <1>2 DEF PythonIntents

LEMMA StrategyIntentsType ==
  ASSUME TypeOK, NEW ev \in MarketEvents, NEW s \in StrategyOnEvent(ev)
  PROVE  s \in Seq(Intents)
<1>1. CASE Carry /\ ev.kind = "funding" /\ ev.leg = Futures
  <2>1. CarryTarget(ev.value) \in Int
    BY EventFacts, CarryTargetType
  <2>2. s = << [leg |-> Spot, target |-> CarryTarget(ev.value)],
               [leg |-> Futures, target |-> -CarryTarget(ev.value)] >>
    BY <1>1 DEF StrategyOnEvent, CarryOnEvent
  <2>3. /\ [leg |-> Spot, target |-> CarryTarget(ev.value)] \in Intents
        /\ [leg |-> Futures, target |-> -CarryTarget(ev.value)] \in Intents
    BY <2>1, LegFacts DEF Intents
  <2> QED
    BY <2>2, <2>3
<1>2. CASE Carry /\ ~(ev.kind = "funding" /\ ev.leg = Futures)
  <2>1. s = << >>
    BY <1>2 DEF StrategyOnEvent, CarryOnEvent
  <2> QED
    BY <2>1, EmptySeq
<1>3. CASE ~Carry
  <2>1. s \in PythonIntents
    BY <1>3 DEF StrategyOnEvent
  <2> QED
    BY <2>1, PythonIntentsType
<1> QED
  BY <1>1, <1>2, <1>3

LEMMA PullEventStep ==
  ASSUME StepInv, NEW ev \in MarketEvents, PullEvent(ev)
  PROVE  /\ StepInv'
         /\ \A l \in Legs : Book(l)' = Book(l)
<1>0. /\ TypeOK /\ Control /\ pc = "pull" /\ pc' = "check" /\ drained' = 0 /\ net' = << >>
      /\ fills' = << >> /\ rejects' = << >> /\ orders' = orders /\ steps' = steps
      /\ UNCHANGED <<composition, gateVars, spent, applied, haltedAt, matcher, costs>>
      /\ last_price' = LastPriceAfter(ev) /\ ApplyFunding(ev) /\ ApplyMarkPrice(ev)
      /\ intents' \in StrategyOnEvent(ev)
  BY DEF StepInv, PullEvent, ExecOnMarketEvent
<1>1. /\ funding_paid' \in [Legs -> Nat] /\ funding_received' \in [Legs -> Nat] /\ cash' \in Int
      /\ positions' = positions /\ fees' = fees
      /\ CashReconciles'
  BY <1>0, FundingBooked DEF StepInv
<1>2. /\ mark_price' \in [Legs -> Nat] /\ funding_mark_price' \in [Legs -> Nat]
      /\ last_price' \in [Legs -> Nat]
      /\ PricedIsMarked'
      /\ \A l \in Legs : last_price[l] # 0 => last_price'[l] # 0
      /\ ev.kind # "price" => last_price' = last_price
  BY <1>0, EventMarks DEF StepInv
<1>3. now \in Int /\ now' \in 0 .. MaxWeek /\ now <= now'
  <2>1. now \in 0 .. MaxWeek /\ MaxWeek \in Nat
    BY <1>0, EngineAssumption DEF TypeOK
  <2>2. now' \in {now, MinInt(now + 1, MaxWeek)}
    BY DEF PullEvent
  <2> QED
    BY <2>1, <2>2 DEF MinInt
<1>4. due' \in BOOLEAN
  BY <1>0 DEF TypeOK, PullEvent
<1>5. intents' \in Seq(Intents)
  BY <1>0, StrategyIntentsType
<1>6. /\ fills' \in Seq(Fills) /\ rejects' \in Seq(Nat) /\ Len(fills') = 0
      /\ net' \in Seq([Legs -> Int]) /\ Len(net') = 0
  BY <1>0, EmptySeq
<1>7. TypeOK'
  <2>1. PortfolioTypeOK'
    BY <1>0, <1>1, <1>2 DEF TypeOK, PortfolioTypeOK
  <2>2. GateTypeOK'
    BY <1>0 DEF TypeOK, GateTypeOK, gateVars
  <2>3. ExecTypeOK'
    BY <1>0, <1>2, <1>6 DEF TypeOK, ExecTypeOK
  <2> QED
    BY <1>0, <1>3, <1>4, <1>5, <1>6, <2>1, <2>2, <2>3 DEF TypeOK
<1>8. Control'
  BY <1>0 DEF Control
<1>9. NetIsRunningSum'
  BY <1>6 DEF NetIsRunningSum
<1>10. HeldIsTradable'
  <2>1. ASSUME NEW l \in Legs, positions'[l] # 0
        PROVE  Tradable(l, now)'
    <3>1. Tradable(l, now)
      BY <1>1, <2>1 DEF StepInv, HeldIsTradable
    <3>2. Tradable(l, now')
      BY <1>0, <1>3, <3>1, TradableLater DEF TypeOK, ExecTypeOK
    <3> QED
      BY <1>0, <1>2, <3>2 DEF Tradable
  <2> QED
    BY <1>6, <2>1 DEF HeldIsTradable
<1>11. ASSUME NEW l \in Legs
       PROVE  /\ Unsettled(l)' = 0 /\ Unsettled(l) = 0
              /\ Book(l)' = positions[l] /\ Book(l) = positions[l] /\ positions[l] \in Int
  <2>1. Unsettled(l)' = Zero[l] - Zero[l]
    BY <1>0, <1>6 DEF Unsettled, Net
  <2>2. drained = Len(fills) /\ Len(fills) \in Nat
    BY <1>0 DEF Control, TypeOK, ExecTypeOK
  <2>3. Net(Len(fills))[l] \in Int /\ positions[l] \in Int
    BY <1>0, <2>2, NetType DEF TypeOK, PortfolioTypeOK
  <2> QED
    BY <1>1, <2>1, <2>2, <2>3, LegFacts DEF Unsettled, Book
<1>12. ASSUME Carry, ev.kind = "funding"
       PROVE  CarryIntents' /\ HedgeInv'
  <2>1. /\ Carry' /\ ev.leg = Futures /\ CarryTarget(ev.value) \in Int
    BY <1>0, <1>12, EventFacts, CarryTargetType DEF Carry
  <2>2. intents' = << [leg |-> Spot, target |-> CarryTarget(ev.value)],
                      [leg |-> Futures, target |-> -CarryTarget(ev.value)] >>
    BY <1>0, <1>12, <2>1 DEF StrategyOnEvent, CarryOnEvent
  <2>3. /\ Len(intents') = 2 /\ intents'[1].leg = Spot /\ intents'[2].leg = Futures
        /\ intents'[2].target = -intents'[1].target /\ intents' # << >>
    BY <2>2
  <2>4. due' => \A l \in Legs : Tradable(l, now)'
    <3>1. due' => \A l \in Legs : Tradable(l, now')
      BY <1>12 DEF PullEvent
    <3>2. last_price' = last_price
      BY <1>2, <1>12
    <3> QED
      BY <1>0, <3>1, <3>2 DEF Tradable
  <2>5. CarryIntents'
    BY <1>11, <2>3, <2>4, LegFacts DEF CarryIntents
  <2>6. HedgeInv'
    BY <2>3 DEF HedgeInv
  <2> QED
    BY <2>5, <2>6
<1>13. ASSUME Carry, ev.kind # "funding"
       PROVE  CarryIntents' /\ HedgeInv'
  <2>1. intents' = << >> /\ intents = << >> /\ due' = due
    BY <1>0, <1>13 DEF StrategyOnEvent, CarryOnEvent, PullEvent, Control
  <2>2. CarryIntents'
    BY <2>1 DEF CarryIntents
  <2>3. HedgeInv'
    <3>1. /\ Book(Spot)' = Book(Spot) /\ Book(Futures)' = Book(Futures)
          /\ tripped' = tripped /\ (Carry' <=> Carry)
      BY <1>0, <1>11, LegFacts DEF Carry, gateVars
    <3> QED
      BY <2>1, <3>1 DEF StepInv, HedgeInv
  <2> QED
    BY <2>2, <2>3
<1>14. ASSUME ~Carry
       PROVE  CarryIntents' /\ HedgeInv'
  BY <1>0, <1>14 DEF Carry, CarryIntents, HedgeInv
<1>15. CapInv'
  <2>1. \A l \in Legs : Book(l)' = Book(l)
    BY <1>11
  <2>2. orders = {} /\ orders' = {} /\ tripped' = tripped /\ (Carry' <=> Carry)
    BY <1>0 DEF Control, Carry, gateVars
  <2> QED
    BY <2>1, <2>2 DEF StepInv, CapInv, Abs
<1>16. FlattenOrders'
  BY <1>0 DEF FlattenOrders, Control
<1> QED
  BY <1>1, <1>2, <1>7, <1>8, <1>9, <1>10, <1>11, <1>12, <1>13, <1>14, <1>15, <1>16 DEF StepInv

LEMMA PullTimerStep ==
  ASSUME StepInv, PullTimer
  PROVE  StepInv' /\ ~Carry
<1>0. /\ TypeOK /\ pc' = "check" /\ drained' = 0 /\ pc = "pull" /\ composition = "python"
      /\ UNCHANGED <<composition, portfolioVars, gateVars, execVars, orders, now, steps, history>>
  BY DEF StepInv, PullTimer
<1>1. ~Carry /\ ~Carry'
  BY <1>0 DEF Carry
<1>2. intents' \in Seq(Intents)
  BY <1>1, PythonIntentsType DEF PullTimer, StrategyOnTimer
<1>3. TypeOK'
  <2>1. PortfolioTypeOK' /\ GateTypeOK' /\ ExecTypeOK'
    BY <1>0 DEF TypeOK, PortfolioTypeOK, GateTypeOK, ExecTypeOK, portfolioVars, gateVars, execVars
  <2>2. drained' \in 0 .. Len(fills')
    BY <1>0, <2>1 DEF ExecTypeOK
  <2> QED
    BY <1>0, <1>2, <2>1, <2>2 DEF TypeOK, execVars, history
<1>4. Control'
  BY <1>0 DEF StepInv, Control
<1>5. NetIsRunningSum' /\ HeldIsTradable' /\ PricedIsMarked' /\ CashReconciles'
  BY <1>0 DEF StepInv, NetIsRunningSum, Net, HeldIsTradable, Tradable, PricedIsMarked,
     CashReconciles, Total, portfolioVars, execVars, history
<1> QED
  BY <1>1, <1>3, <1>4, <1>5 DEF StepInv, CarryIntents, CapInv, HedgeInv, FlattenOrders

LEMMA RejectStep ==
  ASSUME StepInv, Reject
  PROVE  StepInv'
<1>0. /\ TypeOK /\ pc = "check" /\ intents # << >> /\ intents' = Tail(intents)
      /\ Carry => tripped
      /\ UNCHANGED <<composition, portfolioVars, gateVars, execVars, pc, orders, drained, now, steps, history>>
  BY DEF StepInv, Reject, CheckRejects
<1>1. /\ intents \in Seq(Intents) /\ intents' \in Seq(Intents) /\ Len(intents') = Len(intents) - 1
      /\ \A i \in 1 .. Len(intents') : intents'[i] = intents[i + 1]
  BY <1>0, HeadTailProperties DEF TypeOK
<1>2. TypeOK'
  <2>1. PortfolioTypeOK' /\ GateTypeOK' /\ ExecTypeOK'
    BY <1>0 DEF TypeOK, PortfolioTypeOK, GateTypeOK, ExecTypeOK, portfolioVars, gateVars, execVars
  <2> QED
    BY <1>0, <1>1, <2>1 DEF TypeOK, execVars, history
<1>3. Control'
  BY <1>0 DEF StepInv, Control, execVars
<1>4. NetIsRunningSum' /\ HeldIsTradable' /\ PricedIsMarked' /\ CashReconciles'
  BY <1>0 DEF StepInv, NetIsRunningSum, Net, HeldIsTradable, Tradable, PricedIsMarked,
     CashReconciles, Total, portfolioVars, execVars, history
<1>5. /\ Carry' <=> Carry
      /\ tripped' = tripped /\ due' = due
      /\ \A l \in Legs : Unsettled(l)' = Unsettled(l) /\ (Tradable(l, now)' <=> Tradable(l, now))
  BY <1>0 DEF Carry, Unsettled, Net, Tradable, gateVars, execVars, history
<1>6. CarryIntents'
  <2> SUFFICES ASSUME Carry
               PROVE  CarryIntents'
    BY <1>5 DEF CarryIntents
  <2>1. CASE Len(intents) = 2
    <3>1. Len(intents') = 1 /\ intents'[1] = intents[2]
      BY <1>1, <2>1
    <3>2. /\ intents[2].leg = Futures /\ Unsettled(Futures) = 0
          /\ due => Tradable(Futures, now)
      BY <1>0, <2>1, LegFacts DEF StepInv, CarryIntents
    <3> QED
      BY <1>0, <1>5, <3>1, <3>2, LegFacts DEF CarryIntents
  <2>2. CASE Len(intents) = 1
    <3>1. intents' = << >>
      BY <1>1, <2>2, EmptySeq
    <3> QED
      BY <3>1 DEF CarryIntents
  <2> QED
    BY <1>0, <2>1, <2>2 DEF StepInv, CarryIntents
<1>7. CapInv' /\ HedgeInv'
  BY <1>0, <1>5 DEF CapInv, HedgeInv
<1>8. FlattenOrders'
  BY <1>0, <1>5 DEF StepInv, FlattenOrders, portfolioVars
<1> QED
  BY <1>2, <1>3, <1>4, <1>6, <1>7, <1>8 DEF StepInv

LEMMA FinishStep ==
  ASSUME StepInv, Finish
  PROVE  StepInv'
<1>0. /\ TypeOK /\ pc = "settle" /\ pc' = "pull" /\ orders = {} /\ drained = Len(fills)
      /\ steps' = steps + 1
      /\ UNCHANGED <<composition, portfolioVars, gateVars, execVars, intents, orders, drained, now, history>>
  BY DEF StepInv, Finish
<1>1. TypeOK'
  <2>1. PortfolioTypeOK' /\ GateTypeOK' /\ ExecTypeOK'
    BY <1>0 DEF TypeOK, PortfolioTypeOK, GateTypeOK, ExecTypeOK, portfolioVars, gateVars, execVars
  <2> QED
    BY <1>0, <2>1 DEF TypeOK, execVars, history
<1>2. Control'
  BY <1>0 DEF StepInv, Control, execVars
<1>3. NetIsRunningSum' /\ HeldIsTradable' /\ PricedIsMarked' /\ CashReconciles'
  BY <1>0 DEF StepInv, NetIsRunningSum, Net, HeldIsTradable, Tradable, PricedIsMarked,
     CashReconciles, Total, portfolioVars, execVars, history
<1>4. /\ Carry' <=> Carry
      /\ tripped' = tripped /\ due' = due /\ intents' = intents
      /\ \A l \in Legs : Unsettled(l)' = Unsettled(l) /\ (Tradable(l, now)' <=> Tradable(l, now))
      /\ \A l \in Legs : Book(l)' = Book(l)
  BY <1>0 DEF Carry, Book, Unsettled, Net, Tradable, portfolioVars, gateVars, execVars, history
<1>5. CarryIntents' /\ HedgeInv'
  <2>1. intents = << >>
    BY <1>0 DEF StepInv, Control
  <2> QED
    BY <1>4, <2>1, LegFacts DEF StepInv, CarryIntents, HedgeInv
<1>6. CapInv'
  BY <1>0, <1>4 DEF StepInv, CapInv, Abs
<1>7. FlattenOrders'
  BY <1>0 DEF FlattenOrders
<1> QED
  BY <1>1, <1>2, <1>3, <1>5, <1>6, <1>7 DEF StepInv

\* The cap is symmetric, and check() sizes an order to the distance from the
\* position to the capped target.
LEMMA CappedFacts ==
  ASSUME NEW t \in Int
  PROVE  /\ Capped(t) \in Int /\ Capped(-t) = -Capped(t)
         /\ Abs(Capped(t)) <= MaxPositionQty
  BY GateAssumption DEF Capped, Clamp, Abs

LEMMA SizedFacts ==
  ASSUME TypeOK, NEW i \in Intents
  PROVE  /\ Sized(i) \in Orders /\ Sized(i).leg = i.leg
         /\ SignedQty(Sized(i).side, Sized(i).qty) = Capped(i.target) - positions[i.leg]
<1> DEFINE delta == Capped(i.target) - positions[i.leg]
<1>1. i.leg \in Legs /\ i.target \in Int /\ positions[i.leg] \in Int /\ next_id \in Nat
  BY DEF Intents, TypeOK, PortfolioTypeOK, GateTypeOK
<1>2. delta \in Int
  BY <1>1, CappedFacts
<1>3. Sized(i) = [id |-> next_id, leg |-> i.leg,
                  side |-> IF delta >= 0 THEN "Buy" ELSE "Sell", qty |-> Abs(delta)]
  BY DEF Sized, Capped
<1> HIDE DEF delta
<1>4. Abs(delta) \in Nat
  BY <1>2 DEF Abs
<1>5. Sized(i) \in Orders /\ Sized(i).leg = i.leg
  BY <1>1, <1>3, <1>4 DEF Orders, Sides
<1>6. SignedQty(Sized(i).side, Sized(i).qty) = delta
  BY <1>2, <1>3 DEF SignedQty, Abs
<1> QED
  BY <1>5, <1>6 DEF delta

\* Whatever submits an order disturbs no position, mark or money.
LEMMA SubmitKeeps ==
  ASSUME StepInv, NEW o \in Orders, Submit(o, now), RecordFill,
         UNCHANGED <<portfolioVars, drained, now, spent>>
  PROVE  NetIsRunningSum' /\ HeldIsTradable' /\ PricedIsMarked' /\ CashReconciles'
<1>0. /\ UNCHANGED <<matcher, costs, last_price>>
      /\ NetIsRunningSum'
      /\ \A i \in 1 .. Len(fills') : \/ i \in 1 .. Len(fills) /\ fills'[i] = fills[i]
                                     \/ fills'[i].leg = o.leg /\ Tradable(o.leg, now)
  BY SubmitFacts DEF StepInv
<1>1. \A l : Tradable(l, now)' <=> Tradable(l, now)
  BY <1>0 DEF Tradable
<1>2. HeldIsTradable'
  <2>1. ASSUME NEW i \in 1 .. Len(fills')
        PROVE  Tradable(fills'[i].leg, now)
    BY <1>0 DEF StepInv, HeldIsTradable
  <2>2. \A l \in Legs : positions'[l] # 0 => Tradable(l, now)
    BY DEF StepInv, HeldIsTradable, portfolioVars
  <2> QED
    BY <1>0, <2>1, <2>2 DEF HeldIsTradable, Tradable
<1>3. PricedIsMarked' /\ CashReconciles'
  BY <1>0 DEF StepInv, PricedIsMarked, CashReconciles, Total, portfolioVars
<1> QED
  BY <1>0, <1>2, <1>3

LEMMA ApproveStep ==
  ASSUME StepInv, Approve
  PROVE  StepInv' /\ (Carry => ~tripped)
<1>0. /\ TypeOK /\ Control /\ NetIsRunningSum /\ pc = "check" /\ intents # << >>
      /\ intents' = Tail(intents) /\ RecordFill
      /\ UNCHANGED <<tripped, peak_equity, composition, portfolioVars, pc, orders, drained, now, steps,
                     spent, applied, due, haltedAt>>
      /\ next_id' = next_id + 1
  BY DEF StepInv, Approve, CheckApproves
<1>1. /\ intents \in Seq(Intents) /\ intents' \in Seq(Intents) /\ Len(intents') = Len(intents) - 1
      /\ \A i \in 1 .. Len(intents') : intents'[i] = intents[i + 1]
      /\ Head(intents) = intents[1] /\ intents[1] \in Intents
  BY <1>0, HeadTailProperties DEF TypeOK
<1> DEFINE first == intents[1]
<1>2. PICK o \in Orders : /\ Submit(o, now)
                          /\ Carry => ~tripped /\ o = Sized(first)
  <2>1. CASE Carry
    BY <1>0, <1>1, <2>1, SizedFacts DEF Approve, CheckApproves
  <2>2. CASE ~Carry
    <3>1. PICK q \in PythonOrders : Submit(WithId(q), now)
      BY <2>2 DEF Approve
    <3>2. WithId(q) \in Orders
      BY <1>0, EngineAssumption DEF WithId, PythonOrders, Orders, TypeOK, GateTypeOK
    <3> QED
      BY <2>2, <3>1, <3>2
  <2> QED
    BY <2>1, <2>2
<1>3. /\ UNCHANGED <<matcher, costs, last_price>>
      /\ ExecTypeOK'
      /\ net' \in Seq([Legs -> Int]) /\ Len(net') = Len(fills') /\ drained' \in 0 .. Len(fills')
      /\ \A l \in Legs : Unsettled(l)' = Unsettled(l) + (IF l = o.leg /\ Tradable(l, now)
                                                         THEN SignedQty(o.side, o.qty) ELSE 0)
  BY <1>0, <1>2, SubmitFacts
<1>4. TypeOK'
  <2>1. PortfolioTypeOK' /\ GateTypeOK'
    BY <1>0 DEF TypeOK, PortfolioTypeOK, GateTypeOK, portfolioVars
  <2> QED
    BY <1>0, <1>1, <1>3, <2>1 DEF TypeOK
<1>5. Control'
  BY <1>0 DEF Control
<1>6. NetIsRunningSum' /\ HeldIsTradable' /\ PricedIsMarked' /\ CashReconciles'
  BY <1>0, <1>2, SubmitKeeps
<1>7. ASSUME Carry
      PROVE  CarryIntents' /\ CapInv' /\ HedgeInv'
  <2>0. ~tripped /\ ~tripped' /\ Carry' /\ due' = due
    BY <1>0, <1>2, <1>7 DEF Carry
  <2>leg. PICK leg \in Legs, target \in Int : first.leg = leg /\ first.target = target
    BY <1>1 DEF Intents
  <2>1. o.leg = leg /\ SignedQty(o.side, o.qty) = Capped(target) - positions[leg]
    BY <1>0, <1>1, <1>2, <1>7, <2>leg, SizedFacts
  <2>2. Len(intents) \in {1, 2} /\ Unsettled(leg) = 0
    BY <1>0, <1>7, <2>leg DEF StepInv, CarryIntents
  <2>3. /\ positions[leg] \in Int /\ Capped(target) \in Int
        /\ Capped(-target) = -Capped(target)
        /\ Abs(Capped(target)) <= MaxPositionQty
    BY <1>0, <2>1, CappedFacts DEF TypeOK, PortfolioTypeOK
  <2>4. Book(leg)' = IF Tradable(leg, now) THEN Capped(target)
                           ELSE Book(leg)
    <3>1. positions' = positions
      BY <1>0 DEF portfolioVars
    <3> QED
      BY <1>3, <2>1, <2>2, <2>3, <3>1 DEF Book
  <2>5. ASSUME NEW l \in Legs, l # leg
        PROVE  Book(l)' = Book(l) /\ Unsettled(l)' = Unsettled(l)
    <3>1. positions' = positions /\ Unsettled(l) \in Int
      BY <1>0, UnsettledType DEF portfolioVars
    <3> QED
      BY <1>3, <2>1, <2>5, <3>1 DEF Book
  <2>6. CapInv'
    <3>1. orders = {} /\ orders' = {}
      BY <1>0 DEF Control
    <3>2. ASSUME NEW l \in Legs
          PROVE  (Abs(Book(l)) <= MaxPositionQty)'
      <4>1. Abs(Book(l)) <= MaxPositionQty
        BY <1>7, <2>0 DEF StepInv, CapInv
      <4>2. Book(l)' = Book(l) \/ Book(l)' = Capped(target)
        BY <2>4, <2>5
      <4> QED
        BY <2>3, <4>1, <4>2 DEF Abs
    <3> QED
      BY <3>1, <3>2 DEF CapInv
  <2>7. \A l : Tradable(l, now)' <=> Tradable(l, now)
    BY <1>0, <1>3 DEF Tradable
  <2>8. CASE Len(intents) = 2
    <3>0. Len(intents') = 1 /\ intents'[1] = intents[2]
      BY <1>1, <2>8
    <3>1. Len(intents') = 1 /\ intents'[1] = intents[2] /\ intents' # << >>
      BY <3>0, EmptySeq, SMTT(30)
    <3>2. /\ leg = Spot /\ intents[2].leg = Futures /\ intents[2].target = -target
          /\ Unsettled(Futures) = 0
          /\ due => \A l \in Legs : Tradable(l, now)
      BY <1>0, <1>7, <2>leg, <2>8 DEF StepInv, CarryIntents
    <3>3. Unsettled(Futures)' = 0
      BY <2>5, <3>2, LegFacts
    <3>4. due => Book(Spot)' = -Capped(intents'[1].target)
      BY <2>1, <2>3, <2>4, <3>1, <3>2, LegFacts
    <3>5. Tradable(Futures, now)' <=> Tradable(Futures, now)
      BY <2>7
    <3>6. CarryIntents'
      <4>1. Capped(intents'[1].target) = Capped(intents[1].target)'
        BY DEF Capped
      <4> QED
        BY <2>0, <3>1, <3>2, <3>3, <3>4, <3>5, <4>1, LegFacts DEF CarryIntents
    <3> QED
      BY <2>6, <3>1, <3>6 DEF HedgeInv
  <2>9. CASE Len(intents) = 1
    <3>1. intents' = << >>
      BY <1>1, <2>9, EmptySeq
    <3>2. /\ leg = Futures
          /\ due => Tradable(Futures, now)
          /\ due => Book(Spot) = -Capped(target)
      BY <1>0, <1>7, <2>leg, <2>0, <2>9 DEF StepInv, CarryIntents
    <3>3. due => Book(Spot)' = -Book(Futures)'
      BY <2>4, <2>5, <3>2, LegFacts
    <3> QED
      BY <2>0, <2>6, <3>1, <3>3 DEF CarryIntents, HedgeInv
  <2> QED
    BY <2>2, <2>8, <2>9
<1>8. ASSUME ~Carry
      PROVE  CarryIntents' /\ CapInv' /\ HedgeInv'
  BY <1>0, <1>8 DEF Carry, CarryIntents, CapInv, HedgeInv
<1>9. FlattenOrders'
  BY <1>0 DEF FlattenOrders, Control
<1> QED
  BY <1>2, <1>4, <1>5, <1>6, <1>7, <1>8, <1>9 DEF StepInv

LEMMA EquityType ==
  ASSUME TypeOK
  PROVE  Equity \in Int
<1>1. /\ cash \in Int /\ Scale \in Int
      /\ positions[Spot] \in Int /\ positions[Futures] \in Int
      /\ mark_price[Spot] \in Int /\ mark_price[Futures] \in Int
  BY LegFacts, MoneyAssumption DEF TypeOK, PortfolioTypeOK
<1>2. \A q, p \in Int : Notional(q, p) \in Int
  BY MoneyAssumption DEF Notional
<1>3. Notional(positions[Spot], mark_price[Spot]) \in Int
  BY <1>1, <1>2
<1>4. Notional(positions[Futures], mark_price[Futures]) \in Int
  BY <1>1, <1>2
<1> QED
  BY <1>1, <1>3, <1>4 DEF Equity

\* A tracked leg's flatten order is well formed and undoes its position.
LEMMA FlattenFacts ==
  ASSUME TypeOK
  PROVE  /\ Cardinality(Held) \in Nat
         /\ \A i \in Held : LET o == FlattenOrder(i)
                            IN  /\ o \in Orders /\ o.leg = Tracked[i]
                                /\ SignedQty(o.side, o.qty) = -positions[o.leg]
                                /\ positions[o.leg] # 0
<1>0. Tracked \in Seq(Legs) /\ Len(Tracked) \in Nat /\ DOMAIN Tracked = 1 .. Len(Tracked)
  BY GateAssumption
<1>1. IsFiniteSet(1 .. Len(Tracked))
  BY <1>0, FS_Interval
<1>2. \A S \in SUBSET (1 .. Len(Tracked)) : Cardinality(S) \in Nat
  <2> TAKE S \in SUBSET (1 .. Len(Tracked))
  <2>1. IsFiniteSet(S)
    BY <1>1, FS_Subset
  <2> QED
    BY <2>1, FS_CardinalityType
<1>3. Held \in SUBSET (1 .. Len(Tracked))
  BY <1>0 DEF Held
<1>4. ASSUME NEW i \in Held
      PROVE  LET o == FlattenOrder(i)
             IN  /\ o \in Orders /\ o.leg = Tracked[i]
                 /\ SignedQty(o.side, o.qty) = -positions[o.leg]
                 /\ positions[o.leg] # 0
  <2> DEFINE before == Cardinality({j \in Held : j < i})
             leg == Tracked[i]
  <2>1. before \in Nat
    <3>1. {j \in Held : j < i} \in SUBSET (1 .. Len(Tracked))
      BY <1>3
    <3> QED
      BY <1>2, <3>1
  <2>2. leg \in Legs /\ positions[leg] \in Int /\ positions[leg] # 0
    BY <1>0, <1>3 DEF Held, TypeOK, PortfolioTypeOK
  <2>3. FlattenOrder(i) = [id |-> next_id + before, leg |-> leg,
                           side |-> IF positions[leg] > 0 THEN "Sell" ELSE "Buy",
                           qty |-> Abs(positions[leg])]
    BY DEF FlattenOrder
  <2> HIDE DEF before, leg
  <2>4. next_id + before \in Nat
    BY <2>1 DEF TypeOK, GateTypeOK
  <2>5. Abs(positions[leg]) \in Nat
    BY <2>2 DEF Abs
  <2>6. FlattenOrder(i) \in Orders
    BY <2>2, <2>3, <2>4, <2>5 DEF Orders, Sides
  <2>7. SignedQty(FlattenOrder(i).side, FlattenOrder(i).qty) = -positions[leg]
    BY <2>2, <2>3 DEF SignedQty, Abs
  <2> QED
    BY <2>2, <2>3, <2>6, <2>7 DEF leg
<1> QED
  BY <1>2, <1>3, <1>4

LEMMA TickStep ==
  ASSUME StepInv, Tick
  PROVE  StepInv'
<1>0. /\ TypeOK /\ Control /\ pc = "check" /\ pc' = "settle" /\ intents = << >>
      /\ haltedAt' = (IF Carry /\ Breached THEN LeftByTrip ELSE haltedAt)
      /\ UNCHANGED <<composition, portfolioVars, execVars, intents, drained, now, steps, net, spent,
                     applied, due>>
  BY DEF StepInv, Tick
<1>1. GateTypeOK' /\ orders' \subseteq Orders
  <2>0. next_id \in Nat \ {0} /\ tripped \in BOOLEAN /\ peak_equity \in Nat
    BY <1>0 DEF TypeOK, GateTypeOK
  <2>1. CASE Carry
    <3>0. OnTick /\ orders' = TickOrders
      BY <2>1 DEF Tick
    <3>1. peak_equity' \in Nat
      <4>1. Equity \in Int
        BY <1>0, EquityType
      <4> QED
        BY <2>0, <3>0, <4>1 DEF OnTick, Peak, MaxInt
    <3>2. next_id' \in Nat \ {0}
      <4>1. Cardinality(Held) \in Nat
        BY <1>0, FlattenFacts
      <4>2. next_id' = next_id \/ next_id' = next_id + Cardinality(Held)
        BY <3>0 DEF OnTick
      <4> QED
        BY <2>0, <4>1, <4>2
    <3>3. tripped' \in BOOLEAN
      BY <3>0 DEF OnTick
    <3>4. orders' \subseteq Orders
      BY <1>0, <3>0, FlattenFacts DEF TickOrders
    <3> QED
      BY <3>1, <3>2, <3>3, <3>4 DEF GateTypeOK
  <2>2. CASE ~Carry
    <3>1. /\ tripped' = tripped /\ peak_equity' = peak_equity
          /\ \/ orders' = {} /\ next_id' = next_id
             \/ next_id' = next_id + 1 /\ \E o \in PythonOrders : orders' = {WithId(o)}
      BY <2>2 DEF Tick
    <3>2. \A o \in PythonOrders : WithId(o) \in Orders
      BY <2>0, EngineAssumption DEF WithId, PythonOrders, Orders
    <3>3. orders' \subseteq Orders
      BY <3>1, <3>2
    <3> QED
      BY <2>0, <3>1, <3>3 DEF GateTypeOK
  <2> QED
    BY <2>1, <2>2
<1>2. haltedAt' \in [Legs -> Int] \cup {NotHalted}
  <2>1. LeftByTrip \in [Legs -> Int]
    BY <1>0, UnsettledType DEF LeftByTrip, TypeOK, PortfolioTypeOK
  <2> QED
    BY <1>0, <2>1 DEF TypeOK
<1>3. TypeOK'
  <2>1. PortfolioTypeOK' /\ ExecTypeOK'
    BY <1>0 DEF TypeOK, PortfolioTypeOK, ExecTypeOK, portfolioVars, execVars
  <2> QED
    BY <1>0, <1>1, <1>2, <2>1 DEF TypeOK, execVars
<1>4. Control'
  BY <1>0 DEF Control
<1>5. NetIsRunningSum' /\ HeldIsTradable' /\ PricedIsMarked' /\ CashReconciles'
  BY <1>0 DEF StepInv, NetIsRunningSum, Net, HeldIsTradable, Tradable, PricedIsMarked,
     CashReconciles, Total, portfolioVars, execVars
<1>6. /\ Carry' <=> Carry
      /\ due' = due /\ intents' = intents
      /\ \A l \in Legs : Book(l)' = Book(l)
      /\ positions' = positions
  BY <1>0 DEF Carry, Book, Unsettled, Net, portfolioVars, execVars
<1>7. ASSUME Carry, ~tripped'
      PROVE  ~tripped /\ orders' = {}
  BY <1>7 DEF Tick, OnTick, TickOrders
<1>8. CarryIntents' /\ CapInv' /\ HedgeInv'
  <2>1. CarryIntents'
    BY <1>0, <1>6 DEF CarryIntents
  <2>2. CapInv'
    BY <1>6, <1>7 DEF StepInv, CapInv, Abs
  <2>3. HedgeInv'
    BY <1>6, <1>7, LegFacts DEF StepInv, HedgeInv
  <2> QED
    BY <2>1, <2>2, <2>3
<1>9. FlattenOrders'
  <2>1. ASSUME Carry, NEW o \in orders'
        PROVE  SignedQty(o.side, o.qty) = -positions[o.leg] /\ positions[o.leg] # 0
    <3>1. PICK i \in Held : o = FlattenOrder(i)
      BY <2>1 DEF Tick, TickOrders
    <3> QED
      BY <1>0, <3>1, FlattenFacts
  <2> QED
    BY <1>6, <2>1 DEF FlattenOrders
<1> QED
  BY <1>3, <1>4, <1>5, <1>8, <1>9 DEF StepInv

LEMMA SubmitTickOrderStep ==
  ASSUME StepInv, SubmitTickOrder
  PROVE  StepInv'
<1>0. /\ TypeOK /\ Control /\ NetIsRunningSum /\ pc = "settle" /\ RecordFill
      /\ UNCHANGED <<composition, portfolioVars, gateVars, pc, intents, drained, now, steps, spent,
                     applied, due, haltedAt>>
  BY DEF StepInv, SubmitTickOrder
<1>1. PICK o \in orders : Submit(o, now) /\ orders' = orders \ {o}
  BY DEF SubmitTickOrder
<1>2. o \in Orders /\ orders' \subseteq Orders
  BY <1>0, <1>1 DEF TypeOK
<1>3. /\ UNCHANGED <<matcher, costs, last_price>>
      /\ ExecTypeOK'
      /\ net' \in Seq([Legs -> Int]) /\ Len(net') = Len(fills') /\ drained' \in 0 .. Len(fills')
  BY <1>0, <1>1, <1>2, SubmitFacts
<1>4. TypeOK'
  <2>1. PortfolioTypeOK' /\ GateTypeOK'
    BY <1>0 DEF TypeOK, PortfolioTypeOK, GateTypeOK, portfolioVars, gateVars
  <2> QED
    BY <1>0, <1>2, <1>3, <2>1 DEF TypeOK
<1>5. Control'
  BY <1>0 DEF Control
<1>6. NetIsRunningSum' /\ HeldIsTradable' /\ PricedIsMarked' /\ CashReconciles'
  BY <1>0, <1>1, <1>2, SubmitKeeps
<1>7. Carry => tripped /\ tripped'
  BY <1>0, <1>1 DEF StepInv, CapInv, gateVars
<1>8. Carry' <=> Carry
  BY <1>0 DEF Carry
<1>9. CarryIntents' /\ CapInv' /\ HedgeInv'
  BY <1>0, <1>7, <1>8 DEF CarryIntents, CapInv, HedgeInv, Control
<1>10. FlattenOrders'
  BY <1>0, <1>1, <1>8 DEF StepInv, FlattenOrders, portfolioVars
<1> QED
  BY <1>4, <1>5, <1>6, <1>9, <1>10 DEF StepInv

\* A drained fill moves from what is unsettled into the position: the book with
\* its fills applied stays what it was.
LEMMA DrainFillStep ==
  ASSUME StepInv, DrainFill
  PROVE  /\ StepInv'
         /\ \A l \in Legs : Book(l)' = Book(l)
<1> DEFINE f == fills[drained + 1]
           q == SignedQty(f.side, f.qty)
<1>0. /\ TypeOK /\ Control /\ pc = "settle" /\ orders = {} /\ drained < Len(fills)
      /\ ApplyFill(f) /\ spent' = spent + Cost(f) /\ applied' = Append(applied, f.id)
      /\ drained' = drained + 1
      /\ UNCHANGED <<composition, gateVars, execVars, pc, intents, orders, now, steps, net, due, haltedAt>>
  BY DEF StepInv, DrainFill
<1>1. /\ Len(fills) \in Nat /\ drained \in Nat /\ drained + 1 \in 1 .. Len(fills)
      /\ f \in Fills
  BY <1>0, ElementOfSeq DEF TypeOK, ExecTypeOK
<1>2. /\ f.leg \in Legs /\ f.side \in Sides /\ f.qty \in Nat /\ f.price \in Int /\ f.fee \in Int
      /\ f.id \in Nat
  BY <1>1 DEF Fills
<1>3. q \in Int /\ Cost(f) \in Int
  <2>1. q \in Int
    BY <1>2, SignedQtyType
  <2> QED
    BY <1>2, <2>1 DEF Cost
<1>4. /\ positions' = [positions EXCEPT ![f.leg] = @ + q]
      /\ cash' = cash - (Cost(f) + f.fee)
      /\ fees' = [fees EXCEPT ![f.leg] = @ + f.fee]
      /\ UNCHANGED <<mark_price, funding_mark_price, funding_paid, funding_received>>
  BY <1>0 DEF ApplyFill
<1>5. Net(drained + 1) = [Net(drained) EXCEPT ![f.leg] = @ + q]
  <2>1. PICK i \in 1 .. Len(fills) : i = drained + 1
    BY <1>1
  <2>2. net[i] = [Net(i - 1) EXCEPT ![fills[i].leg] = @ + SignedQty(fills[i].side, fills[i].qty)]
    BY DEF StepInv, NetIsRunningSum
  <2>3. i - 1 = drained /\ i # 0
    BY <1>1, <2>1
  <2>4. Net(i) = net[i]
    BY <2>3 DEF Net
  <2>5. fills[i] = f
    BY <2>1
  <2> HIDE DEF f
  <2> QED
    BY <2>1, <2>2, <2>3, <2>4, <2>5
<1> HIDE DEF f, q
<1>6. TypeOK'
  <2>1. positions' \in [Legs -> Int] /\ fees' \in [Legs -> Int] /\ cash' \in Int
    <3>1. positions \in [Legs -> Int] /\ fees \in [Legs -> Int] /\ cash \in Int
      BY <1>0 DEF TypeOK, PortfolioTypeOK
    <3>2. positions' \in [Legs -> Int]
      BY <1>2, <1>3, <1>4, <3>1
    <3>3. fees' \in [Legs -> Int]
      BY <1>2, <1>4, <3>1
    <3>4. cash' \in Int
      BY <1>2, <1>3, <1>4, <3>1
    <3> QED
      BY <3>2, <3>3, <3>4
  <2>2. PortfolioTypeOK'
    BY <1>0, <1>4, <2>1 DEF TypeOK, PortfolioTypeOK
  <2>3. GateTypeOK' /\ ExecTypeOK'
    BY <1>0 DEF TypeOK, GateTypeOK, ExecTypeOK, gateVars, execVars
  <2>4. applied' \in Seq(Nat)
    BY <1>0, <1>2, AppendProperties DEF TypeOK
  <2>5. spent' \in Int /\ drained' \in 0 .. Len(fills')
    BY <1>0, <1>1, <1>3 DEF TypeOK, execVars
  <2> QED
    BY <1>0, <2>2, <2>3, <2>4, <2>5 DEF TypeOK, execVars
<1>7. Control'
  BY <1>0 DEF Control
<1>8. NetIsRunningSum' /\ PricedIsMarked'
  BY <1>0, <1>4 DEF StepInv, NetIsRunningSum, Net, PricedIsMarked, execVars
<1>9. HeldIsTradable'
  <2>1. Tradable(f.leg, now)
    BY <1>1 DEF StepInv, HeldIsTradable, f
  <2>2. \A l \in Legs : l # f.leg => positions'[l] = positions[l]
    BY <1>4, <1>0 DEF TypeOK, PortfolioTypeOK
  <2>3. \A l \in Legs : positions'[l] # 0 => Tradable(l, now)
    BY <2>1, <2>2 DEF StepInv, HeldIsTradable
  <2> QED
    BY <1>0, <2>3 DEF StepInv, HeldIsTradable, Tradable, execVars
<1>10. CashReconciles'
  <2>1. /\ fees \in [Legs -> Int] /\ cash \in Int /\ spent \in Int
        /\ funding_paid[Spot] \in Int /\ funding_paid[Futures] \in Int
        /\ funding_received[Spot] \in Int /\ funding_received[Futures] \in Int
    BY <1>0, LegFacts DEF TypeOK, PortfolioTypeOK
  <2>2. fees'[Spot] + fees'[Futures] = fees[Spot] + fees[Futures] + f.fee
    BY <1>2, <1>4, <2>1, LegFacts DEF Legs
  <2>3. fees[Spot] \in Int /\ fees[Futures] \in Int /\ fees'[Spot] \in Int /\ fees'[Futures] \in Int
    BY <2>1, <1>6, LegFacts DEF TypeOK, PortfolioTypeOK
  <2>4. cash = (funding_received[Spot] + funding_received[Futures])
               - (funding_paid[Spot] + funding_paid[Futures]) - (fees[Spot] + fees[Futures]) - spent
    BY DEF StepInv, CashReconciles, Total
  <2>5. /\ cash' = cash - (Cost(f) + f.fee) /\ spent' = spent + Cost(f)
        /\ UNCHANGED <<funding_paid, funding_received>>
    BY <1>0, <1>4
  <2>6. cash' = (funding_received[Spot] + funding_received[Futures])
                - (funding_paid[Spot] + funding_paid[Futures]) - (fees'[Spot] + fees'[Futures]) - spent'
    BY <1>2, <1>3, <2>1, <2>2, <2>3, <2>4, <2>5
  <2> QED
    BY <2>5, <2>6 DEF CashReconciles, Total
<1>11. ASSUME NEW l \in Legs
       PROVE  Book(l)' = Book(l)
  <2>1. /\ Net(Len(fills))[l] \in Int /\ Net(drained)[l] \in Int /\ positions[l] \in Int
        /\ Net(drained) \in [Legs -> Int] /\ positions \in [Legs -> Int]
    <3>1. Net(Len(fills)) \in [Legs -> Int] /\ Net(drained) \in [Legs -> Int]
      BY <1>0, <1>1, NetType
    <3> QED
      BY <1>0, <3>1 DEF TypeOK, PortfolioTypeOK
  <2>2. Book(l)' = positions'[l] + (Net(Len(fills))[l] - Net(drained + 1)[l])
    BY <1>0 DEF Book, Unsettled, Net, execVars
  <2>3. CASE l = f.leg
    <3>1. positions'[l] = positions[l] + q /\ Net(drained + 1)[l] = Net(drained)[l] + q
      BY <1>4, <1>5, <2>1, <2>3
    <3> QED
      BY <1>3, <2>1, <2>2, <3>1 DEF Book, Unsettled
  <2>4. CASE l # f.leg
    BY <1>2, <1>3, <1>4, <1>5, <2>1, <2>2, <2>4 DEF Book, Unsettled
  <2> QED
    BY <2>3, <2>4
<1>12. Carry' <=> Carry
  BY <1>0 DEF Carry
<1>13. CarryIntents' /\ CapInv' /\ HedgeInv'
  <2>1. CarryIntents'
    BY <1>0 DEF CarryIntents, Control
  <2>2. CapInv'
    BY <1>0, <1>11, <1>12 DEF StepInv, CapInv, Abs, gateVars
  <2>3. HedgeInv'
    BY <1>0, <1>11, <1>12, LegFacts DEF StepInv, HedgeInv, gateVars
  <2> QED
    BY <2>1, <2>2, <2>3
<1>14. FlattenOrders'
  BY <1>0 DEF FlattenOrders
<1> QED
  BY <1>6, <1>7, <1>8, <1>9, <1>10, <1>11, <1>13, <1>14 DEF StepInv

LEMMA InitStepInv ==
  ASSUME Init
  PROVE  StepInv /\ HaltInv
<1>0. /\ PortfolioInit /\ GateInit /\ ExecInit
      /\ composition \in Compositions /\ now = 0
      /\ pc = "pull" /\ intents = << >> /\ orders = {} /\ drained = 0 /\ steps = 0
      /\ net = << >> /\ spent = 0 /\ applied = << >> /\ due = FALSE
      /\ haltedAt = NotHalted
  BY DEF Init
<1>1. /\ fills = << >> /\ rejects = << >> /\ last_price = Zero /\ positions = Zero
      /\ matcher \in {"last_trade", "cost_aware"} /\ costs \subseteq CostLines
  BY <1>0, RowsAreCostLines DEF ExecInit, PortfolioInit
<1>2. Len(fills) = 0 /\ Len(net) = 0
  BY <1>0, <1>1
<1>3. TypeOK
  <2>1. PortfolioTypeOK
    BY <1>0, LegFacts DEF PortfolioInit, PortfolioTypeOK
  <2>2. GateTypeOK
    <3>1. next_id = 1 /\ tripped = FALSE /\ peak_equity = 0
      BY <1>0 DEF GateInit
    <3>2. tripped \in BOOLEAN
      BY <3>1, Zenon
    <3> QED
      BY <3>1, <3>2 DEF GateTypeOK
  <2>3. ExecTypeOK
    BY <1>1, LegFacts, EmptySeq DEF ExecTypeOK
  <2>4. /\ intents \in Seq(Intents) /\ net \in Seq([Legs -> Int]) /\ applied \in Seq(Nat)
    BY <1>0, EmptySeq
  <2>5. due \in BOOLEAN
    BY <1>0, Zenon
  <2>6. drained \in 0 .. Len(fills) /\ now \in 0 .. MaxWeek /\ steps \in Nat /\ spent \in Int
    BY <1>0, <1>2, EngineAssumption
  <2> QED
    BY <1>0, <1>2, <2>1, <2>2, <2>3, <2>4, <2>5, <2>6 DEF TypeOK
<1>4. Control /\ NetIsRunningSum /\ HeldIsTradable /\ PricedIsMarked
  BY <1>0, <1>1, <1>2, LegFacts DEF Control, NetIsRunningSum, HeldIsTradable, PricedIsMarked
<1>5. CashReconciles
  BY <1>0, LegFacts DEF CashReconciles, Total, PortfolioInit
<1>6. \A l \in Legs : Book(l) = 0
  BY <1>0, <1>1, <1>2, LegFacts DEF Book, Unsettled, Net
<1>7. CarryIntents /\ CapInv /\ HedgeInv /\ FlattenOrders
  BY <1>0, <1>6, GateAssumption DEF CarryIntents, CapInv, HedgeInv, FlattenOrders, Abs
<1>8. HaltInv
  BY <1>0 DEF HaltInv
<1> QED
  BY <1>3, <1>4, <1>5, <1>7, <1>8 DEF StepInv

LEMMA StutterStep ==
  ASSUME StepInv, UNCHANGED vars
  PROVE  StepInv'
<1>0. UNCHANGED <<portfolioVars, gateVars, execVars, stepVars, history>>
  BY DEF vars
<1>1. TypeOK'
  BY <1>0 DEF StepInv, TypeOK, PortfolioTypeOK, GateTypeOK, ExecTypeOK, portfolioVars, gateVars,
     execVars, stepVars, history
<1>2. Control' /\ NetIsRunningSum' /\ HeldIsTradable' /\ PricedIsMarked' /\ CashReconciles'
  BY <1>0 DEF StepInv, Control, NetIsRunningSum, Net, HeldIsTradable, Tradable, PricedIsMarked,
     CashReconciles, Total, portfolioVars, execVars, stepVars, history
<1>3. CarryIntents' /\ CapInv' /\ HedgeInv' /\ FlattenOrders'
  BY <1>0 DEF StepInv, CarryIntents, CapInv, HedgeInv, FlattenOrders, Carry, Book, Unsettled, Net,
     Tradable, Capped, Abs, portfolioVars, gateVars, execVars, stepVars, history
<1> QED
  BY <1>1, <1>2, <1>3 DEF StepInv
-----------------------------------------------------------------------------
(* The theorems.                                                           *)

\* Every step of the engine preserves the inductive invariant.
THEOREM StepInvariance == Spec => []StepInv
<1>1. Init => StepInv
  BY InitStepInv
<1>2. StepInv /\ [Next]_vars => StepInv'
  BY PullEventStep, PullTimerStep, RejectStep, ApproveStep, TickStep, SubmitTickOrderStep,
     DrainFillStep, FinishStep, StutterStep DEF Next
<1> QED
  BY <1>1, <1>2, PTL DEF Spec

\* The book, the gate, the matcher and the step keep their types: no more fills
\* are drained than there are, and neither what was paid nor what was received
\* in funding is ever negative.
THEOREM TypeCorrect == Spec => []TypeOK
<1>1. StepInv => TypeOK
  BY DEF StepInv
<1> QED
  BY <1>1, StepInvariance, PTL

\* Cash is explained by trades, fees and funding after every call of step(),
\* whatever the strategy and the gate answer.
THEOREM CashExplained == Spec => []CashReconciles
<1>1. StepInv => CashReconciles
  BY DEF StepInv
<1> QED
  BY <1>1, StepInvariance, PTL

\* equity() never values an open position at zero: an order fills only at a
\* price some event set, and that event marked the leg too.
THEOREM HeldIsMarked == Spec => []MarkedWhenHeld
<1>1. StepInv => MarkedWhenHeld
  BY DEF StepInv, HeldIsTradable, PricedIsMarked, Tradable, MarkedWhenHeld
<1> QED
  BY <1>1, StepInvariance, PTL

\* Between steps every fill is settled, so the book is the positions.
LEMMA BookAtRest ==
  ASSUME StepInv, pc = "pull", NEW l \in Legs
  PROVE  Book(l) = positions[l] /\ positions[l] \in Int /\ intents = << >> /\ orders = {}
<1>1. TypeOK /\ drained = Len(fills) /\ Len(fills) \in Nat /\ intents = << >> /\ orders = {}
  BY DEF StepInv, Control, TypeOK, ExecTypeOK
<1>2. Net(Len(fills))[l] \in Int /\ positions[l] \in Int
  BY <1>1, NetType DEF TypeOK, PortfolioTypeOK
<1> QED
  BY <1>1, <1>2 DEF Book, Unsettled

\* check()'s cap holds of what the book becomes, rejected orders and late
\* fills included, until the kill switch trips.
THEOREM ExposureCapped == Spec => []CapRespected
<1>1. StepInv => CapRespected
  <2> SUFFICES ASSUME StepInv, Carry, pc = "pull", ~tripped, NEW l \in Legs
               PROVE  Abs(positions[l]) <= MaxPositionQty
    BY DEF CapRespected
  <2>1. Book(l) = positions[l]
    BY BookAtRest
  <2>2. Abs(Book(l)) <= MaxPositionQty
    BY DEF StepInv, CapInv
  <2> QED
    BY <2>1, <2>2
<1> QED
  BY <1>1, StepInvariance, PTL

\* A settlement that finds both legs priced leaves the carry book hedged, for
\* every cap, target and pair of thresholds.
THEOREM BookHedged == Spec => []HedgedWhenPriced
<1>1. StepInv => HedgedWhenPriced
  <2> SUFFICES ASSUME StepInv, Carry, pc = "pull", due, ~tripped
               PROVE  positions[Spot] = -positions[Futures]
    BY DEF HedgedWhenPriced
  <2>1. Book(Spot) = positions[Spot] /\ Book(Futures) = positions[Futures] /\ intents = << >>
    BY BookAtRest, LegFacts
  <2>2. Book(Spot) = -Book(Futures)
    BY <2>1 DEF StepInv, HedgeInv
  <2> QED
    BY <2>1, <2>2
<1> QED
  BY <1>1, StepInvariance, PTL
-----------------------------------------------------------------------------
(* The kill switch.                                                        *)

\* The gate's config names each instrument once.
TrackedOnce == \A i, j \in DOMAIN Tracked : Tracked[i] = Tracked[j] => i = j

\* Where neither the book nor the orders change, nor does what a trip left.
LEMMA HaltKept ==
  ASSUME HaltInv, \A l \in Legs : Book(l)' = Book(l), UNCHANGED <<composition, tripped, haltedAt, orders>>,
         orders = {} \/ UNCHANGED positions
  PROVE  HaltInv'
<1>1. Carry' <=> Carry
  BY DEF Carry
<1>2. \A l \in Legs : Pending(l)' = Pending(l)
  BY DEF Pending
<1> QED
  BY <1>1, <1>2 DEF HaltInv, NotHalted

\* on_tick() that trips: a tracked leg has an order exactly when it holds a
\* position, so the fills still to be drained are all that is left of it.
LEMMA TripHalts ==
  ASSUME StepInv, HaltInv, Tick, TrackedOnce
  PROVE  HaltInv'
<1>0. /\ TypeOK /\ Control /\ pc = "check" /\ orders = {}
      /\ UNCHANGED <<composition, portfolioVars, execVars, drained, net>>
  BY DEF StepInv, Control, Tick
<1>1. /\ Carry' <=> Carry
      /\ positions' = positions
      /\ \A l \in Legs : Book(l)' = Book(l)
  BY <1>0 DEF Carry, Book, Unsettled, Net, portfolioVars, execVars
<1>2. ASSUME Carry, Breached
      PROVE  HaltInv'
  <2>1. /\ haltedAt' = LeftByTrip /\ tripped' /\ orders' = {FlattenOrder(i) : i \in Held}
    BY <1>2 DEF Tick, OnTick, TickOrders
  <2>2. \A o \in orders' : \E i \in Held : o = FlattenOrder(i) /\ o.leg = Tracked[i]
    BY <1>0, <2>1, FlattenFacts
  <2>3. ASSUME NEW l \in Legs
        PROVE  Book(l)' + Pending(l)' = LeftByTrip[l]
    <3>0. positions[l] \in Int /\ Unsettled(l) \in Int
      BY <1>0, UnsettledType DEF TypeOK, PortfolioTypeOK
    <3>1. (\E o \in orders' : o.leg = l) <=> \E i \in Held : Tracked[i] = l
      BY <1>0, <2>1, <2>2, FlattenFacts
    <3>2. (\E i \in Held : Tracked[i] = l) <=> ((\E i \in DOMAIN Tracked : Tracked[i] = l) /\ positions[l] # 0)
      BY DEF Held
    <3>3. Pending(l)' = IF \E o \in orders' : o.leg = l THEN -positions[l] ELSE 0
      BY <1>1 DEF Pending
    <3>4. Book(l)' = positions[l] + Unsettled(l)
      BY <1>1 DEF Book
    <3>5. LeftByTrip[l] = (IF \E i \in DOMAIN Tracked : Tracked[i] = l THEN 0 ELSE positions[l])
                          + Unsettled(l)
      BY DEF LeftByTrip
    <3> QED
      BY <3>0, <3>1, <3>2, <3>3, <3>4, <3>5
  <2>4. ASSUME NEW o \in orders', NEW q \in orders', o.leg = q.leg
        PROVE  o = q
    <3>1. PICK i \in Held : o = FlattenOrder(i) /\ o.leg = Tracked[i]
      BY <2>2
    <3>2. PICK j \in Held : q = FlattenOrder(j) /\ q.leg = Tracked[j]
      BY <2>2
    <3>3. i = j
      BY <2>4, <3>1, <3>2 DEF TrackedOnce, Held
    <3> QED
      BY <3>1, <3>2, <3>3
  <2> QED
    BY <1>1, <1>2, <2>1, <2>3, <2>4 DEF HaltInv
<1>3. ASSUME ~(Carry /\ Breached)
      PROVE  HaltInv'
  <2> SUFFICES ASSUME haltedAt' # NotHalted
               PROVE  HaltInv'
    BY DEF HaltInv
  <2>1. haltedAt' = haltedAt
    BY <1>3 DEF Tick
  <2>2. haltedAt # NotHalted
    BY <2>1 DEF NotHalted
  <2>3. Carry /\ tripped
    BY <2>2 DEF HaltInv
  <2>4. tripped' = tripped /\ orders' = {}
    <3>1. OnTick /\ orders' = TickOrders /\ ~Breached
      BY <1>3, <2>3 DEF Tick
    <3>2. tripped' /\ orders' = {}
      BY <2>3, <3>1 DEF OnTick, TickOrders
    <3>3. tripped \in BOOLEAN /\ tripped' \in BOOLEAN
      BY <1>0, TickStep DEF StepInv, TypeOK, GateTypeOK
    <3> QED
      BY <2>3, <3>2, <3>3
  <2> QED
    BY <1>0, <1>1, <2>1, <2>4, HaltKept
<1> QED
  BY <1>2, <1>3

\* One of the trip's orders is filled: none is ever rejected, since a leg that
\* holds a position can be traded.
LEMMA FlattenFills ==
  ASSUME StepInv, HaltInv, SubmitTickOrder
  PROVE  HaltInv'
<1>0. /\ TypeOK /\ NetIsRunningSum /\ RecordFill
      /\ UNCHANGED <<composition, portfolioVars, gateVars, drained, now, haltedAt>>
  BY DEF StepInv, SubmitTickOrder
<1>1. PICK o \in orders : Submit(o, now) /\ orders' = orders \ {o}
  BY DEF SubmitTickOrder
<1> SUFFICES ASSUME haltedAt' # NotHalted
             PROVE  HaltInv'
  BY DEF HaltInv
<1>2. /\ Carry /\ Carry' /\ tripped /\ tripped'
      /\ \A l \in Legs : Book(l) + Pending(l) = haltedAt[l]
      /\ \A p, q \in orders : p.leg = q.leg => p = q
  BY <1>0 DEF HaltInv, NotHalted, Carry, gateVars
<1>3. /\ o \in Orders /\ o.leg \in Legs
      /\ SignedQty(o.side, o.qty) = -positions[o.leg] /\ Tradable(o.leg, now)
  BY <1>0, <1>1, <1>2 DEF StepInv, TypeOK, FlattenOrders, HeldIsTradable, Orders
<1>4. ASSUME NEW l \in Legs
      PROVE  Book(l)' + Pending(l)' = Book(l) + Pending(l)
  <2>0. positions[l] \in Int /\ Unsettled(l) \in Int /\ positions' = positions
    BY <1>0, UnsettledType DEF TypeOK, PortfolioTypeOK, portfolioVars
  <2>1. Unsettled(l)' = Unsettled(l) + (IF l = o.leg /\ Tradable(l, now)
                                        THEN SignedQty(o.side, o.qty) ELSE 0)
    BY <1>0, <1>1, <1>3, SubmitFacts
  <2>2. CASE l = o.leg
    <3>1. ~\E p \in orders' : p.leg = l
      BY <1>1, <1>2, <2>2
    <3>2. Pending(l)' = 0 /\ Pending(l) = -positions[l]
      BY <1>1, <2>2, <3>1 DEF Pending
    <3> QED
      BY <1>3, <2>0, <2>1, <2>2, <3>2 DEF Book
  <2>3. CASE l # o.leg
    <3>1. (\E p \in orders' : p.leg = l) <=> \E p \in orders : p.leg = l
      BY <1>1, <2>3
    <3>2. Pending(l)' = Pending(l)
      BY <2>0, <3>1 DEF Pending
    <3> QED
      BY <2>0, <2>1, <2>3, <3>2 DEF Book
  <2> QED
    BY <2>2, <2>3
<1> QED
  BY <1>0, <1>1, <1>2, <1>4 DEF HaltInv

\* The step that trips the gate leaves a tracked leg with exactly what was
\* filled earlier in that step, and the book never changes again: the trip's
\* orders are all filled, and a tripped gate approves nothing.
THEOREM HaltedForGood ==
  ASSUME TrackedOnce
  PROVE  Spec => []HaltIsFinal
<1>1. Init => StepInv /\ HaltInv
  BY InitStepInv
<1>2. ASSUME StepInv, HaltInv, [Next]_vars
      PROVE  HaltInv'
  <2>1. ASSUME NEW ev \in MarketEvents, PullEvent(ev)
        PROVE  HaltInv'
    BY <1>2, <2>1, PullEventStep, HaltKept
       DEF PullEvent, gateVars, StepInv, Control
  <2>2. CASE PullTimer
    <3>1. ~Carry /\ haltedAt' = haltedAt
      BY <1>2, <2>2, PullTimerStep DEF PullTimer, history
    <3> QED
      BY <1>2, <3>1 DEF HaltInv, NotHalted
  <2>3. CASE Reject
    BY <1>2, <2>3, HaltKept DEF Reject, Book, Unsettled, Net, portfolioVars, gateVars, execVars, history
  <2>4. CASE Approve
    <3>1. (Carry => ~tripped) /\ haltedAt' = haltedAt
      BY <1>2, <2>4, ApproveStep DEF Approve
    <3> QED
      BY <1>2, <3>1 DEF HaltInv, NotHalted
  <2>5. CASE Tick
    BY <1>2, <2>5, TripHalts
  <2>6. CASE SubmitTickOrder
    BY <1>2, <2>6, FlattenFills
  <2>7. CASE DrainFill
    BY <1>2, <2>7, DrainFillStep, HaltKept DEF DrainFill, gateVars
  <2>8. CASE Finish
    BY <1>2, <2>8, HaltKept DEF Finish, Book, Unsettled, Net, portfolioVars, gateVars, execVars, history
  <2>9. CASE UNCHANGED vars
    BY <1>2, <2>9, HaltKept DEF vars, Book, Unsettled, Net, portfolioVars, gateVars, execVars, stepVars,
       history
  <2> QED
    BY <1>2, <2>1, <2>2, <2>3, <2>4, <2>5, <2>6, <2>7, <2>8, <2>9 DEF Next
<1>3. StepInv /\ HaltInv => HaltIsFinal
  <2> SUFFICES ASSUME StepInv, HaltInv, pc = "pull", haltedAt # NotHalted
               PROVE  tripped /\ positions = haltedAt
    BY DEF HaltIsFinal
  <2>1. \A l \in Legs : Book(l) = positions[l] /\ positions[l] \in Int /\ orders = {}
    BY BookAtRest
  <2>2. \A l \in Legs : positions[l] = haltedAt[l]
    BY <2>1 DEF HaltInv, Pending
  <2>3. positions \in [Legs -> Int] /\ haltedAt \in [Legs -> Int]
    BY DEF StepInv, TypeOK, PortfolioTypeOK
  <2> QED
    BY <2>2, <2>3 DEF HaltInv
<1> QED
  BY <1>1, <1>2, <1>3, StepInvariance, PTL DEF Spec
=============================================================================
