------------------------------- MODULE Engine -------------------------------
(***************************************************************************)
(* engine/engine.hpp, Engine::step(): one pull from the transport, taken   *)
(* through execution, portfolio, strategy, risk gate and back into the     *)
(* portfolio.  The engine is single-threaded, but step() is a sequence of  *)
(* calls that read state the next ones change, so each call is an action   *)
(* and pc says how far the step has come:                                  *)
(*                                                                         *)
(*   pull   -- transport_.next(), exec_/state_ updates, strategy callback  *)
(*   check  -- risk_.check() and submit for one intent after the other     *)
(*   settle -- risk_.on_tick()'s orders, then drain_outcomes(), then the   *)
(*             recorder                                                    *)
(*                                                                         *)
(* Three compositions exist in the repository.  "carry" is the funding     *)
(* carry backtest: FundingCarryStrategy behind BasicRiskGate, no timer.    *)
(* "costed" is the same on the cost aware matcher, as its round trip test. *)
(* "python" puts callables behind PythonStrategy and PythonRiskGate, which *)
(* may answer anything, with an optional timer.                            *)
(***************************************************************************)
EXTENDS BasicRiskGate, SimExecution, FundingCarryStrategy

CONSTANTS Compositions,    \* those to look at, among "carry", "costed" and "python"
          PythonQtys,      \* quantities a Python callable asks for
          MaxCarrySteps,   \* bound: pulls of the carry engine
          MaxCostedSteps,  \* bound: pulls of the carry engine with costs
          MaxPythonSteps,  \* bound: pulls of the Python engine
          MaxWeek          \* bound: weeks of the cost table a run goes through

ASSUME EngineAssumption == /\ Compositions \subseteq {"carry", "costed", "python"}
                           /\ PythonQtys \subseteq Nat
                           /\ MaxCarrySteps \in Nat /\ MaxCostedSteps \in Nat
                           /\ MaxPythonSteps \in Nat /\ MaxWeek \in Nat

VARIABLES composition,
          pc,         \* where step() is
          intents,    \* the strategy's intents not yet checked
          orders,     \* on_tick()'s orders not yet submitted, a set
          drained,    \* fills already applied by drain_outcomes()
          now,        \* the pull's timestamp, as its week
          steps,      \* pulls completed
          net,        \* history: the quantity filled since the event, after each fill
          spent,      \* history: money the executed trades cost, fees aside
          applied,    \* history: ids of the fills applied, in order
          due,        \* history: both legs had a price at the last settlement
          haltedAt    \* history: the book a trip leaves

stepVars == <<composition, pc, intents, orders, drained, now, steps>>
history == <<net, spent, applied, due, haltedAt>>
vars == <<portfolioVars, gateVars, execVars, stepVars, history>>

NotHalted == << >>

Init == /\ PortfolioInit /\ GateInit /\ ExecInit
        /\ composition \in Compositions
        /\ (matcher = "cost_aware") <=> (composition = "costed")
        /\ now = 0
        /\ pc = "pull" /\ intents = << >> /\ orders = {} /\ drained = 0 /\ steps = 0
        /\ net = << >> /\ spent = 0 /\ applied = << >> /\ due = FALSE
        /\ haltedAt = NotHalted

\* What the strategy may answer: PythonStrategy's callable returns any list
\* of intents (one is enough here), or None.
PythonIntents == {<< >>} \cup {<<[leg |-> l, target |-> q]>> : l \in Legs, q \in PythonQtys}
Carry == composition \in {"carry", "costed"}
StrategyOnEvent(ev) == IF Carry THEN {CarryOnEvent(ev)} ELSE PythonIntents
StrategyOnTimer == IF Carry THEN {<< >>} ELSE PythonIntents

PythonOrders == [leg : Legs, side : Sides, qty : PythonQtys]
MaxSteps == CASE composition = "carry" -> MaxCarrySteps
              [] composition = "costed" -> MaxCostedSteps
              [] OTHER -> MaxPythonSteps

\* By leg, what the first n fills bought and sold, and what is still to be drained.
Net(n) == IF n = 0 THEN Zero ELSE net[n]
Unsettled(l) == Net(Len(fills))[l] - Net(drained)[l]

\* A fill that was just appended goes on record.
RecordFill ==
    net' = IF Len(fills') = Len(fills) THEN net
           ELSE LET f == fills'[Len(fills) + 1]
                IN  Append(net, [Net(Len(fills)) EXCEPT ![f.leg] = @ + SignedQty(f.side, f.qty)])

WithId(o) == [id |-> next_id, leg |-> o.leg, side |-> o.side, qty |-> o.qty]
-----------------------------------------------------------------------------
\* step() with a market event.
PullEvent(ev) ==
    /\ pc = "pull" /\ steps < MaxSteps
    /\ ExecOnMarketEvent(ev)
    /\ ApplyFunding(ev)
    /\ ApplyMarkPrice(ev)
    /\ intents' \in StrategyOnEvent(ev)
    /\ pc' = "check"
    /\ drained' = 0
    /\ now' \in IF matcher = "cost_aware" THEN {now, MinInt(now + 1, MaxWeek)} ELSE {now}
    /\ due' = IF ev.kind = "funding" THEN \A l \in Legs : Tradable(l, now') ELSE due
    /\ net' = << >>
    /\ UNCHANGED <<composition, gateVars, orders, steps, spent, applied, haltedAt>>

\* step() with a timer tick: the execution gateway hears nothing of it.
PullTimer ==
    /\ pc = "pull" /\ steps < MaxSteps
    /\ composition = "python"
    /\ intents' \in StrategyOnTimer
    /\ pc' = "check"
    /\ drained' = 0
    /\ UNCHANGED <<composition, portfolioVars, gateVars, execVars, orders, now, steps, history>>

\* submit_if_approved(risk_.check(intent)): the gate rejects.
Reject ==
    /\ pc = "check" /\ intents # << >>
    /\ Carry => CheckRejects
    /\ intents' = Tail(intents)
    /\ UNCHANGED <<composition, portfolioVars, gateVars, execVars, pc, orders, drained, now, steps, history>>

\* submit_if_approved(risk_.check(intent)): the gate approves or resizes.
Approve ==
    /\ pc = "check" /\ intents # << >>
    /\ IF Carry
       THEN CheckApproves /\ Submit(Sized(Head(intents)), now)
       ELSE next_id' = next_id + 1 /\ \E o \in PythonOrders : Submit(WithId(o), now)
    /\ RecordFill
    /\ UNCHANGED <<tripped, peak_equity>>
    /\ intents' = Tail(intents)
    /\ UNCHANGED <<composition, portfolioVars, pc, orders, drained, now, steps, spent, applied, due, haltedAt>>

\* The book once a trip's orders and those approved before it in the same step
\* are filled: on_tick() flattens the position as it was before them.
LeftByTrip == [l \in Legs |-> (IF \E i \in DOMAIN Tracked : Tracked[i] = l THEN 0 ELSE positions[l])
                              + Unsettled(l)]

\* risk_.on_tick(), once every intent has been dealt with.
Tick ==
    /\ pc = "check" /\ intents = << >>
    /\ IF Carry
       THEN OnTick /\ orders' = TickOrders
       ELSE /\ \/ orders' = {} /\ UNCHANGED next_id
               \/ next_id' = next_id + 1 /\ \E o \in PythonOrders : orders' = {WithId(o)}
            /\ UNCHANGED <<tripped, peak_equity>>
    /\ pc' = "settle"
    /\ haltedAt' = IF Carry /\ Breached THEN LeftByTrip ELSE haltedAt
    /\ UNCHANGED <<composition, portfolioVars, execVars, intents, drained, now, steps, net, spent, applied, due>>

\* submit() of one order of on_tick(), the next in line.
SubmitTickOrder ==
    /\ pc = "settle"
    /\ \E o \in orders : /\ \A q \in orders : o.id <= q.id
                         /\ Submit(o, now)
                         /\ orders' = orders \ {o}
    /\ RecordFill
    /\ UNCHANGED <<composition, portfolioVars, gateVars, pc, intents, drained, now, steps, spent, applied, due, haltedAt>>

\* drain_outcomes(): one fill of exec_.fills() is applied.
DrainFill ==
    /\ pc = "settle" /\ orders = {} /\ drained < Len(fills)
    /\ LET f == fills[drained + 1]
       IN  /\ ApplyFill(f)
           /\ spent' = spent + Cost(f)
           /\ applied' = Append(applied, f.id)
    /\ drained' = drained + 1
    /\ UNCHANGED <<composition, gateVars, execVars, pc, intents, orders, now, steps, net, due, haltedAt>>

\* recorder_.sample() and the return of step().
Finish ==
    /\ pc = "settle" /\ orders = {} /\ drained = Len(fills)
    /\ pc' = "pull"
    /\ steps' = steps + 1
    /\ UNCHANGED <<composition, portfolioVars, gateVars, execVars, intents, orders, drained, now, history>>

Next == \/ \E ev \in MarketEvents : PullEvent(ev)
        \/ PullTimer
        \/ Reject
        \/ Approve
        \/ Tick
        \/ SubmitTickOrder
        \/ DrainFill
        \/ Finish

Spec == Init /\ [][Next]_vars
-----------------------------------------------------------------------------
(* Properties.                                                             *)

\* The types of the book, the gate, the matcher and the step: what was paid
\* and what was received are each never negative, and no more fills are drained
\* than there are.
TypeOK == /\ PortfolioTypeOK /\ GateTypeOK /\ ExecTypeOK
          /\ composition \in Compositions
          /\ pc \in {"pull", "check", "settle"}
          /\ intents \in Seq(Intents)
          /\ orders \subseteq Orders
          /\ drained \in 0 .. Len(fills)
          /\ now \in 0 .. MaxWeek /\ steps \in Nat
          /\ net \in Seq([Legs -> Int]) /\ Len(net) = Len(fills) /\ spent \in Int
          /\ applied \in Seq(Nat)
          /\ due \in BOOLEAN
          /\ haltedAt \in [Legs -> Int] \cup {NotHalted}

\* Cash is always explained by what the portfolio reports: the trades it
\* executed, the fees and the funding it booked per leg.
CashReconciles ==
    cash = Total(funding_received) - Total(funding_paid) - Total(fees) - spent

\* A leg that holds a position has a mark and a price to trade at, so
\* equity() never values an open position at zero.
MarkedWhenHeld ==
    \A l \in Legs : positions[l] # 0 => mark_price[l] # 0 /\ last_price[l] # 0

\* Between steps no position exceeds the exposure cap, as long as the kill
\* switch has not tripped.
CapRespected ==
    (Carry /\ pc = "pull" /\ ~tripped) =>
        \A l \in Legs : Abs(positions[l]) <= MaxPositionQty

\* Until a trip, a settlement that found both legs priced (and costed, on the
\* cost aware matcher) leaves the book
\* hedged, and nothing before the next settlement disturbs that: a leg whose
\* order was rejected earlier is made good.
HedgedWhenPriced ==
    (Carry /\ pc = "pull" /\ due /\ ~tripped) => positions[Spot] = -positions[Futures]

\* The step that trips the gate leaves a tracked leg with exactly what the
\* orders approved earlier in that step filled (on_tick() sizes its flatten
\* orders before they are drained, and none of them is rejected), and from
\* then on the book never changes.
HaltIsFinal == (pc = "pull" /\ haltedAt # NotHalted) => tripped /\ positions = haltedAt

(* A claim the code does not meet; it is refuted by a run of its own.      *)

\* drain_outcomes() applies a fill to the portfolio once.
FillsAppliedOnce ==
    \A i, j \in 1 .. Len(applied) : applied[i] = applied[j] => i = j
=============================================================================
