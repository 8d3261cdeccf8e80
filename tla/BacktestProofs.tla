--------------------------- MODULE BacktestProofs ---------------------------
(***************************************************************************)
(* The engine of a backtest sees one time line, and the timer's ticks on   *)
(* time, and nothing is lost on the way, for all tapes, sink capacities    *)
(* and polling intervals, however the four threads are scheduled and       *)
(* whoever fails.                                                          *)
(***************************************************************************)
EXTENDS Backtest, FiniteSetTheorems, WellFoundedInduction, TLAPS
-----------------------------------------------------------------------------
(* The inductive invariant.                                                *)

\* The types the time line needs.
TypeInv == /\ tape \in Tapes
           /\ spc \in {"round", "after", "stopping", "ended"} /\ sleg \in Legs
           /\ pulled \in [Legs -> Nat] /\ pending \in [Legs -> Nat]
           /\ queue \in [Legs -> Seq(Nat)]
           /\ epc \in {"look", "decide", "poll", "stopping", "ended"} /\ eleg \in Legs
           /\ missing \in BOOLEAN /\ lookahead \in [Legs -> Nat]
           /\ flushing \in BOOLEAN /\ armed \in BOOLEAN /\ next_timer \in Nat
           /\ stepped \in Seq([leg : 0 .. NumLegs, n : Nat, ts : Nat])
           /\ requests \in Nat /\ popped \in Nat /\ held \in BOOLEAN
           /\ broadcasts \in Nat /\ seen \in [{"source", "engine"} -> Nat]
           /\ calling \in [Threads -> Nat \cup {NotCalling}]

\* The source thread may still push, the engine thread may still step.
Pulling == spc \in {"round", "after"}
Stepping == epc \in {"look", "decide", "poll"}

\* Somebody has asked for a stop.
Asked == requests > 0 \/ held \/ broadcasts > 0 \/ \E t \in Threads : calling[t] # NotCalling

\* Nobody asks while both threads are at work, so an engine that flushes has
\* all it will get in its sinks.
StopInv == (Asked \/ flushing) => ~Pulling \/ ~Stepping

\* What leg l has on its way is in the order of its tape.
Line(l) == /\ pulled[l] <= Len(tape[l]) /\ lookahead[l] <= pulled[l] /\ pending[l] <= pulled[l]
           /\ \A i \in 1 .. Len(queue[l]) : /\ lookahead[l] < queue[l][i] /\ queue[l][i] <= pulled[l]
                                            /\ pending[l] # None => queue[l][i] < pending[l]
           /\ \A i, j \in 1 .. Len(queue[l]) : i < j => queue[l][i] < queue[l][j]
           /\ pending[l] # None => lookahead[l] < pending[l]
LineInv == \A l \in Legs : Line(l)

\* The events of leg l that this run may yet step.
Coming(l) == {n \in 1 .. Len(tape[l]) :
                 \/ n = lookahead[l]
                 \/ \E i \in 1 .. Len(queue[l]) : queue[l][i] = n
                 \/ Pulling /\ (n = pending[l] \/ n > pulled[l])}

\* In the pass over the legs, one that has been looked at has an event waiting
\* or will not get another.
Met(l) == missing \/ lookahead[l] # None \/ (flushing /\ queue[l] = << >>)
LookInv == /\ epc \in {"decide", "poll"} => eleg = 1
           /\ epc = "look" => \A l \in Legs : l < eleg => Met(l)
           /\ epc = "decide" => \A l \in Legs : Met(l)

\* What has been stepped comes before all that is coming.
OrderInv == \A i \in 1 .. Len(stepped), l \in Legs : \A n \in Coming(l) :
               Before(stepped[i], [leg |-> l, n |-> n, ts |-> tape[l][n]])

\* The positions of the ticks among the first k that were stepped.
TickSet(k) == {j \in 1 .. k : stepped[j].leg = 0}
Ticks == Cardinality(TickSet(Len(stepped)))

\* The next boundary follows all that has been stepped, and is at most a
\* period after whatever is coming.
TimerInv ==
    TimerPeriod > 0 =>
        /\ armed <=> stepped # << >>
        /\ armed => /\ next_timer = FirstTs + TimerPeriod * Ticks + TimerPeriod
                    /\ \A i \in 1 .. Len(stepped) : stepped[i].ts < next_timer
                    /\ \A l \in Legs : \A n \in Coming(l) : next_timer <= tape[l][n] + TimerPeriod

TimeInv == /\ TypeInv /\ StopInv /\ LineInv /\ LookInv /\ OrderInv /\ TimerInv
           /\ OneTimeLine /\ TicksOnTime
-----------------------------------------------------------------------------
(* The legs and their tapes.                                               *)

LEMMA TapeFacts ==
    ASSUME tape \in Tapes
    PROVE  /\ tape \in Seq(Seq(Nat)) /\ NumLegs \in Nat /\ NumLegs > 0 /\ Legs = 1 .. NumLegs
           /\ \A l \in Legs : /\ tape[l] \in Seq(Nat) /\ Len(tape[l]) \in Nat
                              /\ \A n \in 1 .. Len(tape[l]) : tape[l][n] \in Nat
                              /\ \A m, n \in 1 .. Len(tape[l]) : m <= n => tape[l][m] <= tape[l][n]
<1>1. tape # << >> /\ tape \in Seq(Seq(Nat)) /\ \A l \in DOMAIN tape : Ascending(tape[l])
  BY TapesAssumption
<1>2. NumLegs \in Nat /\ NumLegs > 0 /\ Legs = 1 .. NumLegs
  BY <1>1 DEF NumLegs, Legs
<1>3. \A l \in Legs : tape[l] \in Seq(Nat)
  BY <1>1, <1>2 DEF Legs, NumLegs
<1>4. \A l \in Legs : Len(tape[l]) \in Nat /\ \A n \in 1 .. Len(tape[l]) : tape[l][n] \in Nat
  BY <1>3
<1>5. \A l \in Legs : \A m, n \in 1 .. Len(tape[l]) : m <= n => tape[l][m] <= tape[l][n]
  BY <1>1 DEF Ascending, Legs
<1> QED
  BY <1>1, <1>2, <1>3, <1>4, <1>5

\* No step changes the tapes.
LEMMA TapeFixed == ASSUME [Next]_vars PROVE tape' = tape
  BY DEF Next, SourceThread, EngineThread, PumpThread, MainThread, vars, PumpHead, PumpTake,
         PumpBroadcast, PollRound, AfterRound, SourceThrow, SourceRequested, Look, StepTick,
         StepEvent, StepDry, EnginePoll, EngineThrow, EngineRequested, JoinSource, MainRequested,
         JoinEngine, Return, Rerun, Returned

\* The leg that next() chooses exists: among the waiting ones, the first of
\* those with the earliest event.
LEMMA EarliestExists ==
    ASSUME TypeInv, LineInv, Present # {}
    PROVE  /\ Earliest \in Present
           /\ \A m \in Present : \/ Ts(Earliest) < Ts(m)
                                 \/ Ts(Earliest) = Ts(m) /\ Earliest <= m
<1>1. tape \in Tapes /\ lookahead \in [Legs -> Nat]
  BY DEF TypeInv
<1>2. \A l \in Present : l \in Legs /\ l \in Nat /\ Ts(l) \in Nat
  <2> SUFFICES ASSUME NEW l \in Present PROVE l \in Legs /\ l \in Nat /\ Ts(l) \in Nat
    OBVIOUS
  <2>1. l \in Legs /\ lookahead[l] # 0
    BY DEF Present, None
  <2>2. lookahead[l] \in Nat /\ pulled[l] \in Nat /\ Len(tape[l]) \in Nat
    BY <2>1, <1>1, TapeFacts DEF TypeInv
  <2>3. lookahead[l] \in 1 .. Len(tape[l])
    BY <2>1, <2>2 DEF LineInv, Line
  <2> QED
    BY <2>1, <2>3, <1>1, TapeFacts DEF Ts
<1> DEFINE Times == {Ts(l) : l \in Present}
<1>3. PICK t \in Times : \A u \in Times : <<u, t>> \notin OpToRel(<, Nat)
  <2>1. Times \subseteq Nat /\ Times # {}
    BY <1>2
  <2> HIDE DEF Times
  <2> QED
    BY <2>1, NatLessThanWellFounded, WFMin
<1>4. \A m \in Present : t <= Ts(m)
  <2> SUFFICES ASSUME NEW m \in Present PROVE t <= Ts(m)
    OBVIOUS
  <2>1. t \in Nat /\ Ts(m) \in Nat /\ Ts(m) \in Times
    BY <1>2
  <2>2. ~(Ts(m) < t)
    BY <1>3, <2>1 DEF OpToRel
  <2> QED
    BY <2>1, <2>2
<1> DEFINE Firsts == {l \in Present : Ts(l) = t}
<1>5. PICK l \in Firsts : \A u \in Firsts : <<u, l>> \notin OpToRel(<, Nat)
  <2>1. Firsts \subseteq Nat /\ Firsts # {}
    BY <1>2, <1>3
  <2> HIDE DEF Firsts
  <2> QED
    BY <2>1, NatLessThanWellFounded, WFMin
<1>6. l \in Present /\ Ts(l) = t
  BY <1>5
<1>7. \A m \in Present : Ts(l) < Ts(m) \/ (Ts(l) = Ts(m) /\ l <= m)
  <2> SUFFICES ASSUME NEW m \in Present PROVE Ts(l) < Ts(m) \/ (Ts(l) = Ts(m) /\ l <= m)
    OBVIOUS
  <2>1. Ts(l) <= Ts(m) /\ Ts(l) \in Nat /\ Ts(m) \in Nat /\ l \in Nat /\ m \in Nat
    BY <1>2, <1>4, <1>6
  <2>2. Ts(m) = t => ~(m < l)
    BY <1>5, <2>1 DEF OpToRel
  <2> QED
    BY <2>1, <2>2, <1>6
<1> QED
  BY <1>6, <1>7 DEF Earliest
-----------------------------------------------------------------------------
(* The steps preserve the types.                                           *)

\* The record that a step appends to the history.
LEMMA StepsAppend ==
    ASSUME TypeInv, NEW l \in 0 .. NumLegs, NEW n \in Nat, NEW t \in Nat,
           stepped' = Append(stepped, [leg |-> l, n |-> n, ts |-> t])
    PROVE  /\ stepped' \in Seq([leg : 0 .. NumLegs, n : Nat, ts : Nat])
           /\ Len(stepped) \in Nat /\ Len(stepped') = Len(stepped) + 1
           /\ \A i \in 1 .. Len(stepped) : stepped'[i] = stepped[i]
           /\ stepped'[Len(stepped) + 1] = [leg |-> l, n |-> n, ts |-> t]
<1>1. [leg |-> l, n |-> n, ts |-> t] \in [leg : 0 .. NumLegs, n : Nat, ts : Nat]
  OBVIOUS
<1>2. stepped \in Seq([leg : 0 .. NumLegs, n : Nat, ts : Nat])
  BY DEF TypeInv
<1> QED
  BY <1>1, <1>2

LEMMA RecordTypes ==
    ASSUME TypeInv, NEW l \in Legs, NEW n \in Nat, Record(l, n)
    PROVE  pending' \in [Legs -> Nat] /\ queue' \in [Legs -> Seq(Nat)]
<1>1. pending \in [Legs -> Nat] /\ queue \in [Legs -> Seq(Nat)]
  BY DEF TypeInv
<1>2. CASE Len(queue[l]) < Capacity
  <2>1. Append(queue[l], n) \in Seq(Nat)
    BY <1>1
  <2>2. queue' = [queue EXCEPT ![l] = Append(queue[l], n)] /\ pending' = [pending EXCEPT ![l] = 0]
    BY <1>2 DEF Record, None
  <2> QED
    BY <1>1, <2>1, <2>2
<1>3. CASE ~(Len(queue[l]) < Capacity)
  BY <1>1, <1>3 DEF Record, Refused
<1> QED
  BY <1>2, <1>3

LEMMA ServeLegTypes ==
    ASSUME TypeInv, NEW l \in Legs, ServeLeg(l)
    PROVE  pulled' \in [Legs -> Nat] /\ pending' \in [Legs -> Nat] /\ queue' \in [Legs -> Seq(Nat)]
<1>1. pulled \in [Legs -> Nat] /\ pending \in [Legs -> Nat] /\ queue \in [Legs -> Seq(Nat)]
  BY DEF TypeInv
<1>2. CASE UNCHANGED <<queue, pulled, pending>>
  BY <1>1, <1>2
<1>3. CASE Record(l, pending[l]) /\ UNCHANGED pulled
  BY <1>1, <1>3, RecordTypes
<1>4. CASE pulled' = [pulled EXCEPT ![l] = @ + 1] /\ Record(l, pulled[l] + 1)
  BY <1>1, <1>4, RecordTypes
<1> QED
  BY <1>2, <1>3, <1>4 DEF ServeLeg

LEMMA RequestTypes ==
    ASSUME TypeInv, NEW t \in Threads
    PROVE  /\ BeginRequest(t) => calling' \in [Threads -> Nat \cup {NotCalling}]
           /\ EndRequest(t) => requests' \in Nat /\ calling' \in [Threads -> Nat \cup {NotCalling}]
<1>1. requests \in Nat /\ popped \in Nat /\ calling \in [Threads -> Nat \cup {NotCalling}]
  BY DEF TypeInv
<1>2. ASSUME BeginRequest(t) PROVE calling' \in [Threads -> Nat \cup {NotCalling}]
  <2>1. popped + requests \in Nat
    BY <1>1
  <2> QED
    BY <1>1, <1>2, <2>1 DEF BeginRequest
<1>3. ASSUME EndRequest(t) PROVE requests' \in Nat /\ calling' \in [Threads -> Nat \cup {NotCalling}]
  <2>1. requests' = requests \/ requests' = requests + 1
    BY <1>3 DEF EndRequest
  <2>2. calling' = [calling EXCEPT ![t] = NotCalling]
    BY <1>3 DEF EndRequest
  <2> QED
    BY <1>1, <2>1, <2>2
<1> QED
  BY <1>2, <1>3

LEMMA PollTypes ==
    ASSUME TypeInv, NEW t \in {"source", "engine"}, Poll(t)
    PROVE  seen' \in [{"source", "engine"} -> Nat]
  BY SMTT(30) DEF TypeInv, Poll

LEMMA AfterStepTypes ==
    ASSUME AfterStep PROVE missing' \in BOOLEAN /\ epc' \in {"look", "poll"}
  BY DEF AfterStep

LEMMA TypeStep == ASSUME TypeInv, LineInv, [Next]_vars PROVE TypeInv'
<1>t. tape' = tape /\ Legs' = Legs /\ NumLegs' = NumLegs
  BY TapeFixed DEF Legs, NumLegs
<1>l. NumLegs \in Nat /\ NumLegs > 0 /\ Legs = 1 .. NumLegs
  BY TapeFacts DEF TypeInv
<1>1. CASE PollRound
  <2>1. ServeLeg(sleg) /\ sleg \in Legs
    BY <1>1 DEF PollRound, TypeInv
  <2>2. pulled' \in [Legs -> Nat] /\ pending' \in [Legs -> Nat] /\ queue' \in [Legs -> Seq(Nat)]
    BY <2>1, ServeLegTypes
  <2>3. sleg' \in Legs /\ spc' \in {"round", "after"}
    <3>1. IF sleg < NumLegs THEN sleg' = sleg + 1 /\ spc' = "round" ELSE sleg' = 1 /\ spc' = "after"
      BY <1>1 DEF PollRound
    <3> QED
      BY <2>1, <3>1, <1>l
  <2> QED
    BY <1>1, <1>t, <2>2, <2>3 DEF TypeInv, PollRound, engineVars, controlVars, pumpVars, Threads
<1>2. CASE AfterRound
  <2>1. seen' \in [{"source", "engine"} -> Nat] /\ spc' \in {"ended", "round"}
    BY <1>2, PollTypes DEF AfterRound, TypeInv
  <2> QED
    BY <1>2, <1>t, <2>1 DEF TypeInv, AfterRound, engineVars, pumpVars, Threads
<1>3. CASE SourceThrow
  <2>1. calling' \in [Threads -> Nat \cup {NotCalling}]
    BY <1>3, RequestTypes DEF SourceThrow, Threads
  <2> QED
    BY <1>3, <1>t, <2>1 DEF TypeInv, SourceThrow, engineVars, controlVars, pumpVars, Threads
<1>4. CASE SourceRequested
  <2>1. requests' \in Nat /\ calling' \in [Threads -> Nat \cup {NotCalling}]
    BY <1>4, RequestTypes DEF SourceRequested, Threads
  <2> QED
    BY <1>4, <1>t, <2>1 DEF TypeInv, SourceRequested, EndRequest, engineVars, pumpVars, Threads
<1>5. CASE Look
  <2>0. eleg \in Legs /\ queue \in [Legs -> Seq(Nat)] /\ lookahead \in [Legs -> Nat]
    BY DEF TypeInv
  <2>1. lookahead' \in [Legs -> Nat] /\ queue' \in [Legs -> Seq(Nat)]
    <3>1. CASE lookahead[eleg] = None /\ queue[eleg] # << >>
      <4>1. Head(queue[eleg]) \in Nat /\ Tail(queue[eleg]) \in Seq(Nat)
        BY <3>1, <2>0
      <4> QED
        BY <1>5, <2>0, <3>1, <4>1 DEF Look
    <3>2. CASE ~(lookahead[eleg] = None /\ queue[eleg] # << >>)
      BY <1>5, <2>0, <3>2 DEF Look
    <3> QED
      BY <3>1, <3>2
  <2>2. eleg' \in Legs /\ epc' \in {"look", "decide"}
    <3>1. IF eleg < NumLegs THEN eleg' = eleg + 1 /\ epc' = "look" ELSE eleg' = 1 /\ epc' = "decide"
      BY <1>5 DEF Look
    <3> QED
      BY <2>0, <3>1, <1>l
  <2>3. missing' \in BOOLEAN
    BY <1>5 DEF Look
  <2> QED
    BY <1>5, <1>t, <2>1, <2>2, <2>3 DEF TypeInv, Look, sourceVars, controlVars, pumpVars, Threads
<1>6. CASE StepTick
  <2>1. next_timer \in Nat /\ TimerPeriod \in Nat /\ 0 \in 0 .. NumLegs
    BY <1>l, SizesAssumption DEF TypeInv
  <2>2. stepped' \in Seq([leg : 0 .. NumLegs, n : Nat, ts : Nat])
    BY <1>6, <2>1, StepsAppend DEF StepTick
  <2>3. missing' \in BOOLEAN /\ epc' \in {"look", "poll"} /\ next_timer' \in Nat
    BY <1>6, <2>1, AfterStepTypes DEF StepTick
  <2> QED
    BY <1>6, <1>t, <2>2, <2>3 DEF TypeInv, StepTick, sourceVars, controlVars, pumpVars, Threads
<1>7. CASE StepEvent
  <2>1. Earliest \in Present
    BY <1>7, EarliestExists DEF StepEvent, Dry
  <2>2. Earliest \in Legs /\ Earliest \in 0 .. NumLegs /\ lookahead[Earliest] # 0
    BY <2>1, <1>l DEF Present, None
  <2>3. lookahead \in [Legs -> Nat] /\ lookahead[Earliest] \in Nat /\ pulled[Earliest] \in Nat
    BY <2>2 DEF TypeInv
  <2>4. lookahead[Earliest] \in 1 .. Len(tape[Earliest]) /\ Len(tape[Earliest]) \in Nat
    <3>1. Len(tape[Earliest]) \in Nat
      BY <2>2, TapeFacts DEF TypeInv
    <3>2. pulled[Earliest] <= Len(tape[Earliest]) /\ lookahead[Earliest] <= pulled[Earliest]
      BY <2>2 DEF LineInv, Line
    <3> QED
      BY <2>2, <2>3, <3>1, <3>2
  <2>5. Ts(Earliest) \in Nat
    BY <2>2, <2>4, TapeFacts DEF Ts, TypeInv
  <2>6. stepped' \in Seq([leg : 0 .. NumLegs, n : Nat, ts : Nat])
    BY <1>7, <2>2, <2>3, <2>5, StepsAppend DEF StepEvent
  <2>7. lookahead' \in [Legs -> Nat]
    BY <1>7, <2>3 DEF StepEvent, None
  <2>8. armed' \in BOOLEAN /\ next_timer' \in Nat
    <3>1. armed \in BOOLEAN /\ next_timer \in Nat /\ TimerPeriod \in Nat
      BY SizesAssumption DEF TypeInv
    <3>2. \/ armed' = TRUE /\ next_timer' = Ts(Earliest) + TimerPeriod
          \/ armed' = armed /\ next_timer' = next_timer
      BY <1>7 DEF StepEvent, Arm
    <3>3. Ts(Earliest) + TimerPeriod \in Nat
      BY <2>5, <3>1
    <3> QED
      BY <3>1, <3>2, <3>3, Zenon
  <2>9. missing' \in BOOLEAN /\ epc' \in {"look", "poll"}
    BY <1>7, AfterStepTypes DEF StepEvent
  <2> QED
    BY <1>7, <1>t, <2>6, <2>7, <2>8, <2>9 DEF TypeInv, StepEvent, sourceVars, controlVars, pumpVars, Threads
<1>8. CASE StepDry
  BY <1>8, <1>t DEF TypeInv, StepDry, sourceVars, controlVars, pumpVars, Threads
<1>9. CASE EnginePoll
  <2>1. seen' \in [{"source", "engine"} -> Nat]
    BY <1>9, PollTypes DEF EnginePoll
  <2>2. flushing' \in BOOLEAN
    BY <1>9 DEF EnginePoll, Stopped
  <2> QED
    BY <1>9, <1>t, <2>1, <2>2 DEF TypeInv, EnginePoll, sourceVars, pumpVars, Threads
<1>10. CASE EngineThrow
  <2>1. calling' \in [Threads -> Nat \cup {NotCalling}]
    BY <1>10, RequestTypes DEF EngineThrow, Threads
  <2> QED
    BY <1>10, <1>t, <2>1 DEF TypeInv, EngineThrow, sourceVars, controlVars, pumpVars, Threads
<1>11. CASE EngineRequested
  <2>1. requests' \in Nat /\ calling' \in [Threads -> Nat \cup {NotCalling}]
    BY <1>11, RequestTypes DEF EngineRequested, Threads
  <2> QED
    BY <1>11, <1>t, <2>1 DEF TypeInv, EngineRequested, EndRequest, sourceVars, pumpVars, Threads
<1>12. CASE PumpHead
  BY <1>12, <1>t DEF TypeInv, PumpHead, sourceVars, engineVars, Threads
<1>13. CASE PumpTake
  <2>1. requests' \in Nat /\ popped' \in Nat /\ held' \in BOOLEAN
    <3>1. requests \in Nat /\ popped \in Nat /\ held \in BOOLEAN
      BY DEF TypeInv
    <3>2. \/ requests > 0 /\ requests' = requests - 1 /\ popped' = popped + 1 /\ held' = TRUE
          \/ requests' = requests /\ popped' = popped /\ held' = held
      BY <1>13 DEF PumpTake
    <3>3. popped + 1 \in Nat /\ (requests > 0 => requests - 1 \in Nat)
      BY <3>1
    <3> QED
      BY <3>1, <3>2, <3>3, Zenon
  <2> QED
    BY <1>13, <1>t, <2>1 DEF TypeInv, PumpTake, sourceVars, engineVars, Threads
<1>14. CASE PumpBroadcast
  <2>1. broadcasts' \in Nat /\ held' \in BOOLEAN
    <3>1. broadcasts \in Nat /\ broadcasts' = broadcasts + 1 /\ held' = FALSE
      BY <1>14 DEF TypeInv, PumpBroadcast
    <3>2. broadcasts + 1 \in Nat
      BY <3>1
    <3> QED
      BY <3>1, <3>2, Zenon
  <2> QED
    BY <1>14, <1>t, <2>1 DEF TypeInv, PumpBroadcast, sourceVars, engineVars, Threads
<1>15. CASE JoinSource
  <2>1. calling' \in [Threads -> Nat \cup {NotCalling}]
    BY <1>15, RequestTypes DEF JoinSource, Threads
  <2> QED
    BY <1>15, <1>t, <2>1 DEF TypeInv, JoinSource, sourceVars, engineVars, controlVars, pumpVars, Threads
<1>16. CASE MainRequested
  <2>1. requests' \in Nat /\ calling' \in [Threads -> Nat \cup {NotCalling}]
    BY <1>16, RequestTypes DEF MainRequested, Threads
  <2> QED
    BY <1>16, <1>t, <2>1 DEF TypeInv, MainRequested, EndRequest, sourceVars, engineVars, pumpVars, Threads
<1>17. CASE JoinEngine
  BY <1>17, <1>t DEF TypeInv, JoinEngine, sourceVars, engineVars, pumpVars, Threads
<1>18. CASE Return
  BY <1>18, <1>t DEF TypeInv, Return, sourceVars, engineVars, controlVars, pumpVars, Threads
<1>19. CASE Rerun
  <2>1. DOMAIN seen = {"source", "engine"}
    BY DEF TypeInv
  <2>2. /\ seen' = [t \in {"source", "engine"} |-> 0]
        /\ calling' = [t \in Threads |-> NotCalling]
        /\ pending' = [l \in Legs |-> 0] /\ lookahead' = [l \in Legs |-> 0]
    BY <1>19, <2>1 DEF Rerun, None
  <2>3. /\ seen' \in [{"source", "engine"} -> Nat] /\ calling' \in [Threads -> Nat \cup {NotCalling}]
        /\ pending' \in [Legs -> Nat] /\ lookahead' \in [Legs -> Nat]
    BY <2>2
  <2>4. 1 \in Legs /\ stepped' \in Seq([leg : 0 .. NumLegs, n : Nat, ts : Nat])
    BY <1>19, <1>l DEF Rerun
  <2> QED
    BY <1>19, <1>t, <2>3, <2>4 DEF TypeInv, Rerun, Threads
<1>20. CASE UNCHANGED vars
  BY <1>20, <1>t DEF TypeInv, vars, sourceVars, engineVars, controlVars, pumpVars, Threads
<1> QED
  BY <1>1, <1>2, <1>3, <1>4, <1>5, <1>6, <1>7, <1>8, <1>9, <1>10, <1>11, <1>12, <1>13, <1>14,
     <1>15, <1>16, <1>17, <1>18, <1>19, <1>20
     DEF Next, SourceThread, EngineThread, PumpThread, MainThread, Returned
-----------------------------------------------------------------------------
(* Nobody asks for a stop while both threads are at work.                  *)

\* Only the restart of run() brings a thread back.
LEMMA StopStep == ASSUME TypeInv, StopInv, [Next]_vars PROVE StopInv'
<1>a. requests \in Nat /\ broadcasts \in Nat /\ seen \in [{"source", "engine"} -> Nat]
  BY DEF TypeInv
<1>1. ASSUME PollRound \/ AfterRound PROVE StopInv'
  <2>1. UNCHANGED <<requests, held, broadcasts, calling, flushing, epc>> /\ Pulling
    BY <1>1 DEF PollRound, AfterRound, Pulling, controlVars, pumpVars, engineVars
  <2> QED
    BY <2>1 DEF StopInv, Asked, Pulling, Stepping
<1>2. ASSUME SourceThrow \/ SourceRequested PROVE StopInv'
  BY <1>2 DEF SourceThrow, SourceRequested, StopInv, Pulling
<1>3. ASSUME Look \/ StepTick \/ StepEvent \/ StepDry PROVE StopInv'
  <2>1. UNCHANGED <<requests, held, broadcasts, calling, flushing, spc>> /\ Stepping
    BY <1>3 DEF Look, StepTick, StepEvent, StepDry, Stepping, controlVars, pumpVars, sourceVars
  <2> QED
    BY <2>1 DEF StopInv, Asked, Pulling, Stepping
<1>4. CASE EnginePoll
  <2>1. UNCHANGED <<requests, held, broadcasts, calling, spc>> /\ Stepping /\ flushing' = Stopped("engine")
    BY <1>4 DEF EnginePoll, Stepping, pumpVars, sourceVars
  <2>2. Stopped("engine") => Asked
    BY <1>a DEF Stopped, Asked
  <2> QED
    BY <2>1, <2>2 DEF StopInv, Asked, Pulling, Stepping
<1>5. ASSUME EngineThrow \/ EngineRequested PROVE StopInv'
  BY <1>5 DEF EngineThrow, EngineRequested, StopInv, Stepping
<1>6. ASSUME PumpHead \/ JoinEngine \/ Return \/ UNCHANGED vars PROVE StopInv'
  <2>1. UNCHANGED <<requests, held, broadcasts, calling, flushing, spc, epc>>
    BY <1>6 DEF PumpHead, JoinEngine, Return, vars, controlVars, pumpVars, sourceVars, engineVars
  <2> QED
    BY <2>1 DEF StopInv, Asked, Pulling, Stepping
<1>7. ASSUME PumpTake \/ PumpBroadcast \/ MainRequested PROVE StopInv'
  <2>1. UNCHANGED <<flushing, spc, epc>>
    BY <1>7 DEF PumpTake, PumpBroadcast, MainRequested, sourceVars, engineVars
  <2>2. Asked' => Asked
    <3>1. CASE PumpTake
      BY <3>1 DEF PumpTake, Asked
    <3>2. CASE PumpBroadcast
      BY <3>2 DEF PumpBroadcast, Asked
    <3>3. CASE MainRequested
      BY <3>3 DEF MainRequested, EndRequest, Asked, Threads
    <3> QED
      BY <1>7, <3>1, <3>2, <3>3
  <2> QED
    BY <2>1, <2>2 DEF StopInv, Pulling, Stepping
<1>8. CASE JoinSource
  BY <1>8 DEF JoinSource, StopInv, Pulling, sourceVars
<1>9. CASE Rerun
  <2>1. requests' = 0 /\ held' = FALSE /\ broadcasts' = 0 /\ flushing' = FALSE
    BY <1>9 DEF Rerun
  <2>2. \A t \in Threads : calling'[t] = NotCalling
    BY <1>9 DEF Rerun
  <2> QED
    BY <2>1, <2>2 DEF StopInv, Asked, Threads
<1> QED
  BY <1>1, <1>2, <1>3, <1>4, <1>5, <1>6, <1>7, <1>8, <1>9
     DEF Next, SourceThread, EngineThread, PumpThread, MainThread, Returned
-----------------------------------------------------------------------------
(* The events on their way stay in order, and no step but the source's    *)
(* pull of the next one brings another.                                    *)

\* What is on leg l's way, and what of its tape may yet be stepped, depends on
\* five pieces of the leg's state.
LEMMA OthersKeep ==
    ASSUME NEW l \in Legs, tape' = tape, Pulling' => Pulling,
           pulled'[l] = pulled[l], pending'[l] = pending[l], queue'[l] = queue[l],
           lookahead'[l] = lookahead[l]
    PROVE  Coming(l)' \subseteq Coming(l)
  BY DEF Coming

LEMMA RecordCovers ==
    ASSUME TypeInv, LineInv, NEW l \in Legs, NEW n \in Nat, Record(l, n),
           n > lookahead[l], pulled'[l] \in Nat, n <= pulled'[l], pulled[l] <= pulled'[l],
           pulled'[l] <= Len(tape[l]),
           \A i \in 1 .. Len(queue[l]) : queue[l][i] < n
    PROVE  /\ pending'[l] <= pulled'[l] /\ (pending'[l] # None => lookahead[l] < pending'[l])
           /\ \A i \in 1 .. Len(queue'[l]) :
                 /\ lookahead[l] < queue'[l][i] /\ queue'[l][i] <= pulled'[l]
                 /\ pending'[l] # None => queue'[l][i] < pending'[l]
           /\ \A i, j \in 1 .. Len(queue'[l]) : i < j => queue'[l][i] < queue'[l][j]
           /\ pending'[l] \in {None, n}
           /\ \A i \in 1 .. Len(queue'[l]) : \/ i \in 1 .. Len(queue[l]) /\ queue'[l][i] = queue[l][i]
                                             \/ queue'[l][i] = n
           /\ \A m \in Legs \ {l} : pending'[m] = pending[m] /\ queue'[m] = queue[m]
<1>1. /\ pending \in [Legs -> Nat] /\ queue \in [Legs -> Seq(Nat)]
      /\ pulled[l] \in Nat /\ lookahead[l] \in Nat
  BY DEF TypeInv
<1>2. queue[l] \in Seq(Nat) /\ Len(queue[l]) \in Nat
  BY <1>1
<1>3. \A i \in 1 .. Len(queue[l]) : /\ queue[l][i] \in Nat
                                    /\ lookahead[l] < queue[l][i] /\ queue[l][i] <= pulled[l]
  BY <1>2 DEF LineInv, Line
<1>4. \A i, j \in 1 .. Len(queue[l]) : i < j => queue[l][i] < queue[l][j]
  BY DEF LineInv, Line
<1>5. CASE Len(queue[l]) < Capacity
  <2>1. queue' = [queue EXCEPT ![l] = Append(queue[l], n)] /\ pending' = [pending EXCEPT ![l] = 0]
    BY <1>5 DEF Record, None
  <2>2. queue'[l] = Append(queue[l], n) /\ pending'[l] = 0
    BY <1>1, <2>1
  <2>3. /\ Len(queue'[l]) = Len(queue[l]) + 1
        /\ \A i \in 1 .. Len(queue[l]) : queue'[l][i] = queue[l][i]
        /\ queue'[l][Len(queue[l]) + 1] = n
    BY <1>2, <2>2
  <2>4. \A i \in 1 .. Len(queue'[l]) : lookahead[l] < queue'[l][i] /\ queue'[l][i] <= pulled'[l]
    <3> SUFFICES ASSUME NEW i \in 1 .. Len(queue'[l])
                 PROVE  lookahead[l] < queue'[l][i] /\ queue'[l][i] <= pulled'[l]
      OBVIOUS
    <3>1. CASE i = Len(queue[l]) + 1
      BY <1>1, <2>3, <3>1
    <3>2. CASE i \in 1 .. Len(queue[l])
      <4>1. /\ queue'[l][i] = queue[l][i] /\ queue[l][i] \in Nat
            /\ lookahead[l] < queue[l][i] /\ queue[l][i] <= pulled[l]
        BY <1>3, <2>3, <3>2
      <4> QED
        BY <1>1, <4>1
    <3> QED
      BY <1>2, <2>3, <3>1, <3>2
  <2>5. \A i, j \in 1 .. Len(queue'[l]) : i < j => queue'[l][i] < queue'[l][j]
    <3> SUFFICES ASSUME NEW i \in 1 .. Len(queue'[l]), NEW j \in 1 .. Len(queue'[l]), i < j
                 PROVE  queue'[l][i] < queue'[l][j]
      OBVIOUS
    <3>1. i \in 1 .. Len(queue[l]) /\ queue'[l][i] = queue[l][i]
      BY <1>2, <2>3
    <3>2. CASE j = Len(queue[l]) + 1
      BY <2>3, <3>1, <3>2
    <3>3. CASE j \in 1 .. Len(queue[l])
      BY <1>4, <2>3, <3>1, <3>3
    <3> QED
      BY <1>2, <2>3, <3>2, <3>3
  <2>6. \A i \in 1 .. Len(queue'[l]) : \/ i \in 1 .. Len(queue[l]) /\ queue'[l][i] = queue[l][i]
                                       \/ queue'[l][i] = n
    BY <1>2, <2>3
  <2>7. \A m \in Legs \ {l} : pending'[m] = pending[m] /\ queue'[m] = queue[m]
    BY <1>1, <2>1
  <2>8. pending'[l] = None /\ pending'[l] <= pulled'[l]
    BY <2>2 DEF None
  <2> QED
    BY <2>4, <2>5, <2>6, <2>7, <2>8, Zenon
<1>6. CASE ~(Len(queue[l]) < Capacity)
  <2>1. queue' = queue /\ pending' = [pending EXCEPT ![l] = n]
    BY <1>6 DEF Record, Refused
  <2>2. pending'[l] = n /\ \A m \in Legs \ {l} : pending'[m] = pending[m]
    BY <1>1, <2>1
  <2>3. \A i \in 1 .. Len(queue[l]) : lookahead[l] < queue[l][i] /\ queue[l][i] <= pulled'[l]
    BY <1>1, <1>3
  <2>4. /\ queue'[l] = queue[l] /\ pending'[l] <= pulled'[l] /\ lookahead[l] < pending'[l]
        /\ pending'[l] = n
    BY <1>1, <2>1, <2>2
  <2>5. \A i \in 1 .. Len(queue[l]) : queue[l][i] < n
    OBVIOUS
  <2>6. \A m \in Legs \ {l} : queue'[m] = queue[m]
    BY <2>1
  <2> QED
    BY <1>4, <2>2, <2>3, <2>4, <2>5, <2>6, Zenon
<1> QED
  BY <1>5, <1>6

LEMMA LineKept ==
    ASSUME NEW l \in Legs, tape' = tape, Line(l), pulled'[l] = pulled[l], pending'[l] = pending[l],
           queue'[l] = queue[l], lookahead'[l] = lookahead[l]
    PROVE  Line(l)'
  BY DEF Line

\* A leg's turn in poll_round().
LEMMA ServeLegLine ==
    ASSUME TypeInv, LineInv, NEW l \in Legs, ServeLeg(l), tape' = tape, lookahead' = lookahead,
           Pulling
    PROVE  \A m \in Legs : Line(m)' /\ Coming(m)' \subseteq Coming(m)
<1>0. /\ pulled \in [Legs -> Nat] /\ pending \in [Legs -> Nat] /\ queue \in [Legs -> Seq(Nat)]
      /\ pulled[l] \in Nat /\ pending[l] \in Nat /\ lookahead[l] \in Nat /\ Len(tape[l]) \in Nat
      /\ queue[l] \in Seq(Nat) /\ Len(queue[l]) \in Nat
      /\ \A i \in 1 .. Len(queue[l]) : queue[l][i] \in Nat
  <2>1. /\ pulled \in [Legs -> Nat] /\ pending \in [Legs -> Nat] /\ queue \in [Legs -> Seq(Nat)]
        /\ lookahead \in [Legs -> Nat] /\ Len(tape[l]) \in Nat
    BY TapeFacts DEF TypeInv
  <2> QED
    BY <2>1
<1>i. \A m \in Legs : Line(m)
  BY DEF LineInv, Line
<1>n. \A m \in Legs : lookahead'[m] = lookahead[m]
  OBVIOUS
<1>1. CASE UNCHANGED <<queue, pulled, pending>>
  BY <1>1, <1>i, <1>n, LineKept, OthersKeep
<1>2. ASSUME NEW n \in Nat, Record(l, n), n > lookahead[l], n <= pulled'[l],
             pulled'[l] \in Nat, pulled[l] <= pulled'[l], pulled'[l] <= Len(tape[l]),
             \A i \in 1 .. Len(queue[l]) : queue[l][i] < n,
             n = pending[l] \/ n > pulled[l],
             \A m \in Legs \ {l} : pulled'[m] = pulled[m]
      PROVE  \A m \in Legs : Line(m)' /\ Coming(m)' \subseteq Coming(m)
  <2>1. /\ pending'[l] <= pulled'[l] /\ (pending'[l] # None => lookahead[l] < pending'[l])
        /\ \A i \in 1 .. Len(queue'[l]) :
              /\ lookahead[l] < queue'[l][i] /\ queue'[l][i] <= pulled'[l]
              /\ pending'[l] # None => queue'[l][i] < pending'[l]
        /\ \A i, j \in 1 .. Len(queue'[l]) : i < j => queue'[l][i] < queue'[l][j]
        /\ pending'[l] \in {None, n}
        /\ \A i \in 1 .. Len(queue'[l]) : \/ i \in 1 .. Len(queue[l]) /\ queue'[l][i] = queue[l][i]
                                          \/ queue'[l][i] = n
        /\ \A m \in Legs \ {l} : pending'[m] = pending[m] /\ queue'[m] = queue[m]
    BY <1>2, RecordCovers
  <2>2. ASSUME NEW m \in Legs \ {l} PROVE Line(m)' /\ Coming(m)' \subseteq Coming(m)
    BY <1>2, <2>1, <1>i, <1>n, LineKept, OthersKeep
  <2>3. lookahead[l] <= pulled'[l]
    BY <1>2, <1>0
  <2>4. Line(l)'
    BY <1>2, <2>1, <2>3 DEF Line
  <2>5. n \in Coming(l)
    <3>1. n \in 1 .. Len(tape[l])
      BY <1>2, <1>0
    <3> QED
      BY <1>2, <3>1 DEF Coming
  <2>6. Coming(l)' \subseteq Coming(l)
    <3> SUFFICES ASSUME NEW k \in Coming(l)' PROVE k \in Coming(l)
      OBVIOUS
    <3>1. k \in 1 .. Len(tape[l])
      BY DEF Coming
    <3>2. \/ k = lookahead[l] \/ (\E i \in 1 .. Len(queue'[l]) : queue'[l][i] = k)
          \/ k = pending'[l] \/ k > pulled'[l]
      BY DEF Coming
    <3>3. CASE k = lookahead[l]
      BY <3>1, <3>3 DEF Coming
    <3>4. CASE \E i \in 1 .. Len(queue'[l]) : queue'[l][i] = k
      BY <3>1, <3>4, <2>1, <2>5 DEF Coming
    <3>5. CASE k = pending'[l]
      BY <3>1, <3>5, <2>1, <2>5 DEF None
    <3>6. CASE k > pulled'[l]
      <4>1. k > pulled[l]
        BY <1>2, <1>0, <3>1, <3>6
      <4> QED
        BY <3>1, <4>1 DEF Coming
    <3> QED
      BY <3>2, <3>3, <3>4, <3>5, <3>6
  <2> QED
    BY <2>2, <2>4, <2>6
<1>l. Line(l)
  BY <1>i
<1>3. CASE pending[l] # None /\ Record(l, pending[l]) /\ UNCHANGED pulled
  <2>1. /\ pending[l] > lookahead[l] /\ pending[l] <= pulled'[l] /\ pulled'[l] <= Len(tape[l])
        /\ \A i \in 1 .. Len(queue[l]) : queue[l][i] < pending[l]
    BY <1>3, <1>l, <1>0 DEF Line
  <2>2. pulled'[l] \in Nat /\ pulled[l] <= pulled'[l] /\ \A m \in Legs \ {l} : pulled'[m] = pulled[m]
    BY <1>3, <1>0
  <2> QED
    BY <1>0, <1>2, <1>3, <2>1, <2>2
<1>4. CASE /\ pending[l] = None /\ pulled[l] < Len(tape[l])
           /\ pulled' = [pulled EXCEPT ![l] = @ + 1] /\ Record(l, pulled[l] + 1)
  <2>1. pulled'[l] = pulled[l] + 1 /\ \A m \in Legs \ {l} : pulled'[m] = pulled[m]
    BY <1>4, <1>0
  <2>2. /\ pulled[l] + 1 \in Nat /\ pulled[l] + 1 > lookahead[l] /\ pulled[l] + 1 <= pulled'[l]
        /\ pulled'[l] \in Nat /\ pulled[l] <= pulled'[l] /\ pulled'[l] <= Len(tape[l])
        /\ pulled[l] + 1 > pulled[l]
    BY <1>4, <1>l, <1>0, <2>1 DEF Line
  <2>3. \A i \in 1 .. Len(queue[l]) : queue[l][i] < pulled[l] + 1
    BY <1>l, <1>0 DEF Line
  <2> QED
    BY <1>2, <1>4, <2>1, <2>2, <2>3
<1> QED
  BY <1>1, <1>3, <1>4 DEF ServeLeg

\* next()'s pass at one leg.
LEMMA LookLine ==
    ASSUME TypeInv, LineInv, Look
    PROVE  \A m \in Legs : Line(m)' /\ Coming(m)' \subseteq Coming(m)
<1> DEFINE l == eleg
<1>t. tape' = tape /\ pulled' = pulled /\ pending' = pending /\ spc' = spc
  BY DEF Look, sourceVars
<1>0. /\ l \in Legs /\ lookahead \in [Legs -> Nat] /\ queue \in [Legs -> Seq(Nat)]
      /\ pulled[l] \in Nat /\ pending[l] \in Nat /\ queue[l] \in Seq(Nat) /\ Len(queue[l]) \in Nat
      /\ Len(tape[l]) \in Nat
  BY TapeFacts, SMTT(30) DEF TypeInv
<1>i. \A m \in Legs : Line(m)
  BY DEF LineInv, Line
<1>p. Pulling' <=> Pulling
  BY <1>t DEF Pulling
<1>1. CASE ~(lookahead[l] = None /\ queue[l] # << >>)
  <2>1. lookahead' = lookahead /\ queue' = queue
    BY <1>1 DEF Look
  <2> QED
    BY <1>t, <1>i, <1>p, <2>1, LineKept, OthersKeep
<1>2. CASE lookahead[l] = None /\ queue[l] # << >>
  <2>1. /\ lookahead' = [lookahead EXCEPT ![l] = Head(queue[l])]
        /\ queue' = [queue EXCEPT ![l] = Tail(queue[l])]
    BY <1>2 DEF Look
  <2>2. ASSUME NEW m \in Legs, m # l PROVE Line(m)' /\ Coming(m)' \subseteq Coming(m)
    <3>1. lookahead'[m] = lookahead[m] /\ queue'[m] = queue[m]
      BY <1>0, <2>1, <2>2
    <3> QED
      BY <1>t, <1>i, <1>p, <3>1, LineKept, OthersKeep
  <2>3. ASSUME NEW m \in Legs, m = l PROVE Line(m)' /\ Coming(m)' \subseteq Coming(m)
    <3>0. /\ Len(queue[m]) \in Nat /\ queue[m] \in Seq(Nat) /\ queue[m] # << >> /\ pulled[m] \in Nat
          /\ pending[m] \in Nat /\ Len(tape[m]) \in Nat
      BY <1>0, <1>2, <2>3
    <3>1. lookahead'[m] = queue[m][1] /\ queue'[m] = Tail(queue[m])
      BY <1>0, <2>1, <2>3
    <3>2. /\ Len(queue'[m]) = Len(queue[m]) - 1 /\ 1 \in 1 .. Len(queue[m])
          /\ \A i \in 1 .. Len(queue'[m]) : /\ i + 1 \in 1 .. Len(queue[m])
                                            /\ queue'[m][i] = queue[m][i + 1]
                                            /\ queue[m][i + 1] \in Nat
          /\ queue[m][1] \in Nat
      BY <3>0, <3>1
    <3>3. Line(m)
      BY <1>i
    <3>4. Line(m)'
      <4>1. /\ pulled[m] <= Len(tape[m]) /\ queue[m][1] <= pulled[m] /\ pending[m] <= pulled[m]
            /\ (pending[m] # None => queue[m][1] < pending[m])
        BY <3>2, <3>3 DEF Line
      <4>2. \A i \in 1 .. Len(queue'[m]) : /\ queue[m][1] < queue'[m][i] /\ queue'[m][i] <= pulled[m]
                                           /\ pending[m] # None => queue'[m][i] < pending[m]
        <5> SUFFICES ASSUME NEW i \in 1 .. Len(queue'[m])
                     PROVE  /\ queue[m][1] < queue'[m][i] /\ queue'[m][i] <= pulled[m]
                            /\ pending[m] # None => queue'[m][i] < pending[m]
          OBVIOUS
        <5>1. 1 < i + 1 /\ i + 1 \in 1 .. Len(queue[m]) /\ queue'[m][i] = queue[m][i + 1]
          BY <3>2
        <5> QED
          BY <5>1, <3>2, <3>3 DEF Line
      <4>3. \A i, j \in 1 .. Len(queue'[m]) : i < j => queue'[m][i] < queue'[m][j]
        <5> SUFFICES ASSUME NEW i \in 1 .. Len(queue'[m]), NEW j \in 1 .. Len(queue'[m]), i < j
                     PROVE  queue'[m][i] < queue'[m][j]
          OBVIOUS
        <5>1. i + 1 < j + 1 /\ i + 1 \in 1 .. Len(queue[m]) /\ j + 1 \in 1 .. Len(queue[m])
          BY <3>0, <3>2
        <5>2. queue[m][i + 1] < queue[m][j + 1]
          BY <5>1, <3>3 DEF Line
        <5> QED
          BY <5>2, <3>2
      <4> QED
        BY <1>t, <3>1, <4>1, <4>2, <4>3 DEF Line
    <3>5. Coming(m)' \subseteq Coming(m)
      <4> SUFFICES ASSUME NEW k \in Coming(m)' PROVE k \in Coming(m)
        OBVIOUS
      <4>1. k \in 1 .. Len(tape[m])
        BY <1>t DEF Coming
      <4>2. \/ k = queue[m][1] \/ (\E i \in 1 .. Len(queue'[m]) : queue'[m][i] = k)
            \/ Pulling /\ (k = pending[m] \/ k > pulled[m])
        BY <1>t, <1>p, <3>1 DEF Coming
      <4>3. CASE k = queue[m][1] \/ \E i \in 1 .. Len(queue'[m]) : queue'[m][i] = k
        <5>1. \E i \in 1 .. Len(queue[m]) : queue[m][i] = k
          BY <3>2, <4>3
        <5> QED
          BY <4>1, <5>1 DEF Coming
      <4>4. CASE Pulling /\ (k = pending[m] \/ k > pulled[m])
        BY <4>1, <4>4 DEF Coming
      <4> QED
        BY <4>2, <4>3, <4>4
    <3> QED
      BY <3>4, <3>5
  <2> QED
    BY <2>2, <2>3
<1> QED
  BY <1>1, <1>2

\* A step that takes the lookahead of leg l.
LEMMA TakeLine ==
    ASSUME TypeInv, LineInv, NEW l \in Legs, lookahead' = [lookahead EXCEPT ![l] = None],
           UNCHANGED <<tape, pulled, pending, queue, spc>>
    PROVE  \A m \in Legs : Line(m)' /\ Coming(m)' \subseteq Coming(m)
<1>0. lookahead \in [Legs -> Nat] /\ pulled \in [Legs -> Nat] /\ pending \in [Legs -> Nat]
  BY DEF TypeInv
<1>i. \A m \in Legs : Line(m)
  BY DEF LineInv, Line
<1>p. Pulling' <=> Pulling
  BY DEF Pulling
<1>1. ASSUME NEW m \in Legs, m # l PROVE Line(m)' /\ Coming(m)' \subseteq Coming(m)
  <2>1. lookahead'[m] = lookahead[m]
    BY <1>0, <1>1
  <2> QED
    BY <1>i, <1>p, <2>1, LineKept, OthersKeep
<1>2. ASSUME NEW m \in Legs, m = l PROVE Line(m)' /\ Coming(m)' \subseteq Coming(m)
  <2>1. lookahead'[m] = 0 /\ lookahead[m] \in Nat /\ pulled[m] \in Nat /\ pending[m] \in Nat
    BY <1>0, <1>2 DEF None
  <2>2. \A i \in 1 .. Len(queue[m]) : queue[m][i] \in Nat
    <3>1. queue[m] \in Seq(Nat)
      BY DEF TypeInv
    <3> QED
      BY <3>1
  <2>3. Line(m)
    BY <1>i
  <2>4. \A i \in 1 .. Len(queue[m]) : 0 < queue[m][i]
    BY <2>1, <2>2, <2>3 DEF Line
  <2>5. pending[m] # None => 0 < pending[m]
    BY <2>1 DEF None
  <2>6. Line(m)'
    BY <2>1, <2>3, <2>4, <2>5 DEF Line
  <2>7. Coming(m)' \subseteq Coming(m)
    <3> SUFFICES ASSUME NEW k \in Coming(m)' PROVE k \in Coming(m)
      OBVIOUS
    <3>1. k \in 1 .. Len(tape[m]) /\ k # lookahead'[m]
      BY <2>1 DEF Coming
    <3> QED
      BY <3>1, <1>p DEF Coming
  <2> QED
    BY <2>6, <2>7
<1> QED
  BY <1>1, <1>2

\* A step that moves no event.
LEMMA StillLine ==
    ASSUME LineInv, UNCHANGED <<tape, pulled, pending, queue, lookahead>>, Pulling' => Pulling
    PROVE  \A m \in Legs : Line(m)' /\ Coming(m)' \subseteq Coming(m)
  BY LineKept, OthersKeep DEF LineInv

\* Within one run nothing joins what is coming.
LEMMA LineStep ==
    ASSUME TypeInv, LineInv, [Next]_vars
    PROVE  LineInv' /\ (Rerun \/ \A m \in Legs : Coming(m)' \subseteq Coming(m))
<1>t. tape' = tape /\ Legs' = Legs
  BY TapeFixed DEF Legs
<1> SUFFICES ASSUME ~Rerun PROVE \A m \in Legs : Line(m)' /\ Coming(m)' \subseteq Coming(m)
  <2>1. CASE Rerun
    <3>1. /\ lookahead' = [l \in Legs |-> 0] /\ pending' = [l \in Legs |-> 0]
          /\ queue' = queue /\ pulled' = pulled
      BY <2>1 DEF Rerun, None
    <3>2. ASSUME NEW l \in Legs PROVE Line(l)'
      <4>1. /\ lookahead'[l] = 0 /\ pending'[l] = 0 /\ lookahead[l] \in Nat /\ pulled[l] \in Nat
            /\ queue[l] \in Seq(Nat)
        BY <3>1 DEF TypeInv
      <4>2. \A i \in 1 .. Len(queue[l]) : queue[l][i] \in Nat
        BY <4>1
      <4>3. Line(l)
        BY DEF LineInv
      <4>4. \A i \in 1 .. Len(queue[l]) : 0 < queue[l][i]
        BY <4>1, <4>2, <4>3 DEF Line
      <4> QED
        BY <1>t, <3>1, <4>1, <4>3, <4>4 DEF Line, None
    <3> QED
      BY <1>t, <2>1, <3>2 DEF LineInv
  <2> QED
    BY <1>t, <2>1 DEF LineInv
<1>1. CASE PollRound
  BY <1>1, ServeLegLine DEF PollRound, Pulling, engineVars, TypeInv
<1>2. CASE Look
  BY <1>2, LookLine
<1>3. CASE StepEvent
  <2>1. Earliest \in Legs
    BY <1>3, EarliestExists DEF StepEvent, Dry, Present
  <2> QED
    BY <1>3, <2>1, TakeLine DEF StepEvent, sourceVars
<1>4. CASE AfterRound \/ SourceThrow \/ SourceRequested
  <2>1. UNCHANGED <<pulled, pending, queue, lookahead>>
    BY <1>4 DEF AfterRound, SourceThrow, SourceRequested, engineVars
  <2>2. Pulling' => Pulling
    BY <1>4 DEF AfterRound, SourceThrow, SourceRequested, Pulling
  <2> QED
    BY <1>t, <2>1, <2>2, StillLine
<1>5. CASE StepTick \/ StepDry \/ EnginePoll \/ EngineThrow \/ EngineRequested
  <2>1. UNCHANGED <<pulled, pending, queue, lookahead, spc>>
    BY <1>5 DEF StepTick, StepDry, EnginePoll, EngineThrow, EngineRequested, sourceVars
  <2> QED
    BY <1>t, <2>1, StillLine DEF Pulling
<1>6. CASE PumpThread \/ MainThread \/ UNCHANGED vars
  <2>1. UNCHANGED <<pulled, pending, queue, lookahead, spc>>
    BY <1>6 DEF PumpThread, MainThread, PumpHead, PumpTake, PumpBroadcast, JoinSource, MainRequested,
                JoinEngine, Return, vars, sourceVars, engineVars
  <2> QED
    BY <1>t, <2>1, StillLine DEF Pulling
<1> QED
  BY <1>1, <1>2, <1>3, <1>4, <1>5, <1>6 DEF Next, SourceThread, EngineThread, Returned
-----------------------------------------------------------------------------
(* The pass over the legs.                                                 *)

LEMMA LookStep == ASSUME TypeInv, StopInv, LineInv, LookInv, [Next]_vars PROVE LookInv'
<1>t. tape' = tape /\ Legs' = Legs
  BY TapeFixed DEF Legs
<1>l. NumLegs \in Nat /\ NumLegs > 0 /\ Legs = 1 .. NumLegs
  BY TapeFacts DEF TypeInv
<1>1. CASE PollRound
  <2>1. UNCHANGED <<epc, eleg, missing, lookahead, flushing>> /\ Pulling
    BY <1>1 DEF PollRound, engineVars, Pulling
  <2>2. epc \in {"look", "decide"} => ~flushing
    BY <2>1 DEF StopInv, Stepping
  <2>3. epc \in {"look", "decide"} => \A l \in Legs : Met(l) => Met(l)'
    BY <2>1, <2>2 DEF Met
  <2> QED
    BY <1>t, <2>1, <2>3 DEF LookInv
<1>2. CASE AfterRound \/ SourceThrow \/ SourceRequested \/ PumpThread \/ MainThread \/ UNCHANGED vars
  <2>1. UNCHANGED <<epc, eleg, missing, lookahead, flushing, queue>>
    BY <1>2 DEF AfterRound, SourceThrow, SourceRequested, PumpThread, MainThread, PumpHead, PumpTake,
                PumpBroadcast, JoinSource, MainRequested, JoinEngine, Return, vars, engineVars
  <2> QED
    BY <1>t, <2>1 DEF LookInv, Met
<1>3. CASE Look
  <2>0. /\ eleg \in Legs /\ lookahead \in [Legs -> Nat] /\ queue \in [Legs -> Seq(Nat)]
        /\ missing \in BOOLEAN
    BY DEF TypeInv
  <2>a. \A l \in Legs : l < eleg => Met(l)
    BY <1>3 DEF LookInv, Look
  <2>f. flushing' = flushing
    BY <1>3 DEF Look
  <2>1. ASSUME NEW l \in Legs, l # eleg PROVE lookahead'[l] = lookahead[l] /\ queue'[l] = queue[l]
    BY <1>3, <2>0, <2>1 DEF Look
  <2>2. missing => missing'
    BY <1>3 DEF Look
  <2>3. ASSUME NEW l \in Legs, l < eleg PROVE Met(l)'
    <3>1. l # eleg
      BY <2>0, <2>3, <1>l
    <3>2. Met(l)
      BY <2>a, <2>3
    <3> QED
      BY <3>1, <3>2, <2>1, <2>2, <2>f DEF Met
  <2>4. ASSUME NEW l \in Legs, l = eleg PROVE Met(l)'
    <3>1. missing' = (missing \/ (lookahead'[l] = None /\ ~flushing))
      BY <1>3, <2>4 DEF Look
    <3>2. CASE lookahead[l] = None /\ queue[l] # << >>
      <4>1. queue[l] \in Seq(Nat) /\ lookahead[l] = 0 /\ lookahead'[l] = queue[l][1]
        BY <1>3, <2>0, <2>4, <3>2 DEF Look, None
      <4>2. 1 \in 1 .. Len(queue[l]) /\ queue[l][1] \in Nat
        BY <3>2, <4>1
      <4>3. lookahead[l] < queue[l][1]
        BY <4>2 DEF LineInv, Line
      <4>4. lookahead'[l] # None
        BY <4>1, <4>2, <4>3 DEF None
      <4> QED
        BY <4>4 DEF Met
    <3>3. CASE ~(lookahead[l] = None /\ queue[l] # << >>)
      <4>1. lookahead' = lookahead /\ queue' = queue
        BY <1>3, <2>4, <3>3 DEF Look
      <4> QED
        BY <3>1, <3>3, <4>1, <2>f DEF Met
    <3> QED
      BY <3>2, <3>3
  <2>5. IF eleg < NumLegs THEN eleg' = eleg + 1 /\ epc' = "look" ELSE eleg' = 1 /\ epc' = "decide"
    BY <1>3 DEF Look
  <2> QED
    BY <1>t, <1>l, <2>0, <2>3, <2>4, <2>5 DEF LookInv
<1>4. CASE StepTick \/ StepEvent \/ StepDry \/ EnginePoll
  <2>1. eleg' = eleg /\ epc' # "decide" /\ eleg = 1
    BY <1>4 DEF StepTick, StepEvent, StepDry, EnginePoll, AfterStep, LookInv
  <2> QED
    BY <1>t, <1>l, <2>1 DEF LookInv
<1>5. CASE EngineThrow \/ EngineRequested
  BY <1>5 DEF EngineThrow, EngineRequested, LookInv
<1>6. CASE Rerun
  <2>1. eleg' = 1 /\ epc' = "look"
    BY <1>6 DEF Rerun
  <2> QED
    BY <1>t, <1>l, <2>1 DEF LookInv
<1> QED
  BY <1>1, <1>2, <1>3, <1>4, <1>5, <1>6 DEF Next, SourceThread, EngineThread, Returned
-----------------------------------------------------------------------------
(* The time line and the timer.                                            *)

LEMMA TickSetFinite == ASSUME NEW k \in Nat PROVE IsFiniteSet(TickSet(k)) /\ Cardinality(TickSet(k)) \in Nat
<1>1. IsFiniteSet(1 .. k)
  BY FS_Interval
<1>2. TickSet(k) \subseteq 1 .. k
  BY DEF TickSet
<1>3. IsFiniteSet(TickSet(k))
  BY <1>1, <1>2, FS_Subset
<1> QED
  BY <1>3, FS_CardinalityType

\* The number of periods between the first event and the latest.
LEMMA Quotient ==
    ASSUME NEW P \in Nat, P > 0, NEW q \in Nat, NEW a \in Nat, P * q <= a, a < P * q + P
    PROVE  a \div P = q
<1>1. /\ a = (P * (a \div P)) + (a % P) /\ a % P \in Int /\ 0 <= a % P /\ a % P < P
      /\ a \div P \in Int
  OBVIOUS
<1> DEFINE d == a \div P
<1>2. P * d <= a /\ a < P * d + P
  BY <1>1
<1>3. d \in Int
  BY <1>1
<1> HIDE DEF d
<1>4. ~(d < q)
  <2> SUFFICES ASSUME d + 1 <= q PROVE FALSE
    BY <1>3
  <2>1. P * (d + 1) <= P * q
    BY <1>3
  <2>2. P * (d + 1) = P * d + P
    BY <1>3
  <2> QED
    BY <1>2, <1>3, <2>1, <2>2
<1>5. ~(q < d)
  <2> SUFFICES ASSUME q + 1 <= d PROVE FALSE
    BY <1>3
  <2>1. P * (q + 1) <= P * d
    BY <1>3
  <2>2. P * (q + 1) = P * q + P
    OBVIOUS
  <2> QED
    BY <1>2, <1>3, <2>1, <2>2
<1> QED
  BY <1>3, <1>4, <1>5 DEF d

\* A step that steps nothing keeps the whole order.
LEMMA QuietOrder ==
    ASSUME OrderInv, TimerInv, OneTimeLine, TicksOnTime, UNCHANGED <<tape, stepped, armed, next_timer>>,
           \A l \in Legs : Coming(l)' \subseteq Coming(l)
    PROVE  OrderInv' /\ TimerInv' /\ OneTimeLine' /\ TicksOnTime'
<1>t. Legs' = Legs
  BY DEF Legs
<1>1. OrderInv'
  BY <1>t DEF OrderInv, Before
<1>2. Ticks' = Ticks /\ FirstTs' = FirstTs
  BY DEF Ticks, TickSet, FirstTs
<1>3. TimerInv'
  BY <1>t, <1>2 DEF TimerInv
<1>4. OneTimeLine'
  BY DEF OneTimeLine, Before
<1>5. TicksOnTime'
  BY <1>2 DEF TicksOnTime
<1> QED
  BY <1>1, <1>3, <1>4, <1>5

\* When next() chooses, the chosen event comes before all that is coming: a leg
\* that is not waiting has nothing more to give.
LEMMA EarliestFirst ==
    ASSUME TypeInv, StopInv, LineInv, LookInv, epc = "decide", ~Dry
    PROVE  /\ Earliest \in Legs /\ lookahead[Earliest] \in Coming(Earliest) /\ Ts(Earliest) \in Nat
           /\ \A m \in Legs : \A n \in Coming(m) :
                 /\ tape[m][n] \in Nat
                 /\ Ts(Earliest) < tape[m][n] \/ (Ts(Earliest) = tape[m][n] /\ Earliest <= m)
<1>l. NumLegs \in Nat /\ NumLegs > 0 /\ Legs = 1 .. NumLegs
  BY TapeFacts DEF TypeInv
<1>0. \A l \in Legs : /\ lookahead[l] \in Nat /\ pulled[l] \in Nat /\ pending[l] \in Nat
                      /\ queue[l] \in Seq(Nat) /\ Len(tape[l]) \in Nat
  BY TapeFacts DEF TypeInv
<1>1. Earliest \in Present /\ \A m \in Present : \/ Ts(Earliest) < Ts(m)
                                                 \/ Ts(Earliest) = Ts(m) /\ Earliest <= m
  BY EarliestExists DEF Dry
<1>2. \A m \in Present : /\ m \in Legs /\ lookahead[m] \in 1 .. Len(tape[m]) /\ lookahead[m] \in Coming(m)
                         /\ Ts(m) \in Nat
  <2> SUFFICES ASSUME NEW m \in Present
               PROVE  /\ m \in Legs /\ lookahead[m] \in 1 .. Len(tape[m]) /\ lookahead[m] \in Coming(m)
                      /\ Ts(m) \in Nat
    OBVIOUS
  <2>1. m \in Legs /\ lookahead[m] # 0
    BY DEF Present, None
  <2>2. pulled[m] <= Len(tape[m]) /\ lookahead[m] <= pulled[m]
    BY <2>1 DEF LineInv, Line
  <2>3. lookahead[m] \in 1 .. Len(tape[m])
    BY <1>0, <2>1, <2>2
  <2>4. lookahead[m] \in Coming(m)
    BY <2>3 DEF Coming
  <2> QED
    BY <2>1, <2>3, <2>4, TapeFacts DEF Ts, TypeInv
<1>3. ASSUME NEW m \in Legs, NEW n \in Coming(m) PROVE m \in Present
  <2> SUFFICES ASSUME lookahead[m] = None PROVE FALSE
    BY DEF Present
  <2>1. flushing /\ queue[m] = << >>
    BY DEF LookInv, Met, Dry
  <2>2. ~Pulling
    BY <2>1 DEF StopInv, Stepping
  <2> QED
    BY <2>1, <2>2 DEF Coming, None
<1>4. ASSUME NEW m \in Legs, NEW n \in Coming(m)
      PROVE  n \in 1 .. Len(tape[m]) /\ lookahead[m] <= n
  <2>1. n \in 1 .. Len(tape[m])
    BY DEF Coming
  <2>2. Line(m)
    BY DEF LineInv
  <2>3. CASE n = lookahead[m]
    BY <1>0, <2>3, <2>1
  <2>4. CASE \E i \in 1 .. Len(queue[m]) : queue[m][i] = n
    BY <1>0, <2>1, <2>2, <2>4 DEF Line
  <2>5. CASE n = pending[m]
    BY <1>0, <2>1, <2>2, <2>5 DEF Line, None
  <2>6. CASE n > pulled[m]
    BY <1>0, <2>1, <2>2, <2>6 DEF Line
  <2> QED
    BY <2>1, <2>3, <2>4, <2>5, <2>6 DEF Coming
<1>5. ASSUME NEW m \in Legs, NEW n \in Coming(m)
      PROVE  /\ tape[m][n] \in Nat
             /\ Ts(Earliest) < tape[m][n] \/ (Ts(Earliest) = tape[m][n] /\ Earliest <= m)
  <2>1. m \in Present /\ Earliest \in Nat /\ m \in Nat
    BY <1>1, <1>2, <1>3, <1>l
  <2>2. Ts(m) \in Nat /\ Ts(Earliest) \in Nat
    BY <1>1, <1>2, <2>1
  <2>3. tape[m][n] \in Nat /\ Ts(m) <= tape[m][n]
    BY <1>2, <1>4, <2>1, TapeFacts DEF Ts, TypeInv
  <2> QED
    BY <1>1, <2>1, <2>2, <2>3
<1> QED
  BY <1>1, <1>2, <1>5

\* The step of something that follows all that was stepped and precedes all
\* that is coming.
LEMMA AppendOrder ==
    ASSUME TypeInv, OrderInv, OneTimeLine, tape' = tape,
           NEW e \in [leg : 0 .. NumLegs, n : Nat, ts : Nat], stepped' = Append(stepped, e),
           \A l \in Legs : Coming(l)' \subseteq Coming(l),
           \A i \in 1 .. Len(stepped) : Before(stepped[i], e),
           \A l \in Legs : \A n \in Coming(l) : Before(e, [leg |-> l, n |-> n, ts |-> tape[l][n]])
    PROVE  OrderInv' /\ OneTimeLine'
<1>t. Legs' = Legs
  BY DEF Legs
<1>1. stepped \in Seq([leg : 0 .. NumLegs, n : Nat, ts : Nat]) /\ Len(stepped) \in Nat
  BY DEF TypeInv
<1>2. /\ Len(stepped') = Len(stepped) + 1 /\ stepped'[Len(stepped) + 1] = e
      /\ \A i \in 1 .. Len(stepped) : stepped'[i] = stepped[i]
  BY <1>1
<1>3. \A i \in 1 .. Len(stepped') : \/ i = Len(stepped) + 1 /\ stepped'[i] = e
                                    \/ i \in 1 .. Len(stepped) /\ stepped'[i] = stepped[i]
  BY <1>1, <1>2
<1>4. ASSUME NEW i \in 1 .. Len(stepped'), NEW l \in Legs, NEW n \in Coming(l)'
      PROVE  Before(stepped'[i], [leg |-> l, n |-> n, ts |-> tape[l][n]])
  <2>1. n \in Coming(l)
    OBVIOUS
  <2>2. CASE i = Len(stepped) + 1 /\ stepped'[i] = e
    BY <2>1, <2>2
  <2>3. CASE i \in 1 .. Len(stepped) /\ stepped'[i] = stepped[i]
    BY <2>1, <2>3 DEF OrderInv
  <2> QED
    BY <1>3, <2>2, <2>3
<1>5. OrderInv'
  BY <1>4, <1>t DEF OrderInv, Before
<1>6. ASSUME NEW i \in 1 .. Len(stepped'), NEW j \in 1 .. Len(stepped'), i < j
      PROVE  Before(stepped'[i], stepped'[j])
  <2>1. i \in 1 .. Len(stepped) /\ stepped'[i] = stepped[i]
    BY <1>1, <1>2, <1>6
  <2>2. CASE j = Len(stepped) + 1 /\ stepped'[j] = e
    BY <2>1, <2>2
  <2>3. CASE j \in 1 .. Len(stepped) /\ stepped'[j] = stepped[j]
    BY <1>6, <2>1, <2>3 DEF OneTimeLine
  <2> QED
    BY <1>3, <2>2, <2>3
<1>7. OneTimeLine'
  BY <1>6 DEF OneTimeLine, Before
<1> QED
  BY <1>5, <1>7

LEMMA AppendTicks ==
    ASSUME TypeInv, NEW e \in [leg : 0 .. NumLegs, n : Nat, ts : Nat], stepped' = Append(stepped, e)
    PROVE  /\ \A i \in 1 .. Len(stepped) : TickSet(i)' = TickSet(i)
           /\ Ticks \in Nat /\ Ticks' = (IF e.leg = 0 THEN Ticks + 1 ELSE Ticks)
           /\ FirstTs' = (IF stepped = << >> THEN e.ts ELSE FirstTs)
<1>1. stepped \in Seq([leg : 0 .. NumLegs, n : Nat, ts : Nat]) /\ Len(stepped) \in Nat
  BY DEF TypeInv
<1>2. /\ Len(stepped') = Len(stepped) + 1 /\ stepped'[Len(stepped) + 1] = e
      /\ \A i \in 1 .. Len(stepped) : stepped'[i] = stepped[i]
  BY <1>1
<1>3. ASSUME NEW i \in 1 .. Len(stepped) PROVE TickSet(i)' = TickSet(i)
  BY <1>1, <1>2, SMTT(30) DEF TickSet
<1> DEFINE k == Len(stepped)
           S == TickSet(k)
<1>4. IsFiniteSet(S) /\ Ticks \in Nat /\ Ticks = Cardinality(S)
  BY <1>1, TickSetFinite DEF Ticks
<1>5. k + 1 \notin S
  BY <1>1 DEF TickSet
<1>6. Ticks' = Cardinality({j \in 1 .. k + 1 : stepped'[j].leg = 0})
  BY <1>2 DEF Ticks, TickSet
<1>7. ASSUME e.leg = 0 PROVE Ticks' = Ticks + 1
  <2>1. {j \in 1 .. k + 1 : stepped'[j].leg = 0} = S \cup {k + 1}
    BY <1>1, <1>2, <1>7 DEF TickSet
  <2> HIDE DEF S
  <2>2. Cardinality(S \cup {k + 1}) = Cardinality(S) + 1
    BY <1>4, <1>5, FS_AddElement
  <2> QED
    BY <1>4, <1>6, <2>1, <2>2
<1>8. ASSUME e.leg # 0 PROVE Ticks' = Ticks
  <2>1. {j \in 1 .. k + 1 : stepped'[j].leg = 0} = S
    BY <1>1, <1>2, <1>8 DEF TickSet
  <2> QED
    BY <1>4, <1>6, <1>8, <2>1
<1>9. FirstTs' = (IF stepped = << >> THEN e.ts ELSE FirstTs)
  <2>1. CASE stepped = << >>
    BY <1>2, <2>1 DEF FirstTs
  <2>2. CASE stepped # << >>
    <3>1. 1 \in 1 .. Len(stepped)
      BY <1>1, <2>2
    <3> QED
      BY <1>2, <2>2, <3>1 DEF FirstTs
  <2> QED
    BY <2>1, <2>2
<1> QED
  BY <1>3, <1>4, <1>7, <1>8, <1>9

\* An event steps when the boundaries up to it have ticked.
LEMMA AppendOnTime ==
    ASSUME TypeInv, TicksOnTime, NEW e \in [leg : 0 .. NumLegs, n : Nat, ts : Nat],
           stepped' = Append(stepped, e),
           (TimerPeriod > 0 /\ e.leg # 0) => Ticks' = (e.ts - FirstTs') \div TimerPeriod
    PROVE  TicksOnTime'
<1>1. stepped \in Seq([leg : 0 .. NumLegs, n : Nat, ts : Nat]) /\ Len(stepped) \in Nat
  BY DEF TypeInv
<1>2. /\ Len(stepped') = Len(stepped) + 1 /\ stepped'[Len(stepped) + 1] = e
      /\ \A i \in 1 .. Len(stepped) : stepped'[i] = stepped[i]
  BY <1>1
<1>3. /\ \A i \in 1 .. Len(stepped) : TickSet(i)' = TickSet(i)
      /\ stepped # << >> => FirstTs' = FirstTs
  BY AppendTicks
<1> SUFFICES ASSUME TimerPeriod > 0, NEW i \in 1 .. Len(stepped'), stepped'[i].leg # 0
             PROVE  Cardinality(TickSet(i)') = (stepped'[i].ts - FirstTs') \div TimerPeriod
  BY DEF TicksOnTime, TickSet
<1>4. CASE i \in 1 .. Len(stepped)
  <2>1. stepped # << >> /\ stepped'[i] = stepped[i] /\ TickSet(i)' = TickSet(i) /\ FirstTs' = FirstTs
    BY <1>1, <1>2, <1>3, <1>4
  <2>2. Cardinality(TickSet(i)) = (stepped[i].ts - FirstTs) \div TimerPeriod
    BY <1>4, <2>1 DEF TicksOnTime, TickSet
  <2> QED
    BY <2>1, <2>2
<1>5. CASE i = Len(stepped')
  <2>1. stepped'[i] = e /\ Ticks' = Cardinality(TickSet(i)')
    BY <1>2, <1>5 DEF Ticks, TickSet
  <2> QED
    BY <2>1
<1> QED
  BY <1>1, <1>2, <1>4, <1>5, SMTT(30)

\* A boundary at or before the earliest waiting event ticks.
LEMMA TickOrder ==
    ASSUME TimeInv, StepTick
    PROVE  OrderInv' /\ TimerInv' /\ OneTimeLine' /\ TicksOnTime'
<1> DEFINE e == [leg |-> 0, n |-> 0, ts |-> next_timer]
<1>0. TypeInv /\ StopInv /\ LineInv /\ LookInv /\ OrderInv /\ TimerInv /\ OneTimeLine /\ TicksOnTime
  BY DEF TimeInv
<1>1. /\ epc = "decide" /\ ~Dry /\ TimerPeriod > 0 /\ armed /\ next_timer <= Ts(Earliest)
      /\ next_timer' = next_timer + TimerPeriod /\ armed' = armed
      /\ UNCHANGED <<tape, pulled, pending, queue, lookahead, spc>> /\ stepped' = Append(stepped, e)
  BY DEF StepTick, TimerFires, sourceVars
<1>t. tape' = tape /\ Legs' = Legs /\ TimerPeriod \in Nat
  BY <1>1, SizesAssumption DEF Legs
<1>l. NumLegs \in Nat /\ Legs = 1 .. NumLegs
  BY <1>0, TapeFacts DEF TypeInv
<1>2. next_timer \in Nat /\ e \in [leg : 0 .. NumLegs, n : Nat, ts : Nat]
  BY <1>0, <1>l DEF TypeInv
<1>3. \A l \in Legs : Coming(l)' \subseteq Coming(l)
  BY <1>0, <1>1, StillLine DEF Pulling
<1>4. \A l \in Legs : \A n \in Coming(l) : tape[l][n] \in Nat /\ next_timer <= tape[l][n]
  <2>1. Ts(Earliest) \in Nat /\ \A l \in Legs : \A n \in Coming(l) :
                                  tape[l][n] \in Nat /\ Ts(Earliest) <= tape[l][n]
    BY <1>0, <1>1, EarliestFirst
  <2> QED
    BY <1>1, <1>2, <2>1
<1>5. \A l \in Legs : \A n \in Coming(l) : Before(e, [leg |-> l, n |-> n, ts |-> tape[l][n]])
  BY <1>2, <1>4, <1>l DEF Before
<1>6. /\ next_timer = FirstTs + TimerPeriod * Ticks + TimerPeriod /\ stepped # << >>
      /\ \A i \in 1 .. Len(stepped) : stepped[i].ts < next_timer
  BY <1>0, <1>1 DEF TimerInv
<1>7. \A i \in 1 .. Len(stepped) : Before(stepped[i], e)
  BY <1>6 DEF Before
<1>8. OrderInv' /\ OneTimeLine'
  BY <1>0, <1>1, <1>2, <1>3, <1>5, <1>7, AppendOrder
<1>9. TicksOnTime'
  BY <1>0, <1>1, <1>2, AppendOnTime
<1>10. Ticks \in Nat /\ Ticks' = Ticks + 1 /\ FirstTs' = FirstTs
  <2>1. /\ Ticks \in Nat /\ Ticks' = (IF e.leg = 0 THEN Ticks + 1 ELSE Ticks)
        /\ FirstTs' = (IF stepped = << >> THEN e.ts ELSE FirstTs)
    BY <1>0, <1>1, <1>2, AppendTicks
  <2> QED
    BY <1>6, <2>1
<1>11. stepped \in Seq([leg : 0 .. NumLegs, n : Nat, ts : Nat]) /\ Len(stepped) \in Nat
  BY <1>0 DEF TypeInv
<1>12. /\ Len(stepped') = Len(stepped) + 1 /\ stepped'[Len(stepped) + 1] = e /\ stepped' # << >>
       /\ \A i \in 1 .. Len(stepped) : stepped'[i] = stepped[i] /\ stepped[i].ts \in Nat
  <2>1. e \in [leg : 0 .. NumLegs, n : Nat, ts : Nat] /\ stepped' = Append(stepped, e)
    BY <1>1, <1>2
  <2> HIDE DEF e
  <2>2. /\ Len(stepped') = Len(stepped) + 1 /\ stepped'[Len(stepped) + 1] = e
        /\ \A i \in 1 .. Len(stepped) : stepped'[i] = stepped[i]
    BY <2>1, <1>11
  <2>3. \A i \in 1 .. Len(stepped) : stepped[i].ts \in Nat
    <3> DEFINE R == [leg : 0 .. NumLegs, n : Nat, ts : Nat]
    <3>1. stepped \in Seq(R)
      BY <1>11
    <3> HIDE DEF R
    <3>2. \A i \in 1 .. Len(stepped) : stepped[i] \in R
      BY <3>1
    <3> QED
      BY <3>2 DEF R
  <2>4. stepped' # << >>
    BY <1>11, <2>2
  <2> QED
    BY <2>2, <2>3, <2>4
<1>13. \A i \in 1 .. Len(stepped') : stepped'[i].ts < next_timer'
  <2> SUFFICES ASSUME NEW i \in 1 .. Len(stepped') PROVE stepped'[i].ts < next_timer'
    OBVIOUS
  <2>1. CASE i = Len(stepped) + 1
    BY <1>1, <1>2, <1>12, <1>t, <2>1
  <2>2. CASE i \in 1 .. Len(stepped)
    BY <1>1, <1>2, <1>6, <1>12, <1>t, <2>2
  <2> QED
    BY <1>11, <1>12, <2>1, <2>2
<1>14. next_timer' = FirstTs' + TimerPeriod * Ticks' + TimerPeriod
  <2>1. FirstTs \in Nat
    <3>1. 1 \in 1 .. Len(stepped)
      BY <1>6, <1>11
    <3> QED
      BY <3>1, <1>12 DEF FirstTs
  <2>2. TimerPeriod * (Ticks + 1) = TimerPeriod * Ticks + TimerPeriod /\ TimerPeriod * Ticks \in Nat
    BY <1>10, <1>t
  <2> QED
    BY <1>1, <1>6, <1>10, <1>t, <2>1, <2>2
<1>15. \A l \in Legs : \A n \in Coming(l)' : next_timer' <= tape[l][n] + TimerPeriod
  BY <1>1, <1>2, <1>3, <1>4, <1>t
<1>16. TimerInv'
  BY <1>1, <1>t, <1>12, <1>13, <1>14, <1>15 DEF TimerInv
<1> QED
  BY <1>8, <1>9, <1>16

\* Otherwise the earliest waiting event steps.
LEMMA EventOrder ==
    ASSUME TimeInv, StepEvent
    PROVE  OrderInv' /\ TimerInv' /\ OneTimeLine' /\ TicksOnTime'
<1> DEFINE t == Ts(Earliest)
           e == [leg |-> Earliest, n |-> lookahead[Earliest], ts |-> t]
           P == TimerPeriod
<1>0. TypeInv /\ StopInv /\ LineInv /\ LookInv /\ OrderInv /\ TimerInv /\ OneTimeLine /\ TicksOnTime
  BY DEF TimeInv
<1>1. /\ epc = "decide" /\ ~Dry /\ ~TimerFires /\ Arm
      /\ UNCHANGED <<tape, pulled, pending, queue, spc>> /\ stepped' = Append(stepped, e)
      /\ lookahead' = [lookahead EXCEPT ![Earliest] = None]
  BY DEF StepEvent, sourceVars
<1>t. tape' = tape /\ Legs' = Legs /\ P \in Nat
  BY <1>1, SizesAssumption DEF Legs
<1>l. NumLegs \in Nat /\ Legs = 1 .. NumLegs
  BY <1>0, TapeFacts DEF TypeInv
<1>2. /\ Earliest \in Legs /\ lookahead[Earliest] \in Coming(Earliest) /\ t \in Nat
      /\ \A m \in Legs : \A n \in Coming(m) :
            tape[m][n] \in Nat /\ (t < tape[m][n] \/ (t = tape[m][n] /\ Earliest <= m))
  BY <1>0, <1>1, EarliestFirst
<1>3. e \in [leg : 0 .. NumLegs, n : Nat, ts : Nat] /\ e.leg # 0 /\ e.ts = t
  <2>1. Earliest \in 0 .. NumLegs /\ Earliest # 0 /\ lookahead[Earliest] \in Nat
    BY <1>0, <1>2, <1>l DEF TypeInv
  <2> QED
    BY <1>2, <2>1
<1>4. \A l \in Legs : Coming(l)' \subseteq Coming(l)
  BY <1>0, <1>1, <1>2, TakeLine
<1> HIDE DEF t
<1>5. \A l \in Legs : \A n \in Coming(l) : Before(e, [leg |-> l, n |-> n, ts |-> tape[l][n]])
  BY <1>2 DEF Before
<1>6. \A i \in 1 .. Len(stepped) : Before(stepped[i], e)
  <2>1. \A i \in 1 .. Len(stepped) :
           Before(stepped[i], [leg |-> Earliest, n |-> lookahead[Earliest],
                               ts |-> tape[Earliest][lookahead[Earliest]]])
    BY <1>0, <1>2 DEF OrderInv
  <2> QED
    BY <2>1 DEF t, Ts
<1>7. OrderInv' /\ OneTimeLine'
  BY <1>0, <1>1, <1>3, <1>4, <1>5, <1>6, AppendOrder
<1>8. Ticks \in Nat /\ Ticks' = Ticks /\ FirstTs' = (IF stepped = << >> THEN t ELSE FirstTs)
  <2>1. /\ Ticks \in Nat /\ Ticks' = (IF e.leg = 0 THEN Ticks + 1 ELSE Ticks)
        /\ FirstTs' = (IF stepped = << >> THEN e.ts ELSE FirstTs)
    BY <1>0, <1>1, <1>3, AppendTicks
  <2> QED
    BY <1>3, <2>1
<1>9. stepped \in Seq([leg : 0 .. NumLegs, n : Nat, ts : Nat]) /\ Len(stepped) \in Nat
  BY <1>0 DEF TypeInv
<1>10. /\ Len(stepped') = Len(stepped) + 1 /\ stepped'[Len(stepped) + 1] = e /\ stepped' # << >>
       /\ \A i \in 1 .. Len(stepped) : stepped'[i] = stepped[i] /\ stepped[i].ts \in Nat
  <2>1. e \in [leg : 0 .. NumLegs, n : Nat, ts : Nat] /\ stepped' = Append(stepped, e)
    BY <1>1, <1>3
  <2> HIDE DEF e
  <2>2. /\ Len(stepped') = Len(stepped) + 1 /\ stepped'[Len(stepped) + 1] = e
        /\ \A i \in 1 .. Len(stepped) : stepped'[i] = stepped[i]
    BY <2>1, <1>9
  <2>3. \A i \in 1 .. Len(stepped) : stepped[i].ts \in Nat
    <3> DEFINE R == [leg : 0 .. NumLegs, n : Nat, ts : Nat]
    <3>1. stepped \in Seq(R)
      BY <1>9
    <3> HIDE DEF R
    <3>2. \A i \in 1 .. Len(stepped) : stepped[i] \in R
      BY <3>1
    <3> QED
      BY <3>2 DEF R
  <2>4. stepped' # << >>
    BY <1>9, <2>2
  <2> QED
    BY <2>2, <2>3, <2>4
<1>11. ASSUME P > 0
       PROVE  /\ armed' /\ FirstTs' \in Nat /\ next_timer' \in Nat
              /\ next_timer' = FirstTs' + P * Ticks' + P /\ t < next_timer'
              /\ \A i \in 1 .. Len(stepped) : stepped[i].ts < next_timer'
              /\ \A l \in Legs : \A n \in Coming(l) : next_timer' <= tape[l][n] + P
              /\ next_timer' <= t + P
  <2>1. CASE ~armed
    <3>1. stepped = << >> /\ armed' = TRUE /\ next_timer' = t + P
      BY <1>0, <1>1, <1>11, <2>1 DEF TimerInv, Arm, t
    <3>2. Len(stepped) = 0 /\ FirstTs' = t
      BY <1>8, <3>1
    <3>3. Ticks = 0
      <4>1. TickSet(Len(stepped)) = {}
        BY <3>2 DEF TickSet
      <4> QED
        BY <4>1, FS_EmptySet DEF Ticks
    <3>4. next_timer' = FirstTs' + P * Ticks' + P
      BY <1>2, <1>8, <1>t, <3>1, <3>2, <3>3
    <3>5. \A l \in Legs : \A n \in Coming(l) : next_timer' <= tape[l][n] + P
      BY <1>2, <1>t, <3>1
    <3> QED
      BY <1>2, <1>t, <1>11, <3>1, <3>2, <3>4, <3>5
  <2>2. CASE armed
    <3>1. armed' = armed /\ next_timer' = next_timer /\ ~(next_timer <= t)
      BY <1>1, <1>11, <2>2 DEF Arm, TimerFires, t
    <3>2. /\ stepped # << >> /\ next_timer = FirstTs + P * Ticks + P
          /\ \A i \in 1 .. Len(stepped) : stepped[i].ts < next_timer
          /\ \A l \in Legs : \A n \in Coming(l) : next_timer <= tape[l][n] + P
      BY <1>0, <1>11, <2>2 DEF TimerInv
    <3>3. FirstTs' = FirstTs /\ FirstTs \in Nat
      <4>1. 1 \in 1 .. Len(stepped)
        BY <1>9, <3>2
      <4> QED
        BY <1>8, <1>10, <3>2, <4>1 DEF FirstTs
    <3>4. next_timer <= t + P
      BY <1>2, <3>2 DEF t, Ts
    <3>5. next_timer \in Nat
      BY <1>0 DEF TypeInv
    <3>6. t < next_timer
      BY <1>2, <3>1, <3>5
    <3> QED
      BY <1>8, <2>2, <3>1, <3>2, <3>3, <3>4, <3>5, <3>6
  <2> QED
    BY <2>1, <2>2
<1>12. TimerInv'
  <2> SUFFICES ASSUME P > 0
               PROVE  /\ armed' /\ stepped' # << >> /\ next_timer' = FirstTs' + P * Ticks' + P
                      /\ \A i \in 1 .. Len(stepped') : stepped'[i].ts < next_timer'
                      /\ \A l \in Legs : \A n \in Coming(l)' : next_timer' <= tape[l][n] + P
    BY <1>t DEF TimerInv
  <2>1. \A i \in 1 .. Len(stepped') : stepped'[i].ts < next_timer'
    <3> SUFFICES ASSUME NEW i \in 1 .. Len(stepped') PROVE stepped'[i].ts < next_timer'
      OBVIOUS
    <3>1. CASE i = Len(stepped) + 1
      BY <1>3, <1>10, <1>11, <3>1
    <3>2. CASE i \in 1 .. Len(stepped)
      BY <1>10, <1>11, <3>2
    <3> QED
      BY <1>9, <1>10, <3>1, <3>2
  <2>2. \A l \in Legs : \A n \in Coming(l)' : next_timer' <= tape[l][n] + P
    BY <1>4, <1>11
  <2> QED
    BY <1>10, <1>11, <2>1, <2>2
<1>13. P > 0 => Ticks' = (t - FirstTs') \div P
  <2> SUFFICES ASSUME P > 0 PROVE Ticks' = (t - FirstTs') \div P
    OBVIOUS
  <2>1. /\ FirstTs' \in Nat /\ next_timer' \in Nat /\ Ticks' \in Nat /\ P * Ticks' \in Nat
        /\ next_timer' = FirstTs' + P * Ticks' + P /\ t < next_timer' /\ next_timer' <= t + P
    BY <1>8, <1>11, <1>t
  <2>2. t - FirstTs' \in Nat /\ P * Ticks' <= t - FirstTs' /\ t - FirstTs' < P * Ticks' + P
    <3> DEFINE m == P * Ticks'
               f == FirstTs'
               w == next_timer'
    <3>1. f \in Nat /\ w \in Nat /\ m \in Nat /\ w = f + m + P /\ t < w /\ w <= t + P
      BY <2>1
    <3> HIDE DEF m, f, w
    <3>2. t - f \in Nat /\ m <= t - f /\ t - f < m + P
      BY <1>2, <1>t, <3>1
    <3> QED
      BY <3>2 DEF m, f
  <2> QED
    BY <1>t, <2>1, <2>2, Quotient
<1>14. TicksOnTime'
  BY <1>0, <1>1, <1>3, <1>13, AppendOnTime
<1> QED
  BY <1>7, <1>12, <1>14
-----------------------------------------------------------------------------
(* The invariant, and what it says.                                        *)

LEMMA TimeInit == Init => TimeInv
<1> SUFFICES ASSUME Init PROVE TimeInv
  OBVIOUS
<1>1. tape \in Tapes
  BY DEF Init
<1>l. NumLegs \in Nat /\ NumLegs > 0 /\ Legs = 1 .. NumLegs
  BY <1>1, TapeFacts
<1>2. /\ spc = "round" /\ sleg = 1 /\ epc = "look" /\ eleg = 1 /\ missing = FALSE /\ flushing = FALSE
      /\ pulled = [l \in Legs |-> 0] /\ pending = [l \in Legs |-> 0] /\ lookahead = [l \in Legs |-> 0]
      /\ queue = [l \in Legs |-> << >>] /\ armed = FALSE /\ next_timer = 0 /\ stepped = << >>
      /\ requests = 0 /\ popped = 0 /\ held = FALSE /\ broadcasts = 0
      /\ seen = [t \in {"source", "engine"} |-> 0] /\ calling = [t \in Threads |-> NotCalling]
  BY DEF Init, None
<1>3. TypeInv
  <2>1. 1 \in Legs
    BY <1>l
  <2>2. pulled \in [Legs -> Nat] /\ pending \in [Legs -> Nat] /\ lookahead \in [Legs -> Nat]
    BY <1>2
  <2>3. queue \in [Legs -> Seq(Nat)]
    BY <1>2
  <2>4. stepped \in Seq([leg : 0 .. NumLegs, n : Nat, ts : Nat])
    BY <1>2
  <2>5. seen \in [{"source", "engine"} -> Nat] /\ calling \in [Threads -> Nat \cup {NotCalling}]
    BY <1>2
  <2>6. requests \in Nat /\ popped \in Nat /\ broadcasts \in Nat /\ next_timer \in Nat
    BY <1>2
  <2> QED
    BY <1>1, <1>2, <2>1, <2>2, <2>3, <2>4, <2>5, <2>6 DEF TypeInv
<1>4. StopInv
  BY <1>2 DEF StopInv, Asked
<1>5. \A l \in Legs : pulled[l] = 0 /\ pending[l] = 0 /\ lookahead[l] = 0 /\ queue[l] = << >>
  BY <1>2
<1>6. LineInv
  <2>1. \A l \in Legs : Len(tape[l]) \in Nat
    BY <1>1, TapeFacts
  <2> QED
    BY <1>5, <2>1 DEF LineInv, Line, None
<1>7. LookInv
  BY <1>2, <1>l DEF LookInv
<1>8. OrderInv /\ OneTimeLine /\ TicksOnTime
  BY <1>2 DEF OrderInv, OneTimeLine, TicksOnTime
<1>9. TimerInv
  BY <1>2 DEF TimerInv
<1> QED
  BY <1>3, <1>4, <1>6, <1>7, <1>8, <1>9 DEF TimeInv

LEMMA TimeStep == ASSUME TimeInv, [Next]_vars PROVE TimeInv'
<1>0. TypeInv /\ StopInv /\ LineInv /\ LookInv /\ OrderInv /\ TimerInv /\ OneTimeLine /\ TicksOnTime
  BY DEF TimeInv
<1>1. TypeInv' /\ StopInv' /\ LineInv' /\ LookInv'
  BY <1>0, TypeStep, StopStep, LineStep, LookStep
<1>2. OrderInv' /\ TimerInv' /\ OneTimeLine' /\ TicksOnTime'
  <2>1. CASE StepTick
    BY <2>1, TickOrder
  <2>2. CASE StepEvent
    BY <2>2, EventOrder
  <2>3. CASE Rerun
    <3>1. stepped' = << >> /\ armed' = FALSE
      BY <2>3 DEF Rerun
    <3> QED
      BY <3>1 DEF OrderInv, TimerInv, OneTimeLine, TicksOnTime
  <2>4. CASE ~StepTick /\ ~StepEvent /\ ~Rerun
    <3>1. UNCHANGED <<tape, stepped, armed, next_timer>>
      BY <2>4 DEF Next, SourceThread, EngineThread, PumpThread, MainThread, vars, PumpHead, PumpTake,
             PumpBroadcast, PollRound, AfterRound, SourceThrow, SourceRequested, Look,
             StepDry, EnginePoll, EngineThrow, EngineRequested, JoinSource, MainRequested,
             JoinEngine, Return, Returned, engineVars
    <3>2. \A l \in Legs : Coming(l)' \subseteq Coming(l)
      BY <1>0, <2>4, LineStep
    <3> QED
      BY <1>0, <3>1, <3>2, QuietOrder
  <2> QED
    BY <2>1, <2>2, <2>3, <2>4
<1> QED
  BY <1>1, <1>2 DEF TimeInv

\* Every thread of every run keeps the inductive invariant: the legs' events on
\* their way are in order, the engine chooses only when each leg waits or is
\* done, and the timer's next boundary is between what was stepped and what
\* comes.
THEOREM TimeInvariance == Spec => []TimeInv
<1>1. TimeInv /\ [Next]_vars => TimeInv'
  BY TimeStep
<1> QED
  BY TimeInit, <1>1, PTL DEF Spec

\* Engine::run() over BacktestInProcessTransport::next() steps one time line:
\* ascending timestamps, ties by leg, ticks before the events at or after their
\* boundary, whatever the tapes, the capacities, the scheduling of the threads
\* and the failures.
THEOREM OneLine == Spec => []OneTimeLine
<1>1. TimeInv => OneTimeLine
  BY DEF TimeInv
<1> QED
  BY TimeInvariance, <1>1, PTL

\* When next() hands out an event, exactly the timer boundaries up to it have
\* ticked.
THEOREM TickedOnTime == Spec => []TicksOnTime
<1>1. TimeInv => TicksOnTime
  BY DEF TimeInv
<1> QED
  BY TimeInvariance, <1>1, PTL

-----------------------------------------------------------------------------
(* Nothing is lost, repeated or reordered on the way.                      *)

\* The events of leg l between its source and the engine.
OnWay(l) == Elements(queue[l]) \cup InFlight(l)

\* What was fed comes before what is on the way, and together they are what
\* was pulled, but for what was forgotten.
Fed(l) == /\ fed[l] \in Seq(Nat) /\ Climbs(fed[l])
          /\ \A m \in Elements(fed[l]), n \in OnWay(l) : m < n
          /\ Elements(fed[l]) \cup OnWay(l) = (1 .. pulled[l]) \ forgotten[l]
          /\ forgotten[l] \subseteq 1 .. pulled[l]

\* A run without an error empties its legs: the source ends when every leg is
\* done, since a stop before that comes of an error, and the engine ends when
\* it flushes and finds nothing.
EndInv == /\ done \in [Legs -> BOOLEAN] /\ \A l \in Legs : done[l] => pending[l] = None
          /\ flushing \/ epc = "poll" => ~missing
          /\ spc = "stopping" => "source" \in failed
          /\ epc = "stopping" => "engine" \in failed
          /\ spc = "ended" /\ failed = {} => \A l \in Legs : done[l]
          /\ epc = "ended" /\ "engine" \notin failed =>
                ~Pulling /\ \A l \in Legs : lookahead[l] = None /\ queue[l] = << >>
          /\ mpc # "join_source" => spc = "ended"
          /\ mpc \in {"join_pump", "returned"} => epc = "ended"

LossInv == /\ TimeInv /\ DOMAIN fed = Legs
           /\ (\A l \in Legs : Fed(l)) /\ EndInv

LEMMA AppendElements ==
    ASSUME NEW s \in Seq(Nat), NEW n \in Nat
    PROVE  Append(s, n) \in Seq(Nat) /\ Elements(Append(s, n)) = Elements(s) \cup {n}
<1> DEFINE t == Append(s, n)
<1>1. /\ Len(s) \in Nat /\ t \in Seq(Nat) /\ Len(t) = Len(s) + 1 /\ t[Len(s) + 1] = n
      /\ \A i \in 1 .. Len(s) : t[i] = s[i]
  OBVIOUS
<1> HIDE DEF t
<1>2. Elements(t) \subseteq Elements(s) \cup {n}
  <2>1. \A i \in 1 .. Len(t) : i \in 1 .. Len(s) \/ i = Len(s) + 1
    BY <1>1
  <2>2. \A i \in 1 .. Len(t) : t[i] = n \/ \E j \in 1 .. Len(s) : t[i] = s[j]
    BY <1>1, <2>1
  <2> QED
    BY <2>2 DEF Elements
<1>3. Elements(s) \cup {n} \subseteq Elements(t)
  <2>1. \A i \in 1 .. Len(s) : i \in 1 .. Len(t)
    BY <1>1
  <2>2. Len(s) + 1 \in 1 .. Len(t)
    BY <1>1
  <2> QED
    BY <1>1, <2>1, <2>2 DEF Elements
<1>4. Elements(t) = Elements(s) \cup {n}
  BY <1>2, <1>3
<1> QED
  BY <1>1, <1>4 DEF t

LEMMA TailElements ==
    ASSUME NEW s \in Seq(Nat), s # << >>
    PROVE  /\ Elements(s) = {Head(s)} \cup Elements(Tail(s)) /\ Head(s) \in Nat
<1> DEFINE t == Tail(s)
<1>1. /\ Len(s) \in Nat /\ Len(s) > 0 /\ Len(t) = Len(s) - 1 /\ Head(s) = s[1] /\ s[1] \in Nat
      /\ \A i \in 1 .. Len(t) : t[i] = s[i + 1]
  OBVIOUS
<1> HIDE DEF t
<1>2. Elements(t) \cup {s[1]} \subseteq Elements(s)
  <2>1. \A i \in 1 .. Len(t) : i + 1 \in 1 .. Len(s)
    BY <1>1
  <2>2. 1 \in 1 .. Len(s)
    BY <1>1
  <2> QED
    BY <1>1, <2>1, <2>2 DEF Elements
<1>3. ASSUME NEW i \in 1 .. Len(s) PROVE s[i] \in {s[1]} \cup Elements(t)
  <2>1. CASE i = 1
    BY <2>1
  <2>2. CASE i # 1
    <3>1. i - 1 \in 1 .. Len(t) /\ (i - 1) + 1 = i
      BY <1>1, <2>2
    <3>2. t[i - 1] = s[i]
      BY <1>1, <3>1
    <3> QED
      BY <3>1, <3>2 DEF Elements
  <2> QED
    BY <2>1, <2>2
<1>4. Elements(s) = {s[1]} \cup Elements(t)
  BY <1>2, <1>3 DEF Elements
<1> QED
  BY <1>1, <1>4 DEF t

\* Two ascending sequences, the one after the other.
LEMMA Joined ==
    ASSUME NEW s \in Seq(Nat), NEW t \in Seq(Nat), Climbs(s), Climbs(t),
           \A m \in Elements(s), n \in Elements(t) : m < n
    PROVE  s \o t \in Seq(Nat) /\ Climbs(s \o t) /\ Elements(s \o t) = Elements(s) \cup Elements(t)
<1> DEFINE u == s \o t
<1>1. /\ Len(s) \in Nat /\ Len(t) \in Nat /\ u \in Seq(Nat) /\ Len(u) = Len(s) + Len(t)
      /\ \A i \in 1 .. Len(s) : u[i] = s[i]
  OBVIOUS
<1>2. \A i \in 1 .. Len(u) : i > Len(s) => u[i] = t[i - Len(s)]
  BY <1>1
<1> HIDE DEF u
<1>3. \A i \in 1 .. Len(u) : \/ i \in 1 .. Len(s) /\ u[i] = s[i]
                             \/ i > Len(s) /\ i - Len(s) \in 1 .. Len(t) /\ u[i] = t[i - Len(s)]
  BY <1>1, <1>2, SMTT(30)
<1>4. \A i \in 1 .. Len(s) : i \in 1 .. Len(u)
  BY <1>1
<1>5. ASSUME NEW i \in 1 .. Len(t) PROVE t[i] \in Elements(u)
  <2>1. Len(s) + i \in 1 .. Len(u) /\ Len(s) + i > Len(s) /\ (Len(s) + i) - Len(s) = i
    BY <1>1, SMTT(30)
  <2>2. u[Len(s) + i] = t[i]
    BY <1>2, <2>1
  <2> QED
    BY <2>1, <2>2 DEF Elements
<1>6. Elements(u) = Elements(s) \cup Elements(t)
  <2>1. Elements(s) \subseteq Elements(u)
    BY <1>1, <1>4 DEF Elements
  <2>2. Elements(t) \subseteq Elements(u)
    BY <1>5 DEF Elements
  <2>3. Elements(u) \subseteq Elements(s) \cup Elements(t)
    BY <1>3 DEF Elements
  <2> QED
    BY <2>1, <2>2, <2>3
<1>7. Climbs(u)
  <2> SUFFICES ASSUME NEW i \in 1 .. Len(u), NEW j \in 1 .. Len(u), i < j PROVE u[i] < u[j]
    BY DEF Climbs
  <2>1. CASE j \in 1 .. Len(s)
    <3>1. i \in 1 .. Len(s)
      BY <1>1, <2>1
    <3> QED
      BY <1>1, <2>1, <3>1 DEF Climbs
  <2>2. CASE i \in 1 .. Len(s) /\ j > Len(s)
    <3>1. u[i] = s[i] /\ j - Len(s) \in 1 .. Len(t) /\ u[j] = t[j - Len(s)]
      BY <1>1, <1>3, <2>2
    <3>2. u[i] \in Elements(s) /\ u[j] \in Elements(t)
      BY <2>2, <3>1 DEF Elements
    <3> QED
      BY <3>2
  <2>3. CASE i > Len(s) /\ j > Len(s)
    <3>1. /\ u[i] = t[i - Len(s)] /\ u[j] = t[j - Len(s)]
          /\ i - Len(s) \in 1 .. Len(t) /\ j - Len(s) \in 1 .. Len(t)
      BY <1>1, <1>3, <2>3
    <3>2. i - Len(s) < j - Len(s)
      BY <1>1
    <3> QED
      BY <3>1, <3>2 DEF Climbs
  <2> QED
    BY <1>1, <2>1, <2>2, <2>3
<1> QED
  BY <1>1, <1>6, <1>7 DEF u

LEMMA OptLine ==
    ASSUME NEW n \in Nat
    PROVE  Opt(n) \in Seq(Nat) /\ Climbs(Opt(n)) /\ Elements(Opt(n)) = {n} \ {None}
<1>1. CASE n = None
  BY <1>1 DEF Opt, Climbs, Elements
<1>2. CASE n # None
  <2>1. Opt(n) = <<n>> /\ Len(<<n>>) = 1 /\ <<n>>[1] = n /\ <<n>> \in Seq(Nat)
    BY <1>2 DEF Opt
  <2> HIDE DEF Opt
  <2>2. \A i \in 1 .. 1 : i = 1
    OBVIOUS
  <2> QED
    BY <1>2, <2>1, <2>2 DEF Climbs, Elements
<1> QED
  BY <1>1, <1>2

\* What is on the way of leg l depends on three pieces of its state.
LEMMA WaySame ==
    ASSUME NEW l \in Legs, queue'[l] = queue[l], lookahead'[l] = lookahead[l], pending'[l] = pending[l]
    PROVE  OnWay(l)' = OnWay(l)
  BY DEF OnWay, InFlight

LEMMA FedSame ==
    ASSUME NEW l \in Legs, Fed(l), fed'[l] = fed[l], OnWay(l)' = OnWay(l), pulled'[l] = pulled[l],
           forgotten'[l] = forgotten[l]
    PROVE  Fed(l)'
  BY DEF Fed

LEMMA WayTypes ==
    ASSUME TypeInv, LineInv, NEW l \in Legs
    PROVE  /\ queue[l] \in Seq(Nat) /\ lookahead[l] \in Nat /\ pending[l] \in Nat /\ pulled[l] \in Nat
           /\ Line(l) /\ Elements(queue[l]) \subseteq Nat
           /\ OnWay(l) \subseteq 1 .. pulled[l]
<1>1. queue[l] \in Seq(Nat) /\ lookahead[l] \in Nat /\ pending[l] \in Nat /\ pulled[l] \in Nat /\ Line(l)
  BY DEF TypeInv, LineInv
<1>2. \A i \in 1 .. Len(queue[l]) : queue[l][i] \in Nat /\ lookahead[l] < queue[l][i] /\ queue[l][i] <= pulled[l]
  BY <1>1 DEF Line
<1>3. \A n \in Elements(queue[l]) : n \in Nat /\ n \in 1 .. pulled[l]
  BY <1>1, <1>2 DEF Elements
<1>4. InFlight(l) \subseteq 1 .. pulled[l]
  BY <1>1 DEF InFlight, Line, None
<1> QED
  BY <1>1, <1>3, <1>4 DEF OnWay

\* record(): the event is in the sink or is held, wherever it was.
LEMMA RecordWay ==
    ASSUME TypeInv, NEW l \in Legs, NEW n \in Nat, n # None, Record(l, n), lookahead' = lookahead
    PROVE  /\ OnWay(l)' = Elements(queue[l]) \cup ({lookahead[l], n} \ {None})
           /\ \A m \in Legs \ {l} : OnWay(m)' = OnWay(m)
<1>1. queue \in [Legs -> Seq(Nat)] /\ pending \in [Legs -> Nat] /\ queue[l] \in Seq(Nat)
  BY DEF TypeInv
<1>2. \A m \in Legs \ {l} : queue'[m] = queue[m] /\ pending'[m] = pending[m]
  BY <1>1 DEF Record, Refused
<1>3. \A m \in Legs \ {l} : OnWay(m)' = OnWay(m)
  BY <1>2, WaySame
<1>4. CASE Len(queue[l]) < Capacity
  <2>1. queue'[l] = Append(queue[l], n) /\ pending'[l] = None
    BY <1>1, <1>4 DEF Record
  <2>2. Elements(queue'[l]) = Elements(queue[l]) \cup {n}
    BY <1>1, <2>1, AppendElements
  <2>3. OnWay(l)' = Elements(queue'[l]) \cup ({lookahead[l], None} \ {None})
    BY <2>1 DEF OnWay, InFlight
  <2> QED
    BY <1>3, <2>2, <2>3
<1>5. CASE ~(Len(queue[l]) < Capacity)
  <2>1. queue' = queue /\ pending'[l] = n
    BY <1>1, <1>5 DEF Record, Refused
  <2> QED
    BY <1>3, <2>1 DEF OnWay, InFlight
<1> QED
  BY <1>4, <1>5

\* A leg's turn in poll_round().
LEMMA ServeFed ==
    ASSUME TypeInv, LineInv, \A m \in Legs : Fed(m), NEW l \in Legs, ServeLeg(l),
           UNCHANGED <<tape, lookahead, fed, forgotten>>
    PROVE  \A m \in Legs : Fed(m)'
<1>1. pulled \in [Legs -> Nat] /\ pending[l] \in Nat /\ pulled[l] \in Nat
  BY DEF TypeInv
<1>2. CASE UNCHANGED <<queue, pulled, pending>>
  BY <1>2, WaySame, FedSame
<1>3. CASE pending[l] # None /\ Record(l, pending[l]) /\ UNCHANGED pulled
  <2>1. \A m \in Legs : OnWay(m)' = OnWay(m)
    BY <1>1, <1>3, RecordWay DEF OnWay, InFlight
  <2> QED
    BY <1>3, <2>1, FedSame
<1>4. CASE pending[l] = None /\ pulled' = [pulled EXCEPT ![l] = @ + 1] /\ Record(l, pulled[l] + 1)
  <2>1. pulled'[l] = pulled[l] + 1 /\ \A m \in Legs \ {l} : pulled'[m] = pulled[m]
    BY <1>1, <1>4
  <2>2. pulled[l] + 1 \in Nat /\ pulled[l] + 1 # None
    BY <1>1 DEF None
  <2>3. OnWay(l)' = OnWay(l) \cup {pulled[l] + 1} /\ \A m \in Legs \ {l} : OnWay(m)' = OnWay(m)
    BY <1>4, <2>2, RecordWay DEF OnWay, InFlight
  <2>4. \A m \in Legs \ {l} : Fed(m)'
    BY <2>1, <2>3, FedSame
  <2>5. Fed(l)
    OBVIOUS
  <2>6. \A m \in Elements(fed[l]) : m \in 1 .. pulled[l] /\ m < pulled[l] + 1
    BY <1>1, <2>5 DEF Fed
  <2>7. (1 .. pulled[l] + 1) \ forgotten[l] = ((1 .. pulled[l]) \ forgotten[l]) \cup {pulled[l] + 1}
    <3>1. pulled[l] + 1 \notin forgotten[l]
      BY <1>1, <2>5 DEF Fed
    <3>2. 1 .. pulled[l] + 1 = (1 .. pulled[l]) \cup {pulled[l] + 1}
      BY <1>1
    <3> QED
      BY <3>1, <3>2
  <2>8. forgotten[l] \subseteq 1 .. pulled[l] + 1
    BY <1>1, <2>5 DEF Fed
  <2>9. Fed(l)'
    BY <2>1, <2>3, <2>5, <2>6, <2>7, <2>8 DEF Fed
  <2> QED
    BY <2>4, <2>9
<1> QED
  BY <1>2, <1>3, <1>4 DEF ServeLeg

\* next()'s pass at one leg: from the sink into the lookahead.
LEMMA LookWay ==
    ASSUME TypeInv, LineInv, Look
    PROVE  \A m \in Legs : OnWay(m)' = OnWay(m)
<1>1. /\ eleg \in Legs /\ queue \in [Legs -> Seq(Nat)] /\ lookahead \in [Legs -> Nat]
      /\ queue[eleg] \in Seq(Nat) /\ pending' = pending
  BY DEF TypeInv, Look, sourceVars
<1>2. CASE ~(lookahead[eleg] = None /\ queue[eleg] # << >>)
  BY <1>1, <1>2, WaySame DEF Look
<1>3. CASE lookahead[eleg] = None /\ queue[eleg] # << >>
  <2>1. /\ lookahead' = [lookahead EXCEPT ![eleg] = Head(queue[eleg])]
        /\ queue' = [queue EXCEPT ![eleg] = Tail(queue[eleg])]
    BY <1>3 DEF Look
  <2>2. ASSUME NEW m \in Legs PROVE OnWay(m)' = OnWay(m)
    <3>1. CASE m # eleg
      BY <1>1, <2>1, <3>1, WaySame
    <3>2. CASE m = eleg
      <4>1. lookahead'[m] = Head(queue[m]) /\ queue'[m] = Tail(queue[m]) /\ pending'[m] = pending[m]
        BY <1>1, <2>1, <3>2
      <4>2. Elements(queue[m]) = {Head(queue[m])} \cup Elements(Tail(queue[m]))
        BY <1>1, <1>3, <3>2, TailElements
      <4>3. None \notin Elements(queue[m])
        BY <1>1, WayTypes DEF OnWay, None
      <4> QED
        BY <1>3, <3>2, <4>1, <4>2, <4>3 DEF OnWay, InFlight
    <3> QED
      BY <3>1, <3>2
  <2> QED
    BY <2>2
<1> QED
  BY <1>2, <1>3

\* A step feeds the engine the lookahead of one leg.
LEMMA StepFed ==
    ASSUME TypeInv, LineInv, StepEvent, \A m \in Legs : Fed(m), DOMAIN fed = Legs
    PROVE  DOMAIN fed' = Legs /\ \A m \in Legs : Fed(m)'
<1>0. PICK l \in Legs : l = Earliest /\ lookahead[l] # None
  BY EarliestExists DEF StepEvent, Dry, Present
<1> DEFINE n == lookahead[l]
<1>1. /\ fed' = [fed EXCEPT ![l] = Append(@, n)] /\ lookahead' = [lookahead EXCEPT ![l] = None]
      /\ UNCHANGED <<queue, pulled, pending, forgotten>>
  BY <1>0 DEF StepEvent, sourceVars
<1>2. l \in Legs /\ n # None
  BY <1>0
<1>3. lookahead \in [Legs -> Nat] /\ n \in Nat
  BY <1>2 DEF TypeInv
<1>4. ASSUME NEW m \in Legs, m # l PROVE Fed(m)'
  BY <1>1, <1>3, <1>4, WaySame, FedSame
<1>5. fed'[l] = Append(fed[l], n) /\ lookahead'[l] = None
  BY <1>1, <1>2, <1>3
<1>6. /\ queue[l] \in Seq(Nat) /\ pending[l] \in Nat /\ Line(l) /\ Fed(l)
      /\ \A i \in 1 .. Len(queue[l]) : queue[l][i] \in Nat
  BY <1>2, WayTypes
<1>7. \A k \in Elements(queue[l]) \cup ({pending[l]} \ {None}) : n < k
  BY <1>6 DEF Line, Elements
<1>8. OnWay(l) = (Elements(queue[l]) \cup ({pending[l]} \ {None})) \cup {n}
  BY <1>2 DEF OnWay, InFlight
<1>9. OnWay(l)' = Elements(queue[l]) \cup ({pending[l]} \ {None})
  BY <1>1, <1>5 DEF OnWay, InFlight
<1>10. fed[l] \in Seq(Nat) /\ Climbs(fed[l]) /\ \A k \in Elements(fed[l]) : k < n
  BY <1>6, <1>8 DEF Fed
<1>11. Append(fed[l], n) \in Seq(Nat) /\ Elements(fed'[l]) = Elements(fed[l]) \cup {n}
  BY <1>3, <1>5, <1>10, AppendElements
<1>12. Climbs(fed'[l])
  <2> SUFFICES ASSUME NEW i \in 1 .. Len(fed'[l]), NEW j \in 1 .. Len(fed'[l]), i < j
               PROVE  fed'[l][i] < fed'[l][j]
    BY DEF Climbs
  <2>1. /\ Len(fed[l]) \in Nat /\ Len(fed'[l]) = Len(fed[l]) + 1 /\ fed'[l][Len(fed[l]) + 1] = n
        /\ \A k \in 1 .. Len(fed[l]) : fed'[l][k] = fed[l][k]
    BY <1>3, <1>5, <1>10
  <2> HIDE DEF n
  <2>2. i \in 1 .. Len(fed[l]) /\ fed'[l][i] = fed[l][i]
    BY <2>1
  <2>3. CASE j = Len(fed[l]) + 1
    BY <1>10, <2>1, <2>2, <2>3 DEF Elements
  <2>4. CASE j \in 1 .. Len(fed[l])
    BY <1>10, <2>1, <2>2, <2>4 DEF Climbs
  <2> QED
    BY <2>1, <2>3, <2>4
<1> HIDE DEF n
<1>13. Fed(l)'
  <2>1. \A k \in Elements(fed'[l]), o \in OnWay(l)' : k < o
    BY <1>6, <1>7, <1>8, <1>9, <1>11 DEF Fed
  <2>2. Elements(fed'[l]) \cup OnWay(l)' = Elements(fed[l]) \cup OnWay(l)
    BY <1>8, <1>9, <1>11
  <2> QED
    BY <1>1, <1>5, <1>6, <1>11, <1>12, <2>1, <2>2 DEF Fed
<1> QED
  BY <1>1, <1>4, <1>13

\* run() is called again: what it had in flight is forgotten.
LEMMA RerunFed ==
    ASSUME TypeInv, LineInv, Rerun, \A m \in Legs : Fed(m)
    PROVE  \A m \in Legs : Fed(m)'
<1> SUFFICES ASSUME NEW l \in Legs PROVE Fed(l)'
  OBVIOUS
<1>1. /\ lookahead'[l] = None /\ pending'[l] = None /\ forgotten'[l] = forgotten[l] \cup InFlight(l)
      /\ UNCHANGED <<queue, pulled, fed>>
  BY DEF Rerun
<1>2. /\ queue[l] \in Seq(Nat) /\ lookahead[l] \in Nat /\ pending[l] \in Nat /\ Line(l) /\ Fed(l)
      /\ OnWay(l) \subseteq 1 .. pulled[l] /\ \A i \in 1 .. Len(queue[l]) : queue[l][i] \in Nat
  BY WayTypes
<1>3. OnWay(l)' = Elements(queue[l])
  BY <1>1 DEF OnWay, InFlight
<1>4. Elements(queue[l]) \cap InFlight(l) = {}
  <2>1. \A i \in 1 .. Len(queue[l]) : queue[l][i] # lookahead[l] /\ queue[l][i] # pending[l]
    BY <1>2 DEF Line, None
  <2> QED
    BY <2>1 DEF Elements, InFlight
<1>5. Elements(fed[l]) \cap InFlight(l) = {}
  <2>1. ASSUME NEW k \in Elements(fed[l]), k \in InFlight(l) PROVE FALSE
    <3>1. k < k /\ k \in 1 .. pulled[l]
      BY <1>2, <2>1 DEF Fed, OnWay
    <3> QED
      BY <3>1
  <2> QED
    BY <2>1
<1>6. Elements(fed[l]) \cup Elements(queue[l]) = (1 .. pulled[l]) \ (forgotten[l] \cup InFlight(l))
  BY <1>2, <1>4, <1>5 DEF Fed, OnWay
<1> QED
  BY <1>1, <1>2, <1>3, <1>6 DEF Fed, OnWay

LEMMA FedStep ==
    ASSUME TypeInv, LineInv, DOMAIN fed = Legs, \A m \in Legs : Fed(m), [Next]_vars
    PROVE  DOMAIN fed' = Legs' /\ \A m \in Legs' : Fed(m)'
<1>1. Legs' = Legs
  BY TapeFixed DEF Legs
<1>2. CASE PollRound
  <2>1. ServeLeg(sleg) /\ sleg \in Legs /\ UNCHANGED <<tape, lookahead, fed, forgotten>>
    BY <1>2 DEF PollRound, engineVars, callVars, TypeInv
  <2> QED
    BY <1>1, <2>1, ServeFed
<1>3. CASE Look
  <2>1. UNCHANGED <<fed, pulled, forgotten>>
    BY <1>3 DEF Look, callVars, sourceVars
  <2> QED
    BY <1>1, <1>3, <2>1, LookWay, FedSame
<1>4. CASE StepEvent
  BY <1>1, <1>4, StepFed
<1>5. CASE Rerun
  <2>1. fed' = fed
    BY <1>5 DEF Rerun
  <2> QED
    BY <1>1, <1>5, <2>1, RerunFed
<1>6. CASE ~PollRound /\ ~Look /\ ~StepEvent /\ ~Rerun
  <2>1. UNCHANGED <<pulled, pending, queue, lookahead, fed, forgotten>>
    BY <1>6 DEF Next, SourceThread, EngineThread, PumpThread, MainThread, vars, PumpHead, PumpTake,
           PumpBroadcast, AfterRound, SourceThrow, SourceRequested, StepTick,
           StepDry, EnginePoll, EngineThrow, EngineRequested, JoinSource, MainRequested,
           JoinEngine, Return, Returned, engineVars, sourceVars, callVars
  <2> QED
    BY <1>1, <2>1, WaySame, FedSame
<1> QED
  BY <1>2, <1>3, <1>4, <1>5, <1>6

\* How the threads end.
LEMMA EndStep ==
    ASSUME TypeInv, StopInv, LineInv, LookInv, EndInv, [Next]_vars
    PROVE  EndInv'
<1>t. tape' = tape /\ Legs' = Legs
  BY TapeFixed DEF Legs
<1>0. /\ pending \in [Legs -> Nat] /\ done \in [Legs -> BOOLEAN] /\ missing \in BOOLEAN
      /\ epc \in {"look", "decide", "poll", "stopping", "ended"}
  BY DEF TypeInv, EndInv
<1>1. CASE PollRound
  <2>1. /\ spc = "round" /\ spc' \in {"round", "after"} /\ ServeLeg(sleg) /\ sleg \in Legs
        /\ UNCHANGED <<epc, flushing, missing, lookahead, failed, mpc>>
    BY <1>1 DEF PollRound, engineVars, TypeInv
  <2>2. done' \in [Legs -> BOOLEAN] /\ \A l \in Legs : done'[l] => pending'[l] = None
    <3>1. CASE UNCHANGED <<pending, done>>
      BY <3>1 DEF EndInv
    <3>2. CASE pending[sleg] = None /\ done' = [done EXCEPT ![sleg] = TRUE] /\ UNCHANGED pending
      BY <1>0, <3>2 DEF EndInv
    <3>3. CASE ~done[sleg] /\ UNCHANGED done /\ \E n \in Nat : Record(sleg, n)
      <4>1. \A l \in Legs \ {sleg} : pending'[l] = pending[l]
        BY <1>0, <3>3 DEF Record, Refused
      <4> QED
        BY <1>0, <3>3, <4>1 DEF EndInv
    <3>4. pending[sleg] \in Nat /\ pulled[sleg] + 1 \in Nat
      BY <2>1 DEF TypeInv
    <3> QED
      BY <2>1, <3>1, <3>2, <3>3, <3>4 DEF ServeLeg
  <2>3. mpc = "join_source" /\ (epc = "ended" => "engine" \in failed)
    BY <2>1 DEF EndInv, Pulling
  <2> QED
    BY <1>t, <2>1, <2>2, <2>3 DEF EndInv
<1>2. CASE AfterRound
  <2>1. /\ spc = "after" /\ spc' \in {"ended", "round"}
        /\ spc' = "ended" => (\A l \in Legs : done[l]) \/ Stopped("source")
        /\ UNCHANGED <<done, pending, epc, flushing, missing, lookahead, queue, failed, mpc>>
    BY <1>2 DEF AfterRound, engineVars
  <2>2. mpc = "join_source" /\ (epc = "ended" => "engine" \in failed)
    BY <2>1 DEF EndInv, Pulling
  <2>3. Stopped("source") => failed # {}
    <3>1. broadcasts \in Nat /\ seen["source"] \in Nat
      BY DEF TypeInv
    <3>2. Stopped("source") => Asked
      BY <3>1 DEF Stopped, Asked
    <3>3. Asked => epc \in {"stopping", "ended"}
      BY <1>0, <2>1 DEF StopInv, Pulling, Stepping
    <3> QED
      BY <2>2, <3>2, <3>3 DEF EndInv
  <2> QED
    BY <1>t, <2>1, <2>2, <2>3 DEF EndInv
<1>3. CASE SourceThrow
  BY <1>t, <1>3 DEF SourceThrow, EndInv, engineVars, Pulling
<1>4. CASE SourceRequested
  BY <1>t, <1>4 DEF SourceRequested, EndInv, engineVars, Pulling
<1>5. CASE Look
  <2>1. /\ epc = "look" /\ epc' \in {"look", "decide"} /\ (flushing /\ ~missing => ~missing')
        /\ UNCHANGED <<spc, done, pending, flushing, failed, mpc>>
    BY <1>5 DEF Look, sourceVars
  <2> QED
    BY <1>t, <2>1 DEF EndInv
<1>6. CASE StepTick \/ StepEvent
  <2>1. /\ epc = "decide" /\ epc' \in {"look", "poll"} /\ ~missing'
        /\ UNCHANGED <<spc, done, pending, flushing, failed, mpc>>
    BY <1>6 DEF StepTick, StepEvent, AfterStep, sourceVars
  <2> QED
    BY <1>t, <2>1 DEF EndInv
<1>7. CASE StepDry
  <2>1. /\ epc = "decide" /\ Dry /\ epc' = (IF flushing THEN "ended" ELSE "poll") /\ ~missing'
        /\ UNCHANGED <<spc, done, pending, lookahead, queue, flushing, failed, mpc>>
    BY <1>7 DEF StepDry, sourceVars
  <2>2. ASSUME flushing PROVE ~Pulling /\ \A l \in Legs : lookahead[l] = None /\ queue[l] = << >>
    <3>1. ~Pulling
      BY <2>1, <2>2 DEF StopInv, Stepping
    <3>2. ~missing /\ Present = {}
      BY <2>1, <2>2 DEF EndInv, Dry
    <3>3. \A l \in Legs : lookahead[l] = None
      BY <3>2 DEF Present
    <3>4. \A l \in Legs : queue[l] = << >>
      BY <2>1, <3>2, <3>3 DEF LookInv, Met
    <3> QED
      BY <3>1, <3>3, <3>4
  <2> QED
    BY <1>t, <2>1, <2>2 DEF EndInv, Pulling
<1>8. CASE EnginePoll
  <2>1. /\ epc = "poll" /\ epc' = "look"
        /\ UNCHANGED <<spc, done, pending, missing, failed, mpc>>
    BY <1>8 DEF EnginePoll, sourceVars
  <2> QED
    BY <1>t, <2>1 DEF EndInv
<1>9. CASE EngineThrow
  <2>1. /\ epc = "decide" /\ epc' = "stopping" /\ failed' = failed \cup {"engine"}
        /\ UNCHANGED <<spc, done, pending, missing, flushing, mpc>>
    BY <1>9 DEF EngineThrow, sourceVars
  <2> QED
    BY <1>t, <2>1 DEF EndInv
<1>10. CASE EngineRequested
  <2>1. /\ epc = "stopping" /\ epc' = "ended"
        /\ UNCHANGED <<spc, done, pending, missing, flushing, failed, mpc>>
    BY <1>10 DEF EngineRequested, sourceVars
  <2> QED
    BY <1>t, <2>1 DEF EndInv
<1>11. CASE PumpThread \/ MainThread \/ UNCHANGED vars
  <2>1. UNCHANGED <<spc, epc, done, pending, missing, flushing, lookahead, queue, failed>>
    BY <1>11 DEF PumpThread, MainThread, PumpHead, PumpTake, PumpBroadcast, JoinSource, MainRequested,
                 JoinEngine, Return, vars, sourceVars, engineVars
  <2>2. (mpc' # "join_source" => spc = "ended") /\ (mpc' \in {"join_pump", "returned"} => epc = "ended")
    BY <1>11 DEF PumpThread, MainThread, PumpHead, PumpTake, PumpBroadcast, JoinSource, MainRequested,
                 JoinEngine, Return, vars, EndInv
  <2> QED
    BY <1>t, <2>1, <2>2 DEF EndInv, Pulling
<1>12. CASE Rerun
  <2>1. /\ spc' = "round" /\ epc' = "look" /\ missing' = FALSE /\ mpc' = "join_source"
        /\ done' = [l \in Legs |-> FALSE]
    BY <1>12 DEF Rerun
  <2> QED
    BY <1>t, <2>1 DEF EndInv
<1> QED
  BY <1>1, <1>2, <1>3, <1>4, <1>5, <1>6, <1>7, <1>8, <1>9, <1>10, <1>11, <1>12
     DEF Next, SourceThread, EngineThread, Returned

LEMMA LossInit == Init => LossInv
<1> SUFFICES ASSUME Init PROVE LossInv
  OBVIOUS
<1>1. TimeInv
  BY TimeInit
<1>2. /\ pulled = [l \in Legs |-> 0] /\ pending = [l \in Legs |-> None] /\ lookahead = [l \in Legs |-> None]
      /\ queue = [l \in Legs |-> << >>] /\ fed = [l \in Legs |-> << >>] /\ forgotten = [l \in Legs |-> {}]
      /\ done = [l \in Legs |-> FALSE] /\ spc = "round" /\ epc = "look" /\ missing = FALSE
      /\ mpc = "join_source"
  BY DEF Init
<1>3. ASSUME NEW l \in Legs PROVE Fed(l)
  <2>1. Elements(<< >>) = {} /\ Climbs(<< >>)
    BY DEF Elements, Climbs
  <2>2. fed[l] = << >> /\ queue[l] = << >> /\ InFlight(l) = {} /\ pulled[l] = 0 /\ forgotten[l] = {}
    BY <1>2 DEF InFlight
  <2> QED
    BY <2>1, <2>2 DEF Fed, OnWay
<1>4. EndInv
  BY <1>2 DEF EndInv
<1> QED
  BY <1>1, <1>2, <1>3, <1>4 DEF LossInv

LEMMA LossStep == LossInv /\ [Next]_vars => LossInv'
<1> SUFFICES ASSUME LossInv, [Next]_vars PROVE LossInv'
  OBVIOUS
<1>0. TimeInv /\ TypeInv /\ StopInv /\ LineInv /\ LookInv
  BY DEF LossInv, TimeInv
<1>1. TimeInv'
  BY <1>0, TimeStep
<1>2. DOMAIN fed' = Legs' /\ \A m \in Legs' : Fed(m)'
  BY <1>0, FedStep DEF LossInv
<1>3. EndInv'
  BY <1>0, EndStep DEF LossInv
<1> QED
  BY <1>1, <1>2, <1>3 DEF LossInv

LEMMA LossShows == LossInv => NothingLost
<1> SUFFICES ASSUME LossInv, NEW l \in Legs
             PROVE  LET line == fed[l] \o Opt(lookahead[l]) \o queue[l] \o Opt(pending[l])
                    IN  /\ Climbs(line) /\ Elements(line) = (1 .. pulled[l]) \ forgotten[l]
                        /\ (mpc = "returned" /\ failed = {}) => InFlight(l) = {} /\ queue[l] = << >>
  BY DEF NothingLost
<1>1. TypeInv /\ LineInv /\ Fed(l) /\ EndInv
  BY DEF LossInv, TimeInv
<1>2. /\ queue[l] \in Seq(Nat) /\ lookahead[l] \in Nat /\ pending[l] \in Nat /\ Line(l)
      /\ \A i \in 1 .. Len(queue[l]) : queue[l][i] \in Nat
  BY <1>1, WayTypes
<1> DEFINE a == fed[l]
           b == Opt(lookahead[l])
           q == queue[l]
           d == Opt(pending[l])
<1>3. /\ b \in Seq(Nat) /\ Climbs(b) /\ Elements(b) = {lookahead[l]} \ {None}
      /\ d \in Seq(Nat) /\ Climbs(d) /\ Elements(d) = {pending[l]} \ {None}
  BY <1>2, OptLine
<1>4. a \in Seq(Nat) /\ Climbs(a) /\ \A m \in Elements(a), n \in OnWay(l) : m < n
  BY <1>1 DEF Fed
<1>5. OnWay(l) = Elements(b) \cup Elements(q) \cup Elements(d)
  BY <1>3 DEF OnWay, InFlight
<1>6. /\ q \in Seq(Nat) /\ Climbs(q)
      /\ \A m \in Elements(b), n \in Elements(q) \cup Elements(d) : m < n
      /\ \A m \in Elements(q), n \in Elements(d) : m < n
  BY <1>2, <1>3 DEF Line, Climbs, Elements
<1> HIDE DEF a, b, q, d
<1>7. a \o b \in Seq(Nat) /\ Climbs(a \o b) /\ Elements(a \o b) = Elements(a) \cup Elements(b)
  BY <1>3, <1>4, <1>5, Joined
<1>8. /\ a \o b \o q \in Seq(Nat) /\ Climbs(a \o b \o q)
      /\ Elements(a \o b \o q) = Elements(a) \cup Elements(b) \cup Elements(q)
  BY <1>4, <1>5, <1>6, <1>7, Joined
<1>9. /\ Climbs(a \o b \o q \o d)
      /\ Elements(a \o b \o q \o d) = Elements(a) \cup Elements(b) \cup Elements(q) \cup Elements(d)
  BY <1>3, <1>4, <1>5, <1>6, <1>8, Joined, ZenonT(30)
<1>10. Elements(a \o b \o q \o d) = (1 .. pulled[l]) \ forgotten[l]
  BY <1>1, <1>5, <1>9 DEF Fed, a
<1>11. (mpc = "returned" /\ failed = {}) => InFlight(l) = {} /\ queue[l] = << >>
  BY <1>1 DEF EndInv, InFlight
<1> QED
  BY <1>9, <1>10, <1>11 DEF a, b, q, d

\* run_data_source() under backpressure, the sinks, next() and repeated calls of
\* run() lose, repeat and reorder nothing, and a run without an error leaves
\* nothing behind: for all tapes, capacities and polling intervals.
THEOREM LosesNothing == Spec => []NothingLost
<1>1. Spec => []LossInv
  BY LossInit, LossStep, PTL DEF Spec
<1> QED
  BY <1>1, LossShows, PTL

-----------------------------------------------------------------------------
(* The remaining types and bounds.                                         *)

\* Sinks and control inbox never hold more than they have room for, and the
\* counters of rounds, batches and runs stay within theirs.
BoundInv == /\ round \in 0 .. StopPollEvery - 1 /\ noData \in 0 .. MaxNoData
            /\ \A l \in Legs : Len(queue[l]) <= Capacity
            /\ batch \in 0 .. StepsPerPoll - 1 /\ requests <= ControlCapacity
            /\ ppc \in {"head", "drain", "ended"} /\ stop_pumping \in BOOLEAN
            /\ failed \subseteq {"source", "engine"}
            /\ mpc \in {"join_source", "requesting", "join_engine", "join_pump", "returned"}
            /\ runs \in 1 .. MaxRuns /\ interpreter \in BOOLEAN
            /\ fed \in [Legs -> Seq(Nat)] /\ past \in [Legs -> Seq(Nat)]
            /\ forgotten \in [Legs -> SUBSET Nat]

LEMMA BoundedQueues ==
    ASSUME TypeInv, BoundInv, NEW k \in Legs, ServeLeg(k) \/ (Look /\ k = eleg), NEW l \in Legs
    PROVE  Len(queue'[l]) <= Capacity
<1>0. queue \in [Legs -> Seq(Nat)] /\ Len(queue[l]) <= Capacity /\ Capacity \in Nat
  BY SizesAssumption DEF TypeInv, BoundInv
<1>1. CASE queue' = queue
  BY <1>0, <1>1
<1>2. ASSUME NEW n \in Nat, Len(queue[k]) < Capacity, queue' = [queue EXCEPT ![k] = Append(@, n)]
      PROVE  Len(queue'[l]) <= Capacity
  <2>1. Len(Append(queue[k], n)) = Len(queue[k]) + 1 /\ Len(queue[k]) \in Nat
    BY <1>0
  <2>2. queue'[l] = IF l = k THEN Append(queue[k], n) ELSE queue[l]
    BY <1>0, <1>2
  <2> QED
    BY <1>0, <1>2, <2>1, <2>2
<1>3. CASE Look /\ k = eleg
  <2>1. CASE lookahead[k] = None /\ queue[k] # << >>
    <3>1. queue'[l] = IF l = k THEN Tail(queue[k]) ELSE queue[l]
      BY <1>0, <1>3, <2>1 DEF Look
    <3>2. Len(Tail(queue[k])) = Len(queue[k]) - 1 /\ Len(queue[k]) \in Nat
      BY <1>0, <2>1
    <3> QED
      BY <1>0, <3>1, <3>2
  <2>2. CASE ~(lookahead[k] = None /\ queue[k] # << >>)
    BY <1>1, <1>3, <2>2 DEF Look
  <2> QED
    BY <2>1, <2>2
<1>4. CASE ServeLeg(k)
  <2>1. pending[k] \in Nat /\ pulled[k] + 1 \in Nat
    BY SMTT(30) DEF TypeInv
  <2>2. queue' = queue \/ Record(k, pending[k]) \/ Record(k, pulled[k] + 1)
    BY <1>4 DEF ServeLeg
  <2> QED
    BY <1>1, <1>2, <2>1, <2>2 DEF Record, Refused
<1> QED
  BY <1>3, <1>4

LEMMA BoundedRequests ==
    ASSUME TypeInv, BoundInv, NEW t \in Threads, EndRequest(t)
    PROVE  requests' <= ControlCapacity
<1>1. requests \in Nat /\ requests <= ControlCapacity /\ ControlCapacity \in Nat
  BY SizesAssumption DEF TypeInv, BoundInv
<1>2. requests' = requests \/ (requests < ControlCapacity /\ requests' = requests + 1)
  BY DEF EndRequest
<1> QED
  BY <1>1, <1>2

LEMMA BoundStep == ASSUME TypeInv, LineInv, BoundInv, [Next]_vars PROVE BoundInv'
<1>t. tape' = tape /\ Legs' = Legs
  BY TapeFixed DEF Legs
<1>0. /\ StopPollEvery \in Nat /\ StopPollEvery > 0 /\ StepsPerPoll \in Nat /\ MaxNoData \in Nat
      /\ MaxRuns \in Nat /\ MaxRuns > 0 /\ ControlCapacity \in Nat /\ MayThrow \subseteq {"source", "engine"}
      /\ Capacity \in Nat
  BY SizesAssumption, ThrowAssumption
<1>1. CASE PollRound
  <2>1. sleg \in Legs /\ ServeLeg(sleg)
    BY <1>1 DEF PollRound, TypeInv
  <2>2. \A l \in Legs : Len(queue'[l]) <= Capacity
    BY <2>1, BoundedQueues
  <2>3. noData' \in 0 .. MaxNoData
    <3>1. noData' = noData \/ (noData < MaxNoData /\ noData' = noData + 1)
      BY <2>1 DEF ServeLeg
    <3> QED
      BY <1>0, <3>1 DEF BoundInv
  <2> QED
    BY <1>1, <1>t, <2>2, <2>3 DEF BoundInv, PollRound, callVars, engineVars, controlVars, pumpVars
<1>2. CASE AfterRound
  <2>1. round' \in 0 .. StopPollEvery - 1
    <3>1. round' = (round + 1) % StopPollEvery /\ round \in Nat
      BY <1>0, <1>2 DEF AfterRound, BoundInv
    <3> QED
      BY <1>0, <3>1
  <2> QED
    BY <1>2, <1>t, <2>1 DEF BoundInv, AfterRound, callVars, engineVars, pumpVars
<1>3. CASE SourceThrow
  BY <1>3, <1>t DEF BoundInv, SourceThrow, callVars, engineVars, controlVars, pumpVars
<1>4. CASE SourceRequested
  <2>1. requests' <= ControlCapacity
    BY <1>4, BoundedRequests DEF SourceRequested, Threads
  <2> QED
    BY <1>4, <1>t, <2>1 DEF BoundInv, SourceRequested, EndRequest, callVars, engineVars, pumpVars
<1>5. CASE Look
  <2>1. \A l \in Legs : Len(queue'[l]) <= Capacity
    BY <1>5, BoundedQueues DEF TypeInv
  <2> QED
    BY <1>5, <1>t, <2>1 DEF BoundInv, Look, callVars, sourceVars, controlVars, pumpVars
<1>6. ASSUME AfterStep PROVE batch' \in 0 .. StepsPerPoll - 1
  BY <1>0, <1>6 DEF AfterStep, BoundInv
<1>7. CASE StepTick
  <2>1. batch' \in 0 .. StepsPerPoll - 1
    BY <1>6, <1>7 DEF StepTick
  <2> QED
    BY <1>7, <1>t, <2>1 DEF BoundInv, StepTick, callVars, sourceVars, controlVars, pumpVars
<1>8. CASE StepEvent
  <2>1. batch' \in 0 .. StepsPerPoll - 1
    BY <1>6, <1>8 DEF StepEvent
  <2>2. Earliest \in Legs
    BY <1>8, EarliestExists DEF StepEvent, Dry, Present
  <2>3. PICK l \in Legs : l = Earliest
    BY <2>2
  <2>4. fed' = [fed EXCEPT ![l] = Append(fed[l], lookahead[l])]
    BY <1>8, <2>3 DEF StepEvent
  <2>5. fed \in [Legs -> Seq(Nat)] /\ fed[l] \in Seq(Nat) /\ lookahead[l] \in Nat
    BY DEF BoundInv, TypeInv
  <2>6. fed' \in [Legs -> Seq(Nat)]
    <3>1. Append(fed[l], lookahead[l]) \in Seq(Nat)
      BY <2>5
    <3> QED
      BY <2>4, <2>5, <3>1
  <2> QED
    BY <1>8, <1>t, <2>1, <2>6 DEF BoundInv, StepEvent, sourceVars, controlVars, pumpVars
<1>9. CASE StepDry
  BY <1>0, <1>9, <1>t DEF BoundInv, StepDry, callVars, sourceVars, controlVars, pumpVars
<1>10. CASE EnginePoll
  BY <1>10, <1>t DEF BoundInv, EnginePoll, callVars, sourceVars, pumpVars
<1>11. CASE EngineThrow
  BY <1>11, <1>t DEF BoundInv, EngineThrow, callVars, sourceVars, controlVars, pumpVars
<1>12. CASE EngineRequested
  <2>1. requests' <= ControlCapacity
    BY <1>12, BoundedRequests DEF EngineRequested, Threads
  <2> QED
    BY <1>12, <1>t, <2>1 DEF BoundInv, EngineRequested, EndRequest, callVars, sourceVars, pumpVars
<1>13. CASE PumpHead
  BY <1>13, <1>t DEF BoundInv, PumpHead, callVars, sourceVars, engineVars
<1>14. CASE PumpTake
  <2>1. requests' <= ControlCapacity /\ ppc' \in {"head", "drain"}
    BY <1>0, <1>14 DEF BoundInv, PumpTake, TypeInv
  <2> QED
    BY <1>14, <1>t, <2>1 DEF BoundInv, PumpTake, callVars, sourceVars, engineVars
<1>15. CASE PumpBroadcast
  BY <1>15, <1>t DEF BoundInv, PumpBroadcast, callVars, sourceVars, engineVars
<1>16. CASE JoinSource
  BY <1>16, <1>t DEF BoundInv, JoinSource, callVars, sourceVars, engineVars, controlVars, pumpVars
<1>17. CASE MainRequested
  <2>1. requests' <= ControlCapacity
    BY <1>17, BoundedRequests DEF MainRequested, Threads
  <2> QED
    BY <1>17, <1>t, <2>1 DEF BoundInv, MainRequested, EndRequest, callVars, sourceVars, engineVars, pumpVars
<1>18. CASE JoinEngine
  BY <1>18, <1>t DEF BoundInv, JoinEngine, callVars, sourceVars, engineVars, pumpVars
<1>19. CASE Return
  BY <1>19, <1>t DEF BoundInv, Return, sourceVars, engineVars, controlVars, pumpVars
<1>20. CASE Rerun
  <2>1. forgotten' \in [Legs -> SUBSET Nat]
    <3>1. \A l \in Legs : forgotten[l] \cup InFlight(l) \in SUBSET Nat
      BY DEF BoundInv, TypeInv, InFlight
    <3> QED
      BY <1>20, <3>1 DEF Rerun
  <2>2. runs' \in 1 .. MaxRuns
    BY <1>0, <1>20 DEF BoundInv, Rerun
  <2>3. 0 \in 0 .. StopPollEvery - 1 /\ batch' \in 0 .. StepsPerPoll - 1 /\ 0 <= ControlCapacity
    BY <1>0, <1>20 DEF BoundInv, Rerun
  <2> QED
    BY <1>20, <1>t, <2>1, <2>2, <2>3 DEF BoundInv, Rerun, Lock
<1>21. CASE UNCHANGED vars
  BY <1>21, <1>t DEF BoundInv, vars, callVars, sourceVars, engineVars, controlVars, pumpVars
<1> QED
  BY <1>1, <1>2, <1>3, <1>4, <1>5, <1>7, <1>8, <1>9, <1>10, <1>11, <1>12, <1>13, <1>14, <1>15, <1>16,
     <1>17, <1>18, <1>19, <1>20, <1>21
     DEF Next, SourceThread, EngineThread, PumpThread, MainThread, Returned

\* The threads of a backtest, its sinks, channel and histories keep their types;
\* no sink holds more than kRingCapacity events and the control inbox no more
\* than its own, whoever fails and however often run() is called.
THEOREM TypeCorrect == Spec => []TypeOK
<1>1. Init => BoundInv
  <2> SUFFICES ASSUME Init PROVE BoundInv
    OBVIOUS
  <2>1. /\ StopPollEvery \in Nat /\ StopPollEvery > 0 /\ StepsPerPoll \in Nat /\ StepsPerPoll > 0
        /\ MaxNoData \in Nat /\ MaxRuns \in Nat /\ MaxRuns > 0 /\ ControlCapacity \in Nat /\ Capacity \in Nat
    BY SizesAssumption
  <2>2. \A l \in Legs : Len(queue[l]) <= Capacity
    BY <2>1 DEF Init
  <2>3. /\ round \in 0 .. StopPollEvery - 1 /\ noData \in 0 .. MaxNoData /\ batch \in 0 .. StepsPerPoll - 1
        /\ requests <= ControlCapacity /\ runs \in 1 .. MaxRuns
    BY <2>1 DEF Init
  <2>4. fed \in [Legs -> Seq(Nat)] /\ past \in [Legs -> Seq(Nat)] /\ forgotten \in [Legs -> SUBSET Nat]
    BY DEF Init
  <2> QED
    BY <2>2, <2>3, <2>4 DEF Init, BoundInv
<1>2. TimeInv /\ BoundInv /\ [Next]_vars => BoundInv'
  BY BoundStep DEF TimeInv
<1>3. LossInv /\ BoundInv => TypeOK
  <2> SUFFICES ASSUME LossInv, BoundInv PROVE TypeOK
    OBVIOUS
  <2>1. TypeInv /\ done \in [Legs -> BOOLEAN]
    BY DEF LossInv, TimeInv, EndInv
  <2>2. requests \in 0 .. ControlCapacity
    BY <2>1, SizesAssumption DEF TypeInv, BoundInv
  <2> QED
    BY <2>1, <2>2 DEF TypeInv, BoundInv, TypeOK
<1>4. Spec => []TimeInv
  BY TimeInvariance
<1>5. Spec => []LossInv
  BY LossInit, LossStep, PTL DEF Spec
<1> QED
  BY <1>1, <1>2, <1>3, <1>4, <1>5, PTL DEF Spec
=============================================================================
