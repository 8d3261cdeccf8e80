------------------------------ MODULE Backtest ------------------------------
(***************************************************************************)
(* apps/backtest/backtest_base.hpp, BacktestBase::run(), with the threads  *)
(* it starts and joins:                                                    *)
(*                                                                         *)
(*   source -- data_source/run_data_source.hpp: moves events from leg i's  *)
(*             source into leg i's FanoutSink queue, round robin           *)
(*   engine -- Engine::run() over BacktestInProcessTransport: merges the   *)
(*             queues by timestamp, interleaves timer ticks                *)
(*   pump   -- ControlChannel's thread: turns stop requests into           *)
(*             broadcast Stop commands                                     *)
(*   main   -- joins the source, requests stop, joins the engine           *)
(*                                                                         *)
(* run() may be called again on the same object, after an error too: the   *)
(* sources and the sinks live on, everything else is built anew.           *)
(*                                                                         *)
(* A FanoutSink queue is a bounded FIFO: SpmcQueue with one consumer,      *)
(* shown to be one by the refinement BroadcastLog.  Every command in the   *)
(* control channel is Stop, so its two queues are counters.  An event is   *)
(* its index in its leg's tape.  Engine::step()'s effect on the book is    *)
(* module Engine's; here a step only appends to the history `stepped`.     *)
(***************************************************************************)
EXTENDS Integers, Sequences, FiniteSets

CONSTANTS Capacity,         \* kRingCapacity, slots of each sink
          TimerPeriod,      \* timer_period_, 0 for none
          StepsPerPoll,     \* kStepsPerPoll
          StopPollEvery,    \* stop_poll_every
          ControlCapacity,  \* ControlChannel::kCapacity
          MayThrow,         \* which of "source", "engine" may throw
          Tapes,            \* what to replay: per leg, the timestamps of its source
          MaxNoData,        \* bound: NoData answers of all sources
          MaxRuns           \* bound: calls of run()

\* A source's contract: its events come in ascending timestamp order.
Ascending(s) == \A i, j \in 1 .. Len(s) : i <= j => s[i] <= s[j]

ASSUME SizesAssumption == /\ Capacity \in Nat \ {0, 1}
                          /\ StepsPerPoll \in Nat \ {0} /\ StopPollEvery \in Nat \ {0}
                          /\ ControlCapacity \in Nat \ {0, 1} /\ TimerPeriod \in Nat
                          /\ MaxNoData \in Nat /\ MaxRuns \in Nat \ {0}
ASSUME TapesAssumption == \A t \in Tapes : /\ t # << >> /\ t \in Seq(Seq(Nat))
                                           /\ \A l \in DOMAIN t : Ascending(t[l])
ASSUME ThrowAssumption == MayThrow \subseteq {"source", "engine"}

VARIABLES tape,       \* tape[l]: the timestamps leg l's source will yield
          \* source thread
          spc, sleg, round, pulled, pending, done, noData,
          \* sinks
          queue,
          \* engine thread
          epc, eleg, missing, lookahead, batch, flushing, armed, next_timer, stepped,
          \* control channel
          requests, popped, ppc, held, broadcasts, seen, stop_pumping,
          \* request_stop() calls in flight, and the threads' errors
          calling, failed,
          \* main thread, the calls of run(), and whether it holds the interpreter
          mpc, runs, interpreter,
          \* histories: per leg, the events stepped, those stepped by earlier calls
          \* of run(), and those that were lost with them
          fed, past, forgotten

sourceVars == <<spc, sleg, round, pulled, pending, done, noData>>
engineVars == <<epc, eleg, missing, lookahead, batch, flushing, armed, next_timer, stepped>>
pumpVars == <<ppc, held, broadcasts>>
controlVars == <<requests, popped, pumpVars, seen, stop_pumping>>
callVars == <<runs, interpreter, fed, past, forgotten>>
vars == <<tape, sourceVars, queue, engineVars, controlVars, calling, failed, mpc, callVars>>

\* Sources, sinks and transport legs.
Legs == DOMAIN tape
NumLegs == Len(tape)

Threads == {"source", "engine", "main"}
NotCalling == -1
None == 0

Init == /\ tape \in Tapes
        /\ spc = "round" /\ sleg = 1 /\ round = 0
        /\ pulled = [l \in Legs |-> 0] /\ pending = [l \in Legs |-> None]
        /\ done = [l \in Legs |-> FALSE] /\ noData = 0
        /\ queue = [l \in Legs |-> << >>]
        /\ epc = "look" /\ eleg = 1 /\ missing = FALSE
        /\ lookahead = [l \in Legs |-> None]
        /\ batch = 0 /\ flushing = FALSE /\ armed = FALSE /\ next_timer = 0 /\ stepped = << >>
        /\ requests = 0 /\ popped = 0 /\ ppc = "head" /\ held = FALSE /\ broadcasts = 0
        /\ seen = [t \in {"source", "engine"} |-> 0] /\ stop_pumping = FALSE
        /\ calling = [t \in Threads |-> NotCalling] /\ failed = {}
        /\ mpc = "join_source" /\ runs = 1 /\ interpreter = FALSE
        /\ fed = [l \in Legs |-> << >>] /\ past = [l \in Legs |-> << >>]
        /\ forgotten = [l \in Legs |-> {}]
-----------------------------------------------------------------------------
(* ControlChannel.                                                         *)

\* request_stop() begins: MpscQueue::push loads enqueue_pos_.
BeginRequest(t) == calling' = [calling EXCEPT ![t] = popped + requests]

\* It ends: the request is queued, or refused because the inbox is full or,
\* as MpscQueue shows, because the pump has popped past the position loaded.
EndRequest(t) ==
    /\ calling[t] # NotCalling
    /\ calling' = [calling EXCEPT ![t] = NotCalling]
    /\ \/ requests < ControlCapacity /\ requests' = requests + 1
       \/ (requests = ControlCapacity \/ popped > calling[t]) /\ UNCHANGED requests
    /\ UNCHANGED <<popped, pumpVars, seen, stop_pumping>>

\* poll(): try_pop of the broadcast queue, every command being Stop.
Poll(t) == seen' = [seen EXCEPT ![t] = IF @ < broadcasts THEN @ + 1 ELSE @]
Stopped(t) == seen[t] < broadcasts

\* The head of pump_loop(): leave if told to, else sleep and drain.
PumpHead == /\ ppc = "head"
            /\ ppc' = IF stop_pumping THEN "ended" ELSE "drain"
            /\ UNCHANGED <<tape, callVars, sourceVars, queue, engineVars, requests, popped, held, broadcasts,
                           seen, stop_pumping, calling, failed, mpc>>

PumpTake == /\ ppc = "drain" /\ ~held
            /\ IF requests > 0
               THEN requests' = requests - 1 /\ popped' = popped + 1 /\ held' = TRUE /\ UNCHANGED ppc
               ELSE ppc' = "head" /\ UNCHANGED <<requests, popped, held>>
            /\ UNCHANGED <<tape, callVars, sourceVars, queue, engineVars, broadcasts, seen, stop_pumping,
                           calling, failed, mpc>>

\* broadcast() spins until its push succeeds.
BroadcastFull == \E t \in DOMAIN seen : broadcasts - seen[t] >= ControlCapacity
PumpBroadcast == /\ held /\ ~BroadcastFull
                 /\ broadcasts' = broadcasts + 1
                 /\ held' = FALSE
                 /\ UNCHANGED <<tape, callVars, sourceVars, queue, engineVars, requests, popped, ppc, seen,
                                stop_pumping, calling, failed, mpc>>
-----------------------------------------------------------------------------
(* The source thread: run_data_source().                                   *)

\* Mutant: an event refused by a full sink is forgotten.
Refused_Drops(l, n) == pending' = [pending EXCEPT ![l] = None] /\ UNCHANGED queue

\* record() of event n of leg l: pushed, or held in `pending`.
Refused(l, n) == pending' = [pending EXCEPT ![l] = n] /\ UNCHANGED queue

Record(l, n) ==
    IF Len(queue[l]) < Capacity
    THEN queue' = [queue EXCEPT ![l] = Append(@, n)] /\ pending' = [pending EXCEPT ![l] = None]
    ELSE Refused(l, n)

\* One leg's turn in poll_round(): retry the held event, or pull the next.
ServeLeg(l) ==
    \/ done[l] /\ UNCHANGED <<queue, pulled, pending, done, noData>>
    \/ ~done[l] /\ pending[l] # None
         /\ Record(l, pending[l]) /\ UNCHANGED <<pulled, done, noData>>
    \/ ~done[l] /\ pending[l] = None /\ pulled[l] < Len(tape[l])
         /\ pulled' = [pulled EXCEPT ![l] = @ + 1]
         /\ Record(l, pulled[l] + 1) /\ UNCHANGED <<done, noData>>
    \/ ~done[l] /\ pending[l] = None /\ noData < MaxNoData
         /\ noData' = noData + 1 /\ UNCHANGED <<queue, pulled, pending, done>>
    \/ ~done[l] /\ pending[l] = None /\ pulled[l] = Len(tape[l])
         /\ done' = [done EXCEPT ![l] = TRUE] /\ UNCHANGED <<queue, pulled, pending, noData>>

PollRound == /\ spc = "round"
             /\ ServeLeg(sleg)
             /\ IF sleg < NumLegs
                THEN sleg' = sleg + 1 /\ UNCHANGED spc
                ELSE sleg' = 1 /\ spc' = "after"
             /\ UNCHANGED <<tape, callVars, round, engineVars, controlVars, calling, failed, mpc>>

\* Mutant: a pump blocked on a full sink never looks at the control channel.
AfterRound_NoPoll ==
              /\ spc = "after"
              /\ spc' = IF \A l \in Legs : done[l] THEN "ended" ELSE "round"
              /\ round' = (round + 1) % StopPollEvery
              /\ UNCHANGED <<tape, callVars, sleg, pulled, pending, done, noData, queue, engineVars,
                             controlVars, calling, failed, mpc>>

\* The rest of the loop body: return when every leg is done, poll for Stop
\* every StopPollEvery rounds.
AfterRound == /\ spc = "after"
              /\ IF \A l \in Legs : done[l]
                 THEN spc' = "ended" /\ UNCHANGED seen
                 ELSE IF round % StopPollEvery = 0
                      THEN Poll("source") /\ spc' = IF Stopped("source") THEN "ended" ELSE "round"
                      ELSE spc' = "round" /\ UNCHANGED seen
              /\ round' = (round + 1) % StopPollEvery
              /\ UNCHANGED <<tape, callVars, sleg, pulled, pending, done, noData, queue, engineVars, requests,
                             popped, pumpVars, stop_pumping, calling, failed, mpc>>

\* A source throws: the error is kept and stop requested.
SourceThrow == /\ spc = "round" /\ "source" \in MayThrow
               /\ ~done[sleg] /\ pending[sleg] = None
               /\ failed' = failed \cup {"source"}
               /\ spc' = "stopping"
               /\ BeginRequest("source")
               /\ UNCHANGED <<tape, callVars, sleg, round, pulled, pending, done, noData, queue, engineVars,
                              controlVars, mpc>>

SourceRequested == /\ spc = "stopping"
                   /\ EndRequest("source")
                   /\ spc' = "ended"
                   /\ UNCHANGED <<tape, callVars, sleg, round, pulled, pending, done, noData, queue,
                                  engineVars, failed, mpc>>
-----------------------------------------------------------------------------
(* The engine thread: Engine::run() over BacktestInProcessTransport.       *)

\* next()'s pass over the legs: fill an empty lookahead from its queue.
Look == /\ epc = "look"
        /\ IF lookahead[eleg] = None /\ queue[eleg] # << >>
           THEN /\ lookahead' = [lookahead EXCEPT ![eleg] = Head(queue[eleg])]
                /\ queue' = [queue EXCEPT ![eleg] = Tail(@)]
           ELSE UNCHANGED <<lookahead, queue>>
        /\ missing' = (missing \/ (lookahead'[eleg] = None /\ ~flushing))
        /\ IF eleg < NumLegs THEN eleg' = eleg + 1 /\ UNCHANGED epc
                            ELSE eleg' = 1 /\ epc' = "decide"
        /\ UNCHANGED <<tape, callVars, sourceVars, batch, flushing, armed, next_timer, stepped, controlVars,
                       calling, failed, mpc>>

Ts(l) == tape[l][lookahead[l]]
Present == {l \in Legs : lookahead[l] # None}
Dry == missing \/ Present = {}

\* Mutant: ties go to the later leg, and a leg may overtake a waiting one.
Earliest_LastTie == CHOOSE l \in Present : \A m \in Present :
                      Ts(l) < Ts(m) \/ (Ts(l) = Ts(m) /\ l >= m)

\* The leg whose waiting event is earliest, the first such leg on a tie.
Earliest == CHOOSE l \in Present : \A m \in Present :
              Ts(l) < Ts(m) \/ (Ts(l) = Ts(m) /\ l <= m)

\* Mutant: a boundary exactly on an event waits until after it.
TimerFires_Late == TimerPeriod > 0 /\ armed /\ next_timer < Ts(Earliest)

\* A timer boundary at or before the next event goes first.
TimerFires == TimerPeriod > 0 /\ armed /\ next_timer <= Ts(Earliest)

\* The timer is armed one period after the first event.
Arm == IF TimerPeriod > 0 /\ ~armed
       THEN armed' = TRUE /\ next_timer' = Ts(Earliest) + TimerPeriod
       ELSE UNCHANGED <<armed, next_timer>>

\* What run() does after a step(): keep draining, or poll at the batch's end.
AfterStep == /\ missing' = FALSE
             /\ IF ~flushing /\ batch + 1 = StepsPerPoll
                THEN epc' = "poll" /\ batch' = 0
                ELSE epc' = "look" /\ batch' = IF flushing THEN 0 ELSE batch + 1

\* The strategy and the gate take the interpreter for their callables.
StepTick == /\ epc = "decide" /\ ~interpreter /\ ~Dry /\ TimerFires
            /\ next_timer' = next_timer + TimerPeriod
            /\ stepped' = Append(stepped, [leg |-> 0, n |-> 0, ts |-> next_timer])
            /\ AfterStep
            /\ UNCHANGED <<tape, callVars, sourceVars, queue, eleg, lookahead, flushing, armed, controlVars,
                           calling, failed, mpc>>

StepEvent == /\ epc = "decide" /\ ~interpreter /\ ~Dry /\ ~TimerFires
             /\ LET l == Earliest
                IN  /\ stepped' = Append(stepped, [leg |-> l, n |-> lookahead[l], ts |-> Ts(l)])
                    /\ fed' = [fed EXCEPT ![l] = Append(@, lookahead[l])]
                    /\ lookahead' = [lookahead EXCEPT ![l] = None]
             /\ Arm
             /\ AfterStep
             /\ UNCHANGED <<tape, runs, interpreter, past, forgotten, sourceVars, queue, eleg, flushing,
                            controlVars, calling, failed, mpc>>

\* step() returned false: poll, or leave run() if already draining.
StepDry == /\ epc = "decide" /\ Dry
           /\ missing' = FALSE /\ batch' = 0
           /\ epc' = IF flushing THEN "ended" ELSE "poll"
           /\ UNCHANGED <<tape, callVars, sourceVars, queue, eleg, lookahead, flushing, armed, next_timer,
                          stepped, controlVars, calling, failed, mpc>>

\* control.poll(): on Stop, flush() and drain what is buffered.
EnginePoll == /\ epc = "poll"
              /\ Poll("engine")
              /\ flushing' = Stopped("engine")
              /\ epc' = "look"
              /\ UNCHANGED <<tape, callVars, sourceVars, queue, eleg, missing, lookahead, batch, armed,
                             next_timer, stepped, requests, popped, pumpVars, stop_pumping,
                             calling, failed, mpc>>

\* A collaborator throws inside step(): the error is kept and stop requested.
EngineThrow == /\ epc = "decide" /\ ~interpreter /\ ~Dry /\ "engine" \in MayThrow
               /\ failed' = failed \cup {"engine"}
               /\ epc' = "stopping"
               /\ BeginRequest("engine")
               /\ UNCHANGED <<tape, callVars, sourceVars, queue, eleg, missing, lookahead, batch, flushing,
                              armed, next_timer, stepped, controlVars, mpc>>

EngineRequested == /\ epc = "stopping"
                   /\ EndRequest("engine")
                   /\ epc' = "ended"
                   /\ UNCHANGED <<tape, callVars, sourceVars, queue, eleg, missing, lookahead, batch,
                                  flushing, armed, next_timer, stepped, failed, mpc>>
-----------------------------------------------------------------------------
(* The main thread: run() after it has started the threads.                *)

JoinSource == /\ mpc = "join_source" /\ spc = "ended"
              /\ mpc' = "requesting"
              /\ BeginRequest("main")
              /\ UNCHANGED <<tape, callVars, sourceVars, queue, engineVars, controlVars, failed>>

MainRequested == /\ mpc = "requesting"
                 /\ EndRequest("main")
                 /\ mpc' = "join_engine"
                 /\ UNCHANGED <<tape, callVars, sourceVars, queue, engineVars, failed>>

\* The engine is joined; on the way out ~ControlChannel stops the pump.
JoinEngine == /\ mpc = "join_engine" /\ epc = "ended"
              /\ mpc' = "join_pump"
              /\ stop_pumping' = TRUE
              /\ UNCHANGED <<tape, callVars, sourceVars, queue, engineVars, requests, popped, pumpVars, seen,
                             calling, failed>>

\* run() returns or rethrows, and takes the interpreter back.
Return == /\ mpc = "join_pump" /\ ppc = "ended"
          /\ mpc' = "returned" /\ interpreter' = TRUE
          /\ UNCHANGED <<tape, runs, fed, past, forgotten, sourceVars, queue, engineVars, controlVars,
                         calling, failed>>

\* Mutant: the binding of run() keeps the interpreter.
Lock_Kept == interpreter' = interpreter

\* The binding of run() releases the interpreter.
Lock == interpreter' = FALSE

\* What a run that is over had taken out of its sources and sinks in vain.
InFlight(l) == {lookahead[l], pending[l]} \ {None}

\* run() is called again: new threads, control channel, engine and transport
\* over the same sources and sinks.
Rerun == /\ mpc = "returned" /\ runs < MaxRuns
         /\ mpc' = "join_source" /\ runs' = runs + 1 /\ Lock
         /\ past' = fed
         /\ forgotten' = [l \in Legs |-> forgotten[l] \cup InFlight(l)]
         /\ spc' = "round" /\ sleg' = 1 /\ round' = 0
         /\ pending' = [l \in Legs |-> None] /\ done' = [l \in Legs |-> FALSE]
         /\ epc' = "look" /\ eleg' = 1 /\ missing' = FALSE
         /\ lookahead' = [l \in Legs |-> None]
         /\ batch' = 0 /\ flushing' = FALSE /\ armed' = FALSE /\ next_timer' = 0 /\ stepped' = << >>
         /\ requests' = 0 /\ popped' = 0 /\ ppc' = "head" /\ held' = FALSE /\ broadcasts' = 0
         /\ seen' = [t \in DOMAIN seen |-> 0] /\ stop_pumping' = FALSE
         /\ calling' = [t \in Threads |-> NotCalling] /\ failed' = {}
         /\ UNCHANGED <<tape, queue, pulled, noData, fed>>

\* run() has returned for the last time: nothing moves any more.
Returned == mpc = "returned" /\ UNCHANGED vars
-----------------------------------------------------------------------------
SourceThread == PollRound \/ AfterRound \/ SourceThrow \/ SourceRequested
EngineThread == \/ Look \/ StepTick \/ StepEvent \/ StepDry \/ EnginePoll
                \/ EngineThrow \/ EngineRequested
PumpThread == PumpHead \/ PumpTake \/ PumpBroadcast
MainThread == JoinSource \/ MainRequested \/ JoinEngine \/ Return

Next == SourceThread \/ EngineThread \/ PumpThread \/ MainThread \/ Rerun \/ Returned

Spec == Init /\ [][Next]_vars

\* Each std::thread is scheduled as long as it can run; none waits for a lock.
Fairness == /\ WF_vars(SourceThread) /\ WF_vars(EngineThread)
            /\ WF_vars(PumpThread) /\ WF_vars(MainThread)

FairSpec == Spec /\ Fairness
-----------------------------------------------------------------------------
(* Properties.                                                             *)

\* The types of the threads' program counters, sinks, channel and histories.
TypeOK == /\ tape \in Tapes
          /\ spc \in {"round", "after", "stopping", "ended"} /\ sleg \in Legs
          /\ round \in 0 .. StopPollEvery - 1
          /\ pulled \in [Legs -> Nat] /\ pending \in [Legs -> Nat]
          /\ done \in [Legs -> BOOLEAN] /\ noData \in 0 .. MaxNoData
          /\ queue \in [Legs -> Seq(Nat)] /\ \A l \in Legs : Len(queue[l]) <= Capacity
          /\ epc \in {"look", "decide", "poll", "stopping", "ended"} /\ eleg \in Legs
          /\ missing \in BOOLEAN /\ lookahead \in [Legs -> Nat]
          /\ batch \in 0 .. StepsPerPoll - 1
          /\ flushing \in BOOLEAN /\ armed \in BOOLEAN /\ next_timer \in Nat
          /\ stepped \in Seq([leg : 0 .. NumLegs, n : Nat, ts : Nat])
          /\ requests \in 0 .. ControlCapacity /\ popped \in Nat
          /\ ppc \in {"head", "drain", "ended"} /\ held \in BOOLEAN
          /\ broadcasts \in Nat /\ seen \in [{"source", "engine"} -> Nat]
          /\ stop_pumping \in BOOLEAN
          /\ calling \in [Threads -> Nat \cup {NotCalling}]
          /\ failed \subseteq {"source", "engine"}
          /\ mpc \in {"join_source", "requesting", "join_engine", "join_pump", "returned"}
          /\ runs \in 1 .. MaxRuns /\ interpreter \in BOOLEAN
          /\ fed \in [Legs -> Seq(Nat)] /\ past \in [Legs -> Seq(Nat)]
          /\ forgotten \in [Legs -> SUBSET Nat]

Opt(n) == IF n = None THEN << >> ELSE <<n>>
Elements(s) == {s[i] : i \in 1 .. Len(s)}
Climbs(s) == \A i, j \in 1 .. Len(s) : i < j => s[i] < s[j]

\* Backpressure and reruns lose nothing and repeat or reorder nothing: on every
\* leg, what this and earlier runs have stepped, then the lookahead, the queue
\* and the held event are the events pulled so far, each once and in order,
\* but for what a run that failed had in flight; a run without an error leaves
\* nothing in flight and nothing in a sink.  (An event whose step threw still
\* sits in the lookahead of the model.)
NothingLost ==
    \A l \in Legs :
      LET line == fed[l] \o Opt(lookahead[l]) \o queue[l] \o Opt(pending[l])
      IN  /\ Climbs(line) /\ Elements(line) = (1 .. pulled[l]) \ forgotten[l]
          /\ (mpc = "returned" /\ failed = {}) => InFlight(l) = {} /\ queue[l] = << >>

Before(e, f) == e.ts < f.ts \/ (e.ts = f.ts /\ e.leg <= f.leg)

\* The engine sees one time line: events of all legs in ascending timestamp
\* order, ties by leg, and a tick before any event at or after its boundary;
\* so the replay does not depend on how the threads were scheduled.
OneTimeLine == \A i, j \in 1 .. Len(stepped) : i < j => Before(stepped[i], stepped[j])

FirstTs == stepped[1].ts

\* When an event at ts t is stepped, exactly the boundaries first + k * period
\* up to and including t have ticked.
TicksOnTime ==
    TimerPeriod > 0 =>
      \A i \in 1 .. Len(stepped) :
        stepped[i].leg # 0 =>
          Cardinality({j \in 1 .. i : stepped[j].leg = 0}) = (stepped[i].ts - FirstTs) \div TimerPeriod

\* The events that were left when this run began.
Left(l) == {i \in DOMAIN tape[l] : i \notin forgotten[l] /\ \A k \in DOMAIN past[l] : past[l][k] # i}

\* Those of leg l that come after every one of leg m.
Overhang(l, m) ==
    {i \in Left(l) : \A j \in Left(m) : tape[m][j] < tape[l][i] \/ (tape[m][j] = tape[l][i] /\ m < l)}

\* What a sink and the engine's lookahead hold of a leg when another leg has
\* come to its end.
Fits == \A l, m \in Legs : l # m => Cardinality(Overhang(l, m)) <= Capacity + 1

\* run() returns, whoever throws, however the threads interleave and whatever
\* an earlier run() left behind, and without an error it has stepped all that
\* was left of every source.  With several legs this needs the tail of each
\* leg to fit into its sink.
ReturnsIfFits ==
    Fits ~> /\ mpc = "returned"
            /\ failed = {} => \A l \in Legs : Len(fed[l]) - Len(past[l]) = Cardinality(Left(l))

(* A claim the code does not meet; a run of its own refutes it.            *)

\* "Joining once the sources run dry": run() returns, whatever the sources
\* hold.
Terminates == <>(mpc = "returned")
=============================================================================
