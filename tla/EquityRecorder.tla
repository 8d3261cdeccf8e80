--------------------------- MODULE EquityRecorder ---------------------------
(***************************************************************************)
(* engine/recorder/equity_series over core/spsc_queue.hpp.  The engine     *)
(* thread samples equity into a single-producer single-consumer ring; a    *)
(* drain thread moves the points into the series; the backtest's thread    *)
(* starts a recording, joins the engine, and finishes the recording, or    *)
(* starts the next one straight away when a run ended in an error.         *)
(*                                                                         *)
(* Shared loads and stores are steps.  A point is its sample number; the   *)
(* ring keeps one slot empty to tell full from empty.                      *)
(***************************************************************************)
EXTENDS Integers, Sequences

CONSTANTS Capacity,      \* kQueueCapacity
          MinInterval,   \* min_interval_ns, 0 for every step
          Gaps,          \* time between two steps of the engine
          MaxSamples,    \* bound: steps of a run
          MaxRuns,       \* bound: recordings
          Raw            \* storage without a live point

ASSUME CapacityAssumption == Capacity \in Nat /\ Capacity > 1
ASSUME SamplingAssumption == MinInterval \in Nat /\ Gaps \subseteq Nat
ASSUME RawAssumption == Raw \notin Nat
ASSUME BoundsAssumption == MaxSamples \in Nat /\ MaxRuns \in Nat

VARIABLES head, tail, storage,          \* SpscQueue
          epc, ts, samples, primed, last_sampled,  \* the engine thread and its recorder
          dpc, last, held, series, stop,      \* the drain thread
          mpc, runs,                          \* the backtest's thread
          recorded                            \* history: points pushed in this recording

ringVars == <<head, tail, storage>>
engineVars == <<epc, ts, samples, primed, last_sampled>>
drainVars == <<dpc, last, held, series>>
recorderVars == <<ringVars, engineVars, drainVars, stop, mpc, runs, recorded>>

Slots == 0 .. Capacity - 1

\* (i + 1) & INDEX_MASK
Succ(i) == (i + 1) % Capacity

RecorderInit == /\ head = 0 /\ tail = 0 /\ storage = [s \in Slots |-> Raw]
                /\ epc = "idle" /\ ts = 0 /\ samples = 0 /\ primed = FALSE /\ last_sampled = 0
                /\ dpc = "none" /\ last = FALSE /\ held = Raw /\ series = << >> /\ stop = FALSE
                /\ mpc = "start" /\ runs = 0 /\ recorded = << >>
-----------------------------------------------------------------------------
(* The backtest's thread.                                                  *)

\* start(), once finish() has seen to an earlier drain thread; the engine
\* gets a new recorder.
StartRecording == /\ mpc = "start" /\ dpc = "none" /\ runs < MaxRuns
                  /\ series' = << >> /\ stop' = FALSE
                  /\ dpc' = "loop" /\ last' = FALSE
                  /\ primed' = FALSE /\ last_sampled' = 0 /\ ts' = 0 /\ samples' = 0
                  /\ mpc' = "running" /\ runs' = runs + 1 /\ recorded' = << >>
                  /\ UNCHANGED <<ringVars, epc, held>>

\* The engine thread is joined; results() or the next start() calls finish().
Finish == /\ mpc = "running" /\ epc = "idle"
          /\ stop' = TRUE
          /\ mpc' = "joining"
          /\ UNCHANGED <<ringVars, engineVars, drainVars, runs, recorded>>

Join == /\ mpc = "joining" /\ dpc = "ended"
        /\ dpc' = "none"
        /\ mpc' = "finished"
        /\ UNCHANGED <<ringVars, engineVars, last, held, series, stop, runs, recorded>>

Again == /\ mpc = "finished" /\ runs < MaxRuns
         /\ mpc' = "start"
         /\ UNCHANGED <<ringVars, engineVars, drainVars, stop, runs, recorded>>
-----------------------------------------------------------------------------
(* The engine thread: EquitySeriesRecorder::sample() and the ring's push() *)

Throttled(t) == MinInterval > 0 /\ primed /\ t - last_sampled < MinInterval

Sample(gap) == /\ mpc = "running" /\ epc = "idle" /\ samples < MaxSamples
               /\ ts' = ts + gap /\ samples' = samples + 1
               /\ IF Throttled(ts + gap)
                  THEN UNCHANGED <<epc, primed, last_sampled>>
                  ELSE epc' = "push" /\ primed' = TRUE /\ last_sampled' = ts + gap
               /\ UNCHANGED <<ringVars, drainVars, stop, mpc, runs, recorded>>

\* Mutant: no test for a full ring.
Full_Ignored == FALSE

Full == Succ(head) = tail

\* push() spins while the ring is full.
Construct == /\ epc = "push" /\ ~Full
             /\ storage' = [storage EXCEPT ![head] = samples]
             /\ epc' = "publish"
             /\ UNCHANGED <<head, tail, ts, samples, primed, last_sampled, drainVars, stop, mpc, runs,
                            recorded>>

PublishPoint == /\ epc = "publish"
                /\ head' = Succ(head)
                /\ recorded' = Append(recorded, samples)
                /\ epc' = "idle"
                /\ UNCHANGED <<tail, storage, ts, samples, primed, last_sampled, drainVars, stop, mpc, runs>>
-----------------------------------------------------------------------------
(* The drain thread: drain_loop() and the ring's pop().                    *)

DrainTest == /\ dpc = "loop"
             /\ last' = stop
             /\ dpc' = "look"
             /\ UNCHANGED <<ringVars, engineVars, held, series, stop, mpc, runs, recorded>>

\* Mutant: the thread ends on stop without taking the rest.
DrainLook_NoRest ==
             /\ dpc = "look"
             /\ dpc' = IF last THEN "ended" ELSE IF tail # head THEN "take" ELSE "loop"
             /\ UNCHANGED <<ringVars, engineVars, last, held, series, stop, mpc, runs, recorded>>

\* Mutant: the second loop waits for more points like the first.
DrainLook_Waits ==
             /\ dpc = "look"
             /\ dpc' = IF tail # head THEN "take" ELSE "loop"
             /\ UNCHANGED <<ringVars, engineVars, last, held, series, stop, mpc, runs, recorded>>

\* An empty ring ends the thread in the second loop, and only there.
DrainLook == /\ dpc = "look"
             /\ dpc' = IF tail # head THEN "take" ELSE IF last THEN "ended" ELSE "loop"
             /\ UNCHANGED <<ringVars, engineVars, last, held, series, stop, mpc, runs, recorded>>

Take == /\ dpc = "take"
        /\ held' = storage[tail]
        /\ storage' = [storage EXCEPT ![tail] = Raw]
        /\ dpc' = "free"
        /\ UNCHANGED <<head, tail, engineVars, last, series, stop, mpc, runs, recorded>>

Free == /\ dpc = "free"
        /\ tail' = Succ(tail)
        /\ series' = Append(series, held)
        /\ dpc' = IF last THEN "look" ELSE "loop"
        /\ UNCHANGED <<head, storage, engineVars, last, held, stop, mpc, runs, recorded>>

EngineThread == (\E gap \in Gaps : Sample(gap)) \/ Construct \/ PublishPoint
DrainThread == DrainTest \/ DrainLook \/ Take \/ Free
MainThread == StartRecording \/ Join \/ Again

RecorderNext == EngineThread \/ DrainThread \/ MainThread \/ Finish

RecorderSpec == RecorderInit /\ [][RecorderNext]_recorderVars
-----------------------------------------------------------------------------
(* Properties.                                                             *)

\* The types of the ring, the threads and the histories; indices stay masked.
RecorderTypeOK == /\ head \in Slots /\ tail \in Slots /\ storage \in [Slots -> Nat \cup {Raw}]
                  /\ epc \in {"idle", "push", "publish"} /\ ts \in Nat /\ samples \in 0 .. MaxSamples
                  /\ primed \in BOOLEAN /\ last_sampled \in Nat
                  /\ dpc \in {"none", "loop", "look", "take", "free", "ended"} /\ last \in BOOLEAN
                  /\ held \in Nat \cup {Raw} /\ series \in Seq(Nat) /\ stop \in BOOLEAN
                  /\ mpc \in {"start", "running", "joining", "finished"} /\ runs \in 0 .. MaxRuns
                  /\ recorded \in Seq(Nat)

\* The engine never constructs in a slot the drain is reading, and never over
\* a point that has not been drained.
SlotIsExclusive == /\ epc = "push" /\ ~Full => storage[head] = Raw
                   /\ epc = "publish" /\ dpc \in {"take", "free"} => head # tail

\* "Stops draining and flushes the queue into the series": after finish() the
\* series holds exactly this recording's points, in order, and the ring is
\* empty, so the next recording starts clean.
SeriesComplete == mpc = "finished" => series = recorded /\ head = tail

\* Nobody waits for ever: a sample that spins for room in the ring gets it,
\* because the drain thread outlives the engine, and finish() returns, because
\* the drain thread takes what is left and then ends.
MovesOn == /\ epc = "push" ~> epc = "idle"
           /\ mpc = "joining" ~> mpc = "finished"
=============================================================================
