----------------------------- MODULE MCResearch -----------------------------
(* What a research session reads and keeps: the history of module          *)
(* MCHistoricalSource, merged; two equity recordings through a ring that   *)
(* holds one point at a time; two processes on one cache of two partitions *)
(* with room for one, and two on one ledger of two trials.  They share no  *)
(* state: a behaviour exercises one of them.                               *)
EXTENDS MCHistoricalSource, EquityRecorder, ResearchStore

VARIABLE part

\* The parts that are not exercised stay where one of their behaviours begins.
ResearchInit ==
    /\ Init /\ RecorderInit /\ StoreInit /\ part \in {"source", "recorder", "store"}
    /\ part # "source" =>
          LET w == CHOOSE w \in Worlds : TRUE
          IN  /\ table = StreamTable(w.universe)
              /\ paths = [s \in Streams |-> Plan(Listed(w.bucket, Prefix(table[s])), From, To)]
    /\ part # "store" => clock = 0 /\ store = "cache"

storesVars == <<cacheVars, ledgerVars, store>>
allVars == <<vars, recorderVars, storesVars, part>>

Source(A) == part = "source" /\ A /\ UNCHANGED <<recorderVars, storesVars, part>>
Recorder(A) == part = "recorder" /\ A /\ UNCHANGED <<vars, storesVars, part>>
Store(A) == part = "store" /\ A /\ UNCHANGED <<vars, recorderVars, part>>

ResearchNext == Source(Next) \/ Recorder(RecorderNext) \/ Store(StoreNext)

\* run_data_source calls next() until Eof, and the pool answers every file
\* (EverythingReadInTheEnd of module FetchPool).  A sample under way goes on,
\* the drain thread runs, and finish() joins it when it has ended; the engine
\* may end after any step.
ResearchSpec ==
    /\ ResearchInit /\ [][ResearchNext]_allVars
    /\ WF_allVars(Source(Pull)) /\ WF_allVars(Source(Answer))
    /\ WF_allVars(Recorder(Construct \/ PublishPoint))
    /\ WF_allVars(Recorder(DrainThread)) /\ WF_allVars(Recorder(Join))

\* A pull loop over the source comes to Eof, whatever fails.
SourceReachesEof == part = "source" => ReachesEof
=============================================================================
