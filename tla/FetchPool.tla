------------------------------ MODULE FetchPool -----------------------------
(***************************************************************************)
(* The historical data fetch path: HttpFetchPool's workers fetch files     *)
(* that streams ask for, and place each result, good or bad, in the        *)
(* stream's SlotRing, from which the stream reads in plan order.           *)
(*                                                                         *)
(*   reader   -- the pull thread: BinanceHistoricalSource::next() walks    *)
(*               the unfinished streams; each pumps (submits fetches) and  *)
(*               takes its next file                                       *)
(*   workers  -- HttpFetchPool::worker_loop()                              *)
(*   quiescer -- threads in quiesce(), the destructor's included           *)
(*                                                                         *)
(* Every access to a word shared by two threads is a step.  The task queue *)
(* is the FIFO that module WorkQueue shows it to be.  http::get and unzip  *)
(* are external: they return and answer anything.  A file is its status;   *)
(* parsing, and counters that nothing reads back, are left out.            *)
(***************************************************************************)
EXTENDS Integers, Sequences, FiniteSets

CONSTANTS NumStreams, NumFiles,  \* streams, and files planned for each
          PrefetchDepth,         \* prefetch_depth as configured
          SlotCount,             \* kFileSlotCount
          TaskCapacity,          \* kTaskCapacity
          Workers, Quiescers,    \* threads
          MaxRetries,            \* max_retries
          Outcomes,              \* what one attempt at a file may end in
          Window,                \* critical_window
          CriticalFailures,      \* fewest failures of a window that reach the ratio
          WordSize,              \* 2^64 scaled down, for queued_
          None

Statuses == {"Ok", "NotFound", "ServerError", "TransportError", "ZipError", "Cancelled"}

ASSUME FetchAssumption ==
    /\ NumStreams \in Nat \ {0} /\ NumFiles \in Nat /\ PrefetchDepth \in Nat
    /\ SlotCount \in Nat \ {0, 1} /\ TaskCapacity \in Nat \ {0, 1}
    /\ MaxRetries \in Nat /\ Outcomes \subseteq Statuses \ {"Cancelled"}
    /\ Window \in Nat \ {0} /\ CriticalFailures \in Nat \ {0}
    /\ WordSize \in Nat /\ WordSize > TaskCapacity + 1
    /\ IsFiniteSet(Workers)

VARIABLES rpc, cur, after, fetch_cursor, read_cursor, taken,   \* the reader
          seq, cell,                                           \* the streams' slot rings
          tasks, submits_active, stopping, queued, sleepers,   \* the pool
          wake_mutex, notified, submitted, completed_ok, completed_failed, cancelled, dropped,
          window_count, window_failures, critical, fired,
          wpc, task, attempt, status, failures,                \* per worker
          qpc, shutdown_mutex, quiesced, cancelling,           \* the quiescers
          pushed, answer                                       \* histories

readerVars == <<rpc, cur, after, fetch_cursor, read_cursor, taken>>
ringVars == <<seq, cell>>
sleepVars == <<sleepers, wake_mutex, notified>>
countVars == <<submitted, completed_ok, completed_failed, cancelled, dropped>>
windowVars == <<window_count, window_failures, critical, fired>>
workerVars == <<wpc, task, attempt, status, failures>>
quiesceVars == <<qpc, shutdown_mutex, quiesced, cancelling>>
history == <<pushed, answer>>
vars == <<readerVars, ringVars, tasks, submits_active, stopping, queued, sleepVars, countVars,
          windowVars, workerVars, quiesceVars, history>>

Streams == 1 .. NumStreams
Positions == 0 .. NumFiles - 1
Slots == 0 .. SlotCount - 1
Slot(p) == p % SlotCount

ASSUME NoneAssumption == /\ None \notin Statuses \cup Workers \cup Quiescers
                         /\ None \notin Streams \X Positions

IsFailure(s) == s # "Ok"
Retryable(s) == s \in {"ServerError", "TransportError"}

\* A worker's task before it has one.
NoTask == <<1, 0>>

\* history: the answer each file was given, None before and once it is read.
Answers == [Streams -> [Positions -> Statuses \cup {None}]]

Init == /\ rpc = "idle" /\ cur = 1 /\ after = "take" /\ taken = None
        /\ fetch_cursor = [s \in Streams |-> 0] /\ read_cursor = [s \in Streams |-> 0]
        /\ seq = [s \in Streams |-> [i \in Slots |-> i]]
        /\ cell = [s \in Streams |-> [i \in Slots |-> None]]
        /\ tasks = << >> /\ submits_active = 0 /\ stopping = FALSE /\ queued = 0
        /\ sleepers = 0 /\ wake_mutex = None /\ notified = {}
        /\ submitted = 0 /\ completed_ok = 0 /\ completed_failed = 0
        /\ cancelled = 0 /\ dropped = 0
        /\ window_count = 0 /\ window_failures = 0 /\ critical = FALSE /\ fired = 0
        /\ wpc = [w \in Workers |-> "loop"] /\ task = [w \in Workers |-> NoTask]
        /\ attempt = [w \in Workers |-> 0] /\ status = [w \in Workers |-> None]
        /\ failures = [w \in Workers |-> 0]
        /\ qpc = [q \in Quiescers |-> "idle"] /\ shutdown_mutex = None /\ quiesced = FALSE
        /\ cancelling = None
        /\ pushed = {} /\ answer = [s \in Streams |-> [p \in Positions |-> None]]
-----------------------------------------------------------------------------
(* SlotRing::place(), for the worker and for quiesce's drain alike.        *)

SlotAwaits(t) == seq[t[1]][Slot(t[2])] = t[2]

Construct(t, st) == /\ cell' = [cell EXCEPT ![t[1]][Slot(t[2])] = st]
                    /\ answer' = [answer EXCEPT ![t[1]][t[2]] = st]

Stamp(t) == seq' = [seq EXCEPT ![t[1]][Slot(t[2])] = t[2] + 1]
-----------------------------------------------------------------------------
(* The reader.                                                             *)

\* Mutant: the configured depth is used as it is.
Depth_Unclamped == PrefetchDepth

\* std::clamp(prefetch_depth, 1, FileSlots::capacity())
Depth == IF PrefetchDepth < 1 THEN 1
         ELSE IF PrefetchDepth > SlotCount THEN SlotCount ELSE PrefetchDepth

Outstanding(s) == fetch_cursor[s] - read_cursor[s]
Finished(s) == fetch_cursor[s] >= NumFiles /\ read_cursor[s] >= fetch_cursor[s]

\* BinanceHistoricalSource::next() asks an unfinished stream, which one
\* depends on the events' timestamps; a stream with no rows pumps first.  (The
\* pump of every 256th row, with rows left, is not a step of its own: there is
\* something to submit then only if a submit was refused, and that is made up
\* for here, when the rows are used up.)  When all streams are finished the
\* source answers Eof.
NextCall == /\ rpc = "idle"
            /\ \/ \E s \in Streams : ~Finished(s) /\ cur' = s /\ rpc' = "pump" /\ after' = "take"
               \/ (\A s \in Streams : Finished(s)) /\ rpc' = "eof" /\ UNCHANGED <<cur, after>>
            /\ UNCHANGED <<fetch_cursor, read_cursor, taken, ringVars, tasks, submits_active, stopping,
                           queued, sleepVars, countVars, windowVars, workerVars, quiesceVars, history>>

\* Where pump() returns to.
Back == IF after = "take" THEN "take" ELSE "idle"

\* pump()'s loop test; submit() begins by marking itself in progress.
Pump == /\ rpc = "pump"
        /\ IF fetch_cursor[cur] < NumFiles /\ Outstanding(cur) < Depth
           THEN submits_active' = submits_active + 1 /\ rpc' = "test"
           ELSE rpc' = Back /\ UNCHANGED submits_active
        /\ UNCHANGED <<cur, after, fetch_cursor, read_cursor, taken, ringVars, tasks, stopping, queued,
                       sleepVars, countVars, windowVars, workerVars, quiesceVars, history>>

SubmitTest == /\ rpc = "test"
              /\ rpc' = IF stopping THEN "refused" ELSE "push"
              /\ UNCHANGED <<cur, after, fetch_cursor, read_cursor, taken, ringVars, tasks,
                             submits_active, stopping, queued, sleepVars, countVars, windowVars,
                             workerVars, quiesceVars, history>>

\* Workers that have claimed a task's cell and may not have freed it yet.
Claiming == {w \in Workers : wpc[w] = "popped"}

SubmitPush == /\ rpc = "push"
              /\ \/ /\ Len(tasks) < TaskCapacity
                    /\ tasks' = Append(tasks, <<cur, fetch_cursor[cur]>>)
                    /\ pushed' = pushed \cup {<<cur, fetch_cursor[cur]>>}
                    /\ rpc' = "count"
                 \/ /\ Len(tasks) + Cardinality(Claiming) >= TaskCapacity
                    /\ rpc' = "refused"
                    /\ UNCHANGED <<tasks, pushed>>
              /\ UNCHANGED <<cur, after, fetch_cursor, read_cursor, taken, ringVars, submits_active,
                             stopping, queued, sleepVars, countVars, windowVars, workerVars,
                             quiesceVars, answer>>

SubmitCount == /\ rpc = "count"
               /\ submitted' = submitted + 1
               /\ queued' = (queued + 1) % WordSize
               /\ rpc' = "notify"
               /\ UNCHANGED <<cur, after, fetch_cursor, read_cursor, taken, ringVars, tasks,
                              submits_active, stopping, sleepVars, completed_ok, completed_failed,
                              cancelled, dropped, windowVars, workerVars, quiesceVars, history>>

Asleep == {w \in Workers : wpc[w] = "asleep"}

\* notify_one, if anybody counts as a sleeper; it reaches only a worker that
\* already waits.
SubmitNotify == /\ rpc = "notify"
                /\ IF sleepers > 0 /\ Asleep \ notified # {}
                   THEN \E w \in Asleep \ notified : notified' = notified \cup {w}
                   ELSE UNCHANGED notified
                /\ rpc' = "leave"
                /\ UNCHANGED <<cur, after, fetch_cursor, read_cursor, taken, ringVars, tasks,
                               submits_active, stopping, queued, sleepers, wake_mutex, countVars,
                               windowVars, workerVars, quiesceVars, history>>

\* Mutant: submit() returns without saying that it is over.
SubmitLeave_Leaks ==
    /\ rpc = "leave"
    /\ fetch_cursor' = [fetch_cursor EXCEPT ![cur] = @ + 1]
    /\ rpc' = "pump"
    /\ UNCHANGED <<cur, after, read_cursor, taken, ringVars, tasks, submits_active, stopping,
                   queued, sleepVars, countVars, windowVars, workerVars, quiesceVars, history>>

\* submit() returned true: pump() goes round again.
SubmitLeave == /\ rpc = "leave"
               /\ submits_active' = submits_active - 1
               /\ fetch_cursor' = [fetch_cursor EXCEPT ![cur] = @ + 1]
               /\ rpc' = "pump"
               /\ UNCHANGED <<cur, after, read_cursor, taken, ringVars, tasks, stopping, queued,
                              sleepVars, countVars, windowVars, workerVars, quiesceVars, history>>

\* submit() returned false: pump() gives up.
SubmitRefused == /\ rpc = "refused"
                 /\ submits_active' = submits_active - 1
                 /\ rpc' = Back
                 /\ UNCHANGED <<cur, after, fetch_cursor, read_cursor, taken, ringVars, tasks, stopping,
                                queued, sleepVars, countVars, windowVars, workerVars, quiesceVars,
                                history>>

Here == read_cursor[cur]

\* Mutant: the slot is read without looking at its stamp.
Ready_Unchecked == Here < fetch_cursor[cur]

Ready == seq[cur][Slot(Here)] = Here + 1

\* load_next_file(): the file at read_cursor_ is moved out, or there is none.
TakeFile == /\ rpc = "take"
            /\ IF Ready
               THEN /\ taken' = cell[cur][Slot(Here)]
                    /\ cell' = [cell EXCEPT ![cur][Slot(Here)] = None]
                    /\ rpc' = "free"
               ELSE rpc' = "idle" /\ UNCHANGED <<taken, cell>>
            /\ UNCHANGED <<cur, after, fetch_cursor, read_cursor, seq, tasks, submits_active, stopping,
                           queued, sleepVars, countVars, windowVars, workerVars, quiesceVars, history>>

\* The slot is freed and the window topped up; a failed file is passed over.
FreeSlot == /\ rpc = "free"
            /\ seq' = [seq EXCEPT ![cur][Slot(Here)] = Here + SlotCount]
            /\ read_cursor' = [read_cursor EXCEPT ![cur] = @ + 1]
            /\ answer' = [answer EXCEPT ![cur][Here] = None]
            /\ after' = IF IsFailure(taken) THEN "take" ELSE "return"
            /\ rpc' = "pump"
            /\ UNCHANGED <<cur, fetch_cursor, taken, cell, tasks, submits_active, stopping, queued,
                           sleepVars, countVars, windowVars, workerVars, quiesceVars, pushed>>

Reader == \/ NextCall \/ Pump \/ SubmitTest \/ SubmitPush \/ SubmitCount \/ SubmitNotify
          \/ SubmitLeave \/ SubmitRefused \/ TakeFile \/ FreeSlot
-----------------------------------------------------------------------------
(* Worker w: worker_loop().                                                *)

At(w, here, there) == wpc[w] = here /\ wpc' = [wpc EXCEPT ![w] = there]

\* take_task(): stopping_ is tested before the queue, and once more after it.
WorkerTest(w) == /\ \/ At(w, "loop", IF stopping THEN "ended" ELSE "pop")
                    \/ At(w, "recheck", IF stopping THEN "ended" ELSE "lock")
                 /\ UNCHANGED <<readerVars, ringVars, tasks, submits_active, stopping, queued, sleepVars,
                                countVars, windowVars, task, attempt, status, failures, quiesceVars,
                                history>>

WorkerPop(w) == /\ IF tasks # << >>
                   THEN /\ At(w, "pop", "popped")
                        /\ task' = [task EXCEPT ![w] = Head(tasks)]
                        /\ tasks' = Tail(tasks)
                   ELSE At(w, "pop", "recheck") /\ UNCHANGED <<task, tasks>>
                /\ UNCHANGED <<readerVars, ringVars, submits_active, stopping, queued, sleepVars,
                               countVars, windowVars, attempt, status, failures, quiesceVars, history>>

\* Mutant: the count is kept from going below zero.
Uncounted_Saturating == IF queued = 0 THEN 0 ELSE queued - 1

\* queued_ goes down, possibly before submit() has put it up: it may wrap.
Uncounted == (queued - 1) % WordSize

WorkerUncount(w) == /\ At(w, "popped", "fetch")
                    /\ queued' = Uncounted
                    /\ attempt' = [attempt EXCEPT ![w] = 0]
                    /\ UNCHANGED <<readerVars, ringVars, tasks, submits_active, stopping, sleepVars,
                                   countVars, windowVars, task, status, failures, quiesceVars, history>>

WorkerLock(w) == /\ At(w, "lock", "predicate")
                 /\ wake_mutex = None /\ wake_mutex' = w
                 /\ sleepers' = sleepers + 1
                 /\ UNCHANGED <<readerVars, ringVars, tasks, submits_active, stopping, queued, notified,
                                countVars, windowVars, task, attempt, status, failures, quiesceVars,
                                history>>

\* The condition variable's wait predicate.
Wakeable == stopping \/ queued > 0

\* Evaluated once under the mutex before sleeping.
WorkerPredicate(w) == /\ IF Wakeable
                         THEN /\ At(w, "predicate", "loop")
                              /\ sleepers' = sleepers - 1 /\ wake_mutex' = None
                         ELSE At(w, "predicate", "park") /\ UNCHANGED <<sleepers, wake_mutex>>
                      /\ UNCHANGED <<readerVars, ringVars, tasks, submits_active, stopping, queued,
                                     notified, countVars, windowVars, task, attempt, status, failures,
                                     quiesceVars, history>>

\* The mutex is given up as the worker begins to wait.
WorkerPark(w) == /\ At(w, "park", "asleep")
                 /\ wake_mutex' = None
                 /\ UNCHANGED <<readerVars, ringVars, tasks, submits_active, stopping, queued, sleepers,
                                notified, countVars, windowVars, task, attempt, status, failures,
                                quiesceVars, history>>

\* Mutant: an untimed wait.
TimedOut_Never == FALSE

\* The 50 ms of wait_for may be over at any time.
TimedOut == TRUE

WorkerWake(w) == /\ At(w, "asleep", "loop")
                 /\ (w \in notified /\ Wakeable) \/ TimedOut
                 /\ wake_mutex = None
                 /\ sleepers' = sleepers - 1
                 /\ notified' = notified \ {w}
                 /\ UNCHANGED <<readerVars, ringVars, tasks, submits_active, stopping, queued,
                                wake_mutex, countVars, windowVars, task, attempt, status, failures,
                                quiesceVars, history>>

\* run_task(): one attempt; a failure that may pass is tried again, unless
\* the retries are used up or the pool is stopping.
WorkerFetch(w, o) ==
    LET again == Retryable(o) /\ attempt[w] < MaxRetries /\ ~stopping
    IN  /\ At(w, "fetch", IF again THEN "fetch" ELSE "note")
        /\ status' = [status EXCEPT ![w] = IF again THEN None ELSE o]
        /\ attempt' = [attempt EXCEPT ![w] = IF again THEN @ + 1 ELSE 0]
        /\ UNCHANGED <<readerVars, ringVars, tasks, submits_active, stopping, queued, sleepVars,
                       countVars, windowVars, task, failures, quiesceVars, history>>

\* note_completion(): the counters, then the window.
WorkerNote(w) == /\ At(w, "note", "window")
                 /\ IF IsFailure(status[w])
                    THEN /\ completed_failed' = completed_failed + 1
                         /\ window_failures' = window_failures + 1
                         /\ UNCHANGED completed_ok
                    ELSE /\ completed_ok' = completed_ok + 1
                         /\ UNCHANGED <<completed_failed, window_failures>>
                 /\ UNCHANGED <<readerVars, ringVars, tasks, submits_active, stopping, queued, sleepVars,
                                submitted, cancelled, dropped, window_count, critical, fired, task, attempt, status,
                                failures, quiesceVars, history>>

WorkerWindow(w) == /\ At(w, "window", IF window_count + 1 < Window THEN "deliver" ELSE "exchange")
                   /\ window_count' = window_count + 1
                   /\ UNCHANGED <<readerVars, ringVars, tasks, submits_active, stopping, queued,
                                  sleepVars, countVars, window_failures, critical, fired, task, attempt,
                                  status, failures, quiesceVars, history>>

WorkerExchange(w) == /\ At(w, "exchange", "reset")
                     /\ failures' = [failures EXCEPT ![w] = window_failures]
                     /\ window_failures' = 0
                     /\ UNCHANGED <<readerVars, ringVars, tasks, submits_active, stopping, queued,
                                    sleepVars, countVars, window_count, critical, fired, task, attempt,
                                    status, quiesceVars, history>>

\* ratio >= critical_failure_ratio
Trips(n) == n >= CriticalFailures

WorkerReset(w) == /\ At(w, "reset", IF Trips(failures[w]) THEN "trip" ELSE "deliver")
                  /\ window_count' = 0
                  /\ failures' = [failures EXCEPT ![w] = 0]
                  /\ UNCHANGED <<readerVars, ringVars, tasks, submits_active, stopping, queued,
                                 sleepVars, countVars, window_failures, critical, fired, task, attempt,
                                 status, quiesceVars, history>>

\* Mutant: the callback does not look at what the exchange returned.
WorkerTrip_Again(w) == /\ At(w, "trip", "deliver")
                 /\ critical' = TRUE /\ fired' = fired + 1
                 /\ UNCHANGED <<readerVars, ringVars, tasks, submits_active, stopping, queued, sleepVars,
                                countVars, window_count, window_failures, task, attempt, status, failures,
                                quiesceVars, history>>

\* critical_.exchange(true), and on_critical_() for the one that set it.
WorkerTrip(w) == /\ At(w, "trip", "deliver")
                 /\ critical' = TRUE
                 /\ fired' = IF critical THEN fired ELSE fired + 1
                 /\ UNCHANGED <<readerVars, ringVars, tasks, submits_active, stopping, queued, sleepVars,
                                countVars, window_count, window_failures, task, attempt, status, failures,
                                quiesceVars, history>>

\* deliver(): the result is constructed in its slot, or dropped.
WorkerDeliver(w) == /\ IF SlotAwaits(task[w])
                       THEN /\ At(w, "deliver", "stamp")
                            /\ Construct(task[w], status[w])
                            /\ UNCHANGED dropped
                       ELSE /\ At(w, "deliver", "loop")
                            /\ dropped' = dropped + 1
                            /\ UNCHANGED <<cell, answer>>
                    /\ status' = [status EXCEPT ![w] = None]
                    /\ UNCHANGED <<readerVars, seq, tasks, submits_active, stopping, queued, sleepVars,
                                   submitted, completed_ok, completed_failed, cancelled, windowVars, task,
                                   attempt, failures, quiesceVars, pushed>>

WorkerStamp(w) == /\ At(w, "stamp", "loop")
                  /\ Stamp(task[w])
                  /\ task' = [task EXCEPT ![w] = NoTask]
                  /\ UNCHANGED <<readerVars, cell, tasks, submits_active, stopping, queued, sleepVars,
                                 countVars, windowVars, attempt, status, failures, quiesceVars, history>>

\* Everything a worker does but fetch.
WorkerLoop(w) == \/ WorkerTest(w) \/ WorkerPop(w) \/ WorkerUncount(w) \/ WorkerLock(w)
                 \/ WorkerPredicate(w) \/ WorkerPark(w) \/ WorkerWake(w)
                 \/ WorkerNote(w) \/ WorkerWindow(w) \/ WorkerExchange(w) \/ WorkerReset(w)
                 \/ WorkerTrip(w) \/ WorkerDeliver(w) \/ WorkerStamp(w)

Worker(w) == WorkerLoop(w) \/ \E o \in Outcomes : WorkerFetch(w, o)
-----------------------------------------------------------------------------
(* quiesce(), by thread q.                                                 *)

Goes(q, here, there) == qpc[q] = here /\ qpc' = [qpc EXCEPT ![q] = there]

\* A second caller waits for the first and then has nothing to do.
Quiesce(q) == /\ shutdown_mutex = None
              /\ IF quiesced
                 THEN Goes(q, "idle", "returned") /\ UNCHANGED shutdown_mutex
                 ELSE Goes(q, "idle", "flag") /\ shutdown_mutex' = q
              /\ UNCHANGED <<readerVars, ringVars, tasks, submits_active, stopping, queued, sleepVars,
                             countVars, windowVars, workerVars, quiesced, cancelling, history>>

SetStopping(q) == /\ Goes(q, "flag", "notify")
                  /\ wake_mutex = None
                  /\ stopping' = TRUE
                  /\ UNCHANGED <<readerVars, ringVars, tasks, submits_active, queued, sleepVars,
                                 countVars, windowVars, workerVars, shutdown_mutex, quiesced, cancelling,
                                 history>>

NotifyAll(q) == /\ Goes(q, "notify", "join")
                /\ notified' = Asleep
                /\ UNCHANGED <<readerVars, ringVars, tasks, submits_active, stopping, queued, sleepers,
                               wake_mutex, countVars, windowVars, workerVars, shutdown_mutex, quiesced,
                               cancelling, history>>

\* Mutant: the drain begins while workers still run.
JoinWorkers_NoJoin(q) ==
                  /\ Goes(q, "join", "await")
                  /\ UNCHANGED <<readerVars, ringVars, tasks, submits_active, stopping, queued,
                                 sleepVars, countVars, windowVars, workerVars, shutdown_mutex, quiesced,
                                 cancelling, history>>

JoinWorkers(q) == /\ Goes(q, "join", "await")
                  /\ \A w \in Workers : wpc[w] = "ended"
                  /\ UNCHANGED <<readerVars, ringVars, tasks, submits_active, stopping, queued,
                                 sleepVars, countVars, windowVars, workerVars, shutdown_mutex, quiesced,
                                 cancelling, history>>

\* Mutant: a submit in progress is not waited for.
AwaitSubmits_Skipped(q) ==
                   /\ Goes(q, "await", "drain")
                   /\ UNCHANGED <<readerVars, ringVars, tasks, submits_active, stopping, queued,
                                  sleepVars, countVars, windowVars, workerVars, shutdown_mutex, quiesced,
                                  cancelling, history>>

AwaitSubmits(q) == /\ Goes(q, "await", "drain")
                   /\ submits_active = 0
                   /\ UNCHANGED <<readerVars, ringVars, tasks, submits_active, stopping, queued,
                                  sleepVars, countVars, windowVars, workerVars, shutdown_mutex, quiesced,
                                  cancelling, history>>

\* A task no worker reached is answered with Cancelled.
Cancel(q) == /\ tasks # << >>
             /\ tasks' = Tail(tasks)
             /\ queued' = Uncounted
             /\ completed_failed' = completed_failed + 1 /\ cancelled' = cancelled + 1
             /\ IF SlotAwaits(Head(tasks))
                THEN /\ Goes(q, "drain", "stamp")
                     /\ Construct(Head(tasks), "Cancelled")
                     /\ cancelling' = Head(tasks) /\ UNCHANGED dropped
                ELSE /\ Goes(q, "drain", "drain")
                     /\ dropped' = dropped + 1
                     /\ UNCHANGED <<cell, answer, cancelling>>
             /\ UNCHANGED <<readerVars, seq, submits_active, stopping, sleepVars, submitted,
                            completed_ok, windowVars, workerVars, shutdown_mutex, quiesced, pushed>>

StampCancelled(q) == /\ Goes(q, "stamp", "drain")
                     /\ Stamp(cancelling)
                     /\ cancelling' = None
                     /\ UNCHANGED <<readerVars, cell, tasks, submits_active, stopping, queued, sleepVars,
                                    countVars, windowVars, workerVars, shutdown_mutex, quiesced, history>>

EndQuiesce(q) == /\ tasks = << >>
                 /\ Goes(q, "drain", "returned")
                 /\ quiesced' = TRUE /\ shutdown_mutex' = None
                 /\ UNCHANGED <<readerVars, ringVars, tasks, submits_active, stopping, queued,
                                sleepVars, countVars, windowVars, workerVars, cancelling, history>>

Shutdown(q) == \/ SetStopping(q) \/ NotifyAll(q) \/ JoinWorkers(q) \/ AwaitSubmits(q)
               \/ Cancel(q) \/ StampCancelled(q) \/ EndQuiesce(q)

Next == \/ Reader
        \/ \E w \in Workers : Worker(w)
        \/ \E q \in Quiescers : Quiesce(q) \/ Shutdown(q)

Spec == Init /\ [][Next]_vars

\* The pull thread keeps pulling, workers and a shutdown once begun keep
\* running, and http::get returns; nobody has to call quiesce().  Taking
\* wake_mutex_ and finding submits_active_ at zero need strong fairness: the
\* mutex is not kept from one thread for ever, and the spin on submits_active_
\* is not always sampled inside one of the pull thread's refused submits.
Fairness == /\ WF_vars(Reader)
            /\ \A w \in Workers : /\ WF_vars(Worker(w))
                                  /\ SF_vars(WorkerLock(w) \/ WorkerWake(w))
            /\ \A q \in Quiescers : /\ WF_vars(Shutdown(q))
                                    /\ SF_vars(SetStopping(q) \/ AwaitSubmits(q))

FairSpec == Spec /\ Fairness
-----------------------------------------------------------------------------
(* Properties.                                                             *)

Tasks == Streams \X Positions

WorkerPcs == {"loop", "pop", "popped", "recheck", "lock", "predicate", "park", "asleep", "fetch",
              "note", "window", "exchange", "reset", "trip", "deliver", "stamp", "ended"}
QuiescerPcs == {"idle", "flag", "notify", "join", "await", "drain", "stamp", "returned"}

\* The types of the pool's words, the rings and the threads.  The task queue
\* stays within its capacity, and only the pull thread submits.
TypeOK == /\ rpc \in {"idle", "pump", "test", "push", "count", "notify", "leave", "refused",
                      "take", "free", "eof"}
          /\ cur \in Streams /\ after \in {"take", "return"} /\ taken \in Statuses \cup {None}
          /\ fetch_cursor \in [Streams -> 0 .. NumFiles]
          /\ read_cursor \in [Streams -> 0 .. NumFiles]
          /\ seq \in [Streams -> [Slots -> Nat]]
          /\ cell \in [Streams -> [Slots -> Statuses \cup {None}]]
          /\ tasks \in Seq(Tasks) /\ Len(tasks) <= TaskCapacity
          /\ submits_active \in 0 .. 1 /\ stopping \in BOOLEAN
          /\ queued \in 0 .. WordSize - 1 /\ sleepers \in 0 .. Cardinality(Workers)
          /\ wake_mutex \in Workers \cup {None} /\ notified \subseteq Workers
          /\ submitted \in Nat /\ completed_ok \in Nat /\ completed_failed \in Nat
          /\ cancelled \in Nat /\ dropped \in Nat /\ window_count \in Nat /\ window_failures \in Nat
          /\ critical \in BOOLEAN /\ fired \in Nat
          /\ wpc \in [Workers -> WorkerPcs] /\ qpc \in [Quiescers -> QuiescerPcs]
          /\ task \in [Workers -> Tasks \cup {NoTask}] /\ attempt \in [Workers -> 0 .. MaxRetries]
          /\ status \in [Workers -> Statuses \cup {None}] /\ failures \in [Workers -> Nat]
          /\ shutdown_mutex \in Quiescers \cup {None} /\ quiesced \in BOOLEAN
          /\ cancelling \in Tasks \cup {None}
          /\ pushed \subseteq Tasks /\ answer \in Answers

\* A stream reads its files in plan order, and for each exactly the answer
\* that file was given, although workers finish in any order and laps reuse
\* the slots; no file is answered again once it has been read.
ReadInPlanOrder ==
    /\ rpc = "free" => taken # None /\ taken = answer[cur][Here]
    /\ \A s \in Streams, p \in Positions : p < read_cursor[s] => answer[s][p] = None

\* Position p of stream s has been placed for the reader, or read already.
Answered(s, p) == p < read_cursor[s] \/ seq[s][Slot(p)] = p + 1
                    \/ (p = read_cursor[s] /\ cur = s /\ rpc = "free")

\* When a quiesce() returns, to whichever caller, no worker is left and every
\* file that was ever submitted has been answered: none can be pushed behind
\* the drain.
QuiesceAnswersAll ==
    (\E q \in Quiescers : qpc[q] = "returned") =>
        /\ \A w \in Workers : wpc[w] = "ended"
        /\ \A t \in pushed : Answered(t[1], t[2])

\* The books of a pool at rest: everything submitted has completed, nothing
\* counts as queued or asleep, and since "a stream reserves a slot before it
\* submits", no result, not even a cancellation, has found its slot occupied.
CountsReconcile ==
    (quiesced /\ rpc \in {"idle", "eof"}) =>
        /\ submitted = completed_ok + completed_failed
        /\ submitted = Cardinality(pushed)
        /\ queued = 0 /\ sleepers = 0 /\ dropped = 0

\* queued_ may wrap below zero, but only while submit() has yet to count a
\* task a worker has already taken; a worker never sleeps over a task that
\* has been counted.
QueuedTracksTasks ==
    queued = (Len(tasks) + Cardinality(Claiming) - (IF rpc = "count" THEN 1 ELSE 0)) % WordSize

Evaluating == {w \in Workers : wpc[w] \in {"window", "exchange", "reset", "trip"}}

\* The critical callback fires exactly once for the flag that is latched, and
\* a first window full of failures cannot slip past the check, however the
\* workers' counts and the reset of the window interleave.
CriticalFiresOnce ==
    /\ fired = IF critical THEN 1 ELSE 0
    /\ (completed_ok = 0 /\ CriticalFailures <= Window /\ Evaluating = {}) =>
          \/ critical
          \/ completed_failed - cancelled < Window

\* Every file planned is asked for, unless the pool is stopped, and every file
\* asked for is read in the end, whether it was fetched, failed or was
\* cancelled by the shutdown, even if a wake-up is lost.
EverythingReadInTheEnd ==
    <>[](\A s \in Streams : /\ stopping \/ fetch_cursor[s] = NumFiles
                           /\ read_cursor[s] = fetch_cursor[s])

\* A quiesce() that has begun returns.
QuiesceReturns ==
    \A q \in Quiescers : (qpc[q] = "flag") ~> (qpc[q] = "returned")
=============================================================================
