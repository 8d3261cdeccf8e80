-------------------------- MODULE HttpFetchProofs ---------------------------
(***************************************************************************)
(* The fetch path proved correct for any number of streams, files, slots,  *)
(* workers, quiescers, callers, retries and pooled connections.  First the *)
(* pool on its own (FetchPool), with http::get as one step; then the http  *)
(* client (HttpClient) under any callers; last the two together            *)
(* (HttpFetch), which implements the pool's specification, so that what    *)
(* was proved of the pool carries over, and whose shutdown leaves no       *)
(* connection of a worker open.                                            *)
(***************************************************************************)
EXTENDS HttpFetch, FiniteSetTheorems, SequenceTheorems, WellFoundedInduction, TLAPS

\* The masked index pos & INDEX_MASK is pos % Capacity, for a power of two.

\* Positions less than a lap apart use different slots.
LEMMA ModDistinct ==
  ASSUME NEW C \in Nat, C > 0, NEW p \in Nat, NEW q \in Nat, p < q, q - p < C
  PROVE  p % C # q % C
<1> DEFINE a == p \div C
           b == q \div C
<1>1. /\ p = (C * a) + (p % C)
      /\ q = (C * b) + (q % C)
      /\ a \in Int /\ b \in Int
      /\ p % C \in Int /\ q % C \in Int
  OBVIOUS
<1>2. SUFFICES ASSUME p % C = q % C PROVE FALSE
  OBVIOUS
<1> HIDE DEF a, b
<1>3. q - p = C * (b - a)
  BY <1>1, <1>2
<1>4. \A k \in Int : (k <= 0 => C * k <= 0) /\ (k >= 1 => C * k >= C)
  OBVIOUS
<1> QED
  BY <1>1, <1>3, <1>4

\* Counting on from a masked index is counting on from the index.
LEMMA ModAdd ==
  ASSUME NEW C \in Nat, C > 0, NEW p \in Int, NEW i \in Int
  PROVE  ((p % C) + i) % C = (p + i) % C
<1> DEFINE r == p % C
           q == r + i
           a == p \div C
           b == q \div C
           d == (p + i) \div C
<1>1. p = (C * a) + r /\ r \in 0 .. C - 1 /\ a \in Int
  OBVIOUS
<1>2. q \in Int
  BY <1>1
<1>3. q = (C * b) + (q % C) /\ q % C \in 0 .. C - 1 /\ b \in Int
  BY <1>2
<1>4. p + i = (C * d) + ((p + i) % C) /\ (p + i) % C \in 0 .. C - 1 /\ d \in Int
  OBVIOUS
<1>5. q = r + i
  OBVIOUS
<1> HIDE DEF a, b, d, r, q
<1>6. (q % C) - ((p + i) % C) = C * (d - a - b)
  <2>1. q - (p + i) = -(C * a)
    BY <1>1, <1>5
  <2>2. C * (d - a - b) = (C * d) - (C * a) - (C * b)
    BY <1>1, <1>3, <1>4
  <2>3. C * a \in Int /\ C * b \in Int /\ C * d \in Int
    BY <1>1, <1>3, <1>4
  <2> QED
    BY <1>2, <1>3, <1>4, <2>1, <2>2, <2>3
<1>7. \A k \in Int : (k <= -1 => C * k <= -C) /\ (k >= 1 => C * k >= C)
  OBVIOUS
<1>8. d - a - b = 0
  BY <1>1, <1>3, <1>4, <1>6, <1>7
<1>9. q % C = (p + i) % C
  BY <1>3, <1>4, <1>6, <1>8
<1> QED
  BY <1>9 DEF q, r

\* A lap later the same slot comes round again.
LEMMA ModLap ==
  ASSUME NEW C \in Nat, C > 0, NEW p \in Nat
  PROVE  (p + C) % C = p % C
<1> DEFINE q == p + C
           a == p \div C
           b == q \div C
<1>1. /\ p = (C * a) + (p % C)
      /\ q = (C * b) + (q % C)
      /\ a \in Int /\ b \in Int
      /\ p % C \in 0 .. C - 1 /\ q % C \in 0 .. C - 1
  OBVIOUS
<1> HIDE DEF a, b
<1>2. (p % C) - (q % C) = C * (b - a - 1)
  BY <1>1
<1>3. \A k \in Int : (k <= -1 => C * k <= -C) /\ (k >= 1 => C * k >= C)
  OBVIOUS
<1>4. b - a - 1 = 0
  BY <1>1, <1>2, <1>3
<1> QED
  BY <1>1, <1>2, <1>4

-----------------------------------------------------------------------------
(* The pool's inductive invariant.                                         *)

Submitting == {"test", "push", "count", "notify", "leave", "refused"}

\* The task is in the queue and fetch_cursor_ has yet to move past it.
Handing == {"count", "notify", "leave"}

\* A worker's task is unanswered in these places.
CarryingPcs == {"popped", "fetch", "note", "window", "exchange", "reset", "trip", "deliver", "stamp"}
Carrying == {w \in Workers : wpc[w] \in CarryingPcs}

\* It has a result to deliver in these.
ResultPcs == {"note", "window", "exchange", "reset", "trip", "deliver"}

AllEnded == \A w \in Workers : wpc[w] = "ended"

\* Nobody is past submit()'s test of stopping_.
Quiet == stopping /\ rpc \notin {"push", "count", "notify", "leave"}

\* Whoever shuts the pool down holds shutdown_mutex_; what it has done so far
\* stays done.
ThreadInv ==
    /\ submits_active = IF rpc \in Submitting THEN 1 ELSE 0
    /\ \A q \in Quiescers :
          /\ qpc[q] \in QuiescerPcs \ {"idle", "returned"} => shutdown_mutex = q
          /\ qpc[q] \in {"notify", "join", "await", "drain", "stamp"} => stopping
          /\ qpc[q] \in {"await", "drain", "stamp"} => AllEnded
          /\ qpc[q] \in {"drain", "stamp"} => Quiet
          /\ qpc[q] = "stamp" => cancelling # None
          /\ qpc[q] = "returned" => quiesced
    /\ cancelling # None => \E q \in Quiescers : qpc[q] = "stamp"
    /\ quiesced => AllEnded /\ Quiet /\ tasks = << >> /\ cancelling = None /\ shutdown_mutex = None

\* Files of stream s that have been submitted.
Issued(s) == fetch_cursor[s] + (IF cur = s /\ rpc \in Handing THEN 1 ELSE 0)

\* pump() never has more files out than a ring has slots.
CursorInv ==
    /\ \A s \in Streams : /\ read_cursor[s] <= fetch_cursor[s]
                          /\ Outstanding(s) <= SlotCount
    /\ rpc \in {"test", "push", "count", "notify", "leave"} =>
          fetch_cursor[cur] < NumFiles /\ Outstanding(cur) < SlotCount
    /\ pushed = {t \in Tasks : t[2] < Issued(t[1])}

\* The positions a ring has room for: each slot awaits its position, or has it.
SeqInv ==
    /\ \A s \in Streams, p \in Nat :
          read_cursor[s] <= p /\ p < read_cursor[s] + SlotCount =>
             /\ seq[s][Slot(p)] \in {p, p + 1}
             /\ p >= Issued(s) => seq[s][Slot(p)] = p
    /\ rpc = "free" => seq[cur][Slot(Here)] = Here + 1

\* Submitted, and its slot has not been stamped.
Unanswered == {t \in Tasks : /\ read_cursor[t[1]] <= t[2] /\ t[2] < Issued(t[1])
                              /\ SlotAwaits(t)}

\* A task that is unanswered is in the queue, with one worker, or about to be
\* cancelled, and in one place only.
PlacesInv ==
    /\ \A i \in 1 .. Len(tasks) : tasks[i] \in Unanswered
    /\ \A w \in Carrying : task[w] \in Unanswered
    /\ cancelling # None => cancelling \in Unanswered
    /\ \A i, j \in 1 .. Len(tasks) : i # j => tasks[i] # tasks[j]
    /\ \A w \in Carrying, i \in 1 .. Len(tasks) : tasks[i] # task[w]
    /\ \A v, w \in Carrying : v # w => task[v] # task[w]
    /\ \A i \in 1 .. Len(tasks) : tasks[i] # cancelling
    /\ \A t \in Unanswered : \/ \E i \in 1 .. Len(tasks) : tasks[i] = t
                             \/ \E w \in Carrying : task[w] = t
                             \/ cancelling = t

\* The cell holds the answer.
InCell == {t \in Tasks : /\ answer[t[1]][t[2]] # None
                          /\ cell[t[1]][Slot(t[2])] = answer[t[1]][t[2]]}

AnswerInv ==
    /\ \A s \in Streams, p \in Positions : p < read_cursor[s] => answer[s][p] = None
    /\ \A t \in Tasks :
          (/\ read_cursor[t[1]] <= t[2] /\ t[2] < Issued(t[1])
           /\ seq[t[1]][Slot(t[2])] = t[2] + 1
           /\ ~(rpc = "free" /\ t = <<cur, Here>>)) => t \in InCell
    /\ \A w \in Workers : /\ wpc[w] = "stamp" => task[w] \in InCell
                          /\ wpc[w] \in ResultPcs => status[w] # None
    /\ cancelling # None => cancelling \in InCell
    /\ rpc = "free" => taken # None /\ taken = answer[cur][Here]

\* What has been submitted and not completed is in the queue or with a worker.
Uncompleted == {w \in Workers : wpc[w] \in {"popped", "fetch", "note"}}
Sleeping == {w \in Workers : wpc[w] \in {"predicate", "park", "asleep"}}

CountInv ==
    /\ submitted + (IF rpc = "count" THEN 1 ELSE 0) = Cardinality(pushed)
    /\ Len(tasks) + Cardinality(Uncompleted) + completed_ok + completed_failed = Cardinality(pushed)
    /\ sleepers = Cardinality(Sleeping)
    /\ dropped = 0

Noted == {w \in Workers : wpc[w] = "window"}

\* Someone is about to latch the flag.
Tripping == \E w \in Workers : \/ wpc[w] = "reset" /\ Trips(failures[w])
                               \/ wpc[w] = "trip"

\* As long as nothing has succeeded and no window has been taken for
\* evaluation, every failure is in the first window; whoever takes it finds
\* them all.
FirstWindow ==
    (completed_ok = 0 /\ CriticalFailures <= Window /\ ~critical) =>
       \/ Tripping
       \/ /\ completed_failed - cancelled = window_failures
          /\ window_failures = window_count + Cardinality(Noted)
          /\ window_count >= Window <=> \E w \in Workers : wpc[w] = "exchange"
          /\ \A w \in Workers : wpc[w] # "reset"

FiredOnce == fired = IF critical THEN 1 ELSE 0

PoolInv == /\ TypeOK /\ ThreadInv /\ CursorInv /\ SeqInv /\ PlacesInv /\ AnswerInv
           /\ CountInv /\ QueuedTracksTasks /\ FirstWindow /\ FiredOnce
-----------------------------------------------------------------------------
(* Arithmetic of the pool.                                                 *)

LEMMA PoolFacts ==
  /\ SlotCount \in Nat /\ SlotCount > 0 /\ NumFiles \in Nat /\ NumStreams \in Nat
  /\ WordSize \in Nat /\ WordSize > 0
  /\ Depth \in Nat /\ Depth <= SlotCount
  /\ Streams \subseteq Nat /\ Positions \subseteq Nat
  /\ \A p \in Nat : Slot(p) \in Slots
  /\ \A p \in Positions : p \in Nat /\ p < NumFiles
  /\ None \notin Statuses /\ None \notin Tasks
<1>1. /\ SlotCount \in Nat /\ SlotCount > 0 /\ NumFiles \in Nat /\ NumStreams \in Nat
      /\ WordSize \in Nat /\ WordSize > 0 /\ PrefetchDepth \in Nat
  BY FetchAssumption
<1>2. None \notin Statuses /\ None \notin Tasks
  BY NoneAssumption DEF Tasks
<1> QED
  BY <1>1, <1>2 DEF Depth, Streams, Positions, Slot, Slots

LEMMA WordType == ASSUME NEW n \in Int PROVE n % WordSize \in 0 .. WordSize - 1
<1>1. WordSize \in Nat /\ WordSize > 0
  BY PoolFacts
<1> QED
  BY <1>1

\* Positions less than a ring apart have different slots.
LEMMA SlotsApart ==
  ASSUME NEW p \in Nat, NEW q \in Nat, p # q, p < q + SlotCount, q < p + SlotCount
  PROVE  Slot(p) # Slot(q)
<1>1. SlotCount \in Nat /\ SlotCount > 0
  BY PoolFacts
<1>2. CASE p < q
  BY <1>1, <1>2, q - p < SlotCount, ModDistinct DEF Slot
<1>3. CASE q < p
  BY <1>1, <1>3, p - q < SlotCount, ModDistinct DEF Slot
<1> QED
  BY <1>2, <1>3

\* How a move of one worker changes the number of workers at one of the places S.
LEMMA PcCount ==
  ASSUME NEW f, NEW g, f \in [Workers -> WorkerPcs], NEW w \in Workers, NEW there,
         g = [f EXCEPT ![w] = there], NEW S
  PROVE  LET before == {v \in Workers : f[v] \in S}
             later == {v \in Workers : g[v] \in S}
         IN  /\ Cardinality(before) \in Nat /\ Cardinality(later) \in Nat
             /\ Cardinality(before) <= Cardinality(Workers)
             /\ Cardinality(later) <= Cardinality(Workers)
             /\ (f[w] \in S <=> there \in S) => later = before
             /\ f[w] \notin S /\ there \in S => Cardinality(later) = Cardinality(before) + 1
             /\ f[w] \in S /\ there \notin S => Cardinality(later) = Cardinality(before) - 1
<1> DEFINE before == {v \in Workers : f[v] \in S}
           later == {v \in Workers : g[v] \in S}
<1>1. IsFiniteSet(Workers) /\ before \subseteq Workers /\ later \subseteq Workers
  BY FetchAssumption
<1>2. /\ IsFiniteSet(before) /\ IsFiniteSet(later)
      /\ Cardinality(before) <= Cardinality(Workers) /\ Cardinality(later) <= Cardinality(Workers)
  BY <1>1, FS_Subset
<1>3. Cardinality(before) \in Nat /\ Cardinality(later) \in Nat
  BY <1>2, FS_CardinalityType
<1>4. \A v \in Workers : v # w => g[v] = f[v]
  OBVIOUS
<1>5. g[w] = there
  OBVIOUS
<1>6. ASSUME f[w] \in S <=> there \in S
      PROVE  later = before
  BY <1>4, <1>5, <1>6
<1>7. ASSUME f[w] \notin S, there \in S
      PROVE  Cardinality(later) = Cardinality(before) + 1
  <2>1. later = before \cup {w} /\ w \notin before
    BY <1>4, <1>5, <1>7
  <2> QED
    BY <1>2, <2>1, FS_AddElement
<1>8. ASSUME f[w] \in S, there \notin S
      PROVE  Cardinality(later) = Cardinality(before) - 1
  <2>1. later = before \ {w} /\ w \in before
    BY <1>4, <1>5, <1>8
  <2> QED
    BY <1>2, <2>1, FS_RemoveElement
<1> QED
  BY <1>2, <1>3, <1>6, <1>7, <1>8

\* The first task of the queue, and the others.
LEMMA TasksHead ==
  ASSUME TypeOK, tasks # << >>
  PROVE  /\ Head(tasks) \in Tasks /\ Head(tasks) = tasks[1]
         /\ Tail(tasks) \in Seq(Tasks)
         /\ Len(tasks) \in Nat /\ Len(tasks) > 0 /\ Len(Tail(tasks)) = Len(tasks) - 1
         /\ \A i \in 1 .. Len(Tail(tasks)) : Tail(tasks)[i] = tasks[i + 1] /\ i + 1 \in 1 .. Len(tasks)
<1>1. tasks \in Seq(Tasks) /\ tasks # << >>
  BY DEF TypeOK
<1> QED
  BY <1>1
-----------------------------------------------------------------------------
(* Types.                                                                  *)

LEMMA ReaderTypes ==
  ASSUME PoolInv, Reader
  PROVE  TypeOK'
<1>0. TypeOK /\ CursorInv /\ SeqInv /\ submits_active = (IF rpc \in Submitting THEN 1 ELSE 0)
  BY DEF PoolInv, ThreadInv
<1>c. cur \in Streams /\ fetch_cursor[cur] \in 0 .. NumFiles /\ read_cursor[cur] \in 0 .. NumFiles
  BY <1>0 DEF TypeOK
<1>1. CASE NextCall
  BY <1>0, <1>1 DEF NextCall, TypeOK, ringVars, sleepVars, countVars, windowVars, workerVars, quiesceVars, history
<1>2. CASE Pump
  BY <1>0, <1>2 DEF Pump, Back, Submitting, TypeOK, ringVars, sleepVars, countVars, windowVars, workerVars, quiesceVars, history
<1>3. CASE SubmitTest
  BY <1>0, <1>3 DEF SubmitTest, TypeOK, ringVars, sleepVars, countVars, windowVars, workerVars, quiesceVars, history
<1>4. CASE SubmitPush
  <2>1. <<cur, fetch_cursor[cur]>> \in Tasks
    BY <1>0, <1>4, <1>c, PoolFacts DEF SubmitPush, CursorInv, Tasks, Positions
  <2>2. tasks' \in Seq(Tasks) /\ Len(tasks') <= TaskCapacity /\ pushed' \subseteq Tasks
    <3>1. tasks \in Seq(Tasks) /\ Len(tasks) <= TaskCapacity /\ pushed \subseteq Tasks
      BY <1>0 DEF TypeOK
    <3>2. CASE UNCHANGED <<tasks, pushed>>
      BY <3>1, <3>2
    <3>3. CASE /\ Len(tasks) < TaskCapacity
               /\ tasks' = Append(tasks, <<cur, fetch_cursor[cur]>>)
               /\ pushed' = pushed \cup {<<cur, fetch_cursor[cur]>>}
      BY <2>1, <3>1, <3>3, FetchAssumption
    <3> QED
      BY <1>4, <3>2, <3>3 DEF SubmitPush
  <2>3. rpc' \in {"count", "refused"}
    BY <1>4 DEF SubmitPush
  <2> QED
    BY <1>0, <1>4, <2>2, <2>3 DEF SubmitPush, TypeOK, ringVars, sleepVars, countVars, windowVars, workerVars, quiesceVars, history
<1>5. CASE SubmitCount
  <2>1. queued' \in 0 .. WordSize - 1
    <3>1. queued + 1 \in Int
      BY <1>0 DEF TypeOK
    <3> QED
      BY <1>5, <3>1, WordType DEF SubmitCount
  <2>2. submitted' \in Nat
    BY <1>0, <1>5 DEF SubmitCount, TypeOK
  <2> QED
    BY <1>0, <1>5, <2>1, <2>2 DEF SubmitCount, TypeOK, ringVars, sleepVars, countVars, windowVars, workerVars, quiesceVars, history
<1>6. CASE SubmitNotify
  BY <1>0, <1>6 DEF SubmitNotify, Asleep, TypeOK, ringVars, sleepVars, countVars, windowVars, workerVars, quiesceVars, history
<1>7. CASE SubmitLeave
  <2>1. submits_active' \in 0 .. 1
    BY <1>0, <1>7 DEF SubmitLeave, Submitting
  <2>2. fetch_cursor' \in [Streams -> 0 .. NumFiles]
    <3>1. fetch_cursor[cur] + 1 \in 0 .. NumFiles
      BY <1>0, <1>7, <1>c, PoolFacts DEF SubmitLeave, CursorInv
    <3> QED
      BY <1>0, <1>7, <3>1 DEF SubmitLeave, TypeOK
  <2> QED
    BY <1>0, <1>7, <2>1, <2>2 DEF SubmitLeave, TypeOK, ringVars, sleepVars, countVars, windowVars, workerVars, quiesceVars, history
<1>8. CASE SubmitRefused
  BY <1>0, <1>8 DEF SubmitRefused, Back, Submitting, TypeOK, ringVars, sleepVars, countVars, windowVars, workerVars, quiesceVars, history
<1>9. CASE TakeFile
  <2>1. Slot(Here) \in Slots
    BY <1>c, PoolFacts DEF Here
  <2>2. cell' \in [Streams -> [Slots -> Statuses \cup {None}]] /\ taken' \in Statuses \cup {None}
    <3>1. cell \in [Streams -> [Slots -> Statuses \cup {None}]] /\ taken \in Statuses \cup {None}
      BY <1>0 DEF TypeOK
    <3>2. cell[cur] \in [Slots -> Statuses \cup {None}] /\ cell[cur][Slot(Here)] \in Statuses \cup {None}
      BY <1>c, <2>1, <3>1
    <3>3. CASE Ready
      BY <1>9, <3>1, <3>2, <3>3 DEF TakeFile
    <3>4. CASE ~Ready
      BY <1>9, <3>1, <3>4 DEF TakeFile
    <3> QED
      BY <3>3, <3>4
  <2>3. rpc' \in {"free", "idle"}
    BY <1>9 DEF TakeFile
  <2> QED
    BY <1>0, <1>9, <2>2, <2>3 DEF TakeFile, TypeOK, ringVars, sleepVars, countVars, windowVars, workerVars, quiesceVars, history
<1>10. CASE FreeSlot
  <2>1. Slot(Here) \in Slots /\ Here \in Nat
    BY <1>c, PoolFacts DEF Here
  <2>2. Here < fetch_cursor[cur]
    <3>1. seq[cur][Slot(Here)] # Here /\ Issued(cur) = fetch_cursor[cur]
      BY <1>0, <1>10, <2>1, <1>c DEF FreeSlot, SeqInv, Issued, Handing
    <3> QED
      BY <1>0, <1>c, <2>1, <3>1, PoolFacts DEF SeqInv, Here
  <2>3. seq' \in [Streams -> [Slots -> Nat]]
    <3>1. Here + SlotCount \in Nat
      BY <2>1, PoolFacts
    <3> QED
      BY <1>0, <1>10, <2>1, <3>1 DEF FreeSlot, TypeOK
  <2>4. read_cursor' \in [Streams -> 0 .. NumFiles]
    <3>1. read_cursor[cur] + 1 \in 0 .. NumFiles
      BY <1>c, <2>2, PoolFacts DEF Here
    <3> QED
      BY <1>0, <1>10, <3>1 DEF FreeSlot, TypeOK
  <2>5. answer' \in Answers
    <3>1. answer[cur] \in [Positions -> Statuses \cup {None}]
      BY <1>0 DEF TypeOK, Answers
    <3> QED
      BY <1>0, <1>10, <3>1 DEF FreeSlot, TypeOK, Answers
  <2>6. rpc' = "pump" /\ after' \in {"take", "return"}
    BY <1>10 DEF FreeSlot
  <2> QED
    BY <1>0, <1>10, <2>3, <2>4, <2>5, <2>6 DEF FreeSlot, TypeOK, ringVars, sleepVars, countVars, windowVars, workerVars, quiesceVars, history
<1> QED
  BY <1>1, <1>2, <1>3, <1>4, <1>5, <1>6, <1>7, <1>8, <1>9, <1>10 DEF Reader

\* A result fits its cell, and a stamp its slot.
LEMMA ConstructTypes ==
  ASSUME TypeOK, NEW t \in Tasks, NEW st \in Statuses \cup {None}, Construct(t, st)
  PROVE  cell' \in [Streams -> [Slots -> Statuses \cup {None}]] /\ answer' \in Answers
<1>1. t[1] \in Streams /\ t[2] \in Positions /\ Slot(t[2]) \in Slots
  BY PoolFacts DEF Tasks
<1>2. /\ cell \in [Streams -> [Slots -> Statuses \cup {None}]]
      /\ answer \in [Streams -> [Positions -> Statuses \cup {None}]]
  BY DEF TypeOK, Answers
<1>3. cell[t[1]] \in [Slots -> Statuses \cup {None}] /\ answer[t[1]] \in [Positions -> Statuses \cup {None}]
  BY <1>1, <1>2
<1>4. cell' \in [Streams -> [Slots -> Statuses \cup {None}]]
  BY <1>1, <1>2, <1>3 DEF Construct
<1>5. answer' \in [Streams -> [Positions -> Statuses \cup {None}]]
  BY <1>1, <1>2, <1>3 DEF Construct
<1> QED
  BY <1>4, <1>5 DEF Answers

LEMMA StampTypes ==
  ASSUME TypeOK, NEW t \in Tasks, Stamp(t)
  PROVE  seq' \in [Streams -> [Slots -> Nat]]
<1>0. t[1] \in Streams /\ t[2] \in Nat
  BY PoolFacts DEF Tasks
<1>1. t[1] \in Streams /\ t[2] + 1 \in Nat /\ Slot(t[2]) \in Slots
  BY <1>0, PoolFacts
<1>2. seq \in [Streams -> [Slots -> Nat]] /\ seq[t[1]] \in [Slots -> Nat]
  BY <1>1 DEF TypeOK
<1> QED
  BY <1>1, <1>2 DEF Stamp

\* Where a worker's step takes it; sleepers_ counts those that may be asleep.
LEMMA WorkerSleep ==
  ASSUME PoolInv, NEW w \in Workers, Worker(w)
  PROVE  /\ \E there \in WorkerPcs : wpc' = [wpc EXCEPT ![w] = there]
         /\ sleepers' = Cardinality(Sleeping')
         /\ sleepers' \in 0 .. Cardinality(Workers)
<1>0. wpc \in [Workers -> WorkerPcs] /\ sleepers = Cardinality(Sleeping)
  BY DEF PoolInv, TypeOK, CountInv
<1> DEFINE S == {"predicate", "park", "asleep"}
<1>1. \E there \in WorkerPcs :
        /\ wpc' = [wpc EXCEPT ![w] = there]
        /\ \/ wpc[w] \notin S /\ there \notin S /\ sleepers' = sleepers
           \/ wpc[w] \in S /\ there \in S /\ sleepers' = sleepers
           \/ wpc[w] \notin S /\ there \in S /\ sleepers' = sleepers + 1
           \/ wpc[w] \in S /\ there \notin S /\ sleepers' = sleepers - 1
  <2>1. CASE WorkerTest(w)
    BY <2>1 DEF WorkerTest, At, sleepVars, WorkerPcs
  <2>2. CASE WorkerPop(w) \/ WorkerUncount(w)
    BY <2>2 DEF WorkerPop, WorkerUncount, At, sleepVars, WorkerPcs
  <2>3. CASE WorkerLock(w)
    BY <2>3 DEF WorkerLock, At, WorkerPcs
  <2>4. CASE WorkerPredicate(w)
    BY <2>4 DEF WorkerPredicate, At, WorkerPcs
  <2>5. CASE WorkerPark(w) \/ WorkerWake(w)
    BY <2>5 DEF WorkerPark, WorkerWake, At, WorkerPcs
  <2>6. CASE WorkerNote(w) \/ WorkerWindow(w)
    BY <2>6 DEF WorkerNote, WorkerWindow, At, sleepVars, WorkerPcs
  <2>7. CASE WorkerExchange(w) \/ WorkerReset(w) \/ WorkerTrip(w)
    BY <2>7 DEF WorkerExchange, WorkerReset, WorkerTrip, At, sleepVars, WorkerPcs
  <2>8. CASE WorkerDeliver(w)
    BY <2>8 DEF WorkerDeliver, At, sleepVars, WorkerPcs
  <2>9. CASE WorkerStamp(w)
    BY <2>9 DEF WorkerStamp, At, sleepVars, WorkerPcs
  <2>10. CASE \E o \in Outcomes : WorkerFetch(w, o)
    BY <2>10 DEF WorkerFetch, At, sleepVars, WorkerPcs
  <2> QED
    BY <2>1, <2>2, <2>3, <2>4, <2>5, <2>6, <2>7, <2>8, <2>9, <2>10 DEF Worker, WorkerLoop
<1>2. PICK there \in WorkerPcs :
        /\ wpc' = [wpc EXCEPT ![w] = there]
        /\ \/ wpc[w] \notin S /\ there \notin S /\ sleepers' = sleepers
           \/ wpc[w] \in S /\ there \in S /\ sleepers' = sleepers
           \/ wpc[w] \notin S /\ there \in S /\ sleepers' = sleepers + 1
           \/ wpc[w] \in S /\ there \notin S /\ sleepers' = sleepers - 1
  BY <1>1
<1> DEFINE later == {v \in Workers : wpc'[v] \in S}
<1>3. Sleeping = {v \in Workers : wpc[v] \in S} /\ Sleeping' = later
  BY DEF Sleeping
<1> HIDE DEF S
<1>4. /\ Cardinality(Sleeping) \in Nat /\ Cardinality(later) \in Nat
      /\ Cardinality(later) <= Cardinality(Workers)
      /\ (wpc[w] \in S <=> there \in S) => later = Sleeping
      /\ wpc[w] \notin S /\ there \in S => Cardinality(later) = Cardinality(Sleeping) + 1
      /\ wpc[w] \in S /\ there \notin S => Cardinality(later) = Cardinality(Sleeping) - 1
  BY <1>0, <1>2, <1>3, PcCount
<1>5. Cardinality(Workers) \in Nat
  BY FetchAssumption, FS_CardinalityType
<1>6. sleepers' = Cardinality(later)
  BY <1>0, <1>2, <1>4
<1>7. sleepers' = Cardinality(Sleeping')
  BY <1>3, <1>6
<1>8. sleepers' \in 0 .. Cardinality(Workers)
  BY <1>4, <1>5, <1>6
<1> QED
  BY <1>2, <1>7, <1>8

LEMMA WorkerTypes ==
  ASSUME PoolInv, NEW w \in Workers, Worker(w)
  PROVE  TypeOK'
<1>0. /\ TypeOK
      /\ w \in Carrying => task[w] \in Unanswered
  BY DEF PoolInv, PlacesInv
<1>s. sleepers' \in 0 .. Cardinality(Workers)
  BY WorkerSleep
<1>w. wpc' \in [Workers -> WorkerPcs]
  BY <1>0, WorkerSleep DEF TypeOK
<1>1. CASE WorkerTest(w)
  BY <1>0, <1>1, <1>w DEF WorkerTest, TypeOK, readerVars, ringVars, sleepVars, countVars, windowVars, quiesceVars, history
<1>2. CASE WorkerPop(w)
  <2>1. /\ tasks' \in Seq(Tasks) /\ Len(tasks') <= TaskCapacity
        /\ task' \in [Workers -> Tasks \cup {NoTask}]
    <3>1. /\ tasks \in Seq(Tasks) /\ Len(tasks) <= TaskCapacity
          /\ task \in [Workers -> Tasks \cup {NoTask}]
      BY <1>0 DEF TypeOK
    <3>2. CASE UNCHANGED <<tasks, task>>
      BY <3>1, <3>2
    <3>3. CASE tasks # << >> /\ task' = [task EXCEPT ![w] = Head(tasks)] /\ tasks' = Tail(tasks)
      BY <1>0, <3>1, <3>3, TasksHead, FetchAssumption
    <3> QED
      BY <1>2, <3>2, <3>3 DEF WorkerPop
  <2> QED
    BY <1>0, <1>2, <1>w, <2>1 DEF WorkerPop, TypeOK, readerVars, ringVars, sleepVars, countVars, windowVars, quiesceVars, history
<1>3. CASE WorkerUncount(w)
  <2>1. queued' \in 0 .. WordSize - 1
    <3>1. queued - 1 \in Int
      BY <1>0 DEF TypeOK
    <3> QED
      BY <1>3, <3>1, WordType DEF WorkerUncount, Uncounted
  <2>2. attempt' \in [Workers -> 0 .. MaxRetries]
    BY <1>0, <1>3, FetchAssumption DEF WorkerUncount, TypeOK
  <2> QED
    BY <1>0, <1>3, <1>w, <2>1, <2>2 DEF WorkerUncount, TypeOK, readerVars, ringVars, sleepVars, countVars, windowVars, quiesceVars, history
<1>4. CASE WorkerLock(w) \/ WorkerPredicate(w) \/ WorkerPark(w) \/ WorkerWake(w)
  <2>1. wake_mutex' \in Workers \cup {None} /\ notified' \subseteq Workers
    BY <1>0, <1>4 DEF WorkerLock, WorkerPredicate, WorkerPark, WorkerWake, TypeOK
  <2>2. UNCHANGED <<readerVars, ringVars, tasks, submits_active, stopping, queued, countVars, windowVars,
                    task, attempt, status, failures, quiesceVars, history>>
    BY <1>4 DEF WorkerLock, WorkerPredicate, WorkerPark, WorkerWake
  <2> QED
    BY <1>0, <1>w, <1>s, <2>1, <2>2, SMTT(30) DEF TypeOK, readerVars, ringVars, sleepVars, countVars, windowVars, quiesceVars, history
<1>5. CASE \E o \in Outcomes : WorkerFetch(w, o)
  <2>1. status' \in [Workers -> Statuses \cup {None}]
    BY <1>0, <1>5, FetchAssumption DEF WorkerFetch, TypeOK
  <2>2. attempt' \in [Workers -> 0 .. MaxRetries]
    BY <1>0, <1>5, FetchAssumption DEF WorkerFetch, TypeOK
  <2> QED
    BY <1>0, <1>5, <1>w, <2>1, <2>2 DEF WorkerFetch, TypeOK, readerVars, ringVars, sleepVars, countVars, windowVars, quiesceVars, history
<1>6. CASE WorkerNote(w)
  <2>1. completed_ok' \in Nat /\ completed_failed' \in Nat /\ window_failures' \in Nat
    <3>1. completed_ok \in Nat /\ completed_failed \in Nat /\ window_failures \in Nat
      BY <1>0 DEF TypeOK
    <3>2. CASE IsFailure(status[w])
      BY <1>6, <3>1, <3>2 DEF WorkerNote
    <3>3. CASE ~IsFailure(status[w])
      BY <1>6, <3>1, <3>3 DEF WorkerNote
    <3> QED
      BY <3>2, <3>3
  <2> QED
    BY <1>0, <1>6, <1>w, <2>1 DEF WorkerNote, TypeOK, readerVars, ringVars, sleepVars, quiesceVars, history
<1>7. CASE WorkerWindow(w)
  <2>1. window_count' \in Nat
    BY <1>0, <1>7 DEF WorkerWindow, TypeOK
  <2> QED
    BY <1>0, <1>7, <1>w, <2>1 DEF WorkerWindow, TypeOK, readerVars, ringVars, sleepVars, countVars, quiesceVars, history
<1>8. CASE WorkerExchange(w) \/ WorkerReset(w)
  <2>1. window_count' \in Nat /\ window_failures' \in Nat /\ failures' \in [Workers -> Nat]
    BY <1>0, <1>8, SMTT(30) DEF WorkerExchange, WorkerReset, TypeOK
  <2>2. UNCHANGED <<readerVars, ringVars, tasks, submits_active, stopping, queued, sleepVars, countVars,
                    critical, fired, task, attempt, status, quiesceVars, history>>
    BY <1>8 DEF WorkerExchange, WorkerReset
  <2> QED
    BY <1>0, <1>w, <2>1, <2>2, SMTT(30) DEF TypeOK, readerVars, ringVars, sleepVars, countVars, quiesceVars, history
<1>9. CASE WorkerTrip(w)
  <2>1. critical' \in BOOLEAN /\ fired' \in Nat
    BY <1>0, <1>9 DEF WorkerTrip, TypeOK
  <2> QED
    BY <1>0, <1>9, <1>w, <2>1 DEF WorkerTrip, TypeOK, readerVars, ringVars, sleepVars, countVars, quiesceVars, history
<1>10. CASE WorkerDeliver(w)
  <2>0. wpc[w] = "deliver"
    BY <1>10 DEF WorkerDeliver, At
  <2>1. task[w] \in Tasks
    BY <1>0, <2>0 DEF Carrying, CarryingPcs, Unanswered
  <2>2. cell' \in [Streams -> [Slots -> Statuses \cup {None}]] /\ answer' \in Answers
    <3>1. status[w] \in Statuses \cup {None}
      BY <1>0 DEF TypeOK
    <3> QED
      BY <1>0, <1>10, <2>1, <3>1, ConstructTypes DEF WorkerDeliver, TypeOK
  <2>3. dropped' \in Nat /\ status' \in [Workers -> Statuses \cup {None}]
    BY <1>0, <1>10 DEF WorkerDeliver, TypeOK
  <2>4. UNCHANGED <<readerVars, seq, tasks, submits_active, stopping, queued, sleepVars, submitted,
                    completed_ok, completed_failed, cancelled, windowVars, task, attempt, failures,
                    quiesceVars, pushed>>
    BY <1>10 DEF WorkerDeliver
  <2> QED
    BY <1>0, <1>w, <2>2, <2>3, <2>4 DEF TypeOK, readerVars, sleepVars, windowVars, quiesceVars
<1>11. CASE WorkerStamp(w)
  <2>0. wpc[w] = "stamp"
    BY <1>11 DEF WorkerStamp, At
  <2>1. task[w] \in Tasks
    BY <1>0, <2>0 DEF Carrying, CarryingPcs, Unanswered
  <2>2. seq' \in [Streams -> [Slots -> Nat]]
    BY <1>0, <1>11, <2>1, StampTypes DEF WorkerStamp, TypeOK
  <2>3. task' \in [Workers -> Tasks \cup {NoTask}]
    BY <1>0, <1>11 DEF WorkerStamp, TypeOK
  <2> QED
    BY <1>0, <1>11, <1>w, <2>2, <2>3 DEF WorkerStamp, TypeOK, readerVars, ringVars, sleepVars, countVars, windowVars, quiesceVars, history
<1> QED
  BY <1>1, <1>2, <1>3, <1>4, <1>5, <1>6, <1>7, <1>8, <1>9, <1>10, <1>11 DEF Worker, WorkerLoop

LEMMA QuiescerTypes ==
  ASSUME PoolInv, NEW q \in Quiescers, Quiesce(q) \/ Shutdown(q)
  PROVE  TypeOK'
<1>0. /\ TypeOK
      /\ qpc[q] = "stamp" => cancelling \in Unanswered
  BY DEF PoolInv, PlacesInv, ThreadInv
<1>1. CASE Quiesce(q)
  <2>1. qpc' \in [Quiescers -> QuiescerPcs] /\ shutdown_mutex' \in Quiescers \cup {None}
    BY <1>0, <1>1 DEF Quiesce, Goes, TypeOK, QuiescerPcs
  <2> QED
    BY <1>0, <1>1, <2>1 DEF Quiesce, TypeOK, readerVars, ringVars, sleepVars, countVars, windowVars, workerVars, history
<1>2. CASE SetStopping(q)
  <2>1. qpc' \in [Quiescers -> QuiescerPcs] /\ stopping' \in BOOLEAN
    BY <1>0, <1>2 DEF SetStopping, Goes, TypeOK, QuiescerPcs
  <2> QED
    BY <1>0, <1>2, <2>1 DEF SetStopping, TypeOK, readerVars, ringVars, sleepVars, countVars, windowVars, workerVars, history
<1>3. CASE NotifyAll(q)
  <2>1. qpc' \in [Quiescers -> QuiescerPcs] /\ notified' \subseteq Workers
    BY <1>0, <1>3 DEF NotifyAll, Asleep, Goes, TypeOK, QuiescerPcs
  <2> QED
    BY <1>0, <1>3, <2>1 DEF NotifyAll, TypeOK, readerVars, ringVars, countVars, windowVars, workerVars, history
<1>4. CASE JoinWorkers(q) \/ AwaitSubmits(q)
  <2>1. qpc' \in [Quiescers -> QuiescerPcs]
    BY <1>0, <1>4 DEF JoinWorkers, AwaitSubmits, Goes, TypeOK, QuiescerPcs
  <2>2. UNCHANGED <<readerVars, ringVars, tasks, submits_active, stopping, queued, sleepVars, countVars,
                    windowVars, workerVars, shutdown_mutex, quiesced, cancelling, history>>
    BY <1>4 DEF JoinWorkers, AwaitSubmits
  <2> QED
    BY <1>0, <2>1, <2>2 DEF TypeOK, readerVars, ringVars, sleepVars, countVars, windowVars, workerVars, history
<1>5. CASE Cancel(q)
  <2>0. tasks # << >>
    BY <1>5 DEF Cancel
  <2>1. Head(tasks) \in Tasks /\ tasks' \in Seq(Tasks) /\ Len(tasks') <= TaskCapacity
    <3>1. Len(tasks) <= TaskCapacity /\ tasks' = Tail(tasks)
      BY <1>0, <1>5 DEF Cancel, TypeOK
    <3> QED
      BY <1>0, <2>0, <3>1, TasksHead, FetchAssumption
  <2>2. queued' \in 0 .. WordSize - 1
    <3>1. queued - 1 \in Int
      BY <1>0 DEF TypeOK
    <3> QED
      BY <1>5, <3>1, WordType DEF Cancel, Uncounted
  <2>3. qpc' \in [Quiescers -> QuiescerPcs]
    BY <1>0, <1>5 DEF Cancel, Goes, TypeOK, QuiescerPcs
  <2>4. cell' \in [Streams -> [Slots -> Statuses \cup {None}]] /\ answer' \in Answers
    <3>1. "Cancelled" \in Statuses \cup {None}
      BY DEF Statuses
    <3> QED
      BY <1>0, <1>5, <2>1, <3>1, ConstructTypes DEF Cancel, TypeOK
  <2>5. /\ completed_failed' \in Nat /\ cancelled' \in Nat /\ dropped' \in Nat
        /\ cancelling' \in Tasks \cup {None}
    BY <1>0, <1>5, <2>1 DEF Cancel, TypeOK
  <2>6. UNCHANGED <<readerVars, seq, submits_active, stopping, sleepVars, submitted,
                    completed_ok, windowVars, workerVars, shutdown_mutex, quiesced, pushed>>
    BY <1>5 DEF Cancel
  <2> QED
    BY <1>0, <2>1, <2>2, <2>3, <2>4, <2>5, <2>6, SMTT(30)
    DEF TypeOK, readerVars, sleepVars, windowVars, workerVars
<1>6. CASE StampCancelled(q)
  <2>1. cancelling \in Tasks
    BY <1>0, <1>6 DEF StampCancelled, Goes, Unanswered
  <2>2. seq' \in [Streams -> [Slots -> Nat]]
    BY <1>0, <1>6, <2>1, StampTypes DEF StampCancelled
  <2>3. qpc' \in [Quiescers -> QuiescerPcs] /\ cancelling' \in Tasks \cup {None}
    BY <1>0, <1>6 DEF StampCancelled, Goes, TypeOK, QuiescerPcs
  <2> QED
    BY <1>0, <1>6, <2>2, <2>3 DEF StampCancelled, TypeOK, readerVars, sleepVars, countVars, windowVars, workerVars, history
<1>7. CASE EndQuiesce(q)
  <2>1. /\ qpc' \in [Quiescers -> QuiescerPcs] /\ shutdown_mutex' \in Quiescers \cup {None}
        /\ quiesced' \in BOOLEAN
    BY <1>0, <1>7 DEF EndQuiesce, Goes, TypeOK, QuiescerPcs
  <2> QED
    BY <1>0, <1>7, <2>1 DEF EndQuiesce, TypeOK, readerVars, ringVars, sleepVars, countVars, windowVars, workerVars, history
<1> QED
  BY <1>1, <1>2, <1>3, <1>4, <1>5, <1>6, <1>7 DEF Shutdown

LEMMA PoolTypes ==
  ASSUME PoolInv, [Next]_vars
  PROVE  TypeOK'
<1>1. CASE UNCHANGED vars
  BY <1>1 DEF PoolInv, TypeOK, vars, readerVars, ringVars, sleepVars, countVars, windowVars, workerVars, quiesceVars, history
<1> QED
  BY <1>1, ReaderTypes, WorkerTypes, QuiescerTypes DEF Next
-----------------------------------------------------------------------------
(* Who may still run, and what the shutdown has settled.                   *)

LEMMA ReaderThreads ==
  ASSUME PoolInv, Reader
  PROVE  ThreadInv'
<1>0. TypeOK /\ ThreadInv
  BY DEF PoolInv
<1>1. UNCHANGED <<stopping, wpc, qpc, shutdown_mutex, quiesced, cancelling>>
  BY DEF Reader, NextCall, Pump, SubmitTest, SubmitPush, SubmitCount, SubmitNotify, SubmitLeave,
     SubmitRefused, TakeFile, FreeSlot, workerVars, quiesceVars
<1>2. submits_active' = IF rpc' \in Submitting THEN 1 ELSE 0
  <2>0. submits_active = (IF rpc \in Submitting THEN 1 ELSE 0) /\ submits_active \in 0 .. 1
    BY <1>0 DEF ThreadInv, TypeOK
  <2>1. CASE NextCall \/ Pump \/ SubmitTest
    BY <2>0, <2>1 DEF NextCall, Pump, SubmitTest, Back, Submitting
  <2>2. CASE SubmitPush \/ SubmitCount \/ SubmitNotify
    BY <2>0, <2>2 DEF SubmitPush, SubmitCount, SubmitNotify, Submitting
  <2>3. CASE SubmitLeave \/ SubmitRefused
    BY <2>0, <2>3 DEF SubmitLeave, SubmitRefused, Back, Submitting
  <2>4. CASE TakeFile \/ FreeSlot
    BY <2>0, <2>4 DEF TakeFile, FreeSlot, Submitting
  <2> QED
    BY <2>1, <2>2, <2>3, <2>4 DEF Reader
<1>3. Quiet => Quiet'
  <2>1. CASE NextCall \/ Pump \/ SubmitTest
    BY <1>1, <2>1 DEF NextCall, Pump, SubmitTest, Back, Quiet
  <2>2. CASE SubmitPush \/ SubmitCount \/ SubmitNotify
    BY <2>2 DEF SubmitPush, SubmitCount, SubmitNotify, Quiet
  <2>3. CASE SubmitLeave \/ SubmitRefused
    BY <1>1, <2>3 DEF SubmitLeave, SubmitRefused, Back, Quiet
  <2>4. CASE TakeFile \/ FreeSlot
    BY <1>1, <2>4 DEF TakeFile, FreeSlot, Quiet
  <2> QED
    BY <2>1, <2>2, <2>3, <2>4 DEF Reader
<1>4. Quiet => tasks' = tasks
  BY DEF Reader, NextCall, Pump, SubmitTest, SubmitPush, SubmitCount, SubmitNotify, SubmitLeave,
     SubmitRefused, TakeFile, FreeSlot, Quiet
<1>5. AllEnded' <=> AllEnded
  BY <1>1 DEF AllEnded
<1> QED
  BY <1>0, <1>1, <1>2, <1>3, <1>4, <1>5 DEF ThreadInv

LEMMA WorkerThreads ==
  ASSUME PoolInv, NEW w \in Workers, Worker(w)
  PROVE  ThreadInv'
<1>0. TypeOK /\ ThreadInv
  BY DEF PoolInv
<1>1. UNCHANGED <<rpc, submits_active, stopping, qpc, shutdown_mutex, quiesced, cancelling>>
  <2>1. CASE WorkerLoop(w)
    BY <2>1 DEF WorkerLoop, WorkerTest, WorkerPop, WorkerUncount, WorkerLock, WorkerPredicate,
       WorkerPark, WorkerWake, WorkerNote, WorkerWindow, WorkerExchange, WorkerReset, WorkerTrip,
       WorkerDeliver, WorkerStamp, readerVars, quiesceVars
  <2>2. CASE \E o \in Outcomes : WorkerFetch(w, o)
    BY <2>2 DEF WorkerFetch, readerVars, quiesceVars
  <2> QED
    BY <2>1, <2>2 DEF Worker
<1>2. wpc[w] # "ended"
  <2>1. CASE WorkerLoop(w)
    BY <2>1 DEF WorkerLoop, WorkerTest, WorkerPop, WorkerUncount, WorkerLock, WorkerPredicate,
       WorkerPark, WorkerWake, WorkerNote, WorkerWindow, WorkerExchange, WorkerReset, WorkerTrip,
       WorkerDeliver, WorkerStamp, At
  <2>2. CASE \E o \in Outcomes : WorkerFetch(w, o)
    BY <2>2 DEF WorkerFetch, At
  <2> QED
    BY <2>1, <2>2 DEF Worker
<1>3. ~AllEnded
  BY <1>2 DEF AllEnded
<1>4. Quiet' <=> Quiet
  BY <1>1 DEF Quiet
<1> QED
  BY <1>0, <1>1, <1>3, <1>4 DEF ThreadInv

LEMMA QuiescerThreads ==
  ASSUME PoolInv, NEW q \in Quiescers, Quiesce(q) \/ Shutdown(q)
  PROVE  ThreadInv'
<1>0. /\ TypeOK /\ ThreadInv /\ qpc \in [Quiescers -> QuiescerPcs] /\ None \notin Quiescers
      /\ quiesced \in BOOLEAN /\ stopping \in BOOLEAN
  BY NoneAssumption DEF PoolInv, TypeOK
<1>u. UNCHANGED <<rpc, wpc, submits_active>>
  BY DEF Quiesce, Shutdown, SetStopping, NotifyAll, JoinWorkers, AwaitSubmits, Cancel, StampCancelled,
     EndQuiesce, readerVars, workerVars
<1>e. AllEnded' <=> AllEnded
  BY <1>u DEF AllEnded
<1>o. ASSUME NEW p \in Quiescers, p # q, shutdown_mutex = q \/ shutdown_mutex = None
      PROVE  qpc[p] \in {"idle", "returned"}
  BY <1>0, <1>o DEF ThreadInv
<1>m. qpc[q] \in QuiescerPcs \ {"idle", "returned"} => shutdown_mutex = q /\ ~quiesced
  BY <1>0 DEF ThreadInv
<1>1. CASE Quiesce(q)
  <2>1. /\ shutdown_mutex = None /\ qpc[q] = "idle"
        /\ \/ quiesced /\ qpc' = [qpc EXCEPT ![q] = "returned"] /\ shutdown_mutex' = None
           \/ ~quiesced /\ qpc' = [qpc EXCEPT ![q] = "flag"] /\ shutdown_mutex' = q
        /\ UNCHANGED <<stopping, tasks, quiesced, cancelling>>
    BY <1>1 DEF Quiesce, Goes
  <2>2. Quiet' <=> Quiet
    BY <1>u, <2>1 DEF Quiet
  <2>3. \A p \in Quiescers : qpc[p] \in {"idle", "returned"}
    BY <1>o, <2>1
  <2>4. cancelling = None
    BY <1>0, <2>3 DEF ThreadInv
  <2> QED
    BY <1>0, <1>u, <1>e, <2>1, <2>2, <2>3, <2>4 DEF ThreadInv
<1>2. CASE SetStopping(q)
  <2>1. /\ qpc[q] = "flag" /\ qpc' = [qpc EXCEPT ![q] = "notify"] /\ stopping' = TRUE
        /\ UNCHANGED <<tasks, shutdown_mutex, quiesced, cancelling>>
    BY <1>2 DEF SetStopping, Goes
  <2>2. shutdown_mutex = q /\ ~quiesced
    BY <1>m, <2>1 DEF QuiescerPcs
  <2>3. \A p \in Quiescers : p # q => qpc[p] \in {"idle", "returned"}
    BY <1>o, <2>2
  <2>4. cancelling = None
    BY <1>0, <2>1, <2>3 DEF ThreadInv
  <2> QED
    BY <1>0, <1>u, <1>e, <2>1, <2>2, <2>3, <2>4 DEF ThreadInv
<1>3. CASE NotifyAll(q) \/ JoinWorkers(q) \/ AwaitSubmits(q)
  <2>1. /\ qpc[q] \in {"notify", "join", "await"}
        /\ \/ qpc' = [qpc EXCEPT ![q] = "join"]
           \/ qpc' = [qpc EXCEPT ![q] = "await"] /\ AllEnded
           \/ qpc[q] = "await" /\ qpc' = [qpc EXCEPT ![q] = "drain"] /\ submits_active = 0
        /\ UNCHANGED <<stopping, tasks, shutdown_mutex, quiesced, cancelling>>
    BY <1>3 DEF NotifyAll, JoinWorkers, AwaitSubmits, Goes, AllEnded
  <2>2. shutdown_mutex = q /\ ~quiesced /\ stopping
    BY <1>0, <1>m, <2>1 DEF QuiescerPcs, ThreadInv
  <2>3. \A p \in Quiescers : p # q => qpc[p] \in {"idle", "returned"}
    BY <1>o, <2>2
  <2>4. cancelling = None
    BY <1>0, <2>1, <2>3 DEF ThreadInv
  <2>5. Quiet' <=> Quiet
    BY <1>u, <2>1 DEF Quiet
  <2>6. submits_active = 0 => Quiet
    BY <1>0, <2>2 DEF ThreadInv, Quiet, Submitting
  <2> QED
    BY <1>0, <1>u, <1>e, <2>1, <2>2, <2>3, <2>4, <2>5, <2>6 DEF ThreadInv
<1>4. CASE Cancel(q)
  <2>1. /\ qpc[q] = "drain" /\ UNCHANGED <<stopping, shutdown_mutex, quiesced>>
        /\ tasks # << >> /\ tasks' = Tail(tasks)
        /\ \/ qpc' = [qpc EXCEPT ![q] = "stamp"] /\ cancelling' = Head(tasks)
           \/ qpc' = [qpc EXCEPT ![q] = "drain"] /\ cancelling' = cancelling
    BY <1>4 DEF Cancel, Goes
  <2>2. shutdown_mutex = q /\ ~quiesced /\ stopping /\ AllEnded /\ Quiet
    BY <1>0, <1>m, <2>1 DEF QuiescerPcs, ThreadInv
  <2>3. \A p \in Quiescers : p # q => qpc[p] \in {"idle", "returned"}
    BY <1>o, <2>2
  <2>4. cancelling = None /\ Head(tasks) # None
    BY <1>0, <2>1, <2>3, TasksHead, PoolFacts DEF ThreadInv
  <2>5. Quiet'
    BY <1>u, <2>1, <2>2 DEF Quiet
  <2> QED
    BY <1>0, <1>u, <1>e, <2>1, <2>2, <2>3, <2>4, <2>5 DEF ThreadInv
<1>5. CASE StampCancelled(q)
  <2>1. /\ qpc[q] = "stamp" /\ UNCHANGED <<stopping, tasks, shutdown_mutex, quiesced>>
        /\ qpc' = [qpc EXCEPT ![q] = "drain"] /\ cancelling' = None
    BY <1>5 DEF StampCancelled, Goes
  <2>2. shutdown_mutex = q /\ ~quiesced /\ stopping /\ AllEnded /\ Quiet
    BY <1>0, <1>m, <2>1 DEF QuiescerPcs, ThreadInv
  <2>3. \A p \in Quiescers : p # q => qpc[p] \in {"idle", "returned"}
    BY <1>o, <2>2
  <2>5. Quiet'
    BY <1>u, <2>1, <2>2 DEF Quiet
  <2> QED
    BY <1>0, <1>u, <1>e, <2>1, <2>2, <2>3, <2>5 DEF ThreadInv
<1>6. CASE EndQuiesce(q)
  <2>1. /\ qpc[q] = "drain" /\ UNCHANGED <<stopping, tasks, cancelling>> /\ tasks = << >>
        /\ qpc' = [qpc EXCEPT ![q] = "returned"] /\ quiesced' = TRUE /\ shutdown_mutex' = None
    BY <1>6 DEF EndQuiesce, Goes
  <2>2. shutdown_mutex = q /\ ~quiesced /\ stopping /\ AllEnded /\ Quiet
    BY <1>0, <1>m, <2>1 DEF QuiescerPcs, ThreadInv
  <2>3. \A p \in Quiescers : p # q => qpc[p] \in {"idle", "returned"}
    BY <1>o, <2>2
  <2>4. cancelling = None
    BY <1>0, <2>1, <2>3 DEF ThreadInv
  <2>5. Quiet'
    BY <1>u, <2>1, <2>2 DEF Quiet
  <2> QED
    BY <1>0, <1>u, <1>e, <2>1, <2>2, <2>3, <2>4, <2>5 DEF ThreadInv
<1> QED
  BY <1>1, <1>2, <1>3, <1>4, <1>5, <1>6 DEF Shutdown
-----------------------------------------------------------------------------
(* The books.                                                              *)

\* What was submitted is finite, and the next file is not in it yet.
LEMMA PushedFacts ==
  ASSUME TypeOK, CursorInv
  PROVE  /\ IsFiniteSet(pushed) /\ Cardinality(pushed) \in Nat
         /\ rpc = "push" => <<cur, fetch_cursor[cur]>> \notin pushed
<1>1. IsFiniteSet(Streams) /\ IsFiniteSet(Positions)
  BY PoolFacts, FS_Interval DEF Streams, Positions
<1>2. IsFiniteSet(Tasks) /\ pushed \subseteq Tasks
  BY <1>1, FS_Product DEF Tasks, TypeOK
<1>3. IsFiniteSet(pushed) /\ Cardinality(pushed) \in Nat
  BY <1>2, FS_Subset, FS_CardinalityType
<1>4. ASSUME rpc = "push"
      PROVE  <<cur, fetch_cursor[cur]>> \notin pushed
  <2>1. Issued(cur) = fetch_cursor[cur] /\ fetch_cursor[cur] \in Nat
    BY <1>4, PoolFacts DEF Issued, Handing, TypeOK
  <2> QED
    BY <2>1 DEF CursorInv
<1> QED
  BY <1>3, <1>4

\* queued_ goes up and down with what it counts.
LEMMA WordMoves ==
  ASSUME NEW n \in Int, NEW k \in Int
  PROVE  ((n % WordSize) + k) % WordSize = (n + k) % WordSize
<1>1. WordSize \in Nat /\ WordSize > 0
  BY PoolFacts
<1> QED
  BY <1>1, ModAdd

\* The number queued_ stands for.
Queued == Len(tasks) + Cardinality(Claiming) - (IF rpc = "count" THEN 1 ELSE 0)

LEMMA ClaimingType ==
  ASSUME TypeOK
  PROVE  Cardinality(Claiming) \in Nat /\ Cardinality(Uncompleted) \in Nat
         /\ Cardinality(Noted) \in Nat /\ Len(tasks) \in Nat
<1>1. IsFiniteSet(Workers) /\ Claiming \subseteq Workers /\ Uncompleted \subseteq Workers /\ Noted \subseteq Workers
  BY FetchAssumption DEF Claiming, Uncompleted, Noted
<1> QED
  BY <1>1, FS_Subset, FS_CardinalityType DEF TypeOK

LEMMA ReaderCounts ==
  ASSUME PoolInv, Reader
  PROVE  CountInv' /\ QueuedTracksTasks' /\ FirstWindow' /\ FiredOnce'
<1>0. TypeOK /\ CursorInv /\ CountInv /\ QueuedTracksTasks /\ FirstWindow /\ FiredOnce
  BY DEF PoolInv
<1>u. UNCHANGED <<wpc, failures, sleepers, completed_ok, completed_failed, cancelled, dropped, windowVars>>
  BY DEF Reader, NextCall, Pump, SubmitTest, SubmitPush, SubmitCount, SubmitNotify, SubmitLeave,
     SubmitRefused, TakeFile, FreeSlot, workerVars, sleepVars, countVars
<1>f. FirstWindow' /\ FiredOnce'
  BY <1>0, <1>u DEF FirstWindow, FiredOnce, Tripping, Noted, Trips, windowVars
<1>s. UNCHANGED <<Claiming, Uncompleted, Sleeping>>
  BY <1>u DEF Claiming, Uncompleted, Sleeping
<1>t. /\ Cardinality(Claiming) \in Nat /\ Cardinality(Uncompleted) \in Nat /\ Len(tasks) \in Nat
      /\ completed_ok \in Nat /\ completed_failed \in Nat /\ submitted \in Nat
      /\ IsFiniteSet(pushed) /\ Cardinality(pushed) \in Nat
  BY <1>0, ClaimingType, PushedFacts DEF TypeOK
<1>q. queued = Queued % WordSize
  BY <1>0 DEF QueuedTracksTasks, Queued
<1>1. ASSUME UNCHANGED <<submitted, pushed, tasks, queued>>, rpc' = "count" <=> rpc = "count"
      PROVE  CountInv' /\ QueuedTracksTasks'
  BY <1>0, <1>1, <1>u, <1>s DEF CountInv, QueuedTracksTasks
<1>2. CASE NextCall \/ Pump \/ SubmitTest \/ SubmitNotify
  <2>1. UNCHANGED <<submitted, pushed, tasks, queued>> /\ rpc # "count" /\ rpc' # "count"
    BY <1>2 DEF NextCall, Pump, SubmitTest, SubmitNotify, Back, countVars, history
  <2> QED
    BY <1>1, <1>f, <2>1
<1>3. CASE SubmitLeave \/ SubmitRefused \/ TakeFile \/ FreeSlot
  <2>1. UNCHANGED <<submitted, pushed, tasks, queued>> /\ rpc # "count" /\ rpc' # "count"
    BY <1>3 DEF SubmitLeave, SubmitRefused, TakeFile, FreeSlot, Back, countVars, history
  <2> QED
    BY <1>1, <1>f, <2>1
<1>4. CASE SubmitPush
  <2>1. CASE rpc' = "refused" /\ UNCHANGED <<tasks, pushed>>
    <3>1. UNCHANGED <<submitted, pushed, tasks, queued>> /\ rpc # "count" /\ rpc' # "count"
      BY <1>4, <2>1 DEF SubmitPush, countVars
    <3> QED
      BY <1>1, <1>f, <3>1
  <2>2. CASE /\ Len(tasks) < TaskCapacity /\ rpc' = "count"
             /\ tasks' = Append(tasks, <<cur, fetch_cursor[cur]>>)
             /\ pushed' = pushed \cup {<<cur, fetch_cursor[cur]>>}
    <3>1. rpc = "push" /\ UNCHANGED <<submitted, queued>>
      BY <1>4 DEF SubmitPush, countVars
    <3>2. Cardinality(pushed') = Cardinality(pushed) + 1
      BY <1>0, <1>t, <2>2, <3>1, PushedFacts, FS_AddElement
    <3>3. Len(tasks') = Len(tasks) + 1
      BY <1>0, <2>2, <3>1 DEF TypeOK, CursorInv, Tasks
    <3>4. CountInv'
      BY <1>0, <1>u, <1>s, <1>t, <2>2, <3>1, <3>2, <3>3 DEF CountInv
    <3>5. QueuedTracksTasks'
      BY <1>0, <1>s, <1>t, <2>2, <3>1, <3>3 DEF QueuedTracksTasks
    <3> QED
      BY <1>f, <3>4, <3>5
  <2> QED
    BY <1>4, <2>1, <2>2 DEF SubmitPush
<1>5. CASE SubmitCount
  <2>1. /\ rpc = "count" /\ rpc' = "notify" /\ submitted' = submitted + 1
        /\ queued' = (queued + 1) % WordSize /\ UNCHANGED <<tasks, pushed>>
    BY <1>5 DEF SubmitCount, history
  <2>2. CountInv'
    BY <1>0, <1>u, <1>s, <1>t, <2>1 DEF CountInv
  <2>3. Queued \in Int /\ Queued + 1 = Len(tasks) + Cardinality(Claiming)
    BY <1>t, <2>1 DEF Queued
  <2>4. queued' = (Queued + 1) % WordSize
    BY <1>q, <2>1, <2>3, WordMoves
  <2>5. QueuedTracksTasks'
    BY <1>s, <1>t, <2>1, <2>3, <2>4 DEF QueuedTracksTasks
  <2> QED
    BY <1>f, <2>2, <2>5
<1> QED
  BY <1>2, <1>3, <1>4, <1>5 DEF Reader

One(b) == IF b THEN 1 ELSE 0

\* How a worker's move changes the sets that are counted.
LEMMA MoveCounts ==
  ASSUME TypeOK, NEW w \in Workers, NEW here, NEW there, At(w, here, there)
  PROVE  /\ Cardinality(Claiming') = (Cardinality(Claiming) + One(there = "popped")) - One(here = "popped")
         /\ Cardinality(Uncompleted') = (Cardinality(Uncompleted) + One(there \in {"popped", "fetch", "note"}))
                                          - One(here \in {"popped", "fetch", "note"})
         /\ Cardinality(Noted') = (Cardinality(Noted) + One(there = "window")) - One(here = "window")
<1>0. /\ wpc \in [Workers -> WorkerPcs] /\ wpc' = [wpc EXCEPT ![w] = there] /\ wpc[w] = here
      /\ Cardinality(Claiming) \in Nat /\ Cardinality(Uncompleted) \in Nat /\ Cardinality(Noted) \in Nat
  BY ClaimingType DEF At, TypeOK
<1>1. ASSUME NEW S
      PROVE  LET before == {v \in Workers : wpc[v] \in S}
                 later == {v \in Workers : wpc'[v] \in S}
             IN  Cardinality(before) \in Nat =>
                     Cardinality(later) = (Cardinality(before) + One(there \in S)) - One(here \in S)
  <2> DEFINE before == {v \in Workers : wpc[v] \in S}
             later == {v \in Workers : wpc'[v] \in S}
  <2>1. /\ (wpc[w] \in S <=> there \in S) => later = before
        /\ wpc[w] \notin S /\ there \in S => Cardinality(later) = Cardinality(before) + 1
        /\ wpc[w] \in S /\ there \notin S => Cardinality(later) = Cardinality(before) - 1
    BY <1>0, PcCount
  <2> HIDE DEF before, later
  <2>2. Cardinality(before) \in Nat =>
           Cardinality(later) = (Cardinality(before) + One(there \in S)) - One(here \in S)
    BY <1>0, <2>1 DEF One
  <2> QED
    BY <2>2 DEF before, later
<1>2. /\ Claiming = {v \in Workers : wpc[v] \in {"popped"}}
      /\ Claiming' = {v \in Workers : wpc'[v] \in {"popped"}}
  BY DEF Claiming
<1>3. /\ Noted = {v \in Workers : wpc[v] \in {"window"}}
      /\ Noted' = {v \in Workers : wpc'[v] \in {"window"}}
  BY DEF Noted
<1>4. /\ Uncompleted = {v \in Workers : wpc[v] \in {"popped", "fetch", "note"}}
      /\ Uncompleted' = {v \in Workers : wpc'[v] \in {"popped", "fetch", "note"}}
  BY DEF Uncompleted
<1>5. Cardinality(Claiming') = (Cardinality(Claiming) + One(there \in {"popped"})) - One(here \in {"popped"})
  BY <1>0, <1>1, <1>2
<1>6. Cardinality(Noted') = (Cardinality(Noted) + One(there \in {"window"})) - One(here \in {"window"})
  BY <1>0, <1>1, <1>3
<1>7. Cardinality(Uncompleted') = (Cardinality(Uncompleted) + One(there \in {"popped", "fetch", "note"}))
                                    - One(here \in {"popped", "fetch", "note"})
  BY <1>0, <1>1, <1>4
<1> QED
  BY <1>5, <1>6, <1>7 DEF One

\* The set aside of the queue: completions and the counts of note_completion().
LEMMA WorkerCounts ==
  ASSUME PoolInv, NEW w \in Workers, Worker(w)
  PROVE  CountInv' /\ QueuedTracksTasks'
<1>0. /\ TypeOK /\ CountInv /\ QueuedTracksTasks
      /\ w \in Carrying => task[w] \in Unanswered
  BY DEF PoolInv, PlacesInv
<1>t. /\ Cardinality(Claiming) \in Nat /\ Cardinality(Uncompleted) \in Nat /\ Len(tasks) \in Nat
      /\ completed_ok \in Nat /\ completed_failed \in Nat /\ submitted \in Nat
  BY <1>0, ClaimingType DEF TypeOK
<1>s. sleepers' = Cardinality(Sleeping')
  BY WorkerSleep
<1>u. UNCHANGED <<rpc, submitted, pushed>>
  <2>1. CASE WorkerLoop(w)
    BY <2>1 DEF WorkerLoop, WorkerTest, WorkerPop, WorkerUncount, WorkerLock, WorkerPredicate,
       WorkerPark, WorkerWake, WorkerNote, WorkerWindow, WorkerExchange, WorkerReset, WorkerTrip,
       WorkerDeliver, WorkerStamp, readerVars, countVars, history
  <2>2. CASE \E o \in Outcomes : WorkerFetch(w, o)
    BY <2>2 DEF WorkerFetch, readerVars, countVars, history
  <2> QED
    BY <2>1, <2>2 DEF Worker
<1>1. ASSUME UNCHANGED <<tasks, queued, completed_ok, completed_failed, dropped>>,
             NEW here, NEW there, At(w, here, there),
             here # "popped", there # "popped",
             here \in {"fetch", "note"} <=> there \in {"fetch", "note"}
      PROVE  CountInv' /\ QueuedTracksTasks'
  <2>1. Cardinality(Claiming') = Cardinality(Claiming) /\ Cardinality(Uncompleted') = Cardinality(Uncompleted)
    BY <1>0, <1>1, <1>t, MoveCounts DEF One
  <2> QED
    BY <1>0, <1>1, <1>s, <1>u, <2>1 DEF CountInv, QueuedTracksTasks
<1>2. CASE WorkerTest(w) \/ WorkerLock(w) \/ WorkerPredicate(w) \/ WorkerPark(w) \/ WorkerWake(w)
  <2>1. /\ UNCHANGED <<tasks, queued, completed_ok, completed_failed, dropped>>
        /\ \E here \in {"loop", "recheck", "lock", "predicate", "park", "asleep"},
              there \in {"ended", "pop", "lock", "predicate", "loop", "park", "asleep"} : At(w, here, there)
    BY <1>2 DEF WorkerTest, WorkerLock, WorkerPredicate, WorkerPark, WorkerWake, countVars
  <2> QED
    BY <1>1, <2>1
<1>3. CASE WorkerPop(w)
  <2>u. UNCHANGED <<queued, completed_ok, completed_failed, dropped>>
    BY <1>3 DEF WorkerPop, countVars
  <2>1. CASE tasks = << >>
    <3>1. At(w, "pop", "recheck") /\ UNCHANGED tasks
      BY <1>3, <2>1 DEF WorkerPop
    <3> QED
      BY <1>1, <2>u, <3>1
  <2>2. CASE tasks # << >>
    <3>1. At(w, "pop", "popped") /\ tasks' = Tail(tasks)
      BY <1>3, <2>2 DEF WorkerPop
    <3>2. Len(tasks') = Len(tasks) - 1
      BY <1>0, <2>2, <3>1, TasksHead
    <3>3. /\ Cardinality(Claiming') = Cardinality(Claiming) + 1
          /\ Cardinality(Uncompleted') = Cardinality(Uncompleted) + 1
      BY <1>0, <1>t, <3>1, MoveCounts DEF One
    <3>4. CountInv'
      BY <1>0, <1>s, <1>u, <1>t, <2>u, <3>2, <3>3 DEF CountInv
    <3>5. QueuedTracksTasks'
      BY <1>0, <1>u, <1>t, <2>u, <3>2, <3>3 DEF QueuedTracksTasks
    <3> QED
      BY <3>4, <3>5
  <2> QED
    BY <2>1, <2>2
<1>4. CASE WorkerUncount(w)
  <2>1. /\ At(w, "popped", "fetch") /\ queued' = Uncounted
        /\ UNCHANGED <<tasks, completed_ok, completed_failed, dropped>>
    BY <1>4 DEF WorkerUncount, countVars
  <2>2. /\ Cardinality(Claiming') = Cardinality(Claiming) - 1
        /\ Cardinality(Uncompleted') = Cardinality(Uncompleted)
    BY <1>0, <1>t, <2>1, MoveCounts DEF One
  <2>3. CountInv'
    BY <1>0, <1>s, <1>u, <2>1, <2>2 DEF CountInv
  <2>4. Queued \in Int /\ queued = Queued % WordSize
    BY <1>0, <1>t DEF Queued, QueuedTracksTasks
  <2>5. queued' = (Queued + (-1)) % WordSize
    <3>1. queued - 1 = (Queued % WordSize) + (-1)
      BY <1>0, <2>4 DEF TypeOK
    <3> QED
      BY <2>1, <2>4, <3>1, WordMoves DEF Uncounted
  <2>6. Queued + (-1) = Len(tasks') + Cardinality(Claiming') - (IF rpc' = "count" THEN 1 ELSE 0)
    BY <1>t, <1>u, <2>1, <2>2 DEF Queued
  <2> QED
    BY <2>3, <2>5, <2>6 DEF QueuedTracksTasks
<1>5. CASE \E o \in Outcomes : WorkerFetch(w, o)
  <2>1. /\ UNCHANGED <<tasks, queued, completed_ok, completed_failed, dropped>>
        /\ At(w, "fetch", "fetch") \/ At(w, "fetch", "note")
    BY <1>5 DEF WorkerFetch, countVars
  <2> QED
    BY <1>1, <2>1
<1>6. CASE WorkerNote(w)
  <2>1. /\ At(w, "note", "window") /\ UNCHANGED <<tasks, queued, dropped>>
        /\ \/ completed_ok' = completed_ok + 1 /\ completed_failed' = completed_failed
           \/ completed_ok' = completed_ok /\ completed_failed' = completed_failed + 1
    BY <1>6 DEF WorkerNote
  <2>2. /\ Cardinality(Claiming') = Cardinality(Claiming)
        /\ Cardinality(Uncompleted') = Cardinality(Uncompleted) - 1
    BY <1>0, <1>t, <2>1, MoveCounts DEF One
  <2>3. completed_ok' \in Nat /\ completed_failed' \in Nat
    BY WorkerTypes DEF TypeOK
  <2>4. CountInv'
    <3>1. Len(tasks) + Cardinality(Uncompleted) + completed_ok + completed_failed = Cardinality(pushed)
      BY <1>0 DEF CountInv
    <3>2. Len(tasks') + Cardinality(Uncompleted') + completed_ok' + completed_failed' = Cardinality(pushed')
      <4>1. Cardinality(Uncompleted') \in Int
        BY <1>t, <2>2
      <4>2. /\ Len(tasks') = Len(tasks) /\ Cardinality(Uncompleted) = Cardinality(Uncompleted') + 1
            /\ Cardinality(pushed') = Cardinality(pushed)
        BY <1>t, <1>u, <2>1, <2>2
      <4>3. Len(tasks) + Cardinality(Uncompleted') + completed_ok' + completed_failed'
               = Len(tasks) + Cardinality(Uncompleted) + completed_ok + completed_failed
        <5>1. CASE completed_ok' = completed_ok + 1 /\ completed_failed' = completed_failed
          BY <1>t, <4>1, <4>2, <5>1
        <5>2. CASE completed_ok' = completed_ok /\ completed_failed' = completed_failed + 1
          BY <1>t, <4>1, <4>2, <5>2, SMTT(30)
        <5> QED
          BY <2>1, <5>1, <5>2
      <4> QED
        BY <3>1, <4>2, <4>3
    <3> QED
      BY <1>0, <1>s, <1>u, <2>1, <3>2 DEF CountInv
  <2> QED
    BY <1>0, <1>u, <2>1, <2>2, <2>4 DEF QueuedTracksTasks
<1>7. CASE WorkerWindow(w) \/ WorkerExchange(w) \/ WorkerReset(w) \/ WorkerTrip(w)
  <2>1. /\ UNCHANGED <<tasks, queued, completed_ok, completed_failed, dropped>>
        /\ \E here \in {"window", "exchange", "reset", "trip"},
              there \in {"exchange", "reset", "trip", "deliver"} : At(w, here, there)
    BY <1>7 DEF WorkerWindow, WorkerExchange, WorkerReset, WorkerTrip, countVars
  <2> QED
    BY <1>1, <2>1
<1>8. CASE WorkerDeliver(w)
  <2>1. wpc[w] = "deliver"
    BY <1>8 DEF WorkerDeliver, At
  <2>2. SlotAwaits(task[w])
    BY <1>0, <2>1 DEF Carrying, CarryingPcs, Unanswered
  <2>3. /\ UNCHANGED <<tasks, queued, completed_ok, completed_failed, dropped>>
        /\ At(w, "deliver", "stamp")
    BY <1>8, <2>2 DEF WorkerDeliver
  <2> QED
    BY <1>1, <2>3
<1>9. CASE WorkerStamp(w)
  <2>1. /\ UNCHANGED <<tasks, queued, completed_ok, completed_failed, dropped>>
        /\ At(w, "stamp", "loop")
    BY <1>9 DEF WorkerStamp, countVars
  <2> QED
    BY <1>1, <2>1
<1> QED
  BY <1>2, <1>3, <1>4, <1>5, <1>6, <1>7, <1>8, <1>9 DEF Worker, WorkerLoop

\* Places from which a worker's step may change the state of the window.
WindowPcs == {"window", "exchange", "reset", "trip"}

LEMMA WorkerWindowInv ==
  ASSUME PoolInv, NEW w \in Workers, Worker(w)
  PROVE  FirstWindow' /\ FiredOnce'
<1>0. TypeOK /\ FirstWindow /\ FiredOnce /\ wpc \in [Workers -> WorkerPcs] /\ failures \in [Workers -> Nat]
  BY DEF PoolInv, TypeOK
<1>t. /\ Cardinality(Noted) \in Nat /\ completed_ok \in Nat /\ completed_failed \in Nat /\ cancelled \in Nat
      /\ window_count \in Nat /\ window_failures \in Nat /\ critical \in BOOLEAN
      /\ Window \in Nat /\ CriticalFailures \in Nat
  BY <1>0, ClaimingType, FetchAssumption DEF TypeOK
<1>c. CriticalFailures <= Window /\ completed_ok = 0 /\ ~critical /\ ~Tripping =>
        /\ completed_failed - cancelled = window_failures
        /\ window_failures = window_count + Cardinality(Noted)
        /\ window_count >= Window <=> \E v \in Workers : wpc[v] = "exchange"
        /\ \A v \in Workers : wpc[v] # "reset"
  BY <1>0 DEF FirstWindow
<1>1. ASSUME UNCHANGED <<completed_ok, completed_failed, cancelled, windowVars, failures>>,
             NEW here, NEW there, At(w, here, there), here \notin WindowPcs, there \notin WindowPcs
      PROVE  FirstWindow' /\ FiredOnce'
  <2>1. Cardinality(Noted') = Cardinality(Noted)
    BY <1>0, <1>1, <1>t, MoveCounts DEF One, WindowPcs
  <2>2. \A v \in Workers, pc \in WindowPcs : wpc'[v] = pc <=> wpc[v] = pc
    BY <1>0, <1>1 DEF At
  <2>3. Tripping' <=> Tripping
    BY <1>1, <2>2 DEF Tripping, WindowPcs, Trips
  <2>4. FirstWindow'
    BY <1>0, <1>1, <2>1, <2>2, <2>3 DEF FirstWindow, WindowPcs, windowVars
  <2> QED
    BY <1>0, <1>1, <2>4 DEF FiredOnce, windowVars
<1>2. CASE WorkerTest(w) \/ WorkerLock(w) \/ WorkerPredicate(w) \/ WorkerPark(w) \/ WorkerWake(w)
  <2>1. /\ UNCHANGED <<completed_ok, completed_failed, cancelled, windowVars, failures>>
        /\ \E here \in {"loop", "recheck", "lock", "predicate", "park", "asleep"},
              there \in {"ended", "pop", "lock", "predicate", "loop", "park", "asleep"} : At(w, here, there)
    BY <1>2 DEF WorkerTest, WorkerLock, WorkerPredicate, WorkerPark, WorkerWake, countVars
  <2> QED
    BY <1>1, <2>1 DEF WindowPcs
<1>3. CASE WorkerPop(w) \/ WorkerUncount(w) \/ (\E o \in Outcomes : WorkerFetch(w, o))
  <2>1. /\ UNCHANGED <<completed_ok, completed_failed, cancelled, windowVars, failures>>
        /\ \E here \in {"pop", "popped", "fetch"},
              there \in {"popped", "recheck", "fetch", "note"} : At(w, here, there)
    BY <1>3 DEF WorkerPop, WorkerUncount, WorkerFetch, countVars
  <2> QED
    BY <1>1, <2>1 DEF WindowPcs
<1>4. CASE WorkerDeliver(w) \/ WorkerStamp(w)
  <2>1. /\ UNCHANGED <<completed_ok, completed_failed, cancelled, windowVars, failures>>
        /\ \E here \in {"deliver", "stamp"}, there \in {"stamp", "loop"} : At(w, here, there)
    BY <1>4 DEF WorkerDeliver, WorkerStamp, countVars
  <2> QED
    BY <1>1, <2>1 DEF WindowPcs
<1>5. CASE WorkerNote(w)
  <2>1. At(w, "note", "window") /\ UNCHANGED <<window_count, critical, fired, cancelled, failures>>
    BY <1>5 DEF WorkerNote
  <2>2. \/ completed_ok' = completed_ok + 1
        \/ /\ completed_ok' = completed_ok /\ completed_failed' = completed_failed + 1
           /\ window_failures' = window_failures + 1
    BY <1>5 DEF WorkerNote
  <2>3. Cardinality(Noted') = Cardinality(Noted) + 1
    BY <1>0, <1>t, <2>1, MoveCounts DEF One
  <2>4. \A v \in Workers, pc \in {"exchange", "reset", "trip"} : wpc'[v] = pc <=> wpc[v] = pc
    BY <1>0, <2>1 DEF At
  <2>5. Tripping' <=> Tripping
    BY <2>1, <2>4 DEF Tripping, Trips
  <2>6. FirstWindow'
    BY <1>c, <1>t, <2>1, <2>2, <2>3, <2>4, <2>5 DEF FirstWindow
  <2> QED
    BY <1>0, <2>1, <2>6 DEF FiredOnce
<1>6. CASE WorkerWindow(w)
  <2>1. /\ At(w, "window", IF window_count + 1 < Window THEN "deliver" ELSE "exchange")
        /\ window_count' = window_count + 1
        /\ UNCHANGED <<completed_ok, completed_failed, cancelled, window_failures, critical, fired, failures>>
    BY <1>6 DEF WorkerWindow, countVars
  <2>3. Cardinality(Noted') = Cardinality(Noted) - 1
    BY <1>0, <1>t, <2>1, MoveCounts DEF One
  <2>4. \A v \in Workers, pc \in {"reset", "trip"} : wpc'[v] = pc <=> wpc[v] = pc
    BY <1>0, <2>1 DEF At
  <2>5. Tripping' <=> Tripping
    BY <2>1, <2>4 DEF Tripping, Trips
  <2>6. /\ wpc'[w] = "exchange" <=> window_count' >= Window
        /\ \A v \in Workers : v # w => (wpc'[v] = "exchange" <=> wpc[v] = "exchange")
        /\ wpc[w] # "exchange"
    BY <1>0, <1>t, <2>1 DEF At
  <2>7. ASSUME window_count >= Window <=> \E v \in Workers : wpc[v] = "exchange"
        PROVE  window_count' >= Window <=> \E v \in Workers : wpc'[v] = "exchange"
    BY <1>t, <2>1, <2>6, <2>7
  <2>8. FirstWindow'
    BY <1>c, <1>t, <2>1, <2>3, <2>4, <2>5, <2>7 DEF FirstWindow
  <2> QED
    BY <1>0, <2>1, <2>8 DEF FiredOnce
<1>7. CASE WorkerExchange(w)
  <2>1. /\ At(w, "exchange", "reset") /\ failures' = [failures EXCEPT ![w] = window_failures]
        /\ UNCHANGED <<completed_ok, completed_failed, cancelled, critical, fired>>
    BY <1>7 DEF WorkerExchange, countVars
  <2>2. wpc'[w] = "reset" /\ failures'[w] = window_failures /\ wpc[w] = "exchange"
    BY <1>0, <2>1 DEF At
  <2>3. ASSUME CriticalFailures <= Window, completed_ok = 0, ~critical, ~Tripping
        PROVE  Tripping'
    <3>1. window_failures >= CriticalFailures
      BY <1>c, <1>t, <2>2, <2>3
    <3> QED
      BY <2>2, <3>1 DEF Tripping, Trips
  <2>4. Tripping => Tripping'
    BY <1>0, <2>1, <2>2 DEF Tripping, Trips, At
  <2>5. FirstWindow'
    BY <2>1, <2>3, <2>4 DEF FirstWindow
  <2> QED
    BY <1>0, <2>1, <2>5 DEF FiredOnce
<1>8. CASE WorkerReset(w)
  <2>1. /\ At(w, "reset", IF Trips(failures[w]) THEN "trip" ELSE "deliver")
        /\ failures' = [failures EXCEPT ![w] = 0]
        /\ UNCHANGED <<completed_ok, completed_failed, cancelled, critical, fired>>
    BY <1>8 DEF WorkerReset, countVars
  <2>2. wpc[w] = "reset"
    BY <2>1 DEF At
  <2>3. Tripping => Tripping'
    <3>1. \A v \in Workers : v # w => wpc'[v] = wpc[v] /\ failures'[v] = failures[v]
      BY <1>0, <2>1 DEF At
    <3>2. Trips(failures[w]) => wpc'[w] = "trip"
      BY <1>0, <2>1 DEF At
    <3> QED
      BY <2>2, <3>1, <3>2 DEF Tripping, Trips
  <2>4. FirstWindow'
    BY <1>c, <2>1, <2>2, <2>3 DEF FirstWindow
  <2> QED
    BY <1>0, <2>1, <2>4 DEF FiredOnce
<1>9. CASE WorkerTrip(w)
  <2>1. critical' = TRUE /\ fired' = IF critical THEN fired ELSE fired + 1
    BY <1>9 DEF WorkerTrip
  <2> QED
    BY <1>0, <1>t, <2>1 DEF FirstWindow, FiredOnce
<1> QED
  BY <1>2, <1>3, <1>4, <1>5, <1>6, <1>7, <1>8, <1>9 DEF Worker, WorkerLoop

LEMMA QuiescerCounts ==
  ASSUME PoolInv, NEW q \in Quiescers, Quiesce(q) \/ Shutdown(q)
  PROVE  CountInv' /\ QueuedTracksTasks' /\ FirstWindow' /\ FiredOnce'
<1>0. /\ TypeOK /\ CountInv /\ QueuedTracksTasks /\ FirstWindow /\ FiredOnce
      /\ tasks # << >> => Head(tasks) \in Unanswered
  BY TasksHead DEF PoolInv, PlacesInv
<1>t. /\ Cardinality(Claiming) \in Nat /\ Cardinality(Uncompleted) \in Nat /\ Len(tasks) \in Nat
      /\ completed_ok \in Nat /\ completed_failed \in Nat /\ submitted \in Nat /\ cancelled \in Nat
  BY <1>0, ClaimingType DEF TypeOK
<1>u. UNCHANGED <<rpc, wpc, failures, sleepers, submitted, completed_ok, windowVars, pushed>>
  BY DEF Quiesce, Shutdown, SetStopping, NotifyAll, JoinWorkers, AwaitSubmits, Cancel, StampCancelled,
     EndQuiesce, readerVars, workerVars, sleepVars, countVars, history
<1>s. UNCHANGED <<Claiming, Uncompleted, Sleeping, Noted>>
  BY <1>u DEF Claiming, Uncompleted, Sleeping, Noted
<1>1. FiredOnce'
  BY <1>0, <1>u DEF FiredOnce, windowVars
<1>2. Tripping' <=> Tripping
  BY <1>u DEF Tripping, Trips
<1>3. ASSUME UNCHANGED <<tasks, queued, completed_failed, cancelled, dropped>>
      PROVE  CountInv' /\ QueuedTracksTasks' /\ FirstWindow'
  BY <1>0, <1>3, <1>u, <1>s, <1>2 DEF CountInv, QueuedTracksTasks, FirstWindow, windowVars
<1>4. CASE Cancel(q)
  <2>1. SlotAwaits(Head(tasks)) /\ tasks # << >>
    BY <1>0, <1>4 DEF Cancel, Unanswered
  <2>2. /\ tasks' = Tail(tasks) /\ queued' = Uncounted /\ UNCHANGED dropped
        /\ completed_failed' = completed_failed + 1 /\ cancelled' = cancelled + 1
    BY <1>4, <2>1 DEF Cancel
  <2>3. Len(tasks') = Len(tasks) - 1
    BY <1>0, <2>1, <2>2, TasksHead
  <2>4. CountInv'
    <3>1. Len(tasks) + Cardinality(Uncompleted) + completed_ok + completed_failed = Cardinality(pushed)
      BY <1>0 DEF CountInv
    <3>2. (Len(tasks) - 1) + Cardinality(Uncompleted) + completed_ok + (completed_failed + 1)
             = Len(tasks) + Cardinality(Uncompleted) + completed_ok + completed_failed
      BY <1>t
    <3>3. Len(tasks') + Cardinality(Uncompleted') + completed_ok' + completed_failed' = Cardinality(pushed')
      BY <1>u, <1>s, <2>2, <2>3, <3>1, <3>2
    <3> QED
      BY <1>0, <1>u, <1>s, <2>2, <3>3 DEF CountInv
  <2>5. FirstWindow'
    <3>1. completed_failed' - cancelled' = completed_failed - cancelled
      BY <1>t, <2>2
    <3> QED
      BY <1>0, <1>u, <1>s, <1>2, <3>1 DEF FirstWindow, windowVars
  <2>6. Queued \in Int /\ queued = Queued % WordSize
    BY <1>0, <1>t DEF Queued, QueuedTracksTasks
  <2>7. queued' = (Queued + (-1)) % WordSize
    <3>1. queued - 1 = (Queued % WordSize) + (-1)
      BY <1>0, <2>6 DEF TypeOK
    <3> QED
      BY <2>2, <2>6, <3>1, WordMoves DEF Uncounted
  <2>8. Queued + (-1) = Len(tasks') + Cardinality(Claiming') - (IF rpc' = "count" THEN 1 ELSE 0)
    BY <1>t, <1>u, <1>s, <2>3 DEF Queued
  <2>9. QueuedTracksTasks'
    BY <2>7, <2>8 DEF QueuedTracksTasks
  <2> QED
    BY <1>1, <2>4, <2>5, <2>9
<1>5. CASE ~Cancel(q)
  <2>1. UNCHANGED <<tasks, queued, completed_failed, cancelled, dropped>>
    BY <1>5 DEF Quiesce, Shutdown, SetStopping, NotifyAll, JoinWorkers, AwaitSubmits, StampCancelled,
       EndQuiesce, countVars
  <2> QED
    BY <1>1, <1>3, <2>1
<1> QED
  BY <1>4, <1>5
-----------------------------------------------------------------------------
(* The rings and the places a task can be in.                              *)

\* Stream s's ring has a slot for position p.
InRing(s, p) == read_cursor[s] <= p /\ p < read_cursor[s] + SlotCount

\* What has been submitted and not read lies in the ring.
LEMMA IssuedInRing ==
  ASSUME TypeOK, CursorInv
  PROVE  /\ \A s \in Streams : /\ Issued(s) \in Nat /\ read_cursor[s] \in Nat /\ fetch_cursor[s] \in Nat
                               /\ fetch_cursor[s] <= Issued(s)
                               /\ Issued(s) <= read_cursor[s] + SlotCount
                               /\ (cur # s \/ rpc \notin Handing) => Issued(s) = fetch_cursor[s]
         /\ \A t \in Unanswered : /\ t \in Tasks /\ t[1] \in Streams /\ t[2] \in Nat /\ t[2] \in Positions
                                  /\ InRing(t[1], t[2]) /\ t[2] < Issued(t[1]) /\ SlotAwaits(t)
<1>1. ASSUME NEW s \in Streams
      PROVE  /\ Issued(s) \in Nat /\ read_cursor[s] \in Nat /\ fetch_cursor[s] \in Nat
             /\ fetch_cursor[s] <= Issued(s) /\ Issued(s) <= read_cursor[s] + SlotCount
             /\ (cur # s \/ rpc \notin Handing) => Issued(s) = fetch_cursor[s]
  <2>1. fetch_cursor[s] \in Nat /\ read_cursor[s] \in Nat /\ SlotCount \in Nat
    BY PoolFacts DEF TypeOK
  <2>2. /\ Outstanding(s) <= SlotCount
        /\ cur = s /\ rpc \in Handing => Outstanding(s) < SlotCount
    BY DEF CursorInv, Handing
  <2> QED
    BY <2>1, <2>2 DEF Issued, Outstanding
<1>2. ASSUME NEW t \in Unanswered
      PROVE  /\ t \in Tasks /\ t[1] \in Streams /\ t[2] \in Nat /\ t[2] \in Positions
             /\ InRing(t[1], t[2]) /\ t[2] < Issued(t[1]) /\ SlotAwaits(t)
  <2>1. t \in Tasks /\ read_cursor[t[1]] <= t[2] /\ t[2] < Issued(t[1]) /\ SlotAwaits(t)
    BY DEF Unanswered
  <2>2. t[1] \in Streams /\ t[2] \in Nat /\ t[2] \in Positions /\ SlotCount \in Nat
    BY <2>1, PoolFacts DEF Tasks
  <2> QED
    BY <1>1, <2>1, <2>2 DEF InRing
<1> QED
  BY <1>1, <1>2

\* Different positions in one ring have different slots.
LEMMA RingApart ==
  ASSUME TypeOK, NEW s \in Streams, NEW p \in Nat, NEW q \in Nat, InRing(s, p), InRing(s, q), p # q
  PROVE  Slot(p) # Slot(q)
<1>1. read_cursor[s] \in Nat /\ SlotCount \in Nat
  BY PoolFacts DEF TypeOK
<1>2. p < q + SlotCount /\ q < p + SlotCount
  BY <1>1 DEF InRing
<1> QED
  BY <1>2, SlotsApart

\* Steps that leave rings, queue and submitted files alone.
LEMMA RingFrame ==
  ASSUME TypeOK, SeqInv, PlacesInv, AnswerInv,
         UNCHANGED <<read_cursor, seq, cell, tasks, cancelling, answer>>,
         \A s \in Streams : Issued(s)' = Issued(s),
         rpc' = "free" <=> rpc = "free", rpc = "free" => cur' = cur /\ taken' = taken,
         Carrying' = Carrying, \A w \in Carrying : task'[w] = task[w],
         \A w \in Workers : /\ wpc'[w] = "stamp" <=> wpc[w] = "stamp"
                            /\ wpc'[w] \in ResultPcs => status'[w] # None
  PROVE  SeqInv' /\ PlacesInv' /\ AnswerInv'
<1>1. Unanswered' = Unanswered
  BY DEF Unanswered, Tasks, SlotAwaits
<1>2. InCell' = InCell
  BY DEF InCell
<1>3. SeqInv'
  BY DEF SeqInv, Here
<1>4. PlacesInv'
  BY <1>1 DEF PlacesInv
<1>5. \A w \in Workers : wpc[w] = "stamp" => w \in Carrying
  BY DEF Carrying, CarryingPcs
<1>6. AnswerInv'
  <2>1. \A s \in Streams, p \in Positions : p < read_cursor'[s] => answer'[s][p] = None
    BY DEF AnswerInv
  <2>2. ASSUME NEW t \in Tasks, read_cursor'[t[1]] <= t[2], t[2] < Issued(t[1])',
               seq'[t[1]][Slot(t[2])] = t[2] + 1, ~(rpc' = "free" /\ t = <<cur', Here'>>)
        PROVE  t \in InCell'
    <3>1. t[1] \in Streams
      BY DEF Tasks
    <3> QED
      BY <1>2, <2>2, <3>1 DEF AnswerInv, Here
  <2>3. \A w \in Workers : /\ wpc'[w] = "stamp" => task'[w] \in InCell'
                           /\ wpc'[w] \in ResultPcs => status'[w] # None
    BY <1>2, <1>5 DEF AnswerInv
  <2>4. cancelling' # None => cancelling' \in InCell'
    BY <1>2 DEF AnswerInv
  <2>5. rpc' = "free" => taken' # None /\ taken' = answer'[cur'][Here']
    BY DEF AnswerInv, Here
  <2> QED
    BY <2>1, <2>2, <2>3, <2>4, <2>5 DEF AnswerInv
<1> QED
  BY <1>3, <1>4, <1>6

\* A file that can be taken has been submitted.
LEMMA ReadyIsIssued ==
  ASSUME TypeOK, SeqInv, Ready
  PROVE  /\ Here \in Nat /\ Here < Issued(cur) /\ InRing(cur, Here)
         /\ rpc \notin Handing => read_cursor[cur] < fetch_cursor[cur]
<1>1. cur \in Streams /\ Here \in Nat /\ SlotCount \in Nat /\ SlotCount > 0 /\ fetch_cursor[cur] \in Nat
  BY PoolFacts DEF Here, TypeOK
<1>2. read_cursor[cur] <= Here /\ Here < read_cursor[cur] + SlotCount
  BY <1>1 DEF Here
<1>3. seq[cur][Slot(Here)] # Here
  BY <1>1 DEF Ready
<1>4. ~(Here >= Issued(cur))
  BY <1>1, <1>2, <1>3 DEF SeqInv
<1>5. Issued(cur) \in Nat /\ (rpc \notin Handing => Issued(cur) = fetch_cursor[cur])
  BY <1>1 DEF Issued
<1> QED
  BY <1>1, <1>2, <1>4, <1>5 DEF InRing, Here

\* pump() and submit() keep the cursors within the ring.
LEMMA ReaderCursors ==
  ASSUME PoolInv, Reader
  PROVE  CursorInv'
<1>0. TypeOK /\ CursorInv /\ SeqInv
  BY DEF PoolInv
<1>t. /\ cur \in Streams /\ SlotCount \in Nat /\ NumFiles \in Nat /\ Depth \in Nat /\ Depth <= SlotCount
      /\ \A s \in Streams : fetch_cursor[s] \in Nat /\ read_cursor[s] \in Nat
      /\ fetch_cursor \in [Streams -> 0 .. NumFiles] /\ read_cursor \in [Streams -> 0 .. NumFiles]
  <2>1. /\ cur \in Streams
        /\ fetch_cursor \in [Streams -> 0 .. NumFiles] /\ read_cursor \in [Streams -> 0 .. NumFiles]
    BY <1>0 DEF TypeOK
  <2>2. SlotCount \in Nat /\ NumFiles \in Nat /\ Depth \in Nat /\ Depth <= SlotCount
    BY PoolFacts
  <2> QED
    BY <2>1, <2>2
<1>i. \A t \in Tasks : t[1] \in Streams /\ t[2] \in Nat
  BY PoolFacts DEF Tasks
<1>1. ASSUME UNCHANGED <<fetch_cursor, read_cursor, pushed>>, \A s \in Streams : Issued(s)' = Issued(s),
             rpc' \in {"test", "push", "count", "notify", "leave"} =>
                fetch_cursor[cur'] < NumFiles /\ Outstanding(cur') < SlotCount
      PROVE  CursorInv'
  <2>1. pushed' = {t \in Tasks : t[2] < Issued(t[1])'}
    BY <1>0, <1>1, <1>i DEF CursorInv
  <2> QED
    BY <1>0, <1>1, <2>1 DEF CursorInv, Outstanding
<1>2. CASE NextCall \/ TakeFile
  <2>1. /\ UNCHANGED <<fetch_cursor, read_cursor, pushed>> /\ rpc \in {"idle", "take"}
        /\ rpc' \in {"pump", "eof", "idle", "free"}
    BY <1>2 DEF NextCall, TakeFile, history
  <2>2. \A s \in Streams : Issued(s)' = Issued(s)
    BY <2>1 DEF Issued, Handing
  <2> QED
    BY <1>1, <2>1, <2>2
<1>3. CASE Pump
  <2>1. /\ UNCHANGED <<cur, fetch_cursor, read_cursor, pushed>> /\ rpc = "pump"
        /\ \/ rpc' = "test" /\ fetch_cursor[cur] < NumFiles /\ Outstanding(cur) < Depth
           \/ rpc' \in {"take", "idle"}
    BY <1>3 DEF Pump, Back, history
  <2>2. \A s \in Streams : Issued(s)' = Issued(s)
    BY <2>1 DEF Issued, Handing
  <2>3. Outstanding(cur) < Depth => Outstanding(cur) < SlotCount
    BY <1>t DEF Outstanding
  <2> QED
    BY <1>1, <2>1, <2>2, <2>3
<1>4. CASE SubmitTest \/ SubmitNotify \/ SubmitRefused \/ SubmitCount
  <2>1. /\ UNCHANGED <<cur, fetch_cursor, read_cursor, pushed>>
        /\ \/ rpc = "test" /\ rpc' \in {"refused", "push"}
           \/ rpc = "count" /\ rpc' = "notify"
           \/ rpc = "notify" /\ rpc' = "leave"
           \/ rpc = "refused" /\ rpc' \in {"take", "idle"}
    BY <1>4 DEF SubmitTest, SubmitNotify, SubmitRefused, SubmitCount, Back, history
  <2>2. \A s \in Streams : Issued(s)' = Issued(s)
    BY <2>1 DEF Issued, Handing
  <2>3. rpc' \in {"test", "push", "count", "notify", "leave"} =>
           fetch_cursor[cur'] < NumFiles /\ Outstanding(cur') < SlotCount
    BY <1>0, <2>1 DEF CursorInv
  <2> QED
    BY <1>1, <2>1, <2>2, <2>3
<1>5. CASE SubmitPush
  <2>1. rpc = "push" /\ UNCHANGED <<cur, fetch_cursor, read_cursor>>
    BY <1>5 DEF SubmitPush
  <2>2. fetch_cursor[cur] < NumFiles /\ Outstanding(cur) < SlotCount
    BY <1>0, <2>1 DEF CursorInv
  <2>3. CASE rpc' = "refused" /\ UNCHANGED pushed
    <3>1. \A s \in Streams : Issued(s)' = Issued(s)
      BY <2>1, <2>3 DEF Issued, Handing
    <3> QED
      BY <1>1, <2>1, <2>3, <3>1
  <2>4. CASE rpc' = "count" /\ pushed' = pushed \cup {<<cur, fetch_cursor[cur]>>}
    <3>1. /\ Issued(cur) = fetch_cursor[cur] /\ Issued(cur)' = fetch_cursor[cur] + 1
          /\ \A s \in Streams : s # cur => Issued(s)' = Issued(s)
      BY <1>t, <2>1, <2>4 DEF Issued, Handing
    <3>2. <<cur, fetch_cursor[cur]>> \in Tasks
      BY <1>t, <2>2 DEF Tasks, Positions
    <3>3. \A t \in Tasks : t[2] < Issued(t[1])' <=> t[2] < Issued(t[1]) \/ t = <<cur, fetch_cursor[cur]>>
      <4> SUFFICES ASSUME NEW t \in Tasks
                   PROVE  t[2] < Issued(t[1])' <=> t[2] < Issued(t[1]) \/ t = <<cur, fetch_cursor[cur]>>
        OBVIOUS
      <4>1. PICK s \in Streams, p \in Positions : t = <<s, p>>
        BY DEF Tasks
      <4>2. p \in Nat
        BY PoolFacts
      <4>3. CASE s # cur
        BY <3>1, <4>1, <4>3
      <4>4. CASE s = cur
        <5>1. t[1] = s /\ t[2] = p /\ (t = <<cur, fetch_cursor[cur]>> <=> p = fetch_cursor[s])
          BY <4>1, <4>4
        <5>2. Issued(s) = fetch_cursor[s] /\ Issued(s)' = fetch_cursor[s] + 1 /\ fetch_cursor[s] \in Nat
          BY <1>t, <2>1, <2>4, <4>4 DEF Issued, Handing
        <5> QED
          BY <4>2, <5>1, <5>2
      <4> QED
        BY <4>3, <4>4
    <3>4. pushed' = {t \in Tasks : t[2] < Issued(t[1])'}
      BY <1>0, <2>4, <3>2, <3>3 DEF CursorInv
    <3> QED
      BY <1>0, <2>1, <2>2, <3>4 DEF CursorInv, Outstanding
  <2> QED
    BY <1>5, <2>3, <2>4 DEF SubmitPush
<1>6. CASE SubmitLeave
  <2>1. /\ rpc = "leave" /\ rpc' = "pump" /\ UNCHANGED <<cur, read_cursor, pushed>>
        /\ fetch_cursor' = [fetch_cursor EXCEPT ![cur] = @ + 1]
    BY <1>6 DEF SubmitLeave, history
  <2>2. Outstanding(cur) < SlotCount
    BY <1>0, <2>1 DEF CursorInv
  <2>3. \A s \in Streams : Issued(s)' = Issued(s)
    BY <1>t, <2>1 DEF Issued, Handing
  <2>4. pushed' = {t \in Tasks : t[2] < Issued(t[1])'}
    BY <1>0, <1>i, <2>1, <2>3 DEF CursorInv
  <2>5. \A s \in Streams : read_cursor'[s] <= fetch_cursor'[s] /\ fetch_cursor'[s] - read_cursor'[s] <= SlotCount
    BY <1>0, <1>t, <2>1, <2>2 DEF CursorInv, Outstanding
  <2> QED
    BY <2>1, <2>4, <2>5 DEF CursorInv, Outstanding
<1>7. CASE FreeSlot
  <2>1. /\ rpc = "free" /\ rpc' = "pump" /\ UNCHANGED <<cur, fetch_cursor, pushed>>
        /\ read_cursor' = [read_cursor EXCEPT ![cur] = @ + 1]
    BY <1>7 DEF FreeSlot
  <2>2. read_cursor[cur] < fetch_cursor[cur]
    BY <1>0, <2>1, ReadyIsIssued DEF SeqInv, Ready, Handing
  <2>3. \A s \in Streams : Issued(s)' = Issued(s)
    BY <2>1 DEF Issued, Handing
  <2>4. pushed' = {t \in Tasks : t[2] < Issued(t[1])'}
    BY <1>0, <1>i, <2>1, <2>3 DEF CursorInv
  <2>5. \A s \in Streams : read_cursor'[s] <= fetch_cursor'[s] /\ fetch_cursor'[s] - read_cursor'[s] <= SlotCount
    BY <1>0, <1>t, <2>1, <2>2 DEF CursorInv, Outstanding
  <2> QED
    BY <2>1, <2>4, <2>5 DEF CursorInv, Outstanding
<1> QED
  BY <1>2, <1>3, <1>4, <1>5, <1>6, <1>7 DEF Reader

\* submit() puts a file in the queue whose slot awaits it.
LEMMA PushRing ==
  ASSUME PoolInv, rpc = "push", rpc' = "count", UNCHANGED <<cur, fetch_cursor, read_cursor>>,
         tasks' = Append(tasks, <<cur, fetch_cursor[cur]>>),
         UNCHANGED <<ringVars, taken, wpc, task, status, cancelling, answer>>
  PROVE  SeqInv' /\ PlacesInv' /\ AnswerInv'
<1> DEFINE t0 == <<cur, fetch_cursor[cur]>>
<1>0. TypeOK /\ CursorInv /\ SeqInv /\ PlacesInv /\ AnswerInv
  BY DEF PoolInv
<1>1. /\ cur \in Streams /\ fetch_cursor[cur] < NumFiles /\ Outstanding(cur) < SlotCount
      /\ fetch_cursor[cur] \in Nat /\ read_cursor[cur] \in Nat /\ SlotCount \in Nat
      /\ read_cursor[cur] <= fetch_cursor[cur] /\ NumFiles \in Nat
  BY <1>0, PoolFacts DEF CursorInv, TypeOK
<1>2. t0 \in Tasks
  BY <1>1 DEF Tasks, Positions
<1>3. \A s \in Streams : /\ s # cur => Issued(s)' = Issued(s)
                         /\ s = cur => Issued(s) = fetch_cursor[s] /\ Issued(s)' = fetch_cursor[s] + 1
  BY <1>1 DEF Issued, Handing
<1>4. seq[cur][Slot(fetch_cursor[cur])] = fetch_cursor[cur]
  <2>1. Issued(cur) = fetch_cursor[cur]
    BY <1>1, <1>3
  <2> QED
    BY <1>0, <1>1, <2>1 DEF SeqInv, Outstanding
<1>5. t0 \notin Unanswered
  BY <1>1, <1>3 DEF Unanswered
<1>6. Unanswered' = Unanswered \cup {t0}
  <2>1. ASSUME NEW t \in Tasks
        PROVE  t \in Unanswered' <=> t \in Unanswered \/ t = t0
    <3>1. PICK s \in Streams, p \in Positions : t = <<s, p>>
      BY DEF Tasks
    <3>2. p \in Nat /\ t[1] = s /\ t[2] = p
      BY <3>1, PoolFacts
    <3>3. CASE s # cur
      <4>1. Issued(s)' = Issued(s)
        BY <1>3, <3>3
      <4> QED
        BY <3>1, <3>2, <3>3, <4>1 DEF Unanswered, SlotAwaits, ringVars
    <3>4. CASE s = cur
      <4>1. Issued(s) = fetch_cursor[s] /\ Issued(s)' = fetch_cursor[s] + 1 /\ fetch_cursor[s] \in Nat
        BY <1>1, <1>3, <3>4
      <4>2. t = t0 <=> p = fetch_cursor[s]
        BY <3>1, <3>4
      <4>3. t \in Unanswered <=> read_cursor[s] <= p /\ p < fetch_cursor[s] /\ seq[s][Slot(p)] = p
        BY <3>2, <4>1 DEF Unanswered, SlotAwaits
      <4>4. t \in Unanswered' <=> read_cursor[s] <= p /\ p < fetch_cursor[s] + 1 /\ seq[s][Slot(p)] = p
        BY <3>2, <4>1 DEF Unanswered, SlotAwaits, ringVars
      <4> QED
        BY <1>1, <1>4, <3>2, <3>4, <4>1, <4>2, <4>3, <4>4
    <3> QED
      BY <3>3, <3>4
  <2> QED
    BY <1>2, <2>1 DEF Unanswered
<1>7. SeqInv'
  <2>1. ASSUME NEW s \in Streams, NEW p \in Nat, read_cursor[s] <= p, p < read_cursor[s] + SlotCount
        PROVE  seq[s][Slot(p)] \in {p, p + 1} /\ (p >= Issued(s)' => seq[s][Slot(p)] = p)
    <3>1. p >= Issued(s)' => p >= Issued(s)
      BY <1>1, <1>3
    <3> QED
      BY <1>0, <2>1, <3>1 DEF SeqInv
  <2> QED
    BY <2>1 DEF SeqInv, ringVars
<1>8. PlacesInv'
  <2>1. tasks \in Seq(Tasks) /\ Len(tasks) \in Nat
    BY <1>0 DEF TypeOK
  <2>a. Len(tasks') = Len(tasks) + 1
    BY <1>2, <2>1
  <2>b. tasks'[Len(tasks) + 1] = t0
    BY <1>2, <2>1
  <2>c. \A i \in 1 .. Len(tasks) : tasks'[i] = tasks[i]
    BY <1>2, <2>1
  <2>d. \A i \in 1 .. Len(tasks) : tasks[i] # t0
    BY <1>0, <1>5 DEF PlacesInv
  <2>e. \A i \in 1 .. Len(tasks') : i \in 1 .. Len(tasks) \/ i = Len(tasks) + 1
    BY <2>1, <2>a
  <2>2. /\ Len(tasks') = Len(tasks) + 1 /\ tasks'[Len(tasks) + 1] = t0
        /\ \A i \in 1 .. Len(tasks) : tasks'[i] = tasks[i] /\ tasks[i] # t0
        /\ \A i \in 1 .. Len(tasks') : i \in 1 .. Len(tasks) \/ i = Len(tasks) + 1
    BY <2>a, <2>b, <2>c, <2>d, <2>e
  <2>3. \A i, j \in 1 .. Len(tasks') : i # j => tasks'[i] # tasks'[j]
    BY <1>0, <2>2 DEF PlacesInv
  <2>4. Carrying' = Carrying /\ task' = task
    BY DEF Carrying
  <2>5. cancelling # t0
    BY <1>0, <1>2, <1>5, PoolFacts DEF PlacesInv
  <2>6. \A t \in Unanswered' : \/ \E i \in 1 .. Len(tasks') : tasks'[i] = t
                               \/ \E w \in Carrying' : task'[w] = t
                               \/ cancelling' = t
    BY <1>0, <1>6, <2>1, <2>2, <2>4 DEF PlacesInv
  <2>7. \A i \in 1 .. Len(tasks') : tasks'[i] \in Unanswered'
    <3>1. \A i \in 1 .. Len(tasks) : tasks[i] \in Unanswered
      BY <1>0 DEF PlacesInv
    <3> QED
      BY <1>6, <2>2, <3>1
  <2>8. /\ \A w \in Carrying' : task'[w] \in Unanswered'
        /\ cancelling' # None => cancelling' \in Unanswered'
    BY <1>0, <1>6, <2>4 DEF PlacesInv
  <2>9. \A w \in Carrying', i \in 1 .. Len(tasks') : tasks'[i] # task'[w]
    <3>1. \A w \in Carrying, i \in 1 .. Len(tasks) : tasks[i] # task[w]
      BY <1>0 DEF PlacesInv
    <3>2. \A w \in Carrying : task[w] # t0
      BY <1>0, <1>5 DEF PlacesInv
    <3> QED
      BY <2>2, <2>4, <3>1, <3>2
  <2>10. \A v, w \in Carrying' : v # w => task'[v] # task'[w]
    BY <1>0, <2>4 DEF PlacesInv
  <2>11. \A i \in 1 .. Len(tasks') : tasks'[i] # cancelling'
    <3>1. \A i \in 1 .. Len(tasks) : tasks[i] # cancelling
      BY <1>0 DEF PlacesInv
    <3> QED
      BY <2>2, <2>5, <3>1
  <2> QED
    BY <2>3, <2>6, <2>7, <2>8, <2>9, <2>10, <2>11 DEF PlacesInv
<1>9. AnswerInv'
  <2>1. InCell' = InCell
    BY DEF InCell, ringVars
  <2>2. ASSUME NEW t \in Tasks, read_cursor'[t[1]] <= t[2], t[2] < Issued(t[1])',
               seq'[t[1]][Slot(t[2])] = t[2] + 1
        PROVE  t \in InCell
    <3>1. PICK s \in Streams, p \in Positions : t = <<s, p>>
      BY DEF Tasks
    <3>2. p \in Nat /\ t[1] = s /\ t[2] = p
      BY <3>1, PoolFacts
    <3>3. p < Issued(s)
      BY <1>1, <1>3, <1>4, <2>2, <3>2 DEF ringVars
    <3> QED
      BY <1>0, <2>2, <3>2, <3>3 DEF AnswerInv, ringVars
  <2> QED
    BY <1>0, <2>1, <2>2 DEF AnswerInv
<1> QED
  BY <1>7, <1>8, <1>9

\* load_next_file() moves the file out of its cell.
LEMMA TakeRing ==
  ASSUME PoolInv, rpc = "take", rpc' = "free", Ready, taken' = cell[cur][Slot(Here)],
         cell' = [cell EXCEPT ![cur][Slot(Here)] = None],
         UNCHANGED <<cur, fetch_cursor, read_cursor, seq, tasks, workerVars, cancelling, answer>>
  PROVE  SeqInv' /\ PlacesInv' /\ AnswerInv'
<1> DEFINE t0 == <<cur, Here>>
<1>0. /\ TypeOK /\ CursorInv /\ SeqInv /\ PlacesInv /\ AnswerInv /\ cur \in Streams
      /\ cell \in [Streams -> [Slots -> Statuses \cup {None}]]
  BY DEF PoolInv, TypeOK
<1>1. Here \in Nat /\ Here < Issued(cur) /\ InRing(cur, Here) /\ Here' = Here /\ Here < NumFiles
  <2>1. Here \in Nat /\ Here < Issued(cur) /\ InRing(cur, Here) /\ read_cursor[cur] < fetch_cursor[cur]
    BY <1>0, ReadyIsIssued DEF Handing
  <2>2. fetch_cursor[cur] \in 0 .. NumFiles /\ NumFiles \in Nat
    BY <1>0, PoolFacts DEF TypeOK
  <2> QED
    BY <2>1, <2>2 DEF Here
<1>2. t0 \in Tasks /\ t0[1] = cur /\ t0[2] = Here
  BY <1>0, <1>1, PoolFacts DEF Tasks, Positions
<1>3. t0 \in InCell
  BY <1>0, <1>1, <1>2 DEF AnswerInv, Ready, InRing
<1>4. \A s \in Streams : Issued(s)' = Issued(s)
  BY DEF Issued, Handing
<1>5. Unanswered' = Unanswered
  BY <1>4 DEF Unanswered, Tasks, SlotAwaits
<1>6. SeqInv'
  <2>1. seq'[cur'][Slot(Here')] = Here' + 1
    BY <1>1 DEF Ready
  <2> QED
    BY <1>0, <1>4, <2>1 DEF SeqInv
<1>7. PlacesInv'
  <2>1. Carrying' = Carrying /\ task' = task
    BY DEF Carrying, workerVars
  <2> QED
    BY <1>0, <1>5, <2>1 DEF PlacesInv
<1>8. ASSUME NEW t \in Tasks, InRing(t[1], t[2]), t # t0
      PROVE  t \in InCell' <=> t \in InCell
  <2>1. PICK s \in Streams, p \in Positions : t = <<s, p>>
    BY DEF Tasks
  <2>2. p \in Nat /\ t[1] = s /\ t[2] = p /\ Slot(p) \in Slots
    BY <2>1, PoolFacts
  <2>3. s = cur => Slot(p) # Slot(Here)
    BY <1>0, <1>1, <1>8, <2>1, <2>2, RingApart
  <2>4. cell'[s][Slot(p)] = cell[s][Slot(p)]
    BY <1>0, <2>2, <2>3
  <2> QED
    BY <2>2, <2>4 DEF InCell
<1>9. \A t \in Unanswered : t \in Tasks /\ InRing(t[1], t[2]) /\ t # t0
  BY <1>0, <1>1, <1>2, IssuedInRing DEF SlotAwaits, Ready
<1>10. AnswerInv'
  <2>1. ASSUME NEW t \in Tasks, read_cursor'[t[1]] <= t[2], t[2] < Issued(t[1])',
               seq'[t[1]][Slot(t[2])] = t[2] + 1, t # t0
        PROVE  t \in InCell'
    <3>1. t[1] \in Streams /\ t[2] \in Nat
      BY PoolFacts DEF Tasks
    <3>2. t[2] < Issued(t[1])
      BY <1>4, <2>1, <3>1
    <3>3. InRing(t[1], t[2])
      <4>1. Issued(t[1]) \in Nat /\ read_cursor[t[1]] \in Nat /\ Issued(t[1]) <= read_cursor[t[1]] + SlotCount
        BY <1>0, <3>1, IssuedInRing
      <4> QED
        BY <2>1, <3>1, <3>2, <4>1, PoolFacts DEF InRing
    <3> QED
      BY <1>0, <1>8, <2>1, <3>2, <3>3 DEF AnswerInv
  <2>2. \A w \in Workers : wpc[w] = "stamp" => task[w] \in InCell'
    <3>1. \A w \in Workers : wpc[w] = "stamp" => task[w] \in Unanswered /\ task[w] \in InCell
      BY <1>0 DEF AnswerInv, PlacesInv, Carrying, CarryingPcs
    <3> QED
      BY <1>8, <1>9, <3>1
  <2>3. cancelling # None => cancelling \in InCell'
    <3>1. cancelling # None => cancelling \in Unanswered /\ cancelling \in InCell
      BY <1>0 DEF AnswerInv, PlacesInv
    <3> QED
      BY <1>8, <1>9, <3>1
  <2>4. taken' # None /\ taken' = answer'[cur'][Here']
    BY <1>1, <1>2, <1>3 DEF InCell
  <2>5. \A w \in Workers : wpc[w] \in ResultPcs => status[w] # None
    BY <1>0 DEF AnswerInv
  <2>6. \A s \in Streams, p \in Positions : p < read_cursor'[s] => answer'[s][p] = None
    BY <1>0 DEF AnswerInv
  <2>7. t0 = <<cur', Here'>>
    BY <1>1
  <2> HIDE DEF t0
  <2> QED
    BY <2>1, <2>2, <2>3, <2>4, <2>5, <2>6, <2>7 DEF AnswerInv, workerVars
<1> QED
  BY <1>6, <1>7, <1>10

\* The slot is given to the position a lap later.
LEMMA FreeRing ==
  ASSUME PoolInv, FreeSlot
  PROVE  SeqInv' /\ PlacesInv' /\ AnswerInv'
<1> DEFINE t0 == <<cur, Here>>
<1>0. /\ TypeOK /\ CursorInv /\ SeqInv /\ PlacesInv /\ AnswerInv /\ cur \in Streams
      /\ seq \in [Streams -> [Slots -> Nat]] /\ read_cursor \in [Streams -> 0 .. NumFiles]
      /\ answer \in [Streams -> [Positions -> Statuses \cup {None}]]
  BY DEF PoolInv, TypeOK, Answers
<1>f. /\ rpc = "free" /\ rpc' = "pump" /\ seq' = [seq EXCEPT ![cur][Slot(Here)] = Here + SlotCount]
      /\ read_cursor' = [read_cursor EXCEPT ![cur] = @ + 1]
      /\ answer' = [answer EXCEPT ![cur][Here] = None]
      /\ UNCHANGED <<cur, fetch_cursor, cell, tasks, workerVars, cancelling>>
  BY DEF FreeSlot, quiesceVars
<1>1. /\ Here \in Nat /\ Here < Issued(cur) /\ InRing(cur, Here) /\ Here < NumFiles /\ Ready
      /\ SlotCount \in Nat /\ SlotCount > 0 /\ Slot(Here) \in Slots
  <2>0. Ready
    BY <1>0, <1>f DEF SeqInv, Ready
  <2>1. Here \in Nat /\ Here < Issued(cur) /\ InRing(cur, Here) /\ read_cursor[cur] < fetch_cursor[cur]
    BY <1>0, <1>f, <2>0, ReadyIsIssued DEF Handing
  <2>2. fetch_cursor[cur] \in 0 .. NumFiles /\ NumFiles \in Nat
    BY <1>0, PoolFacts DEF TypeOK
  <2> QED
    BY <2>0, <2>1, <2>2, PoolFacts DEF Here
<1>2. t0 \in Tasks /\ t0[1] = cur /\ t0[2] = Here
  BY <1>0, <1>1, PoolFacts DEF Tasks, Positions
<1>3. \A s \in Streams : Issued(s)' = Issued(s)
  BY <1>f DEF Issued, Handing
<1>4. \A s \in Streams : /\ s # cur => read_cursor'[s] = read_cursor[s] /\ seq'[s] = seq[s]
                         /\ s = cur => read_cursor'[s] = Here + 1 /\ read_cursor[s] = Here
  BY <1>0, <1>f DEF Here
<1>5. ASSUME NEW s \in Streams, NEW p \in Nat, InRing(s, p), s # cur \/ p # Here
      PROVE  seq'[s][Slot(p)] = seq[s][Slot(p)]
  <2>1. Slot(p) \in Slots
    BY PoolFacts
  <2>2. s = cur => Slot(p) # Slot(Here)
    BY <1>0, <1>1, <1>5, RingApart
  <2> QED
    BY <1>0, <1>f, <2>1, <2>2
<1>6. SeqInv'
  <2>1. ASSUME NEW s \in Streams, NEW p \in Nat, read_cursor'[s] <= p, p < read_cursor'[s] + SlotCount
        PROVE  seq'[s][Slot(p)] \in {p, p + 1} /\ (p >= Issued(s) => seq'[s][Slot(p)] = p)
    <3>1. CASE InRing(s, p)
      <4>1. s # cur \/ p # Here
        BY <1>1, <1>4, <2>1
      <4> QED
        BY <1>0, <1>5, <3>1, <4>1 DEF SeqInv, InRing
    <3>2. CASE ~InRing(s, p)
      <4>a. s = cur
        BY <1>4, <2>1, <3>2 DEF InRing
      <4>b. read_cursor'[s] = Here + 1 /\ read_cursor[s] = Here
        BY <1>4, <4>a
      <4>c. ~(Here <= p /\ p < Here + SlotCount) /\ Here + 1 <= p /\ p < Here + 1 + SlotCount
        BY <2>1, <3>2, <4>b DEF InRing
      <4>1. s = cur /\ p = Here + SlotCount
        BY <1>1, <4>a, <4>c
      <4>2. Slot(p) = Slot(Here)
        BY <1>1, <4>1, ModLap DEF Slot
      <4>3. seq'[s][Slot(p)] = p
        BY <1>0, <1>f, <1>1, <4>1, <4>2
      <4> QED
        BY <4>3
    <3> QED
      BY <3>1, <3>2
  <2> QED
    BY <1>3, <1>f, <2>1 DEF SeqInv
<1>7. Unanswered' = Unanswered
  <2>1. ASSUME NEW t \in Tasks
        PROVE  t \in Unanswered' <=> t \in Unanswered
    <3>1. PICK s \in Streams, p \in Positions : t = <<s, p>>
      BY DEF Tasks
    <3>2. p \in Nat /\ t[1] = s /\ t[2] = p
      BY <3>1, PoolFacts
    <3>3. t \in Unanswered' <=> read_cursor'[s] <= p /\ p < Issued(s) /\ seq'[s][Slot(p)] = p
      BY <1>3, <3>2 DEF Unanswered, SlotAwaits
    <3>4. t \in Unanswered <=> read_cursor[s] <= p /\ p < Issued(s) /\ seq[s][Slot(p)] = p
      BY <3>2 DEF Unanswered, SlotAwaits
    <3>5. read_cursor[s] <= p /\ p < Issued(s) => InRing(s, p)
      BY <1>0, <1>1, <3>2, IssuedInRing DEF InRing
    <3>6. CASE s # cur \/ p # Here
      <4>1. read_cursor'[s] <= p <=> read_cursor[s] <= p
        <5>1. CASE s # cur
          BY <1>4, <5>1
        <5>2. CASE s = cur
          BY <1>1, <1>4, <3>2, <3>6, <5>2
        <5> QED
          BY <5>1, <5>2
      <4> QED
        BY <1>5, <3>2, <3>3, <3>4, <3>5, <3>6, <4>1
    <3>7. CASE s = cur /\ p = Here
      <4>1. ~(read_cursor'[s] <= p)
        BY <1>1, <1>4, <3>7
      <4>2. seq[s][Slot(p)] # p
        BY <1>1, <3>7 DEF Ready
      <4> QED
        BY <3>3, <3>4, <4>1, <4>2
    <3> QED
      BY <3>6, <3>7
  <2> QED
    BY <2>1 DEF Unanswered
<1>8. PlacesInv'
  <2>1. Carrying' = Carrying /\ task' = task
    BY <1>f DEF Carrying, workerVars
  <2> QED
    BY <1>0, <1>f, <1>7, <2>1 DEF PlacesInv
<1>9. \A t \in Tasks : t # t0 => /\ t \in InCell' <=> t \in InCell
                                 /\ answer'[t[1]][t[2]] = answer[t[1]][t[2]]
  <2> SUFFICES ASSUME NEW t \in Tasks, t # t0
               PROVE  /\ t \in InCell' <=> t \in InCell
                      /\ answer'[t[1]][t[2]] = answer[t[1]][t[2]]
    OBVIOUS
  <2>1. PICK s \in Streams, p \in Positions : t = <<s, p>>
    BY DEF Tasks
  <2>2. t[1] = s /\ t[2] = p /\ (s # cur \/ p # Here)
    BY <2>1
  <2>3. answer'[s][p] = answer[s][p]
    BY <1>0, <1>f, <2>2
  <2> QED
    BY <1>f, <2>2, <2>3 DEF InCell
<1>10. AnswerInv'
  <2>1. ASSUME NEW s \in Streams, NEW p \in Positions, p < read_cursor'[s]
        PROVE  answer'[s][p] = None
    <3>1. <<s, p>> \in Tasks /\ p \in Nat
      BY PoolFacts DEF Tasks
    <3>2. CASE s = cur /\ p = Here
      BY <1>0, <1>f, <3>2
    <3>3. CASE s # cur \/ p # Here
      <4>1. answer'[s][p] = answer[s][p]
        BY <1>0, <1>f, <3>3
      <4>2. p < read_cursor[s]
        <5>1. CASE s # cur
          BY <1>4, <2>1, <5>1
        <5>2. CASE s = cur
          BY <1>1, <1>4, <2>1, <3>1, <3>3, <5>2
        <5> QED
          BY <5>1, <5>2
      <4> QED
        BY <1>0, <4>1, <4>2 DEF AnswerInv
    <3> QED
      BY <3>2, <3>3
  <2>2. ASSUME NEW t \in Tasks, read_cursor'[t[1]] <= t[2], t[2] < Issued(t[1])',
               seq'[t[1]][Slot(t[2])] = t[2] + 1
        PROVE  t \in InCell'
    <3>1. PICK s \in Streams, p \in Positions : t = <<s, p>>
      BY DEF Tasks
    <3>2. p \in Nat /\ t[1] = s /\ t[2] = p
      BY <3>1, PoolFacts
    <3>3. p < Issued(s) /\ read_cursor'[s] <= p
      BY <1>3, <2>2, <3>2
    <3>4. s # cur \/ p # Here
      BY <1>1, <1>4, <3>2, <3>3
    <3>5. read_cursor[s] <= p
      BY <1>0, <1>1, <1>4, <3>2, <3>3
    <3>6. InRing(s, p)
      BY <1>0, <1>1, <3>2, <3>3, <3>5, IssuedInRing DEF InRing
    <3>7. seq[s][Slot(p)] = p + 1
      BY <1>5, <2>2, <3>2, <3>4, <3>6
    <3>8. t # t0
      BY <3>1, <3>4
    <3>9. t \in InCell
      BY <1>0, <3>2, <3>3, <3>5, <3>7, <3>8 DEF AnswerInv
    <3> QED
      BY <1>9, <3>8, <3>9
  <2>3. \A t \in Unanswered : t \in Tasks /\ t # t0
    BY <1>0, <1>1, <1>2, IssuedInRing DEF SlotAwaits, Ready
  <2>4. \A w \in Workers : wpc[w] = "stamp" => task[w] \in InCell'
    <3>1. \A w \in Workers : wpc[w] = "stamp" => task[w] \in Unanswered /\ task[w] \in InCell
      BY <1>0 DEF AnswerInv, PlacesInv, Carrying, CarryingPcs
    <3> QED
      BY <1>9, <2>3, <3>1
  <2>5. cancelling # None => cancelling \in InCell'
    <3>1. cancelling # None => cancelling \in Unanswered /\ cancelling \in InCell
      BY <1>0 DEF AnswerInv, PlacesInv
    <3> QED
      BY <1>9, <2>3, <3>1
  <2>6. \A w \in Workers : wpc[w] \in ResultPcs => status[w] # None
    BY <1>0 DEF AnswerInv
  <2> QED
    BY <1>f, <2>1, <2>2, <2>4, <2>5, <2>6 DEF AnswerInv, workerVars
<1> QED
  BY <1>6, <1>8, <1>10

LEMMA ReaderRing ==
  ASSUME PoolInv, Reader
  PROVE  SeqInv' /\ PlacesInv' /\ AnswerInv'
<1>0. TypeOK /\ CursorInv /\ SeqInv /\ PlacesInv /\ AnswerInv /\ fetch_cursor \in [Streams -> 0 .. NumFiles]
  BY DEF PoolInv, TypeOK
<1>w. UNCHANGED <<wpc, task, status, cancelling>>
  BY DEF Reader, NextCall, Pump, SubmitTest, SubmitPush, SubmitCount, SubmitNotify, SubmitLeave,
     SubmitRefused, TakeFile, FreeSlot, workerVars, quiesceVars
<1>c. Carrying' = Carrying
  BY <1>w DEF Carrying
<1>s. \A w \in Workers : wpc[w] \in ResultPcs => status[w] # None
  BY <1>0 DEF AnswerInv
<1>1. ASSUME UNCHANGED <<read_cursor, seq, cell, tasks, answer>>, \A s \in Streams : Issued(s)' = Issued(s),
             rpc # "free", rpc' # "free"
      PROVE  SeqInv' /\ PlacesInv' /\ AnswerInv'
  BY <1>0, <1>w, <1>c, <1>s, <1>1, RingFrame
<1>2. CASE NextCall
  <2>1. rpc' \notin Handing /\ rpc \notin Handing /\ rpc # "free" /\ rpc' # "free"
    BY <1>2 DEF NextCall, Handing
  <2>2. \A s \in Streams : Issued(s)' = Issued(s)
    BY <1>2, <2>1 DEF NextCall, Issued
  <2> QED
    BY <1>1, <1>2, <2>1, <2>2 DEF NextCall, ringVars, history
<1>3. CASE Pump \/ SubmitTest \/ SubmitCount \/ SubmitNotify \/ SubmitRefused
  <2>1. UNCHANGED <<cur, fetch_cursor, read_cursor, seq, cell, tasks, answer>>
    BY <1>3 DEF Pump, SubmitTest, SubmitCount, SubmitNotify, SubmitRefused, ringVars, history
  <2>2. rpc # "free" /\ rpc' # "free" /\ (rpc' \in Handing <=> rpc \in Handing)
    BY <1>3 DEF Pump, SubmitTest, SubmitCount, SubmitNotify, SubmitRefused, Back, Handing
  <2>3. \A s \in Streams : Issued(s)' = Issued(s)
    BY <2>1, <2>2 DEF Issued
  <2> QED
    BY <1>1, <2>1, <2>2, <2>3
<1>4. CASE SubmitPush
  <2>1. CASE rpc' = "count" /\ tasks' = Append(tasks, <<cur, fetch_cursor[cur]>>)
    <3>1. /\ rpc = "push" /\ UNCHANGED <<cur, fetch_cursor, read_cursor>>
          /\ UNCHANGED <<ringVars, taken, wpc, task, status, cancelling, answer>>
      BY <1>4, <1>w DEF SubmitPush
    <3> QED
      BY <2>1, <3>1, PushRing
  <2>2. CASE rpc' = "refused" /\ UNCHANGED tasks
    <3>1. /\ rpc = "push" /\ UNCHANGED <<cur, fetch_cursor, read_cursor, seq, cell, answer>>
      BY <1>4 DEF SubmitPush, ringVars
    <3>2. \A s \in Streams : Issued(s)' = Issued(s)
      BY <2>2, <3>1 DEF Issued, Handing
    <3> QED
      BY <1>1, <2>2, <3>1, <3>2
  <2> QED
    BY <1>4, <2>1, <2>2 DEF SubmitPush
<1>5. CASE SubmitLeave
  <2>1. /\ rpc = "leave" /\ rpc' = "pump" /\ cur' = cur /\ fetch_cursor' = [fetch_cursor EXCEPT ![cur] = @ + 1]
        /\ UNCHANGED <<read_cursor, seq, cell, tasks, answer>>
    BY <1>5 DEF SubmitLeave, ringVars, history
  <2>2. \A s \in Streams : Issued(s)' = Issued(s)
    <3> SUFFICES ASSUME NEW s \in Streams PROVE Issued(s)' = Issued(s)
      OBVIOUS
    <3>1. fetch_cursor[s] \in Nat /\ fetch_cursor'[s] = IF cur = s THEN fetch_cursor[s] + 1 ELSE fetch_cursor[s]
      BY <1>0, <2>1, PoolFacts
    <3> QED
      BY <2>1, <3>1 DEF Issued, Handing
  <2> QED
    BY <1>1, <2>1, <2>2
<1>6. CASE TakeFile
  <2>1. CASE Ready
    <3>1. /\ rpc = "take" /\ rpc' = "free" /\ taken' = cell[cur][Slot(Here)]
          /\ cell' = [cell EXCEPT ![cur][Slot(Here)] = None]
          /\ UNCHANGED <<cur, fetch_cursor, read_cursor, seq, tasks, workerVars, cancelling, answer>>
      BY <1>6, <2>1 DEF TakeFile, quiesceVars, history
    <3> QED
      BY <2>1, <3>1, TakeRing
  <2>2. CASE ~Ready
    <3>1. /\ rpc = "take" /\ rpc' = "idle"
          /\ UNCHANGED <<cur, fetch_cursor, read_cursor, seq, cell, tasks, answer>>
      BY <1>6, <2>2 DEF TakeFile, history
    <3>2. \A s \in Streams : Issued(s)' = Issued(s)
      BY <3>1 DEF Issued, Handing
    <3> QED
      BY <1>1, <3>1, <3>2
  <2> QED
    BY <2>1, <2>2
<1>7. CASE FreeSlot
  BY <1>7, FreeRing
<1> QED
  BY <1>2, <1>3, <1>4, <1>5, <1>6, <1>7 DEF Reader

\* place() constructs a result in a slot that awaits it.
LEMMA ConstructRing ==
  ASSUME PoolInv, NEW t \in Unanswered, NEW st \in Statuses, Construct(t, st),
         UNCHANGED <<rpc, cur, fetch_cursor, read_cursor, taken, seq>>
  PROVE  /\ SeqInv' /\ Unanswered' = Unanswered /\ t \in InCell'
         /\ \A u \in Unanswered : u \in InCell => u \in InCell'
         /\ \A s \in Streams, p \in Positions : p < read_cursor'[s] => answer'[s][p] = None
         /\ \A u \in Tasks :
              (/\ read_cursor'[u[1]] <= u[2] /\ u[2] < Issued(u[1])'
               /\ seq'[u[1]][Slot(u[2])] = u[2] + 1
               /\ ~(rpc' = "free" /\ u = <<cur', Here'>>)) => u \in InCell'
         /\ rpc' = "free" => taken' # None /\ taken' = answer'[cur'][Here']
<1>0. /\ TypeOK /\ CursorInv /\ SeqInv /\ PlacesInv /\ AnswerInv /\ cur \in Streams
      /\ cell \in [Streams -> [Slots -> Statuses \cup {None}]]
      /\ answer \in [Streams -> [Positions -> Statuses \cup {None}]]
  BY DEF PoolInv, TypeOK, Answers
<1>1. PICK s0 \in Streams, p0 \in Positions : t = <<s0, p0>>
  BY DEF Unanswered, Tasks
<1>2. /\ t[1] = s0 /\ t[2] = p0 /\ p0 \in Nat /\ InRing(s0, p0) /\ p0 < Issued(s0) /\ t \in Tasks
      /\ seq[s0][Slot(p0)] = p0 /\ Slot(p0) \in Slots /\ st # None
  BY <1>0, <1>1, IssuedInRing, PoolFacts DEF SlotAwaits
<1>3. /\ cell' = [cell EXCEPT ![s0][Slot(p0)] = st]
      /\ answer' = [answer EXCEPT ![s0][p0] = st]
  BY <1>2 DEF Construct
<1>4. \A s \in Streams : Issued(s)' = Issued(s)
  BY DEF Issued
<1>5. Unanswered' = Unanswered
  BY <1>4 DEF Unanswered, Tasks, SlotAwaits
<1>6. SeqInv'
  BY <1>0, <1>4 DEF SeqInv, Here
<1>7. t \in InCell'
  BY <1>0, <1>2, <1>3 DEF InCell
<1>8. ASSUME NEW u \in Tasks, u # t
      PROVE  answer'[u[1]][u[2]] = answer[u[1]][u[2]]
  <2>1. u[1] \in Streams /\ u[2] \in Positions /\ u = <<u[1], u[2]>>
    BY DEF Tasks
  <2>2. u[1] # s0 \/ u[2] # p0
    BY <1>1, <1>8, <2>1
  <2> QED
    BY <1>0, <1>3, <2>1, <2>2
<1>9. ASSUME NEW u \in Tasks, u # t, InRing(u[1], u[2]), u \in InCell
      PROVE  u \in InCell'
  <2>a. u[1] \in Streams /\ u[2] \in Positions /\ u = <<u[1], u[2]>>
    BY DEF Tasks
  <2>1. u[1] \in Streams /\ u[2] \in Nat /\ u = <<u[1], u[2]>> /\ Slot(u[2]) \in Slots
    BY <2>a, PoolFacts
  <2>2. u[1] # s0 \/ u[2] # p0
    BY <1>1, <1>9, <2>1
  <2>3. u[1] = s0 => Slot(u[2]) # Slot(p0)
    BY <1>0, <1>2, <1>9, <2>1, <2>2, RingApart
  <2>4. cell'[u[1]][Slot(u[2])] = cell[u[1]][Slot(u[2])]
    BY <1>0, <1>3, <2>1, <2>3
  <2> QED
    BY <1>8, <1>9, <2>4 DEF InCell
<1>10. \A u \in Unanswered : u \in InCell => u \in InCell'
  BY <1>0, <1>7, <1>9, IssuedInRing
<1>11. ASSUME NEW s \in Streams, NEW p \in Positions, p < read_cursor'[s]
       PROVE  answer'[s][p] = None
  <2>1. <<s, p>> \in Tasks /\ p \in Nat /\ read_cursor[s] \in Nat
    BY <1>0, PoolFacts, IssuedInRing DEF Tasks
  <2>2. <<s, p>> # t
    BY <1>1, <1>2, <1>11, <2>1 DEF InRing
  <2>3. answer'[s][p] = answer[s][p]
    BY <1>8, <2>1, <2>2
  <2> QED
    BY <1>0, <1>11, <2>3 DEF AnswerInv
<1>12. ASSUME NEW u \in Tasks, read_cursor'[u[1]] <= u[2], u[2] < Issued(u[1])',
              seq'[u[1]][Slot(u[2])] = u[2] + 1, ~(rpc' = "free" /\ u = <<cur', Here'>>)
       PROVE  u \in InCell'
  <2>1. u[1] \in Streams /\ u[2] \in Nat
    BY PoolFacts DEF Tasks
  <2>2. u[2] < Issued(u[1]) /\ read_cursor[u[1]] <= u[2] /\ seq[u[1]][Slot(u[2])] = u[2] + 1
    BY <1>4, <1>12, <2>1
  <2>3. u # t
    BY <1>2, <2>2
  <2>4. u \in InCell
    BY <1>0, <1>12, <2>2 DEF AnswerInv, Here
  <2>5. InRing(u[1], u[2])
    BY <1>0, <2>1, <2>2, IssuedInRing, PoolFacts DEF InRing
  <2> QED
    BY <1>9, <2>3, <2>4, <2>5
<1>13. ASSUME rpc = "free" PROVE taken' # None /\ taken' = answer'[cur'][Here']
  <2>1. Here \in Nat /\ seq[cur][Slot(Here)] = Here + 1 /\ Here' = Here /\ Here < NumFiles
    <3>0. Ready
      BY <1>0, <1>13 DEF SeqInv, Ready
    <3>1. Here \in Nat /\ read_cursor[cur] < fetch_cursor[cur]
      BY <1>0, <1>13, <3>0, ReadyIsIssued DEF Handing
    <3>2. fetch_cursor[cur] \in 0 .. NumFiles /\ NumFiles \in Nat
      BY <1>0, PoolFacts DEF TypeOK
    <3> QED
      BY <3>0, <3>1, <3>2 DEF Here, Ready
  <2>2. <<cur, Here>> \in Tasks /\ <<cur, Here>> # t
    BY <1>0, <1>1, <1>2, <2>1, PoolFacts DEF Tasks, Positions
  <2>3. answer'[cur][Here] = answer[cur][Here]
    BY <1>8, <2>2
  <2> QED
    BY <1>0, <1>13, <2>1, <2>3 DEF AnswerInv
<1> QED
  BY <1>5, <1>6, <1>7, <1>10, <1>11, <1>12, <1>13

\* place() stamps the slot it has filled.
LEMMA StampRing ==
  ASSUME PoolInv, NEW t \in Unanswered, t \in InCell, Stamp(t),
         UNCHANGED <<rpc, cur, fetch_cursor, read_cursor, taken, cell, answer>>
  PROVE  /\ SeqInv' /\ Unanswered' = Unanswered \ {t} /\ InCell' = InCell
         /\ \A s \in Streams, p \in Positions : p < read_cursor'[s] => answer'[s][p] = None
         /\ \A u \in Tasks :
              (/\ read_cursor'[u[1]] <= u[2] /\ u[2] < Issued(u[1])'
               /\ seq'[u[1]][Slot(u[2])] = u[2] + 1
               /\ ~(rpc' = "free" /\ u = <<cur', Here'>>)) => u \in InCell'
         /\ rpc' = "free" => taken' # None /\ taken' = answer'[cur'][Here']
<1>0. /\ TypeOK /\ CursorInv /\ SeqInv /\ PlacesInv /\ AnswerInv /\ cur \in Streams
      /\ seq \in [Streams -> [Slots -> Nat]]
  BY DEF PoolInv, TypeOK
<1>1. PICK s0 \in Streams, p0 \in Positions : t = <<s0, p0>>
  BY DEF Unanswered, Tasks
<1>2. /\ t[1] = s0 /\ t[2] = p0 /\ p0 \in Nat /\ InRing(s0, p0) /\ p0 < Issued(s0) /\ t \in Tasks
      /\ seq[s0][Slot(p0)] = p0 /\ Slot(p0) \in Slots
  BY <1>0, <1>1, IssuedInRing, PoolFacts DEF SlotAwaits
<1>3. seq' = [seq EXCEPT ![s0][Slot(p0)] = p0 + 1]
  BY <1>2 DEF Stamp
<1>4. \A s \in Streams : Issued(s)' = Issued(s)
  BY DEF Issued
<1>5. InCell' = InCell
  BY DEF InCell
<1>6. ASSUME NEW s \in Streams, NEW p \in Nat, InRing(s, p), s # s0 \/ p # p0
      PROVE  seq'[s][Slot(p)] = seq[s][Slot(p)]
  <2>1. Slot(p) \in Slots
    BY PoolFacts
  <2>2. s = s0 => Slot(p) # Slot(p0)
    BY <1>0, <1>2, <1>6, RingApart
  <2> QED
    BY <1>0, <1>3, <2>1, <2>2
<1>7. seq'[s0][Slot(p0)] = p0 + 1
  BY <1>0, <1>2, <1>3
<1>8. SeqInv'
  <2>1. ASSUME NEW s \in Streams, NEW p \in Nat, read_cursor[s] <= p, p < read_cursor[s] + SlotCount
        PROVE  seq'[s][Slot(p)] \in {p, p + 1} /\ (p >= Issued(s) => seq'[s][Slot(p)] = p)
    <3>1. CASE s = s0 /\ p = p0
      BY <1>0, <1>2, <1>7, <3>1, IssuedInRing
    <3>2. CASE s # s0 \/ p # p0
      BY <1>0, <1>6, <2>1, <3>2 DEF SeqInv, InRing
    <3> QED
      BY <3>1, <3>2
  <2>2. ASSUME rpc = "free" PROVE seq'[cur][Slot(Here)] = Here + 1
    <3>1. Here \in Nat /\ InRing(cur, Here) /\ seq[cur][Slot(Here)] = Here + 1
      BY <1>0, <2>2, ReadyIsIssued DEF SeqInv, Ready
    <3> QED
      BY <1>0, <1>2, <1>6, <3>1
  <2>3. Here' = Here
    BY DEF Here
  <2> QED
    BY <1>4, <2>1, <2>2, <2>3 DEF SeqInv
<1>9. Unanswered' = Unanswered \ {t}
  <2>1. ASSUME NEW u \in Tasks
        PROVE  u \in Unanswered' <=> u \in Unanswered /\ u # t
    <3>1. PICK s \in Streams, p \in Positions : u = <<s, p>>
      BY DEF Tasks
    <3>2. p \in Nat /\ u[1] = s /\ u[2] = p /\ (u = t <=> s = s0 /\ p = p0)
      BY <1>1, <3>1, PoolFacts
    <3>3. u \in Unanswered' <=> read_cursor[s] <= p /\ p < Issued(s) /\ seq'[s][Slot(p)] = p
      BY <1>4, <3>2 DEF Unanswered, SlotAwaits
    <3>4. u \in Unanswered <=> read_cursor[s] <= p /\ p < Issued(s) /\ seq[s][Slot(p)] = p
      BY <3>2 DEF Unanswered, SlotAwaits
    <3>5. read_cursor[s] <= p /\ p < Issued(s) => InRing(s, p)
      BY <1>0, <3>2, IssuedInRing, PoolFacts DEF InRing
    <3>6. CASE s = s0 /\ p = p0
      <4>1. seq'[s][Slot(p)] # p
        BY <1>2, <1>7, <3>6
      <4> QED
        BY <3>2, <3>3, <3>6, <4>1
    <3>7. CASE s # s0 \/ p # p0
      BY <1>6, <3>2, <3>3, <3>4, <3>5, <3>7
    <3> QED
      BY <3>6, <3>7
  <2> QED
    BY <2>1 DEF Unanswered
<1>10. \A s \in Streams, p \in Positions : p < read_cursor'[s] => answer'[s][p] = None
  BY <1>0 DEF AnswerInv
<1>11. ASSUME NEW u \in Tasks, read_cursor'[u[1]] <= u[2], u[2] < Issued(u[1])',
              seq'[u[1]][Slot(u[2])] = u[2] + 1, ~(rpc' = "free" /\ u = <<cur', Here'>>)
       PROVE  u \in InCell'
  <2>1. PICK s \in Streams, p \in Positions : u = <<s, p>>
    BY DEF Tasks
  <2>2. p \in Nat /\ u[1] = s /\ u[2] = p /\ (u = t <=> s = s0 /\ p = p0)
    BY <1>1, <2>1, PoolFacts
  <2>3. p < Issued(s) /\ read_cursor[s] <= p
    BY <1>4, <1>11, <2>2
  <2>4. CASE u = t
    BY <1>5, <2>4
  <2>5. CASE u # t
    <3>1. InRing(s, p)
      BY <1>0, <2>2, <2>3, IssuedInRing, PoolFacts DEF InRing
    <3>2. seq[s][Slot(p)] = p + 1
      BY <1>6, <1>11, <2>2, <2>5, <3>1
    <3> QED
      BY <1>0, <1>5, <1>11, <2>2, <2>3, <3>2 DEF AnswerInv, Here
  <2> QED
    BY <2>4, <2>5
<1>12. rpc' = "free" => taken' # None /\ taken' = answer'[cur'][Here']
  BY <1>0 DEF AnswerInv, Here
<1> QED
  BY <1>5, <1>8, <1>9, <1>10, <1>11, <1>12

\* A worker takes the oldest task.
LEMMA PopRing ==
  ASSUME PoolInv, NEW w \in Workers, wpc[w] = "pop", tasks # << >>, tasks' = Tail(tasks),
         wpc' = [wpc EXCEPT ![w] = "popped"], task' = [task EXCEPT ![w] = Head(tasks)],
         UNCHANGED <<rpc, cur, fetch_cursor, read_cursor, taken, seq, cell, answer, cancelling, status>>
  PROVE  SeqInv' /\ PlacesInv' /\ AnswerInv'
<1>0. /\ TypeOK /\ SeqInv /\ PlacesInv /\ AnswerInv
      /\ wpc \in [Workers -> WorkerPcs] /\ task \in [Workers -> Tasks \cup {NoTask}]
  BY DEF PoolInv, TypeOK
<1>1. \A s \in Streams : Issued(s)' = Issued(s)
  BY DEF Issued
<1>2. Unanswered' = Unanswered /\ InCell' = InCell /\ Here' = Here
  BY <1>1 DEF Unanswered, Tasks, SlotAwaits, InCell, Here
<1>3. SeqInv'
  BY <1>0, <1>1, <1>2 DEF SeqInv
<1>4. Carrying' = Carrying \cup {w} /\ w \notin Carrying
  BY <1>0 DEF Carrying, CarryingPcs
<1>5. /\ Len(tasks) \in Nat /\ Len(tasks') = Len(tasks) - 1 /\ 1 \in 1 .. Len(tasks) /\ task'[w] = tasks[1]
      /\ \A i \in 1 .. Len(tasks') : tasks'[i] = tasks[i + 1] /\ i + 1 \in 1 .. Len(tasks) /\ i + 1 # 1
      /\ \A v \in Workers : v # w => task'[v] = task[v]
  <2>1. Head(tasks) = tasks[1] /\ Len(tasks) \in Nat /\ Len(tasks) > 0 /\ Len(tasks') = Len(tasks) - 1
    BY <1>0, TasksHead
  <2>2. \A i \in 1 .. Len(tasks') : tasks'[i] = tasks[i + 1] /\ i + 1 \in 1 .. Len(tasks)
    BY <1>0, TasksHead
  <2>3. \A i \in 1 .. Len(tasks') : i + 1 # 1
    OBVIOUS
  <2>4. task'[w] = tasks[1] /\ \A v \in Workers : v # w => task'[v] = task[v]
    BY <1>0, <2>1
  <2> QED
    BY <2>1, <2>2, <2>3, <2>4
<1>6. PlacesInv'
  <2>1. \A i \in 1 .. Len(tasks') : tasks'[i] \in Unanswered' /\ tasks'[i] # cancelling'
    BY <1>0, <1>2, <1>5 DEF PlacesInv
  <2>2. \A v \in Carrying' : task'[v] \in Unanswered'
    BY <1>0, <1>2, <1>4, <1>5 DEF PlacesInv, Carrying
  <2>3. cancelling' # None => cancelling' \in Unanswered'
    BY <1>0, <1>2 DEF PlacesInv
  <2>4. \A i, j \in 1 .. Len(tasks') : i # j => tasks'[i] # tasks'[j]
    <3>1. \A i, j \in 1 .. Len(tasks') : i # j => i + 1 # j + 1
      OBVIOUS
    <3> QED
      BY <1>0, <1>5, <3>1 DEF PlacesInv
  <2>5. \A v \in Carrying', i \in 1 .. Len(tasks') : tasks'[i] # task'[v]
    BY <1>0, <1>4, <1>5 DEF PlacesInv, Carrying
  <2>6. \A u, v \in Carrying' : u # v => task'[u] # task'[v]
    BY <1>0, <1>4, <1>5 DEF PlacesInv, Carrying
  <2>7. ASSUME NEW t \in Unanswered
        PROVE  \/ \E i \in 1 .. Len(tasks') : tasks'[i] = t
               \/ \E v \in Carrying' : task'[v] = t
               \/ cancelling' = t
    <3>1. CASE \E i \in 1 .. Len(tasks) : tasks[i] = t
      <4>1. PICK i \in 1 .. Len(tasks) : tasks[i] = t
        BY <3>1
      <4>2. CASE i = 1
        BY <1>4, <1>5, <4>1, <4>2
      <4>3. CASE i # 1
        <5>1. i - 1 \in 1 .. Len(tasks') /\ (i - 1) + 1 = i
          BY <1>5, <4>3
        <5>2. tasks'[i - 1] = t
          BY <1>5, <4>1, <5>1
        <5> QED
          BY <5>1, <5>2
      <4> QED
        BY <4>2, <4>3
    <3>2. CASE \E v \in Carrying : task[v] = t
      BY <1>4, <1>5, <3>2 DEF Carrying
    <3>3. CASE cancelling = t
      BY <3>3
    <3> QED
      BY <1>0, <3>1, <3>2, <3>3 DEF PlacesInv
  <2> QED
    BY <1>2, <2>1, <2>2, <2>3, <2>4, <2>5, <2>6, <2>7 DEF PlacesInv
<1>7. AnswerInv'
  <2>1. ASSUME NEW t \in Tasks, read_cursor'[t[1]] <= t[2], t[2] < Issued(t[1])',
               seq'[t[1]][Slot(t[2])] = t[2] + 1, ~(rpc' = "free" /\ t = <<cur', Here'>>)
        PROVE  t \in InCell'
    <3>1. t[1] \in Streams
      BY DEF Tasks
    <3> QED
      BY <1>0, <1>1, <1>2, <2>1, <3>1 DEF AnswerInv
  <2>2. \A v \in Workers : /\ wpc'[v] = "stamp" => task'[v] \in InCell'
                           /\ wpc'[v] \in ResultPcs => status'[v] # None
    <3>1. wpc'[w] = "popped" /\ \A v \in Workers : v # w => wpc'[v] = wpc[v]
      BY <1>0
    <3> QED
      BY <1>0, <1>2, <1>5, <3>1 DEF AnswerInv, ResultPcs
  <2> QED
    BY <1>0, <1>2, <2>1, <2>2 DEF AnswerInv
<1> QED
  BY <1>3, <1>6, <1>7

\* deliver() finds its slot waiting and constructs the result.
LEMMA DeliverRing ==
  ASSUME PoolInv, NEW w \in Workers, WorkerDeliver(w)
  PROVE  SeqInv' /\ PlacesInv' /\ AnswerInv'
<1>0. /\ TypeOK /\ CursorInv /\ SeqInv /\ PlacesInv /\ AnswerInv
      /\ wpc \in [Workers -> WorkerPcs] /\ status \in [Workers -> Statuses \cup {None}]
  BY DEF PoolInv, TypeOK
<1>1. wpc[w] = "deliver"
  BY DEF WorkerDeliver, At
<1>2. w \in Carrying /\ task[w] \in Unanswered /\ SlotAwaits(task[w])
  BY <1>0, <1>1, IssuedInRing DEF Carrying, CarryingPcs, PlacesInv
<1>3. status[w] \in Statuses
  BY <1>0, <1>1 DEF AnswerInv, ResultPcs
<1>4. PICK t \in Unanswered : t = task[w]
  BY <1>2
<1>5. PICK st \in Statuses : st = status[w]
  BY <1>3
<1>6. /\ Construct(t, st) /\ UNCHANGED <<rpc, cur, fetch_cursor, read_cursor, taken, seq>>
      /\ UNCHANGED <<tasks, task, cancelling>> /\ wpc' = [wpc EXCEPT ![w] = "stamp"]
      /\ status' = [status EXCEPT ![w] = None]
  BY <1>2, <1>4, <1>5 DEF WorkerDeliver, At, readerVars, quiesceVars
<1>7. /\ SeqInv' /\ Unanswered' = Unanswered /\ t \in InCell'
      /\ \A u \in Unanswered : u \in InCell => u \in InCell'
      /\ \A s \in Streams, p \in Positions : p < read_cursor'[s] => answer'[s][p] = None
      /\ \A u \in Tasks :
           (/\ read_cursor'[u[1]] <= u[2] /\ u[2] < Issued(u[1])'
            /\ seq'[u[1]][Slot(u[2])] = u[2] + 1
            /\ ~(rpc' = "free" /\ u = <<cur', Here'>>)) => u \in InCell'
      /\ rpc' = "free" => taken' # None /\ taken' = answer'[cur'][Here']
  BY <1>6, ConstructRing
<1>8. Carrying' = Carrying
  BY <1>0, <1>1, <1>6 DEF Carrying, CarryingPcs
<1>9. PlacesInv'
  BY <1>0, <1>6, <1>7, <1>8 DEF PlacesInv
<1>10. \A v \in Workers : /\ wpc'[v] = "stamp" => task'[v] \in InCell'
                          /\ wpc'[v] \in ResultPcs => status'[v] # None
  <2>1. /\ wpc'[w] = "stamp"
        /\ \A v \in Workers : v # w => wpc'[v] = wpc[v] /\ status'[v] = status[v]
    BY <1>0, <1>6
  <2>2. \A v \in Workers : wpc[v] = "stamp" => task[v] \in Unanswered /\ task[v] \in InCell
    BY <1>0 DEF AnswerInv, PlacesInv, Carrying, CarryingPcs
  <2> QED
    BY <1>0, <1>4, <1>6, <1>7, <2>1, <2>2 DEF AnswerInv, ResultPcs
<1>11. cancelling' # None => cancelling' \in InCell'
  BY <1>0, <1>6, <1>7 DEF AnswerInv, PlacesInv
<1> QED
  BY <1>7, <1>9, <1>10, <1>11 DEF AnswerInv

\* The file is the reader's once its slot is stamped.
LEMMA WorkerStampRing ==
  ASSUME PoolInv, NEW w \in Workers, WorkerStamp(w)
  PROVE  SeqInv' /\ PlacesInv' /\ AnswerInv'
<1>0. /\ TypeOK /\ CursorInv /\ SeqInv /\ PlacesInv /\ AnswerInv /\ ThreadInv
      /\ wpc \in [Workers -> WorkerPcs] /\ task \in [Workers -> Tasks \cup {NoTask}]
  BY DEF PoolInv, TypeOK
<1>1. wpc[w] = "stamp"
  BY DEF WorkerStamp, At
<1>2. w \in Carrying /\ task[w] \in Unanswered /\ task[w] \in InCell
  BY <1>0, <1>1 DEF Carrying, CarryingPcs, PlacesInv, AnswerInv
<1>3. PICK t \in Unanswered : t = task[w]
  BY <1>2
<1>4. /\ Stamp(t) /\ UNCHANGED <<rpc, cur, fetch_cursor, read_cursor, taken, cell, answer>>
      /\ UNCHANGED <<tasks, cancelling, status>> /\ wpc' = [wpc EXCEPT ![w] = "loop"]
      /\ task' = [task EXCEPT ![w] = NoTask]
  BY <1>3 DEF WorkerStamp, At, readerVars, quiesceVars, history
<1>5. /\ SeqInv' /\ Unanswered' = Unanswered \ {t} /\ InCell' = InCell
      /\ \A s \in Streams, p \in Positions : p < read_cursor'[s] => answer'[s][p] = None
      /\ \A u \in Tasks :
           (/\ read_cursor'[u[1]] <= u[2] /\ u[2] < Issued(u[1])'
            /\ seq'[u[1]][Slot(u[2])] = u[2] + 1
            /\ ~(rpc' = "free" /\ u = <<cur', Here'>>)) => u \in InCell'
      /\ rpc' = "free" => taken' # None /\ taken' = answer'[cur'][Here']
  BY <1>2, <1>3, <1>4, StampRing
<1>6. Carrying' = Carrying \ {w}
  BY <1>0, <1>1, <1>4 DEF Carrying, CarryingPcs
<1>7. \A v \in Workers : v # w => task'[v] = task[v] /\ wpc'[v] = wpc[v]
  BY <1>0, <1>4
<1>8. cancelling = None
  <2>1. ASSUME NEW q \in Quiescers, qpc[q] = "stamp" PROVE FALSE
    BY <1>0, <1>1, <2>1 DEF ThreadInv, AllEnded
  <2> QED
    BY <1>0, <2>1 DEF ThreadInv
<1>9. PlacesInv'
  <2>1. \A i \in 1 .. Len(tasks') : tasks'[i] \in Unanswered' /\ tasks'[i] # cancelling'
    BY <1>0, <1>2, <1>3, <1>4, <1>5 DEF PlacesInv
  <2>2. \A v \in Carrying' : task'[v] \in Unanswered'
    BY <1>0, <1>2, <1>3, <1>5, <1>6, <1>7 DEF PlacesInv, Carrying
  <2>3. \A v \in Carrying', i \in 1 .. Len(tasks') : tasks'[i] # task'[v]
    BY <1>0, <1>4, <1>6, <1>7 DEF PlacesInv, Carrying
  <2>4. \A u, v \in Carrying' : u # v => task'[u] # task'[v]
    BY <1>0, <1>6, <1>7 DEF PlacesInv, Carrying
  <2>5. \A u \in Unanswered' : \/ \E i \in 1 .. Len(tasks') : tasks'[i] = u
                               \/ \E v \in Carrying' : task'[v] = u
                               \/ cancelling' = u
    BY <1>0, <1>3, <1>4, <1>5, <1>6, <1>7 DEF PlacesInv, Carrying
  <2> QED
    BY <1>0, <1>4, <1>8, <2>1, <2>2, <2>3, <2>4, <2>5 DEF PlacesInv
<1>10. \A v \in Workers : /\ wpc'[v] = "stamp" => task'[v] \in InCell'
                          /\ wpc'[v] \in ResultPcs => status'[v] # None
  <2>1. wpc'[w] = "loop"
    BY <1>0, <1>4
  <2> QED
    BY <1>0, <1>4, <1>5, <1>7, <2>1 DEF AnswerInv, ResultPcs
<1> QED
  BY <1>4, <1>5, <1>8, <1>9, <1>10 DEF AnswerInv

LEMMA WorkerRing ==
  ASSUME PoolInv, NEW w \in Workers, Worker(w)
  PROVE  CursorInv' /\ SeqInv' /\ PlacesInv' /\ AnswerInv'
<1>0. /\ TypeOK /\ CursorInv /\ SeqInv /\ PlacesInv /\ AnswerInv
      /\ wpc \in [Workers -> WorkerPcs] /\ status \in [Workers -> Statuses \cup {None}]
  BY DEF PoolInv, TypeOK
<1>u. UNCHANGED <<rpc, cur, fetch_cursor, read_cursor, taken, pushed, cancelling>>
  BY DEF Worker, WorkerLoop, WorkerTest, WorkerPop, WorkerUncount, WorkerLock, WorkerPredicate,
     WorkerPark, WorkerWake, WorkerFetch, WorkerNote, WorkerWindow, WorkerExchange, WorkerReset, WorkerTrip,
     WorkerDeliver, WorkerStamp, readerVars, quiesceVars, history
<1>i. \A s \in Streams : Issued(s)' = Issued(s)
  BY <1>u DEF Issued
<1>c. CursorInv'
  <2>1. {t \in Tasks : t[2] < Issued(t[1])'} = {t \in Tasks : t[2] < Issued(t[1])}
    BY <1>i DEF Tasks
  <2> QED
    BY <1>0, <1>u, <2>1 DEF CursorInv, Outstanding
<1>1. ASSUME NEW from, NEW to, wpc[w] = from, wpc' = [wpc EXCEPT ![w] = to],
             from \in CarryingPcs <=> to \in CarryingPcs, from # "stamp", to # "stamp",
             to \in ResultPcs => status'[w] # None,
             \A v \in Workers : v # w => status'[v] = status[v],
             UNCHANGED <<seq, cell, tasks, task, answer>>
      PROVE  SeqInv' /\ PlacesInv' /\ AnswerInv'
  <2>1. wpc'[w] = to /\ \A v \in Workers : v # w => wpc'[v] = wpc[v]
    BY <1>0, <1>1
  <2>2. Carrying' = Carrying
    BY <1>1, <2>1 DEF Carrying
  <2>3. \A v \in Workers : /\ wpc'[v] = "stamp" <=> wpc[v] = "stamp"
                           /\ wpc'[v] \in ResultPcs => status'[v] # None
    BY <1>0, <1>1, <2>1 DEF AnswerInv
  <2> QED
    BY <1>0, <1>u, <1>i, <1>1, <2>2, <2>3, RingFrame
<1>2. CASE WorkerTest(w) \/ WorkerUncount(w) \/ WorkerLock(w) \/ WorkerPredicate(w) \/ WorkerPark(w) \/ WorkerWake(w)
  <2>1. UNCHANGED <<seq, cell, tasks, task, answer, status>>
    BY <1>2 DEF WorkerTest, WorkerUncount, WorkerLock, WorkerPredicate, WorkerPark, WorkerWake, ringVars, history
  <2>2. PICK from, to : /\ wpc[w] = from /\ wpc' = [wpc EXCEPT ![w] = to]
                        /\ from \in CarryingPcs <=> to \in CarryingPcs
                        /\ from # "stamp" /\ to # "stamp" /\ to \notin ResultPcs
    BY <1>2 DEF WorkerTest, WorkerUncount, WorkerLock, WorkerPredicate, WorkerPark, WorkerWake, At,
       CarryingPcs, ResultPcs
  <2> QED
    BY <1>c, <1>1, <2>1, <2>2
<1>3. CASE WorkerNote(w) \/ WorkerWindow(w) \/ WorkerExchange(w) \/ WorkerReset(w) \/ WorkerTrip(w)
  <2>1. UNCHANGED <<seq, cell, tasks, task, answer, status>>
    BY <1>3 DEF WorkerNote, WorkerWindow, WorkerExchange, WorkerReset, WorkerTrip, ringVars, history
  <2>2. PICK from, to : /\ wpc[w] = from /\ wpc' = [wpc EXCEPT ![w] = to]
                        /\ from \in CarryingPcs <=> to \in CarryingPcs
                        /\ from # "stamp" /\ to # "stamp" /\ from \in ResultPcs
    BY <1>3 DEF WorkerNote, WorkerWindow, WorkerExchange, WorkerReset, WorkerTrip, At,
       CarryingPcs, ResultPcs
  <2>3. status'[w] # None
    BY <1>0, <2>1, <2>2 DEF AnswerInv
  <2> QED
    BY <1>c, <1>1, <2>1, <2>2, <2>3
<1>4. ASSUME NEW o \in Outcomes, WorkerFetch(w, o)
      PROVE  SeqInv' /\ PlacesInv' /\ AnswerInv'
  <2> DEFINE again == Retryable(o) /\ attempt[w] < MaxRetries /\ ~stopping
  <2>1. /\ wpc[w] = "fetch" /\ wpc' = [wpc EXCEPT ![w] = IF again THEN "fetch" ELSE "note"]
        /\ status' = [status EXCEPT ![w] = IF again THEN None ELSE o]
        /\ UNCHANGED <<seq, cell, tasks, task, answer>>
    BY <1>4 DEF WorkerFetch, At, ringVars, history
  <2>2. o # None
    BY FetchAssumption, PoolFacts
  <2> HIDE DEF again
  <2>3. /\ \A v \in Workers : v # w => status'[v] = status[v]
        /\ status'[w] = IF again THEN None ELSE o
    BY <1>0, <2>1
  <2>4. CASE again
    <3>1. wpc' = [wpc EXCEPT ![w] = "fetch"] /\ "fetch" \notin ResultPcs
      BY <2>1, <2>4 DEF ResultPcs
    <3> QED
      BY <1>1, <2>1, <2>3, <3>1
  <2>5. CASE ~again
    <3>1. wpc' = [wpc EXCEPT ![w] = "note"] /\ "fetch" \in CarryingPcs /\ "note" \in CarryingPcs
      BY <2>1, <2>5 DEF CarryingPcs
    <3>2. status'[w] # None
      BY <2>2, <2>3, <2>5
    <3> QED
      BY <1>1, <2>1, <2>3, <3>1, <3>2
  <2> QED
    BY <2>4, <2>5
<1>5. CASE WorkerPop(w)
  <2>1. CASE tasks # << >>
    <3>1. /\ wpc[w] = "pop" /\ tasks' = Tail(tasks)
          /\ wpc' = [wpc EXCEPT ![w] = "popped"] /\ task' = [task EXCEPT ![w] = Head(tasks)]
          /\ UNCHANGED <<seq, cell, answer, status>>
      BY <1>5, <2>1 DEF WorkerPop, At, ringVars, history
    <3> QED
      BY <1>c, <1>u, <2>1, <3>1, PopRing
  <2>2. CASE tasks = << >>
    <3>1. /\ wpc[w] = "pop" /\ wpc' = [wpc EXCEPT ![w] = "recheck"]
          /\ UNCHANGED <<seq, cell, tasks, task, answer, status>>
      BY <1>5, <2>2 DEF WorkerPop, At, ringVars, history
    <3>2. "pop" \notin CarryingPcs /\ "recheck" \notin CarryingPcs /\ "recheck" \notin ResultPcs
      BY DEF CarryingPcs, ResultPcs
    <3> QED
      BY <1>c, <1>1, <3>1, <3>2
  <2> QED
    BY <2>1, <2>2
<1>6. CASE WorkerDeliver(w)
  BY <1>c, <1>6, DeliverRing
<1>7. CASE WorkerStamp(w)
  BY <1>c, <1>7, WorkerStampRing
<1> QED
  BY <1>c, <1>2, <1>3, <1>4, <1>5, <1>6, <1>7 DEF Worker, WorkerLoop

\* The drain answers the oldest task in a worker's place.
LEMMA CancelRing ==
  ASSUME PoolInv, NEW q \in Quiescers, Cancel(q)
  PROVE  SeqInv' /\ PlacesInv' /\ AnswerInv'
<1>0. /\ TypeOK /\ CursorInv /\ SeqInv /\ PlacesInv /\ AnswerInv /\ ThreadInv /\ None \notin Quiescers
      /\ tasks # << >>
  BY NoneAssumption DEF PoolInv, Cancel
<1>1. /\ Len(tasks) \in Nat /\ Len(Tail(tasks)) = Len(tasks) - 1 /\ 1 \in 1 .. Len(tasks)
      /\ Head(tasks) = tasks[1]
      /\ \A i \in 1 .. Len(Tail(tasks)) : Tail(tasks)[i] = tasks[i + 1] /\ i + 1 \in 1 .. Len(tasks) /\ i + 1 # 1
  <2>1. /\ Head(tasks) = tasks[1] /\ Len(tasks) \in Nat /\ Len(tasks) > 0 /\ Len(Tail(tasks)) = Len(tasks) - 1
        /\ \A i \in 1 .. Len(Tail(tasks)) : Tail(tasks)[i] = tasks[i + 1] /\ i + 1 \in 1 .. Len(tasks)
    BY <1>0, TasksHead
  <2>2. \A i \in 1 .. Len(Tail(tasks)) : i + 1 # 1
    OBVIOUS
  <2> QED
    BY <2>1, <2>2
<1>2. Head(tasks) \in Unanswered /\ SlotAwaits(Head(tasks))
  BY <1>0, <1>1, IssuedInRing DEF PlacesInv
<1>3. PICK t \in Unanswered : t = Head(tasks)
  BY <1>2
<1>4. /\ Construct(t, "Cancelled") /\ UNCHANGED <<rpc, cur, fetch_cursor, read_cursor, taken, seq>>
      /\ UNCHANGED <<wpc, task, status>> /\ tasks' = Tail(tasks) /\ cancelling' = t /\ qpc[q] = "drain"
  BY <1>2, <1>3 DEF Cancel, Goes, readerVars, workerVars
<1>5. /\ SeqInv' /\ Unanswered' = Unanswered /\ t \in InCell'
      /\ \A u \in Unanswered : u \in InCell => u \in InCell'
      /\ \A s \in Streams, p \in Positions : p < read_cursor'[s] => answer'[s][p] = None
      /\ \A u \in Tasks :
           (/\ read_cursor'[u[1]] <= u[2] /\ u[2] < Issued(u[1])'
            /\ seq'[u[1]][Slot(u[2])] = u[2] + 1
            /\ ~(rpc' = "free" /\ u = <<cur', Here'>>)) => u \in InCell'
      /\ rpc' = "free" => taken' # None /\ taken' = answer'[cur'][Here']
  <2>1. "Cancelled" \in Statuses
    BY DEF Statuses
  <2> QED
    BY <1>4, <2>1, ConstructRing
<1>6. AllEnded /\ shutdown_mutex = q /\ cancelling = None
  <2>1. AllEnded /\ shutdown_mutex = q
    BY <1>0, <1>4 DEF ThreadInv, QuiescerPcs
  <2>2. ASSUME NEW r \in Quiescers, qpc[r] = "stamp" PROVE FALSE
    BY <1>0, <1>4, <2>1, <2>2 DEF ThreadInv, QuiescerPcs
  <2> QED
    BY <1>0, <2>1, <2>2 DEF ThreadInv
<1>7. Carrying = {} /\ Carrying' = {}
  BY <1>4, <1>6 DEF Carrying, CarryingPcs, AllEnded
<1>8. PlacesInv'
  <2>1. \A i \in 1 .. Len(tasks') : tasks'[i] \in Unanswered' /\ tasks'[i] # cancelling'
    BY <1>0, <1>1, <1>3, <1>4, <1>5 DEF PlacesInv
  <2>2. \A i, j \in 1 .. Len(tasks') : i # j => tasks'[i] # tasks'[j]
    <3>1. \A i, j \in 1 .. Len(tasks') : i # j => i + 1 # j + 1
      OBVIOUS
    <3> QED
      BY <1>0, <1>1, <1>4, <3>1 DEF PlacesInv
  <2>3. ASSUME NEW u \in Unanswered
        PROVE  (\E i \in 1 .. Len(tasks') : tasks'[i] = u) \/ cancelling' = u
    <3>1. PICK i \in 1 .. Len(tasks) : tasks[i] = u
      BY <1>0, <1>6, <1>7, <2>3, IssuedInRing, PoolFacts DEF PlacesInv
    <3>2. CASE i = 1
      BY <1>1, <1>3, <1>4, <3>1, <3>2
    <3>3. CASE i # 1
      <4>1. i - 1 \in 1 .. Len(tasks') /\ (i - 1) + 1 = i
        BY <1>1, <1>4, <3>3
      <4>2. tasks'[i - 1] = u
        BY <1>1, <1>4, <3>1, <4>1
      <4> QED
        BY <4>1, <4>2
    <3> QED
      BY <3>2, <3>3
  <2> QED
    BY <1>4, <1>5, <1>7, <2>1, <2>2, <2>3 DEF PlacesInv
<1>9. \A v \in Workers : /\ wpc'[v] = "stamp" => task'[v] \in InCell'
                         /\ wpc'[v] \in ResultPcs => status'[v] # None
  BY <1>4, <1>6 DEF AllEnded, ResultPcs
<1> QED
  BY <1>4, <1>5, <1>8, <1>9 DEF AnswerInv

LEMMA StampCancelledRing ==
  ASSUME PoolInv, NEW q \in Quiescers, StampCancelled(q)
  PROVE  SeqInv' /\ PlacesInv' /\ AnswerInv'
<1>0. /\ TypeOK /\ CursorInv /\ SeqInv /\ PlacesInv /\ AnswerInv /\ ThreadInv
  BY DEF PoolInv
<1>1. qpc[q] = "stamp"
  BY DEF StampCancelled, Goes
<1>2. AllEnded /\ cancelling # None /\ cancelling \in Unanswered /\ cancelling \in InCell
  BY <1>0, <1>1 DEF ThreadInv, PlacesInv, AnswerInv
<1>3. PICK t \in Unanswered : t = cancelling
  BY <1>2
<1>4. /\ Stamp(t) /\ UNCHANGED <<rpc, cur, fetch_cursor, read_cursor, taken, cell, answer>>
      /\ UNCHANGED <<tasks, wpc, task, status>> /\ cancelling' = None
  BY <1>3 DEF StampCancelled, readerVars, workerVars, history
<1>5. /\ SeqInv' /\ Unanswered' = Unanswered \ {t} /\ InCell' = InCell
      /\ \A s \in Streams, p \in Positions : p < read_cursor'[s] => answer'[s][p] = None
      /\ \A u \in Tasks :
           (/\ read_cursor'[u[1]] <= u[2] /\ u[2] < Issued(u[1])'
            /\ seq'[u[1]][Slot(u[2])] = u[2] + 1
            /\ ~(rpc' = "free" /\ u = <<cur', Here'>>)) => u \in InCell'
      /\ rpc' = "free" => taken' # None /\ taken' = answer'[cur'][Here']
  BY <1>2, <1>3, <1>4, StampRing
<1>6. Carrying = {} /\ Carrying' = {}
  BY <1>2, <1>4 DEF Carrying, CarryingPcs, AllEnded
<1>7. PlacesInv'
  <2>1. \A i \in 1 .. Len(tasks') : tasks'[i] \in Unanswered' /\ tasks'[i] # cancelling'
    <3>1. \A i \in 1 .. Len(tasks) : tasks[i] \in Unanswered /\ tasks[i] # t /\ tasks[i] \in Tasks
      BY <1>0, <1>3, IssuedInRing DEF PlacesInv
    <3> QED
      BY <1>4, <1>5, <3>1, PoolFacts
  <2>2. \A u \in Unanswered' : \E i \in 1 .. Len(tasks') : tasks'[i] = u
    BY <1>0, <1>3, <1>4, <1>5, <1>6 DEF PlacesInv
  <2> QED
    BY <1>0, <1>4, <1>6, <2>1, <2>2 DEF PlacesInv
<1>8. \A v \in Workers : /\ wpc'[v] = "stamp" => task'[v] \in InCell'
                         /\ wpc'[v] \in ResultPcs => status'[v] # None
  BY <1>2, <1>4 DEF AllEnded, ResultPcs
<1> QED
  BY <1>4, <1>5, <1>7, <1>8 DEF AnswerInv

LEMMA QuiescerRing ==
  ASSUME PoolInv, NEW q \in Quiescers, Quiesce(q) \/ Shutdown(q)
  PROVE  CursorInv' /\ SeqInv' /\ PlacesInv' /\ AnswerInv'
<1>0. TypeOK /\ CursorInv /\ SeqInv /\ PlacesInv /\ AnswerInv
  BY DEF PoolInv
<1>u. UNCHANGED <<rpc, cur, fetch_cursor, read_cursor, taken, pushed, wpc, task, status>>
  BY DEF Quiesce, Shutdown, SetStopping, NotifyAll, JoinWorkers, AwaitSubmits, Cancel, StampCancelled,
     EndQuiesce, readerVars, workerVars, history
<1>i. \A s \in Streams : Issued(s)' = Issued(s)
  BY <1>u DEF Issued
<1>c. CursorInv'
  <2>1. {t \in Tasks : t[2] < Issued(t[1])'} = {t \in Tasks : t[2] < Issued(t[1])}
    BY <1>i DEF Tasks
  <2> QED
    BY <1>0, <1>u, <2>1 DEF CursorInv, Outstanding
<1>1. CASE \/ Quiesce(q) \/ SetStopping(q) \/ NotifyAll(q) \/ JoinWorkers(q) \/ AwaitSubmits(q) \/ EndQuiesce(q)
  <2>1. UNCHANGED <<seq, cell, tasks, cancelling, answer>>
    BY <1>1 DEF Quiesce, SetStopping, NotifyAll, JoinWorkers, AwaitSubmits, EndQuiesce, quiesceVars,
       ringVars, history
  <2>2. Carrying' = Carrying
    BY <1>u DEF Carrying
  <2>3. \A v \in Workers : wpc'[v] \in ResultPcs => status'[v] # None
    BY <1>0, <1>u DEF AnswerInv
  <2>4. SeqInv' /\ PlacesInv' /\ AnswerInv'
    BY <1>0, <1>u, <1>i, <2>1, <2>2, <2>3, RingFrame
  <2> QED
    BY <1>c, <2>4
<1>2. CASE Cancel(q)
  BY <1>c, <1>2, CancelRing
<1>3. CASE StampCancelled(q)
  BY <1>c, <1>3, StampCancelledRing
<1> QED
  BY <1>1, <1>2, <1>3 DEF Shutdown
-----------------------------------------------------------------------------
(* The invariant, and what follows from it.                                *)

LEMMA PoolStart == Init => PoolInv
<1> SUFFICES ASSUME Init PROVE PoolInv
  OBVIOUS
<1>1. /\ NumStreams \in Nat \ {0} /\ NumFiles \in Nat /\ SlotCount \in Nat /\ SlotCount > 0
      /\ WordSize \in Nat /\ WordSize > 0 /\ TaskCapacity \in Nat /\ MaxRetries \in Nat
      /\ IsFiniteSet(Workers) /\ Window \in Nat /\ Window > 0 /\ CriticalFailures \in Nat
  BY FetchAssumption
<1>2. Cardinality(Workers) \in Nat
  BY <1>1, FS_CardinalityType
<1>3. TypeOK
  <2>1. seq \in [Streams -> [Slots -> Nat]]
    BY <1>1 DEF Init, Slots
  <2>2. 1 \in Streams
    BY <1>1 DEF Streams
  <2>3. cell \in [Streams -> [Slots -> Statuses \cup {None}]] /\ answer \in Answers
    BY DEF Init, Answers
  <2>4. tasks \in Seq(Tasks) /\ Len(tasks) <= TaskCapacity
    BY <1>1 DEF Init
  <2>5. fetch_cursor \in [Streams -> 0 .. NumFiles] /\ read_cursor \in [Streams -> 0 .. NumFiles]
    BY <1>1 DEF Init
  <2>6. /\ wpc \in [Workers -> WorkerPcs] /\ qpc \in [Quiescers -> QuiescerPcs]
        /\ task \in [Workers -> Tasks \cup {NoTask}] /\ attempt \in [Workers -> 0 .. MaxRetries]
        /\ status \in [Workers -> Statuses \cup {None}] /\ failures \in [Workers -> Nat]
    BY <1>1 DEF Init, WorkerPcs, QuiescerPcs
  <2>7. queued \in 0 .. WordSize - 1 /\ sleepers \in 0 .. Cardinality(Workers) /\ submits_active \in 0 .. 1
    BY <1>1, <1>2 DEF Init
  <2> QED
    BY <2>1, <2>2, <2>3, <2>4, <2>5, <2>6, <2>7 DEF Init, TypeOK
<1>4. ThreadInv
  BY DEF Init, ThreadInv, Submitting, QuiescerPcs
<1>5. \A s \in Streams : Issued(s) = 0 /\ fetch_cursor[s] = 0 /\ read_cursor[s] = 0
  BY DEF Init, Issued, Handing
<1>t. ASSUME NEW t \in Tasks PROVE ~(t[2] < Issued(t[1]))
  <2>1. t[1] \in Streams /\ t[2] \in Nat
    BY PoolFacts DEF Tasks
  <2>2. Issued(t[1]) = 0
    BY <1>5, <2>1
  <2> QED
    BY <2>1, <2>2
<1>6. CursorInv
  <2> QED
    BY <1>1, <1>5, <1>t DEF Init, CursorInv, Outstanding
<1>7. SeqInv
  <2>1. ASSUME NEW s \in Streams, NEW p \in Nat, read_cursor[s] <= p, p < read_cursor[s] + SlotCount
        PROVE  seq[s][Slot(p)] = p
    <3>1. Slot(p) = p /\ p \in Slots
      BY <1>1, <1>5, <2>1 DEF Slot, Slots
    <3> QED
      BY <3>1 DEF Init
  <2> QED
    BY <2>1 DEF Init, SeqInv
<1>8. Unanswered = {} /\ Carrying = {}
  BY <1>t DEF Unanswered, Init, Carrying, CarryingPcs
<1>9. PlacesInv
  BY <1>8 DEF Init, PlacesInv
<1>10. AnswerInv
  <2> QED
    BY <1>t DEF Init, AnswerInv, ResultPcs
<1>11. pushed = {} /\ Claiming = {} /\ Uncompleted = {} /\ Sleeping = {} /\ Noted = {}
  BY DEF Init, Claiming, Uncompleted, Sleeping, Noted
<1>12. Cardinality({}) = 0
  BY FS_EmptySet
<1>13. CountInv
  BY <1>11, <1>12 DEF Init, CountInv
<1>14. QueuedTracksTasks
  <2>1. queued = 0 /\ Len(tasks) = 0 /\ rpc # "count"
    BY DEF Init
  <2>2. 0 = 0 % WordSize
    BY <1>1
  <2> QED
    BY <1>11, <1>12, <2>1, <2>2 DEF QueuedTracksTasks
<1>15. FirstWindow
  <2>1. /\ completed_failed = 0 /\ cancelled = 0 /\ window_failures = 0 /\ window_count = 0
        /\ \A w \in Workers : wpc[w] = "loop"
    BY DEF Init
  <2> QED
    BY <1>1, <1>11, <1>12, <2>1 DEF FirstWindow
<1>16. FiredOnce
  BY DEF Init, FiredOnce
<1> QED
  BY <1>3, <1>4, <1>6, <1>7, <1>9, <1>10, <1>13, <1>14, <1>15, <1>16 DEF PoolInv

LEMMA PoolStutter == ASSUME PoolInv, UNCHANGED vars PROVE PoolInv'
<1>0. /\ UNCHANGED <<rpc, cur, after, fetch_cursor, read_cursor, taken, seq, cell, tasks>>
      /\ UNCHANGED <<submits_active, stopping, queued, sleepers, wake_mutex, notified, submitted>>
      /\ UNCHANGED <<completed_ok, completed_failed, cancelled, dropped, window_count, window_failures>>
      /\ UNCHANGED <<critical, fired, wpc, task, attempt, status, failures, qpc, shutdown_mutex>>
      /\ UNCHANGED <<quiesced, cancelling, pushed, answer>>
  BY DEF vars, readerVars, ringVars, sleepVars, countVars, windowVars, workerVars, quiesceVars, history
<1>1. TypeOK'
  BY PoolTypes
<1>2. ThreadInv'
  BY <1>0 DEF PoolInv, ThreadInv, AllEnded, Quiet
<1>3. CursorInv'
  BY <1>0 DEF PoolInv, CursorInv, Outstanding, Issued
<1>4. SeqInv'
  BY <1>0 DEF PoolInv, SeqInv, Here, Issued
<1>5. PlacesInv'
  BY <1>0 DEF PoolInv, PlacesInv, Unanswered, Carrying, Issued, SlotAwaits
<1>6. AnswerInv'
  BY <1>0 DEF PoolInv, AnswerInv, InCell, Here, Issued
<1>7. CountInv' /\ QueuedTracksTasks'
  BY <1>0 DEF PoolInv, CountInv, Uncompleted, Sleeping, QueuedTracksTasks, Claiming
<1>8. FirstWindow' /\ FiredOnce'
  BY <1>0 DEF PoolInv, FirstWindow, Tripping, Noted, FiredOnce
<1> QED
  BY <1>1, <1>2, <1>3, <1>4, <1>5, <1>6, <1>7, <1>8 DEF PoolInv

LEMMA PoolStep == PoolInv /\ [Next]_vars => PoolInv'
<1> SUFFICES ASSUME PoolInv, [Next]_vars PROVE PoolInv'
  OBVIOUS
<1>1. TypeOK'
  BY PoolTypes
<1>2. CASE Reader
  BY <1>1, <1>2, ReaderThreads, ReaderCursors, ReaderRing, ReaderCounts DEF PoolInv
<1>3. ASSUME NEW w \in Workers, Worker(w) PROVE PoolInv'
  BY <1>1, <1>3, WorkerThreads, WorkerRing, WorkerCounts, WorkerWindowInv DEF PoolInv
<1>4. ASSUME NEW q \in Quiescers, Quiesce(q) \/ Shutdown(q) PROVE PoolInv'
  BY <1>1, <1>4, QuiescerThreads, QuiescerRing, QuiescerCounts DEF PoolInv
<1>5. CASE UNCHANGED vars
  BY <1>5, PoolStutter
<1> QED
  BY <1>2, <1>3, <1>4, <1>5 DEF Next

\* What the states of the invariant have in common with the properties.
LEMMA PoolConsequences ==
  ASSUME PoolInv
  PROVE  ReadInPlanOrder /\ QuiesceAnswersAll /\ CountsReconcile /\ CriticalFiresOnce
<1>0. /\ TypeOK /\ ThreadInv /\ CursorInv /\ SeqInv /\ PlacesInv /\ AnswerInv
      /\ CountInv /\ QueuedTracksTasks /\ FirstWindow /\ FiredOnce
  BY DEF PoolInv
<1>1. ReadInPlanOrder
  BY <1>0 DEF AnswerInv, ReadInPlanOrder
<1>2. QuiesceAnswersAll
  <2> SUFFICES ASSUME NEW q \in Quiescers, qpc[q] = "returned", NEW t \in pushed
               PROVE  (\A w \in Workers : wpc[w] = "ended") /\ Answered(t[1], t[2])
    BY <1>0 DEF QuiesceAnswersAll, ThreadInv, AllEnded
  <2>1. AllEnded /\ tasks = << >> /\ cancelling = None
    BY <1>0 DEF ThreadInv
  <2>2. t \in Tasks /\ t[2] < Issued(t[1]) /\ t[1] \in Streams /\ t[2] \in Nat
    BY <1>0, PoolFacts DEF CursorInv, Tasks
  <2>3. CASE t[2] < read_cursor[t[1]]
    BY <2>1, <2>3 DEF Answered, AllEnded
  <2>4. CASE ~(t[2] < read_cursor[t[1]])
    <3>0. /\ Issued(t[1]) \in Nat /\ read_cursor[t[1]] \in Nat /\ SlotCount \in Nat
          /\ Issued(t[1]) <= read_cursor[t[1]] + SlotCount
      BY <1>0, <2>2, IssuedInRing, PoolFacts
    <3>1. read_cursor[t[1]] <= t[2] /\ t[2] < read_cursor[t[1]] + SlotCount
      BY <2>2, <2>4, <3>0
    <3>2. t \notin Unanswered
      <4>1. Carrying = {} /\ Len(tasks) = 0
        BY <2>1 DEF AllEnded, Carrying, CarryingPcs
      <4> QED
        BY <1>0, <2>1, <2>2, <4>1, PoolFacts DEF PlacesInv
    <3>3. seq[t[1]][Slot(t[2])] # t[2]
      BY <2>2, <3>1, <3>2 DEF Unanswered, SlotAwaits
    <3>4. seq[t[1]][Slot(t[2])] \in {t[2], t[2] + 1}
      BY <1>0, <2>2, <3>1 DEF SeqInv
    <3> QED
      BY <2>1, <3>3, <3>4 DEF Answered, AllEnded
  <2> QED
    BY <2>3, <2>4
<1>3. CountsReconcile
  <2> SUFFICES ASSUME quiesced, rpc \in {"idle", "eof"}
               PROVE  /\ submitted = completed_ok + completed_failed
                      /\ submitted = Cardinality(pushed)
                      /\ queued = 0 /\ sleepers = 0 /\ dropped = 0
    BY DEF CountsReconcile
  <2>1. AllEnded /\ tasks = << >>
    BY <1>0 DEF ThreadInv
  <2>2. Uncompleted = {} /\ Claiming = {} /\ Sleeping = {} /\ Len(tasks) = 0 /\ Cardinality({}) = 0
    BY <2>1, FS_EmptySet DEF AllEnded, Uncompleted, Claiming, Sleeping
  <2>3. submitted \in Nat /\ completed_ok \in Nat /\ completed_failed \in Nat /\ WordSize \in Nat /\ WordSize > 0
    BY <1>0, PoolFacts DEF TypeOK
  <2>4. submitted = Cardinality(pushed) /\ completed_ok + completed_failed = Cardinality(pushed)
    BY <1>0, <2>2, <2>3 DEF CountInv
  <2>5. queued = 0 % WordSize
    BY <1>0, <2>2 DEF QueuedTracksTasks
  <2>6. queued = 0
    BY <2>3, <2>5
  <2> QED
    BY <1>0, <2>2, <2>4, <2>6 DEF CountInv
<1>4. CriticalFiresOnce
  <2>1. ASSUME completed_ok = 0, CriticalFailures <= Window, Evaluating = {}, ~critical
        PROVE  completed_failed - cancelled < Window
    <3>1. ~Tripping /\ Noted = {} /\ \A w \in Workers : wpc[w] # "exchange"
      BY <2>1 DEF Evaluating, Tripping, Noted
    <3>2. Cardinality(Noted) = 0
      BY <3>1, FS_EmptySet
    <3>3. window_count \in Nat /\ Window \in Nat
      BY <1>0, FetchAssumption DEF TypeOK
    <3>4. /\ completed_failed - cancelled = window_failures
          /\ window_failures = window_count + Cardinality(Noted) /\ ~(window_count >= Window)
      BY <1>0, <2>1, <3>1 DEF FirstWindow
    <3> QED
      BY <3>2, <3>3, <3>4
  <2> QED
    BY <1>0, <2>1 DEF CriticalFiresOnce, FiredOnce
<1> QED
  BY <1>1, <1>2, <1>3, <1>4

\* Every reachable state of the pool satisfies the inductive invariant.
THEOREM PoolInvariance == Spec => []PoolInv
BY PoolStart, PoolStep, PTL DEF Spec

\* The pool's words, rings and threads keep their types: the task queue within
\* its capacity, queued_ a machine word, sleepers_ never below zero or above the
\* number of workers.
THEOREM PoolTypeCorrect == Spec => []TypeOK
<1>1. PoolInv => TypeOK
  BY DEF PoolInv
<1> QED
  BY <1>1, PoolInvariance, PTL

\* The reader takes each file in plan order and with the answer it was given,
\* for every number of workers, streams and slots.
THEOREM FilesReadInOrder == Spec => []ReadInPlanOrder
BY PoolInvariance, PoolConsequences, PTL

\* quiesce() returns only when the workers have ended and every file that was
\* ever submitted is answered.
THEOREM QuiesceLeavesNothing == Spec => []QuiesceAnswersAll
BY PoolInvariance, PoolConsequences, PTL

\* The counters of a pool at rest add up, and no result was dropped.
THEOREM BooksReconcile == Spec => []CountsReconcile
BY PoolInvariance, PoolConsequences, PTL

\* queued_, modulo the machine word, is the number of tasks nobody has
\* uncounted yet, less the one that submit() has yet to count.
THEOREM QueuedIsExact == Spec => []QueuedTracksTasks
<1>1. PoolInv => QueuedTracksTasks
  BY DEF PoolInv
<1> QED
  BY <1>1, PoolInvariance, PTL

\* The critical callback fires once for the latched flag, and a first window
\* of failures latches it.
THEOREM CriticalLatched == Spec => []CriticalFiresOnce
BY PoolInvariance, PoolConsequences, PTL
-----------------------------------------------------------------------------
(* The client's inductive invariant.                                       *)

\* A caller holds a connection exactly while its request is out.
Holding == \A g \in Callers : gpc[g] = "request" <=> held[g] \in Conns

\* A Connection object is in the pool, or held by the caller that used it last.
Accounted ==
    \A c \in Conns : link[c] # "none" => \/ c \in IdleConns
                                         \/ user[c] \in Callers /\ held[user[c]] = c

Alone(g) == \A h \in Callers \ {g} : HostOf[h] # HostOf[g]

\* Before get() gives up it has met no failure but those of pooled connections.
\* A caller alone on its host finds at most one there, the one it released
\* last, so its second attempt dials.
AttemptsOf(g) ==
    /\ gpc[g] # "back" => ~freshFails[g]
    /\ gpc[g] = "dial" => ~reused[g]
    /\ gpc[g] = "out" => tries[g] = 0
    /\ Alone(g) => /\ Len(Pooled(g)) <= 1
                   /\ gpc[g] \in {"dial", "request", "again"} => Len(Pooled(g)) = 0
                   /\ (gpc[g] = "request" /\ reused[g]) => tries[g] = 0
                   /\ (HttpRetries > 0 /\ GivesUp(g)) => freshFails[g]

Attempts == \A g \in Callers : AttemptsOf(g)

ClientInv == ClientTypeOK /\ Holding /\ Accounted /\ Attempts

\* The sequences of idle connections, one per host.
LEMMA PooledFacts ==
  ASSUME ClientTypeOK, NEW g \in Callers
  PROVE  HostOf[g] \in Hosts /\ Pooled(g) \in Seq(Conns) /\ Len(Pooled(g)) \in Nat
  BY DEF ClientTypeOK, Pooled, Hosts

\* The Connection object dial() makes is none of those in use.
LEMMA NewConnFacts ==
  ASSUME ClientInv, \E c \in Conns : link[c] = "none"
  PROVE  NewConn \in Conns /\ link[NewConn] = "none"
<1> DEFINE T == {c \in Conns : link[c] = "none"}
<1>1. T # {} /\ T \subseteq Nat
  BY ClientAssumption DEF Conns
<1>2. PICK x \in T : \A y \in T : ~(<<y, x>> \in OpToRel(<, Nat))
  BY <1>1, NatLessThanWellFounded, WFMin
<1>3. ASSUME NEW y \in T
      PROVE  x <= y
  <2> SUFFICES ASSUME y < x
               PROVE  FALSE
    BY <1>1
  <2>1. <<y, x>> \in {ss \in Nat \X Nat : ss[1] < ss[2]}
    BY <1>1
  <2> QED
    BY <1>2, <2>1 DEF OpToRel
<1>4. x \in Conns /\ link[x] = "none" /\ \A d \in Conns : link[d] = "none" => x <= d
  BY <1>3
<1> QED
  BY <1>4 DEF NewConn
-----------------------------------------------------------------------------
(* Every step of the client preserves the invariant.                       *)

\* A step of one caller concerns no other's attempts.
LEMMA OthersAttempts ==
  ASSUME ClientInv, NEW g \in Callers, AttemptsOf(g)',
         \A h \in Callers \ {g} :
            /\ gpc'[h] = gpc[h] /\ tries'[h] = tries[h] /\ outcome'[h] = outcome[h]
            /\ (reused'[h] <=> reused[h]) /\ (freshFails'[h] <=> freshFails[h])
            /\ Alone(h) => Pooled(h)' = Pooled(h)
  PROVE  Attempts'
<1> SUFFICES ASSUME NEW h \in Callers \ {g}
             PROVE  AttemptsOf(h)'
  BY DEF Attempts
<1>1. AttemptsOf(h) /\ (Alone(h)' <=> Alone(h))
  BY DEF ClientInv, Attempts, Alone
<1> QED
  BY <1>1 DEF AttemptsOf, GivesUp

LEMMA AcquireStep ==
  ASSUME ClientInv, NEW g \in Callers, NEW here \in {"out", "again"}, Acquire(g, here)
  PROVE  ClientInv'
<1>0. /\ ClientTypeOK /\ gpc[g] = here /\ held[g] \notin Conns /\ held[g] = NoConn
      /\ UNCHANGED <<link, tries, outcome, freshFails>>
      /\ reused' = [reused EXCEPT ![g] = Pooled(g) # << >>]
  BY DEF ClientInv, Holding, ClientTypeOK, Acquire, Moves
<1>p. /\ HostOf[g] \in Hosts /\ Pooled(g) \in Seq(Conns) /\ Len(Pooled(g)) \in Nat
      /\ \A h \in Callers : HostOf[h] \in Hosts /\ Pooled(h) \in Seq(Conns) /\ Len(Pooled(h)) \in Nat
  BY <1>0, PooledFacts
<1>1. reused' \in [Callers -> BOOLEAN]
  BY <1>0 DEF ClientTypeOK
<1>2. CASE Pooled(g) = << >>
  <2>1. gpc' = [gpc EXCEPT ![g] = "dial"] /\ UNCHANGED <<held, user, idle>>
    BY <1>2 DEF Acquire, Moves
  <2>2. ClientTypeOK'
    BY <1>0, <1>1, <2>1 DEF ClientTypeOK
  <2>3. Holding'
    BY <1>0, <2>1 DEF ClientInv, ClientTypeOK, Holding
  <2>4. Accounted'
    BY <1>0, <2>1 DEF ClientInv, Accounted, IdleConns
  <2>5. Attempts'
    <3>1. /\ Len(Pooled(g)) = 0 /\ gpc'[g] = "dial" /\ ~reused'[g] /\ ~freshFails[g]
          /\ \A h \in Callers : Pooled(h)' = Pooled(h)
          /\ \A h \in Callers \ {g} : gpc'[h] = gpc[h] /\ (reused'[h] <=> reused[h])
      BY <1>0, <1>2, <2>1, EmptySeq DEF ClientInv, ClientTypeOK, Attempts, AttemptsOf, Pooled
    <3>2. AttemptsOf(g)'
      BY <1>0, <3>1 DEF AttemptsOf, GivesUp
    <3> QED
      BY <1>0, <3>1, <3>2, OthersAttempts
  <2> QED
    BY <2>2, <2>3, <2>4, <2>5 DEF ClientInv
<1>3. CASE Pooled(g) # << >>
  <2>0. PICK n \in Nat : n = Len(Pooled(g)) /\ n > 0 /\ Pooled(g)[n] \in Conns
    BY <1>p, <1>3, EmptySeq, ElementOfSeq
  <2>1. PICK last \in Conns : last = Pooled(g)[n]
    BY <2>0
  <2>2. /\ gpc' = [gpc EXCEPT ![g] = "request"]
        /\ held' = [held EXCEPT ![g] = last]
        /\ user' = [user EXCEPT ![last] = g]
        /\ idle' = [idle EXCEPT ![HostOf[g]] = SubSeq(Pooled(g), 1, n - 1)]
    BY <1>3, <2>0, <2>1 DEF Acquire, Moves, Pooled
  <2>3. /\ SubSeq(Pooled(g), 1, n - 1) \in Seq(Conns) /\ Len(SubSeq(Pooled(g), 1, n - 1)) = n - 1
        /\ \A i \in 1 .. n - 1 : SubSeq(Pooled(g), 1, n - 1)[i] = Pooled(g)[i]
    BY <1>p, <2>0
  <2>p. /\ idle'[HostOf[g]] = SubSeq(Pooled(g), 1, n - 1)
        /\ \A h \in Hosts \ {HostOf[g]} : idle'[h] = idle[h]
        /\ idle' \in [Hosts -> Seq(Conns)]
    BY <1>0, <1>p, <2>2, <2>3 DEF ClientTypeOK
  <2>4. ClientTypeOK'
    BY <1>0, <1>1, <2>2, <2>p DEF ClientTypeOK
  <2>5. Holding'
    BY <1>0, <2>2 DEF ClientInv, ClientTypeOK, Holding
  <2>6. Attempts'
    <3>a. AttemptsOf(g)
      BY DEF ClientInv, Attempts
    <3>b. gpc'[g] = "request" /\ Len(Pooled(g)') = n - 1
      BY <1>0, <2>2, <2>3, <2>p DEF ClientTypeOK, Pooled
    <3>c. ~freshFails[g] /\ (here = "out" => tries[g] = 0) /\ (Alone(g) => n = 1 /\ here = "out")
      BY <1>0, <2>0, <3>a DEF AttemptsOf
    <3>1. /\ gpc'[g] = "request" /\ ~freshFails[g] /\ Len(Pooled(g)') = n - 1
          /\ here = "out" => tries[g] = 0
          /\ Alone(g) => n = 1 /\ here = "out"
      BY <3>b, <3>c
    <3>2. ASSUME NEW h \in Callers \ {g}
          PROVE  /\ gpc'[h] = gpc[h] /\ (reused'[h] <=> reused[h])
                 /\ Alone(h) => Pooled(h)' = Pooled(h)
      BY <1>0, <1>p, <2>2, <2>p DEF ClientTypeOK, Alone, Pooled
    <3>3. AttemptsOf(g)'
      BY <1>0, <2>0, <3>1 DEF AttemptsOf, GivesUp, Alone
    <3> QED
      BY <1>0, <3>2, <3>3, OthersAttempts
  <2>7. Accounted'
    <3> SUFFICES ASSUME NEW c \in Conns, link[c] # "none"
                 PROVE  c \in IdleConns' \/ (user'[c] \in Callers /\ held'[user'[c]] = c)
      BY <1>0 DEF Accounted
    <3>1. CASE c = last
      BY <1>0, <2>2, <3>1 DEF ClientTypeOK
    <3>2. CASE c # last /\ c \in IdleConns
      <4>1. PICK h \in Hosts : \E i \in DOMAIN idle[h] : c = idle[h][i]
        BY <3>2 DEF IdleConns
      <4>2. CASE h # HostOf[g]
        BY <2>p, <4>1, <4>2 DEF IdleConns
      <4>3. CASE h = HostOf[g]
        <5>1. PICK i \in 1 .. n : c = Pooled(g)[i]
          BY <1>p, <2>0, <4>1, <4>3 DEF Pooled
        <5>2. i \in 1 .. n - 1
          BY <2>0, <2>1, <3>2, <5>1
        <5>3. i \in DOMAIN idle'[HostOf[g]] /\ c = idle'[HostOf[g]][i]
          BY <2>0, <2>3, <2>p, <5>1, <5>2
        <5> QED
          BY <1>p, <5>3 DEF IdleConns
      <4> QED
        BY <4>2, <4>3
    <3>3. CASE c # last /\ c \notin IdleConns
      <4>1. user[c] \in Callers /\ held[user[c]] = c
        BY <3>3 DEF ClientInv, Accounted
      <4>2. user[c] # g
        BY <1>0, <4>1
      <4> QED
        BY <1>0, <2>2, <3>3, <4>1, <4>2 DEF ClientTypeOK
    <3> QED
      BY <3>1, <3>2, <3>3
  <2> QED
    BY <2>4, <2>5, <2>6, <2>7 DEF ClientInv
<1> QED
  BY <1>2, <1>3

LEMMA DialConnectsStep ==
  ASSUME ClientInv, NEW g \in Callers, DialConnects(g)
  PROVE  ClientInv'
<1>0. /\ ClientTypeOK /\ gpc[g] = "dial" /\ held[g] \notin Conns
      /\ gpc' = [gpc EXCEPT ![g] = "request"]
      /\ UNCHANGED <<idle, reused, tries, outcome, freshFails>>
  BY DEF ClientInv, Holding, DialConnects, Moves
<1>1. PICK n \in Conns : n = NewConn /\ link[n] = "none"
  BY <1>0, NewConnFacts DEF DialConnects
<1>2. /\ held' = [held EXCEPT ![g] = n]
      /\ link' = [link EXCEPT ![n] = "live"]
      /\ user' = [user EXCEPT ![n] = g]
  BY <1>1 DEF DialConnects
<1>3. ClientTypeOK'
  BY <1>0, <1>2 DEF ClientTypeOK
<1>4. Holding'
  BY <1>0, <1>2 DEF ClientInv, ClientTypeOK, Holding
<1>a. Attempts'
  <2>1. AttemptsOf(g)'
    BY <1>0 DEF ClientInv, ClientTypeOK, Attempts, AttemptsOf, GivesUp, Alone, Pooled
  <2> QED
    BY <1>0, <2>1, OthersAttempts DEF ClientTypeOK, Pooled
<1>5. Accounted'
  <2> SUFFICES ASSUME NEW c \in Conns, link'[c] # "none"
               PROVE  c \in IdleConns' \/ (user'[c] \in Callers /\ held'[user'[c]] = c)
    BY DEF Accounted
  <2>1. CASE c = n
    BY <1>0, <1>2, <2>1 DEF ClientTypeOK
  <2>2. CASE c # n
    <3>1. c \in IdleConns \/ (user[c] \in Callers /\ held[user[c]] = c /\ user[c] # g)
      BY <1>0, <1>2, <2>2 DEF ClientInv, Accounted, ClientTypeOK
    <3> QED
      BY <1>0, <1>2, <2>2, <3>1 DEF ClientTypeOK, IdleConns
  <2> QED
    BY <2>1, <2>2
<1> QED
  BY <1>3, <1>4, <1>a, <1>5 DEF ClientInv

\* A connection given back or destroyed leaves the others accounted for.
LEMMA LetGo ==
  ASSUME ClientInv, NEW g \in Callers, gpc[g] = "request",
         held' = [held EXCEPT ![g] = NoConn], gpc'[g] # "request",
         gpc' = [gpc EXCEPT ![g] = gpc'[g]],
         \/ idle' = idle /\ Destroy(held[g])
         \/ /\ idle' = [idle EXCEPT ![HostOf[g]] = Append(Pooled(g), held[g])]
            /\ UNCHANGED <<link, user>>
  PROVE  /\ idle' \in [Hosts -> Seq(Conns)] /\ link' \in [Conns -> {"none", "live", "closed"}]
         /\ held' \in [Callers -> Conns \cup {NoConn}] /\ user' \in [Conns -> Callers \cup {NoConn}]
         /\ Holding' /\ Accounted'
         /\ Len(Pooled(g)') <= Len(Pooled(g)) + 1
         /\ \A h \in Callers \ {g} : Alone(h) => Pooled(h)' = Pooled(h)
<1>0. ClientTypeOK
  BY DEF ClientInv
<1>p. HostOf[g] \in Hosts /\ Pooled(g) \in Seq(Conns) /\ Len(Pooled(g)) \in Nat
  BY <1>0, PooledFacts
<1>1. PICK n \in Conns : n = held[g]
  BY DEF ClientInv, Holding
<1>2. held' \in [Callers -> Conns \cup {NoConn}]
  BY <1>0 DEF ClientTypeOK
<1>3. Holding'
  BY <1>0, ClientAssumption DEF ClientInv, ClientTypeOK, Holding
<1>4. CASE idle' = idle /\ Destroy(held[g])
  <2>1. link' = [link EXCEPT ![n] = "none"] /\ user' = [user EXCEPT ![n] = NoConn] /\ idle' = idle
    BY <1>1, <1>4 DEF Destroy
  <2>2. /\ link' \in [Conns -> {"none", "live", "closed"}]
        /\ user' \in [Conns -> Callers \cup {NoConn}]
    BY <1>0, <2>1 DEF ClientTypeOK
  <2>3. Accounted'
    <3> SUFFICES ASSUME NEW c \in Conns, link'[c] # "none"
                 PROVE  c \in IdleConns' \/ (user'[c] \in Callers /\ held'[user'[c]] = c)
      BY DEF Accounted
    <3>1. c # n /\ link[c] # "none" /\ user'[c] = user[c]
      BY <1>0, <2>1 DEF ClientTypeOK
    <3>2. c \in IdleConns \/ (user[c] \in Callers /\ held[user[c]] = c /\ user[c] # g)
      BY <1>1, <3>1 DEF ClientInv, Accounted
    <3> QED
      BY <1>0, <2>1, <3>1, <3>2 DEF IdleConns, ClientTypeOK
  <2>4. \A h \in Callers : Pooled(h)' = Pooled(h)
    BY <2>1 DEF Pooled
  <2> QED
    BY <1>0, <1>p, <1>2, <1>3, <2>1, <2>2, <2>3, <2>4 DEF ClientTypeOK
<1>5. CASE /\ idle' = [idle EXCEPT ![HostOf[g]] = Append(Pooled(g), held[g])]
           /\ UNCHANGED <<link, user>>
  <2> DEFINE fuller == Append(Pooled(g), n)
  <2>1. /\ fuller \in Seq(Conns) /\ Len(fuller) = Len(Pooled(g)) + 1
        /\ \A i \in 1 .. Len(Pooled(g)) : fuller[i] = Pooled(g)[i]
        /\ fuller[Len(Pooled(g)) + 1] = n
    BY <1>p, <1>1, AppendProperties
  <2> HIDE DEF fuller
  <2>p. /\ idle'[HostOf[g]] = fuller /\ Pooled(g)' = fuller
        /\ \A h \in Hosts \ {HostOf[g]} : idle'[h] = idle[h]
        /\ idle' \in [Hosts -> Seq(Conns)]
    BY <1>0, <1>p, <1>1, <1>5, <2>1 DEF ClientTypeOK, fuller, Pooled
  <2>2. n \in IdleConns' /\ \A c \in IdleConns : c \in IdleConns'
    <3>1. n \in IdleConns'
      BY <1>p, <2>1, <2>p DEF IdleConns
    <3>2. ASSUME NEW c \in IdleConns PROVE c \in IdleConns'
      <4>1. PICK h \in Hosts : \E i \in DOMAIN idle[h] : c = idle[h][i]
        BY DEF IdleConns
      <4>2. CASE h # HostOf[g]
        BY <2>p, <4>1, <4>2 DEF IdleConns
      <4>3. CASE h = HostOf[g]
        <5>1. PICK i \in 1 .. Len(Pooled(g)) : c = Pooled(g)[i]
          BY <1>p, <4>1, <4>3 DEF Pooled
        <5>2. i \in DOMAIN idle'[HostOf[g]] /\ c = idle'[HostOf[g]][i]
          BY <1>p, <2>1, <2>p, <5>1
        <5> QED
          BY <1>p, <5>2 DEF IdleConns
      <4> QED
        BY <4>2, <4>3
    <3> QED
      BY <3>1, <3>2
  <2>3. Accounted'
    <3> SUFFICES ASSUME NEW c \in Conns, link[c] # "none"
                 PROVE  c \in IdleConns' \/ (user[c] \in Callers /\ held'[user[c]] = c)
      BY <1>5 DEF Accounted
    <3>1. c \in IdleConns \/ (user[c] \in Callers /\ held[user[c]] = c)
      BY DEF ClientInv, Accounted
    <3>2. CASE user[c] = g
      BY <1>1, <2>2, <3>1, <3>2
    <3>3. CASE user[c] # g
      BY <1>0, <2>2, <3>1, <3>3 DEF ClientTypeOK
    <3> QED
      BY <3>2, <3>3
  <2>4. ASSUME NEW h \in Callers \ {g}, Alone(h) PROVE Pooled(h)' = Pooled(h)
    <3>1. HostOf[h] \in Hosts /\ HostOf[h] # HostOf[g]
      BY <1>0, <2>4, PooledFacts DEF Alone
    <3> QED
      BY <2>p, <3>1 DEF Pooled
  <2> QED
    BY <1>0, <1>p, <1>2, <1>3, <1>5, <2>1, <2>p, <2>3, <2>4 DEF ClientTypeOK
<1> QED
  BY <1>4, <1>5

LEMMA RequestFailsStep ==
  ASSUME ClientInv, NEW g \in Callers, RequestFails(g)
  PROVE  ClientInv'
<1>0. /\ ClientTypeOK /\ gpc[g] = "request" /\ Destroy(held[g]) /\ UNCHANGED <<idle, reused>>
      /\ AttemptsOf(g) /\ ~freshFails[g]
      /\ tries[g] \in 0 .. HttpRetries /\ HttpRetries \in Nat /\ reused[g] \in BOOLEAN
  BY ClientAssumption DEF ClientInv, Attempts, AttemptsOf, ClientTypeOK, RequestFails
<1>1. freshFails' = [freshFails EXCEPT ![g] = @ \/ ~reused[g]]
  BY DEF RequestFails
<1>2. freshFails' \in [Callers -> BOOLEAN]
  BY <1>0, <1>1 DEF ClientTypeOK
<1>p. /\ \A h \in Callers : Pooled(h)' = Pooled(h)
      /\ \A h \in Callers \ {g} : freshFails'[h] <=> freshFails[h]
      /\ Alone(g)' <=> Alone(g)
  BY <1>0, <1>1 DEF Pooled, Alone, ClientTypeOK
<1>3. CASE RetryRequest(g)
  <2>1. /\ gpc' = [gpc EXCEPT ![g] = "again"] /\ held' = [held EXCEPT ![g] = NoConn]
        /\ tries' = [tries EXCEPT ![g] = @ + 1] /\ UNCHANGED outcome
        /\ reused[g] /\ tries[g] < HttpRetries
    BY <1>3 DEF RequestFails, Moves, RetryRequest
  <2>2. /\ idle' \in [Hosts -> Seq(Conns)] /\ link' \in [Conns -> {"none", "live", "closed"}]
        /\ held' \in [Callers -> Conns \cup {NoConn}] /\ user' \in [Conns -> Callers \cup {NoConn}]
        /\ Holding' /\ Accounted'
    BY <1>0, <2>1, LetGo DEF ClientTypeOK
  <2>3. tries' \in [Callers -> 0 .. HttpRetries]
    BY <1>0, <2>1 DEF ClientTypeOK
  <2>4. ClientTypeOK'
    BY <1>0, <1>2, <2>1, <2>2, <2>3 DEF ClientTypeOK
  <2>5. AttemptsOf(g)'
    <3>1. gpc'[g] = "again" /\ ~freshFails'[g]
      BY <1>0, <1>1, <2>1 DEF ClientTypeOK
    <3> QED
      BY <1>0, <1>p, <3>1 DEF AttemptsOf, GivesUp
  <2>6. Attempts'
    BY <1>0, <1>p, <2>1, <2>5, OthersAttempts DEF ClientTypeOK
  <2> QED
    BY <2>2, <2>4, <2>6 DEF ClientInv
<1>4. CASE ~RetryRequest(g)
  <2>1. /\ gpc' = [gpc EXCEPT ![g] = "back"] /\ held' = [held EXCEPT ![g] = NoConn]
        /\ outcome' = [outcome EXCEPT ![g] = "TransportError"] /\ UNCHANGED tries
    BY <1>4 DEF RequestFails, EndGet, Moves
  <2>2. /\ idle' \in [Hosts -> Seq(Conns)] /\ link' \in [Conns -> {"none", "live", "closed"}]
        /\ held' \in [Callers -> Conns \cup {NoConn}] /\ user' \in [Conns -> Callers \cup {NoConn}]
        /\ Holding' /\ Accounted'
    BY <1>0, <2>1, LetGo DEF ClientTypeOK
  <2>3. ClientTypeOK'
    BY <1>0, <1>2, <2>1, <2>2 DEF ClientTypeOK, GetOutcomes
  <2>4. (Alone(g) /\ HttpRetries > 0) => freshFails'[g]
    <3>1. CASE reused[g]
      BY <1>0, <1>4, <3>1 DEF RetryRequest, AttemptsOf
    <3>2. CASE ~reused[g]
      BY <1>0, <1>1, <3>2 DEF ClientTypeOK
    <3> QED
      BY <3>1, <3>2
  <2>5. AttemptsOf(g)'
    <3>1. gpc'[g] = "back"
      BY <1>0, <2>1 DEF ClientTypeOK
    <3> QED
      BY <1>0, <1>p, <2>4, <3>1 DEF AttemptsOf
  <2>6. Attempts'
    BY <1>0, <1>p, <2>1, <2>5, OthersAttempts DEF ClientTypeOK
  <2> QED
    BY <2>2, <2>3, <2>6 DEF ClientInv
<1> QED
  BY <1>3, <1>4

\* A response, of whatever kind.
LEMMA ResponseStep ==
  ASSUME ClientInv, NEW g \in Callers, Answers2xx(g) \/ AnswersError(g)
  PROVE  ClientInv'
<1>0. /\ ClientTypeOK /\ gpc[g] = "request" /\ AttemptsOf(g)
      /\ UNCHANGED <<reused, tries, freshFails>>
  BY DEF ClientInv, Attempts, Answers2xx, AnswersError
<1>1. PICK o \in {"Ok", "NotFound", "ServerError"} : o \in GetOutcomes /\ EndGet(g, "request", o)
  BY ClientAssumption DEF Answers2xx, AnswersError, GetOutcomes
<1>2. /\ gpc' = [gpc EXCEPT ![g] = "back"] /\ held' = [held EXCEPT ![g] = NoConn]
      /\ outcome' = [outcome EXCEPT ![g] = o]
  BY <1>1 DEF EndGet, Moves
<1>3. \/ idle' = idle /\ Destroy(held[g])
      \/ /\ idle' = [idle EXCEPT ![HostOf[g]] = Append(Pooled(g), held[g])]
         /\ UNCHANGED <<link, user>>
  BY DEF Answers2xx, AnswersError, Pooled
<1>4. /\ idle' \in [Hosts -> Seq(Conns)] /\ link' \in [Conns -> {"none", "live", "closed"}]
      /\ held' \in [Callers -> Conns \cup {NoConn}] /\ user' \in [Conns -> Callers \cup {NoConn}]
      /\ Holding' /\ Accounted'
      /\ Len(Pooled(g)') <= Len(Pooled(g)) + 1
      /\ \A h \in Callers \ {g} : Alone(h) => Pooled(h)' = Pooled(h)
  BY <1>0, <1>2, <1>3, LetGo DEF ClientTypeOK
<1>5. ClientTypeOK'
  BY <1>0, <1>1, <1>2, <1>4 DEF ClientTypeOK
<1>6. AttemptsOf(g)'
  <2>1. gpc'[g] = "back" /\ outcome'[g] = o /\ (Alone(g)' <=> Alone(g))
    BY <1>0, <1>2 DEF ClientTypeOK, Alone
  <2>2. Len(Pooled(g)) \in Nat /\ Len(Pooled(g)') \in Nat
    BY <1>0, <1>5, PooledFacts DEF ClientTypeOK, Pooled
  <2> QED
    BY <1>0, <1>4, <2>1, <2>2 DEF AttemptsOf, GivesUp
<1>7. Attempts'
  BY <1>0, <1>2, <1>4, <1>6, OthersAttempts DEF ClientTypeOK
<1> QED
  BY <1>4, <1>5, <1>7 DEF ClientInv

LEMMA DialFailsStep ==
  ASSUME ClientInv, NEW g \in Callers, DialFails(g)
  PROVE  ClientInv'
<1>0. /\ ClientTypeOK /\ gpc[g] = "dial" /\ held[g] \notin Conns /\ AttemptsOf(g)
      /\ gpc' = [gpc EXCEPT ![g] = "back"] /\ held' = [held EXCEPT ![g] = NoConn]
      /\ outcome' = [outcome EXCEPT ![g] = "TransportError"]
      /\ freshFails' = [freshFails EXCEPT ![g] = TRUE]
      /\ UNCHANGED <<idle, link, reused, tries, user>>
  BY DEF ClientInv, Attempts, Holding, DialFails, EndGet, Moves
<1>1. held' = held
  BY <1>0 DEF ClientTypeOK
<1>2. ClientTypeOK'
  BY <1>0, <1>1 DEF ClientTypeOK, GetOutcomes
<1>3. Holding'
  BY <1>0, <1>1 DEF ClientInv, ClientTypeOK, Holding
<1>4. Accounted'
  BY <1>0, <1>1 DEF ClientInv, Accounted, IdleConns
<1>5. Attempts'
  <2>1. AttemptsOf(g)'
    BY <1>0 DEF ClientTypeOK, AttemptsOf, Pooled, Alone
  <2> QED
    BY <1>0, <2>1, OthersAttempts DEF ClientTypeOK, Pooled
<1> QED
  BY <1>2, <1>3, <1>4, <1>5 DEF ClientInv

LEMMA GetReturnsStep ==
  ASSUME ClientInv, NEW g \in Callers, GetReturns(g)
  PROVE  ClientInv'
<1>0. /\ ClientTypeOK /\ gpc[g] = "back" /\ gpc' = [gpc EXCEPT ![g] = "out"] /\ AttemptsOf(g)
      /\ reused' = [reused EXCEPT ![g] = FALSE] /\ tries' = [tries EXCEPT ![g] = 0]
      /\ outcome' = [outcome EXCEPT ![g] = "Ok"]
      /\ freshFails' = [freshFails EXCEPT ![g] = FALSE]
      /\ UNCHANGED <<idle, link, held, user>>
  BY DEF ClientInv, Attempts, GetReturns, Moves
<1>1. ClientTypeOK'
  BY <1>0, ClientAssumption DEF ClientTypeOK, GetOutcomes
<1>2. Holding'
  BY <1>0 DEF ClientInv, ClientTypeOK, Holding
<1>3. Accounted'
  BY <1>0 DEF ClientInv, Accounted, IdleConns
<1>4. Attempts'
  <2>1. AttemptsOf(g)'
    BY <1>0 DEF ClientTypeOK, AttemptsOf, Pooled, Alone, GivesUp
  <2> QED
    BY <1>0, <2>1, OthersAttempts DEF ClientTypeOK, Pooled
<1> QED
  BY <1>1, <1>2, <1>3, <1>4 DEF ClientInv

LEMMA CloseIdleStep ==
  ASSUME ClientInv, CloseIdle
  PROVE  ClientInv'
<1>0. /\ ClientTypeOK /\ idle' = [h \in Hosts |-> << >>]
      /\ link' = [c \in Conns |-> IF c \in IdleConns THEN "none" ELSE link[c]]
      /\ user' = [c \in Conns |-> IF c \in IdleConns THEN NoConn ELSE user[c]]
      /\ UNCHANGED <<gpc, held, reused, tries, outcome, freshFails>>
  BY DEF ClientInv, CloseIdle
<1>1. idle' \in [Hosts -> Seq(Conns)] /\ \A g \in Callers : Len(Pooled(g)') = 0
  BY <1>0, EmptySeq DEF Hosts, Pooled
<1>2. ClientTypeOK'
  BY <1>0, <1>1 DEF ClientTypeOK
<1>3. Holding'
  BY <1>0 DEF ClientInv, Holding
<1>4. Accounted'
  BY <1>0 DEF ClientInv, Accounted
<1>5. Attempts'
  BY <1>0, <1>1 DEF ClientInv, Attempts, AttemptsOf, Alone, GivesUp
<1> QED
  BY <1>2, <1>3, <1>4, <1>5 DEF ClientInv

LEMMA ServerClosesStep ==
  ASSUME ClientInv, ServerCloses
  PROVE  ClientInv'
<1>0. /\ ClientTypeOK
      /\ UNCHANGED <<idle, gpc, held, reused, tries, outcome, user, freshFails>>
  BY DEF ClientInv, ServerCloses
<1>1. PICK c \in IdleConns : link[c] = "live" /\ link' = [link EXCEPT ![c] = "closed"]
  BY DEF ServerCloses
<1>2. ClientTypeOK'
  BY <1>0, <1>1 DEF ClientTypeOK
<1>3. Holding'
  BY <1>0 DEF ClientInv, Holding
<1>4. Accounted'
  BY <1>0, <1>1 DEF ClientInv, ClientTypeOK, Accounted, IdleConns
<1>5. Attempts'
  BY <1>0 DEF ClientInv, Attempts, AttemptsOf, Alone, GivesUp, Pooled
<1> QED
  BY <1>2, <1>3, <1>4, <1>5 DEF ClientInv

\* One of the client's steps, or none.
ClientStep == \/ \E g \in Callers : Get(g) \/ GetStep(g) \/ GetReturns(g)
              \/ CloseIdle \/ ServerCloses
              \/ UNCHANGED clientVars

LEMMA ClientPreserved ==
  ASSUME ClientInv, ClientStep
  PROVE  ClientInv'
<1>1. ASSUME UNCHANGED clientVars
      PROVE  ClientInv'
  BY <1>1 DEF ClientInv, ClientTypeOK, Holding, Accounted, IdleConns, Attempts, AttemptsOf, Alone, Pooled,
     GivesUp, clientVars
<1> QED
  BY <1>1, AcquireStep, DialConnectsStep, DialFailsStep, RequestFailsStep, ResponseStep,
     GetReturnsStep, CloseIdleStep, ServerClosesStep DEF ClientStep, Get, GetStep

\* Whatever the pool does, the client takes a step of its own or none.
LEMMA FetchClientStep ==
  ASSUME [FetchNext]_fetchVars
  PROVE  ClientStep
<1>1. Workers \subseteq Callers /\ Listers \subseteq Callers
  BY CompositionAssumption
<1> QED
  BY <1>1 DEF FetchNext, fetchVars, PoolReader, PoolWorker, FetchBegins, FetchSteps, FetchEnds,
     ListingBegins, ListingSteps, PoolShutdown, Server, ClientStep

LEMMA ClientInitInv ==
  ASSUME ClientInit
  PROVE  ClientInv
<1>1. idle \in [Hosts -> Seq(Conns)] /\ \A g \in Callers : Len(Pooled(g)) = 0
  BY EmptySeq DEF ClientInit, Pooled, Hosts
<1>2. ClientTypeOK
  BY <1>1, ClientAssumption DEF ClientInit, ClientTypeOK, GetOutcomes
<1>3. Holding /\ Accounted /\ Attempts
  BY <1>1, ClientAssumption DEF ClientInit, Holding, Accounted, Attempts, AttemptsOf, GivesUp
<1> QED
  BY <1>2, <1>3 DEF ClientInv

\* The client's invariant holds whatever pool, listers and server do.
THEOREM ClientInvariance == FetchSpec => []ClientInv
<1>1. FetchInit => ClientInv
  BY ClientInitInv DEF FetchInit
<1>2. ClientInv /\ [FetchNext]_fetchVars => ClientInv'
  BY FetchClientStep, ClientPreserved
<1> QED
  BY <1>1, <1>2, PTL DEF FetchSpec

\* get() on a host nobody else asks throws HttpTransportError only after a
\* failure that was not a dead pooled connection's.
THEOREM LoneCallerRedials == FetchSpec => []RedialsWhenAlone
<1>1. ClientInv => RedialsWhenAlone
  BY DEF ClientInv, Attempts, AttemptsOf, Alone, RedialsWhenAlone
<1> QED
  BY <1>1, ClientInvariance, PTL
-----------------------------------------------------------------------------
(* The pool on the client implements the pool.                             *)

\* Every step of the composition is a step of the pool, or none: the end of a
\* get() is the fetch, with an outcome the pool is prepared for.
LEMMA FetchPoolStep ==
  ASSUME ClientInv, [FetchNext]_fetchVars
  PROVE  [Next]_vars
<1>0. Workers \subseteq Callers
  BY CompositionAssumption
<1>1. CASE PoolReader
  BY <1>1 DEF PoolReader, Next
<1>2. ASSUME NEW w \in Workers, PoolWorker(w)
      PROVE  [Next]_vars
  <2>1. CASE WorkerLoop(w)
    BY <2>1 DEF Next, Worker
  <2>2. CASE FetchBegins(w) \/ FetchSteps(w)
    BY <2>2 DEF FetchBegins, FetchSteps
  <2>3. CASE FetchEnds(w)
    <3>1. outcome[w] \in GetOutcomes
      BY <1>0 DEF ClientInv, ClientTypeOK
    <3>2. StatusOf(outcome[w]) \subseteq Outcomes
      BY <3>1, CompositionAssumption DEF GetOutcomes, StatusOf
    <3> QED
      BY <2>3, <3>2 DEF FetchEnds, Next, Worker
  <2> QED
    BY <1>2, <2>1, <2>2, <2>3 DEF PoolWorker
<1>3. ASSUME NEW g \in Listers, ListingBegins(g) \/ ListingSteps(g)
      PROVE  [Next]_vars
  BY <1>3 DEF ListingBegins, ListingSteps
<1>4. ASSUME NEW q \in Quiescers, Quiesce(q) \/ PoolShutdown(q)
      PROVE  [Next]_vars
  BY <1>4 DEF PoolShutdown, Shutdown, Next
<1>5. CASE Server \/ UNCHANGED fetchVars
  BY <1>5 DEF Server, fetchVars
<1> QED
  BY <1>1, <1>2, <1>3, <1>4, <1>5 DEF FetchNext

\* The fetch pool that calls http::get step by step implements the pool that
\* fetches in one step, so that every theorem about Spec is one about FetchSpec.
THEOREM FetchImplementsPool == FetchSpec => Spec
<1>1. FetchInit => Init
  BY DEF FetchInit
<1>2. ClientInv /\ [FetchNext]_fetchVars => [Next]_vars
  BY FetchPoolStep
<1> QED
  BY <1>1, <1>2, ClientInvariance, PTL DEF FetchSpec, Spec
-----------------------------------------------------------------------------
(* The shutdown.                                                           *)

\* A worker is inside get() only while it fetches.
FetchingInGet == \A w \in Workers : gpc[w] # "out" => wpc[w] = "fetch"

Closed == quiesced => \A c \in Conns : link[c] # "none" => user[c] \in Listers

ShutdownInv == ClientInv /\ PoolInv /\ FetchingInGet /\ Closed

\* While a worker is at work nobody is past the join.
LEMMA BeforeJoin ==
  ASSUME PoolInv, NEW w \in Workers, wpc[w] # "ended"
  PROVE  ~quiesced
  BY DEF PoolInv, ThreadInv, AllEnded

\* What a worker's own steps do to the threads: only the end of a fetch leaves
\* "fetch", and nothing leaves "ended".
LEMMA WorkerMoves ==
  ASSUME NEW w \in Workers, WorkerLoop(w)
  PROVE  /\ wpc[w] \notin {"ended", "fetch"}
         /\ \E there : wpc' = [wpc EXCEPT ![w] = there]
         /\ UNCHANGED <<qpc, quiesced>>
<1>1. CASE WorkerTest(w)
  BY <1>1 DEF WorkerTest, At, quiesceVars
<1>2. CASE WorkerPop(w)
  BY <1>2 DEF WorkerPop, At, quiesceVars
<1>3. CASE WorkerUncount(w)
  BY <1>3 DEF WorkerUncount, At, quiesceVars
<1>4. CASE WorkerLock(w)
  BY <1>4 DEF WorkerLock, At, quiesceVars
<1>5. CASE WorkerPredicate(w)
  BY <1>5 DEF WorkerPredicate, At, quiesceVars
<1>6. CASE WorkerPark(w) \/ WorkerWake(w)
  BY <1>6 DEF WorkerPark, WorkerWake, At, quiesceVars
<1>7. CASE WorkerNote(w) \/ WorkerWindow(w)
  BY <1>7 DEF WorkerNote, WorkerWindow, At, quiesceVars
<1>8. CASE WorkerExchange(w) \/ WorkerReset(w) \/ WorkerTrip(w)
  BY <1>8 DEF WorkerExchange, WorkerReset, WorkerTrip, At, quiesceVars
<1>9. CASE WorkerDeliver(w)
  BY <1>9 DEF WorkerDeliver, At, quiesceVars
<1>10. CASE WorkerStamp(w)
  BY <1>10 DEF WorkerStamp, At, quiesceVars
<1> QED
  BY <1>1, <1>2, <1>3, <1>4, <1>5, <1>6, <1>7, <1>8, <1>9, <1>10 DEF WorkerLoop

LEMMA ReaderMoves ==
  ASSUME Reader
  PROVE  UNCHANGED <<wpc, qpc, quiesced>>
  BY DEF Reader, NextCall, Pump, SubmitTest, SubmitPush, SubmitCount, SubmitNotify, SubmitLeave,
     SubmitRefused, TakeFile, FreeSlot, workerVars, quiesceVars

\* A caller's step gives a connection to nobody but itself.
LEMMA CallerTakes ==
  ASSUME ClientInv, NEW g \in Callers, Get(g) \/ GetStep(g) \/ GetReturns(g)
  PROVE  /\ \A c \in Conns : link'[c] # "none" => user'[c] = g \/ (link[c] # "none" /\ user'[c] = user[c])
         /\ \A h \in Callers : h # g => gpc'[h] = gpc[h]
<1>0. ClientTypeOK
  BY DEF ClientInv
<1>1. CASE Get(g) \/ Acquire(g, "again")
  <2>1. link' = link /\ (gpc' = [gpc EXCEPT ![g] = "request"] \/ gpc' = [gpc EXCEPT ![g] = "dial"])
    BY <1>1 DEF Get, Acquire, Moves
  <2>2. user' = user \/ \E c : user' = [user EXCEPT ![c] = g]
    BY <1>1 DEF Get, Acquire
  <2> QED
    BY <1>0, <2>1, <2>2 DEF ClientTypeOK
<1>2. CASE DialConnects(g)
  BY <1>0, <1>2 DEF ClientTypeOK, DialConnects, Moves
<1>3. CASE DialFails(g) \/ GetReturns(g)
  BY <1>0, <1>3 DEF ClientTypeOK, DialFails, GetReturns, EndGet, Moves
<1>4. CASE RequestFails(g) \/ Answers2xx(g) \/ AnswersError(g)
  <2>1. \/ link' = link /\ user' = user
        \/ Destroy(held[g])
    BY <1>4 DEF RequestFails, Answers2xx, AnswersError
  <2>2. gpc' = [gpc EXCEPT ![g] = "again"] \/ gpc' = [gpc EXCEPT ![g] = "back"]
    BY <1>4 DEF RequestFails, Answers2xx, AnswersError, EndGet, Moves
  <2> QED
    BY <1>0, <2>1, <2>2 DEF ClientTypeOK, Destroy
<1> QED
  BY <1>1, <1>2, <1>3, <1>4 DEF GetStep

\* A caller that takes a step of get() other than its first is inside it.
LEMMA InsideGet ==
  ASSUME NEW g \in Callers, GetStep(g) \/ GetReturns(g)
  PROVE  gpc[g] # "out"
  BY DEF GetStep, GetReturns, Acquire, DialConnects, DialFails, RequestFails, Answers2xx,
     AnswersError, EndGet, Moves

\* quiesce() once every worker has ended: what is left open is the listers'.
LEMMA EndClosesWorkers ==
  ASSUME ShutdownInv, CloseIdle, \A w \in Workers : wpc[w] = "ended"
  PROVE  \A c \in Conns : link'[c] # "none" => user'[c] \in Listers
<1> SUFFICES ASSUME NEW c \in Conns, link'[c] # "none"
             PROVE  user'[c] \in Listers
  OBVIOUS
<1>1. c \notin IdleConns /\ link[c] # "none" /\ user'[c] = user[c]
  BY DEF CloseIdle
<1>2. user[c] \in Callers /\ held[user[c]] = c
  BY <1>1 DEF ShutdownInv, ClientInv, Accounted
<1>3. gpc[user[c]] = "request"
  BY <1>2 DEF ShutdownInv, ClientInv, Holding
<1>4. user[c] \notin Workers
  BY <1>3 DEF ShutdownInv, FetchingInGet
<1> QED
  BY <1>1, <1>2, <1>4, CompositionAssumption

LEMMA ShutdownStep ==
  ASSUME ShutdownInv, [FetchNext]_fetchVars
  PROVE  ShutdownInv'
<1>0. /\ ClientInv /\ ClientTypeOK /\ PoolInv /\ FetchingInGet /\ Closed
      /\ Workers \subseteq Callers /\ Listers \subseteq Callers /\ Workers \cap Listers = {}
      /\ wpc \in [Workers -> WorkerPcs]
  BY CompositionAssumption DEF ShutdownInv, ClientInv, PoolInv, TypeOK
<1>i. ClientInv' /\ PoolInv'
  BY <1>0, FetchClientStep, ClientPreserved, FetchPoolStep, PoolStep
<1>1. ASSUME UNCHANGED <<wpc, quiesced>>, UNCHANGED clientVars
      PROVE  FetchingInGet' /\ Closed'
  BY <1>0, <1>1 DEF FetchingInGet, Closed, clientVars
<1>2. ASSUME PoolReader PROVE FetchingInGet' /\ Closed'
  BY <1>1, <1>2, ReaderMoves DEF PoolReader
<1>3. ASSUME NEW w \in Workers, WorkerLoop(w), UNCHANGED clientVars
      PROVE  FetchingInGet' /\ Closed'
  <2>1. /\ wpc[w] \notin {"ended", "fetch"} /\ UNCHANGED <<qpc, quiesced>>
        /\ \E there : wpc' = [wpc EXCEPT ![w] = there]
    BY <1>3, WorkerMoves
  <2>2. ~quiesced
    BY <1>0, <2>1, BeforeJoin
  <2>3. gpc'[w] = "out" /\ gpc' = gpc
    BY <1>0, <1>3, <2>1 DEF FetchingInGet, clientVars
  <2> QED
    BY <1>0, <2>1, <2>2, <2>3 DEF FetchingInGet, Closed
<1>4. ASSUME NEW w \in Workers, FetchBegins(w) \/ FetchSteps(w) \/ FetchEnds(w)
      PROVE  FetchingInGet' /\ Closed'
  <2>1. wpc[w] = "fetch" /\ (Get(w) \/ GetStep(w) \/ GetReturns(w))
    BY <1>0, <1>4, InsideGet DEF FetchBegins, FetchSteps, FetchEnds, FetchingInGet
  <2>2. ~quiesced
    BY <1>0, <2>1, BeforeJoin
  <2>3. \A h \in Callers : h # w => gpc'[h] = gpc[h]
    BY <1>0, <2>1, CallerTakes
  <2>4. /\ UNCHANGED quiesced
        /\ \/ wpc' = wpc
           \/ gpc'[w] = "out" /\ \E there : wpc' = [wpc EXCEPT ![w] = there]
    <3>1. CASE FetchBegins(w) \/ FetchSteps(w)
      BY <3>1 DEF FetchBegins, FetchSteps, vars, workerVars, quiesceVars
    <3>2. CASE FetchEnds(w)
      BY <1>0, <3>2 DEF FetchEnds, GetReturns, Moves, WorkerFetch, At, quiesceVars, ClientTypeOK
    <3> QED
      BY <1>4, <3>1, <3>2
  <2> QED
    BY <1>0, <2>1, <2>2, <2>3, <2>4 DEF FetchingInGet, Closed
<1>5. ASSUME NEW g \in Listers, ListingBegins(g) \/ ListingSteps(g)
      PROVE  FetchingInGet' /\ Closed'
  <2>1. Get(g) \/ GetStep(g) \/ GetReturns(g)
    BY <1>5 DEF ListingBegins, ListingSteps
  <2>2. UNCHANGED <<wpc, quiesced>>
    BY <1>5 DEF ListingBegins, ListingSteps, vars, workerVars, quiesceVars
  <2>3. /\ \A c \in Conns : link'[c] # "none" => user'[c] = g \/ (link[c] # "none" /\ user'[c] = user[c])
        /\ \A h \in Callers : h # g => gpc'[h] = gpc[h]
    BY <1>0, <2>1, CallerTakes
  <2>4. Closed'
    BY <1>0, <2>2, <2>3 DEF Closed
  <2>5. FetchingInGet'
    BY <1>0, <2>2, <2>3 DEF FetchingInGet
  <2> QED
    BY <2>4, <2>5
<1>6. ASSUME NEW q \in Quiescers, Quiesce(q), UNCHANGED clientVars
      PROVE  FetchingInGet' /\ Closed'
  BY <1>1, <1>6 DEF Quiesce, workerVars
<1>7. ASSUME NEW q \in Quiescers, PoolShutdown(q)
      PROVE  FetchingInGet' /\ Closed'
  <2>1. CASE EndQuiesce(q) /\ CloseIdle
    <3>1. wpc' = wpc /\ qpc[q] = "drain" /\ gpc' = gpc
      BY <2>1 DEF EndQuiesce, Goes, workerVars, CloseIdle
    <3>2. \A w \in Workers : wpc[w] = "ended"
      BY <1>0, <3>1 DEF PoolInv, ThreadInv, AllEnded
    <3>3. Closed'
      BY <2>1, <3>2, EndClosesWorkers DEF Closed
    <3>4. FetchingInGet'
      BY <1>0, <3>1 DEF FetchingInGet
    <3> QED
      BY <3>3, <3>4
  <2>2. ASSUME UNCHANGED clientVars,
               \/ SetStopping(q) \/ NotifyAll(q) \/ JoinWorkers(q)
               \/ AwaitSubmits(q) \/ Cancel(q) \/ StampCancelled(q)
        PROVE  FetchingInGet' /\ Closed'
    <3>1. UNCHANGED <<wpc, quiesced>>
      BY <2>2 DEF SetStopping, NotifyAll, JoinWorkers, AwaitSubmits, Cancel, StampCancelled, workerVars
    <3> QED
      BY <1>1, <2>2, <3>1
  <2> QED
    BY <1>7, <2>1, <2>2 DEF PoolShutdown
<1>8. ASSUME Server PROVE FetchingInGet' /\ Closed'
  <2>1. /\ UNCHANGED <<wpc, quiesced, gpc, user>>
        /\ \A c \in Conns : link'[c] # "none" => link[c] # "none"
    BY <1>0, <1>8 DEF Server, ServerCloses, vars, workerVars, quiesceVars, ClientTypeOK
  <2> QED
    BY <1>0, <2>1 DEF FetchingInGet, Closed
<1>9. ASSUME UNCHANGED fetchVars PROVE FetchingInGet' /\ Closed'
  BY <1>1, <1>9 DEF fetchVars, vars, workerVars, quiesceVars
<1>10. FetchingInGet' /\ Closed'
  BY <1>2, <1>3, <1>4, <1>5, <1>6, <1>7, <1>8, <1>9 DEF FetchNext, PoolWorker
<1> QED
  BY <1>i, <1>10 DEF ShutdownInv

\* When quiesce() has returned, to whichever caller, no connection a worker
\* used is open: the join precedes the close, and nothing is fetched after it.
THEOREM WorkersLeaveNothingOpen == FetchSpec => []ConnectionsClosed
<1>1. FetchInit => ShutdownInv
  <2> SUFFICES ASSUME FetchInit
               PROVE  ShutdownInv
    OBVIOUS
  <2>1. ClientInv /\ PoolInv
    BY ClientInitInv, PoolStart DEF FetchInit
  <2>2. Closed
    BY DEF FetchInit, Init, Closed
  <2>3. FetchingInGet
    BY CompositionAssumption DEF FetchInit, ClientInit, FetchingInGet
  <2> QED
    BY <2>1, <2>2, <2>3 DEF ShutdownInv
<1>2. ShutdownInv /\ [FetchNext]_fetchVars => ShutdownInv'
  BY ShutdownStep
<1>3. ShutdownInv => ConnectionsClosed
  BY DEF ShutdownInv, PoolInv, ThreadInv, Closed, ConnectionsClosed
<1> QED
  BY <1>1, <1>2, <1>3, PTL DEF FetchSpec
=============================================================================
