----------------------------- MODULE WorkQueue ------------------------------
(***************************************************************************)
(* core/work_queue.hpp: one producer hands each element to exactly one of  *)
(* several consumers.  Cell i carries a sequence number that says whose    *)
(* turn it is: pos when free for position pos, pos + 1 when filled, and    *)
(* pos + Capacity once its element has been taken.  Consumers race a CAS   *)
(* on dequeue_pos_ after they have seen the cell filled.                   *)
(***************************************************************************)
EXTENDS Integers, Sequences

CONSTANTS Capacity, Consumers, Events, Raw,
          MaxPush     \* bound: pushes that succeed

ASSUME CapacityAssumption == Capacity \in Nat /\ Capacity > 1
ASSUME RawAssumption == Raw \notin Events

VARIABLES enqueue_pos, dequeue_pos,
          cell_seq, storage,  \* per cell: its seq and its element
          ppc, arg,       \* the producer in push()
          cpc, pos, out,  \* per consumer: where it is in try_pop(), its locals
          alive,          \* FALSE once ~WorkQueue() has run
          log,            \* history: the elements pushed
          takenBy,        \* history: per position taken, the consumer and what it got
          sawEmpty        \* history: per call, was there ever nothing to claim during it?

prodVars == <<ppc, arg>>
consVars == <<cpc, pos, out>>
workVars == <<enqueue_pos, dequeue_pos, cell_seq, storage, prodVars, consVars, alive, log, takenBy,
              sawEmpty>>

Cells == 0 .. Capacity - 1
Cell(p) == p % Capacity

WorkInit == /\ enqueue_pos = 0 /\ dequeue_pos = 0
            /\ cell_seq = [s \in Cells |-> s]
            /\ storage = [s \in Cells |-> Raw]
            /\ ppc = "idle" /\ arg = Raw
            /\ cpc = [c \in Consumers |-> "idle"]
            /\ pos = [c \in Consumers |-> 0]
            /\ out = [c \in Consumers |-> Raw]
            /\ alive = TRUE
            /\ log = << >> /\ takenBy = {}
            /\ sawEmpty = [c \in Consumers |-> FALSE]

\* Nothing is published that has not been claimed.
IsEmpty == cell_seq[Cell(dequeue_pos)] # dequeue_pos + 1
-----------------------------------------------------------------------------
(* The producer: push(v).                                                  *)

\* Mutant: any cell that is not filled counts as free, claimed ones too.
CellFree_ByCursor == enqueue_pos - dequeue_pos < Capacity

\* The cell is stamped for this lap.
CellFree == cell_seq[Cell(enqueue_pos)] = enqueue_pos

\* A push that finds the cell taken returns false and changes nothing.
Push(v) == /\ alive /\ ppc = "idle" /\ enqueue_pos < MaxPush
           /\ CellFree
           /\ arg' = v
           /\ ppc' = "construct"
           /\ UNCHANGED <<enqueue_pos, dequeue_pos, cell_seq, storage, consVars, alive, log, takenBy,
                          sawEmpty>>

ConstructCell == /\ ppc = "construct"
                 /\ storage' = [storage EXCEPT ![Cell(enqueue_pos)] = arg]
                 /\ ppc' = "stamp"
                 /\ UNCHANGED <<enqueue_pos, dequeue_pos, cell_seq, arg, consVars, alive, log, takenBy,
                                sawEmpty>>

StampCell == /\ ppc = "stamp"
             /\ cell_seq' = [cell_seq EXCEPT ![Cell(enqueue_pos)] = enqueue_pos + 1]
             /\ log' = Append(log, arg)
             /\ ppc' = "advance"
             /\ UNCHANGED <<enqueue_pos, dequeue_pos, storage, arg, consVars, alive, takenBy, sawEmpty>>

AdvanceTail == /\ ppc = "advance"
               /\ enqueue_pos' = enqueue_pos + 1
               /\ ppc' = "idle"
               /\ UNCHANGED <<dequeue_pos, cell_seq, storage, arg, consVars, alive, log, takenBy, sawEmpty>>
-----------------------------------------------------------------------------
(* Consumer c: try_pop().                                                  *)

TryPop(c) == /\ alive /\ cpc[c] = "idle"
             /\ pos' = [pos EXCEPT ![c] = dequeue_pos]
             /\ cpc' = [cpc EXCEPT ![c] = "look"]
             /\ sawEmpty' = [sawEmpty EXCEPT ![c] = IsEmpty]
             /\ UNCHANGED <<enqueue_pos, dequeue_pos, cell_seq, storage, prodVars, out, alive, log, takenBy>>

Diff(c) == cell_seq[Cell(pos[c])] - (pos[c] + 1)

\* Mutant: any cell that is not exactly ready counts as empty.
Look_GivesUp(c) ==
           /\ cpc[c] = "look"
           /\ cpc' = [cpc EXCEPT ![c] = IF Diff(c) = 0 THEN "cas" ELSE "empty"]
           /\ UNCHANGED <<enqueue_pos, dequeue_pos, cell_seq, storage, prodVars, pos, out, alive, log,
                          takenBy, sawEmpty>>

\* The stamp decides: filled, not filled yet, or already a lap ahead.
Look(c) == /\ cpc[c] = "look"
           /\ cpc' = [cpc EXCEPT ![c] = IF Diff(c) = 0 THEN "cas"
                                        ELSE IF Diff(c) < 0 THEN "empty" ELSE "reload"]
           /\ UNCHANGED <<enqueue_pos, dequeue_pos, cell_seq, storage, prodVars, pos, out, alive, log,
                          takenBy, sawEmpty>>

\* try_pop() returns nullopt.
ReturnEmpty(c) == /\ cpc[c] = "empty"
                  /\ cpc' = [cpc EXCEPT ![c] = "idle"]
                  /\ UNCHANGED <<enqueue_pos, dequeue_pos, cell_seq, storage, prodVars, pos, out, alive,
                                 log, takenBy, sawEmpty>>

\* Lost the race before the CAS.
Reload(c) == /\ cpc[c] = "reload"
             /\ pos' = [pos EXCEPT ![c] = dequeue_pos]
             /\ cpc' = [cpc EXCEPT ![c] = "look"]
             /\ UNCHANGED <<enqueue_pos, dequeue_pos, cell_seq, storage, prodVars, out, alive, log,
                            takenBy, sawEmpty>>

\* Mutant: a plain store instead of a compare-and-swap.
Claim_NoCompare(c) ==
            /\ cpc[c] = "cas"
            /\ dequeue_pos' = pos[c] + 1
            /\ cpc' = [cpc EXCEPT ![c] = "take"]
            /\ sawEmpty' = [d \in Consumers |-> sawEmpty[d] \/ cell_seq[Cell(pos[c] + 1)] # pos[c] + 2]
            /\ UNCHANGED <<enqueue_pos, cell_seq, storage, prodVars, pos, out, alive, log, takenBy>>

\* compare_exchange_weak succeeds.
Claim(c) == /\ cpc[c] = "cas" /\ dequeue_pos = pos[c]
            /\ dequeue_pos' = dequeue_pos + 1
            /\ cpc' = [cpc EXCEPT ![c] = "take"]
            /\ sawEmpty' = [d \in Consumers |-> sawEmpty[d]
                              \/ cell_seq[Cell(dequeue_pos + 1)] # dequeue_pos + 2]
            /\ UNCHANGED <<enqueue_pos, cell_seq, storage, prodVars, pos, out, alive, log, takenBy>>

\* It fails, lost or spuriously; pos is refreshed.
Retry(c) == /\ cpc[c] = "cas"
            /\ pos' = [pos EXCEPT ![c] = dequeue_pos]
            /\ cpc' = [cpc EXCEPT ![c] = "look"]
            /\ UNCHANGED <<enqueue_pos, dequeue_pos, cell_seq, storage, prodVars, out, alive, log,
                           takenBy, sawEmpty>>

\* The element is moved out and destroyed.
Take(c) == /\ cpc[c] = "take"
           /\ out' = [out EXCEPT ![c] = storage[Cell(pos[c])]]
           /\ storage' = [storage EXCEPT ![Cell(pos[c])] = Raw]
           /\ cpc' = [cpc EXCEPT ![c] = "free"]
           /\ UNCHANGED <<enqueue_pos, dequeue_pos, cell_seq, prodVars, pos, alive, log, takenBy, sawEmpty>>

\* The cell is stamped for the producer one lap on; try_pop() returns out[c].
Free(c) == /\ cpc[c] = "free"
           /\ cell_seq' = [cell_seq EXCEPT ![Cell(pos[c])] = pos[c] + Capacity]
           /\ takenBy' = takenBy \cup {<<pos[c], c, out[c]>>}
           /\ cpc' = [cpc EXCEPT ![c] = "idle"]
           /\ UNCHANGED <<enqueue_pos, dequeue_pos, storage, prodVars, pos, out, alive, log, sawEmpty>>

\* ~WorkQueue(): every claim has been drained by now.
Destruct == /\ alive /\ ppc = "idle" /\ \A c \in Consumers : cpc[c] = "idle"
            /\ alive' = FALSE
            /\ storage' = [s \in Cells |-> IF \E p \in dequeue_pos .. enqueue_pos - 1 : Cell(p) = s
                                           THEN Raw ELSE storage[s]]
            /\ UNCHANGED <<enqueue_pos, dequeue_pos, cell_seq, prodVars, consVars, log, takenBy, sawEmpty>>

Producer == (\E v \in Events : Push(v)) \/ ConstructCell \/ StampCell \/ AdvanceTail

Consumer(c) == \/ TryPop(c) \/ Look(c) \/ ReturnEmpty(c) \/ Reload(c)
               \/ Claim(c) \/ Retry(c) \/ Take(c) \/ Free(c)

WorkNext == Producer \/ (\E c \in Consumers : Consumer(c)) \/ Destruct

WorkSpec == WorkInit /\ [][WorkNext]_workVars
-----------------------------------------------------------------------------
(* Properties.                                                             *)

\* The types of the queue's words, its cells, the threads and the histories.
WorkTypeOK == /\ enqueue_pos \in Nat /\ dequeue_pos \in Nat
              /\ cell_seq \in [Cells -> Nat] /\ storage \in [Cells -> Events \cup {Raw}]
              /\ ppc \in {"idle", "construct", "stamp", "advance"} /\ arg \in Events \cup {Raw}
              /\ cpc \in [Consumers -> {"idle", "look", "empty", "reload", "cas", "take", "free"}]
              /\ pos \in [Consumers -> Nat] /\ out \in [Consumers -> Events \cup {Raw}]
              /\ alive \in BOOLEAN
              /\ log \in Seq(Events) /\ takenBy \subseteq Nat \X Consumers \X (Events \cup {Raw})
              /\ sawEmpty \in [Consumers -> BOOLEAN]

InCell(c) == cpc[c] \in {"take", "free"}

\* Nobody shares a cell: two consumers never hold the same one, and the
\* producer does not construct over an element still being moved out; so the
\* destructor, which walks between the two positions, misses no element.
CellIsExclusive ==
    /\ \A c, d \in Consumers : (c # d /\ InCell(c) /\ InCell(d)) => Cell(pos[c]) # Cell(pos[d])
    /\ \A c \in Consumers :
         (InCell(c) /\ ppc \in {"construct", "stamp"}) => Cell(pos[c]) # Cell(enqueue_pos)
    /\ ~alive => \A s \in Cells : storage[s] = Raw

\* Every position goes to exactly one consumer, with the element that was
\* pushed there, and a queue at rest has handed out every position below
\* dequeue_pos_ and none above: a lost race neither repeats nor skips one.
TakenOnce ==
    /\ \A t \in takenBy : /\ t[1] < Len(log) /\ t[3] = log[t[1] + 1]
                          /\ \A u \in takenBy : u[1] = t[1] => u = t
    /\ (\A c \in Consumers : cpc[c] = "idle") => {t[1] : t \in takenBy} = 0 .. dequeue_pos - 1

\* try_pop() returns nothing only if at some moment of the call nothing was
\* there to claim.
EmptyIsHonest == \A c \in Consumers : cpc[c] = "empty" => sawEmpty[c]
=============================================================================
