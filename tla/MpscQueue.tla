----------------------------- MODULE MpscQueue ------------------------------
(***************************************************************************)
(* core/mpsc_queue.hpp: producers race a compare-and-swap on enqueue_pos_  *)
(* for a position, construct in its slot and raise the slot's ready flag;  *)
(* the one consumer takes positions in order.  Every shared load, store    *)
(* and CAS is a step.  Positions are size_t: a difference is taken modulo  *)
(* WordSize, as the code takes it modulo 2^64.                             *)
(***************************************************************************)
EXTENDS Integers, Sequences

CONSTANTS Capacity, Producers, Events, Raw,
          WordSize,   \* 2^64 scaled down
          MaxPush     \* bound: positions claimed

ASSUME CapacityAssumption == Capacity \in Nat /\ Capacity > 1
ASSUME RawAssumption == Raw \notin Events
ASSUME WordAssumption == MaxPush \in Nat /\ WordSize \in Nat /\ MaxPush + Capacity < WordSize

VARIABLES enqueue_pos, dequeue_pos, ready, storage,
          ppc, pos, arg,   \* per producer: where it is in push(), its locals
          cpc, out,        \* the consumer in try_pop()
          alive,           \* FALSE once ~MpscQueue() has run
          claimed,         \* history: the elements by claimed position
          got,             \* history: the elements try_pop() returned
          sawFull          \* history: per call, was the queue ever full during it?

prodVars == <<ppc, pos, arg>>
consVars == <<cpc, out>>
vars == <<enqueue_pos, dequeue_pos, ready, storage, prodVars, consVars, alive, claimed, got, sawFull>>

Slots == 0 .. Capacity - 1
Slot(p) == p % Capacity

Init == /\ enqueue_pos = 0 /\ dequeue_pos = 0
        /\ ready = [s \in Slots |-> FALSE]
        /\ storage = [s \in Slots |-> Raw]
        /\ ppc = [p \in Producers |-> "idle"]
        /\ pos = [p \in Producers |-> 0]
        /\ arg = [p \in Producers |-> Raw]
        /\ cpc = "idle" /\ out = Raw
        /\ alive = TRUE
        /\ claimed = << >> /\ got = << >>
        /\ sawFull = [p \in Producers |-> FALSE]

\* All positions handed out and none of them free again.
IsFull == enqueue_pos - dequeue_pos >= Capacity
-----------------------------------------------------------------------------
(* Producer p: push(v).                                                    *)

Push(p, v) == /\ alive /\ ppc[p] = "idle" /\ enqueue_pos < MaxPush
              /\ arg' = [arg EXCEPT ![p] = v]
              /\ pos' = [pos EXCEPT ![p] = enqueue_pos]
              /\ ppc' = [ppc EXCEPT ![p] = "check"]
              /\ sawFull' = [sawFull EXCEPT ![p] = IsFull]
              /\ UNCHANGED <<enqueue_pos, dequeue_pos, ready, storage, consVars, alive, claimed, got>>

\* Mutant: one position is never used.
NoRoom_TooEarly(p) == (pos[p] - dequeue_pos) % WordSize >= Capacity - 1

\* pos - dequeue_pos_ >= Capacity, in unsigned arithmetic.
NoRoom(p) == (pos[p] - dequeue_pos) % WordSize >= Capacity

Check(p) == /\ ppc[p] = "check"
            /\ ppc' = [ppc EXCEPT ![p] = IF NoRoom(p) THEN "refused" ELSE "cas"]
            /\ UNCHANGED <<enqueue_pos, dequeue_pos, ready, storage, pos, arg, consVars, alive,
                           claimed, got, sawFull>>

\* push() returns false.
Refuse(p) == /\ ppc[p] = "refused"
             /\ ppc' = [ppc EXCEPT ![p] = "idle"]
             /\ UNCHANGED <<enqueue_pos, dequeue_pos, ready, storage, pos, arg, consVars, alive,
                            claimed, got, sawFull>>

\* compare_exchange_weak succeeds: the position is this producer's.
Claim(p) == /\ ppc[p] = "cas" /\ enqueue_pos = pos[p] /\ enqueue_pos < MaxPush
            /\ enqueue_pos' = enqueue_pos + 1
            /\ claimed' = Append(claimed, arg[p])
            /\ ppc' = [ppc EXCEPT ![p] = "construct"]
            /\ sawFull' = [q \in Producers |-> sawFull[q] \/ (enqueue_pos + 1) - dequeue_pos >= Capacity]
            /\ UNCHANGED <<dequeue_pos, ready, storage, pos, arg, consVars, alive, got>>

\* Mutant: a failed exchange goes straight to the slot it lost.
Retry_KeepsGoing(p) ==
            /\ ppc[p] = "cas"
            /\ ppc' = [ppc EXCEPT ![p] = "construct"]
            /\ UNCHANGED <<enqueue_pos, dequeue_pos, ready, storage, pos, arg, consVars, alive,
                           claimed, got, sawFull>>

\* It fails, because another producer was first or spuriously: pos is
\* refreshed and the room checked again.
Retry(p) == /\ ppc[p] = "cas"
            /\ pos' = [pos EXCEPT ![p] = enqueue_pos]
            /\ ppc' = [ppc EXCEPT ![p] = "check"]
            /\ UNCHANGED <<enqueue_pos, dequeue_pos, ready, storage, arg, consVars, alive,
                           claimed, got, sawFull>>

Construct(p) == /\ ppc[p] = "construct"
                /\ storage' = [storage EXCEPT ![Slot(pos[p])] = arg[p]]
                /\ ppc' = [ppc EXCEPT ![p] = "ready"]
                /\ UNCHANGED <<enqueue_pos, dequeue_pos, ready, pos, arg, consVars, alive, claimed,
                               got, sawFull>>

SetReady(p) == /\ ppc[p] = "ready"
               /\ ready' = [ready EXCEPT ![Slot(pos[p])] = TRUE]
               /\ ppc' = [ppc EXCEPT ![p] = "idle"]
               /\ UNCHANGED <<enqueue_pos, dequeue_pos, storage, pos, arg, consVars, alive, claimed,
                              got, sawFull>>
-----------------------------------------------------------------------------
(* The consumer: try_pop().  An unready slot is nullopt and no step.       *)

\* Mutant: emptiness is judged by the positions, not by the ready flag.
TryPop_ByPosition ==
          /\ alive /\ cpc = "idle" /\ dequeue_pos < enqueue_pos
          /\ cpc' = "take"
          /\ UNCHANGED <<enqueue_pos, dequeue_pos, ready, storage, prodVars, out, alive, claimed,
                         got, sawFull>>

TryPop == /\ alive /\ cpc = "idle" /\ ready[Slot(dequeue_pos)]
          /\ cpc' = "take"
          /\ UNCHANGED <<enqueue_pos, dequeue_pos, ready, storage, prodVars, out, alive, claimed,
                         got, sawFull>>

\* The element is moved out and destroyed.
Take == /\ cpc = "take"
        /\ out' = storage[Slot(dequeue_pos)]
        /\ storage' = [storage EXCEPT ![Slot(dequeue_pos)] = Raw]
        /\ cpc' = "lower"
        /\ UNCHANGED <<enqueue_pos, dequeue_pos, ready, prodVars, alive, claimed, got, sawFull>>

LowerFlag == /\ cpc = "lower"
             /\ ready' = [ready EXCEPT ![Slot(dequeue_pos)] = FALSE]
             /\ cpc' = "advance"
             /\ UNCHANGED <<enqueue_pos, dequeue_pos, storage, prodVars, out, alive, claimed, got, sawFull>>

\* The release store that frees the position; try_pop() returns out.
Advance == /\ cpc = "advance"
           /\ dequeue_pos' = dequeue_pos + 1
           /\ got' = Append(got, out)
           /\ cpc' = "idle"
           /\ UNCHANGED <<enqueue_pos, ready, storage, prodVars, out, alive, claimed, sawFull>>

\* ~MpscQueue(): destroys the elements whose flag is up.
Destruct == /\ alive /\ cpc = "idle" /\ \A p \in Producers : ppc[p] = "idle"
            /\ alive' = FALSE
            /\ storage' = [s \in Slots |-> IF ready[s] THEN Raw ELSE storage[s]]
            /\ UNCHANGED <<enqueue_pos, dequeue_pos, ready, prodVars, consVars, claimed, got, sawFull>>

Producer(p) == \/ \E v \in Events : Push(p, v)
               \/ Check(p) \/ Refuse(p) \/ Claim(p) \/ Retry(p) \/ Construct(p) \/ SetReady(p)

Consumer == TryPop \/ Take \/ LowerFlag \/ Advance

Next == (\E p \in Producers : Producer(p)) \/ Consumer \/ Destruct

Spec == Init /\ [][Next]_vars
-----------------------------------------------------------------------------
(* Properties.                                                             *)

\* The types of the queue's words, its slots and the threads.
TypeOK == /\ enqueue_pos \in Nat /\ dequeue_pos \in Nat
          /\ ready \in [Slots -> BOOLEAN]
          /\ storage \in [Slots -> Events \cup {Raw}]
          /\ ppc \in [Producers -> {"idle", "check", "refused", "cas", "construct", "ready"}]
          /\ pos \in [Producers -> Nat] /\ arg \in [Producers -> Events \cup {Raw}]
          /\ cpc \in {"idle", "take", "lower", "advance"} /\ out \in Events \cup {Raw}
          /\ alive \in BOOLEAN
          /\ claimed \in Seq(Events \cup {Raw}) /\ got \in Seq(Events \cup {Raw})
          /\ sawFull \in [Producers -> BOOLEAN]
          /\ enqueue_pos - dequeue_pos <= Capacity

InSlot(p) == ppc[p] \in {"construct", "ready"}

\* A producer that is in a slot has it to itself: no other producer, no
\* element left from the lap before, and no consumer reading it; and the
\* destructor, which goes by the flags, misses no element.
SlotIsExclusive ==
    /\ \A p \in Producers : InSlot(p) =>
         /\ ppc[p] = "construct" => storage[Slot(pos[p])] = Raw
         /\ \A q \in Producers \ {p} : InSlot(q) => Slot(pos[q]) # Slot(pos[p])
         /\ cpc = "take" => Slot(dequeue_pos) # Slot(pos[p])
    /\ ~alive => \A s \in Slots : storage[s] = Raw

\* The consumer gets every element once, in the order the positions were
\* claimed, although producers finish constructing in any order.
ClaimOrder == /\ Len(got) <= Len(claimed)
              /\ \A i \in 1 .. Len(got) : got[i] = claimed[i]

\* "False if the queue is full": a push() that nobody overtook, so that its
\* position is still the next one, is refused only if the queue was full at
\* some moment of the call.
UnracedRefusalIsFull ==
    \A p \in Producers : (ppc[p] = "refused" /\ pos[p] = enqueue_pos) => sawFull[p]

\* "False if the queue is full", of every push(): mpsc_queue.hpp says so
\* without exception.
FalseOnlyIfFull == \A p \in Producers : ppc[p] = "refused" => sawFull[p]
=============================================================================
