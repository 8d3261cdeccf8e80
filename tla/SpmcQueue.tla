----------------------------- MODULE SpmcQueue ------------------------------
(***************************************************************************)
(* core/spmc_queue.hpp: a ring of Capacity slots with one producer and a   *)
(* fixed set of consumers, every one of which reads every element.  The    *)
(* producer publishes by advancing published_; consumer c frees a slot by  *)
(* advancing cursors_[c]; push() reuses a slot once the slowest cursor is  *)
(* past the element it holds.                                              *)
(*                                                                         *)
(* Every load and store of a shared word is a step of its own, so the scan *)
(* of the cursors interleaves with consumers advancing them, and a slot is *)
(* visibly Raw between destroy_at and construct_at.  published_ is written *)
(* by the producer only and cursors_[c] by consumer c only, so the local   *)
(* copies `next` and `cur` that the code takes always equal them.          *)
(***************************************************************************)
EXTENDS Integers, Sequences

CONSTANTS Capacity,      \* slots of the ring
          NumConsumers,  \* cursors
          Events,        \* elements that may be pushed
          MaxPush,       \* bound: pushes that succeed
          Raw            \* storage that holds no live object

ASSUME CapacityAssumption == Capacity \in Nat /\ Capacity > 1
ASSUME ConsumersAssumption == NumConsumers \in Nat /\ NumConsumers > 0
ASSUME RawAssumption == Raw \notin Events

VARIABLES published,  \* published_
          cursors,    \* cursors_[c].value
          storage,    \* storage_[slot]: an event, or Raw
          ppc,        \* where the producer is in push()
          arg,        \* the event being pushed
          scan,       \* min_cursor(): the loop index i
          min,        \* min_cursor(): the minimum so far
          cpc,        \* cpc[c]: where consumer c is in try_pop()
          out,        \* out[c]: the copy it returns
          alive,      \* FALSE once ~SpmcQueue() has run
          log,        \* history: the events published, in order
          got,        \* history: got[c], the events returned to c, in order
          fullAtCall  \* history: was the ring full when push() was entered?

prodVars == <<ppc, arg, scan, min, fullAtCall>>
consVars == <<cpc, out>>
ringVars == <<published, cursors, storage, prodVars, consVars, alive, log, got>>

Consumers == 0 .. NumConsumers - 1
Slots == 0 .. Capacity - 1

\* storage_[pos & INDEX_MASK]; Capacity is a power of two, so & is %.
Slot(pos) == pos % Capacity

RingInit == /\ published = 0
            /\ cursors = [c \in Consumers |-> 0]
            /\ storage = [s \in Slots |-> Raw]
            /\ ppc = "idle"
            /\ arg = Raw
            /\ scan = 0
            /\ min = 0
            /\ cpc = [c \in Consumers |-> "idle"]
            /\ out = [c \in Consumers |-> Raw]
            /\ alive = TRUE
            /\ log = << >>
            /\ got = [c \in Consumers |-> << >>]
            /\ fullAtCall = FALSE
-----------------------------------------------------------------------------
(* The producer: push(v).                                                  *)

\* Enter push(): a ring that has not wrapped has virgin storage, any other
\* has to look at the cursors first.
Push(v) == /\ alive
           /\ ppc = "idle"
           /\ published < MaxPush
           /\ arg' = v
           /\ scan' = 0
           /\ min' = 0
           /\ ppc' = IF published < Capacity THEN "construct" ELSE "scan"
           /\ fullAtCall' = \E c \in Consumers : published - cursors[c] >= Capacity
           /\ UNCHANGED <<published, cursors, storage, consVars, alive, log, got>>

\* Mutant: the fold starts from the stale minimum of an earlier call's zero.
ScanCursor_FirstSkipped ==
              /\ ppc = "scan"
              /\ min' = IF cursors[scan] < min THEN cursors[scan] ELSE min
              /\ scan' = scan + 1
              /\ ppc' = IF scan + 1 = NumConsumers THEN "decide" ELSE "scan"
              /\ UNCHANGED <<published, cursors, storage, arg, fullAtCall, consVars, alive, log, got>>

\* min_cursor(): load one cursor and keep the smaller value.
ScanCursor == /\ ppc = "scan"
              /\ min' = IF scan = 0 \/ cursors[scan] < min THEN cursors[scan] ELSE min
              /\ scan' = scan + 1
              /\ ppc' = IF scan + 1 = NumConsumers THEN "decide" ELSE "scan"
              /\ UNCHANGED <<published, cursors, storage, arg, fullAtCall, consVars, alive, log, got>>

\* Mutants: an off-by-one comparison; the newest consumer instead of the slowest.
SlotFree_OffByOne == min >= published - Capacity
SlotFree_AnyConsumer == \E c \in Consumers : cursors[c] > published - Capacity

\* slot_free() once the scan is complete.
SlotFree == min > published - Capacity

\* push() returns false: nothing is stored.
Refuse == /\ ppc = "decide"
          /\ ~SlotFree
          /\ ppc' = "idle"
          /\ UNCHANGED <<published, cursors, storage, arg, scan, min, fullAtCall, consVars, alive, log, got>>

\* destroy_at on the element the slot held one lap ago.
Destroy == /\ ppc = "decide"
           /\ SlotFree
           /\ storage' = [storage EXCEPT ![Slot(published)] = Raw]
           /\ ppc' = "construct"
           /\ UNCHANGED <<published, cursors, arg, scan, min, fullAtCall, consVars, alive, log, got>>

Construct == /\ ppc = "construct"
             /\ storage' = [storage EXCEPT ![Slot(published)] = arg]
             /\ ppc' = "publish"
             /\ UNCHANGED <<published, cursors, arg, scan, min, fullAtCall, consVars, alive, log, got>>

\* The release store that hands the slot to the consumers; push() returns true.
Publish == /\ ppc = "publish"
           /\ published' = published + 1
           /\ log' = Append(log, arg)
           /\ ppc' = "idle"
           /\ UNCHANGED <<cursors, storage, arg, scan, min, fullAtCall, consVars, alive, got>>
-----------------------------------------------------------------------------
(* Consumer c: try_pop(c).  A call that finds the cursor caught up returns *)
(* nullopt and changes nothing, so only the other branch is an action.     *)

\* Mutant: no test for being caught up with the producer.
TryPop_Unguarded(c) ==
             /\ alive
             /\ cpc[c] = "idle"
             /\ published > 0
             /\ cpc' = [cpc EXCEPT ![c] = "copy"]
             /\ UNCHANGED <<published, cursors, storage, prodVars, out, alive, log, got>>

TryPop(c) == /\ alive
             /\ cpc[c] = "idle"
             /\ cursors[c] # published
             /\ cpc' = [cpc EXCEPT ![c] = "copy"]
             /\ UNCHANGED <<published, cursors, storage, prodVars, out, alive, log, got>>

Copy(c) == /\ cpc[c] = "copy"
           /\ out' = [out EXCEPT ![c] = storage[Slot(cursors[c])]]
           /\ cpc' = [cpc EXCEPT ![c] = "advance"]
           /\ UNCHANGED <<published, cursors, storage, prodVars, alive, log, got>>

\* The release store of the cursor; try_pop() returns out[c].
Advance(c) == /\ cpc[c] = "advance"
              /\ cursors' = [cursors EXCEPT ![c] = @ + 1]
              /\ got' = [got EXCEPT ![c] = Append(@, out[c])]
              /\ cpc' = [cpc EXCEPT ![c] = "idle"]
              /\ UNCHANGED <<published, storage, prodVars, out, alive, log>>
-----------------------------------------------------------------------------
(* ~SpmcQueue(): runs once every thread has left the queue.                *)

\* Mutant: only the unread elements are destroyed, as in the SPSC queue.
LivePositions_UnreadOnly ==
    {p \in 0 .. published - 1 : \E c \in Consumers : cursors[c] <= p}

\* The positions the destructor walks, [published_ - Capacity, published_).
LivePositions == (IF published >= Capacity THEN published - Capacity ELSE 0) .. published - 1

Destruct == /\ alive
            /\ ppc = "idle"
            /\ \A c \in Consumers : cpc[c] = "idle"
            /\ alive' = FALSE
            /\ storage' = [s \in Slots |-> IF \E p \in LivePositions : Slot(p) = s
                                           THEN Raw ELSE storage[s]]
            /\ UNCHANGED <<published, cursors, prodVars, consVars, log, got>>

Producer == \/ \E v \in Events : Push(v)
            \/ ScanCursor
            \/ Refuse
            \/ Destroy
            \/ Construct
            \/ Publish

Consumer(c) == TryPop(c) \/ Copy(c) \/ Advance(c)

RingNext == \/ Producer
            \/ \E c \in Consumers : Consumer(c)
            \/ Destruct

RingSpec == RingInit /\ [][RingNext]_ringVars
-----------------------------------------------------------------------------
(* Properties.                                                             *)

\* The types of the queue's words, its slots and the threads; the scan
\* never runs past the last consumer's cursor.
RingTypeOK == /\ published \in Nat
              /\ cursors \in [Consumers -> Nat]
              /\ storage \in [Slots -> Events \cup {Raw}]
              /\ ppc \in {"idle", "scan", "decide", "construct", "publish"}
              /\ arg \in Events \cup {Raw}
              /\ scan \in 0 .. NumConsumers
              /\ min \in Nat
              /\ cpc \in [Consumers -> {"idle", "copy", "advance"}]
              /\ out \in [Consumers -> Events \cup {Raw}]
              /\ alive \in BOOLEAN
              /\ log \in Seq(Events)
              /\ got \in [Consumers -> Seq(Events \cup {Raw})]
              /\ fullAtCall \in BOOLEAN

\* While the producer destroys or constructs an element, no consumer is
\* between try_pop's check and the end of its copy of that same slot: the
\* plain (non-atomic) accesses to storage_ never race.
NoSlotRace == \A c \in Consumers :
                (ppc \in {"construct", "publish"} /\ cpc[c] # "idle")
                  => Slot(cursors[c]) # Slot(published)

\* Every consumer has been handed exactly the events published before its
\* cursor, in the order of publication: none lost, repeated, reordered, torn
\* or read out of a destroyed slot.
InOrderDelivery == \A c \in Consumers :
                     /\ Len(got[c]) = cursors[c]
                     /\ cursors[c] <= Len(log)
                     /\ \A i \in 1 .. Len(got[c]) : got[c][i] = log[i]

\* push() returns false only when the ring really was full as the call began.
\* The cursors move during the scan, so this is about a minimum assembled
\* from values read at different times.
RefusalIsHonest == (ppc = "decide" /\ ~SlotFree) => fullAtCall

\* Outside push() the live objects are exactly the last Capacity published
\* ones, which is what the destructor relies on; after it none is left.
LiveObjects == (ppc = "idle") =>
                 \A s \in Slots :
                   storage[s] # Raw <=> alive /\ \E p \in LivePositions : Slot(p) = s

\* The ring implements the abstract broadcast log: the event that the release
\* store of published_ publishes is the one appended, and the one a consumer's
\* cursor passes is the one delivered; scanning, destroying, constructing and
\* copying are invisible.
Abstract == INSTANCE BroadcastLog WITH Events <- Events, Consumers <- Consumers,
                                       Capacity <- Capacity, log <- log, got <- got
BroadcastsInOrder == Abstract!Spec
=============================================================================
