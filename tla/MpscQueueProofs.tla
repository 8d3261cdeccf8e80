-------------------------- MODULE MpscQueueProofs ---------------------------
(***************************************************************************)
(* For every capacity, every set of producers and every set of elements:   *)
(* a claimed slot belongs to one thread at a time, the consumer sees the   *)
(* elements in the order their positions were claimed, and a refused push  *)
(* met a full queue or was overtaken.                                      *)
(***************************************************************************)
EXTENDS MpscQueue, TLAPS

\* The masked index pos & INDEX_MASK is pos % Capacity, for a power of two.

\* Positions less than a lap apart use different slots.
LEMMA ModDistinct ==
  ASSUME NEW C \in Nat, C > 0, NEW p \in Nat, NEW q \in Nat, p < q, q - p < C
  PROVE  p % C # q % C
<1> DEFINE a == p \div C
           b == q \div C
<1>1. /\ p = (C * a) + (p % C)
      /\ q = (C * b) + (q % C)
      /\ a \in Int /\ b \in Int
      /\ p % C \in Int /\ q % C \in Int
  OBVIOUS
<1>2. SUFFICES ASSUME p % C = q % C PROVE FALSE
  OBVIOUS
<1> HIDE DEF a, b
<1>3. q - p = C * (b - a)
  BY <1>1, <1>2
<1>4. \A k \in Int : (k <= 0 => C * k <= 0) /\ (k >= 1 => C * k >= C)
  OBVIOUS
<1> QED
  BY <1>1, <1>3, <1>4

\* A lap later the same slot comes round again.
LEMMA ModLap ==
  ASSUME NEW C \in Nat, C > 0, NEW p \in Nat
  PROVE  (p + C) % C = p % C
<1> DEFINE q == p + C
           a == p \div C
           b == q \div C
<1>1. /\ p = (C * a) + (p % C)
      /\ q = (C * b) + (q % C)
      /\ a \in Int /\ b \in Int
      /\ p % C \in 0 .. C - 1 /\ q % C \in 0 .. C - 1
  OBVIOUS
<1> HIDE DEF a, b
<1>2. (p % C) - (q % C) = C * (b - a - 1)
  BY <1>1
<1>3. \A k \in Int : (k <= -1 => C * k <= -C) /\ (k >= 1 => C * k >= C)
  OBVIOUS
<1>4. b - a - 1 = 0
  BY <1>1, <1>2, <1>3
<1> QED
  BY <1>1, <1>2, <1>4

\* Unsigned subtraction: a negative difference wraps to the top of the word.
LEMMA ModWraps ==
  ASSUME NEW k \in Int, NEW w \in Nat, w > 0, -w < k, k < w
  PROVE  k % w = IF k >= 0 THEN k ELSE k + w
<1> DEFINE a == k \div w
<1>1. k = (w * a) + (k % w) /\ a \in Int /\ k % w \in 0 .. w - 1
  OBVIOUS
<1> HIDE DEF a
<1>2. \A m \in Int : /\ m >= 1 => w * m >= w
                     /\ m <= -2 => w * m <= -(w + w)
  OBVIOUS
<1>3. a = 0 \/ a = -1
  BY <1>1, <1>2
<1> QED
  BY <1>1, <1>3

\* Position x has been claimed by a producer that has not published it yet.
Owned(x) == \E p \in Producers : InSlot(p) /\ pos[p] = x

\* How the two positions, the producers' copies and the histories lie.
Positions ==
    /\ Len(claimed) = enqueue_pos /\ Len(got) = dequeue_pos
    /\ dequeue_pos <= enqueue_pos /\ enqueue_pos - dequeue_pos <= Capacity
    /\ enqueue_pos <= MaxPush
    /\ \A p \in Producers : /\ pos[p] <= enqueue_pos
                            /\ ppc[p] = "cas" => pos[p] - dequeue_pos < Capacity
                            /\ InSlot(p) => dequeue_pos <= pos[p] /\ pos[p] < enqueue_pos
    /\ \A p, q \in Producers : (p # q /\ InSlot(p) /\ InSlot(q)) => pos[p] # pos[q]
    /\ cpc # "idle" => dequeue_pos < enqueue_pos /\ ~Owned(dequeue_pos)

\* A producer in its slot: the flag is down and only it has written there.
Owners ==
    \A p \in Producers : InSlot(p) =>
      /\ ~ready[Slot(pos[p])]
      /\ claimed[pos[p] + 1] = arg[p]
      /\ storage[Slot(pos[p])] = IF ppc[p] = "construct" THEN Raw ELSE arg[p]

\* A position that is claimed and not owned is published, but for the one
\* the consumer is taking; the rest of the ring is down and raw.
Published ==
    /\ \A x \in Nat : (dequeue_pos <= x /\ x < enqueue_pos /\ ~Owned(x)) =>
         /\ ready[Slot(x)] <=> ~(x = dequeue_pos /\ cpc = "advance")
         /\ alive => storage[Slot(x)] = IF x = dequeue_pos /\ cpc \in {"lower", "advance"}
                                        THEN Raw ELSE claimed[x + 1]
    /\ \A x \in Nat : (enqueue_pos <= x /\ x < dequeue_pos + Capacity) =>
         ~ready[Slot(x)] /\ storage[Slot(x)] = Raw

\* What the consumer holds and has returned, and what the flags cover.
Taken ==
    /\ cpc \in {"lower", "advance"} => out = claimed[dequeue_pos + 1]
    /\ \A i \in 1 .. Len(got) : got[i] = claimed[i]

\* An element in storage is under a raised flag, or about to be.
Flagged == \A s \in Slots : storage[s] # Raw =>
             ready[s] \/ \E p \in Producers : ppc[p] = "ready" /\ Slot(pos[p]) = s

\* After the destructor no thread is in a call and no element is left.
Closed == ~alive => /\ cpc = "idle" /\ \A p \in Producers : ppc[p] = "idle"
                    /\ \A s \in Slots : storage[s] = Raw

\* A call that has never met a full queue still faces one with room.
Fullness ==
    \A p \in Producers :
      /\ (ppc[p] # "idle" /\ ~sawFull[p]) => enqueue_pos - dequeue_pos < Capacity
      /\ ppc[p] = "refused" => sawFull[p] \/ dequeue_pos > pos[p]

IInv == TypeOK /\ Positions /\ Owners /\ Published /\ Taken /\ Flagged /\ Closed /\ Fullness
-----------------------------------------------------------------------------
\* Positions less than a lap apart use different slots.
LEMMA SlotDistinct ==
  ASSUME NEW p \in Nat, NEW q \in Nat, p < q, q - p < Capacity
  PROVE  Slot(p) # Slot(q)
<1>1. Capacity \in Nat /\ Capacity > 0
  BY CapacityAssumption
<1> QED
  BY <1>1, ModDistinct, Zenon DEF Slot

\* A lap later the same slot comes round again.
LEMMA SlotLap == ASSUME NEW p \in Nat PROVE Slot(p + Capacity) = Slot(p)
<1>1. Capacity \in Nat /\ Capacity > 0
  BY CapacityAssumption
<1> QED
  BY <1>1, ModLap, Zenon DEF Slot

\* A position always falls on a slot of the ring.
LEMMA SlotType == ASSUME NEW p \in Nat PROVE Slot(p) \in Slots
  BY CapacityAssumption DEF Slot, Slots

\* Two positions of the same lap of the ring do not share a slot.
LEMMA WindowSlots ==
  ASSUME TypeOK, NEW x \in Nat, NEW y \in Nat, x # y,
         dequeue_pos <= x, x < dequeue_pos + Capacity, dequeue_pos <= y, y < dequeue_pos + Capacity
  PROVE  Slot(x) # Slot(y)
  BY SlotDistinct, CapacityAssumption DEF TypeOK

\* What the unsigned check tells a producer.
LEMMA RoomMeans ==
  ASSUME TypeOK, Positions, NEW p \in Producers
  PROVE  /\ ~NoRoom(p) => pos[p] - dequeue_pos < Capacity
         /\ NoRoom(p) => enqueue_pos - dequeue_pos >= Capacity \/ dequeue_pos > pos[p]
<1> DEFINE k == pos[p] - dequeue_pos
<1>1. /\ pos[p] \in Nat /\ dequeue_pos \in Nat /\ enqueue_pos \in Nat
      /\ pos[p] <= enqueue_pos /\ dequeue_pos <= MaxPush /\ enqueue_pos <= MaxPush
  BY WordAssumption DEF TypeOK, Positions
<1>2. k \in Int /\ -WordSize < k /\ k < WordSize
  BY <1>1, WordAssumption, CapacityAssumption
<1>3. k % WordSize = IF k >= 0 THEN k ELSE k + WordSize
  BY <1>2, ModWraps, WordAssumption
<1> QED
  BY <1>1, <1>2, <1>3, WordAssumption, CapacityAssumption DEF NoRoom

\* A raised flag is in front of the consumer only on a published position.
LEMMA ReadyMeans ==
  ASSUME IInv, ready[Slot(dequeue_pos)]
  PROVE  dequeue_pos < enqueue_pos /\ ~Owned(dequeue_pos)
<1>1. dequeue_pos # enqueue_pos
  BY CapacityAssumption DEF IInv, TypeOK, Published
<1>2. ~Owned(dequeue_pos)
  BY DEF IInv, Owners, Owned
<1> QED
  BY <1>1, <1>2 DEF IInv, TypeOK, Positions
-----------------------------------------------------------------------------
\* A freshly constructed queue satisfies the inductive invariant.
LEMMA InitIInv == Init => IInv
<1> SUFFICES ASSUME Init PROVE IInv
  OBVIOUS
<1> USE CapacityAssumption, WordAssumption, SlotType DEF Init, InSlot
<1>1. TypeOK
  BY DEF TypeOK, Slots
<1>2. Positions /\ Owners /\ Taken /\ Closed
  BY DEF Positions, Owners, Taken, Closed
<1>3. Published /\ Flagged /\ Fullness
  BY DEF Published, Flagged, Fullness
<1> QED
  BY <1>1, <1>2, <1>3 DEF IInv

\* The positions keep their order.
LEMMA PositionsStep == ASSUME IInv, [Next]_vars PROVE Positions'
<1> USE CapacityAssumption, WordAssumption DEF IInv, TypeOK, prodVars, consVars
<1>1. ASSUME NEW p \in Producers, NEW v \in Events, Push(p, v) PROVE Positions'
  <2>1. \A q \in Producers : /\ InSlot(q)' <=> InSlot(q)
                             /\ ppc'[q] = "cas" <=> ppc[q] = "cas"
                             /\ q # p => pos'[q] = pos[q]
    BY <1>1 DEF Push, InSlot
  <2>2. pos'[p] = enqueue_pos /\ ppc'[p] = "check" /\ ppc[p] = "idle"
    BY <1>1 DEF Push
  <2>3. \A x \in Nat : Owned(x)' <=> Owned(x)
    BY <2>1, <2>2 DEF Owned, InSlot
  <2> QED
    BY <1>1, <2>1, <2>2, <2>3 DEF Push, Positions, InSlot
<1>2. ASSUME NEW p \in Producers, Check(p) \/ Refuse(p) PROVE Positions'
  <2>1. \A q \in Producers : InSlot(q)' <=> InSlot(q)
    BY <1>2 DEF Check, Refuse, InSlot
  <2>2. \A q \in Producers : ppc'[q] = "cas" => pos[q] - dequeue_pos < Capacity
    BY <1>2, RoomMeans DEF Check, Refuse, Positions
  <2>3. /\ UNCHANGED <<pos, enqueue_pos, dequeue_pos, claimed, got, cpc>>
        /\ \A x : Owned(x)' <=> Owned(x)
    BY <1>2, <2>1 DEF Check, Refuse, Owned
  <2> QED
    BY <2>1, <2>2, <2>3 DEF Positions
<1>3. ASSUME NEW p \in Producers, Claim(p) PROVE Positions'
  <2>1. /\ pos[p] = enqueue_pos /\ enqueue_pos' = enqueue_pos + 1 /\ enqueue_pos < MaxPush
        /\ enqueue_pos - dequeue_pos < Capacity
        /\ UNCHANGED <<pos, dequeue_pos, got, cpc>>
        /\ InSlot(p)' /\ ~InSlot(p) /\ \A q \in Producers \ {p} : ppc'[q] = ppc[q]
        /\ ppc'[p] = "construct"
    BY <1>3 DEF Claim, Positions, InSlot
  <2>2. Len(claimed') = enqueue_pos'
    BY <1>3 DEF Claim, Positions
  <2>3. \A q \in Producers : /\ pos[q] <= enqueue_pos'
                             /\ ppc'[q] = "cas" => pos[q] - dequeue_pos < Capacity
                             /\ InSlot(q)' => dequeue_pos <= pos[q] /\ pos[q] < enqueue_pos'
    BY <2>1 DEF Positions, InSlot
  <2>4. \A q, r \in Producers : (q # r /\ InSlot(q)' /\ InSlot(r)') => pos[q] # pos[r]
    BY <2>1 DEF Positions, InSlot
  <2>5. cpc # "idle" => dequeue_pos < enqueue_pos' /\ ~Owned(dequeue_pos)'
    <3>1. SUFFICES ASSUME cpc # "idle" PROVE dequeue_pos < enqueue_pos' /\ ~Owned(dequeue_pos)'
      OBVIOUS
    <3>2. dequeue_pos < enqueue_pos /\ ~Owned(dequeue_pos)
      BY <3>1 DEF Positions
    <3>3. \A q \in Producers : InSlot(q)' => pos[q] # dequeue_pos
      BY <2>1, <3>2 DEF Owned, InSlot
    <3> QED
      BY <2>1, <3>2, <3>3 DEF Owned
  <2> QED
    BY <2>1, <2>2, <2>3, <2>4, <2>5 DEF Positions
<1>4. ASSUME NEW p \in Producers, Retry(p) PROVE Positions'
  <2>1. \A q \in Producers : /\ InSlot(q)' <=> InSlot(q)
                             /\ ppc'[q] = "cas" => ppc[q] = "cas" /\ q # p
                             /\ q # p => pos'[q] = pos[q]
    BY <1>4 DEF Retry, InSlot
  <2>2. pos'[p] = enqueue_pos /\ ~InSlot(p)
    BY <1>4 DEF Retry, InSlot
  <2>3. /\ UNCHANGED <<enqueue_pos, dequeue_pos, claimed, got, cpc>>
        /\ \A x \in Nat : Owned(x)' <=> Owned(x)
    BY <1>4, <2>1, <2>2 DEF Retry, Owned
  <2>4. \A q \in Producers : /\ pos'[q] <= enqueue_pos
                             /\ ppc'[q] = "cas" => pos'[q] - dequeue_pos < Capacity
                             /\ InSlot(q)' => dequeue_pos <= pos'[q] /\ pos'[q] < enqueue_pos
    BY <2>1, <2>2 DEF Positions
  <2>5. \A q, r \in Producers : (q # r /\ InSlot(q)' /\ InSlot(r)') => pos'[q] # pos'[r]
    BY <2>1, <2>2 DEF Positions
  <2> QED
    BY <2>3, <2>4, <2>5 DEF Positions
<1>5. ASSUME NEW p \in Producers, Construct(p) \/ SetReady(p) PROVE Positions'
  <2>1. \A q \in Producers : /\ InSlot(q)' => InSlot(q)
                             /\ ppc'[q] = "cas" => ppc[q] = "cas"
    BY <1>5 DEF Construct, SetReady, InSlot
  <2>2. /\ UNCHANGED <<pos, enqueue_pos, dequeue_pos, claimed, got, cpc>>
        /\ \A x \in Nat : Owned(x)' => Owned(x)
    BY <1>5, <2>1 DEF Construct, SetReady, Owned
  <2> QED
    BY <2>1, <2>2 DEF Positions
<1>6. CASE TryPop
  BY <1>6, ReadyMeans DEF TryPop, Positions, Owned, InSlot
<1>7. CASE Take \/ LowerFlag
  BY <1>7 DEF Take, LowerFlag, Positions, Owned, InSlot
<1>8. CASE Advance
  <2>1. /\ dequeue_pos' = dequeue_pos + 1 /\ cpc' = "idle"
        /\ UNCHANGED <<enqueue_pos, claimed, ppc, pos>>
        /\ dequeue_pos < enqueue_pos /\ ~Owned(dequeue_pos)
    BY <1>8 DEF Advance, Positions
  <2>2. Len(got') = dequeue_pos'
    BY <1>8 DEF Advance, Positions
  <2>3. \A p \in Producers : /\ ppc[p] = "cas" => pos[p] - dequeue_pos' < Capacity
                             /\ InSlot(p) => dequeue_pos' <= pos[p]
    BY <2>1 DEF Positions, Owned
  <2> QED
    BY <2>1, <2>2, <2>3 DEF Positions, InSlot
<1>9. CASE Destruct \/ UNCHANGED vars
  BY <1>9 DEF Destruct, vars, Positions, Owned, InSlot
<1> QED
  BY <1>1, <1>2, <1>3, <1>4, <1>5, <1>6, <1>7, <1>8, <1>9 DEF Next, Producer, Consumer

\* Type correctness is preserved by every step.
LEMMA TypeStep == ASSUME IInv, [Next]_vars PROVE TypeOK'
<1> USE CapacityAssumption, SlotType DEF IInv, TypeOK, prodVars, consVars
<1>0. (enqueue_pos - dequeue_pos <= Capacity)'
  BY PositionsStep DEF Positions
<1>1. ASSUME NEW p \in Producers, NEW v \in Events, Push(p, v) PROVE TypeOK'
  BY <1>0, <1>1 DEF Push, IsFull
<1>2. ASSUME NEW p \in Producers, Check(p) \/ Refuse(p) \/ Retry(p) \/ Construct(p) \/ SetReady(p)
      PROVE  TypeOK'
  BY <1>0, <1>2 DEF Check, Refuse, Retry, Construct, SetReady
<1>3. ASSUME NEW p \in Producers, Claim(p) PROVE TypeOK'
  <2>1. sawFull' \in [Producers -> BOOLEAN]
    BY <1>3 DEF Claim
  <2>2. claimed' \in Seq(Events \cup {Raw})
    BY <1>3 DEF Claim
  <2>3. enqueue_pos' \in Nat
    BY <1>3 DEF Claim
  <2> QED
    BY <1>0, <1>3, <2>1, <2>2, <2>3 DEF Claim
<1>4. CASE TryPop \/ Take \/ LowerFlag
  BY <1>0, <1>4 DEF TryPop, Take, LowerFlag
<1>5. CASE Advance
  <2>1. got' \in Seq(Events \cup {Raw})
    BY <1>5 DEF Advance
  <2>2. dequeue_pos' \in Nat
    BY <1>5 DEF Advance
  <2> QED
    BY <1>0, <1>5, <2>1, <2>2 DEF Advance
<1>6. CASE Destruct \/ UNCHANGED vars
  BY <1>6 DEF Destruct, vars
<1> QED
  BY <1>1, <1>2, <1>3, <1>4, <1>5, <1>6 DEF Next, Producer, Consumer

\* What Claim does to the history: one more claimed position, the last.
LEMMA ClaimAppends ==
  ASSUME IInv, NEW p \in Producers, Claim(p)
  PROVE  /\ pos[p] = enqueue_pos /\ enqueue_pos < dequeue_pos + Capacity
         /\ enqueue_pos' = enqueue_pos + 1
         /\ \A x \in Nat : x < enqueue_pos => claimed'[x + 1] = claimed[x + 1]
         /\ claimed'[enqueue_pos + 1] = arg[p]
  BY CapacityAssumption DEF IInv, TypeOK, Positions, Claim

\* A producer in its slot stays alone there.
LEMMA OwnersStep == ASSUME IInv, [Next]_vars PROVE Owners'
<1> USE CapacityAssumption, SlotType DEF IInv, TypeOK, prodVars, consVars
<1>0. \A p \in Producers : InSlot(p) =>
        /\ pos[p] \in Nat /\ dequeue_pos <= pos[p] /\ pos[p] < dequeue_pos + Capacity
        /\ pos[p] < enqueue_pos
  BY DEF Positions
<1>1. ASSUME UNCHANGED <<claimed, storage, ready>>,
             \A p \in Producers : InSlot(p)' => /\ InSlot(p) /\ ppc'[p] = ppc[p]
                                                /\ pos'[p] = pos[p] /\ arg'[p] = arg[p]
      PROVE  Owners'
  BY <1>1 DEF Owners
<1>2. ASSUME NEW p \in Producers, NEW v \in Events, Push(p, v) PROVE Owners'
  BY <1>1, <1>2 DEF Push, InSlot
<1>3. ASSUME NEW p \in Producers, Check(p) \/ Refuse(p) \/ Retry(p) PROVE Owners'
  BY <1>1, <1>3 DEF Check, Refuse, Retry, InSlot
<1>4. ASSUME NEW p \in Producers, Claim(p) PROVE Owners'
  <2>1. /\ UNCHANGED <<pos, arg, storage, ready>> /\ ppc' = [ppc EXCEPT ![p] = "construct"]
        /\ ~InSlot(p)
    BY <1>4 DEF Claim, InSlot
  <2>2. ~ready[Slot(pos[p])] /\ storage[Slot(pos[p])] = Raw
    BY <1>4, ClaimAppends DEF Published
  <2>3. claimed'[pos[p] + 1] = arg[p]
    BY <1>4, ClaimAppends
  <2>4. ASSUME NEW q \in Producers, q # p, InSlot(q)'
        PROVE  InSlot(q) /\ ppc'[q] = ppc[q] /\ claimed'[pos[q] + 1] = claimed[pos[q] + 1]
    BY <1>0, <1>4, <2>1, <2>4, ClaimAppends DEF InSlot
  <2>5. ASSUME NEW q \in Producers, q # p, InSlot(q)'
        PROVE  /\ ~ready[Slot(pos[q])] /\ claimed'[pos[q] + 1] = arg[q]
               /\ storage[Slot(pos[q])] = IF ppc'[q] = "construct" THEN Raw ELSE arg[q]
    BY <2>4, <2>5 DEF Owners
  <2>6. ppc'[p] = "construct"
    BY <2>1
  <2> QED
    BY <2>1, <2>2, <2>3, <2>5, <2>6 DEF Owners
<1>5. ASSUME NEW p \in Producers, InSlot(p), NEW q \in Producers, q # p, InSlot(q)
      PROVE  Slot(pos[q]) # Slot(pos[p])
  BY <1>0, <1>5, WindowSlots DEF Positions
<1>6. ASSUME NEW p \in Producers, Construct(p) PROVE Owners'
  <2>1. /\ UNCHANGED <<pos, arg, ready, claimed>> /\ ppc' = [ppc EXCEPT ![p] = "ready"]
        /\ storage' = [storage EXCEPT ![Slot(pos[p])] = arg[p]] /\ InSlot(p)
        /\ \A q \in Producers : InSlot(q)' <=> InSlot(q)
    BY <1>6 DEF Construct, InSlot
  <2> QED
    BY <1>5, <2>1 DEF Owners
<1>7. ASSUME NEW p \in Producers, SetReady(p) PROVE Owners'
  <2>1. /\ UNCHANGED <<pos, arg, storage, claimed>> /\ ppc' = [ppc EXCEPT ![p] = "idle"]
        /\ ready' = [ready EXCEPT ![Slot(pos[p])] = TRUE] /\ InSlot(p)
        /\ \A q \in Producers : InSlot(q)' => InSlot(q) /\ q # p /\ ppc'[q] = ppc[q]
    BY <1>7 DEF SetReady, InSlot
  <2>2. ASSUME NEW q \in Producers, InSlot(q)' PROVE ~ready'[Slot(pos[q])]
    BY <1>5, <2>1, <2>2 DEF Owners
  <2> QED
    BY <2>1, <2>2 DEF Owners
<1>8. CASE TryPop \/ Advance \/ UNCHANGED vars
  BY <1>1, <1>8 DEF TryPop, Advance, vars, InSlot
<1>9. CASE Take
  <2>1. /\ UNCHANGED <<pos, arg, ready, claimed, ppc>>
        /\ storage' = [storage EXCEPT ![Slot(dequeue_pos)] = Raw]
        /\ ~Owned(dequeue_pos)
    BY <1>9 DEF Take, Positions
  <2>2. ASSUME NEW q \in Producers, InSlot(q) PROVE Slot(pos[q]) # Slot(dequeue_pos)
    BY <1>0, <2>1, <2>2, WindowSlots DEF Owned
  <2> QED
    BY <2>1, <2>2 DEF Owners, InSlot
<1>10. CASE LowerFlag
  BY <1>10 DEF LowerFlag, Owners, InSlot
<1>11. CASE Destruct
  BY <1>11 DEF Destruct, Owners, InSlot
<1> QED
  BY <1>2, <1>3, <1>4, <1>6, <1>7, <1>8, <1>9, <1>10, <1>11 DEF Next, Producer, Consumer

\* The published part of the ring stays published until it is taken.
LEMMA PublishedStep == ASSUME IInv, [Next]_vars PROVE Published'
<1> USE CapacityAssumption, SlotType DEF IInv, TypeOK, prodVars, consVars
<1> DEFINE Window(x) == dequeue_pos <= x /\ x < dequeue_pos + Capacity
           Live(x) == dequeue_pos <= x /\ x < enqueue_pos /\ ~Owned(x)
           Rest(x) == enqueue_pos <= x /\ x < dequeue_pos + Capacity
<1>0. /\ \A x \in Nat : Live(x) \/ Rest(x) => Window(x)
      /\ \A p \in Producers : InSlot(p) => /\ pos[p] \in Nat /\ Window(pos[p])
                                           /\ ~Live(pos[p]) /\ ~Rest(pos[p])
  BY DEF Positions, Owned
<1>1. ASSUME UNCHANGED <<claimed, storage, ready, dequeue_pos, enqueue_pos, alive>>,
             cpc' = cpc \/ (cpc = "idle" /\ cpc' = "take"),
             \A x \in Nat : Owned(x)' <=> Owned(x)
      PROVE  Published'
  BY <1>1 DEF Published
<1>2. ASSUME NEW p \in Producers, NEW v \in Events, Push(p, v) PROVE Published'
  BY <1>1, <1>2 DEF Push, InSlot, Owned
<1>3. ASSUME NEW p \in Producers, Check(p) \/ Refuse(p) \/ Retry(p) PROVE Published'
  BY <1>1, <1>3 DEF Check, Refuse, Retry, InSlot, Owned
<1>4. ASSUME NEW p \in Producers, Claim(p) PROVE Published'
  <2>1. /\ UNCHANGED <<pos, arg, storage, ready, dequeue_pos, cpc, alive>> /\ InSlot(p)'
        /\ \A q \in Producers : InSlot(q) => InSlot(q)'
        /\ pos[p] = enqueue_pos /\ enqueue_pos' = enqueue_pos + 1
        /\ \A x \in Nat : x < enqueue_pos => claimed'[x + 1] = claimed[x + 1]
    BY <1>4, ClaimAppends DEF Claim, InSlot
  <2>2. ASSUME NEW x \in Nat, x < enqueue_pos', ~Owned(x)' PROVE x < enqueue_pos /\ ~Owned(x)
    BY <2>1, <2>2 DEF Owned
  <2>3. ASSUME NEW x \in Nat, dequeue_pos <= x, x < enqueue_pos', ~Owned(x)'
        PROVE  /\ ready[Slot(x)] <=> ~(x = dequeue_pos /\ cpc = "advance")
               /\ alive => storage[Slot(x)] = IF x = dequeue_pos /\ cpc \in {"lower", "advance"}
                                              THEN Raw ELSE claimed'[x + 1]
    BY <2>1, <2>2, <2>3 DEF Published
  <2>4. ASSUME NEW x \in Nat, enqueue_pos' <= x, x < dequeue_pos + Capacity
        PROVE  ~ready[Slot(x)] /\ storage[Slot(x)] = Raw
    BY <2>1, <2>4 DEF Published
  <2> QED
    BY <2>1, <2>3, <2>4 DEF Published
<1>5. ASSUME NEW p \in Producers, Construct(p) PROVE Published'
  <2>1. /\ UNCHANGED <<pos, arg, claimed, ready, dequeue_pos, enqueue_pos, cpc, alive>> /\ InSlot(p)
        /\ \A q \in Producers : InSlot(q) <=> InSlot(q)'
        /\ storage' = [storage EXCEPT ![Slot(pos[p])] = arg[p]]
    BY <1>5 DEF Construct, InSlot
  <2>2. \A x \in Nat : Owned(x)' <=> Owned(x)
    BY <2>1 DEF Owned
  <2>3. ASSUME NEW x \in Nat, Live(x) \/ Rest(x) PROVE storage'[Slot(x)] = storage[Slot(x)]
    <3>1. Slot(x) # Slot(pos[p])
      BY <1>0, <2>1, <2>3, WindowSlots
    <3> QED
      BY <2>1, <3>1
  <2> QED
    BY <2>1, <2>2, <2>3 DEF Published
<1>6. ASSUME NEW p \in Producers, SetReady(p) PROVE Published'
  <2>1. /\ UNCHANGED <<pos, arg, claimed, storage, dequeue_pos, enqueue_pos, cpc, alive>> /\ InSlot(p)
        /\ \A q \in Producers \ {p} : InSlot(q) <=> InSlot(q)'
        /\ ready' = [ready EXCEPT ![Slot(pos[p])] = TRUE] /\ ppc[p] = "ready"
    BY <1>6 DEF SetReady, InSlot
  <2>2. ASSUME NEW x \in Nat, x # pos[p], Owned(x) PROVE Owned(x)'
    BY <2>1, <2>2 DEF Owned
  <2>3. ASSUME NEW x \in Nat, x # pos[p], Window(x) PROVE ready'[Slot(x)] <=> ready[Slot(x)]
    <3>1. Slot(x) # Slot(pos[p])
      BY <1>0, <2>1, <2>3, WindowSlots
    <3> QED
      BY <2>1, <3>1
  <2>4. /\ ready'[Slot(pos[p])] /\ storage[Slot(pos[p])] = claimed[pos[p] + 1]
        /\ pos[p] = dequeue_pos => cpc = "idle"
    BY <1>0, <2>1 DEF Owners, Positions, Owned
  <2>5. ASSUME NEW x \in Nat, dequeue_pos <= x, x < enqueue_pos, ~Owned(x)'
        PROVE  /\ ready'[Slot(x)] <=> ~(x = dequeue_pos /\ cpc = "advance")
               /\ alive => storage[Slot(x)] = IF x = dequeue_pos /\ cpc \in {"lower", "advance"}
                                              THEN Raw ELSE claimed[x + 1]
    <3>1. CASE x = pos[p]
      BY <2>4, <3>1
    <3>2. CASE x # pos[p]
      BY <1>0, <2>2, <2>3, <2>5, <3>2 DEF Published
    <3> QED
      BY <3>1, <3>2
  <2>6. ASSUME NEW x \in Nat, Rest(x) PROVE ~ready'[Slot(x)] /\ storage[Slot(x)] = Raw
    BY <1>0, <2>1, <2>3, <2>6 DEF Published
  <2> QED
    BY <2>1, <2>5, <2>6 DEF Published
<1>7. CASE TryPop \/ UNCHANGED vars
  BY <1>1, <1>7 DEF TryPop, vars, InSlot, Owned
<1>8. CASE Take
  <2>1. /\ UNCHANGED <<claimed, ready, dequeue_pos, enqueue_pos, alive, ppc, pos>>
        /\ storage' = [storage EXCEPT ![Slot(dequeue_pos)] = Raw]
        /\ cpc = "take" /\ cpc' = "lower"
    BY <1>8 DEF Take
  <2>2. \A x \in Nat : Owned(x)' <=> Owned(x)
    BY <2>1 DEF Owned, InSlot
  <2>3. ASSUME NEW x \in Nat, x # dequeue_pos, Window(x) PROVE storage'[Slot(x)] = storage[Slot(x)]
    <3>1. Slot(x) # Slot(dequeue_pos)
      BY <2>3, WindowSlots
    <3> QED
      BY <2>1, <3>1
  <2>4. storage'[Slot(dequeue_pos)] = Raw
    BY <2>1
  <2>5. ASSUME NEW x \in Nat, Live(x)
        PROVE  /\ ready[Slot(x)]
               /\ alive => storage'[Slot(x)] = IF x = dequeue_pos THEN Raw ELSE claimed[x + 1]
    BY <1>0, <2>1, <2>3, <2>4, <2>5 DEF Published
  <2>6. ASSUME NEW x \in Nat, Rest(x) PROVE ~ready[Slot(x)] /\ storage'[Slot(x)] = Raw
    BY <1>0, <2>3, <2>4, <2>6 DEF Published
  <2> QED
    BY <2>1, <2>2, <2>5, <2>6 DEF Published
<1>9. CASE LowerFlag
  <2>1. /\ UNCHANGED <<claimed, storage, dequeue_pos, enqueue_pos, alive, ppc, pos>>
        /\ ready' = [ready EXCEPT ![Slot(dequeue_pos)] = FALSE]
        /\ cpc = "lower" /\ cpc' = "advance"
    BY <1>9 DEF LowerFlag
  <2>2. \A x \in Nat : Owned(x)' <=> Owned(x)
    BY <2>1 DEF Owned, InSlot
  <2>3. ASSUME NEW x \in Nat, x # dequeue_pos, Window(x) PROVE ready'[Slot(x)] <=> ready[Slot(x)]
    <3>1. Slot(x) # Slot(dequeue_pos)
      BY <2>3, WindowSlots
    <3> QED
      BY <2>1, <3>1
  <2>4. ~ready'[Slot(dequeue_pos)]
    BY <2>1
  <2>5. ASSUME NEW x \in Nat, Live(x)
        PROVE  /\ ready'[Slot(x)] <=> x # dequeue_pos
               /\ alive => storage[Slot(x)] = IF x = dequeue_pos THEN Raw ELSE claimed[x + 1]
    BY <1>0, <2>1, <2>3, <2>4, <2>5 DEF Published
  <2>6. ASSUME NEW x \in Nat, Rest(x) PROVE ~ready'[Slot(x)] /\ storage[Slot(x)] = Raw
    BY <1>0, <2>3, <2>4, <2>6 DEF Published
  <2> QED
    BY <2>1, <2>2, <2>5, <2>6 DEF Published
<1>10. CASE Advance
  <2>1. /\ UNCHANGED <<claimed, storage, ready, enqueue_pos, alive, ppc, pos>>
        /\ dequeue_pos' = dequeue_pos + 1 /\ cpc = "advance" /\ cpc' = "idle" /\ alive
        /\ Live(dequeue_pos)
    BY <1>10 DEF Advance, Closed, Positions
  <2>2. \A x \in Nat : Owned(x)' <=> Owned(x)
    BY <2>1 DEF Owned, InSlot
  <2>3. ~ready[Slot(dequeue_pos + Capacity)] /\ storage[Slot(dequeue_pos + Capacity)] = Raw
    BY <2>1, SlotLap DEF Published
  <2>4. ASSUME NEW x \in Nat, enqueue_pos <= x, x < dequeue_pos' + Capacity
        PROVE  ~ready[Slot(x)] /\ storage[Slot(x)] = Raw
    <3>1. CASE x = dequeue_pos + Capacity
      BY <2>3, <3>1
    <3>2. CASE x < dequeue_pos + Capacity
      BY <2>4, <3>2 DEF Published
    <3> QED
      BY <2>1, <2>4, <3>1, <3>2
  <2>5. ASSUME NEW x \in Nat, dequeue_pos' <= x, x < enqueue_pos, ~Owned(x)
        PROVE  ready[Slot(x)] /\ (alive => storage[Slot(x)] = claimed[x + 1])
    BY <2>1, <2>5 DEF Published
  <2> QED
    BY <2>1, <2>2, <2>4, <2>5 DEF Published
<1>11. CASE Destruct
  <2>1. \A s \in Slots : storage[s] = Raw => storage'[s] = Raw
    BY <1>11 DEF Destruct
  <2>2. /\ UNCHANGED <<claimed, ready, dequeue_pos, enqueue_pos, cpc, ppc, pos>> /\ ~alive'
    BY <1>11 DEF Destruct
  <2>3. \A x \in Nat : Owned(x)' <=> Owned(x)
    BY <2>2 DEF Owned, InSlot
  <2> QED
    BY <2>1, <2>2, <2>3 DEF Published
<1> QED
  BY <1>2, <1>3, <1>4, <1>5, <1>6, <1>7, <1>8, <1>9, <1>10, <1>11 DEF Next, Producer, Consumer

\* What the consumer has returned stays a prefix of what was claimed.
LEMMA TakenStep == ASSUME IInv, [Next]_vars PROVE Taken'
<1> USE DEF IInv, TypeOK, prodVars, consVars
<1>0. /\ Len(got) = dequeue_pos /\ dequeue_pos <= enqueue_pos
      /\ cpc # "idle" => alive /\ dequeue_pos < enqueue_pos /\ ~Owned(dequeue_pos)
  BY DEF Positions, Closed
<1>1. ASSUME UNCHANGED <<out, claimed, got, dequeue_pos>>,
             cpc' \in {"lower", "advance"} => cpc \in {"lower", "advance"}
      PROVE  Taken'
  BY <1>1 DEF Taken
<1>2. ASSUME NEW p \in Producers, NEW v \in Events, Push(p, v) PROVE Taken'
  BY <1>1, <1>2 DEF Push
<1>3. ASSUME NEW p \in Producers, Check(p) \/ Refuse(p) \/ Retry(p) \/ Construct(p) \/ SetReady(p)
      PROVE  Taken'
  BY <1>1, <1>3 DEF Check, Refuse, Retry, Construct, SetReady
<1>4. ASSUME NEW p \in Producers, Claim(p) PROVE Taken'
  <2>1. UNCHANGED <<out, got, dequeue_pos, cpc>>
    BY <1>4 DEF Claim
  <2>2. \A i \in 1 .. enqueue_pos : claimed'[i] = claimed[i]
    BY <1>4 DEF Claim, Positions
  <2> QED
    <3>1. ASSUME cpc \in {"lower", "advance"} PROVE out = claimed'[dequeue_pos + 1]
      <4>1. dequeue_pos + 1 \in 1 .. enqueue_pos
        BY <1>0, <3>1
      <4> QED
        BY <2>2, <3>1, <4>1 DEF Taken
    <3>2. ASSUME NEW i \in 1 .. Len(got) PROVE got[i] = claimed'[i]
      <4>1. i \in 1 .. enqueue_pos
        BY <1>0
      <4> QED
        BY <2>2, <4>1 DEF Taken
    <3> QED
      BY <2>1, <3>1, <3>2 DEF Taken
<1>5. CASE Take
  <2>1. out' = claimed[dequeue_pos + 1]
    BY <1>0, <1>5 DEF Take, Published
  <2> QED
    BY <1>5, <2>1 DEF Take, Taken
<1>6. CASE Advance
  <2>1. got' = Append(got, claimed[dequeue_pos + 1])
    BY <1>6 DEF Advance, Taken
  <2>2. \A i \in 1 .. Len(got') : got'[i] = claimed[i]
    BY <1>0, <2>1, SMTT(30) DEF Taken
  <2> QED
    BY <1>6, <2>2 DEF Advance, Taken
<1>7. CASE TryPop \/ LowerFlag \/ Destruct \/ UNCHANGED vars
  BY <1>1, <1>7 DEF TryPop, LowerFlag, Destruct, vars
<1> QED
  BY <1>2, <1>3, <1>4, <1>5, <1>6, <1>7 DEF Next, Producer, Consumer

\* The flags go on covering every element in storage.
LEMMA FlaggedStep == ASSUME IInv, [Next]_vars PROVE Flagged'
<1> USE SlotType DEF IInv, TypeOK, prodVars, consVars
<1>1. ASSUME NEW p \in Producers, NEW v \in Events, Push(p, v) PROVE Flagged'
  BY <1>1 DEF Push, Flagged
<1>2. ASSUME NEW p \in Producers, Check(p) \/ Refuse(p) \/ Retry(p) \/ Claim(p) PROVE Flagged'
  BY <1>2 DEF Check, Refuse, Retry, Claim, Flagged
<1>3. ASSUME NEW p \in Producers, Construct(p) PROVE Flagged'
  BY <1>3 DEF Construct, Flagged
<1>4. ASSUME NEW p \in Producers, SetReady(p) PROVE Flagged'
  BY <1>4 DEF SetReady, Flagged
<1>5. CASE TryPop \/ Advance \/ UNCHANGED vars
  BY <1>5 DEF TryPop, Advance, vars, Flagged
<1>6. CASE Take
  BY <1>6 DEF Take, Flagged
<1>7. CASE LowerFlag
  <2>1. storage[Slot(dequeue_pos)] = Raw
    BY <1>7 DEF LowerFlag, Published, Positions, Closed
  <2> QED
    BY <1>7, <2>1 DEF LowerFlag, Flagged
<1>8. CASE Destruct
  BY <1>8 DEF Destruct, Flagged
<1> QED
  BY <1>1, <1>2, <1>3, <1>4, <1>5, <1>6, <1>7, <1>8 DEF Next, Producer, Consumer

\* The destructor runs once, and nothing runs after it.
LEMMA ClosedStep == ASSUME IInv, [Next]_vars PROVE Closed'
<1> USE DEF IInv, TypeOK, prodVars, consVars, Closed
<1>1. ASSUME NEW p \in Producers, Producer(p) PROVE Closed'
  BY <1>1 DEF Producer, Push, Check, Refuse, Retry, Claim, Construct, SetReady
<1>2. CASE Consumer
  BY <1>2 DEF Consumer, TryPop, Take, LowerFlag, Advance
<1>3. CASE Destruct
  BY <1>3 DEF Destruct, Flagged
<1>4. CASE UNCHANGED vars
  BY <1>4 DEF vars
<1> QED
  BY <1>1, <1>2, <1>3, <1>4 DEF Next

\* A push that has met no full queue keeps facing room.
LEMMA FullnessStep == ASSUME IInv, [Next]_vars PROVE Fullness'
<1> USE CapacityAssumption DEF IInv, TypeOK, prodVars, consVars
<1>1. ASSUME UNCHANGED <<enqueue_pos, sawFull>>, dequeue_pos' = dequeue_pos \/ dequeue_pos' = dequeue_pos + 1,
             \A p \in Producers : /\ ppc'[p] # "idle" => ppc[p] # "idle"
                                  /\ ppc'[p] = "refused" => ppc[p] = "refused" /\ pos'[p] = pos[p]
      PROVE  Fullness'
  BY <1>1 DEF Fullness
<1>2. ASSUME NEW p \in Producers, NEW v \in Events, Push(p, v) PROVE Fullness'
  <2>1. /\ UNCHANGED <<enqueue_pos, dequeue_pos>> /\ ppc'[p] = "check" /\ (sawFull'[p] <=> IsFull)
        /\ \A q \in Producers \ {p} : /\ ppc'[q] = ppc[q] /\ pos'[q] = pos[q]
                                      /\ sawFull'[q] <=> sawFull[q]
    BY <1>2 DEF Push
  <2> QED
    BY <2>1, SMTT(30) DEF IsFull, Fullness
<1>3. ASSUME NEW p \in Producers, Check(p) PROVE Fullness'
  <2>1. ppc'[p] = "refused" => sawFull[p] \/ dequeue_pos > pos[p]
    BY <1>3, RoomMeans DEF Check, Fullness, Positions
  <2> QED
    BY <1>3, <2>1 DEF Check, Fullness
<1>4. ASSUME NEW p \in Producers, Refuse(p) \/ Retry(p) \/ Construct(p) \/ SetReady(p) PROVE Fullness'
  BY <1>1, <1>4 DEF Refuse, Retry, Construct, SetReady
<1>5. ASSUME NEW p \in Producers, Claim(p) PROVE Fullness'
  <2>1. /\ UNCHANGED <<dequeue_pos, pos>> /\ enqueue_pos' = enqueue_pos + 1
        /\ ppc'[p] = "construct" /\ \A q \in Producers \ {p} : ppc'[q] = ppc[q]
        /\ \A q \in Producers : sawFull'[q] <=> (sawFull[q] \/ enqueue_pos' - dequeue_pos >= Capacity)
    BY <1>5 DEF Claim
  <2>2. ASSUME NEW q \in Producers PROVE ~sawFull'[q] => enqueue_pos' - dequeue_pos < Capacity
    BY <2>1
  <2>3. ASSUME NEW q \in Producers, ppc'[q] = "refused" PROVE sawFull'[q] \/ dequeue_pos > pos[q]
    BY <2>1, <2>3 DEF Fullness
  <2> QED
    BY <2>1, <2>2, <2>3 DEF Fullness
<1>6. CASE Consumer \/ Destruct \/ UNCHANGED vars
  BY <1>1, <1>6 DEF Consumer, TryPop, Take, LowerFlag, Advance, Destruct, vars
<1> QED
  BY <1>2, <1>3, <1>4, <1>5, <1>6 DEF Next, Producer
-----------------------------------------------------------------------------
\* The invariant behind every result below holds in every reachable state.
THEOREM Invariance == Spec => []IInv
<1>1. ASSUME IInv, [Next]_vars PROVE IInv'
  BY <1>1, TypeStep, PositionsStep, OwnersStep, PublishedStep, TakenStep, FlaggedStep, ClosedStep,
     FullnessStep DEF IInv
<1> QED
  BY <1>1, InitIInv, PTL DEF Spec

\* The queue's words, slots and threads keep their types, and no more than
\* Capacity positions are ever outstanding.
THEOREM TypeCorrect == Spec => []TypeOK
  BY Invariance, PTL DEF IInv

\* Between the CAS and the flag a producer has its slot to itself, and the
\* destructor misses no element.
THEOREM ExclusiveSlots == Spec => []SlotIsExclusive
<1>1. ASSUME IInv PROVE SlotIsExclusive
  <2> USE <1>1, CapacityAssumption DEF IInv, TypeOK
  <2>1. ASSUME NEW p \in Producers, InSlot(p), NEW q \in Producers \ {p}, InSlot(q)
        PROVE  Slot(pos[q]) # Slot(pos[p])
    BY <2>1, WindowSlots DEF Positions
  <2>2. ASSUME NEW p \in Producers, InSlot(p), cpc = "take" PROVE Slot(dequeue_pos) # Slot(pos[p])
    BY <2>2, WindowSlots DEF Positions, Owned
  <2> QED
    BY <2>1, <2>2 DEF SlotIsExclusive, Owners, Closed
<1> QED
  BY <1>1, Invariance, PTL

\* try_pop() returns the elements in the order their positions were claimed.
THEOREM OrderOfClaims == Spec => []ClaimOrder
<1>1. ASSUME IInv PROVE ClaimOrder
  BY <1>1 DEF IInv, ClaimOrder, Taken, Positions
<1> QED
  BY <1>1, Invariance, PTL

\* A push() that nobody overtook returns false only after a full queue.
THEOREM RefusalsHonest == Spec => []UnracedRefusalIsFull
<1>1. ASSUME IInv PROVE UnracedRefusalIsFull
  BY <1>1 DEF IInv, TypeOK, Fullness, Positions, UnracedRefusalIsFull
<1> QED
  BY <1>1, Invariance, PTL
=============================================================================
