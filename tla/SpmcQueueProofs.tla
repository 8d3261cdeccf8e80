-------------------------- MODULE SpmcQueueProofs ---------------------------
(***************************************************************************)
(* For every capacity, number of consumers and set of events: the ring     *)
(* never races on a slot, delivers in order, refuses honestly, and         *)
(* implements BroadcastLog.                                                *)
(***************************************************************************)
EXTENDS SpmcQueue, TLAPS

\* The masked index pos & INDEX_MASK is pos % Capacity, for a power of two.

\* Positions less than a lap apart use different slots.
LEMMA ModDistinct ==
  ASSUME NEW C \in Nat, C > 0, NEW p \in Nat, NEW q \in Nat, p < q, q - p < C
  PROVE  p % C # q % C
<1> DEFINE a == p \div C
           b == q \div C
<1>1. /\ p = (C * a) + (p % C)
      /\ q = (C * b) + (q % C)
      /\ a \in Int /\ b \in Int
      /\ p % C \in Int /\ q % C \in Int
  OBVIOUS
<1>2. SUFFICES ASSUME p % C = q % C PROVE FALSE
  OBVIOUS
<1> HIDE DEF a, b
<1>3. q - p = C * (b - a)
  BY <1>1, <1>2
<1>4. \A k \in Int : (k <= 0 => C * k <= 0) /\ (k >= 1 => C * k >= C)
  OBVIOUS
<1> QED
  BY <1>1, <1>3, <1>4

\* A lap later the same slot comes round again.
LEMMA ModLap ==
  ASSUME NEW C \in Nat, C > 0, NEW p \in Nat
  PROVE  (p + C) % C = p % C
<1> DEFINE q == p + C
           a == p \div C
           b == q \div C
<1>1. /\ p = (C * a) + (p % C)
      /\ q = (C * b) + (q % C)
      /\ a \in Int /\ b \in Int
      /\ p % C \in 0 .. C - 1 /\ q % C \in 0 .. C - 1
  OBVIOUS
<1> HIDE DEF a, b
<1>2. (p % C) - (q % C) = C * (b - a - 1)
  BY <1>1
<1>3. \A k \in Int : (k <= -1 => C * k <= -C) /\ (k >= 1 => C * k >= C)
  OBVIOUS
<1>4. b - a - 1 = 0
  BY <1>1, <1>2, <1>3
<1> QED
  BY <1>1, <1>2, <1>4

Writing == ppc \in {"construct", "publish"}

\* How far the cursors may lag, and what a consumer or the producer that is
\* inside an operation already knows about them.
Lag == /\ \A c \in Consumers : /\ cursors[c] <= published
                               /\ published - cursors[c] <= Capacity
                               /\ cpc[c] # "idle" => cursors[c] < published
       /\ Writing => \A c \in Consumers : published - cursors[c] < Capacity

\* The scan: the minimum bounds every cursor already looked at, although
\* those cursors have moved on since.
ScanInv == /\ ppc = "scan" => scan < NumConsumers
           /\ ppc = "decide" => scan = NumConsumers
           /\ ppc \in {"scan", "decide"} =>
                /\ published >= Capacity
                /\ \A c \in Consumers : c < scan => min <= cursors[c]
                /\ ~fullAtCall => /\ \A c \in Consumers : published - cursors[c] < Capacity
                                  /\ scan > 0 => min > published - Capacity

\* Position p still has to be readable: it is among the last Capacity ones,
\* and it is not the one the producer is overwriting.
Readable(p) == /\ p < published
               /\ published - p <= Capacity
               /\ Writing => published - p < Capacity

\* Every readable slot holds what was published at its position.
Contents == /\ alive => \A p \in Nat : Readable(p) => storage[Slot(p)] = log[p + 1]
            /\ ppc = "publish" => storage[Slot(published)] = arg
            /\ ppc # "idle" => arg \in Events
            /\ \A c \in Consumers : cpc[c] = "advance" => out[c] = log[cursors[c] + 1]
            /\ ~alive => ppc = "idle" /\ \A c \in Consumers : cpc[c] = "idle"

Histories == /\ Len(log) = published
             /\ \A c \in Consumers :
                  /\ Len(got[c]) = cursors[c]
                  /\ \A i \in 1 .. Len(got[c]) : got[c][i] = log[i]

IInv == RingTypeOK /\ Lag /\ ScanInv /\ Contents /\ Histories
-----------------------------------------------------------------------------
\* Positions less than a lap apart use different slots.
LEMMA SlotDistinct ==
  ASSUME NEW p \in Nat, NEW q \in Nat, p < q, q - p < Capacity
  PROVE  Slot(p) # Slot(q)
<1>1. Capacity \in Nat /\ Capacity > 0
  BY CapacityAssumption
<1> QED
  BY <1>1, ModDistinct, Zenon DEF Slot

\* A lap later the same slot comes round again.
LEMMA SlotLap == ASSUME NEW p \in Nat PROVE Slot(p + Capacity) = Slot(p)
<1>1. Capacity \in Nat /\ Capacity > 0
  BY CapacityAssumption
<1> QED
  BY <1>1, ModLap, Zenon DEF Slot

\* A position always falls on a slot of the ring.
LEMMA SlotType == ASSUME NEW p \in Nat PROVE Slot(p) \in Slots
  BY CapacityAssumption DEF Slot, Slots

\* Appending keeps the earlier entries and adds the new one last.
LEMMA AppendFacts ==
  ASSUME NEW S, NEW s \in Seq(S), NEW e \in S
  PROVE  /\ Append(s, e) \in Seq(S)
         /\ Len(Append(s, e)) = Len(s) + 1
         /\ \A i \in 1 .. Len(s) : Append(s, e)[i] = s[i]
         /\ Append(s, e)[Len(s) + 1] = e
  OBVIOUS
-----------------------------------------------------------------------------
\* A freshly constructed queue satisfies the inductive invariant.
LEMMA InitIInv == RingInit => IInv
<1> SUFFICES ASSUME RingInit PROVE IInv
  OBVIOUS
<1> USE CapacityAssumption, ConsumersAssumption DEF RingInit
<1>1. RingTypeOK
  <2>1. 0 \in Nat /\ 0 \in 0 .. NumConsumers
    OBVIOUS
  <2>2. << >> \in Seq(Events) /\ << >> \in Seq(Events \cup {Raw})
    OBVIOUS
  <2>3. got \in [Consumers -> Seq(Events \cup {Raw})]
    BY <2>2
  <2> QED
    BY <2>1, <2>2, <2>3 DEF RingTypeOK
<1>2. Lag /\ ScanInv /\ Histories
  BY DEF Lag, ScanInv, Histories, Writing
<1>3. Contents
  BY DEF Contents, Readable, Writing
<1> QED
  BY <1>1, <1>2, <1>3 DEF IInv

\* Type correctness is preserved by every step.
LEMMA TypeStep == ASSUME IInv, [RingNext]_ringVars PROVE RingTypeOK'
<1> USE CapacityAssumption, ConsumersAssumption DEF IInv, RingTypeOK, prodVars, consVars
<1>1. ASSUME NEW v \in Events, Push(v) PROVE RingTypeOK'
  BY <1>1 DEF Push
<1>2. CASE ScanCursor
  <2>1. scan \in Consumers
    BY <1>2 DEF ScanCursor, ScanInv, Consumers
  <2> QED
    BY <1>2, <2>1 DEF ScanCursor, Consumers
<1>3. CASE Refuse
  BY <1>3 DEF Refuse
<1>4. CASE Destroy
  BY <1>4 DEF Destroy
<1>5. CASE Construct
  BY <1>5 DEF Construct
<1>6. CASE Publish
  BY <1>6 DEF Publish, Contents
<1>7. ASSUME NEW c \in Consumers, TryPop(c) PROVE RingTypeOK'
  BY <1>7 DEF TryPop
<1>8. ASSUME NEW c \in Consumers, Copy(c) PROVE RingTypeOK'
  BY <1>8, SlotType DEF Copy
<1>9. ASSUME NEW c \in Consumers, Advance(c) PROVE RingTypeOK'
  BY <1>9 DEF Advance
<1>10. CASE Destruct
  BY <1>10 DEF Destruct
<1>11. CASE UNCHANGED ringVars
  BY <1>11 DEF ringVars
<1> QED
  BY <1>1, <1>2, <1>3, <1>4, <1>5, <1>6, <1>7, <1>8, <1>9, <1>10, <1>11
     DEF RingNext, Producer, Consumer

\* No step lets a cursor fall out of its bounds.
LEMMA LagStep == ASSUME IInv, [RingNext]_ringVars PROVE Lag'
<1> USE CapacityAssumption, ConsumersAssumption DEF IInv, RingTypeOK, prodVars, consVars, Lag, Writing
<1>1. ASSUME NEW v \in Events, Push(v) PROVE Lag'
  BY <1>1 DEF Push
<1>2. CASE ScanCursor
  BY <1>2 DEF ScanCursor
<1>3. CASE Refuse
  BY <1>3 DEF Refuse
<1>4. CASE Destroy
  <2>1. \A c \in Consumers : min <= cursors[c]
    BY <1>4 DEF Destroy, ScanInv, Consumers
  <2>2. \A c \in Consumers : published - cursors[c] < Capacity
    BY <2>1, <1>4 DEF Destroy, SlotFree
  <2> QED
    BY <1>4, <2>2 DEF Destroy
<1>5. CASE Construct
  BY <1>5 DEF Construct
<1>6. CASE Publish
  BY <1>6 DEF Publish
<1>7. ASSUME NEW c \in Consumers, TryPop(c) PROVE Lag'
  BY <1>7 DEF TryPop
<1>8. ASSUME NEW c \in Consumers, Copy(c) PROVE Lag'
  BY <1>8 DEF Copy
<1>9. ASSUME NEW c \in Consumers, Advance(c) PROVE Lag'
  BY <1>9 DEF Advance
<1>10. CASE Destruct
  BY <1>10 DEF Destruct
<1>11. CASE UNCHANGED ringVars
  BY <1>11 DEF ringVars
<1> QED
  BY <1>1, <1>2, <1>3, <1>4, <1>5, <1>6, <1>7, <1>8, <1>9, <1>10, <1>11
     DEF RingNext, Producer, Consumer

\* Cursors only grow, so what the scan has learnt stays true.
LEMMA ScanStep == ASSUME IInv, [RingNext]_ringVars PROVE ScanInv'
<1> USE CapacityAssumption, ConsumersAssumption DEF IInv, RingTypeOK, prodVars, consVars, ScanInv
<1>1. ASSUME NEW v \in Events, Push(v) PROVE ScanInv'
  BY <1>1 DEF Push, Consumers
<1>2. CASE ScanCursor
  <2>1. scan \in Consumers
    BY <1>2 DEF ScanCursor, Consumers
  <2>2. min' <= cursors[scan] /\ (scan > 0 => min' <= min)
    BY <1>2, <2>1 DEF ScanCursor
  <2>3. \A c \in Consumers : c < scan + 1 => min' <= cursors[c]
    BY <1>2, <2>1, <2>2 DEF ScanCursor, Consumers
  <2>4. ~fullAtCall => min' > published - Capacity
    BY <1>2, <2>1 DEF ScanCursor
  <2> QED
    BY <1>2, <2>1, <2>3, <2>4 DEF ScanCursor, Consumers
<1>3. CASE Refuse
  BY <1>3 DEF Refuse
<1>4. CASE Destroy
  BY <1>4 DEF Destroy
<1>5. CASE Construct
  BY <1>5 DEF Construct
<1>6. CASE Publish
  BY <1>6 DEF Publish
<1>7. ASSUME NEW c \in Consumers, TryPop(c) PROVE ScanInv'
  BY <1>7 DEF TryPop
<1>8. ASSUME NEW c \in Consumers, Copy(c) PROVE ScanInv'
  BY <1>8 DEF Copy
<1>9. ASSUME NEW c \in Consumers, Advance(c) PROVE ScanInv'
  BY <1>9 DEF Advance
<1>10. CASE Destruct
  BY <1>10 DEF Destruct
<1>11. CASE UNCHANGED ringVars
  BY <1>11 DEF ringVars
<1> QED
  BY <1>1, <1>2, <1>3, <1>4, <1>5, <1>6, <1>7, <1>8, <1>9, <1>10, <1>11
     DEF RingNext, Producer, Consumer

\* The histories stay in step with the cursors and with each other.
LEMMA HistoriesStep == ASSUME IInv, [RingNext]_ringVars PROVE Histories'
<1> USE DEF IInv, RingTypeOK, prodVars, consVars, Histories
<1>1. CASE Publish
  <2>1. arg \in Events
    BY <1>1 DEF Publish, Contents
  <2>2. /\ Len(log') = published'
        /\ \A i \in 1 .. published : log'[i] = log[i]
    BY <1>1, <2>1, AppendFacts DEF Publish
  <2>3. ASSUME NEW c \in Consumers
        PROVE  \A i \in 1 .. Len(got[c]) : got[c][i] = log'[i]
    BY <2>2 DEF Lag
  <2> QED
    BY <1>1, <2>2, <2>3 DEF Publish
<1>2. ASSUME NEW c \in Consumers, Advance(c) PROVE Histories'
  <2> DEFINE g == Append(got[c], out[c])
  <2>1. got' = [got EXCEPT ![c] = g] /\ cursors' = [cursors EXCEPT ![c] = @ + 1]
    BY <1>2 DEF Advance
  <2>2. /\ Len(g) = Len(got[c]) + 1
        /\ \A i \in 1 .. Len(got[c]) : g[i] = got[c][i]
        /\ g[Len(got[c]) + 1] = out[c]
    BY AppendFacts
  <2>3. out[c] = log[Len(got[c]) + 1]
    BY <1>2 DEF Advance, Contents
  <2> HIDE DEF g
  <2>4. ASSUME NEW i \in 1 .. Len(g) PROVE g[i] = log[i]
    <3>1. got[c] \in Seq(Events \cup {Raw})
      OBVIOUS
    <3> HIDE DEF IInv, RingTypeOK, Histories
    <3>2. i = Len(got[c]) + 1 \/ i \in 1 .. Len(got[c])
      BY <2>2, <3>1
    <3>3. CASE i \in 1 .. Len(got[c])
      BY <2>2, <3>3 DEF IInv, Histories
    <3> QED
      BY <2>2, <2>3, <3>2, <3>3
  <2>5. ASSUME NEW d \in Consumers
        PROVE  /\ Len(got'[d]) = cursors'[d]
               /\ \A i \in 1 .. Len(got'[d]) : got'[d][i] = log[i]
    <3>1. CASE d = c
      BY <3>1, <2>1, <2>2, <2>4
    <3>2. CASE d # c
      BY <3>2, <2>1
    <3> QED
      BY <3>1, <3>2
  <2> QED
    BY <1>2, <2>5 DEF Advance
<1>3. CASE UNCHANGED <<published, cursors, log, got>>
  BY <1>3
<1> QED
  BY <1>1, <1>2, <1>3 DEF RingNext, Producer, Consumer, Push, ScanCursor, Refuse, Destroy,
                          Construct, TryPop, Copy, Destruct, ringVars

\* No step damages a slot that somebody may still read.
LEMMA ContentsStep == ASSUME IInv, [RingNext]_ringVars PROVE Contents'
<1> USE CapacityAssumption, ConsumersAssumption, SlotType
    DEF IInv, RingTypeOK, prodVars, consVars, Contents, Readable, Writing
<1>1. ASSUME NEW v \in Events, Push(v) PROVE Contents'
  BY <1>1 DEF Push
<1>2. CASE ScanCursor
  BY <1>2 DEF ScanCursor
<1>3. CASE Refuse
  BY <1>3 DEF Refuse
<1>4. CASE Destroy
  <2>1. ASSUME NEW p \in Nat, p < published, published - p < Capacity
        PROVE  storage'[Slot(p)] = storage[Slot(p)]
    BY <1>4, <2>1, SlotDistinct DEF Destroy
  <2>2. alive
    BY <1>4 DEF Destroy
  <2> QED
    BY <1>4, <2>1, <2>2 DEF Destroy
<1>5. CASE Construct
  <2>1. ASSUME NEW p \in Nat, p < published, published - p < Capacity
        PROVE  storage'[Slot(p)] = storage[Slot(p)]
    BY <1>5, <2>1, SlotDistinct DEF Construct
  <2>2. alive /\ storage'[Slot(published)] = arg
    BY <1>5 DEF Construct
  <2> QED
    BY <1>5, <2>1, <2>2 DEF Construct
<1>6. CASE Publish
  <2>1. arg \in Events /\ alive /\ Len(log) = published
    BY <1>6 DEF Publish, Histories
  <2>2. /\ \A i \in 1 .. published : log'[i] = log[i]
        /\ log'[published + 1] = arg
    BY <1>6, <2>1, AppendFacts DEF Publish
  <2>3. ASSUME NEW p \in Nat, p < published + 1, published + 1 - p <= Capacity
        PROVE  storage[Slot(p)] = log'[p + 1]
    <3>1. CASE p = published
      BY <3>1, <2>2, <1>6 DEF Publish
    <3>2. CASE p < published
      BY <3>2, <2>1, <2>2, <2>3, <1>6 DEF Publish
    <3> QED
      BY <3>1, <3>2, <2>3
  <2>4. ASSUME NEW c \in Consumers, cpc[c] = "advance"
        PROVE  out[c] = log'[cursors[c] + 1]
    <3>1. out[c] = log[cursors[c] + 1]
      BY <2>4
    <3> HIDE DEF Contents
    <3>2. cursors[c] \in Nat /\ published \in Nat /\ cursors[c] < published
      BY <2>4 DEF Lag
    <3> HIDE DEF IInv, RingTypeOK
    <3> QED
      BY <2>2, <3>1, <3>2
  <2>5. \A c \in Consumers : cpc'[c] = "advance" => out'[c] = log'[cursors'[c] + 1]
    BY <1>6, <2>4 DEF Publish
  <2>6. ASSUME NEW p \in Nat, Readable(p)' PROVE storage'[Slot(p)] = log'[p + 1]
    <3>1. published \in Nat /\ published' = published + 1 /\ storage' = storage
      BY <1>6 DEF Publish
    <3> HIDE DEF Contents, RingTypeOK, IInv
    <3>2. p < published + 1 /\ published + 1 - p <= Capacity
      BY <2>6, <3>1
    <3> QED
      BY <2>3, <3>1, <3>2
  <2> QED
    BY <1>6, <2>1, <2>5, <2>6 DEF Publish
<1>7. ASSUME NEW c \in Consumers, TryPop(c) PROVE Contents'
  BY <1>7 DEF TryPop
<1>8. ASSUME NEW c \in Consumers, Copy(c) PROVE Contents'
  <2>1. alive /\ Readable(cursors[c])
    BY <1>8 DEF Copy, Lag
  <2>2. storage[Slot(cursors[c])] = log[cursors[c] + 1]
    BY <2>1
  <2> QED
    BY <1>8, <2>1, <2>2 DEF Copy
<1>9. ASSUME NEW c \in Consumers, Advance(c) PROVE Contents'
  BY <1>9 DEF Advance
<1>10. CASE Destruct
  BY <1>10 DEF Destruct
<1>11. CASE UNCHANGED ringVars
  BY <1>11 DEF ringVars
<1> QED
  BY <1>1, <1>2, <1>3, <1>4, <1>5, <1>6, <1>7, <1>8, <1>9, <1>10, <1>11
     DEF RingNext, Producer, Consumer

\* IInv is an inductive invariant of the ring.
THEOREM Invariance == RingSpec => []IInv
<1>1. IInv /\ [RingNext]_ringVars => IInv'
  BY TypeStep, LagStep, ScanStep, ContentsStep, HistoriesStep DEF IInv
<1> QED
  BY InitIInv, <1>1, PTL DEF RingSpec

\* Type correctness of every reachable state.
THEOREM TypeCorrect == RingSpec => []RingTypeOK
<1>1. IInv => RingTypeOK
  BY DEF IInv
<1> QED
  BY Invariance, <1>1, PTL

\* The producer never writes a slot that a consumer is reading: push() only
\* reuses a slot once min_cursor() is past it, although the cursors were read
\* one at a time.
THEOREM SlotsNeverRace == RingSpec => []NoSlotRace
<1>1. IInv => NoSlotRace
  <2> SUFFICES ASSUME IInv, NEW c \in Consumers, Writing, cpc[c] # "idle"
               PROVE  Slot(cursors[c]) # Slot(published)
    BY DEF NoSlotRace, Writing
  <2>1. cursors[c] < published /\ published - cursors[c] < Capacity
    BY DEF IInv, Lag
  <2> QED
    BY <2>1, SlotDistinct DEF IInv, RingTypeOK
<1> QED
  BY Invariance, <1>1, PTL

\* Every consumer is handed the published events in order: none lost,
\* repeated, torn or read from a destroyed slot.
THEOREM DeliversInOrder == RingSpec => []InOrderDelivery
<1>1. IInv => InOrderDelivery
  BY DEF IInv, InOrderDelivery, Histories, Lag
<1> QED
  BY Invariance, <1>1, PTL

\* push() returns false only if the ring was full when it was called.
THEOREM RefusesHonestly == RingSpec => []RefusalIsHonest
<1>1. IInv => RefusalIsHonest
  BY ConsumersAssumption DEF IInv, RingTypeOK, RefusalIsHonest, ScanInv, SlotFree
<1> QED
  BY Invariance, <1>1, PTL

\* The ring implements the abstract broadcast log: the release store of
\* published_ is the abstract Publish, the store of a cursor is Deliver, and
\* every other step is invisible.
THEOREM Refinement == RingSpec => BroadcastsInOrder
<1>1. RingInit => Abstract!Init
  BY DEF RingInit, Abstract!Init
<1>2. ASSUME IInv, [RingNext]_ringVars PROVE [Abstract!Next]_(Abstract!vars)
  <2> USE <1>2 DEF Abstract!vars, prodVars, consVars
  <2>1. CASE Publish
    <3>1. Abstract!Publish(arg) /\ arg \in Events
      BY <2>1 DEF Publish, Abstract!Publish, IInv, Histories, Lag, Writing, Contents
    <3> QED
      BY <3>1 DEF Abstract!Next
  <2>2. ASSUME NEW c \in Consumers, Advance(c) PROVE Abstract!Deliver(c)
    BY <2>2 DEF Advance, Abstract!Deliver, IInv, RingTypeOK, Histories, Lag, Contents
  <2>3. CASE UNCHANGED <<log, got>>
    BY <2>3
  <2> QED
    BY <2>1, <2>2, <2>3 DEF RingNext, Producer, Consumer, Push, ScanCursor, Refuse, Destroy,
       Construct, TryPop, Copy, Destruct, ringVars, Abstract!Next
<1> QED
  BY <1>1, <1>2, Invariance, PTL DEF RingSpec, BroadcastsInOrder, Abstract!Spec
-----------------------------------------------------------------------------
\* An object in storage belongs to one of the last Capacity positions, or is
\* the one being published; after the destructor there is none.
Kept == \A s \in Slots : storage[s] # Raw =>
          /\ alive
          /\ \/ \E p \in LivePositions : Slot(p) = s
             \/ ppc = "publish" /\ s = Slot(published)

\* What the destructor walks is what may be read.
LEMMA LivePositionsFacts ==
  ASSUME RingTypeOK
  PROVE  \A p : p \in LivePositions <=> p \in Nat /\ p < published /\ published - p <= Capacity
  BY CapacityAssumption DEF RingTypeOK, LivePositions

\* No step leaves an object behind.
LEMMA KeptStep == ASSUME IInv, Kept, [RingNext]_ringVars PROVE Kept'
<1> USE CapacityAssumption, SlotType DEF IInv, RingTypeOK, prodVars, consVars
<1>0. alive \/ (ppc = "idle" /\ \A c \in Consumers : cpc[c] = "idle")
  BY DEF Contents
<1>1. ASSUME UNCHANGED <<storage, published, alive>>, ppc = "publish" => ppc' = "publish"
      PROVE  Kept'
  BY <1>1 DEF Kept, LivePositions
<1>2. ASSUME NEW v \in Events, Push(v) PROVE Kept'
  BY <1>1, <1>2 DEF Push
<1>3. CASE ScanCursor \/ Refuse \/ UNCHANGED ringVars
  BY <1>1, <1>3 DEF ScanCursor, Refuse, ringVars
<1>4. ASSUME NEW c \in Consumers, Consumer(c) PROVE Kept'
  BY <1>1, <1>4 DEF Consumer, TryPop, Copy, Advance
<1>5. CASE Destroy \/ Construct
  BY <1>0, <1>5 DEF Destroy, Construct, Kept, LivePositions
<1>6. CASE Publish
  <2>1. published' = published + 1 /\ UNCHANGED <<storage, alive>>
    BY <1>6 DEF Publish
  <2>2. \A p : p \in LivePositions <=> p \in Nat /\ p < published /\ published - p <= Capacity
    BY LivePositionsFacts
  <2>3. \A p \in Nat : p < published' /\ published' - p <= Capacity => p \in LivePositions'
    BY <2>1 DEF LivePositions
  <2>4. ASSUME NEW p \in LivePositions PROVE \E q \in LivePositions' : Slot(q) = Slot(p)
    <3>1. CASE published - p < Capacity
      BY <2>1, <2>2, <2>3, <3>1
    <3>2. CASE published - p = Capacity
      <4>1. published = p + Capacity /\ p \in Nat
        BY <2>2, <3>2
      <4>2. Slot(published) = Slot(p) /\ published \in LivePositions'
        BY <2>1, <2>3, <4>1, SlotLap
      <4> QED
        BY <4>2
    <3> QED
      BY <2>2, <3>1, <3>2
  <2>5. published \in LivePositions'
    BY <2>1, <2>3
  <2> QED
    BY <2>1, <2>4, <2>5 DEF Kept
<1>7. CASE Destruct
  BY <1>7 DEF Destruct, Kept
<1> QED
  BY <1>2, <1>3, <1>4, <1>5, <1>6, <1>7 DEF RingNext, Producer

\* Outside push() the live objects are exactly the last Capacity published
\* ones, and after the destructor none is left: nothing leaks and nothing is
\* destroyed twice.
THEOREM NothingLeaks == RingSpec => []LiveObjects
<1>1. RingInit => Kept
  BY DEF RingInit, Kept
<1>2. IInv /\ Kept /\ [RingNext]_ringVars => Kept'
  BY KeptStep
<1>3. IInv /\ Kept => LiveObjects
  <2> SUFFICES ASSUME IInv, Kept, ppc = "idle", NEW s \in Slots
               PROVE  storage[s] # Raw <=> alive /\ \E p \in LivePositions : Slot(p) = s
    BY DEF LiveObjects
  <2>1. ASSUME alive, NEW p \in LivePositions, Slot(p) = s PROVE storage[s] # Raw
    <3>1. p \in Nat /\ p < published /\ published - p <= Capacity
      BY LivePositionsFacts DEF IInv
    <3>2. storage[s] = log[p + 1]
      BY <2>1, <3>1 DEF IInv, Contents, Readable, Writing
    <3>3. p + 1 \in 1 .. Len(log) /\ log \in Seq(Events)
      BY <3>1 DEF IInv, RingTypeOK, Histories
    <3> QED
      BY <3>2, <3>3, RawAssumption
  <2> QED
    BY <2>1 DEF Kept
<1> QED
  BY <1>1, <1>2, <1>3, Invariance, PTL DEF RingSpec
=============================================================================
