------------------------ MODULE EquityRecorderProofs ------------------------
(***************************************************************************)
(* For every capacity of the ring, every sampling interval and any number  *)
(* of recordings: the engine and the drain thread never meet in a slot,    *)
(* and a finished recording holds exactly the points that were sampled.    *)
(***************************************************************************)
EXTENDS EquityRecorder, SequenceTheorems, TLAPS

\* The masked index pos & INDEX_MASK is pos % Capacity, for a power of two.

\* Positions less than a lap apart use different slots.
LEMMA ModDistinct ==
  ASSUME NEW C \in Nat, C > 0, NEW p \in Nat, NEW q \in Nat, p < q, q - p < C
  PROVE  p % C # q % C
<1> DEFINE a == p \div C
           b == q \div C
<1>1. /\ p = (C * a) + (p % C)
      /\ q = (C * b) + (q % C)
      /\ a \in Int /\ b \in Int
      /\ p % C \in Int /\ q % C \in Int
  OBVIOUS
<1>2. SUFFICES ASSUME p % C = q % C PROVE FALSE
  OBVIOUS
<1> HIDE DEF a, b
<1>3. q - p = C * (b - a)
  BY <1>1, <1>2
<1>4. \A k \in Int : (k <= 0 => C * k <= 0) /\ (k >= 1 => C * k >= C)
  OBVIOUS
<1> QED
  BY <1>1, <1>3, <1>4

\* Counting on from a masked index is counting on from the index.
LEMMA ModAdd ==
  ASSUME NEW C \in Nat, C > 0, NEW p \in Int, NEW i \in Int
  PROVE  ((p % C) + i) % C = (p + i) % C
<1> DEFINE r == p % C
           q == r + i
           a == p \div C
           b == q \div C
           d == (p + i) \div C
<1>1. p = (C * a) + r /\ r \in 0 .. C - 1 /\ a \in Int
  OBVIOUS
<1>2. q \in Int
  BY <1>1
<1>3. q = (C * b) + (q % C) /\ q % C \in 0 .. C - 1 /\ b \in Int
  BY <1>2
<1>4. p + i = (C * d) + ((p + i) % C) /\ (p + i) % C \in 0 .. C - 1 /\ d \in Int
  OBVIOUS
<1>5. q = r + i
  OBVIOUS
<1> HIDE DEF a, b, d, r, q
<1>6. (q % C) - ((p + i) % C) = C * (d - a - b)
  <2>1. q - (p + i) = -(C * a)
    BY <1>1, <1>5
  <2>2. C * (d - a - b) = (C * d) - (C * a) - (C * b)
    BY <1>1, <1>3, <1>4
  <2>3. C * a \in Int /\ C * b \in Int /\ C * d \in Int
    BY <1>1, <1>3, <1>4
  <2> QED
    BY <1>2, <1>3, <1>4, <2>1, <2>2, <2>3
<1>7. \A k \in Int : (k <= -1 => C * k <= -C) /\ (k >= 1 => C * k >= C)
  OBVIOUS
<1>8. d - a - b = 0
  BY <1>1, <1>3, <1>4, <1>6, <1>7
<1>9. q % C = (p + i) % C
  BY <1>3, <1>4, <1>6, <1>8
<1> QED
  BY <1>9 DEF q, r

\* A lap later the same slot comes round again.
LEMMA ModLap ==
  ASSUME NEW C \in Nat, C > 0, NEW p \in Nat
  PROVE  (p + C) % C = p % C
<1> DEFINE q == p + C
           a == p \div C
           b == q \div C
<1>1. /\ p = (C * a) + (p % C)
      /\ q = (C * b) + (q % C)
      /\ a \in Int /\ b \in Int
      /\ p % C \in 0 .. C - 1 /\ q % C \in 0 .. C - 1
  OBVIOUS
<1> HIDE DEF a, b
<1>2. (p % C) - (q % C) = C * (b - a - 1)
  BY <1>1
<1>3. \A k \in Int : (k <= -1 => C * k <= -C) /\ (k >= 1 => C * k >= C)
  OBVIOUS
<1>4. b - a - 1 = 0
  BY <1>1, <1>2, <1>3
<1> QED
  BY <1>1, <1>2, <1>4

\* The slot that index i counts from, wherever the ring stands.
Slot(i) == i % Capacity

\* Points published and not yet in the series.
Pending == Len(recorded) - Len(series)

\* The index distance is the number of pending points, and the ring is one
\* slot short of its capacity when it is full.
Distance == /\ Pending \in 0 .. Capacity - 1 /\ head = Slot(tail + Pending)
            /\ epc = "publish" => Pending < Capacity - 1
            /\ dpc \in {"take", "free"} => Pending > 0

\* Slot by slot from the tail: pending points, the one being constructed, raw.
Content(i) == IF i < Pending
              THEN IF i = 0 /\ dpc = "free" THEN Raw ELSE recorded[Len(series) + i + 1]
              ELSE IF i = Pending /\ epc = "publish" THEN samples ELSE Raw

Contents == \A i \in 0 .. Capacity - 1 : storage[Slot(tail + i)] = Content(i)

\* The series is a prefix of what was recorded, and the drain thread holds
\* the next point.
Drained == /\ \A i \in 1 .. Len(series) : series[i] = recorded[i]
           /\ dpc = "free" => held = recorded[Len(series) + 1]

\* Which thread may be where: the drain thread outlives the engine thread,
\* and ends only with nothing pending.
Threads == /\ mpc \in {"start", "finished"} => dpc = "none" /\ epc = "idle" /\ Pending = 0
           /\ mpc = "running" => ~last /\ ~stop /\ dpc \notin {"none", "ended"}
           /\ mpc = "joining" => epc = "idle" /\ dpc # "none"
           /\ dpc = "ended" => Pending = 0

IInv == RecorderTypeOK /\ Distance /\ Contents /\ Drained /\ Threads
-----------------------------------------------------------------------------
\* Positions less than a lap apart use different slots.
LEMMA SlotDistinct ==
  ASSUME NEW p \in Nat, NEW q \in Nat, p < q, q - p < Capacity
  PROVE  Slot(p) # Slot(q)
<1>1. Capacity \in Nat /\ Capacity > 0
  BY CapacityAssumption
<1> QED
  BY <1>1, ModDistinct, Zenon DEF Slot

\* A lap later the same slot comes round again.
LEMMA SlotLap == ASSUME NEW p \in Nat PROVE Slot(p + Capacity) = Slot(p)
<1>1. Capacity \in Nat /\ Capacity > 0
  BY CapacityAssumption
<1> QED
  BY <1>1, ModLap, Zenon DEF Slot

\* A position always falls on a slot of the ring.
LEMMA SlotType == ASSUME NEW p \in Nat PROVE Slot(p) \in Slots
  BY CapacityAssumption DEF Slot, Slots

\* Counting on from a masked index is counting on from the index.
LEMMA SlotMod == ASSUME NEW p \in Nat, NEW i \in Nat PROVE Slot(Slot(p) + i) = Slot(p + i)
<1>1. Capacity \in Nat /\ Capacity > 0 /\ p \in Int /\ i \in Int
  BY CapacityAssumption
<1> QED
  BY <1>1, ModAdd, Zenon DEF Slot

\* A masked index is its own slot.
LEMMA SlotId == ASSUME NEW s \in Slots PROVE s \in Nat /\ Slot(s) = s
  BY CapacityAssumption DEF Slot, Slots

\* Different distances from the tail are different slots.
LEMMA Apart ==
  ASSUME tail \in Slots, NEW i \in 0 .. Capacity - 1, NEW j \in 0 .. Capacity - 1, i # j
  PROVE  Slot(tail + i) # Slot(tail + j)
<1>1. tail \in Nat
  BY SlotId
<1>2. tail + i \in Nat /\ tail + j \in Nat
  BY <1>1, CapacityAssumption
<1> QED
  BY <1>1, <1>2, SlotDistinct, CapacityAssumption

\* What the two index comparisons of the ring tell its threads.
LEMMA RingTests ==
  ASSUME RecorderTypeOK, Distance
  PROVE  /\ Full <=> Pending = Capacity - 1
         /\ tail = head <=> Pending = 0
         /\ Pending + 1 < Capacity => Succ(head) = Slot(tail + (Pending + 1))
         /\ tail \in Nat /\ Pending \in Nat
         /\ head = Slot(tail + Pending) /\ tail = Slot(tail + 0)
<1>1. /\ tail \in Nat /\ tail \in Slots /\ Pending \in 0 .. Capacity - 1 /\ Pending \in Nat
      /\ head = Slot(tail + Pending) /\ tail + Pending \in Nat
  BY SlotId, CapacityAssumption DEF RecorderTypeOK, Distance
<1>2. tail = Slot(tail + 0)
  BY <1>1, SlotId
<1>3. Succ(head) = Slot(tail + Pending + 1)
  BY <1>1, SlotMod DEF Succ, Slot
<1>4. CASE Pending = Capacity - 1
  <2>1. tail + Pending + 1 = tail + Capacity
    BY <1>1, <1>4, CapacityAssumption
  <2>2. Succ(head) = tail
    BY <1>1, <1>2, <1>3, <2>1, SlotLap
  <2>3. tail # head
    BY <1>1, <1>2, <1>4, Apart, CapacityAssumption
  <2> QED
    BY <1>1, <1>2, <1>4, <2>2, <2>3, CapacityAssumption DEF Full
<1>5. CASE Pending < Capacity - 1
  <2>1. Pending + 1 \in 0 .. Capacity - 1 /\ tail + Pending + 1 = tail + (Pending + 1)
    BY <1>1, <1>5, CapacityAssumption
  <2>2. Succ(head) # tail
    BY <1>1, <1>2, <1>3, <2>1, Apart, CapacityAssumption
  <2>3. tail = head <=> Pending = 0
    BY <1>1, <1>2, Apart, CapacityAssumption
  <2> QED
    BY <1>1, <1>2, <1>3, <1>5, <2>1, <2>2, <2>3 DEF Full
<1> QED
  BY <1>1, <1>4, <1>5, CapacityAssumption
-----------------------------------------------------------------------------
\* A recorder that has not started satisfies the inductive invariant.
LEMMA InitIInv == RecorderInit => IInv
<1> SUFFICES ASSUME RecorderInit PROVE IInv
  OBVIOUS
<1> USE CapacityAssumption, BoundsAssumption DEF RecorderInit
<1>1. RecorderTypeOK
  BY DEF RecorderTypeOK, Slots
<1>2. Pending = 0
  BY DEF Pending
<1>3. Distance /\ Drained /\ Threads
  BY <1>2 DEF Distance, Drained, Threads, Slot
<1>4. Contents
  <2>1. \A i \in 0 .. Capacity - 1 : Slot(tail + i) \in Slots
    BY SlotType
  <2> QED
    BY <1>2, <2>1 DEF Contents, Content
<1> QED
  BY <1>1, <1>3, <1>4 DEF IInv

\* How the histories move: one more point recorded, one more in the series.
LEMMA Moves ==
  ASSUME IInv
  PROVE  /\ Len(recorded) \in Nat /\ Len(series) \in Nat /\ Len(series) + Pending = Len(recorded)
         /\ PublishPoint => /\ Pending' = Pending + 1 /\ recorded' \in Seq(Nat)
                            /\ Len(recorded') = Len(recorded) + 1
                            /\ \A i \in 1 .. Len(recorded) : recorded'[i] = recorded[i]
                            /\ recorded'[Len(recorded) + 1] = samples
         /\ Free => /\ Pending' = Pending - 1 /\ series' \in Seq(Nat)
                    /\ Len(series') = Len(series) + 1
                    /\ \A i \in 1 .. Len(series) : series'[i] = series[i]
                    /\ series'[Len(series) + 1] = recorded[Len(series) + 1]
<1> USE BoundsAssumption DEF IInv, RecorderTypeOK
<1>1. Len(recorded) \in Nat /\ Len(series) \in Nat /\ Len(series) + Pending = Len(recorded)
  BY DEF Pending
<1>2. ASSUME PublishPoint
      PROVE  /\ Pending' = Pending + 1 /\ recorded' \in Seq(Nat)
             /\ Len(recorded') = Len(recorded) + 1
             /\ \A i \in 1 .. Len(recorded) : recorded'[i] = recorded[i]
             /\ recorded'[Len(recorded) + 1] = samples
  <2>1. /\ recorded' = Append(recorded, samples) /\ series' = series
        /\ samples \in Nat /\ recorded \in Seq(Nat)
    BY <1>2 DEF PublishPoint, drainVars
  <2>2. Len(recorded') = Len(recorded) + 1 /\ recorded' \in Seq(Nat)
    BY <2>1
  <2> QED
    BY <1>1, <2>1, <2>2 DEF Pending
<1>3. ASSUME Free
      PROVE  /\ Pending' = Pending - 1 /\ series' \in Seq(Nat)
             /\ Len(series') = Len(series) + 1
             /\ \A i \in 1 .. Len(series) : series'[i] = series[i]
             /\ series'[Len(series) + 1] = recorded[Len(series) + 1]
  <2>1. /\ series' = Append(series, held) /\ recorded' = recorded
        /\ held = recorded[Len(series) + 1] /\ Len(series) + 1 \in 1 .. Len(recorded)
    BY <1>1, <1>3, CapacityAssumption DEF Free, Drained, Distance
  <2>2. held \in Nat
    BY <2>1, ElementOfSeq
  <2>3. Len(series') = Len(series) + 1 /\ series' \in Seq(Nat)
    BY <2>1, <2>2
  <2> QED
    BY <1>1, <2>1, <2>2, <2>3 DEF Pending
<1> QED
  BY <1>1, <1>2, <1>3

\* Type correctness is preserved by every step.
LEMMA TypeStep == ASSUME IInv, [RecorderNext]_recorderVars PROVE RecorderTypeOK'
<1> USE CapacityAssumption, BoundsAssumption, SamplingAssumption
    DEF IInv, RecorderTypeOK, ringVars, engineVars, drainVars
<1>0. CASE StartRecording
  <2>1. runs' \in 0 .. MaxRuns /\ samples' \in 0 .. MaxSamples /\ ts' \in Nat /\ last_sampled' \in Nat
    BY <1>0 DEF StartRecording
  <2>2. series' \in Seq(Nat) /\ recorded' \in Seq(Nat)
    BY <1>0 DEF StartRecording
  <2> QED
    BY <1>0, <2>1, <2>2 DEF StartRecording
<1>1. CASE Join \/ Again \/ Finish
  BY <1>1 DEF Join, Again, Finish
<1>2. ASSUME NEW gap \in Gaps, Sample(gap) PROVE RecorderTypeOK'
  <2>1. ts' \in Nat /\ samples' \in 0 .. MaxSamples
    BY <1>2 DEF Sample
  <2> QED
    BY <1>2, <2>1 DEF Sample
<1>3. CASE Construct
  BY <1>3 DEF Construct
<1>4. \A s \in Slots : Succ(s) \in Slots
  BY DEF Succ, Slots
<1>5. CASE PublishPoint
  BY <1>4, <1>5, Moves DEF PublishPoint
<1>6. CASE DrainTest \/ DrainLook \/ Take
  BY <1>6 DEF DrainTest, DrainLook, Take
<1>7. CASE Free
  BY <1>4, <1>7, Moves DEF Free
<1>8. CASE UNCHANGED recorderVars
  BY <1>8 DEF recorderVars
<1> QED
  BY <1>0, <1>1, <1>2, <1>3, <1>5, <1>6, <1>7, <1>8 DEF RecorderNext, EngineThread, DrainThread, MainThread

\* The index distance keeps counting the pending points.
LEMMA DistanceStep == ASSUME IInv, [RecorderNext]_recorderVars PROVE Distance'
<1> USE CapacityAssumption DEF IInv, RecorderTypeOK, ringVars, engineVars, drainVars
<1>0. /\ tail \in Nat /\ Pending \in Nat /\ head = Slot(tail + Pending)
      /\ Full <=> Pending = Capacity - 1
      /\ tail = head <=> Pending = 0
      /\ Pending + 1 < Capacity => Succ(head) = Slot(tail + (Pending + 1))
  BY RingTests
<1>1. CASE StartRecording
  BY <1>1 DEF StartRecording, Distance, Threads, Pending
<1>2. CASE Join \/ Again \/ Finish \/ DrainTest \/ Take \/ UNCHANGED recorderVars
  BY <1>2 DEF Join, Again, Finish, DrainTest, Take, recorderVars, Distance, Pending
<1>3. CASE DrainLook
  BY <1>0, <1>3 DEF DrainLook, Distance, Pending
<1>4. ASSUME NEW gap \in Gaps, Sample(gap) PROVE Distance'
  BY <1>4 DEF Sample, Distance, Pending
<1>5. CASE Construct
  <2>1. Pending' = Pending /\ Pending # Capacity - 1 /\ UNCHANGED <<head, tail, dpc>>
    BY <1>0, <1>5 DEF Construct, Pending
  <2> QED
    BY <2>1 DEF Distance
<1>6. CASE PublishPoint
  <2>1. Pending' = Pending + 1 /\ Pending + 1 < Capacity
    BY <1>0, <1>6, Moves DEF PublishPoint, Distance
  <2>2. head' = Slot(tail + Pending')
    BY <1>0, <1>6, <2>1 DEF PublishPoint
  <2> QED
    BY <1>6, <2>1, <2>2 DEF PublishPoint, Distance
<1>7. CASE Free
  <2>1. Pending' = Pending - 1 /\ Pending > 0 /\ Pending - 1 \in Nat /\ dpc' \in {"look", "loop"}
    BY <1>0, <1>7, Moves DEF Free, Distance
  <2>2. tail' = Slot(tail + 1) /\ head' = head
    BY <1>7 DEF Free, Succ, Slot
  <2>3. Slot(tail' + (Pending - 1)) = Slot(tail + Pending)
    <3>1. Slot(tail' + (Pending - 1)) = Slot((tail + 1) + (Pending - 1))
      BY <1>0, <2>1, <2>2, SlotMod
    <3>2. (tail + 1) + (Pending - 1) = tail + Pending
      BY <1>0, <2>1
    <3> QED
      BY <3>1, <3>2
  <2> QED
    BY <1>7, <2>1, <2>2, <2>3 DEF Free, Distance
<1> QED
  BY <1>1, <1>2, <1>3, <1>4, <1>5, <1>6, <1>7 DEF RecorderNext, EngineThread, DrainThread, MainThread

\* Slot by slot the ring keeps what is pending.
LEMMA ContentsStep == ASSUME IInv, [RecorderNext]_recorderVars PROVE Contents'
<1> USE CapacityAssumption DEF IInv, RecorderTypeOK, ringVars, engineVars, drainVars
<1>0. /\ tail \in Slots /\ tail \in Nat /\ Pending \in 0 .. Capacity - 1
      /\ head = Slot(tail + Pending) /\ tail = Slot(tail + 0)
      /\ \A i \in 0 .. Capacity - 1 : Slot(tail + i) \in Slots
  BY RingTests, SlotType DEF Distance
<1>1. CASE StartRecording
  BY <1>1 DEF StartRecording, Contents, Content, Threads, Pending
<1>2. CASE Join \/ Again \/ Finish \/ DrainTest \/ DrainLook \/ UNCHANGED recorderVars
  BY <1>2 DEF Join, Again, Finish, DrainTest, DrainLook, recorderVars, Contents, Content, Pending
<1>3. ASSUME NEW gap \in Gaps, Sample(gap) PROVE Contents'
  BY <1>3 DEF Sample, Contents, Content, Pending
<1>4. CASE Construct
  <2>1. /\ storage' = [storage EXCEPT ![Slot(tail + Pending)] = samples] /\ Pending' = Pending
        /\ UNCHANGED <<tail, recorded, series, dpc, samples>> /\ epc' = "publish" /\ epc = "push"
    BY <1>0, <1>4 DEF Construct, Pending
  <2>2. ASSUME NEW i \in 0 .. Capacity - 1 PROVE storage'[Slot(tail + i)] = Content(i)'
    <3>1. CASE i = Pending
      BY <1>0, <2>1, <3>1 DEF Content
    <3>2. CASE i # Pending
      <4>1. storage'[Slot(tail + i)] = storage[Slot(tail + i)]
        BY <1>0, <2>1, <3>2, Apart
      <4> QED
        BY <2>1, <3>2, <4>1 DEF Content, Contents
    <3> QED
      BY <3>1, <3>2
  <2> QED
    BY <2>1, <2>2 DEF Contents
<1>5. CASE PublishPoint
  <2>1. /\ UNCHANGED <<tail, storage, series, dpc, samples>> /\ epc = "publish" /\ epc' = "idle"
        /\ dpc = "free" => Pending > 0
    BY <1>5 DEF PublishPoint, Distance
  <2>2. /\ Len(recorded) \in Nat /\ Len(series) \in Nat /\ Len(series) + Pending = Len(recorded)
        /\ Pending' = Pending + 1
        /\ \A i \in 1 .. Len(recorded) : recorded'[i] = recorded[i]
        /\ recorded'[Len(recorded) + 1] = samples
    BY <1>5, Moves, Zenon
  <2>3. ASSUME NEW i \in 0 .. Capacity - 1 PROVE Content(i)' = Content(i)
    <3>1. CASE i < Pending
      <4>1. Len(series) + i + 1 \in 1 .. Len(recorded)
        BY <1>0, <2>2, <3>1
      <4> QED
        BY <1>0, <2>2, <2>1, <3>1, <4>1 DEF Content
    <3>2. CASE i = Pending
      <4>1. Len(series) + i + 1 = Len(recorded) + 1
        BY <1>0, <2>2, <3>2
      <4> QED
        BY <1>0, <2>2, <2>1, <3>2, <4>1 DEF Content
    <3>3. CASE i > Pending
      BY <1>0, <2>2, <2>1, <3>3 DEF Content
    <3> QED
      BY <1>0, <3>1, <3>2, <3>3
  <2> QED
    BY <2>1, <2>3 DEF Contents
<1>6. CASE Take
  <2>1. /\ storage' = [storage EXCEPT ![Slot(tail + 0)] = Raw] /\ Pending' = Pending /\ Pending > 0
        /\ UNCHANGED <<tail, recorded, series, epc, samples>> /\ dpc' = "free" /\ dpc = "take"
    BY <1>0, <1>6 DEF Take, Pending, Distance
  <2>2. ASSUME NEW i \in 0 .. Capacity - 1 PROVE storage'[Slot(tail + i)] = Content(i)'
    <3>1. CASE i = 0
      BY <1>0, <2>1, <3>1 DEF Content
    <3>2. CASE i # 0
      <4>1. 0 \in 0 .. Capacity - 1
        OBVIOUS
      <4>2. Slot(tail + i) # Slot(tail + 0)
        BY <1>0, <3>2, <4>1, Apart
      <4>3. storage'[Slot(tail + i)] = storage[Slot(tail + i)]
        BY <1>0, <2>1, <4>2
      <4> QED
        BY <2>1, <3>2, <4>3 DEF Content, Contents
    <3> QED
      BY <3>1, <3>2
  <2> QED
    BY <2>1, <2>2 DEF Contents
<1>7. CASE Free
  <2>1. /\ tail' = Slot(tail + 1) /\ Pending > 0 /\ Pending' = Pending - 1
        /\ Len(series') = Len(series) + 1
        /\ UNCHANGED <<storage, recorded, epc, samples>> /\ dpc' # "free" /\ dpc = "free"
        /\ epc = "publish" => Pending < Capacity - 1
    BY <1>7, Moves DEF Free, Succ, Slot, Distance
  <2>2. ASSUME NEW i \in 0 .. Capacity - 1 PROVE storage[Slot(tail' + i)] = Content(i)'
    <3>1. Slot(tail' + i) = Slot(tail + (i + 1))
      <4>1. Slot(tail' + i) = Slot((tail + 1) + i)
        BY <1>0, <2>1, SlotMod
      <4> QED
        BY <1>0, <4>1
    <3>2. CASE i = Capacity - 1
      <4>1. storage[Slot(tail + (i + 1))] = Raw
        <5>1. Slot(tail + (i + 1)) = Slot(tail + 0)
          BY <1>0, <3>2, SlotLap
        <5>2. 0 \in 0 .. Capacity - 1 /\ Content(0) = Raw
          BY <1>0, <2>1 DEF Content
        <5> QED
          BY <5>1, <5>2 DEF Contents
      <4> QED
        BY <1>0, <2>1, <3>1, <3>2, <4>1 DEF Content
    <3>3. CASE i < Capacity - 1
      <4>1. storage[Slot(tail + (i + 1))] = Content(i + 1)
        BY <3>3 DEF Contents
      <4>2. Len(series) + (i + 1) + 1 = Len(series') + i + 1
        BY <2>1, Moves
      <4>3. Content(i + 1) = Content(i)'
        BY <1>0, <2>1, <4>2 DEF Content
      <4> QED
        BY <3>1, <4>1, <4>3
    <3> QED
      BY <3>2, <3>3
  <2> QED
    BY <2>1, <2>2 DEF Contents
<1> QED
  BY <1>1, <1>2, <1>3, <1>4, <1>5, <1>6, <1>7 DEF RecorderNext, EngineThread, DrainThread, MainThread

\* The series stays a prefix of what was recorded.
LEMMA DrainedStep == ASSUME IInv, [RecorderNext]_recorderVars PROVE Drained'
<1> USE DEF IInv, RecorderTypeOK, ringVars, engineVars, drainVars
<1>0. /\ Len(recorded) \in Nat /\ Len(series) \in Nat /\ Len(series) + Pending = Len(recorded)
      /\ Pending \in Nat
  BY Moves, RingTests
<1>1. CASE StartRecording
  BY <1>1 DEF StartRecording, Drained
<1>2. CASE Join \/ Again \/ Finish \/ DrainTest \/ DrainLook \/ Construct \/ UNCHANGED recorderVars
  BY <1>2 DEF Join, Again, Finish, DrainTest, DrainLook, Construct, recorderVars, Drained
<1>3. ASSUME NEW gap \in Gaps, Sample(gap) PROVE Drained'
  BY <1>3 DEF Sample, Drained
<1>4. CASE PublishPoint
  <2>1. \A i \in 1 .. Len(recorded) : recorded'[i] = recorded[i]
    BY <1>4, Moves
  <2>2. UNCHANGED <<series, dpc, held>> /\ (dpc = "free" => Pending > 0)
    BY <1>4 DEF PublishPoint, Distance
  <2>3. \A i \in 1 .. Len(series) : series[i] = recorded'[i]
    BY <1>0, <2>1 DEF Drained
  <2>4. dpc = "free" => held = recorded'[Len(series) + 1]
    BY <1>0, <2>1, <2>2 DEF Drained
  <2> QED
    BY <2>2, <2>3, <2>4 DEF Drained
<1>5. CASE Take
  <2>1. Pending > 0 /\ 0 \in 0 .. Capacity - 1 /\ tail = Slot(tail + 0)
    BY <1>5, RingTests, CapacityAssumption DEF Take, Distance
  <2>2. storage[tail] = recorded[Len(series) + 1]
    BY <1>0, <1>5, <2>1 DEF Take, Contents, Content
  <2> QED
    BY <1>5, <2>2 DEF Take, Drained
<1>6. CASE Free
  <2>1. /\ Len(series') = Len(series) + 1
        /\ \A i \in 1 .. Len(series) : series'[i] = series[i]
        /\ series'[Len(series) + 1] = recorded[Len(series) + 1]
    BY <1>6, Moves
  <2>2. recorded' = recorded /\ dpc' # "free"
    BY <1>6 DEF Free
  <2>3. ASSUME NEW i \in 1 .. Len(series') PROVE series'[i] = recorded[i]
    <3>1. i = Len(series) + 1 \/ i \in 1 .. Len(series)
      BY <1>0, <2>1
    <3> QED
      BY <2>1, <3>1 DEF Drained
  <2> QED
    BY <2>2, <2>3 DEF Drained
<1> QED
  BY <1>1, <1>2, <1>3, <1>4, <1>5, <1>6 DEF RecorderNext, EngineThread, DrainThread, MainThread

\* The threads start and end in the order the recorder imposes.
LEMMA ThreadsStep == ASSUME IInv, [RecorderNext]_recorderVars PROVE Threads'
<1> USE DEF IInv, RecorderTypeOK, ringVars, engineVars, drainVars
<1>1. CASE StartRecording \/ Join \/ Again \/ Finish \/ DrainTest \/ Take \/ Construct \/ UNCHANGED recorderVars
  BY <1>1 DEF StartRecording, Join, Again, Finish, DrainTest, Take, Construct, recorderVars, Threads, Pending
<1>2. CASE DrainLook
  <2>1. tail = head <=> Pending = 0
    BY RingTests
  <2> QED
    BY <1>2, <2>1 DEF DrainLook, Threads, Pending
<1>3. ASSUME NEW gap \in Gaps, Sample(gap) PROVE Threads'
  BY <1>3 DEF Sample, Threads, Pending
<1>4. CASE PublishPoint
  BY <1>4 DEF PublishPoint, Threads
<1>5. CASE Free
  BY <1>5 DEF Free, Threads
<1> QED
  BY <1>1, <1>2, <1>3, <1>4, <1>5 DEF RecorderNext, EngineThread, DrainThread, MainThread
-----------------------------------------------------------------------------
\* The invariant behind every result below holds in every reachable state.
THEOREM Invariance == RecorderSpec => []IInv
<1>1. ASSUME IInv, [RecorderNext]_recorderVars PROVE IInv'
  BY <1>1, TypeStep, DistanceStep, ContentsStep, DrainedStep, ThreadsStep DEF IInv
<1> QED
  BY <1>1, InitIInv, PTL DEF RecorderSpec

\* The ring's indices stay masked and the threads keep their types.
THEOREM TypeCorrect == RecorderSpec => []RecorderTypeOK
  BY Invariance, PTL DEF IInv

\* The engine thread and the drain thread never use one slot of the ring at
\* the same time, and no point is overwritten before it is drained.
THEOREM ExclusiveSlots == RecorderSpec => []SlotIsExclusive
<1>1. ASSUME IInv PROVE SlotIsExclusive
  <2> USE <1>1 DEF IInv
  <2>1. /\ Full <=> Pending = Capacity - 1
        /\ tail = head <=> Pending = 0
        /\ head = Slot(tail + Pending)
        /\ Pending \in 0 .. Capacity - 1
    BY RingTests DEF Distance
  <2>2. ASSUME epc = "push" PROVE storage[head] = Raw
    BY <2>1, <2>2 DEF Contents, Content
  <2>3. dpc \in {"take", "free"} => head # tail
    BY <2>1 DEF Distance
  <2> QED
    BY <2>2, <2>3 DEF SlotIsExclusive
<1> QED
  BY <1>1, Invariance, PTL

\* A finished recording is exactly what the engine sampled, in order.
THEOREM CompleteSeries == RecorderSpec => []SeriesComplete
<1>1. ASSUME IInv PROVE SeriesComplete
  <2> SUFFICES ASSUME mpc = "finished" PROVE series = recorded /\ head = tail
    BY DEF SeriesComplete
  <2>1. Pending = 0 /\ head = tail
    BY <1>1, RingTests DEF IInv, Threads
  <2>2. Len(series) = Len(recorded) /\ \A i \in 1 .. Len(series) : series[i] = recorded[i]
    BY <1>1, <2>1, Moves DEF IInv, Drained
  <2> QED
    BY <1>1, <2>1, <2>2, SeqEqual DEF IInv, RecorderTypeOK
<1> QED
  BY <1>1, Invariance, PTL
=============================================================================
