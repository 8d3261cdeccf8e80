-------------------------- MODULE WorkQueueProofs ---------------------------
(***************************************************************************)
(* For every capacity, every set of consumers and every set of tasks: no   *)
(* two threads share a cell of the work queue, every task goes to exactly  *)
(* one consumer, and an empty answer was true.                             *)
(***************************************************************************)
EXTENDS WorkQueue, TLAPS

\* The masked index pos & INDEX_MASK is pos % Capacity, for a power of two.

\* Positions less than a lap apart use different slots.
LEMMA ModDistinct ==
  ASSUME NEW C \in Nat, C > 0, NEW p \in Nat, NEW q \in Nat, p < q, q - p < C
  PROVE  p % C # q % C
<1> DEFINE a == p \div C
           b == q \div C
<1>1. /\ p = (C * a) + (p % C)
      /\ q = (C * b) + (q % C)
      /\ a \in Int /\ b \in Int
      /\ p % C \in Int /\ q % C \in Int
  OBVIOUS
<1>2. SUFFICES ASSUME p % C = q % C PROVE FALSE
  OBVIOUS
<1> HIDE DEF a, b
<1>3. q - p = C * (b - a)
  BY <1>1, <1>2
<1>4. \A k \in Int : (k <= 0 => C * k <= 0) /\ (k >= 1 => C * k >= C)
  OBVIOUS
<1> QED
  BY <1>1, <1>3, <1>4

\* A lap later the same slot comes round again.
LEMMA ModLap ==
  ASSUME NEW C \in Nat, C > 0, NEW p \in Nat
  PROVE  (p + C) % C = p % C
<1> DEFINE q == p + C
           a == p \div C
           b == q \div C
<1>1. /\ p = (C * a) + (p % C)
      /\ q = (C * b) + (q % C)
      /\ a \in Int /\ b \in Int
      /\ p % C \in 0 .. C - 1 /\ q % C \in 0 .. C - 1
  OBVIOUS
<1> HIDE DEF a, b
<1>2. (p % C) - (q % C) = C * (b - a - 1)
  BY <1>1
<1>3. \A k \in Int : (k <= -1 => C * k <= -C) /\ (k >= 1 => C * k >= C)
  OBVIOUS
<1>4. b - a - 1 = 0
  BY <1>1, <1>2, <1>3
<1> QED
  BY <1>1, <1>2, <1>4

Filled == Len(log)

\* Position p is among the last Capacity filled ones.
Recent(p) == p < Filled /\ Filled - p <= Capacity

\* The cell of p has not been given back: nobody has claimed it, or somebody
\* has and is still in it.
Due(p) == p >= dequeue_pos \/ \E c \in Consumers : InCell(c) /\ pos[c] = p

\* How the two positions and the consumers' copies lie to one another.
Positions ==
    /\ Filled = IF ppc = "advance" THEN enqueue_pos + 1 ELSE enqueue_pos
    /\ dequeue_pos <= Filled /\ Filled - dequeue_pos <= Capacity
    /\ \A c \in Consumers : /\ pos[c] <= dequeue_pos
                            /\ cpc[c] = "cas" => pos[c] < Filled
                            /\ InCell(c) => pos[c] < dequeue_pos /\ Recent(pos[c])
    /\ \A c, d \in Consumers : (c # d /\ InCell(c) /\ InCell(d)) => pos[c] # pos[d]

\* What a cell's stamp says about the position it was last used for.
Stamps ==
    /\ \A p \in Nat : Recent(p) => cell_seq[Cell(p)] = IF Due(p) THEN p + 1 ELSE p + Capacity
    /\ \A p \in Nat : (Filled <= p /\ p < Capacity) => cell_seq[Cell(p)] = p
    /\ \A p \in Nat : p < Filled => cell_seq[Cell(p)] > p
    /\ ppc \in {"construct", "stamp"} => cell_seq[Cell(enqueue_pos)] = enqueue_pos

\* Which cells hold an element, and which one.
Contents ==
    /\ alive => \A p \in Nat :
         (Recent(p) /\ (p >= dequeue_pos \/ \E c \in Consumers : cpc[c] = "take" /\ pos[c] = p))
            => storage[Cell(p)] = log[p + 1]
    /\ ppc = "stamp" => storage[Cell(enqueue_pos)] = arg
    /\ ppc \in {"construct", "stamp"} => arg \in Events
    /\ \A c \in Consumers : cpc[c] = "free" => out[c] = log[pos[c] + 1]
    /\ \A s \in Cells : storage[s] # Raw =>
         \/ \E p \in dequeue_pos .. Filled - 1 : Cell(p) = s
         \/ \E c \in Consumers : cpc[c] = "take" /\ Cell(pos[c]) = s
         \/ ppc = "stamp" /\ s = Cell(enqueue_pos)
    /\ ~alive => /\ ppc = "idle" /\ \A c \in Consumers : cpc[c] = "idle"
                 /\ \A s \in Cells : storage[s] = Raw

\* Who got what: every claimed position is on record once, or still held.
Handed ==
    /\ \A t \in takenBy : /\ t[1] < dequeue_pos /\ t[3] = log[t[1] + 1]
                          /\ \A u \in takenBy : u[1] = t[1] => u = t
                          /\ \A c \in Consumers : InCell(c) => pos[c] # t[1]
    /\ \A p \in Nat : p < dequeue_pos =>
         \/ \E t \in takenBy : t[1] = p
         \/ \E c \in Consumers : InCell(c) /\ pos[c] = p

\* A call that has never met an empty queue is in front of a filled cell.
Emptiness == \A c \in Consumers : /\ (cpc[c] # "idle" /\ ~sawEmpty[c]) => dequeue_pos < Filled
                                  /\ cpc[c] = "empty" => sawEmpty[c]

IInv == WorkTypeOK /\ Positions /\ Stamps /\ Contents /\ Handed /\ Emptiness
-----------------------------------------------------------------------------
\* Positions less than a lap apart use different slots.
LEMMA SlotDistinct ==
  ASSUME NEW p \in Nat, NEW q \in Nat, p < q, q - p < Capacity
  PROVE  Cell(p) # Cell(q)
<1>1. Capacity \in Nat /\ Capacity > 0
  BY CapacityAssumption
<1> QED
  BY <1>1, ModDistinct, Zenon DEF Cell

\* A lap later the same slot comes round again.
LEMMA SlotLap == ASSUME NEW p \in Nat PROVE Cell(p + Capacity) = Cell(p)
<1>1. Capacity \in Nat /\ Capacity > 0
  BY CapacityAssumption
<1> QED
  BY <1>1, ModLap, Zenon DEF Cell

\* A position always falls on a slot of the ring.
LEMMA SlotType == ASSUME NEW p \in Nat PROVE Cell(p) \in Cells
  BY CapacityAssumption DEF Cell, Cells
-----------------------------------------------------------------------------
\* A freshly constructed queue satisfies the inductive invariant.
LEMMA InitIInv == WorkInit => IInv
<1> SUFFICES ASSUME WorkInit PROVE IInv
  OBVIOUS
<1> USE CapacityAssumption DEF WorkInit
<1>1. WorkTypeOK
  BY DEF WorkTypeOK, Cells
<1>2. Filled = 0
  BY DEF Filled
<1>3. Positions /\ Handed /\ Emptiness
  BY <1>2 DEF Positions, Handed, Emptiness, InCell, Recent
<1>4. Stamps
  <2>1. ASSUME NEW p \in Nat, p < Capacity PROVE cell_seq[Cell(p)] = p
    <3>1. Cell(p) = p
      BY <2>1 DEF Cell
    <3>2. p \in Cells
      BY <2>1 DEF Cells
    <3> QED
      BY <3>1, <3>2
  <2> QED
    BY <1>2, <2>1 DEF Stamps, Recent
<1>5. Contents
  BY <1>2 DEF Contents, Recent
<1> QED
  BY <1>1, <1>3, <1>4, <1>5 DEF IInv

\* Type correctness is preserved by every step.
LEMMA TypeStep == ASSUME IInv, [WorkNext]_workVars PROVE WorkTypeOK'
<1> USE CapacityAssumption, SlotType DEF IInv, WorkTypeOK, prodVars, consVars
<1>1. ASSUME NEW v \in Events, Push(v) PROVE WorkTypeOK'
  BY <1>1 DEF Push
<1>2. CASE ConstructCell
  BY <1>2 DEF ConstructCell
<1>3. CASE StampCell
  <2>1. arg \in Events
    BY <1>3 DEF StampCell, Contents
  <2>2. log' \in Seq(Events)
    BY <1>3, <2>1 DEF StampCell
  <2>3. cell_seq' \in [Cells -> Nat]
    BY <1>3 DEF StampCell
  <2> QED
    BY <1>3, <2>2, <2>3 DEF StampCell
<1>4. CASE AdvanceTail
  <2>1. enqueue_pos' \in Nat
    BY <1>4 DEF AdvanceTail
  <2> QED
    BY <1>4, <2>1 DEF AdvanceTail
<1>5. ASSUME NEW c \in Consumers, TryPop(c) PROVE WorkTypeOK'
  BY <1>5 DEF TryPop, IsEmpty
<1>6. ASSUME NEW c \in Consumers, Look(c) PROVE WorkTypeOK'
  BY <1>6 DEF Look
<1>7. ASSUME NEW c \in Consumers, ReturnEmpty(c) PROVE WorkTypeOK'
  BY <1>7 DEF ReturnEmpty
<1>8. ASSUME NEW c \in Consumers, Reload(c) PROVE WorkTypeOK'
  BY <1>8 DEF Reload
<1>9. ASSUME NEW c \in Consumers, Claim(c) PROVE WorkTypeOK'
  <2>1. sawEmpty' \in [Consumers -> BOOLEAN]
    BY <1>9 DEF Claim
  <2>2. dequeue_pos' \in Nat
    BY <1>9 DEF Claim
  <2> QED
    BY <1>9, <2>1, <2>2 DEF Claim
<1>10. ASSUME NEW c \in Consumers, Retry(c) PROVE WorkTypeOK'
  BY <1>10 DEF Retry
<1>11. ASSUME NEW c \in Consumers, Take(c) PROVE WorkTypeOK'
  BY <1>11 DEF Take
<1>12. ASSUME NEW c \in Consumers, Free(c) PROVE WorkTypeOK'
  <2>1. cell_seq' \in [Cells -> Nat]
    BY <1>12, SMTT(30) DEF Free
  <2>a. pos[c] \in Nat /\ out[c] \in Events \cup {Raw}
    OBVIOUS
  <2>b. <<pos[c], c, out[c]>> \in Nat \X Consumers \X (Events \cup {Raw})
    BY <2>a
  <2>c. takenBy' = takenBy \cup {<<pos[c], c, out[c]>>}
    BY <1>12 DEF Free
  <2>2. takenBy' \subseteq Nat \X Consumers \X (Events \cup {Raw})
    BY <2>b, <2>c
  <2> QED
    BY <1>12, <2>1, <2>2 DEF Free
<1>13. CASE Destruct
  BY <1>13 DEF Destruct
<1>14. CASE UNCHANGED workVars
  BY <1>14 DEF workVars
<1> QED
  BY <1>1, <1>2, <1>3, <1>4, <1>5, <1>6, <1>7, <1>8, <1>9, <1>10, <1>11, <1>12, <1>13, <1>14
     DEF WorkNext, Producer, Consumer

\* The cell after the last filled one does not look filled.
LEMMA NextCellUnfilled == ASSUME IInv PROVE cell_seq[Cell(Filled)] # Filled + 1
<1> USE CapacityAssumption DEF IInv, WorkTypeOK
<1>1. Filled \in Nat
  BY DEF Filled
<1>2. CASE Filled < Capacity
  BY <1>1, <1>2 DEF Stamps
<1>3. CASE Filled >= Capacity
  <2> DEFINE p == Filled - Capacity
  <2>1. p \in Nat /\ Filled = p + Capacity /\ Recent(p)
    BY <1>1, <1>3 DEF Recent
  <2>2. cell_seq[Cell(p)] = p + 1 \/ cell_seq[Cell(p)] = p + Capacity
    BY <2>1 DEF Stamps
  <2> QED
    BY <1>1, <2>1, <2>2, SlotLap
<1> QED
  BY <1>1, <1>2, <1>3

\* A position that is filled and not claimed looks filled.
LEMMA UnclaimedLooksFilled ==
  ASSUME IInv, NEW p \in Nat, dequeue_pos <= p, p < Filled
  PROVE  cell_seq[Cell(p)] = p + 1
<1>1. Recent(p) /\ Due(p)
  BY CapacityAssumption DEF IInv, WorkTypeOK, Positions, Recent, Due, Filled
<1> QED
  BY <1>1 DEF IInv, Stamps

\* A cell stamped for this lap is nobody's: its last element was given back.
LEMMA FreeCell ==
  ASSUME IInv, CellFree, Filled = enqueue_pos
  PROVE  /\ Filled - dequeue_pos < Capacity
         /\ \A c \in Consumers : InCell(c) => Filled - pos[c] < Capacity
<1> USE CapacityAssumption DEF IInv, WorkTypeOK
<1>1. ASSUME NEW p \in Nat, Filled = p + Capacity PROVE ~Due(p)
  <2>1. Recent(p)
    BY <1>1 DEF Recent
  <2>2. cell_seq[Cell(p)] = p + Capacity
    BY <1>1, SlotLap DEF CellFree
  <2> QED
    BY <2>1, <2>2 DEF Stamps
<1>2. Filled - dequeue_pos < Capacity
  <2>1. Filled - dequeue_pos # Capacity
    BY <1>1 DEF Due, Positions
  <2> QED
    BY <2>1 DEF Positions
<1>3. ASSUME NEW c \in Consumers, InCell(c) PROVE Filled - pos[c] < Capacity
  <2>1. Filled - pos[c] # Capacity
    BY <1>1, <1>3 DEF Due, Positions
  <2> QED
    BY <1>3, <2>1 DEF Positions, Recent
<1> QED
  BY <1>2, <1>3

\* What StampCell does to the history: one more filled position, the last.
LEMMA StampFills ==
  ASSUME IInv, StampCell
  PROVE  /\ Filled \in Nat /\ Filled = enqueue_pos /\ Filled' = Filled + 1
         /\ \A p \in Nat : p < Filled => log'[p + 1] = log[p + 1]
         /\ log'[Filled + 1] = arg
<1>1. Filled = enqueue_pos
  BY DEF IInv, Positions, StampCell
<1>2. log \in Seq(Events) /\ arg \in Events /\ log' = Append(log, arg)
  BY DEF IInv, WorkTypeOK, Contents, StampCell
<1> QED
  BY <1>1, <1>2 DEF Filled

\* The positions keep their order.
LEMMA PositionsStep == ASSUME IInv, [WorkNext]_workVars PROVE Positions'
<1> USE CapacityAssumption DEF IInv, WorkTypeOK, prodVars, consVars, Positions, Recent, InCell
<1>0. Filled \in Nat
  BY DEF Filled
<1>1. ASSUME NEW v \in Events, Push(v) PROVE Positions'
  BY <1>1 DEF Push, Filled
<1>2. CASE ConstructCell
  BY <1>2 DEF ConstructCell, Filled
<1>3. CASE StampCell
  <2>1. CellFree
    BY <1>3 DEF StampCell, Stamps, CellFree
  <2>2. Filled = enqueue_pos /\ Filled' = Filled + 1
    BY <1>3, StampFills
  <2>3. /\ Filled - dequeue_pos < Capacity
        /\ \A c \in Consumers : InCell(c) => Filled - pos[c] < Capacity
    BY <2>1, <2>2, FreeCell
  <2> QED
    BY <1>0, <1>3, <2>2, <2>3 DEF StampCell
<1>4. CASE AdvanceTail
  BY <1>4 DEF AdvanceTail, Filled
<1>5. ASSUME NEW c \in Consumers, TryPop(c) PROVE Positions'
  BY <1>5 DEF TryPop, Filled
<1>6. ASSUME NEW c \in Consumers, Look(c) PROVE Positions'
  <2>1. cpc'[c] = "cas" => pos[c] < Filled
    <3>1. SUFFICES ASSUME cpc'[c] = "cas", pos[c] = Filled PROVE FALSE
      BY <1>0
    <3>2. cell_seq[Cell(pos[c])] = pos[c] + 1
      BY <1>6, <3>1, SlotType, SMTT(30) DEF Look, Diff
    <3> QED
      BY <3>1, <3>2, NextCellUnfilled
  <2>2. Filled' = Filled /\ cpc'[c] \notin {"take", "free"}
    BY <1>6 DEF Look, Filled
  <2> QED
    BY <1>0, <1>6, <2>1, <2>2 DEF Look
<1>7. ASSUME NEW c \in Consumers, ReturnEmpty(c) PROVE Positions'
  BY <1>7 DEF ReturnEmpty, Filled
<1>8. ASSUME NEW c \in Consumers, Reload(c) PROVE Positions'
  BY <1>8 DEF Reload, Filled
<1>9. ASSUME NEW c \in Consumers, Claim(c) PROVE Positions'
  <2>1. Filled' = Filled
    BY <1>9 DEF Claim, Filled
  <2> QED
    BY <1>0, <1>9, <2>1 DEF Claim
<1>10. ASSUME NEW c \in Consumers, Retry(c) PROVE Positions'
  BY <1>10 DEF Retry, Filled
<1>11. ASSUME NEW c \in Consumers, Take(c) PROVE Positions'
  BY <1>11 DEF Take, Filled
<1>12. ASSUME NEW c \in Consumers, Free(c) PROVE Positions'
  BY <1>12 DEF Free, Filled
<1>13. CASE Destruct
  BY <1>13 DEF Destruct, Filled
<1>14. CASE UNCHANGED workVars
  BY <1>14 DEF workVars, Filled
<1> QED
  BY <1>1, <1>2, <1>3, <1>4, <1>5, <1>6, <1>7, <1>8, <1>9, <1>10, <1>11, <1>12, <1>13, <1>14
     DEF WorkNext, Producer, Consumer

\* A consumer in a cell that other cells do not share is the only one there.
LEMMA SoleHolder ==
  ASSUME IInv, NEW c \in Consumers, InCell(c), NEW p \in Nat, Recent(p), p # pos[c]
  PROVE  Cell(p) # Cell(pos[c])
<1>1. pos[c] \in Nat /\ Filled \in Nat /\ Recent(pos[c])
  BY DEF IInv, WorkTypeOK, Positions, Filled
<1> QED
  BY <1>1, SlotDistinct, CapacityAssumption DEF Recent

\* A stamp goes on saying what its cell was last used for.
LEMMA StampsStep == ASSUME IInv, [WorkNext]_workVars PROVE Stamps'
<1> USE CapacityAssumption, SlotType DEF IInv, WorkTypeOK, prodVars, consVars
<1>0. Filled \in Nat
  BY DEF Filled
<1>1. ASSUME UNCHANGED <<log, cell_seq, dequeue_pos, pos>>,
             \A c \in Consumers : InCell(c)' <=> InCell(c),
             /\ ppc' \in {"construct", "stamp"}
                => cell_seq[Cell(enqueue_pos)] = enqueue_pos /\ enqueue_pos' = enqueue_pos
      PROVE  Stamps'
  BY <1>1 DEF Stamps, Due, Recent, Filled
<1>2. ASSUME NEW c \in Consumers, UNCHANGED <<log, cell_seq, dequeue_pos, ppc, enqueue_pos>>,
             pos' = [pos EXCEPT ![c] = dequeue_pos], ~InCell(c), ~InCell(c)',
             \A d \in Consumers \ {c} : InCell(d)' <=> InCell(d)
      PROVE  Stamps'
  <2>1. \A p \in Nat : Due(p)' <=> Due(p)
    BY <1>2 DEF Due
  <2> QED
    BY <1>2, <2>1 DEF Stamps, Recent, Filled
<1>3. CASE StampCell
  <2>1. Filled = enqueue_pos /\ Filled' = Filled + 1
    BY <1>3, StampFills
  <2>2. CellFree
    BY <1>3 DEF StampCell, Stamps, CellFree
  <2>3. \A p \in Nat : Due(p)' <=> Due(p)
    BY <1>3 DEF StampCell, Due, InCell
  <2>4. cell_seq' = [cell_seq EXCEPT ![Cell(Filled)] = Filled + 1] /\ ppc' = "advance"
    BY <1>3, <2>1 DEF StampCell
  <2>5. ASSUME NEW p \in Nat, p < Filled, Filled - p < Capacity
        PROVE  cell_seq'[Cell(p)] = cell_seq[Cell(p)]
    BY <1>0, <2>4, <2>5, SlotDistinct
  <2>6. ASSUME NEW p \in Nat, Recent(p)'
        PROVE  cell_seq'[Cell(p)] = IF Due(p)' THEN p + 1 ELSE p + Capacity
    <3>1. CASE p = Filled
      <4>1. Due(p)
        BY <3>1 DEF Due, Positions
      <4> QED
        BY <1>0, <2>3, <2>4, <3>1, <4>1
    <3>2. CASE p < Filled
      BY <1>0, <2>1, <2>3, <2>5, <2>6, <3>2 DEF Stamps, Recent
    <3> QED
      BY <1>0, <2>1, <2>6, <3>1, <3>2 DEF Recent
  <2>7. ASSUME NEW p \in Nat, Filled' <= p, p < Capacity PROVE cell_seq'[Cell(p)] = p
    BY <1>0, <2>1, <2>4, <2>7, SlotDistinct DEF Stamps
  <2>8. ASSUME NEW p \in Nat, p < Filled' PROVE cell_seq'[Cell(p)] > p
    <3>0. p <= Filled /\ Filled \in Nat /\ Cell(p) \in Cells /\ Cell(Filled) \in Cells
      BY <1>0, <2>1, <2>8, SlotType
    <3>1. CASE Cell(p) = Cell(Filled)
      <4>1. cell_seq'[Cell(p)] = Filled + 1
        BY <1>0, <2>4, <3>0, <3>1
      <4> QED
        BY <3>0, <4>1
    <3>2. CASE Cell(p) # Cell(Filled)
      <4>1. cell_seq'[Cell(p)] = cell_seq[Cell(p)]
        BY <1>0, <2>4, <3>0, <3>2
      <4>2. p < Filled
        BY <3>0, <3>2
      <4> QED
        BY <4>1, <4>2 DEF Stamps
    <3> QED
      BY <3>1, <3>2
  <2> QED
    BY <2>4, <2>6, <2>7, <2>8 DEF Stamps
<1>4. ASSUME NEW c \in Consumers, Claim(c) PROVE Stamps'
  <2>1. \A p \in Nat : Due(p)' <=> Due(p)
    BY <1>4, SMTT(30) DEF Claim, Due, InCell
  <2> QED
    BY <1>4, <2>1 DEF Claim, Stamps, Recent, Filled
<1>5. ASSUME NEW c \in Consumers, Free(c) PROVE Stamps'
  <2>1. /\ InCell(c) /\ pos[c] \in Nat /\ Recent(pos[c]) /\ pos[c] < dequeue_pos
        /\ cell_seq[Cell(pos[c])] = pos[c] + 1
    BY <1>5 DEF Free, InCell, Positions, Stamps, Due
  <2>2. cell_seq' = [cell_seq EXCEPT ![Cell(pos[c])] = pos[c] + Capacity] /\ Filled' = Filled
    BY <1>5 DEF Free, Filled
  <2>3. ASSUME NEW p \in Nat, p = pos[c], Due(p)' PROVE FALSE
    <3>0. dequeue_pos' = dequeue_pos /\ p < dequeue_pos /\ dequeue_pos \in Nat
      BY <1>5, <2>1, <2>3 DEF Free, IInv, WorkTypeOK
    <3>1. PICK d \in Consumers : InCell(d)' /\ pos'[d] = p
      BY <2>3, <3>0 DEF Due
    <3>2. d # c /\ InCell(d) /\ pos[d] = pos[c]
      BY <1>5, <2>3, <3>1 DEF Free, InCell
    <3> QED
      BY <2>1, <3>2 DEF Positions
  <2>4. \A p \in Nat : p # pos[c] => (Due(p)' <=> Due(p))
    BY <1>5 DEF Free, Due, InCell
  <2>5. ASSUME NEW p \in Nat, Recent(p)'
        PROVE  cell_seq'[Cell(p)] = IF Due(p)' THEN p + 1 ELSE p + Capacity
    <3>1. Recent(p)
      BY <2>2, <2>5 DEF Recent
    <3>2. CASE p = pos[c]
      BY <2>1, <2>2, <2>3, <3>2
    <3>3. CASE p # pos[c]
      BY <2>1, <2>2, <2>4, <3>1, <3>3, SoleHolder DEF Stamps
    <3> QED
      BY <3>2, <3>3
  <2>6. ASSUME NEW p \in Nat, Filled <= p, p < Capacity PROVE cell_seq'[Cell(p)] = p
    <3>1. Cell(pos[c]) # Cell(p)
      BY <1>0, <2>1, <2>6, SlotDistinct DEF Recent
    <3> QED
      BY <2>2, <2>6, <3>1 DEF Stamps
  <2>7. ASSUME NEW p \in Nat, p < Filled PROVE cell_seq'[Cell(p)] > p
    BY <2>1, <2>2, <2>7 DEF Stamps
  <2>8. ASSUME ppc \in {"construct", "stamp"} PROVE cell_seq'[Cell(enqueue_pos)] = enqueue_pos
    <3>1. Filled = enqueue_pos /\ cell_seq[Cell(enqueue_pos)] = enqueue_pos
      BY <2>8 DEF Positions, Stamps
    <3>2. Cell(enqueue_pos) # Cell(pos[c])
      <4>1. SUFFICES ASSUME Cell(enqueue_pos) = Cell(pos[c]) PROVE FALSE
        OBVIOUS
      <4>2. pos[c] + 1 = enqueue_pos
        BY <2>1, <3>1, <4>1
      <4> QED
        BY <2>1, <4>1, <4>2, SlotDistinct
    <3> QED
      BY <2>2, <3>1, <3>2
  <2> QED
    BY <1>5, <2>2, <2>5, <2>6, <2>7, <2>8 DEF Free, Stamps
<1>6. ASSUME NEW v \in Events, Push(v) PROVE Stamps'
  BY <1>1, <1>6 DEF Push, InCell, CellFree
<1>7. CASE ConstructCell \/ AdvanceTail \/ Destruct \/ UNCHANGED workVars
  BY <1>1, <1>7 DEF ConstructCell, AdvanceTail, Destruct, workVars, InCell, Stamps
<1>8. ASSUME NEW c \in Consumers, Look(c) \/ ReturnEmpty(c) \/ Take(c) PROVE Stamps'
  BY <1>1, <1>8 DEF Look, ReturnEmpty, Take, InCell, Stamps
<1>9. ASSUME NEW c \in Consumers, TryPop(c) \/ Reload(c) \/ Retry(c) PROVE Stamps'
  BY <1>2, <1>9 DEF TryPop, Reload, Retry, InCell
<1> QED
  BY <1>3, <1>4, <1>5, <1>6, <1>7, <1>8, <1>9 DEF WorkNext, Producer, Consumer

\* While the producer is in a cell, nobody else is, and nothing unclaimed is.
LEMMA ProducerAlone ==
  ASSUME IInv, ppc \in {"construct", "stamp"}
  PROVE  /\ Filled = enqueue_pos
         /\ \A p \in Nat : (dequeue_pos <= p /\ p < Filled) => Cell(p) # Cell(enqueue_pos)
         /\ \A c \in Consumers : InCell(c) => Cell(pos[c]) # Cell(enqueue_pos)
<1> USE CapacityAssumption DEF IInv, WorkTypeOK
<1>1. Filled = enqueue_pos /\ CellFree
  BY DEF Positions, Stamps, CellFree
<1>2. /\ Filled - dequeue_pos < Capacity
      /\ \A c \in Consumers : InCell(c) => Filled - pos[c] < Capacity
  BY <1>1, FreeCell
<1> QED
  BY <1>1, <1>2, SlotDistinct DEF Positions, Recent

\* A cell goes on holding what was pushed there until it is taken.
LEMMA ContentsStep == ASSUME IInv, [WorkNext]_workVars PROVE Contents'
<1> USE CapacityAssumption, SlotType DEF IInv, WorkTypeOK, prodVars, consVars
<1>0. Filled \in Nat
  BY DEF Filled
<1>1. ASSUME NEW v \in Events, Push(v) PROVE Contents'
  BY <1>1 DEF Push, Contents, Recent, Filled
<1>2. CASE ConstructCell
  <2>1. /\ storage' = [storage EXCEPT ![Cell(enqueue_pos)] = arg] /\ ppc = "construct"
        /\ UNCHANGED <<log, dequeue_pos, enqueue_pos, cpc, pos, out, alive, arg>> /\ ppc' = "stamp"
        /\ Filled' = Filled
    BY <1>2 DEF ConstructCell, Filled
  <2>2. ASSUME NEW p \in Nat, Recent(p),
               p >= dequeue_pos \/ \E c \in Consumers : cpc[c] = "take" /\ pos[c] = p
        PROVE  storage'[Cell(p)] = storage[Cell(p)]
    BY <2>1, <2>2, ProducerAlone DEF Recent, InCell
  <2>3. storage'[Cell(enqueue_pos)] = arg
    BY <2>1
  <2>4. \A s \in Cells : s # Cell(enqueue_pos) => storage'[s] = storage[s]
    BY <2>1
  <2> QED
    BY <2>1, <2>2, <2>3, <2>4 DEF Contents, Recent
<1>3. CASE StampCell
  <2>1. /\ Filled = enqueue_pos /\ Filled' = Filled + 1
        /\ \A p \in Nat : p < Filled => log'[p + 1] = log[p + 1]
        /\ log'[Filled + 1] = arg
    BY <1>3, StampFills
  <2>2. /\ UNCHANGED <<storage, dequeue_pos, enqueue_pos, cpc, pos, out, alive, arg>>
        /\ ppc = "stamp" /\ ppc' = "advance" /\ alive
    BY <1>3 DEF StampCell, Contents
  <2>3. ASSUME NEW p \in Nat, Recent(p)',
               p >= dequeue_pos \/ \E c \in Consumers : cpc[c] = "take" /\ pos[c] = p
        PROVE  storage[Cell(p)] = log'[p + 1]
    <3>1. CASE p = Filled
      BY <2>1, <2>2, <3>1 DEF Contents
    <3>2. CASE p < Filled
      BY <1>0, <2>1, <2>2, <2>3, <3>2 DEF Contents, Recent
    <3> QED
      BY <1>0, <2>1, <2>3, <3>1, <3>2 DEF Recent
  <2>4. ASSUME NEW c \in Consumers, cpc[c] = "free" PROVE out[c] = log'[pos[c] + 1]
    BY <2>1, <2>4 DEF Contents, Positions, InCell, Recent
  <2>5. ASSUME NEW s \in Cells, storage[s] # Raw
        PROVE  \/ \E p \in dequeue_pos .. Filled' - 1 : Cell(p) = s
               \/ \E c \in Consumers : cpc[c] = "take" /\ Cell(pos[c]) = s
    <3>1. Filled \in dequeue_pos .. Filled' - 1
      BY <1>0, <2>1 DEF Positions
    <3>2. dequeue_pos .. Filled - 1 \subseteq dequeue_pos .. Filled' - 1
      BY <1>0, <2>1
    <3> QED
      BY <2>1, <2>5, <3>1, <3>2 DEF Contents
  <2> QED
    BY <2>2, <2>3, <2>4, <2>5 DEF Contents
<1>4. CASE AdvanceTail
  BY <1>4 DEF AdvanceTail, Contents, Recent, Filled
<1>5. ASSUME NEW c \in Consumers,
             UNCHANGED <<log, storage, dequeue_pos, enqueue_pos, ppc, arg, out, alive>>, alive,
             \A d \in Consumers : cpc'[d] = "take" <=> cpc[d] = "take",
             \A d \in Consumers : cpc'[d] = "free" => cpc[d] = "free",
             \A d \in Consumers : InCell(d) => pos'[d] = pos[d]
      PROVE  Contents'
  <2>1. Filled' = Filled
    BY <1>5 DEF Filled
  <2>2. \A d \in Consumers : cpc[d] = "take" => pos'[d] = pos[d]
    BY <1>5 DEF InCell
  <2>3. \A d \in Consumers : cpc'[d] = "free" => out'[d] = log'[pos'[d] + 1]
    BY <1>5 DEF Contents, InCell
  <2>4. \A p \in Nat : (\E d \in Consumers : cpc'[d] = "take" /\ pos'[d] = p)
                       => \E d \in Consumers : cpc[d] = "take" /\ pos[d] = p
    BY <1>5, <2>2
  <2>5. \A s \in Cells : (\E d \in Consumers : cpc[d] = "take" /\ Cell(pos[d]) = s)
                         => \E d \in Consumers : cpc'[d] = "take" /\ Cell(pos'[d]) = s
    BY <1>5, <2>2
  <2> QED
    BY <1>5, <2>1, <2>3, <2>4, <2>5 DEF Contents, Recent
<1>6. ASSUME NEW c \in Consumers, TryPop(c) \/ Look(c) \/ ReturnEmpty(c) \/ Reload(c) \/ Retry(c)
      PROVE  Contents'
  <2>1. alive
    BY <1>6 DEF Contents, TryPop, Look, ReturnEmpty, Reload, Retry
  <2> QED
    BY <1>5, <1>6, <2>1 DEF TryPop, Look, ReturnEmpty, Reload, Retry, InCell
<1>7. ASSUME NEW c \in Consumers, Free(c) PROVE Contents'
  <2>1. alive
    BY <1>7 DEF Contents, Free
  <2> QED
    BY <1>5, <1>7, <2>1 DEF Free, InCell
<1>8. ASSUME NEW c \in Consumers, Claim(c) PROVE Contents'
  <2>1. /\ alive /\ dequeue_pos' = dequeue_pos + 1 /\ pos[c] = dequeue_pos /\ Filled' = Filled
        /\ cpc' = [cpc EXCEPT ![c] = "take"] /\ cpc[c] = "cas"
        /\ UNCHANGED <<log, storage, enqueue_pos, ppc, arg, pos, out, alive>>
    BY <1>8 DEF Contents, Claim, Filled
  <2>2. ASSUME NEW p \in Nat,
               p >= dequeue_pos' \/ \E d \in Consumers : cpc'[d] = "take" /\ pos[d] = p
        PROVE  p >= dequeue_pos \/ \E d \in Consumers : cpc[d] = "take" /\ pos[d] = p
    BY <2>1, <2>2
  <2>3. ASSUME NEW s \in Cells, NEW p \in dequeue_pos .. Filled - 1, Cell(p) = s
        PROVE  \/ \E q \in dequeue_pos' .. Filled - 1 : Cell(q) = s
               \/ cpc'[c] = "take" /\ Cell(pos[c]) = s
    BY <1>0, <2>1, <2>3
  <2>4. \A d \in Consumers : /\ cpc[d] = "take" => cpc'[d] = "take"
                             /\ cpc'[d] = "free" => cpc[d] = "free"
    BY <2>1
  <2>5. ASSUME NEW s \in Cells, storage[s] # Raw
        PROVE  \/ \E p \in dequeue_pos' .. Filled - 1 : Cell(p) = s
               \/ \E d \in Consumers : cpc'[d] = "take" /\ Cell(pos[d]) = s
               \/ ppc = "stamp" /\ s = Cell(enqueue_pos)
    BY <2>3, <2>4, <2>5 DEF Contents
  <2>6. \A p \in Nat : Recent(p)' <=> Recent(p)
    BY <2>1 DEF Recent
  <2>7. ASSUME NEW p \in Nat, Recent(p)',
               p >= dequeue_pos' \/ \E d \in Consumers : cpc'[d] = "take" /\ pos[d] = p
        PROVE  storage[Cell(p)] = log[p + 1]
    BY <2>1, <2>2, <2>6, <2>7 DEF Contents
  <2>8. alive' /\ Filled' = Filled
    BY <2>1
  <2> QED
    BY <2>1, <2>4, <2>5, <2>7, <2>8 DEF Contents
<1>9. ASSUME NEW c \in Consumers, Take(c) PROVE Contents'
  <2>1. /\ alive /\ InCell(c) /\ cpc[c] = "take" /\ Filled' = Filled
        /\ cpc' = [cpc EXCEPT ![c] = "free"]
        /\ out' = [out EXCEPT ![c] = storage[Cell(pos[c])]]
        /\ storage' = [storage EXCEPT ![Cell(pos[c])] = Raw]
        /\ UNCHANGED <<log, dequeue_pos, enqueue_pos, ppc, arg, pos, alive>>
    BY <1>9 DEF Contents, Take, Filled, InCell
  <2>2. pos[c] \in Nat /\ Recent(pos[c]) /\ pos[c] < dequeue_pos
    BY <2>1 DEF Positions
  <2>3. out'[c] = log[pos[c] + 1]
    BY <2>1, <2>2 DEF Contents
  <2>4. ASSUME NEW p \in Nat, Recent(p),
               p >= dequeue_pos \/ \E d \in Consumers : cpc'[d] = "take" /\ pos[d] = p
        PROVE  storage'[Cell(p)] = log[p + 1]
    <3>1. p # pos[c]
      BY <2>1, <2>2, <2>4 DEF Positions, InCell
    <3>2. storage'[Cell(p)] = storage[Cell(p)]
      BY <2>1, <2>4, <3>1, SoleHolder
    <3>3. p >= dequeue_pos \/ \E d \in Consumers : cpc[d] = "take" /\ pos[d] = p
      BY <2>1, <2>4
    <3> QED
      BY <2>1, <2>4, <3>2, <3>3 DEF Contents
  <2>5. ASSUME ppc = "stamp" PROVE storage'[Cell(enqueue_pos)] = arg
    BY <2>1, <2>5, ProducerAlone DEF Contents
  <2>6. ASSUME NEW s \in Cells, storage'[s] # Raw
        PROVE  \/ \E p \in dequeue_pos .. Filled - 1 : Cell(p) = s
               \/ \E d \in Consumers : cpc'[d] = "take" /\ Cell(pos[d]) = s
               \/ ppc = "stamp" /\ s = Cell(enqueue_pos)
    <3>1. s # Cell(pos[c]) /\ storage[s] # Raw
      BY <2>1, <2>2, <2>6
    <3> QED
      BY <2>1, <3>1 DEF Contents
  <2>7. ASSUME NEW d \in Consumers, cpc'[d] = "free" PROVE out'[d] = log[pos[d] + 1]
    BY <2>1, <2>3, <2>7 DEF Contents
  <2> QED
    BY <2>1, <2>4, <2>5, <2>6, <2>7, SMTT(30) DEF Contents, Recent
<1>10. CASE Destruct
  <2>1. \A s \in Cells : storage'[s] = Raw
    BY <1>10 DEF Destruct, Contents, Positions
  <2> QED
    BY <1>10, <2>1 DEF Destruct, Contents
<1>11. CASE UNCHANGED workVars
  BY <1>11 DEF workVars, Contents, Recent, Filled
<1> QED
  BY <1>1, <1>2, <1>3, <1>4, <1>6, <1>7, <1>8, <1>9, <1>10, <1>11 DEF WorkNext, Producer, Consumer

\* A claimed position is held or on record, and on record only once.
LEMMA HandedStep == ASSUME IInv, [WorkNext]_workVars PROVE Handed'
<1> USE DEF IInv, WorkTypeOK, prodVars, consVars
<1>0. /\ Filled \in Nat /\ dequeue_pos <= Filled
      /\ \A t \in takenBy : t[1] \in Nat /\ t[1] < Filled
  BY DEF Filled, Handed, Positions
<1>1. ASSUME UNCHANGED <<takenBy, dequeue_pos>>,
             \A p \in Nat : p < Filled => log'[p + 1] = log[p + 1],
             \A c \in Consumers : (InCell(c)' <=> InCell(c)) /\ (InCell(c) => pos'[c] = pos[c])
      PROVE  Handed'
  <2>1. ASSUME NEW t \in takenBy
        PROVE  /\ t[1] < dequeue_pos' /\ t[3] = log'[t[1] + 1]
               /\ \A u \in takenBy' : u[1] = t[1] => u = t
               /\ \A c \in Consumers : InCell(c)' => pos'[c] # t[1]
    <3>1. t[1] \in Nat /\ t[1] < Filled
      BY <1>0
    <3>2. log'[t[1] + 1] = log[t[1] + 1]
      BY <1>1, <3>1
    <3> QED
      BY <1>1, <3>2 DEF Handed
  <2>2. ASSUME NEW p \in Nat, p < dequeue_pos'
        PROVE  \/ \E t \in takenBy' : t[1] = p
               \/ \E c \in Consumers : InCell(c)' /\ pos'[c] = p
    BY <1>1, <2>2 DEF Handed
  <2>3. takenBy' = takenBy
    BY <1>1
  <2> HIDE DEF IInv, WorkTypeOK
  <2> QED
    BY <2>1, <2>2, <2>3 DEF Handed
<1>2. CASE StampCell
  BY <1>1, <1>2, StampFills DEF StampCell, InCell
<1>3. ASSUME NEW v \in Events, Push(v) PROVE Handed'
  BY <1>1, <1>3 DEF Push, InCell
<1>4. CASE ConstructCell \/ AdvanceTail \/ Destruct \/ UNCHANGED workVars
  BY <1>1, <1>4 DEF ConstructCell, AdvanceTail, Destruct, workVars, InCell
<1>5. ASSUME NEW c \in Consumers,
             TryPop(c) \/ Look(c) \/ ReturnEmpty(c) \/ Reload(c) \/ Retry(c) \/ Take(c)
      PROVE  Handed'
  BY <1>1, <1>5 DEF TryPop, Look, ReturnEmpty, Reload, Retry, Take, InCell
<1>6. ASSUME NEW c \in Consumers, Claim(c) PROVE Handed'
  <2>1. /\ dequeue_pos' = dequeue_pos + 1 /\ pos[c] = dequeue_pos /\ InCell(c)'
        /\ UNCHANGED <<takenBy, log, pos>>
        /\ \A d \in Consumers \ {c} : InCell(d)' <=> InCell(d)
        /\ ~InCell(c)
    BY <1>6 DEF Claim, InCell
  <2>2. ASSUME NEW p \in Nat, p < dequeue_pos'
        PROVE  (\E t \in takenBy : t[1] = p) \/ (\E d \in Consumers : InCell(d)' /\ pos[d] = p)
    BY <2>1, <2>2 DEF Handed
  <2>3. ASSUME NEW t \in takenBy
        PROVE  /\ t[1] < dequeue_pos' /\ t[3] = log[t[1] + 1]
               /\ \A d \in Consumers : InCell(d)' => pos[d] # t[1]
    BY <1>0, <2>1 DEF Handed
  <2> QED
    BY <2>1, <2>2, <2>3 DEF Handed
<1>7. ASSUME NEW c \in Consumers, Free(c) PROVE Handed'
  <2> DEFINE r == <<pos[c], c, out[c]>>
  <2>1. /\ takenBy' = takenBy \cup {r} /\ UNCHANGED <<log, pos, dequeue_pos>>
        /\ InCell(c) /\ ~InCell(c)' /\ \A d \in Consumers \ {c} : InCell(d)' <=> InCell(d)
        /\ r[1] = pos[c] /\ r[3] = out[c] /\ pos[c] \in Nat
    BY <1>7 DEF Free, InCell
  <2>2. /\ r[1] < dequeue_pos /\ r[3] = log[r[1] + 1]
        /\ \A d \in Consumers : InCell(d)' => pos[d] # r[1]
        /\ \A u \in takenBy : u[1] # r[1]
    BY <1>7, <2>1 DEF Free, Positions, Contents, Handed
  <2> HIDE DEF r
  <2>3. ASSUME NEW t \in takenBy'
        PROVE  /\ t[1] < dequeue_pos /\ t[3] = log[t[1] + 1]
               /\ \A u \in takenBy' : u[1] = t[1] => u = t
               /\ \A d \in Consumers : InCell(d)' => pos[d] # t[1]
    BY <2>1, <2>2 DEF Handed
  <2>4. ASSUME NEW p \in Nat, p < dequeue_pos
        PROVE  (\E t \in takenBy' : t[1] = p) \/ (\E d \in Consumers : InCell(d)' /\ pos[d] = p)
    BY <2>1, <2>4 DEF Handed
  <2> QED
    BY <2>1, <2>3, <2>4 DEF Handed
<1> QED
  BY <1>2, <1>3, <1>4, <1>5, <1>6, <1>7 DEF WorkNext, Producer, Consumer

\* A call that has met no empty queue stays in front of a filled cell.
LEMMA EmptinessStep == ASSUME IInv, [WorkNext]_workVars PROVE Emptiness'
<1> USE DEF IInv, WorkTypeOK, prodVars, consVars
<1>0. Filled \in Nat /\ dequeue_pos <= Filled
  BY DEF Filled, Positions
<1>1. ASSUME UNCHANGED <<dequeue_pos, sawEmpty>>, Filled' \in Nat, Filled' >= Filled,
             \A c \in Consumers : /\ cpc'[c] # "idle" => cpc[c] # "idle"
                                  /\ cpc'[c] = "empty" => cpc[c] = "empty" \/ sawEmpty[c]
      PROVE  Emptiness'
  BY <1>0, <1>1 DEF Emptiness
<1>2. CASE StampCell
  <2>1. Filled' = Filled + 1
    BY <1>2, StampFills
  <2> QED
    BY <1>0, <1>1, <1>2, <2>1 DEF StampCell
<1>3. ASSUME NEW v \in Events, Push(v) PROVE Emptiness'
  BY <1>0, <1>1, <1>3 DEF Push, Filled
<1>4. CASE ConstructCell \/ AdvanceTail \/ Destruct \/ UNCHANGED workVars
  BY <1>0, <1>1, <1>4 DEF ConstructCell, AdvanceTail, Destruct, workVars, Filled
<1>5. ASSUME NEW c \in Consumers, ReturnEmpty(c) \/ Reload(c) \/ Retry(c) \/ Take(c) \/ Free(c)
      PROVE  Emptiness'
  BY <1>0, <1>1, <1>5 DEF ReturnEmpty, Reload, Retry, Take, Free, Filled
<1>6. ASSUME NEW c \in Consumers, TryPop(c) PROVE Emptiness'
  <2>1. ~IsEmpty => dequeue_pos < Filled
    BY <1>0, NextCellUnfilled DEF IsEmpty
  <2> QED
    BY <1>6, <2>1 DEF TryPop, Emptiness, Filled
<1>7. ASSUME NEW c \in Consumers, Look(c) PROVE Emptiness'
  <2>1. ASSUME Diff(c) < 0, ~sawEmpty[c] PROVE FALSE
    <3>1. pos[c] \in Nat /\ pos[c] < Filled
      BY <1>0, <1>7, <2>1 DEF Emptiness, Look, Positions
    <3>2. cell_seq[Cell(pos[c])] \in Nat
      BY <3>1, SlotType
    <3> QED
      BY <2>1, <3>1, <3>2 DEF Stamps, Diff
  <2>2. cpc'[c] = "empty" => sawEmpty[c]
    BY <1>7, <2>1 DEF Look
  <2> QED
    BY <1>0, <1>1, <1>7, <2>2 DEF Look, Filled
<1>8. ASSUME NEW c \in Consumers, Claim(c) PROVE Emptiness'
  <2>1. dequeue_pos + 1 <= Filled
    BY <1>0, <1>8 DEF Claim, Positions
  <2>2. cell_seq[Cell(dequeue_pos + 1)] = dequeue_pos + 2 => dequeue_pos + 1 < Filled
    <3>1. dequeue_pos + 1 = Filled => cell_seq[Cell(dequeue_pos + 1)] # dequeue_pos + 2
      BY NextCellUnfilled
    <3> QED
      BY <1>0, <2>1, <3>1
  <2> QED
    BY <1>8, <2>2 DEF Claim, Emptiness, Filled
<1> QED
  BY <1>2, <1>3, <1>4, <1>5, <1>6, <1>7, <1>8 DEF WorkNext, Producer, Consumer
-----------------------------------------------------------------------------
\* The invariant behind every result below holds in every reachable state.
THEOREM Invariance == WorkSpec => []IInv
<1>1. ASSUME IInv, [WorkNext]_workVars PROVE IInv'
  BY <1>1, TypeStep, PositionsStep, StampsStep, ContentsStep, HandedStep, EmptinessStep DEF IInv
<1> QED
  BY <1>1, InitIInv, PTL DEF WorkSpec

\* The queue's words, cells and threads keep their types.
THEOREM TypeCorrect == WorkSpec => []WorkTypeOK
  BY Invariance, PTL DEF IInv

\* No cell of the ring is ever touched by two threads at once, and the
\* destructor leaves no element behind.
THEOREM ExclusiveCells == WorkSpec => []CellIsExclusive
<1>1. ASSUME IInv PROVE CellIsExclusive
  <2> USE DEF IInv, WorkTypeOK
  <2>1. ASSUME NEW c \in Consumers, NEW d \in Consumers, c # d, InCell(c), InCell(d)
        PROVE  Cell(pos[c]) # Cell(pos[d])
    BY <1>1, <2>1, SoleHolder DEF Positions
  <2>2. ASSUME NEW c \in Consumers, InCell(c), ppc \in {"construct", "stamp"}
        PROVE  Cell(pos[c]) # Cell(enqueue_pos)
    BY <1>1, <2>2, ProducerAlone
  <2> QED
    BY <1>1, <2>1, <2>2 DEF CellIsExclusive, Contents
<1> QED
  BY <1>1, Invariance, PTL

\* Each task pushed goes to exactly one consumer, and at rest every position
\* below dequeue_pos_ has gone to somebody.
THEOREM EachTaskOnce == WorkSpec => []TakenOnce
<1>1. ASSUME IInv PROVE TakenOnce
  <2> USE <1>1 DEF IInv, WorkTypeOK
  <2>1. ASSUME NEW t \in takenBy
        PROVE  /\ t[1] \in Nat /\ t[1] < dequeue_pos /\ t[1] < Len(log) /\ t[3] = log[t[1] + 1]
               /\ \A u \in takenBy : u[1] = t[1] => u = t
    BY DEF Handed, Positions, Filled
  <2>2. ASSUME \A c \in Consumers : cpc[c] = "idle"
        PROVE  {t[1] : t \in takenBy} = 0 .. dequeue_pos - 1
    <3>1. \A p \in Nat : p < dequeue_pos => \E t \in takenBy : t[1] = p
      BY <2>2 DEF Handed, InCell
    <3>2. \A p : p \in 0 .. dequeue_pos - 1 <=> p \in Nat /\ p < dequeue_pos
      OBVIOUS
    <3> QED
      BY <2>1, <3>1, <3>2
  <2> QED
    BY <2>1, <2>2 DEF TakenOnce
<1> QED
  BY <1>1, Invariance, PTL

\* try_pop() answers nullopt only if the queue was empty during the call.
THEOREM HonestEmptiness == WorkSpec => []EmptyIsHonest
<1>1. ASSUME IInv PROVE EmptyIsHonest
  BY <1>1 DEF IInv, Emptiness, EmptyIsHonest
<1> QED
  BY <1>1, Invariance, PTL
=============================================================================
