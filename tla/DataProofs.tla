----------------------------- MODULE DataProofs -----------------------------
(***************************************************************************)
(* The data side: the source that replays the exchange's history and the   *)
(* store that the research package keeps on disk.                          *)
(*                                                                         *)
(* For any universe, listing and files, and in whatever order they land:   *)
(* what next() hands out is merged in order, every stream is in one place, *)
(* and the counters show what a failed file or missing tape left out.      *)
(*                                                                         *)
(* For any number of processes, partitions, trials and deaths, with the    *)
(* calls made one at a time: the folder of the trial ledger keeps what was *)
(* recorded last, the index of the partition cache matches the files but   *)
(* for the deaths it names, and a scan serves what it was asked for.       *)
(***************************************************************************)
EXTENDS HistoricalSource, ResearchStore, FiniteSetTheorems, WellFoundedInduction, TLAPS

-----------------------------------------------------------------------------
(* The historical source: its invariant.                                   *)

\* What the worlds fix for good, and the bounds the cursors keep.
SourceInv ==
    /\ Len(table) \in Nat
    /\ \A s \in Streams :
          /\ table[s].interval.count \in Nat /\ Len(paths[s]) \in Nat
          /\ read_cursor[s] <= landed[s] /\ landed[s] <= Len(paths[s])
          /\ \A i \in 1 .. Len(paths[s]) :
                /\ paths[s][i].ok \in BOOLEAN /\ paths[s][i].rows \in Seq(Seq(Fields))
                /\ paths[s][i].stamp \in [y : Nat, m : Nat, d : Nat]

Walking == pc \in {"walk", "stream"}

\* The entries of pending_ that count: during the walk those kept so far and
\* those not visited yet.
Live == IF Walking THEN (1 .. keep) \cup (visit .. Len(pending)) ELSE 1 .. Len(pending)

\* A stream is in the heap with its front, waits in pending_, or is finished.
PlaceInv ==
    /\ Walking => visit <= Len(pending) + 1 /\ (waiting <=> keep > 0)
    /\ pc = "stream" => visit <= Len(pending)
    /\ \A i, j \in Live : pending[i] = pending[j] => i = j
    /\ \A i \in Live : front[pending[i]] = None
    /\ \A s \in Streams : front[s] # None => front[s].stream = s
    /\ heap = {EntryOf(front[s]) : s \in {u \in Streams : front[u] # None}}
    /\ \A s \in Streams : front[s] # None \/ Finished(s) \/ \E i \in Live : pending[i] = s
    /\ pc = "eof" => \A s \in Streams : front[s] = None /\ Finished(s)

\* Since an event came out, the other streams have had nothing earlier: each has
\* a front that is not before it, or is finished.
SettledInv ==
    Len(out) > 0 =>
        \A u \in Streams \ {out[Len(out)].stream} :
            IF front[u] = None THEN Finished(u) ELSE ~MergedBefore(front[u], out[Len(out)])

\* The steps back of s in what came out, and the one its front is about to make.
StepsBackOf(s) == {i \in StepsBack : out[i].stream = s}
NextStepsBack(s) == /\ Len(out) > 0 /\ out[Len(out)].stream = s /\ front[s] # None
                    /\ front[s].ts < out[Len(out)].ts

\* last_ts is the stamp of the stream's latest event, so each step back is counted.
StampInv ==
    \A s \in Streams :
        /\ front[s] # None => last_ts[s] = front[s].ts
        /\ Len(out) > 0 /\ out[Len(out)].stream = s /\ front[s] = None =>
              last_ts[s] = out[Len(out)].ts
        /\ Cardinality(StepsBackOf(s)) + (IF NextStepsBack(s) THEN 1 ELSE 0)
              <= stats[s].backwards_stamps

OrderInv == (\A i \in StepsBack : out[i].stream = out[i + 1].stream) /\ SettledInv /\ StampInv

\* i is the latest event of s that came out.
LatestOf(s, i) == i \in OutOf(s) /\ \A j \in OutOf(s) : j <= i

\* last_sequence is the id of the stream's latest event.
TapeInv ==
    /\ \A s \in Sequenced :
        /\ front[s] # None => last_sequence[s] = front[s].id
        /\ \A i \in 1 .. Len(out) :
              LatestOf(s, i) =>
                IF front[s] = None THEN last_sequence[s] = out[i].id
                ELSE stats[s].sequence_gaps = 0 => front[s].id = out[i].id + 1
    /\ MissingTapeShows

\* The counters of one stream; a failed file has room for a row nobody parses.
Seen(s) == stats[s].rows_parsed + stats[s].rows_rejected + stats[s].header_rows + stats[s].blank_rows
               + Len(rows[s])
EventsOf(s) == Cardinality(OutOf(s)) + (IF front[s] = None THEN 0 ELSE 1)
Most(s) == IF s \in Grouped THEN 2 * DepthBands + 2 ELSE 1
Least(s) == IF s \in Grouped THEN 2 * DepthBands ELSE 1
AllRegular(s) == \A i \in 1 .. Len(paths[s]) :
                    LET fit == ExpectedRows(table[s], paths[s][i].stamp)
                    IN  fit > 0 /\ Len(paths[s][i].rows) <= fit
CountOf(s) ==
    /\ IsFiniteSet(RowsRead(s)) /\ Seen(s) = Cardinality(RowsRead(s))
    /\ EventsOf(s) * Least(s) <= stats[s].rows_parsed /\ stats[s].rows_parsed <= EventsOf(s) * Most(s)
    /\ stats[s].files_read = Cardinality(FilesRead(s))
    /\ stats[s].files_read + stats[s].files_failed = read_cursor[s]
    /\ AllRegular(s) => Seen(s) + stats[s].files_failed <= stats[s].rows_expected
CountInv == \A s \in Streams : CountOf(s)

IInv == TypeOK /\ SourceInv /\ PlaceInv /\ OrderInv /\ TapeInv /\ CountInv

-----------------------------------------------------------------------------
(* Runs of rows and what the parsers read of them.                         *)

\* A set that holds 1 has a last element before its first gap, or counting on
\* from 1 would make it larger than itself.
LEMMA RunEnds ==
  ASSUME NEW n \in Nat, n > 0, NEW S, 1 \in S
  PROVE  \E k \in 1 .. n : k \in S /\ (k < n => k + 1 \notin S)
<1> SUFFICES ASSUME \A k \in 1 .. n : k \in S => k < n /\ k + 1 \in S PROVE FALSE
  OBVIOUS
<1> DEFINE T == {k \in 1 .. n : k \in S}
           f == [k \in T |-> k + 1]
<1>1. 1 \in T /\ T \in SUBSET (1 .. n)
  OBVIOUS
<1>2. IsFiniteSet(T)
  <2>1. IsFiniteSet(1 .. n)
    BY FS_Interval
  <2> HIDE DEF T
  <2> QED
    BY <1>1, <2>1, FS_Subset
<1>3. \A k \in T : k \in Int /\ k + 1 \in T \ {1}
  OBVIOUS
<1> HIDE DEF T
<1>4. f \in Injection(T, T \ {1})
  BY <1>3 DEF Injection, IsInjective
<1>5. /\ IsFiniteSet(T \ {1}) /\ Cardinality(T \ {1}) = Cardinality(T) - 1
      /\ Cardinality(T) \in Nat
  BY <1>1, <1>2, FS_RemoveElement, FS_CardinalityType
<1>6. Cardinality(T) <= Cardinality(T \ {1})
  BY <1>4, <1>5, FS_Injection
<1> QED
  BY <1>5, <1>6

\* take_row() takes at least one row, and one only outside the depth dataset.
LEMMA RunLengthTyped ==
  ASSUME NEW s \in Streams, rows[s] \in Seq(Seq(Fields)), rows[s] # << >>
  PROVE  RunLength(s) \in 1 .. Len(rows[s]) /\ (s \notin Grouped => RunLength(s) = 1)
<1>1. Len(rows[s]) \in Nat /\ Len(rows[s]) > 0
  OBVIOUS
<1>2. CASE s \notin Grouped
  BY <1>1, <1>2 DEF RunLength
<1>3. CASE s \in Grouped
  <2> DEFINE Shares(n) == \A i \in 1 .. n : FieldOf(rows[s][i], 1) = FieldOf(rows[s][1], 1)
             S == {n \in Nat : Shares(n)}
             Ends(n) == Shares(n) /\ (n < Len(rows[s]) => ~Shares(n + 1))
  <2>1. 1 \in S
    OBVIOUS
  <2>2. PICK k \in 1 .. Len(rows[s]) : k \in S /\ (k < Len(rows[s]) => k + 1 \notin S)
    <3> HIDE DEF S
    <3> QED
      BY <1>1, <2>1, RunEnds
  <2>3. Ends(k)
    BY <2>2
  <2>4. RunLength(s) = CHOOSE n \in 1 .. Len(rows[s]) : Ends(n)
    BY <1>3 DEF RunLength
  <2> HIDE DEF Ends
  <2> QED
    BY <1>3, <2>2, <2>3, <2>4
<1> QED
  BY <1>2, <1>3

\* The block and the rest are the rows.
LEMMA BlockFacts ==
  ASSUME NEW s \in Streams, rows[s] \in Seq(Seq(Fields)), rows[s] # << >>, s = cur
  PROVE  /\ Block \in Seq(Seq(Fields)) /\ Len(Block) \in 1 .. Len(rows[s])
         /\ Block[1] = rows[s][1]
         /\ Rest \in Seq(Seq(Fields)) /\ Len(Rest) = Len(rows[s]) - Len(Block)
         /\ s \notin Grouped => Len(Block) = 1
<1> DEFINE n == RunLength(s)
<1>1. Len(rows[s]) \in Nat /\ n \in 1 .. Len(rows[s]) /\ (s \notin Grouped => n = 1)
  BY RunLengthTyped
<1>2. Block = SubSeq(rows[s], 1, n) /\ Rest = SubSeq(rows[s], n + 1, Len(rows[s]))
  BY DEF Block, Rest
<1> HIDE DEF n
<1>3. /\ Block \in Seq(Seq(Fields)) /\ Len(Block) = n /\ Block[1] = rows[s][1]
  BY <1>1, <1>2
<1>4. Rest \in Seq(Seq(Fields)) /\ Len(Rest) = Len(rows[s]) - n
  BY <1>1, <1>2
<1> QED
  BY <1>1, <1>3, <1>4

\* A field that is not blank is in the row.
LEMMA FieldThere ==
  ASSUME NEW cells \in Seq(Fields), NEW i \in Nat, i > 0, FieldOf(cells, i).t # "blank"
  PROVE  FieldOf(cells, i) = cells[i] /\ cells[i] \in Fields
<1>1. Len(cells) \in Nat
  OBVIOUS
<1> QED
  BY <1>1 DEF FieldOf, Blank

LEMMA StampTyped ==
  ASSUME NEW cells \in Seq(Fields), NEW i \in Nat, i > 0, TakesStamp(FieldOf(cells, i))
  PROVE  StampOf(cells[i]) \in Int
<1>1. FieldOf(cells, i).t = "int"
  BY DEF TakesStamp
<1>2. cells[i] \in Fields
  BY <1>1, FieldThere
<1> QED
  BY <1>2, SourceAssumption DEF StampOf, Fields

\* An event's time and id are numbers.
LEMMA EventTyped ==
  ASSUME NEW st, NEW b \in Seq(Seq(Fields)), Len(b) > 0, Takes(st, b)
  PROVE  EventTime(st, b) \in Int /\ SequenceId(st, b) \in Int
<1>0. b[1] \in Seq(Fields) /\ 1 \in DOMAIN b
  OBVIOUS
<1>1. CASE st.kind = "FundingRate"
  <2>1. TakesStamp(FieldOf(b[1], 1))
    BY <1>1 DEF Takes, TakesFunding
  <2>2. StampOf(b[1][1]) \in Int
    BY <1>0, <2>1, StampTyped
  <2> QED
    BY <1>1, <2>2 DEF EventTime, SequenceId
<1>2. CASE st.kind = "Metrics"
  <2>1. FieldOf(b[1], 1).t = "time"
    BY <1>2 DEF Takes, TakesMetrics, TakesDatetime
  <2>2. b[1][1] \in Fields
    BY <1>0, <2>1, FieldThere
  <2> QED
    BY <1>2, <2>2 DEF EventTime, SequenceId, Fields
<1>3. CASE st.kind = "BookDepth"
  <2>1. FieldOf(b[1], 1).t = "time"
    BY <1>0, <1>3 DEF Takes, TakesDepthGroup, TakesDatetime
  <2>2. b[1][1] \in Fields
    BY <1>0, <2>1, FieldThere
  <2> QED
    BY <1>3, <2>2 DEF EventTime, SequenceId, Fields
<1>4. CASE st.kind = "AggTrades"
  <2>1. TakesStamp(FieldOf(b[1], 6)) /\ FieldOf(b[1], 1).t = "int"
    BY <1>4 DEF Takes, TakesAggTrade, TakesInteger
  <2>2. StampOf(b[1][6]) \in Int
    BY <1>0, <2>1, StampTyped
  <2>3. b[1][1] \in Fields
    BY <1>0, <2>1, FieldThere
  <2> QED
    BY <1>4, <2>2, <2>3 DEF EventTime, SequenceId, Fields
<1>5. CASE st.kind \notin {"FundingRate", "Metrics", "BookDepth", "AggTrades"}
  <2>1. TakesStamp(FieldOf(b[1], 7))
    BY <1>5 DEF Takes, TakesKline
  <2>2. StampOf(b[1][7]) \in Int
    BY <1>0, <2>1, StampTyped
  <2> QED
    BY <1>5, <2>2 DEF EventTime, SequenceId
<1> QED
  BY <1>1, <1>2, <1>3, <1>4, <1>5

-----------------------------------------------------------------------------
(* Types.                                                                  *)

\* The entry being visited is a stream without a front.
LEMMA CurFacts ==
  ASSUME TypeOK, SourceInv, PlaceInv, pc = "stream"
  PROVE  /\ Len(pending) \in Nat /\ visit \in 1 .. Len(pending) /\ visit \in Live
         /\ cur \in Streams /\ front[cur] = None
<1>1. Len(pending) \in Nat /\ visit \in 1 .. Len(pending)
  BY DEF TypeOK, PlaceInv
<1>2. visit \in Live
  BY <1>1 DEF Live, Walking
<1>3. cur \in Streams
  BY <1>1 DEF TypeOK, cur
<1> QED
  BY <1>1, <1>2, <1>3 DEF PlaceInv, cur

\* The event e that Parse makes of n rows of s.
Parsed(s, e, n, rest) ==
    /\ s = cur /\ n > 0 /\ n = Len(Block) /\ Len(rows[s]) = n + Len(rest) /\ e.stream = s
    /\ front' = [front EXCEPT ![s] = e]
    /\ heap' = heap \cup {EntryOf(e)}
    /\ rows' = [rows EXCEPT ![s] = rest]
    /\ last_ts' = [last_ts EXCEPT ![s] = e.ts]
    /\ last_sequence' = IF s \in Sequenced THEN [last_sequence EXCEPT ![s] = e.id] ELSE last_sequence

Counted(s, e, n) ==
    stats' = [stats EXCEPT
        ![s].rows_parsed = @ + n,
        ![s].backwards_stamps = @ + IF e.ts < last_ts[s] THEN 1 ELSE 0,
        ![s].repeated_stamps =
            @ + IF e.ts = last_ts[s] /\ stats[s].rows_parsed > 0 THEN 1 ELSE 0,
        ![s].sequence_gaps = @ + IF s \in Sequenced /\ Breaks(s, e.id) THEN 1 ELSE 0]

LEMMA ParsedFacts ==
  ASSUME TypeOK, SourceInv, PlaceInv, Parse
  PROVE  \E s \in Streams, e \in Events, n \in Nat, rest \in Seq(Seq(Fields)) :
            /\ Parsed(s, e, n, rest)
            /\ Counted(s, e, n)
<1>1. pc = "stream" /\ rows[cur] # << >> /\ Takes(table[cur], Block)
  BY DEF Parse, AtRow, Parses
<1>2. PICK s \in Streams : s = cur
  BY <1>1, CurFacts
<1>3. rows[s] \in Seq(Seq(Fields))
  BY DEF TypeOK
<1>4. /\ Block \in Seq(Seq(Fields)) /\ Len(Block) \in 1 .. Len(rows[s])
      /\ Rest \in Seq(Seq(Fields)) /\ Len(Rest) = Len(rows[s]) - Len(Block)
  BY <1>1, <1>2, <1>3, BlockFacts
<1>5. EventTime(table[s], Block) \in Int /\ SequenceId(table[s], Block) \in Int
  BY <1>1, <1>2, <1>4, EventTyped
<1>6. PICK ts \in Int : ts = EventTime(table[s], Block)
  BY <1>5
<1>7. PICK id \in Int : id = SequenceId(table[s], Block)
  BY <1>5
<1>8. PICK n \in Nat : n = Len(Block) /\ n > 0
  BY <1>4
<1>9. PICK rest \in Seq(Seq(Fields)) : rest = Rest
  BY <1>4
<1>10. Len(rows[s]) = n + Len(rest) /\ Len(rows[s]) \in Nat
  BY <1>3, <1>4, <1>8, <1>9
<1>11. PICK e \in Events : e = [stream |-> s, ts |-> ts, id |-> id]
  BY DEF Events
<1>12. e.stream = s /\ e.ts = ts /\ e.id = id
  BY <1>11
<1>13. /\ front' = [front EXCEPT ![s] = e]
       /\ heap' = heap \cup {EntryOf(e)}
       /\ rows' = [rows EXCEPT ![s] = rest]
       /\ last_ts' = [last_ts EXCEPT ![s] = ts]
       /\ last_sequence' = IF s \in Sequenced THEN [last_sequence EXCEPT ![s] = id]
                           ELSE last_sequence
  BY <1>2, <1>6, <1>7, <1>9, <1>11, Zenon DEF Parse
<1>14. Parsed(s, e, n, rest)
  BY <1>2, <1>8, <1>10, <1>12, <1>13, Zenon DEF Parsed
<1>15. Counted(s, e, n)
  BY <1>2, <1>6, <1>7, <1>8, <1>12, ZenonT(30) DEF Parse, Counted
<1> QED
  BY <1>14, <1>15, Zenon

\* What a file gives load_next_file().
LEMMA FileFacts ==
  ASSUME TypeOK, SourceInv, PlaceInv, LoadFile, NEW s \in Streams, s = cur,
         NEW c \in Nat, c = read_cursor[s] + 1,
         NEW fit, fit = ExpectedRows(table[s], paths[s][c].stamp)
  PROVE  /\ c <= landed[s] /\ c \in 1 .. Len(paths[s])
         /\ fit \in Nat
         /\ rows[s] = << >>
         /\ paths[s][c].rows \in Seq(Seq(Fields)) /\ paths[s][c].ok \in BOOLEAN
         /\ read_cursor' = [read_cursor EXCEPT ![s] = c]
         /\ paths[s][c].ok => /\ rows' = [rows EXCEPT ![s] = paths[s][c].rows]
                              /\ stats' = [stats EXCEPT ![s].files_read = @ + 1,
                                                        ![s].rows_expected = @ + fit]
         /\ ~paths[s][c].ok => /\ rows' = rows
                               /\ stats' = [stats EXCEPT ![s].files_failed = @ + 1,
                                                         ![s].rows_expected = @ + fit]
<1>1. pc = "stream" /\ rows[cur] = << >> /\ read_cursor[cur] < landed[cur]
  BY DEF LoadFile
<1>3. read_cursor[s] \in Nat /\ landed[s] \in Nat /\ Len(paths[s]) \in Nat
  BY DEF TypeOK, SourceInv
<1>5. c <= landed[s] /\ c \in 1 .. Len(paths[s])
  BY <1>1, <1>3 DEF SourceInv
<1>6. /\ paths[s][c].ok \in BOOLEAN /\ paths[s][c].rows \in Seq(Seq(Fields))
      /\ paths[s][c].stamp \in [y : Nat, m : Nat, d : Nat] /\ table[s].interval.count \in Nat
  BY <1>5 DEF SourceInv
<1>7. ExpectedRows(table[s], paths[s][c].stamp) \in Nat
  <2> DEFINE stamp == paths[s][c].stamp
             unit == table[s].interval.unit
             width == IntervalSeconds(table[s].interval)
             days == IF stamp.d # 0 THEN 1 ELSE DaysInMonth(stamp.y, stamp.m)
             k == CASE unit = "s" -> 1 [] unit = "m" -> 60 [] unit = "h" -> 3600
                    [] unit = "d" -> 86400 [] unit = "w" -> 604800 [] OTHER -> 0
  <2>1. width \in Nat
    <3>1. k \in Nat
      OBVIOUS
    <3>2. width = table[s].interval.count * k
      BY DEF IntervalSeconds
    <3> HIDE DEF width, k
    <3> QED
      BY <1>6, <3>1, <3>2
  <2>2. days \in Nat
    <3>1. stamp.m \in Nat
      BY <1>6
    <3> HIDE DEF stamp
    <3>2. DaysInMonth(stamp.y, stamp.m) \in Nat
      BY <3>1 DEF DaysInMonth
    <3> QED
      BY <3>2
  <2>3. ExpectedRows(table[s], stamp) = IF width = 0 THEN 0 ELSE (days * 86400) \div width
    BY DEF ExpectedRows
  <2> HIDE DEF width, days, stamp
  <2> QED
    BY <2>1, <2>2, <2>3 DEF stamp
<1>9. read_cursor' = [read_cursor EXCEPT ![s] = c]
  BY DEF LoadFile
<1>10. ASSUME paths[s][c].ok
       PROVE  /\ rows' = [rows EXCEPT ![s] = paths[s][c].rows]
              /\ stats' = [stats EXCEPT ![s].files_read = @ + 1, ![s].rows_expected = @ + fit]
  BY <1>10, Zenon DEF LoadFile, CountFile
<1>11. ASSUME ~paths[s][c].ok
       PROVE  /\ rows' = rows
              /\ stats' = [stats EXCEPT ![s].files_failed = @ + 1, ![s].rows_expected = @ + fit]
  BY <1>11, Zenon DEF LoadFile, CountFile
<1>12. rows[s] = << >>
  BY <1>1
<1>13. paths[s][c].rows \in Seq(Seq(Fields)) /\ paths[s][c].ok \in BOOLEAN
  BY <1>6
<1> QED
  BY <1>5, <1>7, <1>9, <1>10, <1>11, <1>12, <1>13, Zenon

\* A skipped or rejected run of rows.
LEMMA SkipFacts ==
  ASSUME TypeOK, SourceInv, PlaceInv, SkipRow
  PROVE  \E s \in Streams, rest \in Seq(Seq(Fields)) :
            /\ s = cur /\ Len(rows[s]) = 1 + Len(rest)
            /\ rows' = [rows EXCEPT ![s] = rest]
            /\ \/ stats' = [stats EXCEPT ![s].blank_rows = @ + 1]
               \/ stats' = [stats EXCEPT ![s].header_rows = @ + 1]
<1>1. pc = "stream" /\ rows[cur] # << >>
  BY DEF SkipRow
<1>2. PICK s \in Streams : s = cur
  BY <1>1, CurFacts
<1>3. rows[s] \in Seq(Seq(Fields)) /\ rows[s] # << >>
  BY <1>1, <1>2 DEF TypeOK
<1>4. Tail(rows[s]) \in Seq(Seq(Fields)) /\ Len(rows[s]) = 1 + Len(Tail(rows[s]))
  BY <1>3
<1>5. rows' = [rows EXCEPT ![s] = Tail(rows[s])]
  BY <1>2 DEF SkipRow
<1>6. \/ stats' = [stats EXCEPT ![s].blank_rows = @ + 1]
      \/ stats' = [stats EXCEPT ![s].header_rows = @ + 1]
  <2>1. CASE Head(rows[cur]) = << >>
    BY <1>2, <2>1, Zenon DEF SkipRow, Bump
  <2>2. CASE Head(rows[cur]) # << >>
    BY <1>2, <2>2, Zenon DEF SkipRow, Bump
  <2> QED
    BY <2>1, <2>2
<1> QED
  BY <1>2, <1>4, <1>5, <1>6

LEMMA RejectFacts ==
  ASSUME TypeOK, SourceInv, PlaceInv, RejectRows
  PROVE  \E s \in Streams, n \in Nat, rest \in Seq(Seq(Fields)) :
            /\ s = cur /\ n > 0 /\ Len(rows[s]) = n + Len(rest)
            /\ rows' = [rows EXCEPT ![s] = rest]
            /\ stats' = [stats EXCEPT ![s].rows_rejected = @ + n]
<1>1. pc = "stream" /\ rows[cur] # << >>
  BY DEF RejectRows, AtRow
<1>2. PICK s \in Streams : s = cur
  BY <1>1, CurFacts
<1>3. rows[s] \in Seq(Seq(Fields)) /\ rows[s] # << >>
  BY <1>1, <1>2 DEF TypeOK
<1>4. /\ Block \in Seq(Seq(Fields)) /\ Len(Block) \in 1 .. Len(rows[s])
      /\ Rest \in Seq(Seq(Fields)) /\ Len(Rest) = Len(rows[s]) - Len(Block)
  BY <1>2, <1>3, BlockFacts
<1>5. PICK n \in Nat : n = Len(Block) /\ n > 0
  BY <1>4
<1>6. PICK rest \in Seq(Seq(Fields)) : rest = Rest
  BY <1>4
<1>7. Len(rows[s]) = n + Len(rest) /\ Len(rows[s]) \in Nat
  BY <1>3, <1>4, <1>5, <1>6
<1>8. rows' = [rows EXCEPT ![s] = rest]
  BY <1>2, <1>6 DEF RejectRows
<1>9. stats' = [stats EXCEPT ![s].rows_rejected = @ + n]
  BY <1>2, <1>5, Zenon DEF RejectRows, Bump
<1> QED
  BY <1>2, <1>5, <1>7, <1>8, <1>9


\* The next-state relation, one disjunct per action.
LEMMA Steps ==
  ASSUME [Next]_vars
  PROVE  \/ \E s \in Streams : Land(s)
         \/ Call \/ Visit \/ LoadFile \/ SkipRow \/ RejectRows \/ Parse \/ Starved
         \/ AnswerNoData \/ AnswerEof \/ AnswerEvent \/ UNCHANGED vars
BY Zenon DEF Next, Pull, Answer

\* Nobody writes what the worlds fixed.
LEMMA FixedStep ==
  ASSUME [Next]_vars
  PROVE  table' = table /\ paths' = paths
BY Steps, Zenon DEF Land, Call, Visit, LoadFile, SkipRow, RejectRows, Parse, Starved, AnswerNoData,
   AnswerEof, AnswerEvent, vars

\* An entry of the heap is the entry of a stream's front.
LEMMA HeapFacts ==
  ASSUME TypeOK, PlaceInv, NEW top \in heap
  PROVE  /\ top[3] \in Streams /\ front[top[3]] # None /\ front[top[3]] \in Events
         /\ front[top[3]].stream = top[3] /\ top = EntryOf(front[top[3]])
<1>1. PICK s \in Streams : front[s] # None /\ top = EntryOf(front[s])
  BY DEF PlaceInv
<1>2. front[s].stream = s /\ front[s] \in Events
  BY <1>1 DEF PlaceInv, TypeOK
<1>3. top[3] = s
  BY <1>1, <1>2 DEF EntryOf
<1> QED
  BY <1>1, <1>2, <1>3

LEMMA EntryTyped ==
  ASSUME NEW e \in Events
  PROVE  EntryOf(e) \in Int \X {0, 1} \X Streams
BY DEF EntryOf, Events

LEMMA SourceStep ==
  ASSUME TypeOK, SourceInv, PlaceInv, [Next]_vars
  PROVE  SourceInv'
<1>0. table' = table /\ paths' = paths
  BY FixedStep
<1>1. \A s \in Streams : read_cursor[s] \in Nat /\ landed[s] \in Nat /\ Len(paths[s]) \in Nat
  BY DEF TypeOK, SourceInv
<1>2. SUFFICES \A s \in Streams : read_cursor'[s] <= landed'[s] /\ landed'[s] <= Len(paths[s])
  BY <1>0 DEF SourceInv, Streams
<1>3. ASSUME NEW s \in Streams, Land(s)
      PROVE  \A u \in Streams : read_cursor'[u] <= landed'[u] /\ landed'[u] <= Len(paths[u])
  BY <1>1, <1>3 DEF Land, SourceInv, TypeOK, streamVars
<1>4. CASE LoadFile
  <2>1. PICK s \in Streams : s = cur
    BY <1>4, CurFacts DEF LoadFile
  <2>2. PICK c \in Nat : c = read_cursor[s] + 1
    BY <1>1
  <2>3. c <= landed[s] /\ read_cursor' = [read_cursor EXCEPT ![s] = c] /\ landed' = landed
    BY <1>4, <2>1, <2>2, FileFacts DEF LoadFile
  <2> QED
    BY <1>1, <2>3 DEF SourceInv, TypeOK
<1>5. CASE read_cursor' = read_cursor /\ landed' = landed
  BY <1>5 DEF SourceInv
<1>6. \/ \E s \in Streams : Land(s)
      \/ LoadFile
      \/ read_cursor' = read_cursor /\ landed' = landed
  BY Steps, Zenon DEF Call, Visit, SkipRow, RejectRows, Parse, Starved, AnswerNoData,
     AnswerEof, AnswerEvent, vars, streamVars
<1> QED
  BY <1>3, <1>4, <1>5, <1>6

\* Adding to a counter.
LEMMA StatsTyped ==
  ASSUME NEW st \in GapStats, NEW n \in Nat
  PROVE  /\ [st EXCEPT !.files_read = @ + 1, !.rows_expected = @ + n] \in GapStats
         /\ [st EXCEPT !.files_failed = @ + 1, !.rows_expected = @ + n] \in GapStats
         /\ [st EXCEPT !.blank_rows = @ + 1] \in GapStats
         /\ [st EXCEPT !.header_rows = @ + 1] \in GapStats
         /\ [st EXCEPT !.rows_rejected = @ + n] \in GapStats
<1>1. [st EXCEPT !.files_read = @ + 1, !.rows_expected = @ + n] \in GapStats
  <2> DEFINE t == [st EXCEPT !.files_read = @ + 1]
  <2>1. t \in GapStats /\ t.rows_expected = st.rows_expected
    BY DEF GapStats
  <2>2. [st EXCEPT !.files_read = @ + 1, !.rows_expected = @ + n] = [t EXCEPT !.rows_expected = @ + n]
    BY <2>1
  <2> HIDE DEF t
  <2> QED
    BY <2>1, <2>2 DEF GapStats
<1>2. [st EXCEPT !.files_failed = @ + 1, !.rows_expected = @ + n] \in GapStats
  <2> DEFINE t == [st EXCEPT !.files_failed = @ + 1]
  <2>1. t \in GapStats /\ t.rows_expected = st.rows_expected
    BY DEF GapStats
  <2>2. [st EXCEPT !.files_failed = @ + 1, !.rows_expected = @ + n] = [t EXCEPT !.rows_expected = @ + n]
    BY <2>1
  <2> HIDE DEF t
  <2> QED
    BY <2>1, <2>2 DEF GapStats
<1>3. [st EXCEPT !.blank_rows = @ + 1] \in GapStats
  BY DEF GapStats
<1>4. [st EXCEPT !.header_rows = @ + 1] \in GapStats
  BY DEF GapStats
<1>5. [st EXCEPT !.rows_rejected = @ + n] \in GapStats
  BY DEF GapStats
<1> QED
  BY <1>1, <1>2, <1>3, <1>4, <1>5


LEMMA ParsedStats ==
  ASSUME NEW st \in GapStats, NEW n \in Nat, NEW a \in Nat, NEW b \in Nat, NEW g \in Nat
  PROVE  [st EXCEPT !.rows_parsed = @ + n, !.backwards_stamps = @ + a,
                    !.repeated_stamps = @ + b, !.sequence_gaps = @ + g] \in GapStats
<1> DEFINE t == [st EXCEPT !.rows_parsed = @ + n]
           u == [t EXCEPT !.backwards_stamps = @ + a]
           v == [u EXCEPT !.repeated_stamps = @ + b]
           w == [v EXCEPT !.sequence_gaps = @ + g]
<1>1. /\ t \in GapStats /\ t.backwards_stamps = st.backwards_stamps
      /\ t.repeated_stamps = st.repeated_stamps /\ t.sequence_gaps = st.sequence_gaps
  BY DEF GapStats
<1>2. /\ u \in GapStats /\ u.repeated_stamps = st.repeated_stamps
      /\ u.sequence_gaps = st.sequence_gaps
  <2> HIDE DEF t
  <2> QED
    BY <1>1 DEF GapStats
<1>3. v \in GapStats /\ v.sequence_gaps = st.sequence_gaps
  <2> HIDE DEF u
  <2> QED
    BY <1>2 DEF GapStats
<1>4. w \in GapStats
  <2> HIDE DEF v
  <2> QED
    BY <1>3 DEF GapStats
<1>5. w = [st EXCEPT !.rows_parsed = @ + n, !.backwards_stamps = @ + a,
                     !.repeated_stamps = @ + b, !.sequence_gaps = @ + g]
  BY <1>1, <1>2, <1>3
<1> QED
  BY <1>4, <1>5

LEMMA StatsStep ==
  ASSUME TypeOK, SourceInv, PlaceInv, [Next]_vars
  PROVE  stats' \in [Streams -> GapStats]
<1>0. \A s \in Streams : stats[s] \in GapStats
  BY DEF TypeOK
<1>1. ASSUME NEW s \in Streams, NEW st \in GapStats, stats' = [stats EXCEPT ![s] = st]
      PROVE  stats' \in [Streams -> GapStats]
  BY <1>1 DEF TypeOK
<1>2. CASE LoadFile
  <2>1. PICK s \in Streams : s = cur
    BY <1>2, CurFacts DEF LoadFile
  <2>2. PICK c \in Nat : c = read_cursor[s] + 1
    BY DEF TypeOK
  <2>3. PICK fit : fit = ExpectedRows(table[s], paths[s][c].stamp)
    OBVIOUS
  <2>4. fit \in Nat /\ paths[s][c].ok \in BOOLEAN
    BY <1>2, <2>1, <2>2, <2>3, FileFacts
  <2>5. \/ stats' = [stats EXCEPT ![s].files_read = @ + 1, ![s].rows_expected = @ + fit]
        \/ stats' = [stats EXCEPT ![s].files_failed = @ + 1, ![s].rows_expected = @ + fit]
    BY <1>2, <2>1, <2>2, <2>3, <2>4, FileFacts
  <2>6. \/ stats' = [stats EXCEPT ![s] = [stats[s] EXCEPT !.files_read = @ + 1, !.rows_expected = @ + fit]]
        \/ stats' = [stats EXCEPT ![s] = [stats[s] EXCEPT !.files_failed = @ + 1, !.rows_expected = @ + fit]]
    BY <2>5 DEF TypeOK
  <2> QED
    BY <1>0, <1>1, <2>4, <2>6, StatsTyped
<1>3. CASE SkipRow
  <2>1. PICK s \in Streams, rest \in Seq(Seq(Fields)) :
            /\ \/ stats' = [stats EXCEPT ![s].blank_rows = @ + 1]
               \/ stats' = [stats EXCEPT ![s].header_rows = @ + 1]
    BY <1>3, SkipFacts
  <2>2. \/ stats' = [stats EXCEPT ![s] = [stats[s] EXCEPT !.blank_rows = @ + 1]]
        \/ stats' = [stats EXCEPT ![s] = [stats[s] EXCEPT !.header_rows = @ + 1]]
    BY <2>1 DEF TypeOK
  <2> QED
    BY <1>0, <1>1, <2>2, StatsTyped
<1>4. CASE RejectRows
  <2>1. PICK s \in Streams, n \in Nat, rest \in Seq(Seq(Fields)) :
            stats' = [stats EXCEPT ![s].rows_rejected = @ + n]
    BY <1>4, RejectFacts
  <2>2. stats' = [stats EXCEPT ![s] = [stats[s] EXCEPT !.rows_rejected = @ + n]]
    BY <2>1 DEF TypeOK
  <2> QED
    BY <1>0, <1>1, <2>2, StatsTyped
<1>5. CASE Parse
  <2>1. PICK s \in Streams, e \in Events, n \in Nat, rest \in Seq(Seq(Fields)) :
            /\ Parsed(s, e, n, rest)
            /\ Counted(s, e, n)
    BY <1>5, ParsedFacts
  <2>2. PICK a \in Nat : a = IF e.ts < last_ts[s] THEN 1 ELSE 0
    OBVIOUS
  <2>3. PICK b \in Nat : b = IF e.ts = last_ts[s] /\ stats[s].rows_parsed > 0 THEN 1 ELSE 0
    OBVIOUS
  <2>4. PICK g \in Nat : g = IF s \in Sequenced /\ Breaks(s, e.id) THEN 1 ELSE 0
    OBVIOUS
  <2>5. stats' = [stats EXCEPT
                  ![s].rows_parsed = @ + n, ![s].backwards_stamps = @ + a,
                  ![s].repeated_stamps = @ + b, ![s].sequence_gaps = @ + g]
    BY <2>1, <2>2, <2>3, <2>4, Zenon DEF Counted
  <2>6. stats' = [stats EXCEPT ![s] = [stats[s] EXCEPT
                  !.rows_parsed = @ + n, !.backwards_stamps = @ + a,
                  !.repeated_stamps = @ + b, !.sequence_gaps = @ + g]]
    BY <2>5 DEF TypeOK
  <2> QED
    BY <1>0, <1>1, <2>6, ParsedStats
<1>6. CASE stats' = stats
  BY <1>6 DEF TypeOK
<1>7. LoadFile \/ SkipRow \/ RejectRows \/ Parse \/ stats' = stats
  BY Steps, Zenon DEF Land, Call, Visit, Starved, AnswerNoData, AnswerEof, AnswerEvent, vars, streamVars
<1> QED
  BY <1>2, <1>3, <1>4, <1>5, <1>6, <1>7


LEMMA TypeStep ==
  ASSUME TypeOK, SourceInv, PlaceInv, [Next]_vars
  PROVE  TypeOK'
<1>0. table' = table /\ Streams' = Streams /\ Events' = Events
  BY FixedStep DEF Streams, Events
<1>1. stats' \in [Streams -> GapStats]
  BY StatsStep
<1>2. Len(pending) \in Nat
  BY DEF TypeOK
<1>3. SUFFICES /\ landed' \in [Streams -> Nat] /\ read_cursor' \in [Streams -> Nat]
               /\ last_ts' \in [Streams -> Int] /\ last_sequence' \in [Streams -> Int \cup {None}]
               /\ rows' \in [Streams -> Seq(Seq(Fields))]
               /\ front' \in [Streams -> Events \cup {None}]
               /\ pending' \in Seq(Streams) /\ heap' \subseteq Int \X {0, 1} \X Streams
               /\ pc' \in {"idle", "walk", "stream", "eof"}
               /\ visit' \in Nat \ {0} /\ waiting' \in BOOLEAN
               /\ pc' \in {"walk", "stream"} => keep' \in 0 .. visit' - 1
               /\ out' \in Seq(Events)
  BY <1>0, <1>1 DEF TypeOK
<1> USE DEF streamVars, walkVars
<1>4. ASSUME NEW s \in Streams, Land(s) PROVE <1>3!1
  BY <1>4 DEF Land, TypeOK
<1>5. CASE Call
  <2>1. waiting' \in BOOLEAN /\ pc' = "walk" /\ visit' = 1 /\ keep' = 0
    BY <1>5, Zenon DEF Call
  <2>2. UNCHANGED <<landed, read_cursor, last_ts, last_sequence, rows, front, pending, heap, out>>
    BY <1>5 DEF Call
  <2> QED
    BY <2>1, <2>2 DEF TypeOK
<1>6. CASE Visit
  <2>1. cur \in Streams
    BY <1>2, <1>6 DEF Visit, TypeOK, cur
  <2>2. front[cur] # None => EntryOf(front[cur]) \in Int \X {0, 1} \X Streams
    BY <2>1, EntryTyped DEF TypeOK
  <2>3. heap' \subseteq Int \X {0, 1} \X Streams
    BY <1>6, <2>2 DEF Visit, TypeOK
  <2>4. visit' \in Nat \ {0} /\ (pc' \in {"walk", "stream"} => keep' \in 0 .. visit' - 1)
    <3>1. keep' = keep /\ (visit' = visit \/ visit' = visit + 1) /\ pc = "walk"
      BY <1>6 DEF Visit
    <3>2. visit \in Nat \ {0} /\ keep \in 0 .. visit - 1
      BY <3>1 DEF TypeOK
    <3> QED
      BY <3>1, <3>2
  <2>5. pc' \in {"idle", "walk", "stream", "eof"}
    BY <1>6 DEF Visit, TypeOK
  <2>6. /\ UNCHANGED <<landed, read_cursor, last_ts, last_sequence, rows, front, pending, waiting, out>>
    BY <1>6 DEF Visit
  <2>7. /\ landed' \in [Streams -> Nat] /\ read_cursor' \in [Streams -> Nat]
        /\ last_ts' \in [Streams -> Int] /\ last_sequence' \in [Streams -> Int \cup {None}]
        /\ rows' \in [Streams -> Seq(Seq(Fields))]
        /\ front' \in [Streams -> Events \cup {None}]
        /\ pending' \in Seq(Streams) /\ waiting' \in BOOLEAN /\ out' \in Seq(Events)
    BY <2>6 DEF TypeOK
  <2> QED
    BY <2>3, <2>4, <2>5, <2>7, Zenon
<1>7. CASE LoadFile
  <2>1. PICK s \in Streams : s = cur
    BY <1>7, CurFacts DEF LoadFile
  <2>2. PICK c \in Nat : c = read_cursor[s] + 1
    BY DEF TypeOK
  <2>3. /\ read_cursor' = [read_cursor EXCEPT ![s] = c]
        /\ rows' = rows \/ rows' = [rows EXCEPT ![s] = paths[s][c].rows]
        /\ paths[s][c].rows \in Seq(Seq(Fields))
    BY <1>7, <2>1, <2>2, FileFacts, ZenonT(30)
  <2>4. read_cursor' \in [Streams -> Nat] /\ rows' \in [Streams -> Seq(Seq(Fields))]
    BY <2>3 DEF TypeOK
  <2> QED
    BY <1>7, <2>4 DEF LoadFile, TypeOK
<1>8. CASE SkipRow
  <2>1. PICK s \in Streams, rest \in Seq(Seq(Fields)) : rows' = [rows EXCEPT ![s] = rest]
    BY <1>8, SkipFacts
  <2>2. rows' \in [Streams -> Seq(Seq(Fields))]
    BY <2>1 DEF TypeOK
  <2> QED
    BY <1>8, <2>2 DEF SkipRow, TypeOK
<1>9. CASE RejectRows
  <2>1. PICK s \in Streams, n \in Nat, rest \in Seq(Seq(Fields)) : rows' = [rows EXCEPT ![s] = rest]
    BY <1>9, RejectFacts
  <2>2. rows' \in [Streams -> Seq(Seq(Fields))]
    BY <2>1 DEF TypeOK
  <2> QED
    BY <1>9, <2>2 DEF RejectRows, TypeOK
<1>10. CASE Parse
  <2>1. PICK s \in Streams, e \in Events, n \in Nat, rest \in Seq(Seq(Fields)) :
            Parsed(s, e, n, rest) /\ Counted(s, e, n)
    BY <1>10, ParsedFacts
  <2>2. rows' \in [Streams -> Seq(Seq(Fields))] /\ front' \in [Streams -> Events \cup {None}]
    BY <2>1 DEF TypeOK, Parsed
  <2>3. heap' \subseteq Int \X {0, 1} \X Streams
    BY <2>1, EntryTyped DEF TypeOK, Parsed
  <2>4. e.ts \in Int /\ e.id \in Int
    BY DEF Events
  <2>5. last_ts' \in [Streams -> Int] /\ last_sequence' \in [Streams -> Int \cup {None}]
    BY <2>1, <2>4 DEF TypeOK, Parsed
  <2>6. visit' \in Nat \ {0} /\ (pc' \in {"walk", "stream"} => keep' \in 0 .. visit' - 1)
    BY <1>10 DEF Parse, AtRow, TypeOK
  <2> QED
    BY <1>10, <2>2, <2>3, <2>5, <2>6 DEF Parse, TypeOK
<1>11. CASE Starved
  <2>1. cur \in Streams
    BY <1>11, CurFacts DEF Starved
  <2>2. keep \in 0 .. visit - 1 /\ visit \in 1 .. Len(pending)
    BY <1>11, CurFacts DEF Starved, TypeOK
  <2>3. pending' \in Seq(Streams)
    <3>1. CASE Finished(cur)
      BY <1>11, <3>1 DEF Starved, TypeOK
    <3>2. CASE ~Finished(cur)
      <4>1. pending' = [pending EXCEPT ![keep + 1] = cur] /\ pending \in Seq(Streams)
        BY <1>11, <3>2 DEF Starved, TypeOK
      <4> QED
        BY <1>2, <2>1, <2>2, <4>1
    <3> QED
      BY <3>1, <3>2
  <2>4. visit' \in Nat \ {0} /\ keep' \in 0 .. visit' - 1
    <3>1. keep' = keep \/ keep' = keep + 1
      BY <1>11 DEF Starved
    <3> QED
      BY <1>11, <2>2, <3>1 DEF Starved
  <2>5. waiting' \in BOOLEAN
    BY <1>11, Zenon DEF Starved, TypeOK
  <2> QED
    BY <1>11, <2>3, <2>4, <2>5 DEF Starved, TypeOK
<1>12. ASSUME AnswerNoData \/ AnswerEof \/ AnswerEvent
       PROVE  /\ keep \in 0 .. Len(pending) /\ SubSeq(pending, 1, keep) \in Seq(Streams)
              /\ waiting' = waiting /\ visit' = visit
  <2>1. keep \in 0 .. visit - 1 /\ visit \in Nat /\ visit <= Len(pending) + 1
    BY <1>12 DEF AnswerNoData, AnswerEof, AnswerEvent, Walked, TypeOK, PlaceInv, Walking
  <2>2. keep \in 0 .. Len(pending)
    BY <1>2, <2>1
  <2>3. SubSeq(pending, 1, keep) \in Seq(Streams)
    BY <1>2, <2>2 DEF TypeOK
  <2>4. waiting' = waiting /\ visit' = visit
    BY <1>12 DEF AnswerNoData, AnswerEof, AnswerEvent
  <2> QED
    BY <2>2, <2>3, <2>4
<1>13. CASE AnswerNoData
  BY <1>12, <1>13 DEF AnswerNoData, TypeOK
<1>14. CASE AnswerEof
  BY <1>12, <1>14 DEF AnswerEof, TypeOK
<1>15. CASE AnswerEvent
  <2>1. PICK top \in heap : /\ heap' = heap \ {top}
                            /\ pending' = Append(SubSeq(pending, 1, keep), top[3])
                            /\ out' = Append(out, front[top[3]])
                            /\ front' = [front EXCEPT ![top[3]] = None]
    BY <1>15 DEF AnswerEvent
  <2>2. top[3] \in Streams /\ front[top[3]] \in Events
    BY HeapFacts
  <2>3. pending' \in Seq(Streams) /\ out' \in Seq(Events)
    BY <1>12, <1>15, <2>1, <2>2 DEF TypeOK
  <2>4. front' \in [Streams -> Events \cup {None}] /\ heap' \subseteq Int \X {0, 1} \X Streams
    BY <2>1, <2>2 DEF TypeOK
  <2> QED
    BY <1>12, <1>15, <2>3, <2>4 DEF AnswerEvent, TypeOK
<1>16. CASE UNCHANGED vars
  BY <1>16 DEF vars, TypeOK
<1> QED
  BY <1>4, <1>5, <1>6, <1>7, <1>8, <1>9, <1>10, <1>11, <1>13, <1>14, <1>15, <1>16, Steps

-----------------------------------------------------------------------------
(* Every stream in one place.                                              *)

\* A step that leaves the walk and the fronts alone.
LEMMA PlaceKept ==
  ASSUME TypeOK, SourceInv, PlaceInv, [Next]_vars,
         UNCHANGED <<front, pending, heap, pc, visit, keep, waiting>>,
         \A u \in Streams : Finished(u) => Finished(u)' \/ (pc = "stream" /\ u = cur)
  PROVE  PlaceInv'
<1>0. table' = table /\ Streams' = Streams /\ Bars' = Bars /\ Live' = Live /\ (Walking' <=> Walking)
  BY FixedStep DEF Streams, Bars, Live, Walking
<1>1. ASSUME NEW u \in Streams
      PROVE  front'[u] # None \/ Finished(u)' \/ \E i \in Live' : pending'[i] = u
  <2>1. CASE Finished(u)'
    BY <2>1
  <2>2. CASE ~Finished(u) /\ ~Finished(u)'
    BY <1>0, <2>2 DEF PlaceInv
  <2>3. CASE pc = "stream" /\ u = cur
    BY <1>0, <2>3, CurFacts DEF cur
  <2> QED
    BY <2>1, <2>2, <2>3
<1>2. pc' = "eof" => \A u \in Streams : front'[u] = None /\ Finished(u)'
  BY DEF PlaceInv
<1>3. /\ Walking' => visit' <= Len(pending') + 1 /\ (waiting' <=> keep' > 0)
      /\ pc' = "stream" => visit' <= Len(pending')
      /\ \A i, j \in Live' : pending'[i] = pending'[j] => i = j
      /\ \A i \in Live' : front'[pending'[i]] = None
      /\ \A s \in Streams : front'[s] # None => front'[s].stream = s
  BY <1>0 DEF PlaceInv
<1>4. heap' = {EntryOf(front[s])' : s \in {u \in Streams : front'[u] # None}}
  BY <1>0 DEF PlaceInv, EntryOf
<1> QED
  BY <1>0, <1>1, <1>2, <1>3, <1>4 DEF PlaceInv


\* The stream visited leaves the live entries with an event.
LEMMA PlaceParse ==
  ASSUME TypeOK, SourceInv, PlaceInv, Parse
  PROVE  PlaceInv'
<1>0. pc = "stream" /\ pc' = "walk" /\ visit' = visit + 1 /\ keep' = keep
      /\ table' = table /\ paths' = paths /\ pending' = pending /\ waiting' = waiting
      /\ read_cursor' = read_cursor
  BY DEF Parse, AtRow
<1>1. Streams' = Streams /\ Bars' = Bars
  BY <1>0 DEF Streams, Bars
<1>2. PICK s \in Streams, e \in Events, n \in Nat, rest \in Seq(Seq(Fields)) :
          Parsed(s, e, n, rest) /\ Counted(s, e, n)
  BY ParsedFacts
<1>3. /\ Len(pending) \in Nat /\ visit \in 1 .. Len(pending) /\ visit \in Live /\ front[s] = None
      /\ s = pending[visit] /\ keep \in 0 .. visit - 1
  BY <1>0, <1>2, CurFacts DEF Parsed, cur, TypeOK
<1>4. Live' = Live \ {visit} /\ Walking' /\ Walking
  BY <1>0, <1>3 DEF Live, Walking
<1>5. \A i \in Live' : pending[i] # s
  BY <1>3, <1>4 DEF PlaceInv
<1>6. /\ front'[s] = e /\ e.stream = s /\ e # None
      /\ \A u \in Streams : u # s => front'[u] = front[u] /\ rows'[u] = rows[u]
  <2>1. e \in [stream : Nat, ts : Int, id : Int]
    BY <1>2 DEF Events, Streams, SourceInv
  <2>2. e # None
    BY <2>1, SourceAssumption
  <2> QED
    BY <1>2, <2>2 DEF Parsed, TypeOK
<1>7. ASSUME NEW u \in Streams
      PROVE  front'[u] # None \/ Finished(u)' \/ \E i \in Live' : pending'[i] = u
  <2>1. CASE u = s
    BY <1>6, <2>1
  <2>2. CASE u # s
    <3>1. Finished(u)' <=> Finished(u)
      BY <1>0, <1>6, <2>2 DEF Finished
    <3>2. (\E i \in Live : pending[i] = u) => \E i \in Live' : pending'[i] = u
      BY <1>0, <1>3, <1>4, <2>2
    <3> QED
      BY <1>6, <2>2, <3>1, <3>2 DEF PlaceInv
  <2> QED
    BY <2>1, <2>2
<1>8. /\ Walking' => visit' <= Len(pending') + 1 /\ (waiting' <=> keep' > 0)
      /\ pc' = "stream" => visit' <= Len(pending')
      /\ pc' # "eof"
  BY <1>0, <1>3, <1>4 DEF PlaceInv
<1>9. \A i, j \in Live' : pending'[i] = pending'[j] => i = j
  BY <1>0, <1>4 DEF PlaceInv
<1>10. \A i \in Live' : front'[pending'[i]] = None
  <2> SUFFICES ASSUME NEW i \in Live' PROVE front'[pending[i]] = None
    BY <1>0
  <2>1. pending[i] \in Streams
    <3>1. Live \subseteq 1 .. Len(pending)
      BY <1>3, <1>4 DEF Live
    <3> QED
      BY <1>3, <1>4, <3>1 DEF TypeOK
  <2> QED
    BY <1>4, <1>5, <1>6, <2>1 DEF PlaceInv
<1>11. \A u \in Streams : front'[u] # None => front'[u].stream = u
  BY <1>6 DEF PlaceInv
<1>12. heap' = {EntryOf(front[u])' : u \in {w \in Streams : front'[w] # None}}
  <2>1. \A u \in Streams : EntryOf(front[u])' = EntryOf(front'[u])
    BY <1>1 DEF EntryOf
  <2>2. heap' = heap \cup {EntryOf(front'[s])}
    BY <1>2, <1>6 DEF Parsed
  <2>3. \A u \in Streams : u # s => EntryOf(front'[u]) = EntryOf(front[u])
    BY <1>6
  <2>4. ASSUME NEW x \in heap' PROVE \E u \in Streams : front'[u] # None /\ x = EntryOf(front'[u])
    <3>1. CASE x = EntryOf(front'[s])
      BY <1>6, <3>1
    <3>2. CASE x \in heap
      <4>1. PICK u \in Streams : front[u] # None /\ x = EntryOf(front[u])
        BY <3>2 DEF PlaceInv
      <4> QED
        BY <1>3, <1>6, <2>3, <4>1
    <3> QED
      BY <2>2, <2>4, <3>1, <3>2
  <2>5. ASSUME NEW u \in Streams, front'[u] # None PROVE EntryOf(front'[u]) \in heap'
    BY <1>3, <1>6, <2>2, <2>3, <2>5 DEF PlaceInv
  <2> QED
    BY <2>1, <2>4, <2>5
<1> QED
  BY <1>1, <1>7, <1>8, <1>9, <1>10, <1>11, <1>12 DEF PlaceInv

\* The stream visited is finished, or moves to the end of the kept ones.
LEMMA PlaceStarved ==
  ASSUME TypeOK, SourceInv, PlaceInv, Starved
  PROVE  PlaceInv'
<1>0. pc = "stream" /\ pc' = "walk" /\ visit' = visit + 1
      /\ table' = table /\ paths' = paths /\ front' = front /\ heap' = heap
      /\ read_cursor' = read_cursor /\ rows' = rows
  BY DEF Starved, streamVars
<1>1. Streams' = Streams /\ Bars' = Bars /\ \A u \in Streams : Finished(u)' <=> Finished(u)
  BY <1>0 DEF Streams, Bars, Finished
<1>2. PICK s \in Streams : s = cur
  BY <1>0, CurFacts
<1>3. /\ Len(pending) \in Nat /\ visit \in 1 .. Len(pending) /\ visit \in Live /\ front[s] = None
      /\ s = pending[visit] /\ keep \in 0 .. visit - 1
  BY <1>0, <1>2, CurFacts DEF cur, TypeOK
<1>4. Walking' /\ Walking
  BY <1>0 DEF Walking
<1>5. heap' = {EntryOf(front[u])' : u \in {w \in Streams : front'[w] # None}}
  BY <1>0, <1>1 DEF PlaceInv, EntryOf
<1>6. \A u \in Streams : front'[u] # None => front'[u].stream = u
  BY <1>0 DEF PlaceInv
<1>7. CASE Finished(cur)
  <2>1. pending' = pending /\ keep' = keep /\ waiting' = waiting
    BY <1>7 DEF Starved
  <2>2. Live' = Live \ {visit}
    BY <1>0, <1>3, <1>4, <2>1 DEF Live
  <2>3. \A u \in Streams : front'[u] # None \/ Finished(u)' \/ \E i \in Live' : pending'[i] = u
    BY <1>0, <1>1, <1>2, <1>3, <1>7, <2>1, <2>2 DEF PlaceInv
  <2>4. /\ Walking' => visit' <= Len(pending') + 1 /\ (waiting' <=> keep' > 0)
        /\ pc' = "stream" => visit' <= Len(pending')
        /\ pc' # "eof"
    BY <1>0, <1>3, <1>4, <2>1 DEF PlaceInv
  <2>5. /\ \A i, j \in Live' : pending'[i] = pending'[j] => i = j
        /\ \A i \in Live' : front'[pending'[i]] = None
    BY <1>0, <2>1, <2>2 DEF PlaceInv
  <2> QED
    BY <1>1, <1>5, <1>6, <2>3, <2>4, <2>5 DEF PlaceInv
<1>8. CASE ~Finished(cur)
  <2>1. pending' = [pending EXCEPT ![keep + 1] = s] /\ keep' = keep + 1 /\ waiting'
    BY <1>2, <1>8 DEF Starved
  <2>2. pending \in Seq(Streams) /\ keep + 1 \in 1 .. Len(pending)
    BY <1>3 DEF TypeOK
  <2>3. /\ Len(pending') = Len(pending) /\ pending'[keep + 1] = s
        /\ \A i \in 1 .. Len(pending) : i # keep + 1 => pending'[i] = pending[i]
    BY <2>1, <2>2
  <2>4. Live' = (Live \ {visit}) \cup {keep + 1} /\ keep + 1 \notin Live \ {visit}
        /\ Live \subseteq 1 .. Len(pending)
    BY <1>0, <1>3, <1>4, <2>1, <2>3 DEF Live
  <2>5. \A i \in Live \ {visit} : pending'[i] = pending[i] /\ pending[i] # s
    BY <1>3, <2>3, <2>4 DEF PlaceInv
  <2>6. \A i, j \in Live' : pending'[i] = pending'[j] => i = j
    BY <2>3, <2>4, <2>5 DEF PlaceInv
  <2>7. \A i \in Live' : front'[pending'[i]] = None
    BY <1>0, <1>3, <2>3, <2>4, <2>5 DEF PlaceInv
  <2>8. ASSUME NEW u \in Streams
        PROVE  front'[u] # None \/ Finished(u)' \/ \E i \in Live' : pending'[i] = u
    <3>1. CASE u = s
      BY <2>3, <2>4, <3>1
    <3>2. CASE u # s
      <4>1. (\E i \in Live : pending[i] = u) => \E i \in Live' : pending'[i] = u
        BY <1>3, <2>4, <2>5, <3>2
      <4> QED
        BY <1>0, <1>1, <4>1 DEF PlaceInv
    <3> QED
      BY <3>1, <3>2
  <2>9. /\ Walking' => visit' <= Len(pending') + 1 /\ (waiting' <=> keep' > 0)
        /\ pc' = "stream" => visit' <= Len(pending')
        /\ pc' # "eof"
    BY <1>0, <1>3, <1>4, <2>1, <2>3 DEF PlaceInv
  <2> QED
    BY <1>1, <1>5, <1>6, <2>6, <2>7, <2>8, <2>9 DEF PlaceInv
<1> QED
  BY <1>7, <1>8


\* The walk is over: the live entries are those kept.
LEMMA WalkedFacts ==
  ASSUME TypeOK, SourceInv, PlaceInv, Walked
  PROVE  /\ Len(pending) \in Nat /\ keep \in 0 .. Len(pending) /\ Live = 1 .. keep /\ (waiting <=> keep > 0)
         /\ pending \in Seq(Streams)
         /\ SubSeq(pending, 1, keep) \in Seq(Streams) /\ Len(SubSeq(pending, 1, keep)) = keep
         /\ \A i \in 1 .. keep : SubSeq(pending, 1, keep)[i] = pending[i]
<1>1. pending \in Seq(Streams) /\ Len(pending) \in Nat
  BY DEF TypeOK
<1>2. keep \in 0 .. visit - 1 /\ visit \in Nat /\ visit <= Len(pending) + 1 /\ (waiting <=> keep > 0)
  BY DEF Walked, TypeOK, PlaceInv, Walking
<1>3. keep \in 0 .. Len(pending)
  BY <1>1, <1>2
<1>4. Live = 1 .. keep
  BY <1>1, <1>2, <1>3 DEF Live, Walking, Walked
<1>5. SubSeq(pending, 1, keep) \in Seq(Streams) /\ Len(SubSeq(pending, 1, keep)) = keep
  BY <1>1, <1>3
<1>6. \A i \in 1 .. keep : SubSeq(pending, 1, keep)[i] = pending[i]
  BY <1>1, <1>3
<1> QED
  BY <1>1, <1>2, <1>3, <1>4, <1>5, <1>6

\* NoData or Eof: the kept entries stay.
LEMMA PlaceNone ==
  ASSUME TypeOK, SourceInv, PlaceInv, AnswerNoData \/ AnswerEof
  PROVE  PlaceInv'
<1>0. /\ Walked /\ pending' = SubSeq(pending, 1, keep) /\ pc' \in {"idle", "eof"}
      /\ table' = table /\ paths' = paths /\ front' = front /\ heap' = heap
      /\ read_cursor' = read_cursor /\ rows' = rows
      /\ pc' = "eof" => ~waiting /\ heap = {}
  BY DEF AnswerNoData, AnswerEof, MustWait, streamVars
<1>1. Streams' = Streams /\ Bars' = Bars /\ \A u \in Streams : Finished(u)' <=> Finished(u)
  BY <1>0 DEF Streams, Bars, Finished
<1>2. /\ keep \in Nat /\ Live = 1 .. keep /\ (waiting <=> keep > 0) /\ Len(pending') = keep
      /\ \A i \in 1 .. keep : pending'[i] = pending[i]
  BY <1>0, WalkedFacts
<1>3. Live' = Live /\ ~Walking' /\ pc' # "stream"
  BY <1>0, <1>2 DEF Live, Walking
<1>4. /\ \A i, j \in Live' : pending'[i] = pending'[j] => i = j
      /\ \A i \in Live' : front'[pending'[i]] = None
  BY <1>0, <1>2, <1>3 DEF PlaceInv
<1>5. heap' = {EntryOf(front[u])' : u \in {w \in Streams : front'[w] # None}}
  BY <1>0, <1>1 DEF PlaceInv, EntryOf
<1>6. \A u \in Streams : front'[u] # None => front'[u].stream = u
  BY <1>0 DEF PlaceInv
<1>7. \A u \in Streams : front'[u] # None \/ Finished(u)' \/ \E i \in Live' : pending'[i] = u
  BY <1>0, <1>1, <1>2, <1>3 DEF PlaceInv
<1>8. ASSUME pc' = "eof", NEW u \in Streams PROVE front'[u] = None /\ Finished(u)'
  <2>1. Live = {} /\ heap = {}
    BY <1>0, <1>2, <1>8
  <2>2. front[u] = None
    BY <2>1 DEF PlaceInv
  <2> QED
    BY <1>0, <1>1, <2>1, <2>2 DEF PlaceInv
<1> QED
  BY <1>1, <1>3, <1>4, <1>5, <1>6, <1>7, <1>8 DEF PlaceInv

\* An event: nothing was kept, and its stream alone becomes pending.
LEMMA EventFacts ==
  ASSUME TypeOK, SourceInv, PlaceInv, AnswerEvent
  PROVE  \E s \in Streams :
            /\ front[s] # None /\ front[s] \in Events /\ front[s].stream = s
            /\ \A u \in Streams \ {s} : front[u] # None => Before(EntryOf(front[s]), EntryOf(front[u]))
            /\ \A u \in Streams : front[u] = None => Finished(u)
            /\ heap' = heap \ {EntryOf(front[s])}
            /\ pending' \in Seq(Streams) /\ Len(pending') = 1 /\ pending'[1] = s
            /\ out' = Append(out, front[s])
            /\ front' = [front EXCEPT ![s] = None]
<1>0. Walked /\ ~waiting
  BY DEF AnswerEvent, MustWait
<1>1. PICK top \in heap : /\ \A other \in heap \ {top} : Before(top, other)
                          /\ heap' = heap \ {top}
                          /\ pending' = Append(SubSeq(pending, 1, keep), top[3])
                          /\ out' = Append(out, front[top[3]])
                          /\ front' = [front EXCEPT ![top[3]] = None]
  BY DEF AnswerEvent
<1>2. PICK s \in Streams : s = top[3] /\ front[s] # None /\ front[s] \in Events /\ front[s].stream = s
                           /\ top = EntryOf(front[s])
  BY HeapFacts
<1>3. keep = 0 /\ Live = {} /\ SubSeq(pending, 1, keep) \in Seq(Streams) /\ Len(SubSeq(pending, 1, keep)) = 0
  BY <1>0, WalkedFacts
<1>4. pending' \in Seq(Streams) /\ Len(pending') = 1 /\ pending'[1] = s
  BY <1>1, <1>2, <1>3
<1>5. ASSUME NEW u \in Streams \ {s}, front[u] # None PROVE Before(EntryOf(front[s]), EntryOf(front[u]))
  <2>1. EntryOf(front[u]) \in heap /\ front[u].stream = u
    BY <1>5 DEF PlaceInv
  <2>2. EntryOf(front[u])[3] = u /\ EntryOf(front[s])[3] = s
    BY <1>2, <2>1 DEF EntryOf
  <2> QED
    BY <1>1, <1>2, <2>1, <2>2
<1>6. \A u \in Streams : front[u] = None => Finished(u)
  BY <1>3 DEF PlaceInv
<1> QED
  BY <1>1, <1>2, <1>4, <1>5, <1>6

LEMMA PlaceEvent ==
  ASSUME TypeOK, SourceInv, PlaceInv, AnswerEvent
  PROVE  PlaceInv'
<1>0. /\ pc' = "idle" /\ table' = table /\ paths' = paths
      /\ read_cursor' = read_cursor /\ rows' = rows
  BY DEF AnswerEvent, streamVars
<1>1. Streams' = Streams /\ Bars' = Bars /\ \A u \in Streams : Finished(u)' <=> Finished(u)
  BY <1>0 DEF Streams, Bars, Finished
<1>2. PICK s \in Streams :
            /\ front[s] # None /\ front[s] \in Events /\ front[s].stream = s
            /\ \A u \in Streams \ {s} : front[u] # None => Before(EntryOf(front[s]), EntryOf(front[u]))
            /\ \A u \in Streams : front[u] = None => Finished(u)
            /\ heap' = heap \ {EntryOf(front[s])}
            /\ pending' \in Seq(Streams) /\ Len(pending') = 1 /\ pending'[1] = s
            /\ out' = Append(out, front[s])
            /\ front' = [front EXCEPT ![s] = None]
  BY EventFacts
<1>3. front'[s] = None /\ \A u \in Streams : u # s => front'[u] = front[u]
  BY <1>2 DEF TypeOK
<1>4. Live' = {1} /\ ~Walking' /\ pc' # "stream" /\ pc' # "eof"
  BY <1>0, <1>2 DEF Live, Walking
<1>5. /\ \A i, j \in Live' : pending'[i] = pending'[j] => i = j
      /\ \A i \in Live' : front'[pending'[i]] = None
  BY <1>2, <1>3, <1>4
<1>6. \A u \in Streams : front'[u] # None => front'[u].stream = u
  BY <1>3 DEF PlaceInv
<1>7. \A u \in Streams : front'[u] # None \/ Finished(u)' \/ \E i \in Live' : pending'[i] = u
  BY <1>1, <1>2, <1>3, <1>4
<1>8. heap' = {EntryOf(front[u])' : u \in {w \in Streams : front'[w] # None}}
  <2>1. \A u \in Streams : EntryOf(front[u])' = EntryOf(front'[u])
    BY <1>1 DEF EntryOf
  <2>2. \A u \in Streams : u # s => EntryOf(front'[u]) = EntryOf(front[u])
    BY <1>3
  <2>3. ASSUME NEW u \in Streams, u # s, front[u] # None PROVE EntryOf(front[u]) # EntryOf(front[s])
    BY <1>2, <2>3 DEF EntryOf, PlaceInv
  <2>4. ASSUME NEW x \in heap' PROVE \E u \in Streams : front'[u] # None /\ x = EntryOf(front'[u])
    <3>1. PICK u \in Streams : front[u] # None /\ x = EntryOf(front[u])
      BY <1>2, <2>4 DEF PlaceInv
    <3>2. u # s
      BY <1>2, <2>4, <3>1
    <3> QED
      BY <1>3, <2>2, <3>1, <3>2
  <2>5. ASSUME NEW u \in Streams, front'[u] # None PROVE EntryOf(front'[u]) \in heap'
    <3>1. u # s /\ front[u] # None
      BY <1>3, <2>5
    <3>2. EntryOf(front[u]) \in heap
      BY <3>1 DEF PlaceInv
    <3> QED
      BY <1>2, <2>2, <2>3, <3>1, <3>2
  <2> QED
    BY <2>1, <2>4, <2>5
<1> QED
  BY <1>1, <1>4, <1>5, <1>6, <1>7, <1>8 DEF PlaceInv


LEMMA PlaceStep ==
  ASSUME TypeOK, SourceInv, PlaceInv, [Next]_vars
  PROVE  PlaceInv'
<1> USE DEF streamVars, walkVars
<1>1. ASSUME NEW s \in Streams, Land(s) PROVE PlaceInv'
  BY <1>1, PlaceKept DEF Land, Finished
<1>2. CASE UNCHANGED vars
  BY <1>2, PlaceKept DEF vars, Finished
<1>3. CASE LoadFile \/ SkipRow \/ RejectRows
  <2>1. /\ UNCHANGED <<front, pending, heap, pc, visit, keep, waiting>> /\ paths' = paths
        /\ pc = "stream"
    BY <1>3 DEF LoadFile, SkipRow, RejectRows, AtRow
  <2>2. \A u \in Streams : u # cur => rows'[u] = rows[u] /\ read_cursor'[u] = read_cursor[u]
    BY <1>3 DEF LoadFile, SkipRow, RejectRows, TypeOK
  <2>3. \A u \in Streams : Finished(u) => Finished(u)' \/ (pc = "stream" /\ u = cur)
    BY <2>1, <2>2 DEF Finished
  <2> QED
    BY <2>1, <2>3, PlaceKept
<1>4. CASE Call
  <2>1. /\ pc = "idle" /\ pc' = "walk" /\ visit' = 1 /\ keep' = 0 /\ ~waiting'
        /\ UNCHANGED <<table, paths, read_cursor, rows, front, pending, heap>>
    BY <1>4 DEF Call
  <2>2. Streams' = Streams /\ Bars' = Bars /\ \A u \in Streams : Finished(u)' <=> Finished(u)
    BY <2>1 DEF Streams, Bars, Finished
  <2>3. Len(pending) \in Nat
    BY DEF TypeOK
  <2>4. Live' = Live /\ pc' # "eof" /\ pc' # "stream"
    BY <2>1, <2>3 DEF Live, Walking
  <2>5. heap' = {EntryOf(front[u])' : u \in {w \in Streams : front'[w] # None}}
    BY <2>1, <2>2 DEF PlaceInv, EntryOf
  <2>6. Walking' => visit' <= Len(pending') + 1 /\ (waiting' <=> keep' > 0)
    BY <2>1, <2>3
  <2>7. /\ \A i, j \in Live' : pending'[i] = pending'[j] => i = j
        /\ \A i \in Live' : front'[pending'[i]] = None
        /\ \A s \in Streams : front'[s] # None => front'[s].stream = s
        /\ \A s \in Streams : front'[s] # None \/ Finished(s)' \/ \E i \in Live' : pending'[i] = s
    BY <2>1, <2>2, <2>4 DEF PlaceInv
  <2> QED
    BY <2>2, <2>4, <2>5, <2>6, <2>7 DEF PlaceInv
<1>5. CASE Visit
  <2>1. pc = "walk" /\ visit \in 1 .. Len(pending) /\ Len(pending) \in Nat /\ table' = table
    BY <1>5 DEF Visit, TypeOK
  <2>2. visit \in Live
    BY <2>1 DEF Live, Walking
  <2>3. front[cur] = None
    BY <2>2 DEF PlaceInv, cur
  <2>4. /\ pc' = "stream"
        /\ UNCHANGED <<table, paths, read_cursor, rows, front, pending, heap, visit, keep, waiting>>
    BY <1>5, <2>3 DEF Visit
  <2>5. Streams' = Streams /\ Bars' = Bars /\ \A u \in Streams : Finished(u)' <=> Finished(u)
    BY <2>4 DEF Streams, Bars, Finished
  <2>6. Live' = Live /\ Walking
    BY <2>1, <2>4 DEF Live, Walking
  <2>7. heap' = {EntryOf(front[u])' : u \in {w \in Streams : front'[w] # None}}
    BY <2>4, <2>5 DEF PlaceInv, EntryOf
  <2>8. /\ visit' <= Len(pending') + 1 /\ (waiting' <=> keep' > 0) /\ visit' <= Len(pending')
    BY <2>1, <2>4, <2>6 DEF PlaceInv
  <2>9. /\ \A i, j \in Live' : pending'[i] = pending'[j] => i = j
        /\ \A i \in Live' : front'[pending'[i]] = None
        /\ \A s \in Streams : front'[s] # None => front'[s].stream = s
        /\ \A s \in Streams : front'[s] # None \/ Finished(s)' \/ \E i \in Live' : pending'[i] = s
    BY <2>4, <2>5, <2>6 DEF PlaceInv
  <2> QED
    BY <2>4, <2>5, <2>7, <2>8, <2>9 DEF PlaceInv
<1> QED
  BY <1>1, <1>2, <1>3, <1>4, <1>5, PlaceParse, PlaceStarved, PlaceNone, PlaceEvent, Steps

\* The constructor's streams are all pending.
LEMMA InitFacts ==
  ASSUME Init
  PROVE  /\ TypeOK /\ SourceInv /\ PlaceInv
<1>1. PICK w \in Worlds :
        /\ table = StreamTable(w.universe)
        /\ paths = [s \in Streams |-> Plan(Listed(w.bucket, Prefix(table[s])), From, To)]
  BY DEF Init
<1>2. Len(table) \in Nat
  BY <1>1, WorldsAssumption
<1>3. ASSUME NEW s \in Streams
      PROVE  /\ table[s].interval.count \in Nat /\ Len(paths[s]) \in Nat
             /\ \A i \in 1 .. Len(paths[s]) :
                  /\ paths[s][i].ok \in BOOLEAN /\ paths[s][i].rows \in Seq(Seq(Fields))
                  /\ paths[s][i].stamp \in [y : Nat, m : Nat, d : Nat]
  <2>1. s \in 1 .. Len(StreamTable(w.universe))
    BY <1>1 DEF Streams
  <2>2. paths[s] = Plan(Listed(w.bucket, Prefix(StreamTable(w.universe)[s])), From, To)
    BY <1>1
  <2> QED
    BY <1>1, <2>1, <2>2, WorldsAssumption
<1>4. /\ landed = [s \in Streams |-> 0] /\ read_cursor = [s \in Streams |-> 0]
      /\ rows = [s \in Streams |-> << >>] /\ last_ts = [s \in Streams |-> 0]
      /\ last_sequence = [s \in Streams |-> None] /\ front = [s \in Streams |-> None]
      /\ pending = [i \in Streams |-> i] /\ heap = {} /\ pc = "idle" /\ visit = 1
      /\ out = << >>
  BY DEF Init
<1>5. SourceInv
  BY <1>2, <1>3, <1>4 DEF SourceInv
<1>6. pending \in Seq(Streams) /\ Len(pending) = Len(table)
  BY <1>2, <1>4 DEF Streams
<1>7. TypeOK
  <2>1. waiting \in BOOLEAN
    BY Zenon DEF Init
  <2>2. stats \in [Streams -> GapStats]
    BY <1>3 DEF Init, GapStats, NoStats
  <2>3. << >> \in Seq(Seq(Fields)) /\ << >> \in Seq(Events)
    OBVIOUS
  <2> QED
    BY <1>4, <1>6, <2>1, <2>2, <2>3 DEF TypeOK
<1>8. PlaceInv
  <2>1. Live = Streams /\ ~Walking /\ pc # "stream" /\ pc # "eof"
    BY <1>2, <1>4, <1>6 DEF Live, Walking, Streams
  <2> QED
    BY <1>4, <2>1 DEF PlaceInv
<1> QED
  BY <1>5, <1>7, <1>8

\* A stream is in one place when a call returns.
LEMMA PlaceImpliesOnePlace ==
  ASSUME TypeOK, SourceInv, PlaceInv
  PROVE  OnePlace
<1>1. ASSUME pc = "eof" PROVE heap = {} /\ \A s \in Streams : Finished(s)
  BY <1>1 DEF PlaceInv
<1>2. ASSUME pc \in {"idle", "eof"}, NEW s \in Streams
      PROVE  /\ Cardinality(InHeap(s)) + Cardinality(InPending(s)) <= 1
             /\ InHeap(s) = {} /\ InPending(s) = {} => Finished(s)
             /\ InHeap(s) # {} <=> front[s] # None
  <2>1. Live = 1 .. Len(pending)
    BY <1>2 DEF Live, Walking
  <2>2. \A i, j \in InPending(s) : i = j
    BY <2>1 DEF PlaceInv, InPending
  <2>3. CASE front[s] # None
    <3>1. InHeap(s) = {EntryOf(front[s])}
      <4>1. EntryOf(front[s]) \in heap /\ EntryOf(front[s])[3] = s
        BY <2>3 DEF PlaceInv, EntryOf
      <4>2. \A t \in heap : t[3] = s => t = EntryOf(front[s])
        BY HeapFacts
      <4> QED
        BY <4>1, <4>2 DEF InHeap
    <3>2. InPending(s) = {}
      BY <2>1, <2>3 DEF PlaceInv, InPending
    <3>3. Cardinality(InHeap(s)) = 1 /\ Cardinality(InPending(s)) = 0
      BY <3>1, <3>2, FS_Singleton, FS_EmptySet
    <3> QED
      BY <2>3, <3>1, <3>3
  <2>4. CASE front[s] = None
    <3>1. InHeap(s) = {}
      BY <2>4, HeapFacts DEF InHeap
    <3>2. InPending(s) = {} \/ \E i : InPending(s) = {i}
      BY <2>2
    <3>3. Cardinality(InHeap(s)) = 0 /\ Cardinality(InPending(s)) \in {0, 1}
      BY <3>1, <3>2, FS_Singleton, FS_EmptySet
    <3>4. InPending(s) = {} => Finished(s)
      BY <2>1, <2>4 DEF PlaceInv, InPending
    <3> QED
      BY <2>4, <3>1, <3>3, <3>4
  <2> QED
    BY <2>3, <2>4
<1> QED
  BY <1>1, <1>2 DEF OnePlace

-----------------------------------------------------------------------------
(* The merged order.                                                       *)

\* A finished stream stays finished: it has no row and no file to load.
LEMMA FinishedStays ==
  ASSUME TypeOK, SourceInv, PlaceInv, [Next]_vars, NEW u \in Streams, Finished(u)
  PROVE  Finished(u)' /\ (Parse => u # cur)
<1>0. paths' = paths
  BY FixedStep
<1>1. read_cursor[u] \in Nat /\ landed[u] \in Nat /\ Len(paths[u]) \in Nat /\ rows[u] = << >>
      /\ landed[u] <= read_cursor[u]
  BY DEF TypeOK, SourceInv, Finished
<1>2. ASSUME LoadFile \/ SkipRow \/ RejectRows \/ Parse PROVE u # cur
  BY <1>1, <1>2 DEF LoadFile, SkipRow, RejectRows, Parse, AtRow
<1>3. rows'[u] = rows[u] /\ read_cursor'[u] = read_cursor[u]
  <2>1. CASE LoadFile \/ SkipRow \/ RejectRows \/ Parse
    BY <1>2, <2>1 DEF LoadFile, SkipRow, RejectRows, Parse, TypeOK
  <2>2. CASE ~(LoadFile \/ SkipRow \/ RejectRows \/ Parse)
    <3>1. rows' = rows /\ read_cursor' = read_cursor
      BY <2>2, Steps, Zenon DEF Land, Call, Visit, Starved, AnswerNoData, AnswerEof, AnswerEvent, vars,
         streamVars
    <3> QED
      BY <3>1
  <2> QED
    BY <2>1, <2>2
<1> QED
  BY <1>0, <1>2, <1>3 DEF Finished

\* What the counters become, field by field.
Others(st, t) == /\ t.backwards_stamps = st.backwards_stamps /\ t.sequence_gaps = st.sequence_gaps
                 /\ t.rows_parsed = st.rows_parsed

LEMMA LoadCounts ==
  ASSUME TypeOK, SourceInv, PlaceInv, LoadFile, NEW s \in Streams, s = cur,
         NEW c \in Nat, c = read_cursor[s] + 1,
         NEW fit, fit = ExpectedRows(table[s], paths[s][c].stamp)
  PROVE  /\ \A u \in Streams : u # s => stats'[u] = stats[u]
         /\ Others(stats[s], stats'[s])
         /\ stats'[s].rows_rejected = stats[s].rows_rejected
         /\ stats'[s].header_rows = stats[s].header_rows
         /\ stats'[s].blank_rows = stats[s].blank_rows
         /\ stats'[s].rows_expected = stats[s].rows_expected + fit
         /\ stats'[s].files_read = stats[s].files_read + IF paths[s][c].ok THEN 1 ELSE 0
         /\ stats'[s].files_failed = stats[s].files_failed + IF paths[s][c].ok THEN 0 ELSE 1
<1>0. stats[s] \in GapStats /\ paths[s][c].ok \in BOOLEAN
  BY FileFacts DEF TypeOK
<1>a. /\ paths[s][c].ok =>
            stats' = [stats EXCEPT ![s].files_read = @ + 1, ![s].rows_expected = @ + fit]
      /\ ~paths[s][c].ok =>
            stats' = [stats EXCEPT ![s].files_failed = @ + 1, ![s].rows_expected = @ + fit]
  BY FileFacts
<1>1. CASE paths[s][c].ok
  <2>1. stats' = [stats EXCEPT ![s].files_read = @ + 1, ![s].rows_expected = @ + fit]
    BY <1>1, <1>a, Zenon
  <2>2. stats'[s] = [stats[s] EXCEPT !.files_read = @ + 1, !.rows_expected = @ + fit]
    BY <2>1 DEF TypeOK
  <2>3. \A u \in Streams : u # s => stats'[u] = stats[u]
    BY <2>1 DEF TypeOK
  <2>4. /\ Others(stats[s], stats'[s])
        /\ stats'[s].rows_rejected = stats[s].rows_rejected
        /\ stats'[s].header_rows = stats[s].header_rows
        /\ stats'[s].blank_rows = stats[s].blank_rows
        /\ stats'[s].rows_expected = stats[s].rows_expected + fit
        /\ stats'[s].files_read = stats[s].files_read + 1
        /\ stats'[s].files_failed = stats[s].files_failed /\ stats[s].files_failed \in Nat
    BY <1>0, <2>2 DEF GapStats, Others
  <2>5. /\ (IF paths[s][c].ok THEN 1 ELSE 0) = 1 /\ (IF paths[s][c].ok THEN 0 ELSE 1) = 0
    BY <1>1, Zenon
  <2> QED
    BY <2>3, <2>4, <2>5
<1>2. CASE ~paths[s][c].ok
  <2>1. stats' = [stats EXCEPT ![s].files_failed = @ + 1, ![s].rows_expected = @ + fit]
    BY <1>2, <1>a, Zenon
  <2>2. stats'[s] = [stats[s] EXCEPT !.files_failed = @ + 1, !.rows_expected = @ + fit]
    BY <2>1 DEF TypeOK
  <2>3. \A u \in Streams : u # s => stats'[u] = stats[u]
    BY <2>1 DEF TypeOK
  <2>4. /\ Others(stats[s], stats'[s])
        /\ stats'[s].rows_rejected = stats[s].rows_rejected
        /\ stats'[s].header_rows = stats[s].header_rows
        /\ stats'[s].blank_rows = stats[s].blank_rows
        /\ stats'[s].rows_expected = stats[s].rows_expected + fit
        /\ stats'[s].files_failed = stats[s].files_failed + 1
        /\ stats'[s].files_read = stats[s].files_read /\ stats[s].files_read \in Nat
    BY <1>0, <2>2 DEF GapStats, Others
  <2>5. /\ (IF paths[s][c].ok THEN 1 ELSE 0) = 0 /\ (IF paths[s][c].ok THEN 0 ELSE 1) = 1
    BY <1>2, Zenon
  <2> QED
    BY <2>3, <2>4, <2>5
<1> QED
  BY <1>1, <1>2

\* A row skipped or rejected.
LEMMA DropCounts ==
  ASSUME TypeOK, SourceInv, PlaceInv, SkipRow \/ RejectRows
  PROVE  \E s \in Streams, n \in Nat, rest \in Seq(Seq(Fields)) :
            /\ s = cur /\ Len(rows[s]) = n + Len(rest) /\ rows' = [rows EXCEPT ![s] = rest]
            /\ \A u \in Streams : u # s => stats'[u] = stats[u]
            /\ Others(stats[s], stats'[s])
            /\ stats'[s].rows_rejected + stats'[s].header_rows + stats'[s].blank_rows
                  = stats[s].rows_rejected + stats[s].header_rows + stats[s].blank_rows + n
            /\ stats'[s].rows_expected = stats[s].rows_expected
            /\ stats'[s].files_read = stats[s].files_read
            /\ stats'[s].files_failed = stats[s].files_failed
<1>0. \A s \in Streams : stats[s] \in GapStats
  BY DEF TypeOK
<1>1. CASE SkipRow
  <2>1. PICK s \in Streams, rest \in Seq(Seq(Fields)) :
            /\ s = cur /\ Len(rows[s]) = 1 + Len(rest)
            /\ rows' = [rows EXCEPT ![s] = rest]
            /\ \/ stats' = [stats EXCEPT ![s].blank_rows = @ + 1]
               \/ stats' = [stats EXCEPT ![s].header_rows = @ + 1]
    BY <1>1, SkipFacts
  <2>2. \/ stats'[s] = [stats[s] EXCEPT !.blank_rows = @ + 1]
        \/ stats'[s] = [stats[s] EXCEPT !.header_rows = @ + 1]
    BY <2>1 DEF TypeOK
  <2>3. \A u \in Streams : u # s => stats'[u] = stats[u]
    BY <2>1 DEF TypeOK
  <2>4. /\ Others(stats[s], stats'[s])
        /\ stats'[s].rows_rejected + stats'[s].header_rows + stats'[s].blank_rows
              = stats[s].rows_rejected + stats[s].header_rows + stats[s].blank_rows + 1
        /\ stats'[s].rows_expected = stats[s].rows_expected
        /\ stats'[s].files_read = stats[s].files_read
        /\ stats'[s].files_failed = stats[s].files_failed
    <3>1. CASE stats'[s] = [stats[s] EXCEPT !.blank_rows = @ + 1]
      BY <1>0, <3>1, SMTT(30) DEF GapStats, Others
    <3>2. CASE stats'[s] = [stats[s] EXCEPT !.header_rows = @ + 1]
      BY <1>0, <3>2, SMTT(30) DEF GapStats, Others
    <3> QED
      BY <2>2, <3>1, <3>2
  <2>5. 1 \in Nat
    OBVIOUS
  <2> QED
    BY <2>1, <2>3, <2>4, <2>5, Zenon
<1>2. CASE RejectRows
  <2>1. PICK s \in Streams, n \in Nat, rest \in Seq(Seq(Fields)) :
            /\ s = cur /\ n > 0 /\ Len(rows[s]) = n + Len(rest)
            /\ rows' = [rows EXCEPT ![s] = rest]
            /\ stats' = [stats EXCEPT ![s].rows_rejected = @ + n]
    BY <1>2, RejectFacts
  <2>2. stats'[s] = [stats[s] EXCEPT !.rows_rejected = @ + n]
    BY <2>1 DEF TypeOK
  <2>3. \A u \in Streams : u # s => stats'[u] = stats[u]
    BY <2>1 DEF TypeOK
  <2>4. /\ Others(stats[s], stats'[s])
        /\ stats'[s].rows_rejected + stats'[s].header_rows + stats'[s].blank_rows
              = stats[s].rows_rejected + stats[s].header_rows + stats[s].blank_rows + n
        /\ stats'[s].rows_expected = stats[s].rows_expected
        /\ stats'[s].files_read = stats[s].files_read
        /\ stats'[s].files_failed = stats[s].files_failed
    <3>1. stats[s] \in GapStats
      BY <1>0
    <3>2. /\ stats'[s].rows_rejected = stats[s].rows_rejected + n
          /\ stats'[s].header_rows = stats[s].header_rows /\ stats'[s].blank_rows = stats[s].blank_rows
          /\ stats'[s].rows_expected = stats[s].rows_expected
          /\ stats'[s].files_read = stats[s].files_read
          /\ stats'[s].files_failed = stats[s].files_failed
          /\ stats'[s].rows_parsed = stats[s].rows_parsed
          /\ stats'[s].backwards_stamps = stats[s].backwards_stamps
          /\ stats'[s].sequence_gaps = stats[s].sequence_gaps
      BY <2>2, <3>1 DEF GapStats
    <3>3. Others(stats[s], stats'[s])
      BY <3>2 DEF Others
    <3>4. /\ stats[s].rows_rejected \in Nat /\ stats[s].header_rows \in Nat
          /\ stats[s].blank_rows \in Nat
      BY <3>1 DEF GapStats
    <3>5. \A r, h, b \in Nat : (r + n) + h + b = r + h + b + n
      OBVIOUS
    <3>6. stats'[s].rows_rejected + stats'[s].header_rows + stats'[s].blank_rows
              = stats[s].rows_rejected + stats[s].header_rows + stats[s].blank_rows + n
      BY <3>2, <3>4, <3>5
    <3> QED
      BY <3>2, <3>3, <3>6
  <2>5. /\ s = cur /\ Len(rows[s]) = n + Len(rest) /\ rows' = [rows EXCEPT ![s] = rest]
        /\ \A u \in Streams : u # s => stats'[u] = stats[u]
    BY <2>1, <2>3, Zenon
  <2> WITNESS s \in Streams, n \in Nat, rest \in Seq(Seq(Fields))
  <2> QED
    BY <2>4, <2>5, Zenon
<1> QED
  BY <1>1, <1>2

LEMMA ParseCounts ==
  ASSUME TypeOK, NEW s \in Streams, NEW e \in Events, NEW n \in Nat, Counted(s, e, n)
  PROVE  /\ \A u \in Streams : u # s => stats'[u] = stats[u]
         /\ stats'[s].rows_parsed = stats[s].rows_parsed + n
         /\ stats'[s].backwards_stamps = stats[s].backwards_stamps + IF e.ts < last_ts[s] THEN 1 ELSE 0
         /\ stats'[s].sequence_gaps
               = stats[s].sequence_gaps + IF s \in Sequenced /\ Breaks(s, e.id) THEN 1 ELSE 0
         /\ stats'[s].rows_rejected = stats[s].rows_rejected
         /\ stats'[s].header_rows = stats[s].header_rows
         /\ stats'[s].blank_rows = stats[s].blank_rows
         /\ stats'[s].rows_expected = stats[s].rows_expected
         /\ stats'[s].files_read = stats[s].files_read
         /\ stats'[s].files_failed = stats[s].files_failed
<1>0. stats[s] \in GapStats
  BY DEF TypeOK
<1>1. PICK a : a = IF e.ts < last_ts[s] THEN 1 ELSE 0
  OBVIOUS
<1>2. PICK b : b = IF e.ts = last_ts[s] /\ stats[s].rows_parsed > 0 THEN 1 ELSE 0
  OBVIOUS
<1>3. PICK g : g = IF s \in Sequenced /\ Breaks(s, e.id) THEN 1 ELSE 0
  OBVIOUS
<1>4. stats' = [stats EXCEPT
                ![s].rows_parsed = @ + n, ![s].backwards_stamps = @ + a,
                ![s].repeated_stamps = @ + b, ![s].sequence_gaps = @ + g]
  BY <1>1, <1>2, <1>3, Zenon DEF Counted
<1>5. stats'[s] = [stats[s] EXCEPT
                !.rows_parsed = @ + n, !.backwards_stamps = @ + a,
                !.repeated_stamps = @ + b, !.sequence_gaps = @ + g]
  BY <1>4 DEF TypeOK
<1>6. \A u \in Streams : u # s => stats'[u] = stats[u]
  BY <1>4 DEF TypeOK
<1>7. /\ stats'[s].rows_parsed = stats[s].rows_parsed + n
      /\ stats'[s].backwards_stamps = stats[s].backwards_stamps + a
      /\ stats'[s].sequence_gaps = stats[s].sequence_gaps + g
      /\ stats'[s].rows_rejected = stats[s].rows_rejected
      /\ stats'[s].header_rows = stats[s].header_rows
      /\ stats'[s].blank_rows = stats[s].blank_rows
      /\ stats'[s].rows_expected = stats[s].rows_expected
      /\ stats'[s].files_read = stats[s].files_read
      /\ stats'[s].files_failed = stats[s].files_failed
  BY <1>0, <1>5 DEF GapStats
<1> QED
  BY <1>1, <1>3, <1>6, <1>7

\* Only Parse counts a backwards stamp, a gap or a row parsed.
LEMMA CountsKept ==
  ASSUME TypeOK, SourceInv, PlaceInv, [Next]_vars, ~Parse, NEW u \in Streams
  PROVE  Others(stats[u], stats'[u])
<1>1. CASE LoadFile
  <2>1. PICK s \in Streams : s = cur
    BY <1>1, CurFacts DEF LoadFile
  <2>2. PICK c \in Nat : c = read_cursor[s] + 1
    BY DEF TypeOK
  <2>3. Others(stats[s], stats'[s]) /\ \A w \in Streams : w # s => stats'[w] = stats[w]
    BY <1>1, <2>1, <2>2, LoadCounts
  <2> QED
    BY <2>3 DEF Others
<1>2. CASE SkipRow \/ RejectRows
  <2>1. PICK s \in Streams, n \in Nat, rest \in Seq(Seq(Fields)) :
            /\ \A w \in Streams : w # s => stats'[w] = stats[w]
            /\ Others(stats[s], stats'[s])
    BY <1>2, DropCounts, Zenon
  <2> QED
    BY <2>1 DEF Others
<1>3. CASE stats' = stats
  BY <1>3 DEF Others
<1>4. LoadFile \/ SkipRow \/ RejectRows \/ stats' = stats
  BY Steps, Zenon DEF Land, Call, Visit, Starved, AnswerNoData, AnswerEof, AnswerEvent, vars, streamVars
<1> QED
  BY <1>1, <1>2, <1>3, <1>4

\* Only Parse and AnswerEvent move events.
LEMMA EventsKept ==
  ASSUME [Next]_vars, ~Parse, ~AnswerEvent
  PROVE  UNCHANGED <<out, front, last_ts, last_sequence>>
BY Steps, Zenon DEF Land, Call, Visit, LoadFile, SkipRow, RejectRows, Starved, AnswerNoData, AnswerEof, vars,
   streamVars

LEMMA StepsFinite ==
  ASSUME TypeOK, NEW s \in Streams
  PROVE  IsFiniteSet(StepsBackOf(s)) /\ Cardinality(StepsBackOf(s)) \in Nat
<1>1. Len(out) - 1 \in Int
  BY DEF TypeOK
<1>2. IsFiniteSet(1 .. Len(out) - 1)
  BY <1>1, FS_Interval
<1>3. StepsBackOf(s) \in SUBSET (1 .. Len(out) - 1)
  BY DEF StepsBackOf, StepsBack
<1>4. IsFiniteSet(StepsBackOf(s))
  BY <1>2, <1>3, FS_Subset
<1> QED
  BY <1>4, FS_CardinalityType

LEMMA OrderKept ==
  ASSUME TypeOK, SourceInv, PlaceInv, OrderInv, [Next]_vars, ~Parse, ~AnswerEvent
  PROVE  OrderInv'
<1>0. /\ UNCHANGED <<table, out, front, last_ts>> /\ Streams' = Streams /\ Bars' = Bars
      /\ StepsBack' = StepsBack
      /\ \A s \in Streams : /\ stats'[s].backwards_stamps = stats[s].backwards_stamps
                            /\ StepsBackOf(s)' = StepsBackOf(s)
                            /\ NextStepsBack(s)' <=> NextStepsBack(s)
  <2>1. UNCHANGED <<table, out, front, last_ts>> /\ Streams' = Streams /\ Bars' = Bars
    BY EventsKept, FixedStep DEF Streams, Bars
  <2>2. StepsBack' = StepsBack
    BY <2>1 DEF StepsBack, MergedBefore
  <2>3. \A s \in Streams : stats'[s].backwards_stamps = stats[s].backwards_stamps
    BY CountsKept DEF Others
  <2>4. \A s \in Streams : StepsBackOf(s)' = StepsBackOf(s) /\ (NextStepsBack(s)' <=> NextStepsBack(s))
    BY <2>1, <2>2 DEF StepsBackOf, NextStepsBack
  <2> QED
    BY <2>1, <2>2, <2>3, <2>4
<1>1. \A i \in StepsBack' : out'[i].stream = out'[i + 1].stream
  BY <1>0 DEF OrderInv
<1>2. SettledInv'
  <2>1. \A u \in Streams : Finished(u) => Finished(u)'
    BY FinishedStays
  <2> QED
    <3> SUFFICES ASSUME Len(out) > 0, NEW u \in Streams \ {out[Len(out)].stream}
                 PROVE  IF front[u] = None THEN Finished(u)'
                        ELSE ~MergedBefore(front[u], out[Len(out)])'
      BY <1>0 DEF SettledInv
    <3>1. MergedBefore(front[u], out[Len(out)])' <=> MergedBefore(front[u], out[Len(out)])
      BY <1>0 DEF MergedBefore
    <3> QED
      BY <2>1, <3>1 DEF OrderInv, SettledInv
<1>3. StampInv'
  BY <1>0 DEF OrderInv, StampInv
<1> QED
  BY <1>1, <1>2, <1>3 DEF OrderInv


\* Parse can only be the turn of the stream whose event came out last.
LEMMA OrderParse ==
  ASSUME TypeOK, SourceInv, PlaceInv, OrderInv, Parse
  PROVE  OrderInv'
<1>0. [Next]_vars /\ out' = out /\ table' = table /\ paths' = paths /\ pc = "stream"
  BY DEF Parse, AtRow, Next, Pull
<1>1. PICK s \in Streams, e \in Events, n \in Nat, rest \in Seq(Seq(Fields)) :
          Parsed(s, e, n, rest) /\ Counted(s, e, n)
  BY ParsedFacts
<1>2. front[s] = None /\ rows[s] # << >>
  BY <1>0, <1>1, CurFacts DEF Parsed, Parse, AtRow
<1>3. Streams' = Streams /\ Bars' = Bars /\ StepsBack' = StepsBack
      /\ \A u \in Streams : StepsBackOf(u)' = StepsBackOf(u)
  <2>1. Streams' = Streams /\ Bars' = Bars
    BY <1>0 DEF Streams, Bars
  <2>2. StepsBack' = StepsBack
    BY <1>0, <2>1 DEF StepsBack, MergedBefore
  <2> QED
    BY <1>0, <2>1, <2>2 DEF StepsBackOf
<1>4. Len(out) > 0 => out[Len(out)].stream = s
  BY <1>2 DEF OrderInv, SettledInv, Finished
<1>5. /\ front'[s] = e /\ last_ts'[s] = e.ts /\ e.ts \in Int /\ last_ts[s] \in Int
      /\ \A u \in Streams : u # s => front'[u] = front[u] /\ last_ts'[u] = last_ts[u]
  BY <1>1 DEF Parsed, TypeOK, Events
<1>6. /\ stats[s].backwards_stamps \in Nat
      /\ stats'[s].backwards_stamps = stats[s].backwards_stamps + IF e.ts < last_ts[s] THEN 1 ELSE 0
      /\ \A u \in Streams : u # s => stats'[u] = stats[u]
  BY <1>1, ParseCounts DEF TypeOK, GapStats
<1>7. \A i \in StepsBack' : out'[i].stream = out'[i + 1].stream
  BY <1>0, <1>3 DEF OrderInv
<1>8. SettledInv'
  <2> SUFFICES ASSUME Len(out) > 0, NEW u \in Streams \ {out[Len(out)].stream}
               PROVE  IF front'[u] = None THEN Finished(u)'
                      ELSE ~MergedBefore(front[u], out[Len(out)])'
    BY <1>0, <1>3 DEF SettledInv
  <2>1. front'[u] = front[u]
    BY <1>4, <1>5
  <2>2. MergedBefore(front[u], out[Len(out)])' <=> MergedBefore(front[u], out[Len(out)])
    BY <1>0, <1>3, <2>1 DEF MergedBefore
  <2>3. Finished(u) => Finished(u)'
    BY <1>0, FinishedStays
  <2> QED
    BY <2>1, <2>2, <2>3 DEF OrderInv, SettledInv
<1>9. ASSUME NEW u \in Streams
      PROVE  /\ front'[u] # None => last_ts'[u] = front'[u].ts
             /\ Len(out') > 0 /\ out'[Len(out')].stream = u /\ front'[u] = None =>
                   last_ts'[u] = out'[Len(out')].ts
             /\ Cardinality(StepsBackOf(u)') + (IF NextStepsBack(u)' THEN 1 ELSE 0)
                   <= stats'[u].backwards_stamps
  <2>0. Cardinality(StepsBackOf(u)) \in Nat
    BY StepsFinite
  <2>1. CASE u # s
    <3>1. front'[u] = front[u] /\ last_ts'[u] = last_ts[u] /\ stats'[u] = stats[u]
      BY <1>5, <1>6, <2>1
    <3>2. NextStepsBack(u)' <=> NextStepsBack(u)
      BY <1>0, <3>1 DEF NextStepsBack
    <3> QED
      BY <1>0, <1>3, <3>1, <3>2 DEF OrderInv, StampInv
  <2>2. CASE u = s
    <3>1. front'[u] # None
      <4>1. e \in [stream : Nat, ts : Int, id : Int]
        BY DEF Events, Streams, SourceInv
      <4> QED
        BY <1>5, <2>2, <4>1, SourceAssumption
    <3>2. Cardinality(StepsBackOf(s)) <= stats[s].backwards_stamps
      <4>1. ~NextStepsBack(s)
        BY <1>2 DEF NextStepsBack
      <4>2. Cardinality(StepsBackOf(s)) + 0 <= stats[s].backwards_stamps
        BY <4>1 DEF OrderInv, StampInv
      <4> QED
        BY <2>0, <2>2, <4>2
    <3>3. ASSUME NextStepsBack(s)' PROVE e.ts < last_ts[s]
      BY <1>0, <1>2, <1>5, <3>3 DEF OrderInv, StampInv, NextStepsBack
    <3>4. Cardinality(StepsBackOf(s)) + (IF NextStepsBack(s)' THEN 1 ELSE 0) <= stats'[s].backwards_stamps
      BY <1>6, <2>0, <2>2, <3>2, <3>3
    <3> QED
      BY <1>3, <1>5, <2>2, <3>1, <3>4
  <2> QED
    BY <2>1, <2>2
<1>10. StampInv'
  BY <1>3, <1>9 DEF StampInv
<1> QED
  BY <1>7, <1>8, <1>10 DEF OrderInv

\* An event that steps back is its stream's own: the others were settled.
LEMMA OrderEvent ==
  ASSUME TypeOK, SourceInv, PlaceInv, OrderInv, AnswerEvent
  PROVE  OrderInv'
<1>0. [Next]_vars /\ table' = table /\ paths' = paths /\ UNCHANGED streamVars
  BY DEF AnswerEvent, Next, Pull
<1>1. PICK s \in Streams :
            /\ front[s] # None /\ front[s] \in Events /\ front[s].stream = s
            /\ \A u \in Streams \ {s} : front[u] # None => Before(EntryOf(front[s]), EntryOf(front[u]))
            /\ \A u \in Streams : front[u] = None => Finished(u)
            /\ heap' = heap \ {EntryOf(front[s])}
            /\ pending' \in Seq(Streams) /\ Len(pending') = 1 /\ pending'[1] = s
            /\ out' = Append(out, front[s])
            /\ front' = [front EXCEPT ![s] = None]
  BY EventFacts
<1>2. PICK e \in Events : e = front[s]
  BY <1>1
<1>3. PICK k \in Nat : k = Len(out)
  BY DEF TypeOK
<1>4. /\ Len(out') = k + 1 /\ out'[k + 1] = e /\ e.stream = s
      /\ \A i \in 1 .. k : out'[i] = out[i] /\ out[i] \in Events
  BY <1>1, <1>2, <1>3 DEF TypeOK
<1>5. Streams' = Streams /\ Bars' = Bars
  BY <1>0 DEF Streams, Bars
<1>6. front'[s] = None /\ \A u \in Streams : u # s => front'[u] = front[u]
  BY <1>1 DEF TypeOK
<1>7. ASSUME k > 0, MergedBefore(e, out[k]) PROVE out[k].stream = s /\ e.ts < out[k].ts
  <2>1. out[k].stream = s
    BY <1>1, <1>2, <1>3, <1>7 DEF OrderInv, SettledInv
  <2>2. s \in Int
    BY DEF Streams, SourceInv
  <2> QED
    BY <1>4, <1>7, <2>1, <2>2 DEF MergedBefore
<1>8. StepsBack' = IF k > 0 /\ MergedBefore(e, out[k]) THEN StepsBack \cup {k} ELSE StepsBack
  <2>1. \A f, g : MergedBefore(f, g)' <=> MergedBefore(f, g)
    BY <1>5 DEF MergedBefore
  <2>2. StepsBack' = {i \in 1 .. k : MergedBefore(out'[i + 1], out'[i])}
    BY <1>4, <1>5 DEF StepsBack, MergedBefore
  <2>3. StepsBack = {i \in 1 .. k - 1 : MergedBefore(out[i + 1], out[i])}
    BY <1>3 DEF StepsBack
  <2>4. \A i \in 1 .. k - 1 : out'[i + 1] = out[i + 1] /\ out'[i] = out[i]
    BY <1>4
  <2>5. \A i \in 1 .. k : i \in StepsBack' <=> i \in StepsBack \/ (i = k /\ MergedBefore(e, out[k]))
    BY <1>4, <2>2, <2>3, <2>4
  <2>6. StepsBack' \subseteq 1 .. k /\ StepsBack \subseteq 1 .. k
    BY <2>2, <2>3
  <2>7. CASE k > 0 /\ MergedBefore(e, out[k])
    <3>1. k \in 1 .. k
      BY <2>7
    <3>2. StepsBack' = StepsBack \cup {k}
      BY <2>5, <2>6, <2>7, <3>1
    <3> QED
      BY <2>7, <3>2
  <2>8. CASE ~(k > 0 /\ MergedBefore(e, out[k]))
    <3>1. \A i \in 1 .. k : k > 0
      OBVIOUS
    <3>2. \A i \in 1 .. k : i \in StepsBack' <=> i \in StepsBack
      BY <2>5, <2>8, <3>1
    <3>3. StepsBack' = StepsBack
      BY <2>6, <3>2
    <3> QED
      BY <2>8, <3>3
  <2> QED
    BY <2>7, <2>8
<1>9. \A i \in StepsBack : i \in 1 .. k - 1
  BY <1>3 DEF StepsBack
<1>10. \A i \in StepsBack' : out'[i].stream = out'[i + 1].stream
  <2> SUFFICES ASSUME NEW i \in StepsBack' PROVE out'[i].stream = out'[i + 1].stream
    OBVIOUS
  <2>1. CASE i \in StepsBack
    BY <1>4, <1>9, <2>1 DEF OrderInv
  <2>2. CASE i \notin StepsBack
    <3>1. i = k /\ k > 0 /\ MergedBefore(e, out[k])
      BY <1>8, <2>2
    <3> QED
      BY <1>4, <1>7, <3>1
  <2> QED
    BY <2>1, <2>2
<1>11. SettledInv'
  <2> SUFFICES ASSUME NEW u \in Streams, u # s
               PROVE  IF front'[u] = None THEN Finished(u)' ELSE ~MergedBefore(front[u], out[Len(out)])'
    BY <1>4, <1>5 DEF SettledInv
  <2>1. front'[u] = front[u]
    BY <1>6
  <2>2. Finished(u)' <=> Finished(u)
    BY <1>0 DEF Finished, streamVars
  <2>3. MergedBefore(front[u], out[Len(out)])' <=> MergedBefore(front[u], e)
    BY <1>4, <1>5, <2>1 DEF MergedBefore
  <2>4. ASSUME front[u] # None PROVE ~MergedBefore(front[u], e)
    <3>1. Before(EntryOf(e), EntryOf(front[u])) /\ front[u] \in Events /\ front[u].stream = u
      BY <1>1, <1>2, <2>4 DEF PlaceInv, TypeOK
    <3>2. u \in Int /\ s \in Int /\ e.ts \in Int /\ front[u].ts \in Int
      BY <3>1 DEF Streams, SourceInv, Events
    <3> QED
      BY <1>4, <3>1, <3>2 DEF MergedBefore, Before, EntryOf
  <2> QED
    BY <1>1, <2>1, <2>2, <2>3, <2>4
<1>12. ASSUME NEW u \in Streams
       PROVE  /\ front'[u] # None => last_ts'[u] = front'[u].ts
              /\ Len(out') > 0 /\ out'[Len(out')].stream = u /\ front'[u] = None =>
                    last_ts'[u] = out'[Len(out')].ts
              /\ Cardinality(StepsBackOf(u)') + (IF NextStepsBack(u)' THEN 1 ELSE 0)
                    <= stats'[u].backwards_stamps
  <2>0. /\ IsFiniteSet(StepsBackOf(u)) /\ Cardinality(StepsBackOf(u)) \in Nat
        /\ stats[u].backwards_stamps \in Nat
    BY StepsFinite DEF TypeOK, GapStats
  <2>1. last_ts' = last_ts /\ stats' = stats
    BY <1>0 DEF streamVars
  <2>2. ~NextStepsBack(u)'
    BY <1>4, <1>6 DEF NextStepsBack
  <2>3. StepsBackOf(u)' = {i \in StepsBack' : out'[i].stream = u}
    BY DEF StepsBackOf
  <2>4. \A i \in StepsBack : out'[i].stream = out[i].stream
    BY <1>4, <1>9
  <2>5. CASE k > 0 /\ MergedBefore(e, out[k]) /\ u = s
    <3>1. StepsBackOf(u)' = StepsBackOf(u) \cup {k} /\ k \notin StepsBackOf(u)
      <4>1. out'[k].stream = u
        BY <1>4, <1>7, <2>5
      <4>2. k \notin StepsBack
        BY <1>9
      <4> QED
        BY <1>8, <2>3, <2>4, <2>5, <4>1, <4>2 DEF StepsBackOf
    <3>2. Cardinality(StepsBackOf(u)') = Cardinality(StepsBackOf(u)) + 1
      BY <2>0, <3>1, FS_AddElement
    <3>3. NextStepsBack(u)
      BY <1>1, <1>2, <1>3, <1>7, <2>5 DEF NextStepsBack
    <3>4. Cardinality(StepsBackOf(u)) + 1 <= stats[u].backwards_stamps
      BY <3>3 DEF OrderInv, StampInv
    <3>5. last_ts[u] = e.ts
      BY <1>1, <1>2, <2>5 DEF OrderInv, StampInv
    <3> QED
      BY <1>4, <1>6, <2>0, <2>1, <2>2, <2>5, <3>2, <3>4, <3>5
  <2>6. CASE ~(k > 0 /\ MergedBefore(e, out[k]) /\ u = s)
    <3>1. StepsBackOf(u)' = StepsBackOf(u)
      <4>1. ASSUME k > 0, MergedBefore(e, out[k]) PROVE out'[k].stream # u
        BY <1>4, <1>7, <2>6, <4>1
      <4> QED
        BY <1>8, <2>3, <2>4, <4>1 DEF StepsBackOf
    <3>2. Cardinality(StepsBackOf(u)) <= stats[u].backwards_stamps
      BY <2>0 DEF OrderInv, StampInv
    <3>3. u = s => last_ts[u] = e.ts
      BY <1>1, <1>2 DEF OrderInv, StampInv
    <3>4. front'[u] # None => last_ts[u] = front'[u].ts
      BY <1>6 DEF OrderInv, StampInv
    <3> QED
      BY <1>4, <2>0, <2>1, <2>2, <3>1, <3>2, <3>3, <3>4
  <2> QED
    BY <2>5, <2>6
<1>13. StampInv'
  BY <1>5, <1>12 DEF StampInv
<1> QED
  BY <1>10, <1>11, <1>13 DEF OrderInv

-----------------------------------------------------------------------------
(* The ids of a sequenced dataset.                                         *)

\* TapeInv for one stream.
TapeOf(s) ==
    /\ front[s] # None => last_sequence[s] = front[s].id
    /\ \A i \in 1 .. Len(out) :
          LatestOf(s, i) =>
            IF front[s] = None THEN last_sequence[s] = out[i].id
            ELSE stats[s].sequence_gaps = 0 => front[s].id = out[i].id + 1
    /\ stats[s].sequence_gaps = 0 =>
          \A i, j \in OutOf(s) :
              i < j /\ OutOf(s) \cap (i + 1 .. j - 1) = {} => out[j].id = out[i].id + 1

LEMMA TapeByStream == TapeInv <=> \A s \in Sequenced : TapeOf(s)
BY DEF TapeInv, TapeOf, MissingTapeShows

\* A stream none of whose events, ids or gaps a step moves.
LEMMA TapeOfKept ==
  ASSUME NEW s \in Streams, TapeOf(s), out' = out, front'[s] = front[s],
         last_sequence'[s] = last_sequence[s],
         stats'[s].sequence_gaps = stats[s].sequence_gaps
  PROVE  TapeOf(s)'
<1>1. OutOf(s)' = OutOf(s) /\ \A i : LatestOf(s, i)' <=> LatestOf(s, i)
  BY DEF OutOf, LatestOf
<1> QED
  BY <1>1 DEF TapeOf

LEMMA TapeParse ==
  ASSUME TypeOK, SourceInv, PlaceInv, TapeInv, Parse, NEW u \in Sequenced
  PROVE  TapeOf(u)'
<1>0. out' = out /\ pc = "stream" /\ u \in Streams /\ TapeOf(u)
  BY TapeByStream DEF Parse, AtRow, Sequenced
<1>1. PICK s \in Streams, e \in Events, n \in Nat, rest \in Seq(Seq(Fields)) :
          Parsed(s, e, n, rest) /\ Counted(s, e, n)
  BY ParsedFacts
<1>2. \A w \in Streams : w # s => /\ front'[w] = front[w] /\ last_sequence'[w] = last_sequence[w]
                                  /\ stats'[w] = stats[w]
  BY <1>1, ParseCounts DEF Parsed, TypeOK
<1>3. CASE u # s
  BY <1>0, <1>2, <1>3, TapeOfKept
<1>4. CASE u = s
  <2>1. front[u] = None
    BY <1>0, <1>1, <1>4, CurFacts DEF Parsed
  <2>2. front'[u] = e /\ last_sequence'[u] = e.id /\ e.id \in Int
    BY <1>0, <1>1, <1>4 DEF Parsed, TypeOK, Events
  <2>3. stats'[u].sequence_gaps = 0 => stats[u].sequence_gaps = 0 /\ ~Breaks(u, e.id)
    <3>1. /\ stats[u].sequence_gaps \in Nat
          /\ stats'[u].sequence_gaps
               = stats[u].sequence_gaps + IF u \in Sequenced /\ Breaks(u, e.id) THEN 1 ELSE 0
      BY <1>1, <1>4, ParseCounts DEF TypeOK, GapStats
    <3> QED
      BY <3>1
  <2>4. OutOf(u)' = OutOf(u) /\ \A i : LatestOf(u, i)' <=> LatestOf(u, i)
    BY <1>0 DEF OutOf, LatestOf
  <2>5. e # None
    <3>1. e \in [stream : Nat, ts : Int, id : Int]
      BY <1>1 DEF Events, Streams, SourceInv
    <3> QED
      BY <3>1, SourceAssumption
  <2>6. ASSUME NEW i \in 1 .. Len(out), LatestOf(u, i), stats'[u].sequence_gaps = 0
        PROVE  e.id = out[i].id + 1
    <3>1. last_sequence[u] = out[i].id
      BY <1>0, <2>1, <2>6 DEF TapeOf
    <3>2. out[i].id \in Int
      <4>1. out[i] \in Events
        BY <2>6 DEF TypeOK
      <4> QED
        BY <4>1 DEF Events
    <3> QED
      BY <2>3, <2>6, <3>1, <3>2, SourceAssumption DEF Breaks
  <2>7. \A i \in 1 .. Len(out') : LatestOf(u, i)' =>
            IF front'[u] = None THEN last_sequence'[u] = out'[i].id
            ELSE stats'[u].sequence_gaps = 0 => front'[u].id = out'[i].id + 1
    BY <1>0, <2>2, <2>4, <2>5, <2>6
  <2>8. stats'[u].sequence_gaps = 0 =>
            \A i, j \in OutOf(u)' :
              i < j /\ OutOf(u)' \cap (i + 1 .. j - 1) = {} => out'[j].id = out'[i].id + 1
    BY <1>0, <2>3, <2>4 DEF TapeOf
  <2> QED
    BY <2>2, <2>7, <2>8 DEF TapeOf
<1> QED
  BY <1>3, <1>4

LEMMA TapeEvent ==
  ASSUME TypeOK, SourceInv, PlaceInv, TapeInv, AnswerEvent, NEW u \in Sequenced
  PROVE  TapeOf(u)'
<1>0. u \in Streams /\ TapeOf(u) /\ last_sequence' = last_sequence /\ stats' = stats
  BY TapeByStream DEF AnswerEvent, Sequenced, streamVars
<1>1. PICK s \in Streams :
            /\ front[s] # None /\ front[s] \in Events /\ front[s].stream = s
            /\ \A w \in Streams \ {s} : front[w] # None => Before(EntryOf(front[s]), EntryOf(front[w]))
            /\ \A w \in Streams : front[w] = None => Finished(w)
            /\ heap' = heap \ {EntryOf(front[s])}
            /\ pending' \in Seq(Streams) /\ Len(pending') = 1 /\ pending'[1] = s
            /\ out' = Append(out, front[s])
            /\ front' = [front EXCEPT ![s] = None]
  BY EventFacts
<1>2. PICK e \in Events : e = front[s]
  BY <1>1
<1>3. PICK k \in Nat : k = Len(out)
  BY DEF TypeOK
<1>4. /\ Len(out') = k + 1 /\ out'[k + 1] = e /\ e.stream = s
      /\ \A i \in 1 .. k : out'[i] = out[i]
  BY <1>1, <1>2, <1>3 DEF TypeOK
<1>5. front'[s] = None /\ \A w \in Streams : w # s => front'[w] = front[w]
  BY <1>1 DEF TypeOK
<1>6. OutOf(u) \subseteq 1 .. k
  BY <1>3 DEF OutOf
<1>7. CASE u # s
  <2>1. OutOf(u)' = OutOf(u)
    BY <1>3, <1>4, <1>7 DEF OutOf
  <2>2. \A i : LatestOf(u, i)' <=> LatestOf(u, i)
    BY <2>1 DEF LatestOf
  <2>3. \A i \in OutOf(u) : out'[i] = out[i]
    BY <1>4, <1>6
  <2>4. front'[u] # None => last_sequence'[u] = front'[u].id
    BY <1>0, <1>5, <1>7 DEF TapeOf
  <2>5. ASSUME NEW i \in 1 .. Len(out'), LatestOf(u, i)'
        PROVE  IF front'[u] = None THEN last_sequence'[u] = out'[i].id
               ELSE stats'[u].sequence_gaps = 0 => front'[u].id = out'[i].id + 1
    <3>1. i \in OutOf(u) /\ i \in 1 .. Len(out) /\ LatestOf(u, i)
      BY <1>3, <1>6, <2>2, <2>5 DEF LatestOf
    <3> QED
      BY <1>0, <1>5, <1>7, <2>3, <3>1 DEF TapeOf
  <2>6. stats'[u].sequence_gaps = 0 =>
            \A i, j \in OutOf(u)' :
              i < j /\ OutOf(u)' \cap (i + 1 .. j - 1) = {} => out'[j].id = out'[i].id + 1
    BY <1>0, <2>1, <2>3 DEF TapeOf
  <2> QED
    BY <2>4, <2>5, <2>6 DEF TapeOf
<1>8. CASE u = s
  <2>1. OutOf(u)' = OutOf(u) \cup {k + 1}
    BY <1>3, <1>4, <1>8 DEF OutOf
  <2>2. \A i \in OutOf(u) : out'[i] = out[i] /\ i \in Int /\ i <= k
    BY <1>4, <1>6
  <2>3. ASSUME NEW i \in 1 .. Len(out'), LatestOf(u, i)' PROVE last_sequence'[u] = out'[i].id
    <3>1. i = k + 1
      BY <1>4, <2>1, <2>3 DEF LatestOf
    <3> QED
      BY <1>0, <1>1, <1>2, <1>4, <1>8, <3>1 DEF TapeOf
  <2>4. ASSUME stats'[u].sequence_gaps = 0, NEW i \in OutOf(u)', NEW j \in OutOf(u)',
               i < j, OutOf(u)' \cap (i + 1 .. j - 1) = {}
        PROVE  out'[j].id = out'[i].id + 1
    <3>1. i \in OutOf(u)
      BY <2>1, <2>2, <2>4
    <3>2. CASE j \in OutOf(u)
      <4>1. OutOf(u) \cap (i + 1 .. j - 1) = {}
        BY <2>1, <2>4
      <4> QED
        BY <1>0, <2>2, <2>4, <3>1, <3>2, <4>1 DEF TapeOf
    <3>3. CASE j = k + 1
      <4>1. \A x \in OutOf(u) : x <= i
        <5> SUFFICES ASSUME NEW x \in OutOf(u), x > i PROVE FALSE
          BY <2>2, <3>1
        <5>1. x \in OutOf(u)' /\ x \in i + 1 .. j - 1
          BY <2>1, <2>2, <3>1, <3>3
        <5> QED
          BY <2>4, <5>1
      <4>2. LatestOf(u, i) /\ i \in 1 .. Len(out)
        BY <1>3, <1>6, <3>1, <4>1 DEF LatestOf
      <4>3. e.id = out[i].id + 1
        BY <1>0, <1>1, <1>2, <1>8, <2>4, <4>2 DEF TapeOf
      <4> QED
        BY <1>4, <2>2, <3>1, <3>3, <4>3
    <3> QED
      BY <2>1, <2>4, <3>2, <3>3
  <2> QED
    BY <1>5, <1>8, <2>3, <2>4 DEF TapeOf
<1> QED
  BY <1>7, <1>8

LEMMA TapeStep ==
  ASSUME TypeOK, SourceInv, PlaceInv, TapeInv, [Next]_vars
  PROVE  TapeInv'
<1>0. Sequenced' = Sequenced /\ Sequenced \subseteq Streams
  BY FixedStep DEF Sequenced, Streams
<1>1. ASSUME NEW u \in Sequenced, ~Parse, ~AnswerEvent PROVE TapeOf(u)'
  <2>1. TapeOf(u) /\ u \in Streams
    BY <1>0, TapeByStream
  <2>2. stats'[u].sequence_gaps = stats[u].sequence_gaps
    BY <1>1, <2>1, CountsKept DEF Others
  <2> QED
    BY <1>1, <2>1, <2>2, EventsKept, TapeOfKept
<1>2. \A u \in Sequenced : TapeOf(u)'
  BY <1>1, TapeParse, TapeEvent
<1> QED
  BY <1>0, <1>2 DEF TapeInv, TapeOf, MissingTapeShows

-----------------------------------------------------------------------------
(* The counters.                                                           *)

\* Every band once makes 2 * DepthBands rows, with the inner bands two more.
LEMMA BandsCounted ==
  /\ IsFiniteSet(Bands) /\ Cardinality(Bands) = 2 * DepthBands
  /\ Cardinality(Bands \cup InnerBands) \in 2 * DepthBands .. 2 * DepthBands + 2
<1> DEFINE S == (-DepthBands .. DepthBands) \ {0}
           f == [b \in S |-> 100 * b]
<1>0. DepthBands \in Nat /\ DepthBands > 0
  BY SourceAssumption
<1>1. IsFiniteSet(S) /\ Cardinality(S) = 2 * DepthBands
  <2>1. /\ IsFiniteSet(-DepthBands .. DepthBands)
        /\ Cardinality(-DepthBands .. DepthBands) = 2 * DepthBands + 1
    <3>1. -DepthBands \in Int /\ DepthBands \in Int /\ ~(-DepthBands > DepthBands)
      BY <1>0
    <3>2. DepthBands - (-DepthBands) + 1 = 2 * DepthBands + 1
      BY <1>0
    <3> QED
      BY <3>1, <3>2, FS_Interval
  <2>2. 0 \in -DepthBands .. DepthBands
    BY <1>0
  <2>3. PICK I : I = -DepthBands .. DepthBands
    OBVIOUS
  <2>4. IsFiniteSet(I \ {0}) /\ Cardinality(I \ {0}) = Cardinality(I) - 1
    BY <2>1, <2>2, <2>3, FS_RemoveElement
  <2>5. Cardinality(I) = 2 * DepthBands + 1 /\ S = I \ {0}
    BY <2>1, <2>3
  <2> HIDE DEF S
  <2> QED
    BY <1>0, <2>4, <2>5
<1>2. Bands = {100 * b : b \in S}
  BY DEF Bands
<1>3. \A b \in S : b \in Int
  BY <1>0
<1> HIDE DEF S
<1>4. f \in Injection(S, Bands)
  BY <1>2, <1>3 DEF Injection, IsInjective
<1>5. f \in Surjection(S, Bands)
  BY <1>2, <1>3 DEF Surjection
<1>6. IsFiniteSet(Bands) /\ Cardinality(Bands) = 2 * DepthBands
  BY <1>1, <1>4, <1>5, FS_Surjection
<1>7. IsFiniteSet(InnerBands) /\ Cardinality(InnerBands) = 2
  <2>1. InnerBands = {-20} \cup {20} /\ 20 \notin {-20}
    BY DEF InnerBands
  <2>2. IsFiniteSet({-20}) /\ Cardinality({-20}) = 1
    BY FS_Singleton
  <2> QED
    BY <2>1, <2>2, FS_AddElement
<1>8. /\ Cardinality(Bands \cup InnerBands)
           = Cardinality(Bands) + Cardinality(InnerBands) - Cardinality(Bands \cap InnerBands)
      /\ IsFiniteSet(Bands \cap InnerBands) /\ IsFiniteSet(Bands \cup InnerBands)
  BY <1>6, <1>7, FS_Union, FS_Intersection
<1>9. Cardinality(Bands \cap InnerBands) \in Nat
  BY <1>8, FS_CardinalityType
<1>10. Cardinality(Bands) <= Cardinality(Bands \cup InnerBands) /\ Cardinality(Bands \cup InnerBands) \in Nat
  BY <1>8, FS_Subset, FS_CardinalityType
<1> QED
  BY <1>0, <1>6, <1>7, <1>8, <1>9, <1>10

\* The rows of an event.
LEMMA RowsOfEvent ==
  ASSUME TypeOK, SourceInv, PlaceInv, Parse, NEW s \in Streams, NEW e \in Events, NEW n \in Nat, NEW rest,
         Parsed(s, e, n, rest)
  PROVE  Least(s) <= n /\ n <= Most(s)
<1>1. s = cur /\ n = Len(Block) /\ rows[s] # << >> /\ Takes(table[s], Block) /\ rows[s] \in Seq(Seq(Fields))
  BY DEF Parsed, Parse, AtRow, Parses, TypeOK
<1>2. CASE s \notin Grouped
  <2>1. n = 1
    BY <1>1, <1>2, BlockFacts
  <2> QED
    BY <1>2, <2>1 DEF Least, Most
<1>3. CASE s \in Grouped
  <2>1. TakesDepthGroup(Block)
    BY <1>1, <1>3 DEF Takes, Grouped
  <2>2. \E X \in {Bands, Bands \cup InnerBands} : n = Cardinality(X)
    BY <1>1, <2>1 DEF TakesDepthGroup
  <2>3. n \in 2 * DepthBands .. 2 * DepthBands + 2
    <3>1. CASE n = Cardinality(Bands)
      BY <3>1, BandsCounted, SourceAssumption
    <3>2. CASE n = Cardinality(Bands \cup InnerBands)
      BY <3>2, BandsCounted
    <3> QED
      BY <2>2, <3>1, <3>2
  <2> QED
    BY <1>3, <2>3, SourceAssumption DEF Least, Most
<1> QED
  BY <1>2, <1>3

LEMMA OneMore ==
  ASSUME NEW n \in Nat, NEW k \in Nat
  PROVE  (n + 1) * k = n * k + k /\ n * k \in Nat
OBVIOUS

LEMMA CountTypes ==
  ASSUME TypeOK, SourceInv, NEW s \in Streams
  PROVE  /\ stats[s].rows_parsed \in Nat /\ stats[s].rows_rejected \in Nat /\ stats[s].header_rows \in Nat
         /\ stats[s].blank_rows \in Nat /\ stats[s].files_read \in Nat /\ stats[s].files_failed \in Nat
         /\ stats[s].rows_expected \in Nat /\ Len(rows[s]) \in Nat /\ read_cursor[s] \in Nat
         /\ IsFiniteSet(OutOf(s)) /\ Cardinality(OutOf(s)) \in Nat /\ EventsOf(s) \in Nat
         /\ IsFiniteSet(FilesRead(s)) /\ Cardinality(FilesRead(s)) \in Nat
         /\ Least(s) \in Nat /\ Most(s) \in Nat
<1>1. /\ stats[s].rows_parsed \in Nat /\ stats[s].rows_rejected \in Nat /\ stats[s].header_rows \in Nat
      /\ stats[s].blank_rows \in Nat /\ stats[s].files_read \in Nat /\ stats[s].files_failed \in Nat
      /\ stats[s].rows_expected \in Nat /\ read_cursor[s] \in Nat
  BY DEF TypeOK, GapStats
<1>2. Len(rows[s]) \in Nat
  <2>1. rows[s] \in Seq(Seq(Fields))
    BY DEF TypeOK
  <2> QED
    BY <2>1
<1>3. IsFiniteSet(OutOf(s)) /\ Cardinality(OutOf(s)) \in Nat
  <2>1. Len(out) \in Int
    BY DEF TypeOK
  <2>2. IsFiniteSet(1 .. Len(out))
    BY <2>1, FS_Interval
  <2>3. OutOf(s) \in SUBSET (1 .. Len(out))
    BY DEF OutOf
  <2>4. IsFiniteSet(OutOf(s))
    BY <2>2, <2>3, FS_Subset
  <2> QED
    BY <2>4, FS_CardinalityType
<1>4. EventsOf(s) \in Nat
  BY <1>3 DEF EventsOf
<1>5. IsFiniteSet(FilesRead(s)) /\ Cardinality(FilesRead(s)) \in Nat
  <2>1. IsFiniteSet(1 .. read_cursor[s])
    BY <1>1, FS_Interval
  <2>2. FilesRead(s) \in SUBSET (1 .. read_cursor[s])
    BY DEF FilesRead
  <2>3. IsFiniteSet(FilesRead(s))
    BY <2>1, <2>2, FS_Subset
  <2> QED
    BY <2>3, FS_CardinalityType
<1>6. Least(s) \in Nat /\ Most(s) \in Nat
  BY SourceAssumption DEF Least, Most
<1> QED
  BY <1>1, <1>2, <1>3, <1>4, <1>5, <1>6


LEMMA CountOfKept ==
  ASSUME [Next]_vars, NEW u \in Streams, CountOf(u), Seen(u)' = Seen(u), EventsOf(u)' = EventsOf(u),
         stats'[u].rows_parsed = stats[u].rows_parsed, stats'[u].files_read = stats[u].files_read,
         stats'[u].files_failed = stats[u].files_failed,
         stats'[u].rows_expected = stats[u].rows_expected, read_cursor'[u] = read_cursor[u]
  PROVE  CountOf(u)'
<1>1. table' = table /\ paths' = paths
  BY FixedStep
<1>2. FilesRead(u)' = FilesRead(u)
  BY <1>1 DEF FilesRead
<1>3. RowsRead(u)' = RowsRead(u)
  BY <1>1, <1>2 DEF RowsRead
<1>4. Most(u)' = Most(u) /\ Least(u)' = Least(u)
  BY <1>1 DEF Most, Least, Grouped, Streams
<1>5. AllRegular(u)' <=> AllRegular(u)
  BY <1>1 DEF AllRegular
<1> QED
  BY <1>2, <1>3, <1>4, <1>5 DEF CountOf

\* A file more: its rows are new, and the failed file's room is not used.
LEMMA CountLoad ==
  ASSUME TypeOK, SourceInv, PlaceInv, [Next]_vars, LoadFile, NEW s \in Streams, s = cur, CountOf(s)
  PROVE  CountOf(s)'
<1>1. PICK c \in Nat : c = read_cursor[s] + 1
  BY DEF TypeOK
<1>2. PICK fit : fit = ExpectedRows(table[s], paths[s][c].stamp)
  OBVIOUS
<1>3. PICK got : got = paths[s][c]
  OBVIOUS
<1>4. /\ c \in 1 .. Len(paths[s]) /\ fit \in Nat /\ rows[s] = << >>
      /\ got.rows \in Seq(Seq(Fields)) /\ got.ok \in BOOLEAN
      /\ read_cursor' = [read_cursor EXCEPT ![s] = c]
      /\ got.ok => rows' = [rows EXCEPT ![s] = got.rows]
      /\ ~got.ok => rows' = rows
  BY <1>1, <1>2, <1>3, FileFacts
<1>5. /\ stats'[s].rows_parsed = stats[s].rows_parsed
      /\ stats'[s].rows_rejected = stats[s].rows_rejected
      /\ stats'[s].header_rows = stats[s].header_rows
      /\ stats'[s].blank_rows = stats[s].blank_rows
      /\ stats'[s].rows_expected = stats[s].rows_expected + fit
      /\ stats'[s].files_read = stats[s].files_read + IF got.ok THEN 1 ELSE 0
      /\ stats'[s].files_failed = stats[s].files_failed + IF got.ok THEN 0 ELSE 1
  BY <1>1, <1>2, <1>3, LoadCounts DEF Others
<1>6. table' = table /\ paths' = paths /\ out' = out /\ front' = front
  BY FixedStep DEF LoadFile
<1>7. Most(s)' = Most(s) /\ Least(s)' = Least(s) /\ EventsOf(s)' = EventsOf(s)
      /\ (AllRegular(s)' <=> AllRegular(s))
  BY <1>6 DEF Most, Least, Grouped, Streams, AllRegular, EventsOf, OutOf
<1>8. read_cursor'[s] = c
  BY <1>4 DEF TypeOK
<1>9. /\ stats[s].rows_parsed \in Nat /\ stats[s].rows_rejected \in Nat /\ stats[s].header_rows \in Nat
      /\ stats[s].blank_rows \in Nat /\ stats[s].files_read \in Nat /\ stats[s].files_failed \in Nat
      /\ stats[s].rows_expected \in Nat /\ read_cursor[s] \in Nat
      /\ IsFiniteSet(FilesRead(s)) /\ Cardinality(FilesRead(s)) \in Nat
  BY CountTypes
<1>10. /\ IsFiniteSet(RowsRead(s)) /\ Seen(s) = Cardinality(RowsRead(s))
       /\ EventsOf(s) * Least(s) <= stats[s].rows_parsed /\ stats[s].rows_parsed <= EventsOf(s) * Most(s)
       /\ stats[s].files_read = Cardinality(FilesRead(s))
       /\ stats[s].files_read + stats[s].files_failed = read_cursor[s]
       /\ AllRegular(s) => Seen(s) + stats[s].files_failed <= stats[s].rows_expected
  BY DEF CountOf
<1>11. /\ EventsOf(s)' * Least(s)' <= stats'[s].rows_parsed
       /\ stats'[s].rows_parsed <= EventsOf(s)' * Most(s)'
  BY <1>5, <1>7, <1>10
<1>12. AllRegular(s) => fit > 0 /\ Len(got.rows) <= fit
  BY <1>2, <1>3, <1>4 DEF AllRegular
<1>13. Seen(s) = stats[s].rows_parsed + stats[s].rows_rejected + stats[s].header_rows + stats[s].blank_rows
       /\ Seen(s) \in Nat
  <2>1. Len(rows[s]) = 0
    BY <1>4
  <2>2. Seen(s) = stats[s].rows_parsed + stats[s].rows_rejected + stats[s].header_rows
                    + stats[s].blank_rows + 0
    BY <2>1, Zenon DEF Seen
  <2> QED
    BY <1>9, <2>2
<1>14. Len(got.rows) \in Nat
  BY <1>4
<1>15. CASE got.ok
  <2>1. FilesRead(s)' = FilesRead(s) \cup {c} /\ c \notin FilesRead(s)
    BY <1>1, <1>3, <1>6, <1>8, <1>9, <1>15 DEF FilesRead
  <2>2. IsFiniteSet(FilesRead(s)') /\ Cardinality(FilesRead(s)') = Cardinality(FilesRead(s)) + 1
    <3>1. /\ IsFiniteSet(FilesRead(s) \cup {c})
          /\ Cardinality(FilesRead(s) \cup {c}) = Cardinality(FilesRead(s)) + 1
      BY <1>9, <2>1, FS_AddElement
    <3> QED
      BY <2>1, <3>1, Zenon
  <2> DEFINE D == {c} \X (1 .. Len(got.rows))
  <2>3. RowsRead(s)' = RowsRead(s) \cup D
    BY <1>3, <1>6, <2>1 DEF RowsRead
  <2>4. RowsRead(s) \cap D = {}
    BY <2>1 DEF RowsRead
  <2>5. IsFiniteSet(D) /\ Cardinality(D) = Len(got.rows)
    <3>1. IsFiniteSet({c}) /\ Cardinality({c}) = 1
      BY FS_Singleton
    <3>2. IsFiniteSet(1 .. Len(got.rows)) /\ Cardinality(1 .. Len(got.rows)) = Len(got.rows)
      <4>1. Len(got.rows) \in Int
        BY <1>14
      <4>2. /\ IsFiniteSet(1 .. Len(got.rows))
            /\ Cardinality(1 .. Len(got.rows)) = IF 1 > Len(got.rows) THEN 0 ELSE Len(got.rows) - 1 + 1
        BY <4>1, FS_Interval
      <4> QED
        BY <1>14, <4>2
    <3>3. IsFiniteSet(D) /\ Cardinality(D) = Cardinality({c}) * Cardinality(1 .. Len(got.rows))
      BY <3>1, <3>2, FS_Product
    <3> HIDE DEF D
    <3> QED
      BY <1>14, <3>1, <3>2, <3>3
  <2> HIDE DEF D
  <2>6. /\ IsFiniteSet(RowsRead(s) \cup D)
        /\ Cardinality(RowsRead(s) \cup D) = Cardinality(RowsRead(s)) + Cardinality(D)
    <3>1. Cardinality(RowsRead(s) \cap D) = 0
      BY <2>4, FS_EmptySet
    <3>2. /\ IsFiniteSet(RowsRead(s) \cup D)
          /\ Cardinality(RowsRead(s) \cup D)
               = Cardinality(RowsRead(s)) + Cardinality(D) - Cardinality(RowsRead(s) \cap D)
      BY <1>10, <2>5, FS_Union
    <3> QED
      BY <1>10, <1>13, <1>14, <2>5, <3>1, <3>2
  <2>7. rows'[s] = got.rows
    BY <1>4, <1>15 DEF TypeOK
  <2>8. stats'[s].files_read = stats[s].files_read + 1 /\ stats'[s].files_failed = stats[s].files_failed
    <3>1. (IF got.ok THEN 1 ELSE 0) = 1 /\ (IF got.ok THEN 0 ELSE 1) = 0
      BY <1>15, Zenon
    <3> QED
      BY <1>5, <1>9, <3>1
  <2>9. Seen(s)' = Seen(s) + Len(got.rows)
    <3>1. Seen(s)' = stats'[s].rows_parsed + stats'[s].rows_rejected + stats'[s].header_rows
                        + stats'[s].blank_rows + Len(got.rows)
      BY <2>7 DEF Seen
    <3> QED
      BY <1>5, <1>13, <3>1
  <2>10. IsFiniteSet(RowsRead(s)') /\ Seen(s)' = Cardinality(RowsRead(s)')
    BY <1>10, <2>3, <2>5, <2>6, <2>9
  <2>11. AllRegular(s)' => Seen(s)' + stats'[s].files_failed <= stats'[s].rows_expected
    <3> SUFFICES ASSUME AllRegular(s)
                 PROVE  Seen(s)' + stats'[s].files_failed <= stats'[s].rows_expected
      BY <1>7, Zenon
    <3>1. Seen(s) + stats[s].files_failed <= stats[s].rows_expected /\ Len(got.rows) <= fit
      BY <1>10, <1>12, Zenon
    <3>2. PICK k, f, x, l \in Nat :
             /\ k = Seen(s) /\ f = stats[s].files_failed /\ x = stats[s].rows_expected
             /\ l = Len(got.rows)
      BY <1>9, <1>13, <1>14, Zenon
    <3>3. /\ k + f <= x /\ l <= fit /\ Seen(s)' = k + l /\ stats'[s].files_failed = f
          /\ stats'[s].rows_expected = x + fit
      BY <1>5, <2>8, <2>9, <3>1, <3>2, Zenon
    <3>4. (k + l) + f <= x + fit
      BY <1>4, <3>3
    <3> QED
      BY <3>3, <3>4, Zenon
  <2>12. /\ stats'[s].files_read = Cardinality(FilesRead(s)')
         /\ stats'[s].files_read + stats'[s].files_failed = read_cursor'[s]
    BY <1>1, <1>8, <1>9, <1>10, <2>2, <2>8
  <2> QED
    BY <1>11, <2>10, <2>11, <2>12 DEF CountOf
<1>16. CASE ~got.ok
  <2>1. FilesRead(s)' = FilesRead(s)
    BY <1>1, <1>3, <1>6, <1>8, <1>9, <1>16 DEF FilesRead
  <2>2. RowsRead(s)' = RowsRead(s)
    BY <1>6, <2>1 DEF RowsRead
  <2>3. rows'[s] = rows[s]
    BY <1>4, <1>16
  <2>4. Seen(s)' = Seen(s)
    BY <1>5, <2>3 DEF Seen
  <2>8. stats'[s].files_read = stats[s].files_read /\ stats'[s].files_failed = stats[s].files_failed + 1
    <3>1. (IF got.ok THEN 1 ELSE 0) = 0 /\ (IF got.ok THEN 0 ELSE 1) = 1
      BY <1>16, Zenon
    <3> QED
      BY <1>5, <1>9, <3>1
  <2>11. AllRegular(s)' => Seen(s)' + stats'[s].files_failed <= stats'[s].rows_expected
    <3> SUFFICES ASSUME AllRegular(s)
                 PROVE  Seen(s)' + stats'[s].files_failed <= stats'[s].rows_expected
      BY <1>7, Zenon
    <3>1. Seen(s) + stats[s].files_failed <= stats[s].rows_expected /\ fit > 0
      BY <1>10, <1>12, Zenon
    <3>2. PICK k, f, x \in Nat : k = Seen(s) /\ f = stats[s].files_failed /\ x = stats[s].rows_expected
      BY <1>9, <1>13, Zenon
    <3>3. /\ k + f <= x /\ Seen(s)' = k /\ stats'[s].files_failed = f + 1
          /\ stats'[s].rows_expected = x + fit
      BY <1>5, <2>4, <2>8, <3>1, <3>2, Zenon
    <3>4. k + (f + 1) <= x + fit
      BY <1>4, <3>1, <3>3
    <3> QED
      BY <3>3, <3>4, Zenon
  <2>12. /\ stats'[s].files_read = Cardinality(FilesRead(s)')
         /\ stats'[s].files_read + stats'[s].files_failed = read_cursor'[s]
    BY <1>1, <1>8, <1>9, <1>10, <2>1, <2>8
  <2> QED
    BY <1>10, <1>11, <2>2, <2>4, <2>11, <2>12 DEF CountOf
<1> QED
  BY <1>4, <1>15, <1>16

\* An event more: its rows are between the least and the most of one event.
LEMMA CountParse ==
  ASSUME TypeOK, SourceInv, PlaceInv, [Next]_vars, Parse, NEW s \in Streams, NEW e \in Events, NEW n \in Nat,
         NEW rest \in Seq(Seq(Fields)), Parsed(s, e, n, rest), Counted(s, e, n), CountOf(s)
  PROVE  CountOf(s)'
<1>1. table' = table /\ paths' = paths /\ out' = out /\ read_cursor' = read_cursor
  BY FixedStep DEF Parse
<1>2. front[s] = None /\ front'[s] = e /\ rows'[s] = rest /\ Len(rows[s]) = n + Len(rest)
  BY CurFacts DEF Parsed, Parse, AtRow, TypeOK
<1>3. e # None
  BY SourceAssumption DEF Events, Streams
<1>4. OutOf(s)' = OutOf(s) /\ FilesRead(s)' = FilesRead(s) /\ RowsRead(s)' = RowsRead(s)
  BY <1>1 DEF OutOf, FilesRead, RowsRead
<1>5. Most(s)' = Most(s) /\ Least(s)' = Least(s) /\ (AllRegular(s)' <=> AllRegular(s))
  BY <1>1 DEF Most, Least, Grouped, Streams, AllRegular
<1>6. /\ stats[s].rows_parsed \in Nat /\ stats[s].rows_rejected \in Nat /\ stats[s].header_rows \in Nat
      /\ stats[s].blank_rows \in Nat /\ Cardinality(OutOf(s)) \in Nat /\ EventsOf(s) \in Nat
      /\ Least(s) \in Nat /\ Most(s) \in Nat /\ Len(rest) \in Nat
  BY CountTypes
<1>7. EventsOf(s)' = EventsOf(s) + 1
  <2>1. EventsOf(s) = Cardinality(OutOf(s)) + 0
    BY <1>2 DEF EventsOf
  <2>2. EventsOf(s)' = Cardinality(OutOf(s)) + 1
    BY <1>2, <1>3, <1>4 DEF EventsOf
  <2> QED
    BY <1>6, <2>1, <2>2
<1>8. Least(s) <= n /\ n <= Most(s)
  BY RowsOfEvent
<1>9. /\ stats'[s].rows_parsed = stats[s].rows_parsed + n
      /\ stats'[s].rows_rejected = stats[s].rows_rejected
      /\ stats'[s].header_rows = stats[s].header_rows
      /\ stats'[s].blank_rows = stats[s].blank_rows
      /\ stats'[s].rows_expected = stats[s].rows_expected
      /\ stats'[s].files_read = stats[s].files_read
      /\ stats'[s].files_failed = stats[s].files_failed
  BY ParseCounts
<1>10. Seen(s)' = Seen(s)
  <2>1. Seen(s) = stats[s].rows_parsed + stats[s].rows_rejected + stats[s].header_rows
                    + stats[s].blank_rows + (n + Len(rest))
    BY <1>2, Zenon DEF Seen
  <2>2. Seen(s)' = (stats[s].rows_parsed + n) + stats[s].rows_rejected + stats[s].header_rows
                    + stats[s].blank_rows + Len(rest)
    BY <1>2, <1>9, Zenon DEF Seen
  <2>3. PICK a, b, c, d, l \in Nat :
            /\ a = stats[s].rows_parsed /\ b = stats[s].rows_rejected /\ c = stats[s].header_rows
            /\ d = stats[s].blank_rows /\ l = Len(rest)
    BY <1>6, Zenon
  <2>4. Seen(s) = a + b + c + d + (n + l) /\ Seen(s)' = (a + n) + b + c + d + l
    BY <2>1, <2>2, <2>3, Zenon
  <2> QED
    BY <2>4
<1>11. /\ EventsOf(s) * Least(s) <= stats[s].rows_parsed /\ stats[s].rows_parsed <= EventsOf(s) * Most(s)
  BY DEF CountOf
<1>12. /\ EventsOf(s)' * Least(s)' <= stats'[s].rows_parsed
       /\ stats'[s].rows_parsed <= EventsOf(s)' * Most(s)'
  <2>1. /\ EventsOf(s)' * Least(s)' = EventsOf(s) * Least(s) + Least(s) /\ EventsOf(s) * Least(s) \in Nat
        /\ EventsOf(s)' * Most(s)' = EventsOf(s) * Most(s) + Most(s) /\ EventsOf(s) * Most(s) \in Nat
    BY <1>5, <1>6, <1>7, OneMore, Zenon
  <2>2. PICK a \in Nat, b \in Nat : a = EventsOf(s) * Least(s) /\ b = EventsOf(s) * Most(s)
    BY <2>1, Zenon
  <2>3. PICK p \in Nat, lo \in Nat, hi \in Nat : p = stats[s].rows_parsed /\ lo = Least(s) /\ hi = Most(s)
    BY <1>6, Zenon
  <2>4. a <= p /\ p <= b /\ lo <= n /\ n <= hi
    BY <1>8, <1>11, <2>2, <2>3, Zenon
  <2>5. a + lo <= p + n /\ p + n <= b + hi
    BY <2>4
  <2> QED
    BY <1>9, <2>1, <2>2, <2>3, <2>5, Zenon
<1> QED
  BY <1>1, <1>4, <1>5, <1>9, <1>10, <1>12 DEF CountOf

\* An event handed out is still an event of its stream.
LEMMA CountEvent ==
  ASSUME TypeOK, SourceInv, PlaceInv, [Next]_vars, AnswerEvent, NEW u \in Streams
  PROVE  EventsOf(u)' = EventsOf(u)
<1>1. PICK top \in heap : out' = Append(out, front[top[3]]) /\ front' = [front EXCEPT ![top[3]] = None]
  BY DEF AnswerEvent
<1>2. PICK t \in Streams : t = top[3]
  BY HeapFacts
<1>3. front[t] # None /\ front[t] \in Events /\ front[t].stream = t
  BY <1>2, HeapFacts
<1>4. PICK k \in Nat : k = Len(out)
  BY DEF TypeOK
<1>5. /\ Len(out') = k + 1 /\ out'[k + 1].stream = t
      /\ \A i \in 1 .. k : out'[i] = out[i]
  BY <1>1, <1>2, <1>3, <1>4 DEF TypeOK
<1>6. IsFiniteSet(OutOf(u)) /\ Cardinality(OutOf(u)) \in Nat
  BY CountTypes
<1>7. CASE u = t
  <2>1. OutOf(u)' = OutOf(u) \cup {k + 1} /\ k + 1 \notin OutOf(u)
    BY <1>4, <1>5, <1>7 DEF OutOf
  <2>2. Cardinality(OutOf(u)') = Cardinality(OutOf(u)) + 1
    BY <1>6, <2>1, FS_AddElement
  <2>3. front'[u] = None
    BY <1>1, <1>2, <1>7 DEF TypeOK
  <2>4. EventsOf(u)' = Cardinality(OutOf(u)') + 0 /\ EventsOf(u) = Cardinality(OutOf(u)) + 1
    BY <1>3, <1>7, <2>3 DEF EventsOf
  <2> QED
    BY <1>6, <2>2, <2>4
<1>8. CASE u # t
  <2>1. OutOf(u)' = OutOf(u)
    BY <1>4, <1>5, <1>8 DEF OutOf
  <2>2. front'[u] = front[u]
    BY <1>1, <1>2, <1>8 DEF TypeOK
  <2> QED
    BY <2>1, <2>2 DEF EventsOf
<1> QED
  BY <1>7, <1>8


LEMMA CountStep ==
  ASSUME TypeOK, SourceInv, PlaceInv, CountInv, [Next]_vars
  PROVE  CountInv'
<1>0. Streams' = Streams
  BY FixedStep DEF Streams
<1> SUFFICES ASSUME NEW u \in Streams PROVE CountOf(u)'
  BY <1>0 DEF CountInv
<1>1. CountOf(u)
  BY DEF CountInv
<1>2. CASE LoadFile
  <2>1. PICK s \in Streams : s = cur
    BY <1>2, CurFacts DEF LoadFile
  <2>2. CASE u = s
    BY <1>1, <1>2, <2>1, <2>2, CountLoad
  <2>3. CASE u # s
    <3>1. PICK c \in Nat : c = read_cursor[s] + 1
      BY DEF TypeOK
    <3>2. stats'[u] = stats[u]
      BY <1>2, <2>1, <2>3, <3>1, LoadCounts
    <3>3. rows'[u] = rows[u] /\ read_cursor'[u] = read_cursor[u] /\ out' = out /\ front' = front
      BY <1>2, <2>1, <2>3 DEF LoadFile, TypeOK
    <3>4. Seen(u)' = Seen(u) /\ EventsOf(u)' = EventsOf(u)
      BY <3>2, <3>3 DEF Seen, EventsOf, OutOf
    <3> QED
      BY <1>1, <3>2, <3>3, <3>4, CountOfKept
  <2> QED
    BY <2>2, <2>3
<1>3. CASE SkipRow \/ RejectRows
  <2>1. PICK s \in Streams, n \in Nat, rest \in Seq(Seq(Fields)) :
            /\ s = cur /\ Len(rows[s]) = n + Len(rest) /\ rows' = [rows EXCEPT ![s] = rest]
            /\ \A w \in Streams : w # s => stats'[w] = stats[w]
            /\ Others(stats[s], stats'[s])
            /\ stats'[s].rows_rejected + stats'[s].header_rows + stats'[s].blank_rows
                  = stats[s].rows_rejected + stats[s].header_rows + stats[s].blank_rows + n
            /\ stats'[s].rows_expected = stats[s].rows_expected
            /\ stats'[s].files_read = stats[s].files_read
            /\ stats'[s].files_failed = stats[s].files_failed
    BY <1>3, DropCounts
  <2>2. out' = out /\ front' = front /\ read_cursor' = read_cursor
    BY <1>3 DEF SkipRow, RejectRows
  <2>3. EventsOf(u)' = EventsOf(u)
    BY <2>2 DEF EventsOf, OutOf
  <2>4. CASE u # s
    <3>1. rows'[u] = rows[u] /\ stats'[u] = stats[u]
      BY <2>1, <2>4 DEF TypeOK
    <3>2. Seen(u)' = Seen(u)
      BY <3>1 DEF Seen
    <3> QED
      BY <1>1, <2>2, <2>3, <3>1, <3>2, CountOfKept
  <2>5. CASE u = s
    <3>1. rows'[u] = rest /\ stats'[u].rows_parsed = stats[u].rows_parsed
      BY <2>1, <2>5 DEF TypeOK, Others
    <3>2. /\ stats[u].rows_parsed \in Nat /\ stats[u].rows_rejected \in Nat /\ stats[u].header_rows \in Nat
          /\ stats[u].blank_rows \in Nat /\ Len(rest) \in Nat
      BY CountTypes
    <3>3. /\ stats'[u].rows_rejected \in Nat /\ stats'[u].header_rows \in Nat
          /\ stats'[u].blank_rows \in Nat
      <4>1. TypeOK'
        BY TypeStep
      <4>2. stats'[u] \in GapStats
        BY <1>0, <4>1 DEF TypeOK
      <4> QED
        BY <4>2 DEF GapStats
    <3>4. PICK p, a, b, c, x, y, z, l \in Nat :
             /\ p = stats[u].rows_parsed /\ a = stats[u].rows_rejected /\ b = stats[u].header_rows
             /\ c = stats[u].blank_rows /\ x = stats'[u].rows_rejected /\ y = stats'[u].header_rows
             /\ z = stats'[u].blank_rows /\ l = Len(rest)
      BY <3>2, <3>3, Zenon
    <3>5. Seen(u) = stats[u].rows_parsed + stats[u].rows_rejected + stats[u].header_rows
                      + stats[u].blank_rows + (n + Len(rest))
      BY <2>1, <2>5, Zenon DEF Seen
    <3>6. Seen(u)' = stats[u].rows_parsed + stats'[u].rows_rejected + stats'[u].header_rows
                      + stats'[u].blank_rows + Len(rest)
      BY <3>1, Zenon DEF Seen
    <3>7. stats'[u].rows_rejected + stats'[u].header_rows + stats'[u].blank_rows
             = stats[u].rows_rejected + stats[u].header_rows + stats[u].blank_rows + n
      BY <2>1, <2>5, Zenon
    <3>8. Seen(u)' = Seen(u)
      <4>1. /\ Seen(u) = p + a + b + c + (n + l) /\ Seen(u)' = p + x + y + z + l
            /\ x + y + z = a + b + c + n
        BY <3>4, <3>5, <3>6, <3>7, Zenon
      <4> QED
        BY <4>1
    <3> QED
      BY <1>1, <2>1, <2>2, <2>3, <2>5, <3>1, <3>8, CountOfKept
  <2> QED
    BY <2>4, <2>5
<1>4. CASE Parse
  <2>1. PICK s \in Streams, e \in Events, n \in Nat, rest \in Seq(Seq(Fields)) :
            Parsed(s, e, n, rest) /\ Counted(s, e, n)
    BY <1>4, ParsedFacts
  <2>2. CASE u = s
    BY <1>1, <1>4, <2>1, <2>2, CountParse
  <2>3. CASE u # s
    <3>1. stats'[u] = stats[u]
      BY <2>1, <2>3, ParseCounts
    <3>2. rows'[u] = rows[u] /\ front'[u] = front[u] /\ out' = out /\ read_cursor' = read_cursor
      BY <1>4, <2>1, <2>3 DEF Parsed, Parse, TypeOK
    <3>3. Seen(u)' = Seen(u) /\ EventsOf(u)' = EventsOf(u)
      BY <3>1, <3>2 DEF Seen, EventsOf, OutOf
    <3> QED
      BY <1>1, <3>1, <3>2, <3>3, CountOfKept
  <2> QED
    BY <2>2, <2>3
<1>5. CASE AnswerEvent
  <2>1. EventsOf(u)' = EventsOf(u)
    BY <1>5, CountEvent
  <2>2. rows' = rows /\ stats' = stats /\ read_cursor' = read_cursor
    BY <1>5 DEF AnswerEvent, streamVars
  <2>3. Seen(u)' = Seen(u)
    BY <2>2 DEF Seen
  <2> QED
    BY <1>1, <2>1, <2>2, <2>3, CountOfKept
<1>6. CASE ~LoadFile /\ ~SkipRow /\ ~RejectRows /\ ~Parse /\ ~AnswerEvent
  <2>1. rows' = rows /\ stats' = stats /\ read_cursor' = read_cursor /\ out' = out /\ front' = front
    BY <1>6, Steps, Zenon DEF Land, Call, Visit, Starved, AnswerNoData, AnswerEof, vars, streamVars
  <2>2. Seen(u)' = Seen(u) /\ EventsOf(u)' = EventsOf(u)
    BY <2>1 DEF Seen, EventsOf, OutOf
  <2> QED
    BY <1>1, <2>1, <2>2, CountOfKept
<1> QED
  BY <1>2, <1>3, <1>4, <1>5, <1>6

-----------------------------------------------------------------------------
(* The invariant.                                                          *)

\* Nothing is read, counted or handed out in the first state.
LEMMA InitCounts ==
  ASSUME Init
  PROVE  OrderInv /\ TapeInv /\ CountInv
<1>1. TypeOK /\ SourceInv /\ PlaceInv
  BY InitFacts
<1>2. /\ out = << >> /\ front = [s \in Streams |-> None] /\ last_sequence = [s \in Streams |-> None]
      /\ rows = [s \in Streams |-> << >>] /\ read_cursor = [s \in Streams |-> 0]
      /\ stats = [s \in Streams |-> [NoStats EXCEPT !.files_planned = Len(paths[s])]]
  BY DEF Init
<1>3. Len(out) = 0 /\ StepsBack = {} /\ \A s \in Streams : OutOf(s) = {}
  BY <1>2 DEF StepsBack, OutOf
<1>4. IsFiniteSet({}) /\ Cardinality({}) = 0
  BY FS_EmptySet
<1>5. \A s \in Streams :
         /\ front[s] = None /\ rows[s] = << >> /\ read_cursor[s] = 0
         /\ stats[s].rows_parsed = 0 /\ stats[s].rows_rejected = 0 /\ stats[s].header_rows = 0
         /\ stats[s].blank_rows = 0 /\ stats[s].files_read = 0 /\ stats[s].files_failed = 0
         /\ stats[s].rows_expected = 0 /\ stats[s].backwards_stamps = 0
  BY <1>2 DEF NoStats
<1>6. OrderInv
  <2>1. \A s \in Streams : StepsBackOf(s) = {} /\ ~NextStepsBack(s)
    BY <1>3 DEF StepsBackOf, NextStepsBack
  <2>2. SettledInv
    BY <1>3 DEF SettledInv
  <2>3. ASSUME NEW s \in Streams
        PROVE  Cardinality(StepsBackOf(s)) + (IF NextStepsBack(s) THEN 1 ELSE 0)
                  <= stats[s].backwards_stamps
    <3>1. Cardinality(StepsBackOf(s)) = 0 /\ (IF NextStepsBack(s) THEN 1 ELSE 0) = 0
      BY <1>4, <2>1, Zenon
    <3>2. stats[s].backwards_stamps = 0
      BY <1>5
    <3> QED
      BY <3>1, <3>2
  <2>4. StampInv
    <3>1. ~(Len(out) > 0) /\ \A s \in Streams : front[s] = None
      BY <1>3, <1>5
    <3> QED
      BY <2>3, <3>1, Zenon DEF StampInv
  <2> QED
    BY <1>3, <2>2, <2>4 DEF OrderInv
<1>7. TapeInv
  <2>1. Sequenced \subseteq Streams
    BY DEF Sequenced
  <2> QED
    BY <1>3, <1>5, <2>1 DEF TapeInv, MissingTapeShows
<1>8. ASSUME NEW s \in Streams PROVE CountOf(s)
  <2>1. FilesRead(s) = {}
    BY <1>5 DEF FilesRead
  <2>2. RowsRead(s) = {}
    BY <2>1 DEF RowsRead
  <2>3. Seen(s) = 0
    <3>1. Len(rows[s]) = 0
      BY <1>5
    <3> QED
      BY <1>5, <3>1 DEF Seen
  <2>4. EventsOf(s) = 0
    <3>1. Cardinality(OutOf(s)) = 0 /\ (IF front[s] = None THEN 0 ELSE 1) = 0
      BY <1>3, <1>4, <1>5, Zenon
    <3> QED
      BY <3>1 DEF EventsOf
  <2>5. Least(s) \in Nat /\ Most(s) \in Nat
    BY <1>1, CountTypes
  <2>6. EventsOf(s) * Least(s) = 0 /\ EventsOf(s) * Most(s) = 0
    BY <2>4, <2>5
  <2> QED
    BY <1>4, <1>5, <2>1, <2>2, <2>3, <2>6 DEF CountOf
<1> QED
  BY <1>6, <1>7, <1>8 DEF CountInv

LEMMA SourceInvariant == Spec => []IInv
<1>1. Init => IInv
  BY InitFacts, InitCounts DEF IInv
<1>2. IInv /\ [Next]_vars => IInv'
  <2> SUFFICES ASSUME IInv, [Next]_vars PROVE IInv'
    OBVIOUS
  <2>1. TypeOK /\ SourceInv /\ PlaceInv /\ OrderInv /\ TapeInv /\ CountInv
    BY DEF IInv
  <2>2. TypeOK'
    BY <2>1, TypeStep
  <2>3. SourceInv'
    BY <2>1, SourceStep
  <2>4. PlaceInv'
    BY <2>1, PlaceStep
  <2>5. OrderInv'
    BY <2>1, OrderKept, OrderParse, OrderEvent
  <2>6. TapeInv' /\ CountInv'
    BY <2>1, TapeStep, CountStep
  <2> QED
    BY <2>2, <2>3, <2>4, <2>5, <2>6 DEF IInv
<1> QED
  BY <1>1, <1>2, PTL DEF Spec

\* Whatever the universe, the listings and the files: streams, slots, counters,
\* heap and pending_ keep their types, and the compaction of pending_ in next()
\* stays behind the entry being visited.
THEOREM SourceTyped == Spec => []TypeOK
<1>1. IInv => TypeOK
  BY DEF IInv
<1> QED
  BY <1>1, SourceInvariant, PTL

\* In whatever order files land between the refills, what next() hands out
\* ascends by stamp, bars last and then by index, but for backwards stamps of
\* one stream's own files, each of them counted.
THEOREM MergesInOrder == Spec => []MergedInOrder
<1>1. IInv => MergedInOrder
  <2> SUFFICES ASSUME IInv, NEW s \in Streams
               PROVE  Cardinality(StepsBackOf(s)) <= stats[s].backwards_stamps
    BY DEF MergedInOrder, IInv, OrderInv, StepsBackOf
  <2>1. TypeOK /\ StampInv
    BY DEF IInv, OrderInv
  <2>2. stats[s].backwards_stamps \in Nat
    BY <2>1 DEF TypeOK, GapStats
  <2>3. Cardinality(StepsBackOf(s)) \in Nat
    BY <2>1, StepsFinite
  <2>4. Cardinality(StepsBackOf(s)) + (IF NextStepsBack(s) THEN 1 ELSE 0) <= stats[s].backwards_stamps
    BY <2>1 DEF StampInv
  <2>5. (IF NextStepsBack(s) THEN 1 ELSE 0) \in {0, 1}
    BY Zenon
  <2> QED
    BY <2>2, <2>3, <2>4, <2>5
<1> QED
  BY <1>1, SourceInvariant, PTL

\* Between two calls of next() every stream is in the heap, in pending_ or
\* dropped as finished, never in two of them, and Eof means all are finished.
THEOREM StreamsInOnePlace == Spec => []OnePlace
<1>1. IInv => OnePlace
  BY PlaceImpliesOnePlace DEF IInv
<1> QED
  BY <1>1, SourceInvariant, PTL

\* A stream whose sequence_gaps is 0 has handed out ids that follow one another,
\* whatever files failed, came late or came empty.
THEOREM TapeShows == Spec => []MissingTapeShows
<1>1. IInv => MissingTapeShows
  BY DEF IInv, TapeInv
<1> QED
  BY <1>1, SourceInvariant, PTL

\* The counters of every stream balance: rows parsed, rejected, skipped and
\* buffered are the rows of the files read, the parsed ones are those of its
\* events, and a failed file shows as rows_parsed below rows_expected.
THEOREM RowsBalance == Spec => []RowsAddUp
<1>1. IInv => RowsAddUp
  <2> SUFFICES ASSUME IInv, NEW s \in Streams
               PROVE  /\ Seen(s) = Cardinality(RowsRead(s))
                      /\ stats[s].rows_parsed \in EventsOf(s) * Least(s) .. EventsOf(s) * Most(s)
                      /\ stats[s].files_read = Cardinality(FilesRead(s))
                      /\ stats[s].files_read + stats[s].files_failed = read_cursor[s]
                      /\ stats[s].files_failed > 0 /\ AllRegular(s) =>
                            stats[s].rows_parsed < stats[s].rows_expected
    BY Zenon DEF RowsAddUp, Seen, EventsOf, Least, Most, AllRegular
  <2>1. TypeOK /\ SourceInv /\ CountOf(s)
    BY DEF IInv, CountInv
  <2>2. /\ Seen(s) = Cardinality(RowsRead(s))
        /\ EventsOf(s) * Least(s) <= stats[s].rows_parsed /\ stats[s].rows_parsed <= EventsOf(s) * Most(s)
        /\ stats[s].files_read = Cardinality(FilesRead(s))
        /\ stats[s].files_read + stats[s].files_failed = read_cursor[s]
        /\ AllRegular(s) => Seen(s) + stats[s].files_failed <= stats[s].rows_expected
    BY <2>1 DEF CountOf
  <2>3. /\ stats[s].rows_parsed \in Nat /\ stats[s].rows_rejected \in Nat /\ stats[s].header_rows \in Nat
        /\ stats[s].blank_rows \in Nat /\ stats[s].files_failed \in Nat /\ Len(rows[s]) \in Nat
        /\ stats[s].rows_expected \in Nat
        /\ EventsOf(s) \in Nat /\ Least(s) \in Nat /\ Most(s) \in Nat
    BY <2>1, CountTypes
  <2>4. stats[s].rows_parsed <= Seen(s) /\ Seen(s) \in Nat
    <3>1. Seen(s) = stats[s].rows_parsed + stats[s].rows_rejected + stats[s].header_rows
                      + stats[s].blank_rows + Len(rows[s])
      BY Zenon DEF Seen
    <3>2. PICK a, b, c, d, l \in Nat :
             /\ a = stats[s].rows_parsed /\ b = stats[s].rows_rejected /\ c = stats[s].header_rows
             /\ d = stats[s].blank_rows /\ l = Len(rows[s])
      BY <2>3, Zenon
    <3>3. a <= a + b + c + d + l /\ a + b + c + d + l \in Nat
      OBVIOUS
    <3> QED
      BY <3>1, <3>2, <3>3, Zenon
  <2>5. stats[s].files_failed > 0 /\ AllRegular(s) => stats[s].rows_parsed < stats[s].rows_expected
    <3> SUFFICES ASSUME stats[s].files_failed > 0, AllRegular(s)
                 PROVE  stats[s].rows_parsed < stats[s].rows_expected
      BY Zenon
    <3>1. Seen(s) + stats[s].files_failed <= stats[s].rows_expected
      BY <2>2, Zenon
    <3>2. \A p, n, f, x \in Nat : p <= n /\ f > 0 /\ n + f <= x => p < x
      OBVIOUS
    <3> QED
      BY <2>3, <2>4, <3>1, <3>2, Zenon
  <2>6. stats[s].rows_parsed \in EventsOf(s) * Least(s) .. EventsOf(s) * Most(s)
    <3>1. EventsOf(s) * Least(s) \in Nat /\ EventsOf(s) * Most(s) \in Nat
      BY <2>3
    <3>2. \A lo, hi, p \in Nat : lo <= p /\ p <= hi => p \in lo .. hi
      OBVIOUS
    <3> QED
      BY <2>2, <2>3, <3>1, <3>2, Zenon
  <2> QED
    BY <2>2, <2>5, <2>6, Zenon
<1> QED
  BY <1>1, SourceInvariant, PTL

-----------------------------------------------------------------------------
(* The trial ledger.                                                       *)

Files == [rows : Memories, whole : BOOLEAN]

\* The largest of some of the first n numbers.
LEMMA MaxIn ==
  ASSUME NEW n \in Nat, NEW S \in SUBSET (1 .. n), S # {}
  PROVE  Max(S) \in S /\ \A y \in S : y <= Max(S)
<1> DEFINE D == {d \in Nat : n - d \in S}
<1>1. PICK x \in S : TRUE
  OBVIOUS
<1>2. n - x \in D
  OBVIOUS
<1>2a. D \subseteq Nat
  OBVIOUS
<1> HIDE DEF D
<1>3. PICK d \in D : \A e \in D : ~(<<e, d>> \in OpToRel(<, Nat))
  BY <1>2, <1>2a, WFMin, NatLessThanWellFounded
<1> USE DEF D
<1>4. \A e \in D : d <= e
  <2> SUFFICES ASSUME NEW e \in D, e < d PROVE FALSE
    OBVIOUS
  <2>1. <<e, d>> \in {ss \in Nat \X Nat : ss[1] < ss[2]}
    OBVIOUS
  <2> QED
    BY <1>3, <2>1 DEF OpToRel
<1>5. n - d \in S /\ \A y \in S : n - d >= y
  <2>1. SUFFICES ASSUME NEW y \in S PROVE n - d >= y
    BY <1>3
  <2>2. n - y \in D
    OBVIOUS
  <2>3. d <= n - y
    BY <1>4, <2>2, Zenon
  <2> QED
    BY <2>3
<1>6. \E z \in S : \A y \in S : z >= y
  BY <1>5
<1>7. Max(S) \in S /\ \A y \in S : Max(S) >= y
  BY <1>6, Zenon DEF Max
<1> QED
  BY <1>7

LEMMA FolderType ==
  ASSUME NEW fs \in Seq(Files), NEW k \in Trials
  PROVE  InFolder(fs, k) \in Digests \cup {NoDigest}
<1>1. Len(fs) \in Nat /\ Having(fs, k) \in SUBSET (1 .. Len(fs))
  BY DEF Having
<1>2. Having(fs, k) # {} => Max(Having(fs, k)) \in 1 .. Len(fs)
  BY <1>1, MaxIn
<1>3. \A i \in 1 .. Len(fs) : fs[i].rows[k] \in Digests \cup {NoDigest}
  <2> SUFFICES ASSUME NEW i \in 1 .. Len(fs) PROVE fs[i].rows[k] \in Digests \cup {NoDigest}
    OBVIOUS
  <2>1. fs[i] \in Files
    OBVIOUS
  <2> QED
    BY <2>1 DEF Files, Memories
<1> QED
  BY <1>2, <1>3 DEF InFolder

\* Folders of as many files with the same rows show the same.
LEMMA FolderSame ==
  ASSUME NEW fs \in Seq(Files), NEW gs \in Seq(Files), Len(gs) = Len(fs),
         \A i \in 1 .. Len(fs) : gs[i].rows = fs[i].rows, NEW k \in Trials
  PROVE  InFolder(gs, k) = InFolder(fs, k)
<1>1. DOMAIN fs = 1 .. Len(fs) /\ DOMAIN gs = 1 .. Len(fs) /\ Len(fs) \in Nat
  OBVIOUS
<1>2. Having(gs, k) = Having(fs, k) /\ Having(fs, k) \in SUBSET (1 .. Len(fs))
  BY <1>1 DEF Having
<1>3. Having(fs, k) # {} => Max(Having(fs, k)) \in Having(fs, k)
  BY <1>1, <1>2, MaxIn
<1> QED
  BY <1>2, <1>3 DEF InFolder

\* One more file replaces the records of the trials it holds, and no others.
LEMMA FolderGrows ==
  ASSUME NEW fs \in Seq(Files), NEW f \in Files, NEW k \in Trials
  PROVE  InFolder(Append(fs, f), k) = IF f.rows[k] # NoDigest THEN f.rows[k] ELSE InFolder(fs, k)
<1> DEFINE gs == Append(fs, f)
           n == Len(fs) + 1
<1>1. gs \in Seq(Files) /\ Len(gs) = n /\ gs[n] = f /\ Len(fs) \in Nat /\ n \in Nat
  OBVIOUS
<1>2. \A i \in 1 .. Len(fs) : gs[i] = fs[i]
  OBVIOUS
<1>3. DOMAIN gs = 1 .. n /\ DOMAIN fs = 1 .. Len(fs)
  BY <1>1
<1> HIDE DEF gs
<1>4. \A i \in 1 .. n : i \in 1 .. Len(fs) \/ i = n
  BY <1>1
<1>5. Having(gs, k) = Having(fs, k) \cup (IF f.rows[k] # NoDigest THEN {n} ELSE {})
  <2>1. 1 .. Len(fs) \subseteq 1 .. n /\ n \in 1 .. n
    BY <1>1
  <2>2. n \notin 1 .. Len(fs)
    BY <1>1
  <2> HIDE DEF n
  <2> QED
    BY <1>1, <1>2, <1>3, <1>4, <2>1, <2>2 DEF Having
<1>6. CASE f.rows[k] # NoDigest
  <2>1. n \in Having(gs, k) /\ Having(gs, k) \in SUBSET (1 .. n)
    BY <1>3, <1>5, <1>6 DEF Having
  <2>2. Max(Having(gs, k)) \in 1 .. n /\ n <= Max(Having(gs, k))
    BY <1>1, <2>1, MaxIn
  <2>3. Max(Having(gs, k)) = n
    BY <1>1, <2>2
  <2>4. InFolder(gs, k) = gs[n].rows[k]
    BY <2>1, <2>3 DEF InFolder
  <2> QED
    BY <1>1, <1>6, <2>4 DEF gs
<1>7. CASE ~(f.rows[k] # NoDigest)
  <2>1. Having(gs, k) = Having(fs, k) /\ Having(fs, k) \in SUBSET (1 .. Len(fs))
    BY <1>3, <1>5, <1>7 DEF Having
  <2>2. Having(fs, k) # {} => Max(Having(fs, k)) \in 1 .. Len(fs)
    BY <1>1, <2>1, MaxIn
  <2>3. InFolder(gs, k) = InFolder(fs, k)
    BY <1>2, <2>1, <2>2 DEF InFolder
  <2> QED
    BY <1>7, <2>3 DEF gs
<1> QED
  BY <1>6, <1>7

\* Only a process that has the ledger open has something to save, or saves.
OpenInv ==
    \A q \in LedgerProcs :
        /\ buffer[q] # Empty => Loaded(q)
        /\ saving[q] # 0 => Loaded(q)
        /\ leaving[q] => saving[q] # 0 \/ buffer[q] = Empty

\* Processes that open the ledger in turn do not have it open together.
InTurn == OneOpen => \A q, r \in LedgerProcs : Loaded(q) /\ Loaded(r) => q = r

\* A trial is remembered and buffered as it was recorded last, and so it is in
\* the folder unless it waits in a buffer that no save is writing.
Kept(k) ==
    /\ \A q \in LedgerProcs : /\ Loaded(q) => known[q][k] = latest[k]
                              /\ buffer[q][k] # NoDigest => buffer[q][k] = latest[k]
    /\ (\A q \in LedgerProcs : saving[q] = 0 => buffer[q][k] = NoDigest) =>
          InFolder(files, k) = latest[k]

KeptInv == OneOpen => \A k \in Trials : Kept(k)

DeathInv == Cardinality(Abandoned) <= deaths

LedgerInv == LedgerTypeOK /\ OpenInv /\ InTurn /\ KeptInv /\ DeathInv

LEMMA LedgerTypes ==
  ASSUME LedgerTypeOK
  PROVE  /\ files \in Seq(Files) /\ Len(files) \in Nat /\ deaths \in Nat
         /\ \A q \in LedgerProcs : /\ buffer[q] \in Memories /\ saving[q] \in 0 .. Len(files)
                                   /\ Loaded(q) => known[q] \in Memories
BY LedgerAssumption DEF LedgerTypeOK, Files, Loaded

LEMMA EmptyMemory == Empty \in Memories /\ \A k \in Trials : Empty[k] = NoDigest
BY DEF Empty, Memories

LEMMA LedgerStarts == LedgerInit => LedgerInv
<1> SUFFICES ASSUME LedgerInit PROVE LedgerInv
  OBVIOUS
<1> USE LedgerAssumption DEF LedgerInit
<1>1. << >> \in Seq(Files) /\ Len(<< >>) = 0 /\ DOMAIN << >> = {}
  OBVIOUS
<1>2. LedgerTypeOK
  BY <1>1, EmptyMemory DEF LedgerTypeOK, Files
<1>3. OpenInv /\ InTurn
  BY DEF OpenInv, InTurn, Loaded
<1>4. \A k \in Trials : InFolder(<< >>, k) = NoDigest
  BY DEF InFolder, Having
<1>5. KeptInv
  BY <1>4 DEF KeptInv, Kept, Empty, Loaded
<1>6. DeathInv
  <2>1. Abandoned = {}
    BY <1>1 DEF Abandoned
  <2> QED
    BY <2>1, FS_EmptySet DEF DeathInv
<1> QED
  BY <1>2, <1>3, <1>5, <1>6 DEF LedgerInv

\* The files left behind are finitely many, and one death adds at most one.
LEMMA AbandonedFinite ==
  ASSUME LedgerTypeOK
  PROVE  IsFiniteSet(Abandoned) /\ Cardinality(Abandoned) \in Nat
<1>1. files \in Seq(Files) /\ Len(files) \in Nat
  BY LedgerTypes
<1>2. IsFiniteSet(1 .. Len(files))
  BY <1>1, FS_Interval
<1>3. Abandoned \subseteq 1 .. Len(files)
  BY <1>1 DEF Abandoned
<1> QED
  BY <1>2, <1>3, FS_Subset, FS_CardinalityType

LEMMA DeathsCount ==
  ASSUME LedgerTypeOK, DeathInv, Abandoned' \subseteq Abandoned, deaths' = deaths
  PROVE  DeathInv'
<1>1. Cardinality(Abandoned') <= Cardinality(Abandoned) /\ Cardinality(Abandoned') \in Nat
  BY AbandonedFinite, FS_Subset, FS_CardinalityType
<1> QED
  BY <1>1, AbandonedFinite, LedgerTypes DEF DeathInv

\* LoadIndex: nothing is buffered when the only process opens the ledger, so
\* the folder shows what was recorded last.
LEMMA LoadIndexKeeps ==
  ASSUME LedgerInv, NEW q \in LedgerProcs, LoadIndex(q)
  PROVE  LedgerInv'
<1> USE DEF LedgerInv
<1> DEFINE m == [k \in Trials |-> InFolder(files, k)]
<1>1. /\ known' = [known EXCEPT ![q] = m] /\ saving[q] = 0 /\ ~leaving[q] /\ ~Loaded(q)
      /\ UNCHANGED <<files, buffer, saving, leaving, records, deaths, latest>>
      /\ OneOpen => \A r \in LedgerProcs \ {q} : ~Loaded(r)
  BY DEF LoadIndex, InFiles, Running
<1>2. m \in Memories /\ \A k \in Trials : m[k] = InFolder(files, k)
  BY FolderType, LedgerTypes DEF Memories
<1> HIDE DEF m
<1>3. known'[q] = m /\ \A r \in LedgerProcs : r # q => known'[r] = known[r]
  BY <1>1 DEF LedgerTypeOK
<1>4. LedgerTypeOK'
  <2>1. known' \in [LedgerProcs -> Memories \cup {NotLoaded}]
    BY <1>1, <1>2 DEF LedgerTypeOK
  <2> QED
    BY <1>1, <2>1 DEF LedgerTypeOK
<1>5. OpenInv'
  <2>1. buffer[q] = Empty
    BY <1>1 DEF OpenInv
  <2> QED
    BY <1>1, <1>3, <2>1 DEF OpenInv, Loaded
<1>6. InTurn'
  BY <1>1, <1>3 DEF InTurn, Loaded
<1>7. ASSUME OneOpen, NEW k \in Trials PROVE Kept(k)'
  <2>1. \A r \in LedgerProcs : buffer[r] = Empty
    BY <1>1, <1>7 DEF OpenInv
  <2>2. InFolder(files, k) = latest[k]
    BY <1>7, <2>1, EmptyMemory DEF KeptInv, Kept
  <2> QED
    BY <1>1, <1>2, <1>3, <1>7, <2>1, <2>2, EmptyMemory DEF Kept, KeptInv, Loaded
<1>8. DeathInv'
  BY <1>1, DeathsCount DEF Abandoned
<1> QED
  BY <1>4, <1>5, <1>6, <1>7, <1>8 DEF KeptInv

\* What a save appends: one file, still being written, that holds b.
LEMMA SaveBegins ==
  ASSUME LedgerTypeOK, NEW q \in LedgerProcs, NEW b \in Memories, BeginSave(q, b), saving[q] = 0
  PROVE  /\ files' \in Seq(Files) /\ saving' \in [LedgerProcs -> 0 .. Len(files')]
         /\ saving'[q] # 0 /\ \A r \in LedgerProcs \ {q} : saving'[r] = saving[r]
         /\ \A k \in Trials : InFolder(files', k) = IF b[k] # NoDigest THEN b[k] ELSE InFolder(files, k)
         /\ Abandoned' \subseteq Abandoned
<1> DEFINE f == [rows |-> b, whole |-> FALSE]
<1>1. files' = Append(files, f) /\ saving' = [saving EXCEPT ![q] = Len(files) + 1]
  BY DEF BeginSave
<1>2. f \in Files /\ f.rows = b
  BY DEF Files
<1> HIDE DEF f
<1>3. files \in Seq(Files) /\ Len(files) \in Nat /\ saving \in [LedgerProcs -> 0 .. Len(files)]
  BY LedgerTypes DEF LedgerTypeOK
<1>4. files' \in Seq(Files) /\ Len(files') = Len(files) + 1
  BY <1>1, <1>2, <1>3
<1>5. \A i \in 1 .. Len(files) : files'[i] = files[i]
  BY <1>1, <1>2, <1>3
<1>6. \A k \in Trials : InFolder(files', k) = IF b[k] # NoDigest THEN b[k] ELSE InFolder(files, k)
  BY <1>1, <1>2, <1>3, FolderGrows
<1>7. /\ saving' \in [LedgerProcs -> 0 .. Len(files')] /\ saving'[q] = Len(files) + 1 /\ saving'[q] # 0
      /\ \A r \in LedgerProcs \ {q} : saving'[r] = saving[r]
  BY <1>1, <1>3, <1>4
<1>8. Abandoned' \subseteq Abandoned
  <2> SUFFICES ASSUME NEW i \in Abandoned' PROVE i \in Abandoned
    OBVIOUS
  <2>1. i \in 1 .. Len(files') /\ ~files'[i].whole /\ \A r \in LedgerProcs : saving'[r] # i
    BY <1>4 DEF Abandoned
  <2>2. i \in 1 .. Len(files)
    BY <1>3, <1>4, <1>7, <2>1
  <2>3. \A r \in LedgerProcs : saving[r] # i
    BY <1>3, <1>7, <2>1, <2>2
  <2> QED
    BY <1>3, <1>5, <2>1, <2>2, <2>3 DEF Abandoned
<1> QED
  BY <1>4, <1>6, <1>7, <1>8

\* Save and Exit write what is buffered, and nothing else changes.
LEMMA WritesKeep ==
  ASSUME LedgerInv, NEW q \in LedgerProcs, saving[q] = 0, Loaded(q), BeginSave(q, buffer[q]),
         UNCHANGED <<known, buffer, records, deaths, latest>>,
         leaving' \in [LedgerProcs -> BOOLEAN], \A r \in LedgerProcs \ {q} : leaving'[r] = leaving[r]
  PROVE  LedgerInv'
<1> USE DEF LedgerInv
<1>1. /\ files' \in Seq(Files) /\ saving' \in [LedgerProcs -> 0 .. Len(files')]
      /\ saving'[q] # 0 /\ \A r \in LedgerProcs \ {q} : saving'[r] = saving[r]
      /\ \A k \in Trials : InFolder(files', k) = IF buffer[q][k] # NoDigest THEN buffer[q][k] ELSE InFolder(files, k)
      /\ Abandoned' \subseteq Abandoned
  BY LedgerTypes, SaveBegins
<1>2. LedgerTypeOK'
  BY <1>1 DEF LedgerTypeOK, Files
<1>3. OpenInv' /\ InTurn'
  BY <1>1 DEF OpenInv, InTurn, Loaded
<1>4. ASSUME OneOpen, NEW k \in Trials PROVE Kept(k)'
  <2>1. Kept(k)
    BY <1>4 DEF KeptInv
  <2>2. ASSUME \A r \in LedgerProcs : saving'[r] = 0 => buffer[r][k] = NoDigest
        PROVE  InFolder(files', k) = latest[k]
    <3>1. CASE buffer[q][k] # NoDigest
      BY <1>1, <2>1, <3>1 DEF Kept
    <3>2. CASE buffer[q][k] = NoDigest
      <4>1. \A r \in LedgerProcs : saving[r] = 0 => buffer[r][k] = NoDigest
        BY <1>1, <2>2, <3>2
      <4> QED
        BY <1>1, <2>1, <3>2, <4>1 DEF Kept
    <3> QED
      BY <3>1, <3>2
  <2> QED
    BY <2>1, <2>2 DEF Kept, Loaded
<1>5. DeathInv'
  BY <1>1, DeathsCount
<1> QED
  BY <1>2, <1>3, <1>4, <1>5 DEF KeptInv

\* SaveEnds: the rows were in the folder since the save began.
LEMMA SaveEndsKeeps ==
  ASSUME LedgerInv, NEW q \in LedgerProcs, SaveEnds(q)
  PROVE  LedgerInv'
<1> USE DEF LedgerInv
<1> DEFINE n == saving[q]
<1>1. /\ n # 0 /\ files' = [files EXCEPT ![n].whole = TRUE] /\ buffer' = [buffer EXCEPT ![q] = Empty]
      /\ saving' = [saving EXCEPT ![q] = 0] /\ UNCHANGED <<known, leaving, records, deaths, latest>>
  BY DEF SaveEnds
<1>2. n \in 1 .. Len(files) /\ files \in [1 .. Len(files) -> Files] /\ Len(files) \in Nat
  BY <1>1, LedgerTypes
<1> HIDE DEF n
<1>3. /\ files' = [i \in 1 .. Len(files) |-> files'[i]] /\ DOMAIN files' = 1 .. Len(files)
      /\ files'[n] = [files[n] EXCEPT !.whole = TRUE] /\ \A i \in 1 .. Len(files) : i # n => files'[i] = files[i]
  BY <1>1, <1>2
<1>4. files'[n] \in Files /\ files'[n].rows = files[n].rows /\ files'[n].whole = TRUE
  BY <1>2, <1>3 DEF Files
<1>5. files' \in Seq(Files) /\ Len(files') = Len(files) /\ \A i \in 1 .. Len(files) : files'[i].rows = files[i].rows
  <2>1. \A i \in 1 .. Len(files) : files'[i] \in Files /\ files'[i].rows = files[i].rows
    BY <1>2, <1>3, <1>4
  <2>2. files' \in [1 .. Len(files) -> Files]
    BY <1>3, <2>1
  <2> QED
    BY <1>2, <2>1, <2>2
<1>6. \A k \in Trials : InFolder(files', k) = InFolder(files, k)
  BY <1>5, LedgerTypes, FolderSame
<1>7. /\ buffer'[q] = Empty /\ saving'[q] = 0
      /\ \A r \in LedgerProcs \ {q} : buffer'[r] = buffer[r] /\ saving'[r] = saving[r]
  BY <1>1 DEF LedgerTypeOK
<1>8. LedgerTypeOK'
  <2>1. buffer' \in [LedgerProcs -> Memories]
    BY <1>1, EmptyMemory DEF LedgerTypeOK
  <2>2. saving' \in [LedgerProcs -> 0 .. Len(files')]
    BY <1>1, <1>2, <1>5 DEF LedgerTypeOK
  <2> QED
    BY <1>1, <1>5, <2>1, <2>2 DEF LedgerTypeOK, Files
<1>9. OpenInv' /\ InTurn'
  BY <1>1, <1>7 DEF OpenInv, InTurn, Loaded
<1>10. ASSUME OneOpen, NEW k \in Trials PROVE Kept(k)'
  <2>1. Kept(k)
    BY <1>10 DEF KeptInv
  <2>2. ASSUME \A r \in LedgerProcs : saving'[r] = 0 => buffer'[r][k] = NoDigest
        PROVE  InFolder(files', k) = latest[k]
    <3>1. \A r \in LedgerProcs : saving[r] = 0 => buffer[r][k] = NoDigest
      BY <1>1, <1>7, <2>2 DEF n
    <3> QED
      BY <1>6, <2>1, <3>1 DEF Kept
  <2>3. \A r \in LedgerProcs : buffer'[r][k] # NoDigest => buffer'[r][k] = latest[k]
    BY <1>7, <2>1, EmptyMemory DEF Kept
  <2> QED
    BY <1>1, <2>1, <2>2, <2>3 DEF Kept, Loaded
<1>11. DeathInv'
  <2>1. Abandoned' \subseteq Abandoned
    <3> SUFFICES ASSUME NEW i \in Abandoned' PROVE i \in Abandoned
      OBVIOUS
    <3>1. i \in 1 .. Len(files) /\ ~files'[i].whole /\ \A r \in LedgerProcs : saving'[r] # i
      BY <1>3 DEF Abandoned
    <3>2. i # n
      BY <1>4, <3>1
    <3>3. \A r \in LedgerProcs : saving[r] # i
      BY <1>7, <3>1, <3>2 DEF n
    <3> QED
      BY <1>2, <1>3, <3>1, <3>2, <3>3 DEF Abandoned
  <2> QED
    BY <1>1, <2>1, DeathsCount
<1> QED
  BY <1>8, <1>9, <1>10, <1>11 DEF KeptInv

LEMMA ExitKeeps ==
  ASSUME LedgerInv, NEW q \in LedgerProcs, Exit(q)
  PROVE  LedgerInv'
<1>1. /\ saving[q] = 0 /\ ~leaving[q] /\ Loaded(q) /\ leaving' = [leaving EXCEPT ![q] = TRUE]
      /\ UNCHANGED <<known, buffer, records, deaths, latest>>
  BY DEF Exit, Running
<1>2. leaving' \in [LedgerProcs -> BOOLEAN] /\ \A r \in LedgerProcs \ {q} : leaving'[r] = leaving[r]
  BY <1>1 DEF LedgerInv, LedgerTypeOK
<1>3. CASE buffer[q] = Empty
  <2>1. UNCHANGED <<files, saving>>
    BY <1>3 DEF Exit
  <2>2. LedgerTypeOK' /\ KeptInv' /\ InTurn'
    BY <1>1, <1>2, <2>1 DEF LedgerInv, LedgerTypeOK, KeptInv, Kept, InTurn, Loaded
  <2>3. OpenInv'
    BY <1>1, <1>2, <1>3, <2>1 DEF LedgerInv, OpenInv, Loaded
  <2>4. DeathInv'
    BY <1>1, <2>1, DeathsCount DEF Abandoned, LedgerInv
  <2> QED
    BY <2>2, <2>3, <2>4 DEF LedgerInv
<1>4. CASE buffer[q] # Empty
  <2>1. BeginSave(q, buffer[q])
    BY <1>4 DEF Exit
  <2> QED
    BY <1>1, <1>2, <2>1, WritesKeep
<1> QED
  BY <1>3, <1>4

LEMMA SaveKeeps ==
  ASSUME LedgerInv, NEW q \in LedgerProcs, Save(q)
  PROVE  LedgerInv'
<1>1. /\ saving[q] = 0 /\ BeginSave(q, buffer[q]) /\ UNCHANGED leaving
      /\ UNCHANGED <<known, buffer, records, deaths, latest>>
  BY DEF Save, Running
<1>2. Loaded(q)
  BY DEF Save, LedgerInv, OpenInv
<1>3. leaving' \in [LedgerProcs -> BOOLEAN] /\ \A r \in LedgerProcs \ {q} : leaving'[r] = leaving[r]
  BY <1>1 DEF LedgerInv, LedgerTypeOK
<1> QED
  BY <1>1, <1>2, <1>3, WritesKeep

LEMMA GoneKeeps ==
  ASSUME LedgerInv, NEW q \in LedgerProcs, Gone(q)
  PROVE  LedgerInv'
<1>1. /\ leaving[q] /\ saving[q] = 0 /\ leaving' = [leaving EXCEPT ![q] = FALSE]
      /\ known' = [known EXCEPT ![q] = NotLoaded]
      /\ UNCHANGED <<files, buffer, saving, records, deaths, latest>>
  BY DEF Gone
<1>2. buffer[q] = Empty
  BY <1>1 DEF LedgerInv, OpenInv
<1>3. /\ known'[q] = NotLoaded /\ leaving'[q] = FALSE
      /\ \A r \in LedgerProcs \ {q} : known'[r] = known[r] /\ leaving'[r] = leaving[r]
  BY <1>1 DEF LedgerInv, LedgerTypeOK
<1>4. LedgerTypeOK'
  <2>1. known' \in [LedgerProcs -> Memories \cup {NotLoaded}] /\ leaving' \in [LedgerProcs -> BOOLEAN]
    BY <1>1 DEF LedgerInv, LedgerTypeOK
  <2> QED
    BY <1>1, <2>1 DEF LedgerInv, LedgerTypeOK
<1>5. OpenInv' /\ InTurn'
  BY <1>1, <1>2, <1>3 DEF LedgerInv, OpenInv, InTurn, Loaded
<1>6. KeptInv'
  BY <1>1, <1>3 DEF LedgerInv, KeptInv, Kept, Loaded
<1>7. DeathInv'
  BY <1>1, DeathsCount DEF Abandoned, LedgerInv
<1> QED
  BY <1>4, <1>5, <1>6, <1>7 DEF LedgerInv

\* LedgerCrash: nobody else has the ledger open, so what was recorded last is
\* what the folder holds; the file being written is left behind.
LEMMA LedgerCrashKeeps ==
  ASSUME LedgerInv, NEW q \in LedgerProcs, LedgerCrash(q)
  PROVE  LedgerInv'
<1> USE DEF LedgerInv
<1>1. /\ known' = [known EXCEPT ![q] = NotLoaded] /\ buffer' = [buffer EXCEPT ![q] = Empty]
      /\ saving' = [saving EXCEPT ![q] = 0] /\ leaving' = [leaving EXCEPT ![q] = FALSE]
      /\ latest' = [k \in Trials |-> IF k \in Held(buffer[q]) THEN InFolder(files, k) ELSE latest[k]]
      /\ deaths < MaxDeaths /\ deaths' = deaths + 1
      /\ UNCHANGED <<files, records>> /\ Loaded(q)
  BY DEF LedgerCrash, InFiles
<1>2. /\ known'[q] = NotLoaded /\ leaving'[q] = FALSE /\ buffer'[q] = Empty /\ saving'[q] = 0
      /\ \A r \in LedgerProcs \ {q} : /\ known'[r] = known[r] /\ leaving'[r] = leaving[r]
                                      /\ buffer'[r] = buffer[r] /\ saving'[r] = saving[r]
  BY <1>1 DEF LedgerTypeOK
<1>3. LedgerTypeOK'
  <2>1. known' \in [LedgerProcs -> Memories \cup {NotLoaded}] /\ leaving' \in [LedgerProcs -> BOOLEAN]
    BY <1>1 DEF LedgerTypeOK
  <2>2. buffer' \in [LedgerProcs -> Memories] /\ saving' \in [LedgerProcs -> 0 .. Len(files)]
    BY <1>1, EmptyMemory, LedgerTypes DEF LedgerTypeOK
  <2>3. latest' \in Memories
    <3>1. \A k \in Trials : InFolder(files, k) \in Digests \cup {NoDigest}
      BY FolderType, LedgerTypes
    <3> QED
      BY <1>1, <3>1 DEF LedgerTypeOK, Memories
  <2>4. deaths' \in 0 .. MaxDeaths
    BY <1>1, LedgerAssumption DEF LedgerTypeOK
  <2> QED
    BY <1>1, <2>1, <2>2, <2>3, <2>4 DEF LedgerTypeOK
<1>4. OpenInv' /\ InTurn'
  BY <1>1, <1>2 DEF OpenInv, InTurn, Loaded
<1>5. ASSUME OneOpen, NEW k \in Trials PROVE Kept(k)'
  <2>1. \A r \in LedgerProcs : known'[r] = NotLoaded
    BY <1>1, <1>2, <1>5 DEF InTurn, Loaded
  <2>2. \A r \in LedgerProcs \ {q} : buffer[r] = Empty
    BY <1>1, <1>5 DEF InTurn, OpenInv
  <2>3. \A r \in LedgerProcs : buffer'[r][k] = NoDigest
    BY <1>2, <2>2, EmptyMemory
  <2>4. InFolder(files, k) = latest'[k]
    <3>1. CASE buffer[q][k] # NoDigest
      BY <1>1, <3>1 DEF Held
    <3>2. CASE buffer[q][k] = NoDigest
      <4>1. \A r \in LedgerProcs : buffer[r][k] = NoDigest
        BY <2>2, <3>2, EmptyMemory
      <4>2. latest'[k] = latest[k]
        BY <1>1, <3>2 DEF Held
      <4> QED
        BY <1>5, <4>1, <4>2 DEF KeptInv, Kept
    <3> QED
      BY <3>1, <3>2
  <2> QED
    BY <1>1, <2>1, <2>3, <2>4 DEF Kept, Loaded
<1>6. DeathInv'
  <2>1. Abandoned' \subseteq Abandoned \cup {saving[q]}
    BY <1>1, <1>2 DEF Abandoned
  <2>2. IsFiniteSet(Abandoned) /\ Cardinality(Abandoned) \in Nat
    BY AbandonedFinite
  <2> DEFINE A == Abandoned \cup {saving[q]}
  <2>3. IsFiniteSet(A) /\ (Cardinality(A) = Cardinality(Abandoned) \/ Cardinality(A) = Cardinality(Abandoned) + 1)
    BY <2>2, FS_AddElement
  <2> HIDE DEF A
  <2>4. Cardinality(Abandoned') <= Cardinality(A) /\ Cardinality(Abandoned') \in Nat
    BY <2>1, <2>3, FS_Subset, FS_CardinalityType DEF A
  <2> QED
    BY <1>1, <2>2, <2>3, <2>4, LedgerTypes DEF DeathInv
<1> QED
  BY <1>3, <1>4, <1>5, <1>6 DEF KeptInv
\* A digest more in a buffer or a memory.
LEMMA Remembers ==
  ASSUME NEW m \in Memories, NEW k \in Trials, NEW d \in Digests
  PROVE  /\ [m EXCEPT ![k] = d] \in Memories /\ [m EXCEPT ![k] = d][k] = d
         /\ \A j \in Trials : j # k => [m EXCEPT ![k] = d][j] = m[j]
         /\ [m EXCEPT ![k] = d] # NotLoaded
<1>1. [m EXCEPT ![k] = d] \in Memories /\ [m EXCEPT ![k] = d][k] = d
  BY DEF Memories
<1>2. \A j \in Trials : j # k => [m EXCEPT ![k] = d][j] = m[j]
  BY DEF Memories
<1>3. DOMAIN [m EXCEPT ![k] = d] = Trials /\ DOMAIN NotLoaded = {}
  BY DEF Memories, NotLoaded
<1> QED
  BY <1>1, <1>2, <1>3

\* Record: the digest is remembered, buffered and perhaps on its way to a file;
\* nobody else has the ledger open.
LEMMA RecordKeeps ==
  ASSUME LedgerInv, NEW q \in LedgerProcs, Record(q)
  PROVE  LedgerInv'
<1> USE DEF LedgerInv
<1>1. PICK k \in Trials, d \in Digests :
          /\ IF known[q][k] = d
             THEN UNCHANGED <<files, known, buffer, saving>>
             ELSE LET b == [buffer[q] EXCEPT ![k] = d]
                  IN  /\ known' = [known EXCEPT ![q][k] = d]
                      /\ buffer' = [buffer EXCEPT ![q] = b]
                      /\ IF Cardinality(Held(b)) >= Flush THEN BeginSave(q, b)
                                                          ELSE UNCHANGED <<files, saving>>
          /\ latest' = [latest EXCEPT ![k] = d]
  BY DEF Record, Remember
<1>2. /\ saving[q] = 0 /\ ~leaving[q] /\ Loaded(q) /\ UNCHANGED <<leaving, deaths>>
      /\ records < MaxRecords /\ records' = records + 1
  BY DEF Record, Running
<1>3. d # NoDigest
  BY LedgerAssumption
<1>4. /\ latest' \in Memories /\ latest'[k] = d /\ \A j \in Trials : j # k => latest'[j] = latest[j]
      /\ records' \in 0 .. MaxRecords
  <2>1. latest \in Memories /\ latest' = [latest EXCEPT ![k] = d]
    BY <1>1 DEF LedgerTypeOK
  <2>2. records' \in 0 .. MaxRecords
    BY <1>2, LedgerAssumption DEF LedgerTypeOK
  <2> QED
    BY <2>1, <2>2 DEF Memories
<1>5. ASSUME OneOpen PROVE \A r \in LedgerProcs \ {q} : ~Loaded(r) /\ buffer[r] = Empty
  BY <1>2, <1>5 DEF InTurn, OpenInv
<1>6. CASE known[q][k] = d
  <2>1. UNCHANGED <<files, known, buffer, saving>>
    BY <1>1, <1>6
  <2>2. ASSUME OneOpen, NEW j \in Trials PROVE latest'[j] = latest[j] /\ Kept(j)
    <3>1. Kept(j)
      BY <2>2 DEF KeptInv
    <3> QED
      BY <1>2, <1>4, <1>6, <3>1 DEF Kept
  <2>3. LedgerTypeOK'
    BY <1>2, <1>4, <2>1 DEF LedgerTypeOK
  <2>4. OpenInv' /\ InTurn'
    BY <1>2, <2>1 DEF OpenInv, InTurn, Loaded
  <2>5. KeptInv'
    BY <2>1, <2>2 DEF KeptInv, Kept, Loaded
  <2>6. DeathInv'
    BY <1>2, <2>1, DeathsCount DEF Abandoned
  <2> QED
    BY <2>3, <2>4, <2>5, <2>6
<1>7. CASE known[q][k] # d
  <2> DEFINE b == [buffer[q] EXCEPT ![k] = d]
             m == [known[q] EXCEPT ![k] = d]
  <2>1. known[q] \in Memories /\ buffer[q] \in Memories
    BY <1>2, LedgerTypes
  <2>2. /\ b \in Memories /\ b[k] = d /\ m \in Memories /\ m[k] = d /\ m # NotLoaded
        /\ \A j \in Trials : j # k => b[j] = buffer[q][j] /\ m[j] = known[q][j]
    BY <2>1, Remembers
  <2>3. /\ known' = [known EXCEPT ![q] = m] /\ buffer' = [buffer EXCEPT ![q] = b]
        /\ BeginSave(q, b) \/ UNCHANGED <<files, saving>>
    BY <1>1, <1>7
  <2> HIDE DEF b, m
  <2>4. /\ known'[q] = m /\ buffer'[q] = b
        /\ \A r \in LedgerProcs \ {q} : known'[r] = known[r] /\ buffer'[r] = buffer[r]
        /\ known' \in [LedgerProcs -> Memories \cup {NotLoaded}] /\ buffer' \in [LedgerProcs -> Memories]
    BY <2>2, <2>3 DEF LedgerTypeOK
  <2>5. /\ files' \in Seq(Files) /\ saving' \in [LedgerProcs -> 0 .. Len(files')]
        /\ \A r \in LedgerProcs \ {q} : saving'[r] = saving[r]
        /\ saving'[q] = 0 => UNCHANGED <<files, saving>>
        /\ saving'[q] # 0 =>
             \A j \in Trials : InFolder(files', j) = IF b[j] # NoDigest THEN b[j] ELSE InFolder(files, j)
        /\ Abandoned' \subseteq Abandoned
    <3>1. CASE BeginSave(q, b)
      BY <1>2, <2>2, <3>1, SaveBegins
    <3>2. CASE UNCHANGED <<files, saving>>
      BY <1>2, <3>2, LedgerTypes DEF LedgerTypeOK, Abandoned
    <3> QED
      BY <2>3, <3>1, <3>2
  <2>6. LedgerTypeOK'
    BY <1>2, <1>4, <2>4, <2>5 DEF LedgerTypeOK, Files
  <2>7. OpenInv' /\ InTurn'
    <3>1. \A r \in LedgerProcs : Loaded(r)' <=> Loaded(r)
      BY <1>2, <2>2, <2>4 DEF Loaded
    <3>2. \A r \in LedgerProcs \ {q} : /\ buffer'[r] = buffer[r] /\ saving'[r] = saving[r]
                                       /\ leaving'[r] = leaving[r]
      BY <1>2, <2>4, <2>5
    <3>3. Loaded(q) /\ ~leaving'[q]
      BY <1>2
    <3>4. OpenInv'
      BY <1>2, <3>1, <3>2, <3>3 DEF OpenInv
    <3>5. InTurn'
      BY <1>2, <3>1 DEF InTurn
    <3> QED
      BY <3>4, <3>5
  <2>8. ASSUME OneOpen, NEW j \in Trials PROVE Kept(j)'
    <3>1. Kept(j)
      BY <2>8 DEF KeptInv
    <3>2. \A r \in LedgerProcs \ {q} : known'[r] = NotLoaded /\ buffer'[r][j] = NoDigest /\ buffer[r][j] = NoDigest
      BY <1>5, <2>4, <2>8, EmptyMemory DEF Loaded
    <3>3. m[j] = latest'[j] /\ (b[j] # NoDigest => b[j] = latest'[j])
      BY <1>2, <1>4, <2>2, <3>1 DEF Kept
    <3>4. ASSUME saving'[q] = 0 => b[j] = NoDigest PROVE InFolder(files', j) = latest'[j]
      <4>1. CASE b[j] # NoDigest
        BY <2>5, <3>3, <3>4, <4>1
      <4>2. CASE b[j] = NoDigest
        <5>1. j # k /\ buffer[q][j] = NoDigest
          BY <1>3, <2>2, <4>2
        <5>2. InFolder(files, j) = latest[j]
          BY <3>1, <3>2, <5>1 DEF Kept
        <5> QED
          BY <1>4, <2>5, <4>2, <5>1, <5>2
      <4> QED
        BY <4>1, <4>2
    <3> QED
      BY <2>4, <3>2, <3>3, <3>4 DEF Kept, Loaded
  <2>9. DeathInv'
    BY <1>2, <2>5, DeathsCount
  <2> QED
    BY <2>6, <2>7, <2>8, <2>9 DEF KeptInv
<1> QED
  BY <1>6, <1>7

LEMMA LedgerSteps ==
  ASSUME LedgerInv, LedgerNext
  PROVE  LedgerInv'
<1>1. PICK q \in LedgerProcs : \/ LoadIndex(q) \/ Record(q) \/ Save(q) \/ SaveEnds(q)
                               \/ Exit(q) \/ Gone(q) \/ LedgerCrash(q)
  BY DEF LedgerNext
<1> QED
  BY <1>1, LoadIndexKeeps, RecordKeeps, SaveKeeps, SaveEndsKeeps, ExitKeeps, GoneKeeps, LedgerCrashKeeps

LEMMA LedgerRests ==
  ASSUME LedgerInv, UNCHANGED ledgerVars
  PROVE  LedgerInv'
<1> USE DEF ledgerVars
<1>1. LedgerTypeOK'
  BY DEF LedgerInv, LedgerTypeOK
<1>2. OpenInv' /\ InTurn'
  BY DEF LedgerInv, OpenInv, InTurn, Loaded
<1>3. KeptInv'
  BY DEF LedgerInv, KeptInv, Kept, Loaded
<1>4. DeathInv'
  BY DEF LedgerInv, DeathInv, Abandoned
<1> QED
  BY <1>1, <1>2, <1>3, <1>4 DEF LedgerInv

LEMMA LedgerShows ==
  ASSUME OneOpen, LedgerInv
  PROVE  LedgerKeepsLatest
<1>1. FolderKeepsLatest
  <2> SUFFICES ASSUME \A q \in LedgerProcs : buffer[q] = Empty, NEW k \in Trials
               PROVE  InFiles(k) = latest[k]
    BY DEF FolderKeepsLatest
  <2> QED
    BY EmptyMemory DEF LedgerInv, KeptInv, Kept, InFiles
<1>2. ASSUME NEW q \in LedgerProcs, NEW k \in Trials, Loaded(q)
      PROVE  known[q][k] = latest[k] /\ Shown(q, k) = latest[k]
  <2>1. Kept(k)
    BY DEF LedgerInv, KeptInv
  <2>2. \A r \in LedgerProcs \ {q} : buffer[r] = Empty
    BY <1>2 DEF LedgerInv, InTurn, OpenInv
  <2> QED
    BY <1>2, <2>1, <2>2, EmptyMemory DEF Kept, Shown, InFiles
<1> QED
  BY <1>1, <1>2 DEF LedgerKeepsLatest, LedgerInv, DeathInv

-----------------------------------------------------------------------------
(* The partition cache.                                                    *)

\* What the locals of a scan, a trim and a clear say of where they are; a
\* fetch is as recent as the scan that asked for it.
Local(c) ==
    /\ asOf[c] <= clock
    /\ cpc[c] = "replace" => through[c] <= clock /\ asOf[c] <= through[c]
    /\ \A p \in todo[c] : cpc[c] = "replace" /\ HasRows(p, through[c])
    /\ cpc[c] \in {"idle", "clear", "wipe"} => want[c] = {}
    /\ cpc[c] \in {"idle", "fetch", "replace", "read", "trim", "select", "collect"} => gone[c] = {}

LocalInv == \A c \in CacheProcs : Local(c)

\* A file has rows of its own span and is no newer than the exchange, nor is a
\* row; a row names a path exactly if its partition has rows.
Stored(p) == /\ file[p] # Absent => Start(p) < file[p] /\ file[p] <= clock
             /\ row[p].path <=> row[p].through > Start(p)
             /\ row[p].through <= MinOf(End(p), clock)

StoreInv == \A p \in Parts : Stored(p)

\* Calls that are made one at a time are not under way together.
CallsInTurn == OneAtATime => \A c, d \in CacheProcs : cpc[c] # "idle" /\ cpc[d] # "idle" => c = d

\* What IndexMatchesFiles says of a partition nobody has in hand.
Right(p) == /\ Overstated(p) => "trim_crash" \in blame[p]
            /\ Orphaned(p) => blame[p] # {}

RestInv == OneAtATime => \A p \in Parts : Resting(p) => Right(p)

\* What the only call under way has made of the partitions it has in hand, and
\* what it knows of the index that nobody else changes.
Work(c) ==
    /\ cpc[c] = "replace" =>
          /\ \A p \in Parts : row[p].through <= MinOf(End(p), through[c])
          /\ \A p \in gaps[c] \ todo[c] :
                file[p] = IF HasRows(p, through[c]) THEN MinOf(End(p), through[c]) ELSE Absent
    /\ cpc[c] \in {"trim", "select", "unlink", "delete"} =>
          want[c] \cap WithPath \subseteq found[c] /\ want[c] \cap gone[c] = {}
    /\ cpc[c] \in {"unlink", "delete"} => \A p \in gone[c] : file[p] = Absent
    /\ cpc[c] = "clear" => WithPath \subseteq gone[c]
    /\ cpc[c] = "wipe" => \A p \in Parts : row[p] = NoRow

\* How far its scan has come with a partition it has to serve.
Served(c, p) ==
    /\ cpc[c] \in {"fetch", "replace"} /\ p \notin gaps[c] => file[p] >= Asked(c, p) /\ row[p].path
    /\ cpc[c] = "read" => file[p] >= Asked(c, p) /\ row[p].path
    /\ cpc[c] \in {"trim", "select", "unlink", "delete", "collect"} => p \in found[c] /\ file[p] >= Asked(c, p)

Serves(c) == \A p \in want[c] : Asked(c, p) > Start(p) => "trim_crash" \in blame[p] \/ Served(c, p)

\* All of it, for a process that is the only one inside a call, if any is.
Solo(c) == Work(c) /\ Serves(c) /\ \A p \in Parts : p \notin InHand(c) => Right(p)
OthersIdle(c) == \A d \in CacheProcs \ {c} : cpc[d] = "idle"
SoloInv == OneAtATime => \A c \in CacheProcs : OthersIdle(c) => Solo(c)

CacheInv == CacheTypeOK /\ LocalInv /\ StoreInv /\ CallsInTurn /\ RestInv /\ SoloInv

\* Every action but Publish is one process's.
Acts(c) == \/ ScanBegins(c) \/ FetchReturns(c) \/ FetchRaises(c) \/ ReplaceFile(c)
           \/ InsertRows(c) \/ ReadRows(c) \/ Collect(c)
           \/ TrimBegins(c) \/ TrimTotals(c) \/ TrimUnlinks(c) \/ TrimLoopEnds(c) \/ TrimDeletes(c)
           \/ ClearLists(c) \/ ClearDeletes(c) \/ ClearUnlinks(c) \/ ClearEnds(c) \/ CacheCrash(c)

LEMMA MinIn ==
  ASSUME NEW S \in SUBSET Parts, S # {}
  PROVE  Min(S) \in S
<1>1. S \subseteq Nat
  BY DEF Parts
<1>2. PICK x \in S : \A y \in S : ~(<<y, x>> \in OpToRel(<, Nat))
  BY <1>1, WFMin, NatLessThanWellFounded
<1>3. \A y \in S : x =< y
  <2> SUFFICES ASSUME NEW y \in S, y < x PROVE FALSE
    BY <1>1
  <2>1. <<y, x>> \in {ss \in Nat \X Nat : ss[1] < ss[2]}
    BY <1>1
  <2> QED
    BY <1>2, <2>1 DEF OpToRel
<1>4. \E a \in S : \A y \in S : a =< y
  BY <1>3
<1> QED
  BY <1>4, Zenon DEF Min

\* The arithmetic of spans and times, stated once.
LEMMA Spans ==
  /\ Parts \subseteq Nat /\ Times \subseteq Nat /\ Absent \notin Nat /\ Absent \in Int
  /\ \A p \in Parts : /\ Start(p) \in Times /\ End(p) \in Times /\ Start(p) < End(p)
                      /\ \A t \in Times : /\ MinOf(End(p), t) \in Times
                                          /\ MinOf(End(p), t) <= t /\ MinOf(End(p), t) <= End(p)
                                          /\ HasRows(p, t) <=> MinOf(End(p), t) > Start(p)
                                          /\ ~(Absent > Start(p))
<1> USE CacheAssumption DEF Parts, Times, Absent, Start, End, MinOf, HasRows
<1>1. Parts \subseteq Nat /\ Times \subseteq Nat /\ Absent \notin Nat /\ Absent \in Int
  OBVIOUS
<1> SUFFICES ASSUME NEW p \in Parts
             PROVE  /\ Start(p) \in Times /\ End(p) \in Times /\ Start(p) < End(p)
                    /\ \A t \in Times : /\ MinOf(End(p), t) \in Times
                                        /\ MinOf(End(p), t) <= t /\ MinOf(End(p), t) <= End(p)
                                        /\ HasRows(p, t) <=> MinOf(End(p), t) > Start(p)
                                        /\ ~(Absent > Start(p))
  BY <1>1
<1> QED
  OBVIOUS

LEMMA TimesNat ==
  ASSUME NEW t \in Times
  PROVE  t \in Nat /\ 0 <= t
BY CacheAssumption DEF Times

LEMMA FileInt ==
  ASSUME NEW t \in Times \cup {Absent}
  PROVE  t \in Int /\ (t # Absent => t \in Nat)
BY CacheAssumption DEF Times, Absent

LEMMA CacheTypes ==
  ASSUME CacheTypeOK
  PROVE  /\ clock \in Times /\ \A p \in Parts : /\ file[p] \in Times \cup {Absent}
                                                /\ row[p].through \in Times \cup {Absent}
                                                /\ row[p].path \in BOOLEAN
         /\ \A c \in CacheProcs : /\ want[c] \subseteq Parts /\ gaps[c] \subseteq Parts
                                  /\ todo[c] \subseteq gaps[c] /\ todo[c] \subseteq Parts
                                  /\ gaps[c] \subseteq want[c] /\ gone[c] \subseteq Parts
                                  /\ through[c] \in Times /\ asOf[c] \in Times /\ need[c] \in Nat
BY DEF CacheTypeOK

LEMMA AskedBounds ==
  ASSUME NEW p \in Parts, NEW n \in Nat, NEW a \in Times
  PROVE  LET x == MinOf(End(p), MinOf(n, a))
         IN  x \in Nat /\ x <= a /\ x <= n /\ x <= End(p) /\ x <= MinOf(End(p), n)
<1>1. a \in Nat /\ End(p) \in Nat
  BY Spans, TimesNat
<1> QED
  BY <1>1 DEF MinOf

LEMMA CacheStarts == CacheInit => CacheInv
<1> SUFFICES ASSUME CacheInit PROVE CacheInv
  OBVIOUS
<1> USE CacheAssumption DEF CacheInit
<1>1. NoRow \in [through : Times \cup {Absent}, path : BOOLEAN] /\ NoRow.through = Absent /\ NoRow.path = FALSE
  BY DEF NoRow
<1>2. 0 \in Times /\ clock \in Times /\ 0 \in 0 .. NumParts
  BY DEF Times
<1>3. CacheTypeOK
  BY <1>1, <1>2 DEF CacheTypeOK
<1>4. LocalInv
  BY <1>2, Spans DEF LocalInv, Local
<1>5. StoreInv
  <2> SUFFICES ASSUME NEW p \in Parts PROVE Stored(p)
    BY DEF StoreInv
  <2>1. MinOf(End(p), clock) \in Nat /\ ~(Absent > Start(p))
    BY <1>2, Spans, TimesNat
  <2> QED
    BY <1>1, <2>1 DEF Stored, Absent
<1>6. CallsInTurn
  BY DEF CallsInTurn
<1>7. \A p \in Parts : Right(p)
  BY <1>1 DEF Right, Overstated, Orphaned
<1>8. RestInv /\ SoloInv
  BY <1>7 DEF RestInv, SoloInv, Solo, Work, Serves
<1> QED
  BY <1>3, <1>4, <1>5, <1>6, <1>8 DEF CacheInv

\* A process's action leaves the locals of the others alone.
Untouched(d) ==
    /\ cpc'[d] = cpc[d] /\ want'[d] = want[d] /\ need'[d] = need[d] /\ gaps'[d] = gaps[d]
    /\ todo'[d] = todo[d] /\ through'[d] = through[d] /\ found'[d] = found[d] /\ gone'[d] = gone[d]
    /\ asOf'[d] = asOf[d] /\ total'[d] = total[d]

LEMMA OthersUntouched ==
  ASSUME CacheTypeOK, NEW c \in CacheProcs, Acts(c), NEW d \in CacheProcs \ {c}
  PROVE  Untouched(d)
<1> USE DEF CacheTypeOK, Untouched, localVars
<1>1. CASE ScanBegins(c)
  BY <1>1 DEF ScanBegins
<1>2. CASE FetchReturns(c)
  BY <1>2 DEF FetchReturns, At
<1>3. CASE FetchRaises(c)
  BY <1>3 DEF FetchRaises, At, Forget
<1>4. CASE ReplaceFile(c)
  BY <1>4 DEF ReplaceFile
<1>5. CASE InsertRows(c)
  BY <1>5 DEF InsertRows, At
<1>6. CASE ReadRows(c)
  BY <1>6 DEF ReadRows, At
<1>7. CASE Collect(c)
  BY <1>7 DEF Collect, At, Forget
<1>8. CASE TrimBegins(c)
  BY <1>8 DEF TrimBegins, At
<1>9. CASE TrimUnlinks(c)
  BY <1>9 DEF TrimUnlinks
<1>9a. CASE TrimTotals(c)
  BY <1>9a DEF TrimTotals
<1>10. CASE TrimLoopEnds(c)
  BY <1>10 DEF TrimLoopEnds, At
<1>11. CASE TrimDeletes(c)
  BY <1>11 DEF TrimDeletes, At
<1>12. CASE ClearLists(c)
  BY <1>12 DEF ClearLists, At
<1>13. CASE ClearDeletes(c)
  BY <1>13 DEF ClearDeletes, At
<1>14. CASE ClearUnlinks(c)
  BY <1>14 DEF ClearUnlinks
<1>15. CASE ClearEnds(c)
  BY <1>15 DEF ClearEnds, At
<1>16. CASE CacheCrash(c)
  BY <1>16 DEF CacheCrash, Forget
<1> QED
  BY <1>1, <1>2, <1>3, <1>4, <1>5, <1>6, <1>7, <1>8, <1>9, <1>9a, <1>10, <1>11, <1>12, <1>13, <1>14, <1>15,
     <1>16 DEF Acts

LEMMA BlameMoves ==
  ASSUME CacheTypeOK, NEW c \in CacheProcs, Acts(c)
  PROVE  blame' \in [Parts -> SUBSET Causes]
<1>1. \/ (\E ps : Settles(ps)) \/ Dies(c, Cause(c)) \/ UNCHANGED blame
  BY DEF Acts, ScanBegins, FetchReturns, FetchRaises, ReplaceFile, InsertRows, ReadRows, Collect, TrimBegins,
         TrimTotals, TrimUnlinks, TrimLoopEnds, TrimDeletes, ClearLists, ClearDeletes, ClearUnlinks,
         ClearEnds, CacheCrash
<1>2. CASE \E ps : Settles(ps)
  BY <1>2 DEF Settles, CacheTypeOK
<1>3. CASE Dies(c, Cause(c))
  <2>1. Cause(c) \in Causes
    BY DEF Cause, Causes
  <2> QED
    BY <1>3, <2>1 DEF Dies, CacheTypeOK
<1> QED
  BY <1>1, <1>2, <1>3 DEF CacheTypeOK

LEMMA CacheTypeSteps ==
  ASSUME CacheTypeOK, LocalInv, NEW c \in CacheProcs, Acts(c)
  PROVE  CacheTypeOK'
<1>1. blame' \in [Parts -> SUBSET Causes]
  BY BlameMoves
<1>2. 0 \in Times /\ Times \subseteq Nat /\ 0 \in 0 .. NumParts
  BY CacheAssumption DEF Times
<1>3. NoRow \in [through : Times \cup {Absent}, path : BOOLEAN]
  BY DEF NoRow
<1>4. \A p \in Parts, t \in Times : MinOf(End(p), t) \in Times /\ HasRows(p, t) \in BOOLEAN
  BY Spans DEF HasRows
<1>5. Cardinality(WithPath) \in 0 .. NumParts
  <2>1. IsFiniteSet(Parts) /\ Cardinality(Parts) = NumParts
    BY CacheAssumption, FS_Interval DEF Parts
  <2>2. WithPath \subseteq Parts
    BY DEF WithPath
  <2>3. Cardinality(WithPath) <= Cardinality(Parts) /\ Cardinality(WithPath) \in Nat
    BY <2>1, <2>2, FS_Subset, FS_CardinalityType
  <2> QED
    BY <2>1, <2>3, CacheAssumption
<1>6. WithPath \subseteq Parts
  BY DEF WithPath
<1> USE DEF storeVars, localVars
<1>7. CASE ScanBegins(c)
  <2>1. PICK s \in SUBSET Parts, n \in Needs :
          LET g == {p \in s : Gap(p, n)}
          IN  /\ cpc' = [cpc EXCEPT ![c] = IF g = {} THEN "read" ELSE "fetch"]
              /\ want' = [want EXCEPT ![c] = s] /\ need' = [need EXCEPT ![c] = n]
              /\ gaps' = [gaps EXCEPT ![c] = g]
    BY <1>7 DEF ScanBegins
  <2>2. /\ calls' \in 0 .. MaxCalls /\ UNCHANGED <<storeVars, todo, through, found, gone, total, crashes>>
        /\ asOf' = [asOf EXCEPT ![c] = clock]
    BY <1>7, CacheAssumption DEF ScanBegins, Begins, CacheTypeOK
  <2>4. todo[c] = {}
    BY <1>7 DEF ScanBegins, LocalInv, Local
  <2>5. n \in Nat
    BY CacheAssumption
  <2>6. \A d \in CacheProcs : todo'[d] \subseteq gaps'[d] /\ gaps'[d] \subseteq want'[d]
    BY <2>1, <2>2, <2>4 DEF CacheTypeOK
  <2> QED
    BY <1>1, <2>1, <2>2, <2>5, <2>6 DEF CacheTypeOK
<1>8. CASE FetchReturns(c)
  BY <1>1, <1>8 DEF FetchReturns, At, CacheTypeOK
<1>9. CASE FetchRaises(c)
  BY <1>1, <1>2, <1>9 DEF FetchRaises, At, Forget, CacheTypeOK
<1>10. CASE ReplaceFile(c)
  <2>1. Min(todo[c]) \in Parts
    BY <1>10, CacheTypes, MinIn DEF ReplaceFile
  <2>2. MinOf(End(Min(todo[c])), through[c]) \in Times
    BY <1>4, <2>1, CacheTypes
  <2>4. /\ file' = [file EXCEPT ![Min(todo[c])] = MinOf(End(Min(todo[c])), through[c])]
        /\ todo' = [todo EXCEPT ![c] = @ \ {Min(todo[c])}]
        /\ UNCHANGED <<clock, row, cpc, want, need, gaps, through, found, gone, total, calls, crashes, asOf>>
    BY <1>10 DEF ReplaceFile
  <2>5. file' \in [Parts -> Times \cup {Absent}]
    BY <2>2, <2>4 DEF CacheTypeOK
  <2>6. todo' \in [CacheProcs -> SUBSET Parts] /\ \A d \in CacheProcs : todo'[d] \subseteq gaps[d]
    BY <2>4 DEF CacheTypeOK
  <2> QED
    BY <1>1, <2>4, <2>5, <2>6 DEF CacheTypeOK
<1>11. CASE InsertRows(c)
  <2>1. row' \in [Parts -> [through : Times \cup {Absent}, path : BOOLEAN]]
    BY <1>4, <1>11 DEF InsertRows, CacheTypeOK
  <2> QED
    BY <1>1, <1>2, <1>11, <2>1 DEF InsertRows, At, CacheTypeOK
<1>12. CASE ReadRows(c)
  BY <1>1, <1>6, <1>12 DEF ReadRows, At, CacheTypeOK
<1>13. CASE Collect(c)
  BY <1>1, <1>2, <1>13 DEF Collect, At, Forget, CacheTypeOK
<1>14. CASE TrimBegins(c)
  BY <1>1, <1>14, CacheAssumption DEF TrimBegins, Begins, At, CacheTypeOK
<1>14a. CASE TrimTotals(c)
  <2>1. \E n \in 0 .. NumParts : total' = [total EXCEPT ![c] = n] \/ total' = total
    BY <1>5, <1>14a DEF TrimTotals
  <2>2. total' \in [CacheProcs -> 0 .. NumParts]
    BY <2>1 DEF CacheTypeOK
  <2>3. cpc' = [cpc EXCEPT ![c] = "select"] \/ cpc' = [cpc EXCEPT ![c] = "collect"]
    BY <1>14a DEF TrimTotals
  <2>4. /\ UNCHANGED <<clock, file, row, want, need, gaps, todo, through, found, gone>>
        /\ UNCHANGED <<calls, crashes, asOf>>
    BY <1>14a DEF TrimTotals
  <2> QED
    BY <1>1, <2>2, <2>3, <2>4 DEF CacheTypeOK
<1>15. CASE TrimUnlinks(c)
  <2>1. PICK p \in Evictable(c) : /\ file' = [file EXCEPT ![p] = Absent]
                                  /\ gone' = [gone EXCEPT ![c] = @ \cup {p}]
    BY <1>15 DEF TrimUnlinks
  <2>2. p \in Parts
    BY <1>6 DEF Evictable
  <2>3. total' \in [CacheProcs -> 0 .. NumParts]
    <3>1. total[c] - 1 \in 0 .. NumParts
      BY <1>15, CacheAssumption DEF TrimUnlinks, CacheTypeOK
    <3> QED
      BY <1>15, <3>1 DEF TrimUnlinks, CacheTypeOK
  <2>4. /\ cpc' = [cpc EXCEPT ![c] = "unlink"]
        /\ UNCHANGED <<clock, row, want, need, gaps, todo, through, found, calls, crashes, asOf>>
    BY <1>15 DEF TrimUnlinks
  <2>5. file' \in [Parts -> Times \cup {Absent}] /\ gone' \in [CacheProcs -> SUBSET Parts]
    BY <2>1, <2>2 DEF CacheTypeOK
  <2> QED
    BY <1>1, <2>3, <2>4, <2>5 DEF CacheTypeOK
<1>16. CASE TrimLoopEnds(c)
  BY <1>1, <1>2, <1>16 DEF TrimLoopEnds, At, CacheTypeOK
<1>17. CASE TrimDeletes(c)
  <2>1. row' \in [Parts -> [through : Times \cup {Absent}, path : BOOLEAN]]
    BY <1>3, <1>17 DEF TrimDeletes, CacheTypeOK
  <2> QED
    BY <1>1, <1>17, <2>1 DEF TrimDeletes, At, CacheTypeOK
<1>18. CASE ClearLists(c)
  BY <1>1, <1>6, <1>18, CacheAssumption DEF ClearLists, Begins, At, CacheTypeOK
<1>19. CASE ClearDeletes(c)
  <2>1. row' \in [Parts -> [through : Times \cup {Absent}, path : BOOLEAN]]
    BY <1>3, <1>19 DEF ClearDeletes
  <2> QED
    BY <1>1, <1>19, <2>1 DEF ClearDeletes, At, CacheTypeOK
<1>20. CASE ClearUnlinks(c)
  BY <1>1, <1>20 DEF ClearUnlinks, CacheTypeOK
<1>21. CASE ClearEnds(c)
  BY <1>1, <1>21 DEF ClearEnds, At, CacheTypeOK
<1>22. CASE CacheCrash(c)
  BY <1>1, <1>2, <1>22, CacheAssumption DEF CacheCrash, Forget, CacheTypeOK
<1> QED
  BY <1>7, <1>8, <1>9, <1>10, <1>11, <1>12, <1>13, <1>14, <1>14a, <1>15, <1>16, <1>17, <1>18, <1>19, <1>20,
     <1>21, <1>22 DEF Acts

LEMMA ClockStands ==
  ASSUME NEW c \in CacheProcs, Acts(c)
  PROVE  clock' = clock
BY DEF Acts, ScanBegins, FetchReturns, FetchRaises, ReplaceFile, InsertRows, ReadRows, Collect,
       TrimBegins, TrimTotals, TrimUnlinks, TrimLoopEnds, TrimDeletes, ClearLists, ClearDeletes, ClearUnlinks,
       ClearEnds, CacheCrash, storeVars

LEMMA LocalSteps ==
  ASSUME CacheTypeOK, LocalInv, NEW c \in CacheProcs, Acts(c)
  PROVE  LocalInv'
<1>1. clock' = clock
  BY ClockStands
<1>2. ASSUME NEW d \in CacheProcs \ {c} PROVE Local(d)'
  BY <1>1, <1>2, OthersUntouched DEF Untouched, LocalInv, Local
<1> SUFFICES Local(c)'
  BY <1>2 DEF LocalInv
<1>3. Local(c)
  BY DEF LocalInv
<1>4. /\ clock \in Nat /\ asOf[c] \in Nat /\ through[c] \in Nat /\ 0 <= clock
      /\ todo[c] \subseteq gaps[c]
  <2>1. clock \in Times /\ asOf[c] \in Times /\ through[c] \in Times /\ todo[c] \subseteq gaps[c]
    BY CacheTypes
  <2> QED
    BY <2>1, TimesNat
<1> USE <1>1, <1>3, <1>4 DEF localVars, Local, CacheTypeOK
<1>5. CASE ScanBegins(c)
  <2>1. cpc'[c] \in {"read", "fetch"}
    BY <1>5 DEF ScanBegins
  <2>2. asOf'[c] = clock /\ gone'[c] = {} /\ todo'[c] = {} /\ clock <= clock
    BY <1>5 DEF ScanBegins
  <2> QED
    BY <2>1, <2>2
<1>6. CASE FetchReturns(c)
  BY <1>6 DEF FetchReturns, At
<1>7. CASE FetchRaises(c)
  BY <1>7 DEF FetchRaises, At, Forget
<1>8. CASE ReplaceFile(c)
  BY <1>8 DEF ReplaceFile
<1>9. CASE InsertRows(c)
  BY <1>9 DEF InsertRows, At
<1>10. CASE ReadRows(c)
  BY <1>10 DEF ReadRows, At
<1>11. CASE Collect(c)
  BY <1>11 DEF Collect, At, Forget
<1>12. CASE TrimBegins(c)
  BY <1>12 DEF TrimBegins, At
<1>12a. CASE TrimTotals(c)
  BY <1>12a DEF TrimTotals
<1>13. CASE TrimUnlinks(c)
  BY <1>13 DEF TrimUnlinks
<1>14. CASE TrimLoopEnds(c)
  BY <1>14 DEF TrimLoopEnds, At
<1>15. CASE TrimDeletes(c)
  BY <1>15 DEF TrimDeletes, At
<1>16. CASE ClearLists(c)
  BY <1>16 DEF ClearLists, At
<1>17. CASE ClearDeletes(c)
  BY <1>17 DEF ClearDeletes, At
<1>18. CASE ClearUnlinks(c)
  BY <1>18 DEF ClearUnlinks
<1>19. CASE ClearEnds(c)
  BY <1>19 DEF ClearEnds, At
<1>20. CASE CacheCrash(c)
  BY <1>20 DEF CacheCrash, Forget
<1> QED
  BY <1>5, <1>6, <1>7, <1>8, <1>9, <1>10, <1>11, <1>12, <1>12a, <1>13, <1>14, <1>15, <1>16, <1>17, <1>18,
     <1>19, <1>20 DEF Acts

\* What a step does to the disk: nothing, one file, or rows.
LEMMA StoreSteps ==
  ASSUME CacheTypeOK, LocalInv, StoreInv, NEW c \in CacheProcs, Acts(c)
  PROVE  StoreInv'
<1>1. clock' = clock
  BY ClockStands
<1> SUFFICES ASSUME NEW p \in Parts PROVE Stored(p)'
  BY DEF StoreInv
<1>2. Stored(p) /\ Local(c)
  BY DEF StoreInv, LocalInv
<1>3. /\ NoRow.through = Absent /\ NoRow.path = FALSE /\ ~(Absent > Start(p))
      /\ Absent <= MinOf(End(p), clock)
  <2>1. MinOf(End(p), clock) \in Nat /\ clock \in Times
    BY CacheTypes, Spans, TimesNat
  <2> QED
    BY <2>1, Spans DEF NoRow, Absent
<1> USE <1>1, <1>2
<1>4. CASE UNCHANGED <<file, row>>
  BY <1>4 DEF Stored
<1>5. CASE ReplaceFile(c)
  <2> DEFINE q == Min(todo[c])
             t == MinOf(End(q), through[c])
  <2>1. /\ cpc[c] = "replace" /\ todo[c] # {} /\ row' = row
        /\ file' = [file EXCEPT ![q] = t]
    BY <1>5 DEF ReplaceFile
  <2>2. q \in todo[c] /\ q \in Parts
    BY <2>1, CacheTypes, MinIn
  <2>3. HasRows(q, through[c]) /\ through[c] <= clock
    BY <2>1, <2>2 DEF Local
  <2>4. t \in Times /\ Start(q) < t /\ t <= clock
    <3>1. through[c] \in Times /\ clock \in Times /\ Times \subseteq Nat
      BY Spans, CacheTypes
    <3>2. t \in Times /\ t <= through[c] /\ t > Start(q) /\ Start(q) \in Times
      BY <2>2, <2>3, <3>1, Spans
    <3>3. through[c] \in Nat /\ clock \in Nat /\ t \in Nat /\ Start(q) \in Nat
      BY <3>1, <3>2, TimesNat
    <3> HIDE DEF q, t
    <3> QED
      BY <2>3, <3>2, <3>3
  <2> HIDE DEF q, t
  <2> QED
    BY <2>1, <2>2, <2>4 DEF Stored, CacheTypeOK
<1>6. CASE InsertRows(c)
  <2>1. file' = file /\ row'[p] = IF p \in gaps[c] THEN [through |-> MinOf(End(p), through[c]),
                                                     path |-> HasRows(p, through[c])] ELSE row[p]
    BY <1>6 DEF InsertRows
  <2>2. HasRows(p, through[c]) <=> MinOf(End(p), through[c]) > Start(p)
    BY Spans, CacheTypes
  <2>3. MinOf(End(p), through[c]) <= MinOf(End(p), clock)
    <3>1. through[c] <= clock
      BY <1>6 DEF InsertRows, At, Local
    <3>2. through[c] \in Times /\ clock \in Times /\ End(p) \in Times
      BY CacheTypes, Spans
    <3>3. through[c] \in Nat /\ clock \in Nat /\ End(p) \in Nat
      BY <3>2, TimesNat
    <3> QED
      BY <3>1, <3>3 DEF MinOf
  <2> QED
    BY <2>1, <2>2, <2>3 DEF Stored
<1>7. CASE TrimUnlinks(c)
  BY <1>7 DEF TrimUnlinks, Stored, CacheTypeOK
<1>8. CASE TrimDeletes(c)
  BY <1>3, <1>8 DEF TrimDeletes, Stored
<1>9. CASE ClearDeletes(c)
  BY <1>3, <1>9 DEF ClearDeletes, Stored
<1>10. CASE ClearUnlinks(c)
  BY <1>10 DEF ClearUnlinks, Stored, CacheTypeOK
<1>11. \/ UNCHANGED <<file, row>> \/ ReplaceFile(c) \/ InsertRows(c) \/ TrimUnlinks(c) \/ TrimDeletes(c)
       \/ ClearDeletes(c) \/ ClearUnlinks(c)
  BY DEF Acts, ScanBegins, FetchReturns, FetchRaises, ReadRows, Collect, TrimBegins, TrimTotals, TrimLoopEnds,
         ClearLists, ClearEnds, CacheCrash, storeVars
<1> QED
  BY <1>4, <1>5, <1>6, <1>7, <1>8, <1>9, <1>10, <1>11

-----------------------------------------------------------------------------
(* Calls one at a time.                                                    *)

LEMMA OthersAreIdle ==
  ASSUME OneAtATime, CacheTypeOK, CallsInTurn, NEW c \in CacheProcs, Acts(c)
  PROVE  OthersIdle(c) /\ OthersIdle(c)'
<1>1. OthersIdle(c)
  <2>1. CASE ScanBegins(c) \/ TrimBegins(c) \/ ClearLists(c)
    BY <2>1 DEF ScanBegins, TrimBegins, ClearLists, Begins, OthersIdle
  <2>2. CASE cpc[c] # "idle"
    BY <2>2 DEF CallsInTurn, OthersIdle
  <2>3. ScanBegins(c) \/ TrimBegins(c) \/ ClearLists(c) \/ cpc[c] # "idle"
    BY DEF Acts, FetchReturns, FetchRaises, ReplaceFile, InsertRows, ReadRows, Collect, TrimTotals, TrimUnlinks,
           TrimLoopEnds, TrimDeletes, ClearDeletes, ClearUnlinks, ClearEnds, CacheCrash, At
  <2> QED
    BY <2>1, <2>2, <2>3
<1>2. \A d \in CacheProcs \ {c} : cpc'[d] = cpc[d]
  BY OthersUntouched DEF Untouched
<1> QED
  BY <1>1, <1>2 DEF OthersIdle

\* The sizes that are compared.
LEMMA Sizes ==
  ASSUME CacheTypeOK, NEW c \in CacheProcs, NEW p \in Parts
  PROVE  /\ file[p] \in Int /\ row[p].through \in Int /\ (file[p] # Absent => file[p] \in Nat)
         /\ clock \in Nat /\ through[c] \in Nat /\ asOf[c] \in Nat /\ Start(p) \in Nat /\ End(p) \in Nat
         /\ MinOf(End(p), through[c]) \in Nat /\ MinOf(End(p), clock) \in Nat
         /\ Asked(c, p) \in Nat /\ Asked(c, p) <= asOf[c] /\ Asked(c, p) <= End(p)
<1>1. /\ file[p] \in Times \cup {Absent} /\ row[p].through \in Times \cup {Absent} /\ clock \in Times
      /\ through[c] \in Times /\ asOf[c] \in Times /\ Start(p) \in Times /\ End(p) \in Times
      /\ MinOf(End(p), through[c]) \in Times /\ MinOf(End(p), clock) \in Times /\ need[c] \in Nat
  BY CacheTypes, Spans
<1> QED
  BY <1>1, FileInt, TimesNat, AskedBounds DEF Asked

\* A partition whose file, row and blame stay as they are stays right.
LEMMA RightSame ==
  ASSUME NEW p \in Parts, Right(p), file'[p] = file[p], row'[p] = row[p], blame'[p] = blame[p]
  PROVE  Right(p)'
BY DEF Right, Overstated, Orphaned

\* What holds for one idle process holds for another.
LEMMA IdleAlike ==
  ASSUME LocalInv, NEW c \in CacheProcs, NEW d \in CacheProcs, cpc[c] = "idle", cpc[d] = "idle", Solo(c)
  PROVE  Solo(d)
BY DEF Solo, Work, Serves, InHand, LocalInv, Local

LEMMA ScanSolo ==
  ASSUME CacheTypeOK, StoreInv, NEW c \in CacheProcs, Solo(c), ScanBegins(c)
  PROVE  Solo(c)'
<1>1. PICK s \in SUBSET Parts, n \in Needs :
        LET g == {q \in s : Gap(q, n)}
        IN  /\ cpc' = [cpc EXCEPT ![c] = IF g = {} THEN "read" ELSE "fetch"]
            /\ want' = [want EXCEPT ![c] = s] /\ need' = [need EXCEPT ![c] = n]
            /\ gaps' = [gaps EXCEPT ![c] = g]
  BY DEF ScanBegins
<1>2. /\ file' = file /\ row' = row /\ blame' = blame /\ asOf'[c] = clock /\ cpc[c] = "idle"
  BY DEF ScanBegins, CacheTypeOK, storeVars
<1>3. /\ want'[c] = s /\ need'[c] = n /\ gaps'[c] = {q \in s : Gap(q, n)} /\ n \in Nat /\ clock \in Times
      /\ cpc'[c] \in {"read", "fetch"} /\ (cpc'[c] = "read" => gaps'[c] = {})
  BY <1>1, CacheAssumption DEF CacheTypeOK
<1>4. InHand(c) = {} /\ InHand(c)' = {}
  BY <1>2, <1>3 DEF InHand
<1>5. \A p \in Parts : Right(p) /\ Right(p)'
  BY <1>2, <1>4, RightSame DEF Solo
<1>6. Work(c)'
  BY <1>3 DEF Work
<1>7. ASSUME NEW p \in want'[c], Asked(c, p)' > Start(p), "trim_crash" \notin blame'[p]
      PROVE  Served(c, p)'
  <2>1. p \in Parts /\ Asked(c, p)' = MinOf(End(p), MinOf(n, clock))
    BY <1>2, <1>3, <1>7 DEF Asked
  <2>2. /\ Asked(c, p)' \in Nat /\ Asked(c, p)' <= MinOf(End(p), n) /\ Start(p) \in Nat /\ End(p) \in Nat
        /\ row[p].through \in Int /\ file[p] \in Int
    BY <1>3, <2>1, AskedBounds, Sizes
  <2>3. ASSUME p \notin gaps'[c] PROVE file[p] >= Asked(c, p)' /\ row[p].path
    <3>1. MinOf(End(p), n) \in Nat /\ ~(row[p].through < MinOf(End(p), n))
      BY <1>3, <1>7, <2>2, <2>3 DEF MinOf, Gap
    <3>2. row[p].through > Start(p) /\ row[p].through >= Asked(c, p)'
      BY <1>7, <2>2, <3>1
    <3>3. row[p].path
      BY <2>1, <3>2 DEF StoreInv, Stored
    <3>4. ~Overstated(p)
      BY <1>2, <1>5, <1>7, <2>1 DEF Right
    <3> QED
      BY <2>2, <3>2, <3>3, <3>4 DEF Overstated
  <2> QED
    BY <1>2, <1>3, <2>3 DEF Served
<1> QED
  BY <1>5, <1>6, <1>7 DEF Solo, Serves

LEMMA FetchSolo ==
  ASSUME CacheTypeOK, LocalInv, StoreInv, NEW c \in CacheProcs, Solo(c), FetchReturns(c)
  PROVE  Solo(c)'
<1>1. /\ cpc[c] = "fetch" /\ cpc'[c] = "replace" /\ file' = file /\ row' = row /\ blame' = blame
      /\ gaps' = gaps /\ through'[c] = clock /\ todo'[c] = {p \in gaps[c] : HasRows(p, clock)}
      /\ want' = want /\ need' = need /\ asOf' = asOf
  BY DEF FetchReturns, At, CacheTypeOK, storeVars
<1>2. InHand(c) = {}
  BY <1>1 DEF InHand
<1>3. \A p \in Parts : Right(p)'
  BY <1>1, <1>2, RightSame DEF Solo
<1>4. Work(c)'
  <2>1. \A p \in Parts : row[p].through <= MinOf(End(p), clock)
    BY DEF StoreInv, Stored
  <2>2. ASSUME NEW p \in gaps[c], ~HasRows(p, clock) PROVE file[p] = Absent
    <3>1. p \in Parts
      BY CacheTypes
    <3>2. file[p] # Absent => file[p] \in Nat /\ Start(p) < file[p] /\ file[p] <= clock
      BY <3>1, Sizes DEF StoreInv, Stored
    <3> QED
      BY <2>2, <3>1, <3>2, Sizes DEF HasRows
  <2> QED
    BY <1>1, <2>1, <2>2 DEF Work
<1>5. Serves(c)'
  BY <1>1 DEF Solo, Serves, Served, Asked
<1> QED
  BY <1>3, <1>4, <1>5 DEF Solo

\* A call that ends with nothing in hand.
LEMMA EndSolo ==
  ASSUME CacheTypeOK, LocalInv, NEW c \in CacheProcs, Solo(c), FetchRaises(c) \/ Collect(c) \/ ClearEnds(c)
  PROVE  Solo(c)'
<1>1. /\ cpc'[c] = "idle" /\ file' = file /\ row' = row /\ blame' = blame /\ want'[c] = {}
      /\ InHand(c) = {}
  <2>1. CASE FetchRaises(c) \/ Collect(c)
    BY <2>1 DEF FetchRaises, Collect, At, Forget, CacheTypeOK, storeVars, InHand
  <2>2. CASE ClearEnds(c)
    BY <2>2 DEF ClearEnds, At, CacheTypeOK, storeVars, localVars, InHand, LocalInv, Local
  <2> QED
    BY <2>1, <2>2
<1>2. \A p \in Parts : Right(p)'
  BY <1>1, RightSame DEF Solo
<1> QED
  BY <1>1, <1>2 DEF Solo, Work, Serves

LEMMA ReplaceSolo ==
  ASSUME CacheTypeOK, LocalInv, NEW c \in CacheProcs, Solo(c), ReplaceFile(c)
  PROVE  Solo(c)'
<1> DEFINE q == Min(todo[c])
           t == MinOf(End(q), through[c])
<1>1. /\ cpc[c] = "replace" /\ todo[c] # {} /\ cpc' = cpc /\ gaps' = gaps /\ through' = through /\ row' = row
      /\ want' = want /\ need' = need /\ asOf' = asOf /\ blame' = blame
      /\ file' = [file EXCEPT ![q] = t] /\ todo' = [todo EXCEPT ![c] = @ \ {q}]
  BY DEF ReplaceFile
<1>2. q \in todo[c] /\ q \in gaps[c] /\ q \in Parts
  BY <1>1, CacheTypes, MinIn
<1>3. HasRows(q, through[c])
  BY <1>1, <1>2 DEF LocalInv, Local
<1>4. /\ file'[q] = t /\ (\A p \in Parts : p # q => file'[p] = file[p]) /\ todo'[c] = todo[c] \ {q}
  BY <1>1, <1>2 DEF CacheTypeOK
<1>5. t = MinOf(End(q), through[c])
  OBVIOUS
<1> HIDE DEF q, t
<1>6. InHand(c) = gaps[c] \ todo[c] /\ InHand(c)' = gaps[c] \ (todo[c] \ {q})
  BY <1>1, <1>4 DEF InHand
<1>7. \A p \in Parts : p \notin InHand(c)' => Right(p)'
  BY <1>1, <1>2, <1>4, <1>6, RightSame DEF Solo
<1>8. Work(c)'
  <2>1. ASSUME NEW p \in gaps[c] \ todo'[c]
        PROVE  file'[p] = IF HasRows(p, through[c]) THEN MinOf(End(p), through[c]) ELSE Absent
    <3>1. p \in Parts
      BY CacheTypes
    <3>2. CASE p = q
      BY <1>3, <1>4, <1>5, <3>2
    <3>3. CASE p # q
      BY <1>1, <1>4, <3>1, <3>3 DEF Solo, Work
    <3> QED
      BY <3>2, <3>3
  <2>2. \A p \in Parts : row[p].through <= MinOf(End(p), through[c])
    BY <1>1 DEF Solo, Work
  <2> QED
    BY <1>1, <2>1, <2>2 DEF Work
<1>9. ASSUME NEW p \in want[c], Asked(c, p) > Start(p), "trim_crash" \notin blame[p], p \notin gaps[c]
      PROVE  file'[p] >= Asked(c, p) /\ row[p].path
  <2>1. Served(c, p) /\ p \in Parts /\ p # q
    BY <1>2, <1>9, CacheTypes DEF Solo, Serves
  <2> QED
    BY <1>1, <1>4, <1>9, <2>1 DEF Served
<1>10. Serves(c)'
  BY <1>1, <1>9 DEF Serves, Served, Asked
<1> QED
  BY <1>7, <1>8, <1>10 DEF Solo

LEMMA InsertSolo ==
  ASSUME CacheTypeOK, LocalInv, NEW c \in CacheProcs, Solo(c), InsertRows(c)
  PROVE  Solo(c)'
<1>1. /\ cpc[c] = "replace" /\ cpc'[c] = "read" /\ todo[c] = {} /\ file' = file /\ gaps'[c] = {}
      /\ want' = want /\ need' = need /\ asOf' = asOf
      /\ row' = [p \in Parts |-> IF p \in gaps[c] THEN [through |-> MinOf(End(p), through[c]),
                                                       path |-> HasRows(p, through[c])] ELSE row[p]]
      /\ Settles({p \in gaps[c] : HasRows(p, through[c]) \/ file[p] = Absent})
  BY DEF InsertRows, At, CacheTypeOK
<1>2. InHand(c) = gaps[c] /\ InHand(c)' = {}
  BY <1>1 DEF InHand
<1>3. \A p \in Parts : p \notin gaps[c] => row'[p] = row[p] /\ blame'[p] = blame[p]
  BY <1>1 DEF Settles
<1>4. ASSUME NEW p \in gaps[c]
      PROVE  /\ file[p] = IF HasRows(p, through[c]) THEN MinOf(End(p), through[c]) ELSE Absent
             /\ row'[p].through = MinOf(End(p), through[c]) /\ row'[p].path = HasRows(p, through[c])
             /\ MinOf(End(p), through[c]) \in Nat /\ p \in Parts
  <2>1. p \in Parts
    BY CacheTypes
  <2> QED
    BY <1>1, <2>1, Sizes DEF Solo, Work
<1>5. ASSUME NEW p \in Parts PROVE Right(p)'
  <2>1. CASE p \in gaps[c]
    <3>1. ~Overstated(p)' /\ ~Orphaned(p)'
      BY <1>1, <1>4, <2>1 DEF Overstated, Orphaned
    <3> QED
      BY <3>1 DEF Right
  <2>2. CASE p \notin gaps[c]
    BY <1>1, <1>2, <1>3, <2>2, RightSame DEF Solo
  <2> QED
    BY <2>1, <2>2
<1>6. Work(c)'
  BY <1>1 DEF Work
<1>7. ASSUME NEW p \in want[c], Asked(c, p) > Start(p), "trim_crash" \notin blame'[p]
      PROVE  file[p] >= Asked(c, p) /\ row'[p].path
  <2>1. p \in Parts
    BY CacheTypes
  <2>2. CASE p \in gaps[c]
    <3>1. asOf[c] <= through[c]
      BY <1>1 DEF LocalInv, Local
    <3>2. HasRows(p, through[c]) /\ MinOf(End(p), through[c]) >= Asked(c, p)
      BY <1>7, <2>1, <3>1, Sizes DEF HasRows, MinOf
    <3> QED
      BY <1>4, <2>2, <3>2
  <2>3. CASE p \notin gaps[c]
    BY <1>1, <1>3, <1>7, <2>1, <2>3 DEF Solo, Serves, Served
  <2> QED
    BY <2>2, <2>3
<1>8. Serves(c)'
  BY <1>1, <1>7 DEF Serves, Served, Asked
<1> QED
  BY <1>5, <1>6, <1>8 DEF Solo

LEMMA ReadSolo ==
  ASSUME CacheTypeOK, LocalInv, NEW c \in CacheProcs, Solo(c), ReadRows(c)
  PROVE  Solo(c)'
<1>1. /\ cpc[c] = "read" /\ cpc'[c] = "trim" /\ file' = file /\ row' = row /\ blame' = blame
      /\ want' = want /\ need' = need /\ asOf' = asOf /\ gone' = gone
      /\ found'[c] = want[c] \cap WithPath
  BY DEF ReadRows, At, CacheTypeOK, storeVars
<1>2. InHand(c) = {} /\ gone[c] = {}
  BY <1>1 DEF InHand, LocalInv, Local
<1>3. \A p \in Parts : Right(p)'
  BY <1>1, <1>2, RightSame DEF Solo
<1>4. Work(c)'
  BY <1>1, <1>2 DEF Work, WithPath
<1>5. ASSUME NEW p \in want[c], Asked(c, p) > Start(p), "trim_crash" \notin blame[p]
      PROVE  p \in found'[c] /\ file[p] >= Asked(c, p)
  <2>1. p \in Parts /\ Served(c, p)
    BY <1>5, CacheTypes DEF Solo, Serves
  <2> QED
    BY <1>1, <2>1 DEF Served, WithPath
<1>6. Serves(c)'
  BY <1>1, <1>5 DEF Serves, Served, Asked
<1> QED
  BY <1>3, <1>4, <1>6 DEF Solo

\* The steps of a trim that change neither a file nor a row.
LEMMA TrimSolo ==
  ASSUME CacheTypeOK, LocalInv, NEW c \in CacheProcs, Solo(c), TrimBegins(c) \/ TrimTotals(c) \/ TrimLoopEnds(c)
  PROVE  Solo(c)'
<1>1. /\ file' = file /\ row' = row /\ blame' = blame /\ want' = want /\ need' = need /\ asOf' = asOf
      /\ gone' = gone /\ found' = found
  BY DEF TrimBegins, TrimTotals, TrimLoopEnds, storeVars, localVars
<1>2. \/ cpc[c] = "idle" /\ cpc'[c] = "trim"
      \/ cpc[c] = "trim" /\ cpc'[c] \in {"select", "collect"}
      \/ cpc[c] = "unlink" /\ cpc'[c] = "delete"
      \/ cpc[c] = "select" /\ cpc'[c] = "collect"
  BY DEF TrimBegins, TrimTotals, TrimLoopEnds, At, CacheTypeOK
<1>3. Local(c)
  BY DEF LocalInv
<1>4. InHand(c)' = InHand(c)
  BY <1>1, <1>2 DEF InHand
<1>5. \A p \in Parts : p \notin InHand(c)' => Right(p)'
  BY <1>1, <1>4, RightSame DEF Solo
<1>6. Work(c)'
  BY <1>1, <1>2, <1>3 DEF Work, Solo, WithPath, Local
<1>7. Serves(c)'
  BY <1>1, <1>2, <1>3 DEF Serves, Served, Asked, Solo, Local
<1> QED
  BY <1>5, <1>6, <1>7 DEF Solo

LEMMA UnlinkSolo ==
  ASSUME CacheTypeOK, LocalInv, NEW c \in CacheProcs, Solo(c), TrimUnlinks(c)
  PROVE  Solo(c)'
<1>1. PICK q \in Evictable(c) : file' = [file EXCEPT ![q] = Absent] /\ gone' = [gone EXCEPT ![c] = @ \cup {q}]
  BY DEF TrimUnlinks
<1>2. /\ cpc[c] \in {"select", "unlink"} /\ cpc'[c] = "unlink" /\ row' = row /\ blame' = blame
      /\ want' = want /\ need' = need /\ asOf' = asOf /\ found' = found
  BY DEF TrimUnlinks, CacheTypeOK
<1>3. q \in Parts /\ q \in WithPath /\ q \notin found[c]
  BY DEF Evictable, WithPath
<1>4. /\ file'[q] = Absent /\ (\A p \in Parts : p # q => file'[p] = file[p]) /\ gone'[c] = gone[c] \cup {q}
  BY <1>1, <1>3 DEF CacheTypeOK
<1>5. InHand(c) = gone[c] /\ InHand(c)' = gone[c] \cup {q}
  BY <1>2, <1>4 DEF InHand, LocalInv, Local
<1>6. \A p \in Parts : p \notin InHand(c)' => Right(p)'
  BY <1>2, <1>4, <1>5, RightSame DEF Solo
<1>7. want[c] \cap WithPath \subseteq found[c] /\ want[c] \cap gone[c] = {} /\ q \notin want[c]
  BY <1>2, <1>3 DEF Solo, Work
<1>8. \A p \in gone[c] : p \in Parts /\ file[p] = Absent
  BY <1>2, CacheTypes DEF Solo, Work, LocalInv, Local
<1>9. Work(c)'
  BY <1>2, <1>4, <1>7, <1>8 DEF Work, WithPath
<1>10. ASSUME NEW p \in want[c], Asked(c, p) > Start(p), "trim_crash" \notin blame[p]
       PROVE  p \in found[c] /\ file'[p] >= Asked(c, p)
  BY <1>2, <1>4, <1>7, <1>10, CacheTypes DEF Solo, Serves, Served
<1>11. Serves(c)'
  BY <1>2, <1>10 DEF Serves, Served, Asked
<1> QED
  BY <1>6, <1>9, <1>11 DEF Solo

LEMMA DeleteSolo ==
  ASSUME CacheTypeOK, LocalInv, NEW c \in CacheProcs, Solo(c), TrimDeletes(c)
  PROVE  Solo(c)'
<1>1. /\ cpc[c] = "delete" /\ cpc'[c] = "collect" /\ file' = file
      /\ want' = want /\ need' = need /\ asOf' = asOf /\ found' = found
      /\ row' = [p \in Parts |-> IF p \in gone[c] /\ row[p].path THEN NoRow ELSE row[p]]
      /\ Settles(gone[c])
  BY DEF TrimDeletes, At, CacheTypeOK
<1>2. InHand(c) = gone[c] /\ NoRow.path = FALSE
  BY <1>1 DEF InHand, NoRow
<1>3. ASSUME NEW p \in Parts PROVE Right(p)'
  <2>1. CASE p \in gone[c]
    <3>1. file'[p] = Absent /\ ~row'[p].path
      BY <1>1, <1>2, <2>1 DEF Solo, Work
    <3> QED
      BY <3>1 DEF Right, Overstated, Orphaned
  <2>2. CASE p \notin gone[c]
    <3>1. row'[p] = row[p] /\ blame'[p] = blame[p] /\ Right(p)
      BY <1>1, <1>2, <2>2 DEF Settles, Solo
    <3> QED
      BY <1>1, <3>1, RightSame
  <2> QED
    BY <2>1, <2>2
<1>4. Work(c)'
  BY <1>1 DEF Work
<1>5. ASSUME NEW p \in want[c], Asked(c, p) > Start(p), "trim_crash" \notin blame'[p]
      PROVE  p \in found[c] /\ file[p] >= Asked(c, p)
  <2>1. p \in Parts /\ p \notin gone[c]
    BY <1>1, CacheTypes DEF Solo, Work
  <2>2. blame'[p] = blame[p]
    BY <1>1, <2>1 DEF Settles
  <2> QED
    BY <1>1, <1>5, <2>2 DEF Solo, Serves, Served
<1>6. Serves(c)'
  BY <1>1, <1>5 DEF Serves, Served, Asked
<1> QED
  BY <1>3, <1>4, <1>6 DEF Solo

\* The steps of a clear: when its rows go, a file it has not listed has no row.
LEMMA ClearSolo ==
  ASSUME CacheTypeOK, LocalInv, NEW c \in CacheProcs, Solo(c), ClearLists(c) \/ ClearDeletes(c) \/ ClearUnlinks(c)
  PROVE  Solo(c)'
<1>1. Local(c) /\ NoRow.path = FALSE
  BY DEF LocalInv, NoRow
<1>2. CASE ClearLists(c)
  <2>1. /\ cpc[c] = "idle" /\ cpc'[c] = "clear" /\ file' = file /\ row' = row /\ blame' = blame
        /\ want' = want /\ gone'[c] = WithPath
    BY <1>2 DEF ClearLists, At, CacheTypeOK, storeVars
  <2>2. InHand(c) = {} /\ want[c] = {}
    BY <1>1, <2>1 DEF InHand, Local
  <2>3. \A p \in Parts : Right(p)'
    BY <2>1, <2>2, RightSame DEF Solo
  <2> QED
    BY <2>1, <2>2, <2>3 DEF Solo, Work, Serves, WithPath
<1>3. CASE ClearDeletes(c)
  <2>1. /\ cpc[c] = "clear" /\ cpc'[c] = "wipe" /\ file' = file /\ row' = [p \in Parts |-> NoRow]
        /\ want' = want /\ gone' = gone /\ Settles({p \in Parts : file[p] = Absent})
    BY <1>3 DEF ClearDeletes, At, CacheTypeOK, localVars
  <2>2. InHand(c) = {} /\ InHand(c)' = gone[c] /\ want[c] = {}
    BY <1>1, <2>1 DEF InHand, Local
  <2>3. ASSUME NEW p \in Parts, p \notin gone[c] PROVE Right(p)'
    <3>1. ~row[p].path /\ Right(p)
      BY <2>1, <2>2, <2>3 DEF Solo, Work, WithPath
    <3>2. file[p] # Absent => blame'[p] = blame[p] /\ blame[p] # {}
      BY <2>1, <3>1 DEF Settles, Right, Orphaned
    <3> QED
      BY <1>1, <2>1, <3>2 DEF Right, Overstated, Orphaned
  <2> QED
    BY <2>1, <2>2, <2>3 DEF Solo, Work, Serves
<1>4. CASE ClearUnlinks(c)
  <2> DEFINE q == Min(gone[c])
  <2>1. /\ cpc[c] = "wipe" /\ gone[c] # {} /\ cpc' = cpc /\ row' = row /\ want' = want
        /\ file' = [file EXCEPT ![q] = Absent] /\ gone' = [gone EXCEPT ![c] = @ \ {q}] /\ Settles({q})
    BY <1>4 DEF ClearUnlinks
  <2>2. q \in gone[c] /\ q \in Parts
    BY <2>1, CacheTypes, MinIn
  <2> HIDE DEF q
  <2>3. /\ file'[q] = Absent /\ gone'[c] = gone[c] \ {q} /\ want[c] = {}
        /\ \A p \in Parts : p # q => file'[p] = file[p] /\ blame'[p] = blame[p]
    BY <1>1, <2>1, <2>2 DEF CacheTypeOK, Settles, Local
  <2>4. InHand(c) = gone[c] /\ InHand(c)' = gone[c] \ {q}
    BY <2>1, <2>3 DEF InHand
  <2>5. \A p \in Parts : row[p] = NoRow
    BY <2>1 DEF Solo, Work
  <2>6. ASSUME NEW p \in Parts, p \notin gone[c] \ {q} PROVE Right(p)'
    <3>1. CASE p = q
      BY <1>1, <2>1, <2>3, <2>5, <3>1 DEF Right, Overstated, Orphaned
    <3>2. CASE p # q
      BY <2>1, <2>3, <2>4, <2>6, <3>2, RightSame DEF Solo
    <3> QED
      BY <3>1, <3>2
  <2> QED
    BY <2>1, <2>3, <2>4, <2>5, <2>6 DEF Solo, Work, Serves
<1> QED
  BY <1>2, <1>3, <1>4

\* A death between a file and its row: a write leaves no row that claims more
\* than there is, a clear leaves no row.
LEMMA CrashSolo ==
  ASSUME CacheTypeOK, LocalInv, StoreInv, NEW c \in CacheProcs, Solo(c), CacheCrash(c)
  PROVE  Solo(c)'
<1>1. /\ cpc'[c] = "idle" /\ file' = file /\ row' = row /\ want'[c] = {}
      /\ \A p \in Parts : blame'[p] = blame[p] \cup (IF p \in InHand(c) THEN {Cause(c)} ELSE {})
  BY DEF CacheCrash, Forget, Dies, CacheTypeOK, storeVars
<1>2. ASSUME NEW p \in Parts, p \in InHand(c) PROVE Right(p)'
  <2>1. Cause(c) \in blame'[p]
    BY <1>1, <1>2
  <2>2. ~Overstated(p) \/ Cause(c) = "trim_crash"
    <3>1. CASE cpc[c] = "replace"
      <4>1. p \in gaps[c] \ todo[c]
        BY <1>2, <3>1 DEF InHand
      <4>2. /\ row[p].through <= MinOf(End(p), through[c])
            /\ file[p] = IF HasRows(p, through[c]) THEN MinOf(End(p), through[c]) ELSE Absent
        BY <3>1, <4>1 DEF Solo, Work
      <4>3. CASE HasRows(p, through[c])
        BY <4>2, <4>3, Sizes DEF Overstated
      <4>4. CASE ~HasRows(p, through[c])
        <5>1. MinOf(End(p), through[c]) <= Start(p)
          BY <4>4, Sizes, Spans DEF HasRows, MinOf
        <5>2. ~(row[p].through > Start(p))
          BY <4>2, <5>1, Sizes
        <5> QED
          BY <5>2 DEF Overstated, StoreInv, Stored
      <4> QED
        BY <4>3, <4>4
    <3>2. CASE cpc[c] \in {"unlink", "delete"}
      BY <3>2 DEF Cause
    <3>3. CASE cpc[c] = "wipe"
      BY <3>3 DEF Solo, Work, Overstated, NoRow
    <3> QED
      BY <1>2, <3>1, <3>2, <3>3 DEF InHand
  <2>3. ~Overstated(p)' \/ Cause(c) = "trim_crash"
    BY <1>1, <2>2 DEF Overstated
  <2> QED
    BY <2>1, <2>3 DEF Right
<1>3. ASSUME NEW p \in Parts, p \notin InHand(c) PROVE Right(p)'
  BY <1>1, <1>3, RightSame DEF Solo
<1> QED
  BY <1>1, <1>2, <1>3 DEF Solo, Work, Serves

LEMMA ActsSolo ==
  ASSUME CacheTypeOK, LocalInv, StoreInv, NEW c \in CacheProcs, Solo(c), Acts(c)
  PROVE  Solo(c)'
BY ScanSolo, FetchSolo, EndSolo, ReplaceSolo, InsertSolo, ReadSolo, TrimSolo, UnlinkSolo, DeleteSolo, ClearSolo,
   CrashSolo DEF Acts

\* A step of a call keeps the invariant: with calls one at a time it is a step
\* of the only one.
LEMMA CallSteps ==
  ASSUME CacheInv, NEW c \in CacheProcs, Acts(c)
  PROVE  CacheInv'
<1> USE DEF CacheInv
<1>1. CacheTypeOK' /\ LocalInv' /\ StoreInv'
  BY CacheTypeSteps, LocalSteps, StoreSteps
<1>2. ASSUME OneAtATime PROVE OthersIdle(c) /\ OthersIdle(c)' /\ Solo(c)'
  <2>1. OthersIdle(c) /\ OthersIdle(c)'
    BY <1>2, OthersAreIdle
  <2>2. Solo(c)
    BY <1>2, <2>1 DEF SoloInv
  <2> QED
    BY <2>1, <2>2, ActsSolo
<1>3. CallsInTurn'
  BY <1>2 DEF CallsInTurn, OthersIdle
<1>4. RestInv'
  BY <1>2 DEF RestInv, Resting, Solo
<1>5. ASSUME OneAtATime, NEW d \in CacheProcs \ {c}, OthersIdle(d)' PROVE Solo(d)'
  <2>1. cpc'[c] = "idle" /\ cpc'[d] = "idle" /\ Solo(c)' /\ LocalInv'
    BY <1>1, <1>2, <1>5 DEF OthersIdle
  <2> QED
    BY <2>1 DEF Solo, Work, Serves, InHand, LocalInv, Local
<1>6. SoloInv'
  BY <1>2, <1>5 DEF SoloInv
<1> QED
  BY <1>1, <1>3, <1>4, <1>6

\* The exchange publishes more: what was complete stays so.
LEMMA PublishKeeps ==
  ASSUME CacheInv, Publish
  PROVE  CacheInv'
<1> USE DEF CacheInv
<1>1. /\ clock' = clock + 1 /\ clock' \in Times /\ clock \in Times
      /\ UNCHANGED <<file, row, cpc, want, need, gaps, todo, through, found, gone, total, calls, crashes, asOf, blame>>
  BY DEF Publish, localVars, CacheTypeOK
<1>2. clock \in Nat
  BY <1>1, TimesNat
<1>3. CacheTypeOK'
  BY <1>1 DEF CacheTypeOK
<1>4. LocalInv'
  <2> SUFFICES ASSUME NEW c \in CacheProcs PROVE Local(c)'
    BY DEF LocalInv
  <2>1. Local(c) /\ asOf[c] \in Nat /\ through[c] \in Nat
    BY CacheTypes, TimesNat DEF LocalInv
  <2>2. asOf[c] <= clock + 1 /\ (cpc[c] = "replace" => through[c] <= clock + 1)
    BY <1>2, <2>1 DEF Local
  <2> QED
    BY <1>1, <2>1, <2>2 DEF Local
<1>5. StoreInv'
  <2> SUFFICES ASSUME NEW p \in Parts PROVE Stored(p)'
    BY DEF StoreInv
  <2>1. Stored(p) /\ file[p] \in Int /\ row[p].through \in Int /\ End(p) \in Nat
    <3>1. file[p] \in Times \cup {Absent} /\ row[p].through \in Times \cup {Absent} /\ End(p) \in Times
      BY CacheTypes, Spans
    <3> QED
      BY <3>1, FileInt, TimesNat DEF StoreInv
  <2>2. (file[p] # Absent => file[p] <= clock + 1) /\ row[p].through <= MinOf(End(p), clock + 1)
    BY <1>2, <2>1 DEF Stored, MinOf
  <2> QED
    BY <1>1, <2>1, <2>2 DEF Stored
<1>6. CallsInTurn'
  BY <1>1 DEF CallsInTurn
<1>7. RestInv'
  BY <1>1 DEF RestInv, Resting, InHand, Right, Overstated, Orphaned
<1>8. SoloInv'
  <2> SUFFICES ASSUME OneAtATime, NEW c \in CacheProcs, OthersIdle(c)' PROVE Solo(c)'
    BY DEF SoloInv
  <2>1. Solo(c)
    BY <1>1 DEF SoloInv, OthersIdle
  <2>2. Work(c)' /\ Serves(c)'
    BY <1>1, <2>1 DEF Solo, Work, Serves, Served, Asked, WithPath
  <2>3. ASSUME NEW p \in Parts, p \notin InHand(c)' PROVE Right(p)'
    BY <1>1, <2>1, <2>3, RightSame DEF Solo, InHand
  <2> QED
    BY <2>2, <2>3 DEF Solo
<1> QED
  BY <1>3, <1>4, <1>5, <1>6, <1>7, <1>8

LEMMA CacheSteps ==
  ASSUME CacheInv, CacheNext
  PROVE  CacheInv'
<1>1. (\E c \in CacheProcs : Acts(c)) \/ Publish
  BY DEF CacheNext, Acts
<1> QED
  BY <1>1, CallSteps, PublishKeeps

LEMMA CacheRests ==
  ASSUME CacheInv, UNCHANGED cacheVars
  PROVE  CacheInv'
<1> USE DEF CacheInv, cacheVars, storeVars, localVars
<1>1. CacheTypeOK' /\ CallsInTurn'
  BY DEF CacheTypeOK, CallsInTurn
<1>2. LocalInv' /\ StoreInv'
  BY DEF LocalInv, Local, StoreInv, Stored
<1>3. RestInv'
  BY DEF RestInv, Resting, InHand, Right, Overstated, Orphaned
<1>4. SoloInv'
  BY DEF SoloInv, OthersIdle, Solo, Work, Serves, Served, Asked, WithPath, InHand, Right, Overstated, Orphaned
<1> QED
  BY <1>1, <1>2, <1>3, <1>4

LEMMA CacheShows ==
  ASSUME OneAtATime, CacheInv
  PROVE  IndexMatchesFiles /\ ScanServes
<1> USE DEF CacheInv
<1>1. IndexMatchesFiles
  BY DEF IndexMatchesFiles, RowsAreBacked, RestInv, Right
<1>2. ASSUME NEW c \in CacheProcs, cpc[c] = "collect", NEW p \in want[c], ~(Asked(c, p) <= Start(p)),
             "trim_crash" \notin blame[p]
      PROVE  p \in found[c] /\ file[p] >= Asked(c, p)
  <2>1. OthersIdle(c)
    BY <1>2 DEF CallsInTurn, OthersIdle
  <2>2. Solo(c) /\ p \in Parts
    BY <2>1, CacheTypes DEF SoloInv
  <2>3. Asked(c, p) > Start(p)
    BY <1>2, <2>2, Sizes
  <2> QED
    BY <1>2, <2>2, <2>3 DEF Solo, Serves, Served
<1> QED
  BY <1>1, <1>2 DEF ScanServes

-----------------------------------------------------------------------------
(* The research store.                                                     *)

LEMMA StoreStep ==
  CacheInv /\ LedgerInv /\ [StoreNext]_<<cacheVars, ledgerVars, store>> => CacheInv' /\ LedgerInv'
<1> SUFFICES ASSUME CacheInv, LedgerInv, [StoreNext]_<<cacheVars, ledgerVars, store>>
             PROVE  CacheInv' /\ LedgerInv'
  OBVIOUS
<1>1. CacheInv'
  BY CacheSteps, CacheRests DEF StoreNext
<1>2. LedgerInv'
  BY LedgerSteps, LedgerRests DEF StoreNext
<1> QED
  BY <1>1, <1>2

LEMMA StoreHolds == StoreSpec => [](CacheInv /\ LedgerInv)
<1>1. StoreInit => CacheInv /\ LedgerInv
  BY CacheStarts, LedgerStarts DEF StoreInit
<1> QED
  BY <1>1, StoreStep, PTL DEF StoreSpec

\* Files, rows, the processes' locals, the ledger's folder and its memories
\* keep their types, however the processes' calls overlap.
THEOREM StoreTyped == StoreSpec => []StoreTypeOK
<1>1. CacheInv /\ LedgerInv => StoreTypeOK
  BY DEF CacheInv, LedgerInv, StoreTypeOK
<1> QED
  BY <1>1, StoreHolds, PTL

\* With calls of scan(), trim() and clear() one at a time, a row of the cache's
\* index claims more than its file holds only after a trim died between its
\* unlinks and its delete, and a file has no row only after some call died half
\* way: for any number of processes, partitions, calls and deaths.
THEOREM IndexMatches ==
  ASSUME OneAtATime
  PROVE  StoreSpec => []IndexMatchesFiles
<1>1. CacheInv => IndexMatchesFiles
  BY CacheShows
<1> QED
  BY <1>1, StoreHolds, PTL

\* With calls one at a time, scan() serves every partition as far as it was
\* asked and was published, its own trim() included, whatever calls died before
\* it, but for a partition whose file a dying trim unlinked: for any number of
\* processes, partitions, calls and deaths.
THEOREM ScanServesAsked ==
  ASSUME OneAtATime
  PROVE  StoreSpec => []ScanServes
<1>1. CacheInv => ScanServes
  BY CacheShows
<1> QED
  BY <1>1, StoreHolds, PTL

\* With one process at a time on the ledger, the folder and every open process
\* show what was recorded last, through saves of several batches; only a death
\* inside save() leaves a file cut short, at most one each, and from then on
\* _rows() raises: for any number of processes, trials and deaths.
THEOREM LedgerKeeps ==
  ASSUME OneOpen
  PROVE  StoreSpec => []LedgerKeepsLatest
<1>1. LedgerInv => LedgerKeepsLatest
  BY LedgerShows
<1> QED
  BY <1>1, StoreHolds, PTL
=============================================================================
