-------------------------- MODULE HistoricalSource --------------------------
(***************************************************************************)
(* BinanceHistoricalSource over BinanceHistoricalStream: next() refills    *)
(* the streams that have no front event, one after the other, and hands    *)
(* out the earliest front once every unfinished stream has one.  Files     *)
(* land while next() runs (module FetchPool shows in which order they can  *)
(* be taken), so every row and every take is a step.                       *)
(*                                                                         *)
(* A stream is its index in the table that module Datasets builds from the *)
(* universe; a file is a key of the bucket with what fetching it gives:    *)
(* whether it failed and its rows, which module Parsers reads.             *)
(***************************************************************************)
EXTENDS Integers, Sequences, FiniteSets, Datasets, Parsers

CONSTANTS Worlds,      \* a universe and a bucket: [universe, bucket]
          From, To,    \* the configured span, in days
          None

ASSUME SourceAssumption ==
    /\ PageSize \in Nat \ {0} /\ DepthBands \in Nat \ {0}
    /\ From \in Nat /\ To \in Nat
    /\ MicrosecondFloor \in Nat /\ StampCeiling \in Nat /\ MicrosPerMilli \in Nat \ {0}
    /\ MicrosecondFloor < StampCeiling
    /\ None \notin Int /\ None \notin [stream : Nat, ts : Int, id : Int]

VARIABLES table,                          \* the streams, in the order of the flat index
          paths,                          \* per stream, the planned files
          landed,                         \* per stream, files answered by the pool
          read_cursor, rows, last_ts, last_sequence,
          stats,                          \* GapStats
          front,                          \* the Slot: its event, None if not loaded
          pending, heap,
          pc, visit, keep, waiting,       \* next()'s walk over pending_
          out                             \* history: the events handed out

streamVars == <<read_cursor, rows, last_ts, last_sequence, stats>>
walkVars == <<visit, keep, waiting>>
vars == <<table, paths, landed, streamVars, front, pending, heap, pc, walkVars, out>>

Streams == 1 .. Len(table)
Bars == {s \in Streams : table[s].kind \in BarKinds}
Grouped == {s \in Streams : table[s].kind = "BookDepth"}
Sequenced == {s \in Streams : table[s].kind = "AggTrades"}

NoStats == [files_planned |-> 0, files_read |-> 0, files_failed |-> 0, header_rows |-> 0,
            blank_rows |-> 0, rows_expected |-> 0, rows_parsed |-> 0, rows_rejected |-> 0,
            backwards_stamps |-> 0, repeated_stamps |-> 0, sequence_gaps |-> 0]

\* The keys the lister answers for a prefix.
Listed(bucket, prefix) == IF prefix \in DOMAIN bucket THEN bucket[prefix] ELSE << >>

\* Finitely many streams and files; a file's rows are sequences of fields.
ASSUME WorldsAssumption ==
    \A w \in Worlds :
        LET streams == StreamTable(w.universe)
        IN  /\ Len(streams) \in Nat
            /\ \A s \in 1 .. Len(streams) :
                  LET plan == Plan(Listed(w.bucket, Prefix(streams[s])), From, To)
                  IN  /\ streams[s].interval.count \in Nat /\ Len(plan) \in Nat
                      /\ \A i \in 1 .. Len(plan) :
                            /\ plan[i].ok \in BOOLEAN /\ plan[i].rows \in Seq(Seq(Fields))
                            /\ plan[i].stamp \in [y : Nat, m : Nat, d : Nat]

\* The constructor, and plan_with() over every stream.
Init == /\ \E w \in Worlds :
              /\ table = StreamTable(w.universe)
              /\ paths = [s \in Streams |-> Plan(Listed(w.bucket, Prefix(table[s])), From, To)]
        /\ landed = [s \in Streams |-> 0] /\ read_cursor = [s \in Streams |-> 0]
        /\ rows = [s \in Streams |-> << >>] /\ last_ts = [s \in Streams |-> 0]
        /\ last_sequence = [s \in Streams |-> None]
        /\ stats = [s \in Streams |-> [NoStats EXCEPT !.files_planned = Len(paths[s])]]
        /\ front = [s \in Streams |-> None]
        /\ pending = [i \in Streams |-> i] /\ heap = {}
        /\ pc = "idle" /\ visit = 1 /\ keep = 0 /\ waiting = FALSE
        /\ out = << >>
-----------------------------------------------------------------------------
(* The pool answers the next file of stream s.                             *)

Land(s) == /\ landed[s] < Len(paths[s])
           /\ landed' = [landed EXCEPT ![s] = @ + 1]
           /\ UNCHANGED <<table, paths, streamVars, front, pending, heap, pc, walkVars, out>>
-----------------------------------------------------------------------------
(* BinanceHistoricalSource::next().                                        *)

Call == /\ pc = "idle"
        /\ pc' = "walk" /\ visit' = 1 /\ keep' = 0 /\ waiting' = FALSE
        /\ UNCHANGED <<table, paths, landed, streamVars, front, pending, heap, out>>

\* The stream being refilled.
cur == pending[visit]

\* The heap's Entry: a bar comes after everything else at an equal stamp.
EntryOf(e) == <<e.ts, IF e.stream \in Bars THEN 1 ELSE 0, e.stream>>

\* operator< of the tuple.
Before(a, b) == \/ a[1] < b[1]
                \/ a[1] = b[1] /\ a[2] < b[2]
                \/ a[1] = b[1] /\ a[2] = b[2] /\ a[3] < b[3]

\* refill() of the stream in turn: a slot still loaded is not loaded again.
Visit == /\ pc = "walk" /\ visit <= Len(pending)
         /\ IF front[cur] = None
            THEN pc' = "stream" /\ UNCHANGED <<visit, heap>>
            ELSE /\ heap' = heap \cup {EntryOf(front[cur])}
                 /\ visit' = visit + 1 /\ UNCHANGED pc
         /\ UNCHANGED <<table, paths, landed, streamVars, front, pending, keep, waiting, out>>

Bump(s, field, n) == stats' = [stats EXCEPT ![s][field] = @ + n]

\* The file taken is counted under field, and its expected rows with it.
CountFile(s, field) ==
    stats' = [stats EXCEPT
                ![s][field] = @ + 1,
                ![s].rows_expected = @ + ExpectedRows(table[s], paths[s][read_cursor[s] + 1].stamp)]

\* Mutant: a failed file stays where it is.
LoadFile_FailureStays ==
    /\ pc = "stream" /\ rows[cur] = << >> /\ read_cursor[cur] < landed[cur]
    /\ LET file == paths[cur][read_cursor[cur] + 1]
       IN  IF file.ok
           THEN /\ rows' = [rows EXCEPT ![cur] = file.rows]
                /\ read_cursor' = [read_cursor EXCEPT ![cur] = @ + 1]
                /\ CountFile(cur, "files_read")
           ELSE UNCHANGED <<rows, stats, read_cursor>>
    /\ UNCHANGED <<table, paths, landed, last_ts, last_sequence, front, pending, heap, pc, walkVars, out>>

\* load_next_file(): a failed file is counted, its expected rows too, and passed
\* over.
LoadFile ==
    /\ pc = "stream" /\ rows[cur] = << >> /\ read_cursor[cur] < landed[cur]
    /\ LET file == paths[cur][read_cursor[cur] + 1]
       IN  IF file.ok
           THEN rows' = [rows EXCEPT ![cur] = file.rows] /\ CountFile(cur, "files_read")
           ELSE CountFile(cur, "files_failed") /\ UNCHANGED rows
    /\ read_cursor' = [read_cursor EXCEPT ![cur] = @ + 1]
    /\ UNCHANGED <<table, paths, landed, last_ts, last_sequence, front, pending, heap, pc, walkVars, out>>

Skipped(row) == row = << >> \/ IsHeader(row)

\* A blank or header row is counted and skipped.
SkipRow == /\ pc = "stream" /\ rows[cur] # << >> /\ Skipped(Head(rows[cur]))
           /\ Bump(cur, IF Head(rows[cur]) = << >> THEN "blank_rows" ELSE "header_rows", 1)
           /\ rows' = [rows EXCEPT ![cur] = Tail(@)]
           /\ UNCHANGED <<table, paths, landed, read_cursor, last_ts, last_sequence, front, pending,
                          heap, pc, walkVars, out>>

\* take_row() and extend_run(): how many rows reach the parser together.
RunLength(s) ==
    IF s \notin Grouped THEN 1
    ELSE LET Shares(n) == \A i \in 1 .. n : FieldOf(rows[s][i], 1) = FieldOf(rows[s][1], 1)
         IN  CHOOSE n \in 1 .. Len(rows[s]) :
                Shares(n) /\ (n < Len(rows[s]) => ~Shares(n + 1))

Block == SubSeq(rows[cur], 1, RunLength(cur))
Rest == SubSeq(rows[cur], RunLength(cur) + 1, Len(rows[cur]))

AtRow == pc = "stream" /\ rows[cur] # << >> /\ ~Skipped(Head(rows[cur]))
Parses == Takes(table[cur], Block)

\* Mutant: a rejected group counts as one row.
RejectRows_One == /\ AtRow /\ ~Parses
                  /\ Bump(cur, "rows_rejected", 1)
                  /\ rows' = [rows EXCEPT ![cur] = Rest]
                  /\ UNCHANGED <<table, paths, landed, read_cursor, last_ts, last_sequence, front, pending,
                                 heap, pc, walkVars, out>>

RejectRows == /\ AtRow /\ ~Parses
              /\ Bump(cur, "rows_rejected", Len(Block))
              /\ rows' = [rows EXCEPT ![cur] = Rest]
              /\ UNCHANGED <<table, paths, landed, read_cursor, last_ts, last_sequence, front, pending,
                             heap, pc, walkVars, out>>

\* Mutant: only a step back is a gap.
Breaks_BackOnly(s, id) == last_sequence[s] # None /\ id < last_sequence[s] + 1

\* check_sequence()
Breaks(s, id) == last_sequence[s] # None /\ id # last_sequence[s] + 1

\* An event: it becomes the stream's front and enters the heap.
Parse ==
    /\ AtRow /\ Parses
    /\ LET ts == EventTime(table[cur], Block)
           id == SequenceId(table[cur], Block)
           e == [stream |-> cur, ts |-> ts, id |-> id]
           One(condition) == IF condition THEN 1 ELSE 0
       IN  /\ front' = [front EXCEPT ![cur] = e]
           /\ heap' = heap \cup {EntryOf(e)}
           /\ last_ts' = [last_ts EXCEPT ![cur] = ts]
           /\ last_sequence' = IF cur \in Sequenced THEN [last_sequence EXCEPT ![cur] = id]
                               ELSE last_sequence
           /\ stats' = [stats EXCEPT
                  ![cur].rows_parsed = @ + Len(Block),
                  ![cur].backwards_stamps = @ + One(ts < last_ts[cur]),
                  ![cur].repeated_stamps = @ + One(ts = last_ts[cur] /\ stats[cur].rows_parsed > 0),
                  ![cur].sequence_gaps = @ + One(cur \in Sequenced /\ Breaks(cur, id))]
    /\ rows' = [rows EXCEPT ![cur] = Rest]
    /\ visit' = visit + 1 /\ pc' = "walk"
    /\ UNCHANGED <<table, paths, landed, read_cursor, pending, keep, waiting, out>>

\* finished(): pump() has asked for every file by the time all are read.
Finished(s) == read_cursor[s] >= Len(paths[s]) /\ rows[s] = << >>

\* The stream has nothing to give: it is dropped, or kept in pending_.
Starved == /\ pc = "stream" /\ rows[cur] = << >> /\ read_cursor[cur] = landed[cur]
           /\ IF Finished(cur)
              THEN UNCHANGED <<pending, keep, waiting>>
              ELSE /\ pending' = [pending EXCEPT ![keep + 1] = cur]
                   /\ keep' = keep + 1 /\ waiting' = TRUE
           /\ visit' = visit + 1 /\ pc' = "walk"
           /\ UNCHANGED <<table, paths, landed, streamVars, front, heap, out>>

Walked == pc = "walk" /\ visit > Len(pending)

\* Mutant: an event is handed out although a stream has none to compare.
MustWait_Never == FALSE

MustWait == waiting

AnswerNoData == /\ Walked /\ MustWait
                /\ pending' = SubSeq(pending, 1, keep)
                /\ pc' = "idle"
                /\ UNCHANGED <<table, paths, landed, streamVars, front, heap, walkVars, out>>

AnswerEof == /\ Walked /\ ~MustWait /\ heap = {}
             /\ pending' = SubSeq(pending, 1, keep)
             /\ pc' = "eof"
             /\ UNCHANGED <<table, paths, landed, streamVars, front, heap, walkVars, out>>

\* Mutant: the slot is not marked as empty.
AnswerEvent_StaysLoaded ==
    /\ Walked /\ ~MustWait
    /\ \E top \in heap :
          /\ \A other \in heap \ {top} : Before(top, other)
          /\ heap' = heap \ {top}
          /\ pending' = Append(SubSeq(pending, 1, keep), top[3])
          /\ out' = Append(out, front[top[3]])
    /\ pc' = "idle"
    /\ UNCHANGED <<table, paths, landed, streamVars, front, walkVars>>

\* The heap's top is moved out, and its stream becomes pending.
AnswerEvent ==
    /\ Walked /\ ~MustWait
    /\ \E top \in heap :
          /\ \A other \in heap \ {top} : Before(top, other)
          /\ heap' = heap \ {top}
          /\ pending' = Append(SubSeq(pending, 1, keep), top[3])
          /\ out' = Append(out, front[top[3]])
          /\ front' = [front EXCEPT ![top[3]] = None]
    /\ pc' = "idle"
    /\ UNCHANGED <<table, paths, landed, streamVars, walkVars>>

Pull == \/ Call \/ Visit \/ LoadFile \/ SkipRow \/ RejectRows \/ Parse \/ Starved
        \/ AnswerNoData \/ AnswerEof \/ AnswerEvent

Answer == \E s \in Streams : Land(s)

Next == Pull \/ Answer

Spec == Init /\ [][Next]_vars
-----------------------------------------------------------------------------
(* Properties.                                                             *)

GapStats == [files_planned : Nat, files_read : Nat, files_failed : Nat, header_rows : Nat,
             blank_rows : Nat, rows_expected : Nat, rows_parsed : Nat, rows_rejected : Nat,
             backwards_stamps : Nat, repeated_stamps : Nat, sequence_gaps : Nat]
Events == [stream : Streams, ts : Int, id : Int]

\* The types of the streams and the walk; the compaction of pending_ never
\* writes past the entry being visited.
TypeOK == /\ landed \in [Streams -> Nat] /\ read_cursor \in [Streams -> Nat]
          /\ last_ts \in [Streams -> Int] /\ last_sequence \in [Streams -> Int \cup {None}]
          /\ rows \in [Streams -> Seq(Seq(Fields))]
          /\ stats \in [Streams -> GapStats]
          /\ front \in [Streams -> Events \cup {None}]
          /\ pending \in Seq(Streams) /\ heap \subseteq Int \X {0, 1} \X Streams
          /\ pc \in {"idle", "walk", "stream", "eof"}
          /\ visit \in Nat \ {0} /\ waiting \in BOOLEAN
          /\ pc \in {"walk", "stream"} => keep \in 0 .. visit - 1
          /\ out \in Seq(Events)

\* The merged order, as the documentation promises it: earliest stamp first, a
\* bar after everything else of its stamp, then the lower index.
MergedBefore(e, f) == \/ e.ts < f.ts
                      \/ e.ts = f.ts /\ e.stream \notin Bars /\ f.stream \in Bars
                      \/ /\ e.ts = f.ts /\ (e.stream \in Bars <=> f.stream \in Bars)
                         /\ e.stream < f.stream

StepsBack == {i \in 1 .. Len(out) - 1 : MergedBefore(out[i + 1], out[i])}

\* "Merges every stream into one ascending timestamp order", although files
\* land in any order between the refills: the only steps back are backwards
\* stamps of one stream's own file, and each of those has been counted.
MergedInOrder ==
    /\ \A i \in StepsBack : out[i].stream = out[i + 1].stream
    /\ \A s \in Streams :
          Cardinality({i \in StepsBack : out[i].stream = s}) <= stats[s].backwards_stamps

InHeap(s) == {t \in heap : t[3] = s}
InPending(s) == {i \in 1 .. Len(pending) : pending[i] = s}

\* "Every stream is in exactly one of pending_ or heap_, or dropped once
\* finished", between two calls; the streams in the heap are those with a front,
\* and Eof is answered only when all are finished.
OnePlace ==
    /\ pc = "eof" => heap = {} /\ \A s \in Streams : Finished(s)
    /\ pc \in {"idle", "eof"} =>
        \A s \in Streams :
            /\ Cardinality(InHeap(s)) + Cardinality(InPending(s)) <= 1
            /\ InHeap(s) = {} /\ InPending(s) = {} => Finished(s)
            /\ InHeap(s) # {} <=> front[s] # None

\* The files of s that were read, their rows, and the events of s handed out.
FilesRead(s) == {i \in 1 .. read_cursor[s] : paths[s][i].ok}
RowsRead(s) == UNION {{i} \X (1 .. Len(paths[s][i].rows)) : i \in FilesRead(s)}
OutOf(s) == {i \in 1 .. Len(out) : out[i].stream = s}

\* "The two still add up to what the file held": the rows parsed, rejected and
\* skipped, with those still buffered, are the rows of the files read, and the
\* rows parsed are the rows of the events that came out or wait to.  Where
\* every file has room for its bars, a failed file "still counts its expected
\* rows, so the shortfall shows against rows_parsed".
RowsAddUp ==
    \A s \in Streams :
        LET st == stats[s]
            events == Cardinality(OutOf(s)) + (IF front[s] = None THEN 0 ELSE 1)
            most == IF s \in Grouped THEN 2 * DepthBands + 2 ELSE 1
            least == IF s \in Grouped THEN 2 * DepthBands ELSE 1
            Regular(file) == LET fit == ExpectedRows(table[s], file.stamp)
                             IN  fit > 0 /\ Len(file.rows) <= fit
        IN  /\ st.rows_parsed + st.rows_rejected + st.header_rows + st.blank_rows + Len(rows[s])
                  = Cardinality(RowsRead(s))
            /\ st.rows_parsed \in events * least .. events * most
            /\ st.files_read = Cardinality(FilesRead(s))
            /\ st.files_read + st.files_failed = read_cursor[s]
            /\ st.files_failed > 0 /\ (\A i \in 1 .. Len(paths[s]) : Regular(paths[s][i])) =>
                  st.rows_parsed < st.rows_expected

\* Each break of a sequenced dataset's ids is missing tape: without a counted
\* gap the ids handed out follow one another, whatever files failed.
MissingTapeShows ==
    \A s \in Sequenced :
        stats[s].sequence_gaps = 0 =>
            \A i, j \in OutOf(s) :
                i < j /\ OutOf(s) \cap (i + 1 .. j - 1) = {} => out[j].id = out[i].id + 1

\* A pull loop over the source comes to Eof, whatever fails.
ReachesEof == <>(pc = "eof")
=============================================================================
