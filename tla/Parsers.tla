------------------------------- MODULE Parsers -------------------------------
(***************************************************************************)
(* The dataset parsers.  A row is the sequence of its comma separated      *)
(* fields, the blank row is << >>, and a field is what its text spells:    *)
(*   int   digits only, the number v, with a sign if v < 0                 *)
(*   dec   any other number, v in hundredths                               *)
(*   tail  a number v (in hundredths) with something after it, as 1.5x     *)
(*   time  YYYY-MM-DD HH:MM:SS, an instant v the calendar has              *)
(*   bool  true or false      blank  nothing      text  anything else      *)
(* Instants are microseconds.                                              *)
(***************************************************************************)
EXTENDS Integers, Sequences, FiniteSets, Functions

CONSTANTS MicrosecondFloor,   \* kMicrosecondFloor, from here on a stamp is in microseconds
          StampCeiling,       \* kStampCeiling, the first stamp refused
          MicrosPerMilli,     \* 1000
          DepthBands          \* kDepthBands, bands on each side of mid

Fields == [t : {"int", "dec", "tail", "time", "bool", "blank", "text"}, v : Int]
Blank == [t |-> "blank", v |-> 0]

\* take_field(): a field past the end of the row is empty.
FieldOf(row, i) == IF i <= Len(row) THEN row[i] ELSE Blank

\* row.empty() after n fields: one trailing comma goes unnoticed.
EndsAt(row, n) == Len(row) <= n \/ (Len(row) = n + 1 /\ row[n + 1] = Blank)

\* is_header_row(): the row does not start with a digit.
IsHeader(row) == \/ FieldOf(row, 1).t \in {"blank", "bool", "text"}
                 \/ FieldOf(row, 1).v < 0

TakesStamp(f) == f.t = "int" /\ f.v > 0 /\ f.v < StampCeiling

\* to_nanos(), in microseconds: both units occur within one dataset.
StampOf(f) == IF f.v >= MicrosecondFloor THEN f.v ELSE f.v * MicrosPerMilli

TakesInteger(f) == f.t = "int"

\* take_decimal(): what the digit scan refuses goes to take_double_slow(), and
\* from_chars is content with a number and a tail.
TakesDecimal(f) == f.t \in {"int", "dec", "tail", "time"}

TakesOptionalDecimal(f) == f = Blank \/ TakesDecimal(f)

TakesBool(f) == f.t = "bool"

TakesDatetime(f) == f.t = "time"

\* A decimal in hundredths; an instant read as a number is its year.
Hundredths(f) == CASE f.t = "int" -> 100 * f.v
                   [] f.t \in {"dec", "tail"} -> f.v
                   [] OTHER -> 197000
-----------------------------------------------------------------------------
(* One parser per layout: whether it takes the row, and the event's time.  *)

\* read_kline_row(): the trailing columns are ignored.
TakesKline(entry, row) ==
    /\ TakesStamp(FieldOf(row, 1)) /\ TakesStamp(FieldOf(row, 7))
    /\ \A i \in 2 .. 6 : TakesDecimal(FieldOf(row, i))
    /\ entry.volume_column = 7 => TakesDecimal(FieldOf(row, 8))

\* parse_funding_row()
TakesFunding(row) ==
    /\ TakesStamp(FieldOf(row, 1))
    /\ TakesInteger(FieldOf(row, 2)) /\ FieldOf(row, 2).v > 0
    /\ TakesDecimal(FieldOf(row, 3))

\* parse_metrics_row(): the four ratios may be missing.
TakesMetrics(row) ==
    /\ TakesDatetime(FieldOf(row, 1)) /\ FieldOf(row, 2) # Blank
    /\ \A i \in 3 .. 4 : TakesDecimal(FieldOf(row, i))
    /\ \A i \in 5 .. 8 : TakesOptionalDecimal(FieldOf(row, i))

\* parse_agg_trades_row(): id, price, quantity, first and last trade id, stamp,
\* maker side, and on spot a best match flag.
TakesAggTrade(entry, row) ==
    LET columns == IF entry.column_count > 7 THEN 8 ELSE 7
    IN  /\ \A i \in {1, 4, 5} : TakesInteger(FieldOf(row, i)) /\ FieldOf(row, i).v >= 0
        /\ FieldOf(row, 5).v >= FieldOf(row, 4).v
        /\ \A i \in {2, 3} : TakesDecimal(FieldOf(row, i)) /\ Hundredths(FieldOf(row, i)) > 0
        /\ TakesStamp(FieldOf(row, 6))
        /\ \A i \in 7 .. columns : TakesBool(FieldOf(row, i))
        /\ EndsAt(row, columns)

Bands == {100 * b : b \in (-DepthBands .. DepthBands) \ {0}}
InnerBands == {-20, 20}

\* parse_book_depth_group(): a block of rows of one stamp, every band exactly
\* once, and both inner bands or neither.
TakesDepthGroup(block) ==
    LET percents == [i \in DOMAIN block |-> Hundredths(FieldOf(block[i], 2))]
    IN  /\ \A i \in DOMAIN block :
              /\ TakesDatetime(FieldOf(block[i], 1)) /\ block[i][1].v = block[1][1].v
              /\ \A c \in 2 .. 4 : TakesDecimal(FieldOf(block[i], c))
              /\ EndsAt(block[i], 4)
        /\ Range(percents) \in {Bands, Bands \cup InnerBands}
        /\ Len(block) = Cardinality(Range(percents))

\* P::parse() of a stream's block: one row, except for depth.
Takes(st, block) ==
    CASE st.kind = "FundingRate" -> TakesFunding(block[1])
      [] st.kind = "Metrics" -> TakesMetrics(block[1])
      [] st.kind = "BookDepth" -> TakesDepthGroup(block)
      [] st.kind = "AggTrades" -> TakesAggTrade(st.endpoint, block[1])
      [] OTHER -> TakesKline(st.endpoint, block[1])

\* The event's time: a bar's is its close.
EventTime(st, block) ==
    CASE st.kind = "FundingRate" -> StampOf(block[1][1])
      [] st.kind \in {"Metrics", "BookDepth"} -> block[1][1].v
      [] st.kind = "AggTrades" -> StampOf(block[1][6])
      [] OTHER -> StampOf(block[1][7])

\* P::sequence(), which only AggTradesParser has; 0 otherwise.
SequenceId(st, block) == IF st.kind = "AggTrades" THEN block[1][1].v ELSE 0
=============================================================================
