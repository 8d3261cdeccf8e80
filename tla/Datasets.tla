------------------------------ MODULE Datasets ------------------------------
(***************************************************************************)
(* What a BinanceHistoricalSource reads: the subscription's markets and    *)
(* symbols, the endpoint table, the stream built for each of them, and the *)
(* files planned from a stream's bucket prefix.  All of it is computed     *)
(* once, before the first event.                                           *)
(***************************************************************************)
EXTENDS Integers, Sequences, SequencesExt

CONSTANTS PageSize     \* keys the bucket lists in one page

-----------------------------------------------------------------------------
(* Subscription: the slots of a sequence of SubscriptionBuilder::add calls *)
(* [exchange, market, symbol].                                             *)

Binance == 0

\* The distinct values of s, in the order of their first occurrence.
FirstSeen(s) ==
    FoldLeft(LAMBDA acc, x : IF Contains(acc, x) THEN acc ELSE Append(acc, x), << >>, s)

\* The markets of an exchange, in the order the builder met them.
MarketsOf(adds, exchange) ==
    LET mine == SelectSeq(adds, LAMBDA a : a.exchange = exchange)
    IN  FirstSeen([i \in 1 .. Len(mine) |-> mine[i].market])

\* A market's symbols: a symbol added twice is listed twice.
SymbolsOf(adds, exchange, market) ==
    LET mine == SelectSeq(adds, LAMBDA a : a.exchange = exchange /\ a.market = market)
    IN  [i \in 1 .. Len(mine) |-> mine[i].symbol]

\* resolve(): a symbol's slot is its first position in its market.
Resolve(adds, exchange, market, symbol) ==
    [exchange |-> exchange, market |-> market,
     symbol |-> SelectInSeq(SymbolsOf(adds, exchange, market), LAMBDA x : x = symbol) - 1]
-----------------------------------------------------------------------------
(* The endpoint table.                                                     *)

MarketOfSlot == <<"Spot", "UsdM", "CoinM">>
KnownMarket(slot) == slot + 1 \in DOMAIN MarketOfSlot

EndpointKinds == <<"Klines", "MarkPriceKlines", "PremiumIndexKlines", "FundingRate",
                   "Metrics", "BookDepth", "AggTrades">>

\* The twelve column layouts, one row per bar.
BarKinds == {"Klines", "MarkPriceKlines", "PremiumIndexKlines"}

\* find_endpoint() finds an entry: spot has neither funding, mark, premium,
\* metrics nor depth.
Publishes(market, kind) == market = "Spot" => kind \in {"Klines", "AggTrades"}

NoColumn == 255

\* The entry of kEndpoints.
Endpoint(market, kind) ==
    [cadence |-> CASE kind = "FundingRate" -> {"Monthly"}
                   [] kind \in {"Metrics", "BookDepth"} -> {"Daily"}
                   [] OTHER -> {"Daily", "Monthly"},
     intervalled |-> kind \in BarKinds,
     column_count |-> CASE kind \in BarKinds -> 12
                        [] kind = "FundingRate" -> 3
                        [] kind = "Metrics" -> 8
                        [] kind = "BookDepth" -> 4
                        [] OTHER -> IF market = "Spot" THEN 8 ELSE 7,
     volume_column |-> CASE kind = "Klines" /\ market = "CoinM" -> 7
                         [] kind \in BarKinds -> 5
                         [] kind = "FundingRate" -> 0
                         [] OTHER -> NoColumn]

\* supports(), and fallback_cadence() when the asked for cadence is not there.
CadenceFor(entry, asked) == IF asked \in entry.cadence THEN asked
                            ELSE IF entry.cadence = {"Daily"} THEN "Daily" ELSE "Monthly"
-----------------------------------------------------------------------------
(* build_streams(), add_stream(), add() and index_streams(): a universe is *)
(* [adds, specs, cadence], a spec [kind, interval].                        *)

NoInterval == [count |-> 0, unit |-> ""]

\* The stream of one spec for one symbol: none when the market does not
\* publish the dataset.
StreamsFor(u, slot, symbol, spec) ==
    LET market == MarketOfSlot[slot + 1]
        entry == Endpoint(market, spec.kind)
    IN  IF ~Publishes(market, spec.kind) THEN << >>
        ELSE <<[kind |-> spec.kind, endpoint |-> entry, market |-> market,
                cadence |-> CadenceFor(entry, u.cadence), symbol |-> symbol,
                interval |-> IF entry.intervalled THEN spec.interval ELSE NoInterval,
                instrument |-> Resolve(u.adds, Binance, slot, symbol)]>>

\* Every stream of the universe in the order they are added.
Built(u) ==
    LET slots == SelectSeq(MarketsOf(u.adds, Binance), KnownMarket)
        OfSymbol(slot, symbol) ==
            FlattenSeq([k \in 1 .. Len(u.specs) |-> StreamsFor(u, slot, symbol, u.specs[k])])
        OfMarket(slot) ==
            LET symbols == SymbolsOf(u.adds, Binance, slot)
            IN  FlattenSeq([j \in 1 .. Len(symbols) |-> OfSymbol(slot, symbols[j])])
    IN  FlattenSeq([i \in 1 .. Len(slots) |-> OfMarket(slots[i])])

\* The flat index: kind by kind, each in the order it was added.
StreamTable(u) ==
    LET OfKind(kind) == SelectSeq(Built(u), LAMBDA st : st.kind = kind)
    IN  FlattenSeq([k \in 1 .. Len(EndpointKinds) |-> OfKind(EndpointKinds[k])])
-----------------------------------------------------------------------------
(* Planning: the bucket maps a prefix to its keys in listing order, a key  *)
(* is [name, stamp, ...] with a stamp [y, m, d], d = 0 for a month's file. *)

\* prefix(): the interval is there only if the dataset carries one.
Prefix(st) == <<st.market, st.cadence, st.kind, st.symbol, st.interval>>

\* list_keys(): pages to exhaustion, resuming after the last key of a page;
\* CHECKSUM keys are dropped.
ListKeys(keys) ==
    LET from[marker \in 0 .. Len(keys)] ==
            LET end == IF marker + PageSize < Len(keys) THEN marker + PageSize ELSE Len(keys)
                page == SubSeq(keys, marker + 1, end)
                kept == SelectSeq(page, LAMBDA key : key.name # "checksum")
                truncated == end < Len(keys)
            IN  IF page = << >> THEN << >>
                ELSE IF truncated THEN kept \o from[end] ELSE kept
    IN  from[0]

\* days_from_civil(): days since 1970-01-01.  \div rounds down, which is what
\* the era's case split is for.
DaysFromCivil(y, m, d) ==
    LET yy == IF m <= 2 THEN y - 1 ELSE y
        era == yy \div 400
        yoe == yy - era * 400
        doy == (153 * (m + (IF m > 2 THEN -3 ELSE 9)) + 2) \div 5 + d - 1
        doe == yoe * 365 + yoe \div 4 - yoe \div 100 + doy
    IN  era * 146097 + doe - 719468

DaysInMonth(y, m) ==
    LET leap == (y % 4 = 0 /\ y % 100 # 0) \/ y % 400 = 0
    IN  IF m \notin 1 .. 12 THEN 0
        ELSE IF m = 2 /\ leap THEN 29
        ELSE <<31, 28, 31, 30, 31, 30, 31, 31, 30, 31, 30, 31>>[m]

\* stamp_start_nanos(), in days.
StampStart(stamp) == DaysFromCivil(stamp.y, stamp.m, IF stamp.d = 0 THEN 1 ELSE stamp.d)

\* plan(): the listed keys that end in a stamp and start inside the span.
Plan(keys, from, to) ==
    SelectSeq(ListKeys(keys), LAMBDA key : /\ key.name = "zip"
                                           /\ StampStart(key.stamp) >= from
                                           /\ StampStart(key.stamp) <= to)

\* interval_nanos(), in seconds: 0 for no interval or an unknown unit.
IntervalSeconds(interval) ==
    interval.count * (CASE interval.unit = "s" -> 1
                        [] interval.unit = "m" -> 60
                        [] interval.unit = "h" -> 3600
                        [] interval.unit = "d" -> 86400
                        [] interval.unit = "w" -> 604800
                        [] OTHER -> 0)

\* expected_rows(): the bars that fit the file's day or month.
ExpectedRows(st, stamp) ==
    LET width == IntervalSeconds(st.interval)
        days == IF stamp.d # 0 THEN 1 ELSE DaysInMonth(stamp.y, stamp.m)
    IN  IF width = 0 THEN 0 ELSE (days * 86400) \div width
=============================================================================
