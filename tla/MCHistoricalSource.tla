------------------------- MODULE MCHistoricalSource -------------------------
(* Three universes of three streams: klines, depth and trades of one perp; *)
(* spot and Coin-M klines in two units with Coin-M funding; mark, premium  *)
(* and metrics.  Their buckets hold equal, repeated and backwards stamps,  *)
(* torn groups, headers, blanks, malformed rows, checksums, files outside  *)
(* the span and failed files.                                              *)
EXTENDS HistoricalSource, TLC

I(v) == [t |-> "int", v |-> v]
D == [t |-> "dec", v |-> 150]
Percent(v) == [t |-> "dec", v |-> v]
Tail15 == [t |-> "tail", v |-> 150]
T(v) == [t |-> "time", v |-> v]
B == [t |-> "bool", v |-> 0]
X == [t |-> "text", v |-> 0]

Header == <<X, X>>
Bar(v) == <<I(v - 1), D, D, Tail15, D, D, I(v), D>>
Torn(v) == <<I(v - 1), D, D>>
Band(v, p) == <<T(v), Percent(p), D, D>>
Ladder(v) == <<Band(v, -100), Band(v, 100)>>
Ladder12(v) == <<Band(v, -100), Band(v, -20), Band(v, 20), Band(v, 100)>>
Trade(id, v) == <<I(id), D, D, I(id), I(id), I(v), B>>
Funding(v) == <<I(v), I(8), D>>
Metric(v) == <<T(v), X, D, D, Blank, Blank, Blank, D>>

Day(m, d) == [y |-> 2024, m |-> m, d |-> d]
Month(m) == Day(m, 0)
File(stamp, rs) == [name |-> "zip", stamp |-> stamp, ok |-> TRUE, rows |-> rs]
Failed(stamp) == [File(stamp, << >>) EXCEPT !.ok = FALSE]
Checksum(stamp) == [File(stamp, << >>) EXCEPT !.name = "checksum"]

MCFrom == DaysFromCivil(2024, 2, 29)
MCTo == DaysFromCivil(2024, 3, 2)

H12 == [count |-> 12, unit |-> "h"]
D1 == [count |-> 1, unit |-> "d"]
Spec0(kind) == [kind |-> kind, interval |-> H12]
Add(market, symbol) == [exchange |-> Binance, market |-> market, symbol |-> symbol]

Perp == [adds |-> <<Add(1, "BTC")>>, cadence |-> "Daily",
         specs |-> <<Spec0("AggTrades"), Spec0("Klines"), Spec0("BookDepth")>>]

Klines == {<<File(Day(2, 28), <<Bar(5)>>), File(Day(2, 29), <<Header, Bar(20)>>),
             Checksum(Day(2, 29)), File(Day(3, 1), <<Bar(30)>>)>>,
           <<File(Day(2, 29), <<Bar(10)>>), Failed(Day(3, 1)),
             File(Day(3, 2), <<Bar(20), Torn(30)>>)>>}
Depth == {<<File(Day(2, 29), Ladder(200) \o <<<< >>>> \o Ladder12(300))>>,
          <<File(Day(2, 29), <<Band(100, -100), <<T(100), X>>, Band(200, -100)>>),
            File(Day(3, 1), Ladder(200))>>}
Trades == {<<File(Day(2, 29), <<Trade(1, 200)>>), Failed(Day(3, 1)),
             File(Day(3, 2), <<Trade(3, 300)>>)>>,
           <<File(Day(2, 29), <<Trade(1, 300), Trade(2, 100)>>), File(Day(3, 1), << >>),
             File(Day(3, 3), <<Trade(3, 900)>>)>>,
           << >>}

PerpBucket(k, d, t) ==
    (<<"UsdM", "Daily", "Klines", "BTC", H12>> :> k)
        @@ (<<"UsdM", "Daily", "BookDepth", "BTC", NoInterval>> :> d)
        @@ (<<"UsdM", "Daily", "AggTrades", "BTC", NoInterval>> :> t)

\* Spot writes microseconds and has no funding; Coin-M funding is monthly only.
TwoMarkets == [adds |-> <<Add(0, "BTC"), Add(2, "BTC"), Add(9, "BTC")>>, cadence |-> "Daily",
               specs |-> <<[kind |-> "FundingRate", interval |-> D1],
                           [kind |-> "Klines", interval |-> D1]>>]

TwoMarketsBucket ==
    (<<"Spot", "Daily", "Klines", "BTC", D1>> :>
         <<File(Day(2, 29), <<Bar(200)>>), File(Day(3, 1), <<Bar(300)>>), Failed(Day(3, 2))>>)
        @@ (<<"CoinM", "Daily", "Klines", "BTC", D1>> :>
                <<File(Day(2, 29), <<Bar(20)>>), Failed(Day(3, 1)),
                  File(Day(3, 2), <<SubSeq(Bar(30), 1, 7)>>)>>)
        @@ (<<"CoinM", "Monthly", "FundingRate", "BTC", NoInterval>> :>
                <<File(Month(2), <<Funding(10)>>),
                  File(Month(3), <<Header, Funding(20), Funding(0), Funding(30)>>)>>)

Indices == [adds |-> <<Add(1, "BTC")>>, cadence |-> "Monthly",
            specs |-> <<Spec0("Metrics"), Spec0("PremiumIndexKlines"), Spec0("MarkPriceKlines")>>]

\* The early metrics files carry every row twice.
IndicesBucket ==
    (<<"UsdM", "Monthly", "MarkPriceKlines", "BTC", H12>> :> <<File(Month(3), <<Bar(20), Bar(30)>>)>>)
        @@ (<<"UsdM", "Monthly", "PremiumIndexKlines", "BTC", H12>> :>
                <<Checksum(Month(3)), File(Month(3), <<Bar(10), Bar(30)>>)>>)
        @@ (<<"UsdM", "Daily", "Metrics", "BTC", NoInterval>> :>
                <<File(Day(3, 1), <<Metric(200), Metric(200)>>), Failed(Day(3, 2)),
                  Checksum(Day(3, 2)), File(Day(3, 3), <<Metric(900)>>)>>)

World(u, b) == [universe |-> u, bucket |-> b]
MCWorlds == {World(Perp, PerpBucket(k, d, t)) : k \in Klines, d \in Depth, t \in Trades}
                \cup {World(TwoMarkets, TwoMarketsBucket), World(Indices, IndicesBucket)}
=============================================================================
