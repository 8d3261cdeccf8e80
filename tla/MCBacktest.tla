----------------------------- MODULE MCBacktest -----------------------------
(* Tapes of one and two legs, longer than the sinks they pass through.     *)
EXTENDS Backtest

OneLeg == {<< <<1, 3, 3, 6>> >>}
TwoLegs == {<< <<1, 2, 3, 4>>, <<2, 4>> >>, << <<2>>, <<1, 2, 4>> >>, << <<1, 2, 3, 4>>, << >> >>}
MCTapes == OneLeg \cup TwoLegs

\* The second leg has more left after the first than its sink can hold.
LongLeg == {<< <<1>>, <<1, 2, 3, 4, 5>> >>}
=============================================================================
