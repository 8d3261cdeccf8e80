---------------------------- MODULE MCMarketPath ----------------------------
(* The engine's step, on the book of module MCEngine, and the ring its     *)
(* market data comes on, with two consumers, wrapped twice.  Engine and    *)
(* ring share no state: a behaviour exercises one of them.                 *)
EXTENDS MCEngine, SpmcQueue

VARIABLE part

\* The part that is not exercised stays where one of its behaviours begins.
PathInit == /\ Init /\ RingInit /\ part \in {"engine", "ring"}
            /\ part = "ring" => composition = CHOOSE c \in Compositions : TRUE

PathNext == \/ part = "engine" /\ Next /\ UNCHANGED <<ringVars, part>>
            \/ part = "ring" /\ RingNext /\ UNCHANGED <<vars, part>>

PathSpec == PathInit /\ [][PathNext]_<<vars, ringVars, part>>
=============================================================================
