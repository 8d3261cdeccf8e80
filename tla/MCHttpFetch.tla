---------------------------- MODULE MCHttpFetch -----------------------------
(* The fetch path down to the connections: a worker, and a lister beside   *)
(* it; or two workers.                                                     *)
EXTENDS HttpFetch

MCHostOf == [g \in Callers |-> IF g \in Workers THEN "data" ELSE "listing"]

MCIdleCap == [g \in Callers |-> IF g \in Workers THEN Cardinality(Workers) ELSE 2]
=============================================================================
