---------------------------- MODULE MCFetchPool -----------------------------
(* The fetch path with two workers, and the queue its tasks wait in, on    *)
(* two cells with two racing consumers, lapped twice.  The pool's module   *)
(* has the queue as a sequence, so a behaviour exercises one of the two.   *)
EXTENDS FetchPool, WorkQueue, TLC

VARIABLE part

PoolInit == Init /\ WorkInit /\ part \in {"pool", "tasks"}

PoolNext == \/ part = "pool" /\ Next /\ UNCHANGED <<workVars, part>>
            \/ part = "tasks" /\ WorkNext /\ UNCHANGED <<vars, part>>

PoolSpec == PoolInit /\ [][PoolNext]_<<vars, workVars, part>>

\* Workers are interchangeable, and so are quiescing threads, consumers and
\* the tasks pushed.
Symmetry == Permutations(Workers) \cup Permutations(Quiescers)
                \cup Permutations(Consumers) \cup Permutations(Events)
=============================================================================
