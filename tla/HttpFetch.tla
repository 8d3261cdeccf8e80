------------------------------ MODULE HttpFetch -----------------------------
(***************************************************************************)
(* The fetch pool on the http client: what FetchPool takes as one atomic   *)
(* attempt with any outcome is here a call of http::get, step by step,     *)
(* against the connection pool all threads of the process share.           *)
(*                                                                         *)
(* Beside the pool's workers there are listers: threads that call http::get*)
(* through list_keys or list_children, which nothing orders with respect   *)
(* to the pool or its shutdown (the Python binding of list_children runs   *)
(* without the GIL).  They ask kListingHost with the default HttpConfig,   *)
(* the workers kDataHost with the pool's own, whose cap is raised to the   *)
(* number of workers; close_idle_connections() closes both hosts' idle     *)
(* connections.                                                            *)
(***************************************************************************)
EXTENDS FetchPool, HttpClient

CONSTANTS Listers,      \* threads that list the bucket
          Unzipped,     \* what unzipping makes of a body (external): "Ok", "ZipError"
          MaxListings   \* bound: listing requests of all listers

ASSUME CompositionAssumption == /\ Callers = Workers \cup Listers
                                /\ \A g \in Callers : HostOf[g] = IF g \in Workers THEN "data" ELSE "listing"
                                /\ Unzipped \subseteq {"Ok", "ZipError"} /\ Unzipped # {}
                                /\ Workers \cap Listers = {}
                                /\ Unzipped \cup ErrorAnswers \cup {"TransportError"} \subseteq Outcomes
                                /\ MaxListings \in Nat

VARIABLE listings  \* requests the listers have begun

fetchVars == <<vars, clientVars, listings>>

FetchInit == Init /\ ClientInit /\ listings = 0

\* run_task()'s status for what http::get did.
StatusOf(o) == IF o = "Ok" THEN Unzipped ELSE {o}

\* A worker's attempt begins.
FetchBegins(w) == /\ wpc[w] = "fetch"
                  /\ Get(w)
                  /\ UNCHANGED <<vars, listings>>

\* It ends, and run_task() decides whether there is another.
FetchEnds(w) == /\ GetReturns(w)
                /\ \E s \in StatusOf(outcome[w]) : WorkerFetch(w, s)
                /\ UNCHANGED listings

FetchSteps(w) == GetStep(w) /\ UNCHANGED <<vars, listings>>

PoolWorker(w) == \/ WorkerLoop(w) /\ UNCHANGED <<clientVars, listings>>
                 \/ FetchBegins(w) \/ FetchSteps(w) \/ FetchEnds(w)

\* A lister asks for a page.
ListingBegins(g) == /\ listings < MaxListings
                    /\ Get(g)
                    /\ listings' = listings + 1
                    /\ UNCHANGED vars

\* Its page comes, or its exception.
ListingSteps(g) == /\ GetStep(g) \/ GetReturns(g)
                   /\ UNCHANGED <<vars, listings>>

\* Mutant: the connections are closed as soon as the shutdown begins.
PoolShutdown_ClosesFirst(q) ==
    /\ IF qpc[q] = "flag" THEN SetStopping(q) /\ CloseIdle ELSE Shutdown(q) /\ UNCHANGED clientVars
    /\ UNCHANGED listings

\* quiesce(): it closes the idle connections once the tasks are drained.
PoolShutdown(q) == /\ \/ EndQuiesce(q) /\ CloseIdle
                      \/ /\ \/ SetStopping(q) \/ NotifyAll(q) \/ JoinWorkers(q)
                            \/ AwaitSubmits(q) \/ Cancel(q) \/ StampCancelled(q)
                         /\ UNCHANGED clientVars
                   /\ UNCHANGED listings

PoolReader == Reader /\ UNCHANGED <<clientVars, listings>>
Server == ServerCloses /\ UNCHANGED <<vars, listings>>

FetchNext == \/ PoolReader
             \/ \E w \in Workers : PoolWorker(w)
             \/ \E g \in Listers : ListingBegins(g) \/ ListingSteps(g)
             \/ \E q \in Quiescers : \/ Quiesce(q) /\ UNCHANGED <<clientVars, listings>>
                                     \/ PoolShutdown(q)
             \/ Server

\* As for the pool alone; get() is scheduled like everything else its thread
\* does, and its blocking calls return.  The server owes nobody anything.
FetchFairness ==
    /\ WF_fetchVars(PoolReader)
    /\ \A w \in Workers :
          /\ WF_fetchVars(PoolWorker(w))
          /\ SF_fetchVars((WorkerLock(w) \/ WorkerWake(w)) /\ UNCHANGED <<clientVars, listings>>)
    /\ \A q \in Quiescers :
          /\ WF_fetchVars(PoolShutdown(q))
          /\ SF_fetchVars((SetStopping(q) \/ AwaitSubmits(q)) /\ UNCHANGED <<clientVars, listings>>)

FetchSpec == FetchInit /\ [][FetchNext]_fetchVars /\ FetchFairness
-----------------------------------------------------------------------------
(* Properties.                                                             *)

\* The types of the pool, the client and the listers.
FetchTypeOK == TypeOK /\ ClientTypeOK /\ listings \in 0 .. MaxListings

\* "Stops accepting, joins the workers and closes the pooled connections":
\* once a quiesce() has returned no connection that a worker used is open.
\* What a lister holds, or has released since, may be.
ConnectionsClosed ==
    (\E q \in Quiescers : qpc[q] = "returned") =>
        \A c \in Conns : link[c] # "none" => user[c] \in Listers
=============================================================================
