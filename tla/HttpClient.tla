----------------------------- MODULE HttpClient -----------------------------
(***************************************************************************)
(* data_source/network/http/client.cpp: http::get over the process-wide    *)
(* ConnectionPool, and close_idle_connections().                           *)
(*                                                                         *)
(* Everything that touches the pool's deques does so under its mutex and   *)
(* lets go of it before it does anything else, so each such section is one *)
(* step, with what the caller does alone just before it.  Dialling and the *)
(* request itself happen outside the mutex.  A dial's attempts concern no  *)
(* other thread: it connects, or all HttpRetries + 1 of them fail.  A      *)
(* caller asks one host, and a connection is what it is to the server:     *)
(* live, or closed without the client having noticed.  The servers         *)
(* (external) may refuse dials, drop a connection at any time, or answer   *)
(* anything.                                                               *)
(***************************************************************************)
EXTENDS Integers, Sequences, FiniteSets

CONSTANTS Callers,        \* threads that call http::get
          HostOf,         \* the host each asks
          HttpRetries,    \* HttpConfig::max_retries
          IdleCap,        \* max_connections_per_host, per caller's HttpConfig
          ErrorAnswers,   \* what the server answers besides 2xx: "NotFound", "ServerError"
          MaxConns,       \* bound: Connection objects that exist at once
          NoConn

Conns == 1 .. MaxConns
Hosts == {HostOf[g] : g \in Callers}

ASSUME ClientAssumption ==
    /\ HttpRetries \in Nat /\ IdleCap \in [Callers -> Nat] /\ MaxConns \in Nat
    /\ ErrorAnswers \subseteq {"NotFound", "ServerError"}
    /\ NoConn \notin Conns

VARIABLES idle,       \* pool_: per host the deque of idle connections
          link,       \* what has become of each Connection object
          gpc,        \* where each caller is in get()
          held,       \* the connection it holds
          reused,     \* whether that one came off the pool
          tries,      \* get()'s attempt
          outcome,    \* what get() is about to return or throw
          user,       \* history: who last held a connection
          freshFails  \* history: whether this get()'s dials, or a request on a fresh one, failed

clientVars == <<idle, link, gpc, held, reused, tries, outcome, user, freshFails>>

\* A 2xx body, one of the server's other answers, or an HttpTransportError.
GetOutcomes == {"Ok", "TransportError"} \cup ErrorAnswers

ClientInit ==
    /\ idle = [h \in Hosts |-> << >>] /\ link = [c \in Conns |-> "none"]
    /\ gpc = [g \in Callers |-> "out"] /\ held = [g \in Callers |-> NoConn]
    /\ reused = [g \in Callers |-> FALSE]
    /\ tries = [g \in Callers |-> 0]
    /\ outcome = [g \in Callers |-> "Ok"]
    /\ user = [c \in Conns |-> NoConn]
    /\ freshFails = [g \in Callers |-> FALSE]

Moves(g, here, there) == gpc[g] = here /\ gpc' = [gpc EXCEPT ![g] = there]

\* get() returns or throws o; the connection it may still hold is destroyed.
EndGet(g, here, o) ==
    /\ Moves(g, here, "back")
    /\ outcome' = [outcome EXCEPT ![g] = o]
    /\ held' = [held EXCEPT ![g] = NoConn]

\* ~Connection closes the socket.
Destroy(c) == /\ link' = [link EXCEPT ![c] = "none"]
              /\ user' = [user EXCEPT ![c] = NoConn]

Pooled(g) == idle[HostOf[g]]

\* acquire(), in get()'s first attempt or a later one: the connection to the
\* host that was released last, or a dial.
Acquire(g, here) ==
    /\ IF Pooled(g) # << >>
       THEN LET last == Pooled(g)[Len(Pooled(g))]
            IN  /\ Moves(g, here, "request")
                /\ held' = [held EXCEPT ![g] = last]
                /\ user' = [user EXCEPT ![last] = g]
                /\ idle' = [idle EXCEPT ![HostOf[g]] = SubSeq(@, 1, Len(@) - 1)]
       ELSE Moves(g, here, "dial") /\ UNCHANGED <<held, user, idle>>
    /\ reused' = [reused EXCEPT ![g] = Pooled(g) # << >>]
    /\ UNCHANGED <<link, tries, outcome, freshFails>>

Get(g) == Acquire(g, "out")

NewConn == CHOOSE c \in Conns : link[c] = "none" /\ \A d \in Conns : link[d] = "none" => c <= d

\* dial(): connected, or given up after its last attempt.
DialConnects(g) == /\ Moves(g, "dial", "request")
                   /\ \E c \in Conns : link[c] = "none"
                   /\ held' = [held EXCEPT ![g] = NewConn]
                   /\ link' = [link EXCEPT ![NewConn] = "live"]
                   /\ user' = [user EXCEPT ![NewConn] = g]
                   /\ UNCHANGED <<idle, reused, tries, outcome, freshFails>>

DialFails(g) == /\ EndGet(g, "dial", "TransportError")
                /\ freshFails' = [freshFails EXCEPT ![g] = TRUE]
                /\ UNCHANGED <<idle, link, reused, tries, user>>

\* Mutant: the attempts of get() are numbered from one.
RetryRequest_OneShort(g) == reused[g] /\ tries[g] + 1 < HttpRetries

\* A request that failed on a pooled connection is worth another attempt.
RetryRequest(g) == reused[g] /\ tries[g] < HttpRetries

\* write or read throws: the server had closed the connection, or it breaks
\* now.
RequestFails(g) ==
    /\ gpc[g] = "request"
    /\ Destroy(held[g])
    /\ freshFails' = [freshFails EXCEPT ![g] = @ \/ ~reused[g]]
    /\ IF RetryRequest(g)
       THEN /\ Moves(g, "request", "again")
            /\ held' = [held EXCEPT ![g] = NoConn]
            /\ tries' = [tries EXCEPT ![g] = @ + 1] /\ UNCHANGED outcome
       ELSE EndGet(g, "request", "TransportError") /\ UNCHANGED tries
    /\ UNCHANGED <<idle, reused>>

\* A 2xx response, then release(): the connection is kept unless the host has
\* its fill.
Answers2xx(g) == /\ gpc[g] = "request" /\ link[held[g]] = "live"
                 /\ EndGet(g, "request", "Ok")
                 /\ IF Len(Pooled(g)) < IdleCap[g]
                    THEN /\ idle' = [idle EXCEPT ![HostOf[g]] = Append(@, held[g])]
                         /\ UNCHANGED <<link, user>>
                    ELSE Destroy(held[g]) /\ UNCHANGED idle
                 /\ UNCHANGED <<reused, tries, freshFails>>

\* Any other response: the connection is closed.
AnswersError(g) == /\ gpc[g] = "request" /\ link[held[g]] = "live"
                   /\ \E o \in ErrorAnswers : EndGet(g, "request", o)
                   /\ Destroy(held[g])
                   /\ UNCHANGED <<idle, reused, tries, freshFails>>

\* The caller has the body, or the exception; get()'s locals are gone.
GetReturns(g) == /\ Moves(g, "back", "out")
                 /\ reused' = [reused EXCEPT ![g] = FALSE]
                 /\ tries' = [tries EXCEPT ![g] = 0]
                 /\ outcome' = [outcome EXCEPT ![g] = "Ok"]
                 /\ freshFails' = [freshFails EXCEPT ![g] = FALSE]
                 /\ UNCHANGED <<idle, link, held, user>>

\* close_idle(): every deque is cleared.
IdleConns == {c \in Conns : \E h \in Hosts : \E i \in DOMAIN idle[h] : c = idle[h][i]}
CloseIdle == /\ idle' = [h \in Hosts |-> << >>]
             /\ link' = [c \in Conns |-> IF c \in IdleConns THEN "none" ELSE link[c]]
             /\ user' = [c \in Conns |-> IF c \in IdleConns THEN NoConn ELSE user[c]]
             /\ UNCHANGED <<gpc, held, reused, tries, outcome, freshFails>>

\* The server (external) closes a connection the client keeps idle.
ServerCloses == /\ \E c \in IdleConns : link[c] = "live" /\ link' = [link EXCEPT ![c] = "closed"]
                /\ UNCHANGED <<idle, gpc, held, reused, tries, outcome, user, freshFails>>

\* get() from its first attempt to the moment it returns.
GetStep(g) == \/ Acquire(g, "again") \/ DialConnects(g) \/ DialFails(g) \/ RequestFails(g)
              \/ Answers2xx(g) \/ AnswersError(g)
-----------------------------------------------------------------------------
(* Properties.                                                             *)

\* The types of the pool and the callers.
ClientTypeOK == /\ idle \in [Hosts -> Seq(Conns)] /\ link \in [Conns -> {"none", "live", "closed"}]
                /\ gpc \in [Callers -> {"out", "dial", "request", "again", "back"}]
                /\ held \in [Callers -> Conns \cup {NoConn}] /\ reused \in [Callers -> BOOLEAN]
                /\ tries \in [Callers -> 0 .. HttpRetries]
                /\ outcome \in [Callers -> GetOutcomes]
                /\ user \in [Conns -> Callers \cup {NoConn}]
                /\ freshFails \in [Callers -> BOOLEAN]

GivesUp(g) == gpc[g] = "back" /\ outcome[g] = "TransportError"

\* A pooled connection the server had closed is the client's own affair: as
\* long as nobody else asks the same host, so that the pool has one connection
\* at most, get() throws HttpTransportError only if the server refused it
\* afresh, on every attempt of a dial or on a request over a connection just
\* dialled.
RedialsWhenAlone ==
    \A g \in Callers : (\A h \in Callers \ {g} : HostOf[h] # HostOf[g]) =>
        (HttpRetries > 0 /\ GivesUp(g) => freshFails[g])

\* "Redialing is the fix, and it is not a failed request, so it does not count
\* as one": no get() throws for dead pooled connections alone.
DeadPooledIsNoFailure == \A g \in Callers : GivesUp(g) => freshFails[g]
=============================================================================
