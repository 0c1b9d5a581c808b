------------------------------ MODULE LiveSocket ------------------------------
(***************************************************************************)
(* The web sockets of a live class in one process (app/live_ws.py), and    *)
(* the connections to the database they share with its requests            *)
(* (app/db/session.py).  A socket keeps the connection of its first query  *)
(* until it closes.  Its handshake waits for one on the event loop, which  *)
(* therefore stands still: no socket closes meanwhile, and no request of a *)
(* thread gives its connection back at its end.                            *)
(***************************************************************************)
EXTENDS Naturals, FiniteSets

CONSTANTS
    Sockets,    \* web sockets of browsers, which may connect again
    Requests,   \* requests that threads serve
    PoolSize    \* database_pool_size and database_max_overflow

ASSUME PoolAssumption == PoolSize \in Nat \ {0}

VARIABLES
    socket,     \* how far each socket got
    gone,       \* sockets whose browser has left
    seats,      \* _rooms: the sockets that signals are sent to
    request,    \* how far each request got
    free,       \* connections in the pool
    loop        \* the socket whose handshake waits on the event loop, if any

socketVars == <<socket, gone, seats, request, free, loop>>

-----------------------------------------------------------------------------
SocketInit ==
    /\ socket = [s \in Sockets |-> "closed"]
    /\ gone = {}
    /\ seats = {}
    /\ request = [r \in Requests |-> "idle"]
    /\ free = PoolSize
    /\ loop = {}

\* A step of a coroutine: the event loop is not held up.
OnLoop == loop = {}

-----------------------------------------------------------------------------
(* live_signal_socket *)

\* The first query needs a connection.
Connects(s) ==
    /\ OnLoop /\ socket[s] = "closed"
    /\ socket' = [socket EXCEPT ![s] = "asking"]
    /\ gone' = gone \ {s}
    /\ loop' = {s}
    /\ UNCHANGED <<seats, request, free>>

\* With a connection the user is looked up, and the socket takes its seat.
Joins(s) ==
    /\ socket[s] = "asking" /\ free > 0
    /\ socket' = [socket EXCEPT ![s] = "open"]
    /\ seats' = seats \union {s}
    /\ free' = free - 1
    /\ loop' = {}
    /\ UNCHANGED <<gone, request>>

\* The user is unknown or has no part in the class.
IsRefused(s) ==
    /\ socket[s] = "asking" /\ free > 0
    /\ socket' = [socket EXCEPT ![s] = "closed"]
    /\ loop' = {}
    /\ UNCHANGED <<gone, seats, request, free>>

\* pool_timeout: the handshake fails.
TimesOut(s) ==
    /\ socket[s] = "asking"
    /\ socket' = [socket EXCEPT ![s] = "closed"]
    /\ loop' = {}
    /\ UNCHANGED <<gone, seats, request, free>>

\* The browser leaves, or its network does.
BrowserGoes(s) ==
    /\ socket[s] = "open" /\ s \notin gone
    /\ gone' = gone \union {s}
    /\ UNCHANGED <<socket, seats, request, free, loop>>

\* emit: whoever cannot be reached loses the seat.
Signals(s, failing) ==
    /\ OnLoop /\ socket[s] = "open" /\ s \notin gone
    /\ failing # {} /\ failing \subseteq seats \intersect gone
    /\ seats' = seats \ failing
    /\ UNCHANGED <<socket, gone, request, free, loop>>

\* disconnect
Leaves(s) ==
    /\ OnLoop /\ socket[s] = "open" /\ s \in gone
    /\ socket' = [socket EXCEPT ![s] = "leaving"]
    /\ seats' = seats \ {s}
    /\ UNCHANGED <<gone, request, free, loop>>

\* The others have been told, and the session is closed.
Closes(s) ==
    /\ OnLoop /\ socket[s] = "leaving"
    /\ socket' = [socket EXCEPT ![s] = "closed"]
    /\ free' = free + 1
    /\ UNCHANGED <<gone, seats, request, loop>>

-----------------------------------------------------------------------------
(* Requests: a thread waits for the connection; the coroutine that waits   *)
(* for the thread ends the session (get_db).                               *)

RequestArrives(r) ==
    /\ OnLoop /\ request[r] = "idle"
    /\ request' = [request EXCEPT ![r] = "waiting"]
    /\ UNCHANGED <<socket, gone, seats, free, loop>>

RequestTakes(r) ==
    /\ request[r] = "waiting" /\ free > 0
    /\ request' = [request EXCEPT ![r] = "serving"]
    /\ free' = free - 1
    /\ UNCHANGED <<socket, gone, seats, loop>>

\* A commit gives the connection back at once, and a timeout has none.
RequestCommits(r) ==
    /\ request[r] = "serving"
    /\ request' = [request EXCEPT ![r] = "answering"]
    /\ free' = free + 1
    /\ UNCHANGED <<socket, gone, seats, loop>>

RequestTimesOut(r) ==
    /\ request[r] = "waiting"
    /\ request' = [request EXCEPT ![r] = "answering"]
    /\ UNCHANGED <<socket, gone, seats, free, loop>>

RequestEnds(r) ==
    /\ OnLoop /\ request[r] \in {"serving", "answering"}
    /\ request' = [request EXCEPT ![r] = "idle"]
    /\ free' = IF request[r] = "serving" THEN free + 1 ELSE free
    /\ UNCHANGED <<socket, gone, seats, loop>>

SocketNext ==
    \/ \E s \in Sockets :
         \/ Connects(s) \/ Joins(s) \/ IsRefused(s) \/ TimesOut(s)
         \/ BrowserGoes(s) \/ Leaves(s) \/ Closes(s)
         \/ \E failing \in SUBSET Sockets : Signals(s, failing)
    \/ \E r \in Requests :
         \/ RequestArrives(r) \/ RequestTakes(r) \/ RequestTimesOut(r)
         \/ RequestCommits(r) \/ RequestEnds(r)

\* The pool's timeout comes (QueuePool counts it itself).
SocketFairness == WF_socketVars(\E s \in Sockets : TimesOut(s))

SocketSpec == SocketInit /\ [][SocketNext]_socketVars
SocketFairSpec == SocketSpec /\ SocketFairness

-----------------------------------------------------------------------------
(* Properties. *)

SocketTypeOK ==
    /\ socket \in [Sockets -> {"closed", "asking", "open", "leaving"}]
    /\ gone \subseteq Sockets /\ seats \subseteq Sockets
    /\ request \in [Requests -> {"idle", "waiting", "serving", "answering"}]
    /\ free \in 0..PoolSize
    /\ loop \subseteq Sockets

Holding == {s \in Sockets : socket[s] \in {"open", "leaving"}}
Serving == {r \in Requests : request[r] = "serving"}

\* No connection is lost and none is given out twice, whatever way a socket or
\* a request ends; signals go to open sockets only; and one handshake at a time
\* holds the event loop up.
PoolIsWhole ==
    /\ free + Cardinality(Holding) + Cardinality(Serving) = PoolSize
    /\ \A s \in seats : socket[s] = "open"
    /\ loop = {s \in Sockets : socket[s] = "asking"}

\* The event loop goes on after every handshake, though sockets and requests
\* may hold all connections, and none of them can give one back before.
LoopGoesOn == (loop # {}) ~> (loop = {})
=============================================================================
