------------------------------ MODULE RateLimit ------------------------------
(***************************************************************************)
(* One key of the rate limiter (rate_limit.py): a fixed window in Redis,   *)
(* which all processes share, and a sliding window in the memory of each   *)
(* process for as long as Redis does not answer it.  Time is kept as the   *)
(* age of what is past and the time left to what is to come.               *)
(***************************************************************************)
EXTENDS Integers, FiniteSets

CONSTANTS
    Limiters,       \* processes with a limiter
    MaxRequests,    \* rule.max_requests
    Window,         \* rule.window_seconds, in ticks
    RetryAfter,     \* ticks for which a process does without Redis
    MaxLosses       \* bound: counts lost in restarts

ASSUME RateAssumption ==
    /\ {MaxRequests, Window} \subseteq Nat \ {0}
    /\ {RetryAfter, MaxLosses} \subseteq Nat
    /\ IsFiniteSet(Limiters)

VARIABLES
    shared,     \* the Redis key: its count, and the ticks it has left
    events,     \* _fallback of each process: how many it allowed at each age
    retryIn,    \* ticks to _retry_at of each process
    allowed,    \* history: requests allowed at each age
    losses      \* history: counts that were lost

rateVars == <<shared, events, retryIn, allowed, losses>>

-----------------------------------------------------------------------------
Ages == 0..(Window - 1)
NoEvents == [a \in Ages |-> 0]
NoKey == [count |-> 0, left |-> 0]

RateInit ==
    /\ shared = NoKey
    /\ events = [p \in Limiters |-> NoEvents]
    /\ retryIn = [p \in Limiters |-> 0]
    /\ allowed = NoEvents
    /\ losses = 0

\* All ages together: one element for each request.
Total(f) == Cardinality(UNION {{a} \X (1..f[a]) : a \in Ages})
OneMore(f) == [f EXCEPT ![0] = @ + 1]

\* A tick later, what was of the last age is out of the window.
Aged(f) == [a \in Ages |-> IF a = 0 THEN 0 ELSE f[a - 1]]

\* _INCREMENT_SCRIPT: the first request of a window sets when it ends.  The
\* count of what is refused is kept up to one beyond the limit.
CountedIn(key) ==
    IF key.count = 0 THEN [count |-> 1, left |-> Window]
    ELSE [key EXCEPT !.count = IF @ > MaxRequests THEN @ ELSE @ + 1]

AllowShared(p) ==
    /\ retryIn[p] = 0
    /\ shared' = CountedIn(shared)
    /\ allowed' = IF shared'.count <= MaxRequests THEN OneMore(allowed) ELSE allowed
    /\ UNCHANGED <<events, retryIn, losses>>

\* Mutant of HasRoom: one request too many.
HasRoomBeyond(f) == Total(f) <= MaxRequests

HasRoom(f) == Total(f) < MaxRequests

\* InMemoryRateLimiter.allow
AllowLocally(p) ==
    IF HasRoom(events[p])
    THEN events' = [events EXCEPT ![p] = OneMore(@)] /\ allowed' = OneMore(allowed)
    ELSE UNCHANGED <<events, allowed>>

\* Within the circuit breaker's interval.
AllowInside(p) ==
    /\ retryIn[p] > 0
    /\ AllowLocally(p)
    /\ UNCHANGED <<shared, retryIn, losses>>

\* Redis fails, and may have counted the request before.
AllowFallback(p) ==
    /\ retryIn[p] = 0
    /\ retryIn' = [retryIn EXCEPT ![p] = RetryAfter]
    /\ shared' \in {shared, CountedIn(shared)}
    /\ AllowLocally(p)
    /\ UNCHANGED losses

\* Redis loses the key, or a process starts anew.
RedisLosesKey ==
    /\ losses < MaxLosses /\ losses' = losses + 1
    /\ shared # NoKey /\ shared' = NoKey
    /\ UNCHANGED <<events, retryIn, allowed>>

LimiterEnds(p) ==
    /\ losses < MaxLosses /\ losses' = losses + 1
    /\ events' = [events EXCEPT ![p] = NoEvents]
    /\ retryIn' = [retryIn EXCEPT ![p] = 0]
    /\ UNCHANGED <<shared, allowed>>

Tick ==
    /\ shared' = IF shared.left <= 1 THEN NoKey ELSE [shared EXCEPT !.left = @ - 1]
    /\ events' = [p \in Limiters |-> Aged(events[p])]
    /\ retryIn' = [p \in Limiters |-> IF retryIn[p] = 0 THEN 0 ELSE retryIn[p] - 1]
    /\ allowed' = Aged(allowed)
    /\ UNCHANGED losses

RateNext ==
    \/ \E p \in Limiters : AllowShared(p) \/ AllowInside(p) \/ AllowFallback(p) \/ LimiterEnds(p)
    \/ RedisLosesKey
    \/ Tick

RateSpec == RateInit /\ [][RateNext]_rateVars

-----------------------------------------------------------------------------
(* Properties. *)

RateTypeOK ==
    /\ shared \in [count : 0..(MaxRequests + 1), left : 0..Window]
    /\ events \in [Limiters -> [Ages -> 0..MaxRequests]]
    /\ retryIn \in [Limiters -> 0..RetryAfter]
    /\ allowed \in [Ages -> Nat]
    /\ losses \in 0..MaxLosses

\* However often Redis comes and goes, no span of the window's length sees more
\* requests than two fixed windows and one sliding window of each process
\* allow, and as many again for each count that was lost.
RateBounded == Total(allowed) <= (2 + Cardinality(Limiters) + losses) * MaxRequests
=============================================================================
