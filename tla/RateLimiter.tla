----------------------------- MODULE RateLimiter -----------------------------
(***************************************************************************)
(* The sliding window rate limiter of the API, in one server process: for  *)
(* each route and API key, the times of the requests let through lately.   *)
(* A check runs to its end before the next one starts: it awaits nothing,  *)
(* and holds a lock.  The clock counts in any unit and does not go back.   *)
(***************************************************************************)
EXTENDS Integers, Sequences, FiniteSets

CONSTANTS
    ApiKeys,        \* the values of the header X-API-Key, "" when there is none
    Limit,          \* settings.api_rate_limit_requests
    Window,         \* settings.api_rate_limit_window_seconds
    MaxClock        \* bound on the clock, for model checking

\* The settings accept any two integers.
ASSUME SettingsAreIntegers == Limit \in Int /\ Window \in Int /\ MaxClock \in Nat

\* What is counted together.  Callers without a key are one caller.
Bucket(route, key) == <<route, IF key = "" THEN "anonymous" ELSE key>>
Buckets == {Bucket(route, key) : route \in {"chat", "approval"}, key \in ApiKeys}

VARIABLES
    windows,        \* _request_windows: a deque of times for each bucket
    admitted,       \* the times of all requests let through, in order
    refusedAt,      \* when each bucket was last answered 429, or Never
    clock

vars == <<windows, admitted, refusedAt, clock>>

Never == -1

Init ==
    /\ windows = [b \in Buckets |-> <<>>]
    /\ admitted = [b \in Buckets |-> <<>>]
    /\ refusedAt = [b \in Buckets |-> Never]
    /\ clock = 0

\* Mutant: a request that is exactly as old as the window is forgotten.
StaleAtTheEdge(t) == clock - t >= Window

Stale(t) == clock - t > Window

\* Exactly the first n times of the bucket's deque are popped.
Pops(b, n) ==
    /\ \A i \in 1 .. n : Stale(windows[b][i])
    /\ n < Len(windows[b]) => ~ Stale(windows[b][n + 1])

Rest(b, n) == SubSeq(windows[b], n + 1, Len(windows[b]))

\* Mutant: the deque is given the time when the request will expire.
AdmitWithExpiry(b) ==
    \E n \in 0 .. Len(windows[b]) :
        /\ Pops(b, n)
        /\ Len(windows[b]) - n < Limit
        /\ windows' = [windows EXCEPT ![b] = Append(Rest(b, n), clock + Window)]
        /\ admitted' = [admitted EXCEPT ![b] = Append(@, clock)]
        /\ UNCHANGED <<refusedAt, clock>>

Admit(b) ==
    \E n \in 0 .. Len(windows[b]) :
        /\ Pops(b, n)
        /\ Len(windows[b]) - n < Limit
        /\ windows' = [windows EXCEPT ![b] = Append(Rest(b, n), clock)]
        /\ admitted' = [admitted EXCEPT ![b] = Append(@, clock)]
        /\ UNCHANGED <<refusedAt, clock>>

\* Mutant: nothing is popped when the deque is full.
RefuseUnpopped(b) ==
    /\ Len(windows[b]) >= Limit
    /\ refusedAt' = [refusedAt EXCEPT ![b] = clock]
    /\ UNCHANGED <<windows, admitted, clock>>

\* A refused request is not counted.
Refuse(b) ==
    \E n \in 0 .. Len(windows[b]) :
        /\ Pops(b, n)
        /\ Len(windows[b]) - n >= Limit
        /\ windows' = [windows EXCEPT ![b] = Rest(b, n)]
        /\ refusedAt' = [refusedAt EXCEPT ![b] = clock]
        /\ UNCHANGED <<admitted, clock>>

Tick ==
    /\ clock < MaxClock
    /\ clock' = clock + 1
    /\ UNCHANGED <<windows, admitted, refusedAt>>

Next == (\E b \in Buckets : Admit(b) \/ Refuse(b)) \/ Tick

Spec == Init /\ [][Next]_vars

-----------------------------------------------------------------------------
Times == 0 .. clock

TypeOK ==
    /\ windows \in [Buckets -> Seq(Times)]
    /\ admitted \in [Buckets -> Seq(Times)]
    /\ refusedAt \in [Buckets -> Times \cup {Never}]
    /\ clock \in Nat

\* Wherever a window is laid over the past, both its ends included, no more
\* than Limit requests of a bucket were let through in it.
WindowRespected ==
    \A b \in Buckets : \A i, j \in 1 .. Len(admitted[b]) :
        j - i >= Limit => admitted[b][j] - admitted[b][i] > Window

\* A request is refused only when the window that ends with it is used up.
RefusalsJustified ==
    \A b \in Buckets : refusedAt[b] # Never =>
        Cardinality({i \in 1 .. Len(admitted[b]) :
                        /\ admitted[b][i] <= refusedAt[b]
                        /\ refusedAt[b] - admitted[b][i] <= Window}) >= Limit

\* The invariant behind WindowRespected: a deque is the end of the history, and
\* what is not in it any more is older than the window.
Forgotten(b) == Len(admitted[b]) - Len(windows[b])

DequesAreRecent ==
    \A b \in Buckets :
        /\ Forgotten(b) >= 0
        /\ \A i \in 1 .. Len(windows[b]) : windows[b][i] = admitted[b][Forgotten(b) + i]
        /\ \A i \in 1 .. Forgotten(b) : Stale(admitted[b][i])
=============================================================================
